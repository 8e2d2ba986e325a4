------------------------------ MODULE MCThreads ------------------------------
EXTENDS Threads, TLC

CONSTANTS main, a, b, tidle

Prios == (main :> 1) @@ (a :> 0) @@ (b :> 1) @@ (tidle :> 2)
Slices == (main :> 1) @@ (a :> 1) @@ (b :> 2) @@ (tidle :> 1)
=============================================================================
