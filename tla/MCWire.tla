------------------------------- MODULE MCWire -------------------------------
(***************************************************************************)
(* Values for the constants of Wire: channel pressure, which sets the      *)
(* command length to two, and a control change, which leaves it alone.     *)
(***************************************************************************)
EXTENDS Wire

PressureAndControl == {<<208, 4>>, <<176, 1, 100>>}
=============================================================================
