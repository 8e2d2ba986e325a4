------------------------------ MODULE MCConsole ------------------------------
(***************************************************************************)
(* Values for the constants of Console: two commands that have a character *)
(* in common.  Of the ring only its contents matter, not where they are.   *)
(***************************************************************************)
EXTENDS Console

Names == {<<"x", "y">>, <<"x", "x">>}

View ==
  <<shell, burst, datar, rxne, Contents, fifo.is_full, isr, rx_sem, thread, ch, overread>>
=============================================================================
