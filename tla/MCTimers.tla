------------------------------ MODULE MCTimers ------------------------------
(* Timers of threads and callbacks that are used alike are interchangeable; *)
(* a time-out is read of a timer that is listed or about to be listed.      *)
EXTENDS Timers, TLC

Symmetry == Permutations(Shared)

View == <<rt_tick, [timers EXCEPT !.timeout_tick =
                     [t \in Timer |-> IF Started(t) THEN @[t] ELSE 0]],
          api, isr, fired, left, stopped>>
=============================================================================
