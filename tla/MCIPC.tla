------------------------------- MODULE MCIPC -------------------------------
(* Three threads of two priorities and interrupt handlers that use one     *)
(* object, of a kind that Init chooses.                                    *)
EXTENDS Objects, TLC

CONSTANTS ta, tb, tc, idle, bit1, bit2, val1, val2

Threads == {ta, tb, tc, idle}
Priorities == ta :> 0 @@ tb :> 1 @@ tc :> 1 @@ idle :> 2
Slices == [t \in Threads |-> 1]
Asks == {[asked |-> {bit1, bit2}, all |-> TRUE, clear |-> TRUE],
         [asked |-> {bit1, bit2}, all |-> FALSE, clear |-> TRUE],
         [asked |-> {bit2}, all |-> TRUE, clear |-> FALSE]}
WaitTimes == {0, 1, -1}
NoTime == -1
Sleepers == [kind \in {"sem", "mutex", "event", "mailbox", "queue"} |->
               IF kind \in {"event", "queue"} THEN {} ELSE {ta}]
Orders == [kind \in {"sem", "mutex", "event", "mailbox", "queue"} |->
             CASE kind \in {"event", "mailbox"} -> {"PRIO"}
               [] kind = "queue" -> {"FIFO"}
               [] OTHER -> {"FIFO", "PRIO"}]
Symmetry == Permutations({tb, tc}) \cup Permutations({val1, val2})

(* What no thread reads again does not distinguish states: the error of a  *)
(* thread that makes no call, values in free places.                       *)
UsedPlace(i) == \E n \in 1..obj.entry : i = (obj.out_offset + n - 1) % MailSize
FreeNodes == LET free == InFree IN {free[i] : i \in 1..Len(free)}
View ==
  <<[k EXCEPT !.error = [t \in Thread |-> IF Bound(t, "user") \/ Bound(t, "slept") THEN "EOK" ELSE @[t]]],
    call, due,
    IF obj.kind = "mailbox"
    THEN [obj EXCEPT !.msg_pool = [i \in DOMAIN @ |-> IF UsedPlace(i) THEN @[i] ELSE NoValue]]
    ELSE IF obj.kind = "queue"
    THEN LET free == FreeNodes
         IN  [obj EXCEPT !.data = [n \in Node |-> IF n \in free THEN NoValue ELSE @[n]]]
    ELSE obj>>
==============================================================================
