------------------------------- MODULE Recent -------------------------------
(***************************************************************************)
(* A buffer that never refuses: when it is full the oldest item makes room.*)
(* What is taken out comes in the order in which it was put in.            *)
(***************************************************************************)
EXTENDS Naturals, Sequences

CONSTANTS
  Item, Capacity,
  Nothing       \* what is in hand when nothing is

VARIABLES
  items,        \* oldest first
  taken         \* the item in hand

Init == items = <<>> /\ taken = Nothing

Put(i) ==
  /\ items' = IF Len(items) < Capacity THEN Append(items, i)
              ELSE Append(Tail(items), i)
  /\ UNCHANGED taken

Take ==
  /\ items # <<>>
  /\ items' = Tail(items)
  /\ taken' = Head(items)

Use == taken' = Nothing /\ UNCHANGED items

Next == Take \/ Use \/ \E i \in Item : Put(i)

Spec == Init /\ [][Next]_<<items, taken>>
=============================================================================
