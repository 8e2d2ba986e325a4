------------------------------- MODULE Channel -------------------------------
(***************************************************************************)
(* What mailboxes and message queues promise: the values that were sent    *)
(* and not received, at most Capacity of them, in the order in which they  *)
(* will be received; every value goes to one receiver.                     *)
(***************************************************************************)
EXTENDS Naturals, Sequences

CONSTANTS
  Receiver,     \* who may receive
  Value,        \* the values
  Ahead,        \* those that may be sent urgently, before all others
  Capacity,     \* how many values there may be
  Nothing       \* what a receiver has that has received nothing

VARIABLES
  chan,         \* the values in the channel
  got           \* what each receiver has received and not yet used

Init == chan = <<>> /\ got = [r \in Receiver |-> Nothing]

Send(v) ==
  /\ Len(chan) < Capacity
  /\ chan' = Append(chan, v)
  /\ UNCHANGED got

SendUrgent(v) ==
  /\ Len(chan) < Capacity
  /\ chan' = <<v>> \o chan
  /\ UNCHANGED got

Receive(r) ==
  /\ chan # <<>>
  /\ chan' = Tail(chan)
  /\ got' = [got EXCEPT ![r] = Head(chan)]

Use(r) == got' = [got EXCEPT ![r] = Nothing] /\ UNCHANGED chan

Reset == chan' = <<>> /\ UNCHANGED got

Next ==
  \/ \E v \in Value : Send(v)
  \/ \E v \in Ahead : SendUrgent(v)
  \/ \E r \in Receiver : Receive(r) \/ Use(r)
  \/ Reset

Spec == Init /\ [][Next]_<<chan, got>>
=============================================================================
