------------------------------- MODULE Prompt -------------------------------
(***************************************************************************)
(* What a person at the shell's prompt expects: a text with a cursor in    *)
(* it, and the commands entered before, which the arrow keys bring back.   *)
(***************************************************************************)
EXTENDS Naturals, SequencesExt

CONSTANTS
  Character,    \* what can be typed
  Room,         \* how many characters a text can have
  Remembers,    \* how many commands are remembered
  Command       \* the names the shell completes to

VARIABLES
  text,         \* the text
  cursor,       \* how many of its characters are before the cursor
  remembered,   \* the commands entered before, oldest first
  shown         \* how many of them are older than the one shown

vars == <<text, cursor, remembered, shown>>

Init == text = <<>> /\ cursor = 0 /\ remembered = <<>> /\ shown = 0

Type(c) ==
  /\ Len(text) < Room
  /\ text' = InsertAt(text, cursor + 1, c)
  /\ cursor' = cursor + 1
  /\ UNCHANGED <<remembered, shown>>

(* One character too many gives the text up.                               *)
TypeTooMuch ==
  /\ Len(text) = Room
  /\ text' = <<>> /\ cursor' = 0
  /\ UNCHANGED <<remembered, shown>>

Erase ==
  /\ cursor > 0
  /\ text' = RemoveAt(text, cursor)
  /\ cursor' = cursor - 1
  /\ UNCHANGED <<remembered, shown>>

Move ==
  /\ cursor' \in {cursor - 1, cursor + 1} \cap 0..Len(text)
  /\ UNCHANGED <<text, remembered, shown>>

(* The one before, the one after, or the last again.                       *)
Recall ==
  /\ shown' \in {shown - 1, shown + 1, Len(remembered) - 1} \cap 0..Len(remembered) - 1
  /\ text' = remembered[shown' + 1]
  /\ cursor' = Len(text')
  /\ UNCHANGED remembered

Complete ==
  /\ \E c \in Command : \E i \in Len(text)..Len(c) :
       IsPrefix(text, c) /\ text' = SubSeq(c, 1, i)
  /\ cursor' = Len(text')
  /\ UNCHANGED <<remembered, shown>>

NothingToComplete ==
  /\ \A c \in Command : text = <<>> \/ ~IsPrefix(text, c)
  /\ cursor' = Len(text)
  /\ UNCHANGED <<text, remembered, shown>>

(* An empty text is not remembered; one entered twice need not be.         *)
Enter ==
  /\ \/ text # <<>>
        /\ LET all == Append(remembered, text)
           IN  remembered' = IF Len(all) > Remembers THEN Tail(all) ELSE all
     \/ text = <<>> /\ UNCHANGED remembered
     \/ remembered # <<>> /\ Last(remembered) = text /\ UNCHANGED remembered
  /\ text' = <<>> /\ cursor' = 0
  /\ shown' = Len(remembered')

Next ==
  \/ \E c \in Character : Type(c)
  \/ TypeTooMuch \/ Erase \/ Move \/ Recall
  \/ Complete \/ NothingToComplete \/ Enter

Spec == Init /\ [][Next]_vars
=============================================================================
