---------------------------- MODULE NoteChannel -----------------------------
(***************************************************************************)
(* What the receiver promises of a line that may drop bytes: the messages  *)
(* are taken one after another, each is acted on once, as it says, when it *)
(* ends, or is missed; nothing else is ever acted on.  Of a line that      *)
(* carries noise nothing is promised.                                      *)
(***************************************************************************)
CONSTANTS
  Messages,     \* the messages a keyboard sends
  Silence,      \* no message
  Meaning(_),   \* the callback a message asks for
  NoCall        \* no callback

VARIABLES
  message,   \* the message on the line
  call,      \* the callback just made
  noise      \* whether the line carries anything but messages

Init ==
  /\ message = Silence
  /\ call = NoCall
  /\ noise \in BOOLEAN

Start(m) ==
  /\ message = Silence
  /\ message' = m
  /\ call' = NoCall

Quiet ==
  /\ call' = NoCall
  /\ UNCHANGED message

Deliver ==
  /\ message # Silence
  /\ call' = Meaning(message)
  /\ message' = Silence

Miss ==
  /\ message # Silence
  /\ call' = NoCall
  /\ message' = Silence

Next ==
  /\ UNCHANGED noise
  /\ ~noise => Quiet \/ Deliver \/ Miss \/ \E m \in Messages : Start(m)

Spec == Init /\ [][Next]_<<message, call, noise>>
=============================================================================
