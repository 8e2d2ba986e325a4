----------------------------- MODULE Polyphony ------------------------------
(***************************************************************************)
(* What the synthesizer promises a player: a key sounds from the moment it *)
(* is pressed until the moment it is released, and pressing or releasing a *)
(* key changes what no other key sounds.  At most Voices keys sound        *)
(* together; once more were pressed nothing is promised any more.          *)
(***************************************************************************)
EXTENDS FiniteSets, Integers

CONSTANTS
  Notes,    \* the keys, by MIDI note number
  Voices    \* the channels of the YM3812

VARIABLES
  held,       \* the keys that are down
  sounding,   \* the keys one hears
  excused     \* whether more keys were pressed than can sound

Init ==
  /\ held = {}
  /\ sounding = {}
  /\ excused = FALSE

Press(n) ==
  /\ n \notin held
  /\ held' = held \cup {n}
  /\ Cardinality(held) < Voices
  /\ sounding' = sounding \cup {n}

LetGo(n) ==
  /\ n \in held
  /\ held' = held \ {n}
  /\ sounding' = sounding \ {n}

PressTooMany ==
  /\ Cardinality(held) >= Voices
  /\ excused'

Next ==
  \/ ~excused' /\ \E n \in Notes : Press(n) \/ LetGo(n)
  \/ PressTooMany
  \/ excused /\ excused'

Spec == Init /\ [][Next]_<<held, sounding, excused>>
=============================================================================
