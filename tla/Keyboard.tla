------------------------------ MODULE Keyboard ------------------------------
(***************************************************************************)
(* A player at the keyboard and the voice allocator of Voices: every key   *)
(* press reaches MIDI_Note_On and every release MIDI_Note_Off, in order.   *)
(* The player holds at most MaxHeld keys, which may be more than there are *)
(* channels.                                                               *)
(***************************************************************************)
EXTENDS Voices

CONSTANT MaxHeld

ASSUME KeyboardAssumption == MaxHeld \in Nat

VARIABLES
  held,      \* the keys that are down
  crowded    \* history: more keys were once down than there are channels

vars ==
  <<noteOn, notePlayedNumber, notesPlayed, keyOn, pitch, hung, held, crowded>>

Init ==
  /\ VoicesInit
  /\ held = {}
  /\ crowded = FALSE

PressKey(n) ==
  /\ ~hung
  /\ n \notin held
  /\ Cardinality(held) < MaxHeld
  /\ held' = held \cup {n}
  /\ crowded' = (crowded \/ Cardinality(held) >= NumChannels)
  /\ MIDI_Note_On(n)

ReleaseKey(n) ==
  /\ ~hung
  /\ n \in held
  /\ held' = held \ {n}
  /\ UNCHANGED crowded
  /\ MIDI_Note_Off(n)

Next == \E n \in Notes : PressKey(n) \/ ReleaseKey(n)

Spec == Init /\ [][Next]_vars

-----------------------------------------------------------------------------
(* Type correctness of the allocator and of the player's hands.            *)
TypeOK ==
  /\ VoicesTypeOK
  /\ held \subseteq Notes
  /\ crowded \in BOOLEAN

On == {i \in Channels : noteOn[i]}

(* While no more keys were ever down than there are channels, a release    *)
(* never sends MIDI_Note_Off out of its arrays: the note of every key that *)
(* is down is found.                                                       *)
NeverHangs == ~crowded => ~hung

(* Every key that is down sounds on one channel, with the KEY ON bit set   *)
(* and the pitch of that key; no other channel sounds.                     *)
OneVoicePerKey ==
  ~crowded =>
    /\ \A n \in held : \E i \in Channels :
         /\ Plays(i, n) /\ keyOn[i] /\ pitch[i] = Pitch(n)
         /\ \A j \in Channels \ {i} : ~Plays(j, n)
    /\ \A i \in Channels : keyOn[i] => notePlayedNumber[i] \in held

(* notesPlayed, incremented and decremented in two handlers, never drifts  *)
(* from the number of keys that are down.                                  *)
NotesCounted == ~crowded => notesPlayed = Cardinality(held)

(* A key press or release never moves a note that goes on sounding to      *)
(* another channel, retunes it or interrupts it.                           *)
SoundingUndisturbed ==
  [][~crowded' =>
       \A i \in Channels :
         keyOn[i] /\ notePlayedNumber[i] \in held'
           => keyOn'[i] /\ pitch'[i] = pitch[i]]_vars

(* A channel never sounds unbeknownst to the allocator, whatever           *)
(* MIDI_Note_Off damages once it scans beyond its arrays: a key press picks*)
(* a channel whose KEY ON bit is clear, so every press retriggers the      *)
(* envelope and playNote need not key the channel off first.               *)
NeverSoundsWhenFree ==
  \A i \in Channels : keyOn[i] => noteOn[i]

(* What one hears, and the promise made to the player, who is asked not to *)
(* press more keys than there are channels.                                *)
Heard == {notePlayedNumber[i] : i \in {c \in Channels : keyOn[c]}}
Promise == INSTANCE Polyphony
             WITH Voices <- NumChannels, sounding <- Heard, excused <- crowded
(* MIDI_Note_On and MIDI_Note_Off implement Polyphony.                     *)
KeepsPromise == Promise!Spec
=============================================================================
