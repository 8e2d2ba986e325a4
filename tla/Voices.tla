------------------------------- MODULE Voices -------------------------------
(***************************************************************************)
(* The voice allocator of User/headers/YM3812/OPL2.c: MIDI_Note_On gives a *)
(* note the lowest free channel of the YM3812, MIDI_Note_Off releases the  *)
(* highest channel that plays it.  Both run inside the interrupt handler   *)
(* of USART3, so one call is one step.                                     *)
(*                                                                         *)
(* The loop of MIDI_Note_Off counts an unsigned byte down and tests        *)
(* i >= 0, which always holds: when no channel plays the note it goes on   *)
(* with 255, 254, ... and reads beyond both arrays.  In the linked image   *)
(* notePlayedNumber lies Distance = 12 bytes after noteOn and the shadow   *)
(* operatorRegisters another 12 bytes on, with zero padding between the    *)
(* arrays.  The scan either meets a pair of bytes that looks like the note *)
(* or never ends.                                                          *)
(***************************************************************************)
EXTENDS Integers, FiniteSets

CONSTANTS
  NumChannels,   \* OPL2_NUM_CHANNELS
  Notes,         \* the MIDI note numbers played
  Distance       \* notePlayedNumber - noteOn, in bytes

ASSUME VoicesAssumption ==
  /\ NumChannels \in Nat \ {0}
  /\ Notes \subseteq 0..127
  /\ Distance \in Nat
  /\ NumChannels <= Distance
  /\ Distance + NumChannels < 128

VARIABLES
  noteOn,             \* the channel plays a note
  notePlayedNumber,   \* the note it plays, 0 when it is free
  notesPlayed,        \* uint8_t, how many notes are playing
  keyOn,              \* the KEY ON bit of the channel's 0xB0 register
  pitch,              \* block and F-number of its 0xB0 and 0xA0 registers
  hung                \* MIDI_Note_Off scans memory for ever

voiceVars == <<noteOn, notePlayedNumber, notesPlayed, keyOn, pitch, hung>>

Channels  == 0 .. NumChannels - 1
NUM_OCTAVES == 7

VoicesInit ==
  /\ noteOn = [i \in Channels |-> FALSE]
  /\ notePlayedNumber = [i \in Channels |-> 0]
  /\ notesPlayed = 0
  /\ keyOn = [i \in Channels |-> FALSE]
  /\ pitch = [i \in Channels |-> [block |-> 0, note |-> 0]]
  /\ hung = FALSE

-----------------------------------------------------------------------------
(* The octave is lowered by two in an unsigned byte, then cut off at 7;    *)
(* the F-number is picked from a table by the note within the octave.      *)
Pitch(note) ==
  LET octave == (note \div 12 - 2) % 256
  IN  [block |-> IF octave > NUM_OCTAVES THEN NUM_OCTAVES ELSE octave,
       note  |-> note % 12]

(* Mutant: noteOn is not consulted, so note 0 looks free. *)
FreeByNumber(i) == notePlayedNumber[i] = 0

Free(i) == ~noteOn[i] /\ notePlayedNumber[i] = 0

MIDI_Note_On(note) ==
  \/ \E i \in Channels :
       /\ Free(i)
       /\ \A j \in Channels : j < i => ~Free(j)
       /\ notePlayedNumber' = [notePlayedNumber EXCEPT ![i] = note]
       /\ noteOn' = [noteOn EXCEPT ![i] = TRUE]
       /\ notesPlayed' = (notesPlayed + 1) % 256
       /\ pitch' = [pitch EXCEPT ![i] = Pitch(note)]
       /\ keyOn' = [keyOn EXCEPT ![i] = TRUE]
       /\ UNCHANGED hung
  \/ /\ \A i \in Channels : ~Free(i)
     /\ UNCHANGED voiceVars

-----------------------------------------------------------------------------
(* Mutant: any playing channel will do. *)
PlaysAny(i, note) == noteOn[i]

Plays(i, note) == noteOn[i] /\ notePlayedNumber[i] = note

(* Mutant: setKeyOn(i, false) forgotten. *)
ReleaseStillKeyed(note) ==
  \E i \in Channels :
    /\ Plays(i, note)
    /\ notePlayedNumber' = [notePlayedNumber EXCEPT ![i] = 0]
    /\ noteOn' = [noteOn EXCEPT ![i] = FALSE]
    /\ notesPlayed' = (notesPlayed - 1) % 256
    /\ UNCHANGED <<keyOn, pitch, hung>>

Release(note) ==
  \E i \in Channels :
    /\ Plays(i, note)
    /\ \A j \in Channels : j > i => ~Plays(j, note)
    /\ notePlayedNumber' = [notePlayedNumber EXCEPT ![i] = 0]
    /\ noteOn' = [noteOn EXCEPT ![i] = FALSE]
    /\ keyOn' = [keyOn EXCEPT ![i] = FALSE]
    /\ notesPlayed' = (notesPlayed - 1) % 256
    /\ UNCHANGED <<pitch, hung>>

(* The scan beyond the arrays.  At j in the image of notePlayedNumber the  *)
(* byte read as noteOn[j] is the note of channel j - Distance; further on  *)
(* both bytes belong to variables this module does not hold.  The padding  *)
(* never matches.  A match clears both bytes and the KEY ON bit of the     *)
(* channel the index is congruent to; of the indices further on, up to 255,*)
(* one for each channel stands for all.                                    *)
Aliased == Distance .. Distance + NumChannels - 1
Beyond  == 2 * Distance .. 2 * Distance + NumChannels - 1

MatchOutside(j) ==
  /\ \/ /\ j \in Aliased
        /\ notePlayedNumber[j - Distance] # 0
        /\ notePlayedNumber' = [notePlayedNumber EXCEPT ![j - Distance] = 0]
     \/ /\ j \in Beyond
        /\ UNCHANGED notePlayedNumber
  /\ keyOn' = [keyOn EXCEPT ![j % NumChannels] = FALSE]
  /\ notesPlayed' = (notesPlayed - 1) % 256
  /\ UNCHANGED <<noteOn, pitch, hung>>

ScanForEver ==
  /\ hung' = TRUE
  /\ UNCHANGED <<noteOn, notePlayedNumber, notesPlayed, keyOn, pitch>>

MIDI_Note_Off(note) ==
  \/ Release(note)
  \/ /\ \A i \in Channels : ~Plays(i, note)
     /\ \/ \E j \in Aliased \cup Beyond : MatchOutside(j)
        \/ ScanForEver

-----------------------------------------------------------------------------
(* The allocator's arrays hold flags, notes and pitches the code can write.*)
VoicesTypeOK ==
  /\ noteOn \in [Channels -> BOOLEAN]
  /\ notePlayedNumber \in [Channels -> 0..127]
  /\ notesPlayed \in 0..255
  /\ keyOn \in [Channels -> BOOLEAN]
  /\ pitch \in [Channels -> [block : 0..NUM_OCTAVES, note : 0..11]]
  /\ hung \in BOOLEAN
=============================================================================
