------------------------------- MODULE Resync -------------------------------
(***************************************************************************)
(* The receiver of MIDI under any bytes at all: a stream joined in the     *)
(* middle, bytes lost or doubled, running status, system messages.         *)
(* Two history variables remember what came over the line.                 *)
(***************************************************************************)
EXTENDS MIDI

VARIABLES
  recent,       \* the last three bytes, oldest first
  lastStatus    \* the last status byte

resyncVars == <<midiVars, recent, lastStatus>>

ResyncInit ==
  /\ Init
  /\ recent = <<NoByte, NoByte, NoByte>>
  /\ lastStatus = NoByte

Receive(b) ==
  /\ USART3_IRQHandler(b)
  /\ recent' = <<recent[2], recent[3], b>>
  /\ lastStatus' = IF b > 127 THEN b ELSE lastStatus

ResyncNext == \E b \in DataBytes \cup StatusBytes : Receive(b)

ResyncSpec == ResyncInit /\ [][ResyncNext]_resyncVars

-----------------------------------------------------------------------------
(* Type correctness, with the history.                                     *)
ResyncTypeOK ==
  /\ TypeOK
  /\ recent \in [1..3 -> Byte \cup {NoByte}]
  /\ lastStatus \in Byte \cup {NoByte}

(* A whole note message on the line: its status byte and two data bytes.   *)
WholeMessage ==
  recent[1] \in {NOTE_ON, NOTE_OFF} /\ recent[2] <= 127 /\ recent[3] <= 127

Meaning(status, note, velocity) ==
  IF status = NOTE_ON /\ velocity > 0 THEN NoteOnCall(note, velocity)
                                      ELSE NoteOffCall(note)

(* The comment at MIDI.c:45 has the state machine recover: whatever came    *)
(* before, a whole note message is acted on exactly as it says, unless the *)
(* pointer the handler calls through has been damaged.                     *)
Recovers ==
  WholeMessage /\ noteOnTop = 0
    => call = Meaning(recent[1], recent[2], recent[3])

(* Whatever bytes come, Note_On is called only under a note-on status and  *)
(* Note_Off only under a note-on or note-off status: no other message is   *)
(* ever taken for a note.                                                  *)
NoOtherMessagePlays ==
  /\ call.op = "Note_On"  => lastStatus = NOTE_ON
  /\ call.op = "Note_Off" => lastStatus \in {NOTE_ON, NOTE_OFF}

(* A note message is never acted on before its last byte: the byte after a *)
(* note status completes nothing.                                          *)
NothingEarly ==
  recent[2] \in {NOTE_ON, NOTE_OFF} /\ recent[3] <= 127 => call = NoCall
=============================================================================
