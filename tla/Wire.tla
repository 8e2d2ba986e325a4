-------------------------------- MODULE Wire --------------------------------
(***************************************************************************)
(* The line to USART3 and the receiver of MIDI.  Either a keyboard sends   *)
(* whole messages, status byte first, system realtime bytes may come       *)
(* between any two bytes, and the line may lose bytes, as the USART does   *)
(* when its one-byte data register is not read in time; or the line carries*)
(* any bytes at all, as Resync has it.                                     *)
(***************************************************************************)
EXTENDS Resync, Sequences

CONSTANTS
  OtherMessages,   \* messages that are not about notes, as byte sequences
  Realtime,        \* system realtime bytes
  LosesStatus,     \* the line may lose status bytes
  LosesData,       \* the line may lose data bytes
  Noise            \* bound: the bytes that come where any may

ASSUME WireAssumption ==
  /\ NOTE_ON \in StatusBytes /\ NOTE_OFF \in StatusBytes
  /\ Realtime \subseteq StatusBytes \ {NOTE_ON, NOTE_OFF}
  /\ \A m \in OtherMessages :
       /\ m \in Seq(StatusBytes \cup DataBytes)
       /\ Len(m) \in 2..3
       /\ m[1] \in StatusBytes \ {NOTE_ON, NOTE_OFF}
       /\ \A i \in 2..Len(m) : m[i] \in DataBytes
  /\ LosesStatus \in BOOLEAN
  /\ LosesData \in BOOLEAN
  /\ Noise \subseteq DataBytes \cup StatusBytes

VARIABLES
  message,   \* the message being sent, empty between messages
  toSend,    \* what is left of it
  noisy      \* any bytes come

wireVars == <<resyncVars, message, toSend, noisy>>

Silence == <<>>

Messages ==
  ({NOTE_ON, NOTE_OFF} \X DataBytes \X DataBytes) \cup OtherMessages

(* The callback a message asks for.                                        *)
CallFor(m) ==
  CASE m[1] = NOTE_ON /\ m[3] > 0 -> NoteOnCall(m[2], m[3])
    [] m[1] = NOTE_ON /\ m[3] = 0 -> NoteOffCall(m[2])
    [] m[1] = NOTE_OFF            -> NoteOffCall(m[2])
    [] OTHER                      -> NoCall

WireInit ==
  /\ ResyncInit
  /\ message = Silence
  /\ toSend = Silence
  /\ noisy \in BOOLEAN

(* What the receiver sees next is not the continuation of what it saw.     *)
NothingReceived ==
  /\ call' = NoCall
  /\ recent' = <<NoByte, NoByte, NoByte>>
  /\ UNCHANGED <<commandArray, midi_index, midiCommandBytes, noteOnTop,
                 clobbered, lastStatus>>

StartMessage(m) ==
  /\ ~noisy
  /\ message = Silence
  /\ message' = m
  /\ toSend' = m
  /\ NothingReceived
  /\ UNCHANGED noisy

AdvanceLine ==
  /\ toSend # Silence
  /\ toSend' = Tail(toSend)
  /\ message' = IF Len(toSend) = 1 THEN Silence ELSE message
  /\ UNCHANGED noisy

Arrives ==
  /\ AdvanceLine
  /\ Receive(Head(toSend))

IsLost ==
  /\ AdvanceLine
  /\ IF Head(toSend) > 127 THEN LosesStatus ELSE LosesData
  /\ NothingReceived

RealtimeByte ==
  /\ ~noisy
  /\ \E b \in Realtime : Receive(b)
  /\ UNCHANGED <<message, toSend, noisy>>

AnyByte ==
  /\ noisy
  /\ \E b \in Noise : Receive(b)
  /\ UNCHANGED <<message, toSend, noisy>>

WireNext ==
  \/ \E m \in Messages : StartMessage(m)
  \/ Arrives
  \/ IsLost
  \/ RealtimeByte
  \/ AnyByte

WireSpec == WireInit /\ [][WireNext]_wireVars

-----------------------------------------------------------------------------
(* Type correctness of the receiver and of the line.                       *)
WireTypeOK ==
  /\ ResyncTypeOK
  /\ noisy \in BOOLEAN
  /\ message \in Messages \cup {Silence}
  /\ \E i \in 0..3 :
       toSend = SubSeq(message, Len(message) - i + 1, Len(message))

(* MIDI_Handler indexes commandArray without a bound; under the messages   *)
(* of this module, lost data bytes and realtime bytes included, it never   *)
(* stores outside the array, and its index stays where the next data byte  *)
(* of the message goes in or where the next status byte resets it.         *)
StaysInside ==
  ~noisy =>
    /\ midi_index <= 4
    /\ ~clobbered
    /\ noteOnTop = 0
    /\ toSend # Silence /\ toSend # message => midi_index + Len(toSend) <= 4

(* The channel of note messages the receiver is to implement: when a byte  *)
(* is lost the state machine recovers, and one message is missed.          *)
Channel == INSTANCE NoteChannel WITH Meaning <- CallFor, noise <- noisy

(* With MIDI.c:45: the receiver recovers, and one message is missed.       *)
RecoversMissingOne == Channel!Spec
=============================================================================
