-------------------------------- MODULE MIDI --------------------------------
(***************************************************************************)
(* The MIDI receiver of User/headers/MIDI.c: USART3_IRQHandler hands every *)
(* received byte to MIDI_Handler, which assembles a command of up to three *)
(* bytes in commandArray and calls Note_On or Note_Off when it has one.    *)
(*                                                                         *)
(* MIDI_Handler indexes commandArray without a bound.  What an index out   *)
(* of 0..2 hits is a matter of the build; the linked image in obj/ lays    *)
(* the neighbours out as                                                   *)
(*                                                                         *)
(*     Note_On (4 bytes) | commandArray[0..2] | midi_index | calibrationVal*)
(*                                                                         *)
(* so index -1 is the top byte of the pointer Note_On, index 3 is          *)
(* midi_index itself and anything above is some other variable.            *)
(***************************************************************************)
EXTENDS Integers

CONSTANTS
  DataBytes,    \* the data bytes the line can carry
  StatusBytes   \* the status bytes the line can carry

ASSUME BytesAssumption ==
  /\ DataBytes \subseteq 0..127
  /\ StatusBytes \subseteq 128..255

NOTE_ON          == 144   \* 0x90, channel 1
NOTE_OFF         == 128   \* 0x80, channel 1
CHANNEL_PRESSURE == 208   \* 0xD0, channel 1

VARIABLES
  commandArray,      \* the bytes of the current command
  midi_index,        \* uint8_t, one past the slot written next
  midiCommandBytes,  \* how many bytes the current command has
  noteOnTop,         \* top byte of the pointer Note_On: 0 in the image
  clobbered,         \* a variable other than these has been overwritten
  call               \* the callback the last byte caused

midiVars ==
  <<commandArray, midi_index, midiCommandBytes, noteOnTop, clobbered, call>>

NoCall           == [op |-> "none"]
NoteOnCall(n, v) == [op |-> "Note_On", note |-> n, velocity |-> v]
NoteOffCall(n)   == [op |-> "Note_Off", note |-> n]
WildCall         == [op |-> "wild"]   \* a jump through a damaged Note_On

Byte   == 0..255
Slots  == 0..2
NoByte == 256      \* where there is no byte

Init ==
  /\ commandArray = [i \in Slots |-> 0]
  /\ midi_index = 0
  /\ midiCommandBytes = 3
  /\ noteOnTop = 0
  /\ clobbered = FALSE
  /\ call = NoCall

-----------------------------------------------------------------------------
(* Mutant: velocity 0 is not taken for a note off.                         *)
DispatchZeroVelocity(cmd) ==
  CASE cmd[0] = NOTE_ON ->
         IF noteOnTop = 0 THEN NoteOnCall(cmd[1], cmd[2]) ELSE WildCall
    [] cmd[0] = NOTE_OFF -> NoteOffCall(cmd[1])
    [] OTHER             -> NoCall

(* The callback for a complete command; other commands are ignored.        *)
Dispatch(cmd) ==
  CASE cmd[0] = NOTE_ON /\ cmd[2] > 0 ->
         IF noteOnTop = 0 THEN NoteOnCall(cmd[1], cmd[2]) ELSE WildCall
    [] cmd[0] = NOTE_ON /\ cmd[2] = 0 -> NoteOffCall(cmd[1])
    [] cmd[0] = NOTE_OFF              -> NoteOffCall(cmd[1])
    [] OTHER                          -> NoCall

(* The tail of MIDI_Handler and the increment in USART3_IRQHandler.        *)
Finish(cmd, index, bytes) ==
  /\ commandArray' = cmd
  /\ midiCommandBytes' = bytes
  /\ call' = IF index >= bytes THEN Dispatch(cmd) ELSE NoCall
  /\ midi_index' = (index + 1) % 256

(* A status byte opens a command.  Only three of them set its length.      *)
CommandLength(b) ==
  CASE b \in {NOTE_ON, NOTE_OFF} -> 3
    [] b = CHANNEL_PRESSURE      -> 2
    [] OTHER                     -> midiCommandBytes

(* Mutants: the index is not reset; only note statuses open a command.     *)
StatusByteNoReset(b) ==
  /\ b > 127
  /\ Finish([commandArray EXCEPT ![0] = b], midi_index, CommandLength(b))
  /\ UNCHANGED <<noteOnTop, clobbered>>

StatusByteKeepsCommand(b) ==
  /\ b > 127
  /\ Finish(IF b \in {NOTE_ON, NOTE_OFF}
              THEN [commandArray EXCEPT ![0] = b] ELSE commandArray,
            1, CommandLength(b))
  /\ UNCHANGED <<noteOnTop, clobbered>>

StatusByte(b) ==
  /\ b > 127
  /\ Finish([commandArray EXCEPT ![0] = b], 1, CommandLength(b))
  /\ UNCHANGED <<noteOnTop, clobbered>>

(* A data byte goes to commandArray[midi_index - 1].                       *)
StoreInside(b) ==
  /\ b <= 127
  /\ midi_index - 1 \in Slots
  /\ Finish([commandArray EXCEPT ![midi_index - 1] = b],
            midi_index, midiCommandBytes)
  /\ UNCHANGED <<noteOnTop, clobbered>>

StoreOnIndex(b) ==
  /\ b <= 127
  /\ midi_index - 1 = 3
  /\ Finish(commandArray, b, midiCommandBytes)
  /\ UNCHANGED <<noteOnTop, clobbered>>

StoreOnNoteOn(b) ==
  /\ b <= 127
  /\ midi_index - 1 = -1
  /\ noteOnTop' = b
  /\ Finish(commandArray, midi_index, midiCommandBytes)
  /\ UNCHANGED clobbered

StoreOutside(b) ==
  /\ b <= 127
  /\ midi_index - 1 > 3
  /\ clobbered' = TRUE
  /\ Finish(commandArray, midi_index, midiCommandBytes)
  /\ UNCHANGED noteOnTop

(* One interrupt: after a wild call the processor never comes back.        *)
USART3_IRQHandler(b) ==
  /\ call.op # "wild"
  /\ \/ StatusByte(b)
     \/ StoreInside(b)
     \/ StoreOnIndex(b)
     \/ StoreOnNoteOn(b)
     \/ StoreOutside(b)

Next == \E b \in DataBytes \cup StatusBytes : USART3_IRQHandler(b)

Spec == Init /\ [][Next]_midiVars

-----------------------------------------------------------------------------
(* The state of the receiver is made of bytes, its command length is 2 or  *)
(* 3, and a callback gets bytes as arguments.                              *)
TypeOK ==
  /\ commandArray \in [Slots -> Byte]
  /\ midi_index \in Byte
  /\ midiCommandBytes \in {2, 3}
  /\ noteOnTop \in Byte
  /\ clobbered \in BOOLEAN
  /\ call \in {NoCall, WildCall}
              \cup [op : {"Note_On"}, note : Byte, velocity : 1..255]
              \cup [op : {"Note_Off"}, note : Byte]
=============================================================================
