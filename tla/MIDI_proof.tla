----------------------------- MODULE MIDI_proof -----------------------------
(***************************************************************************)
(* Proofs about MIDI, first of the receiver: on a line that carries any    *)
(* bytes (Resync), and on one that carries messages, for any messages and  *)
(* any realtime bytes (Wire).  Then of the path of a note, for any keys,   *)
(* any number of channels and a line of any length: no byte is lost before *)
(* one comes in during a poll that finds something changed, and until a    *)
(* byte is lost or a key finds no channel, what is held is what sounds     *)
(* (Synth).                                                                *)
(***************************************************************************)
EXTENDS Wire, Synth, SequenceTheorems, FiniteSetTheorems, TLAPS

(* What the receiver knows after a note status byte: how long the command  *)
(* is, what it has of it and where the next byte goes.                     *)
InCommand(status) ==
  /\ commandArray[0] = status
  /\ midiCommandBytes = 3

Progress ==
  /\ recent[3] \in {NOTE_ON, NOTE_OFF} =>
       InCommand(recent[3]) /\ midi_index = 2
  /\ recent[2] \in {NOTE_ON, NOTE_OFF} /\ recent[3] <= 127 =>
       InCommand(recent[2]) /\ midi_index = 3 /\ commandArray[1] = recent[3]

(* Slot 0 holds the last status byte or a stray data byte.                 *)
SlotZero ==
  /\ commandArray[0] > 127 => commandArray[0] = lastStatus
  /\ commandArray[0] \in {NOTE_ON, NOTE_OFF} => midiCommandBytes = 3

ReceiverInv ==
  ResyncTypeOK /\ Progress /\ SlotZero /\ Recovers /\ NoOtherMessagePlays
    /\ NothingEarly

-----------------------------------------------------------------------------
(* Data and status bytes are bytes.                                        *)
LEMMA LineBytes == DataBytes \subseteq Byte /\ StatusBytes \subseteq Byte
<1> QED BY BytesAssumption DEF Byte

(* What Dispatch answers, by the command's first byte.                     *)
LEMMA DispatchResult ==
  ASSUME TypeOK, NEW cmd \in [Slots -> Byte]
  PROVE  /\ Dispatch(cmd) \in {NoCall, WildCall}
              \cup [op : {"Note_On"}, note : Byte, velocity : 1..255]
              \cup [op : {"Note_Off"}, note : Byte]
         /\ Dispatch(cmd).op = "Note_On"  => cmd[0] = NOTE_ON
         /\ Dispatch(cmd).op = "Note_Off" => cmd[0] \in {NOTE_ON, NOTE_OFF}
         /\ cmd[0] \in {NOTE_ON, NOTE_OFF} /\ noteOnTop = 0
              => Dispatch(cmd) = Meaning(cmd[0], cmd[1], cmd[2])
<1>1. /\ cmd[0] \in Byte /\ cmd[1] \in Byte /\ cmd[2] \in Byte
      /\ cmd[2] > 0 => cmd[2] \in 1..255
  BY DEF Slots, Byte
<1>2. CASE cmd[0] = NOTE_ON /\ cmd[2] > 0 /\ noteOnTop = 0
  <2>1. Dispatch(cmd) = NoteOnCall(cmd[1], cmd[2])
    BY <1>2 DEF Dispatch, NOTE_ON, NOTE_OFF
  <2> QED BY <1>1, <1>2, <2>1 DEF NoteOnCall, Meaning
<1>3. CASE cmd[0] = NOTE_ON /\ cmd[2] > 0 /\ noteOnTop # 0
  <2>1. Dispatch(cmd) = WildCall
    BY <1>3 DEF Dispatch, NOTE_ON, NOTE_OFF
  <2> QED BY <1>1, <1>3, <2>1 DEF WildCall
<1>4. CASE cmd[0] = NOTE_ON /\ ~(cmd[2] > 0)
  <2>1. Dispatch(cmd) = NoteOffCall(cmd[1])
    BY <1>1, <1>4 DEF Dispatch, NOTE_ON, NOTE_OFF, Byte
  <2> QED BY <1>1, <1>4, <2>1 DEF NoteOffCall, Meaning
<1>5. CASE cmd[0] = NOTE_OFF
  <2>1. Dispatch(cmd) = NoteOffCall(cmd[1])
    BY <1>5 DEF Dispatch, NOTE_ON, NOTE_OFF
  <2> QED BY <1>1, <1>5, <2>1 DEF NoteOffCall, Meaning, NOTE_ON, NOTE_OFF
<1>6. CASE cmd[0] \notin {NOTE_ON, NOTE_OFF}
  <2>1. Dispatch(cmd) = NoCall
    BY <1>6 DEF Dispatch
  <2> QED BY <1>1, <1>6, <2>1 DEF NoCall
<1> QED BY <1>1, <1>2, <1>3, <1>4, <1>5, <1>6

(* Before the first byte the handler is between messages.                  *)
LEMMA ReceiverStart == ASSUME ResyncInit PROVE ReceiverInv
<1>1. TypeOK
  <2>1. clobbered \in BOOLEAN
    BY DEF ResyncInit, Init
  <2> QED BY <2>1 DEF ResyncInit, Init, TypeOK, Byte, Slots
<1>2. call = NoCall /\ commandArray[0] = 0
  BY DEF ResyncInit, Init, Slots
<1>3. /\ recent = <<NoByte, NoByte, NoByte>>
      /\ lastStatus = NoByte
  BY DEF ResyncInit
<1> QED BY <1>1, <1>2, <1>3
        DEF ReceiverInv, ResyncTypeOK, Progress, SlotZero, Recovers, WholeMessage,
            NoOtherMessagePlays, NothingEarly, NoByte, NoCall, NOTE_ON, NOTE_OFF,
            Byte

-----------------------------------------------------------------------------
(* Every branch of the handler ends in Finish.                             *)
LEMMA FinishResult ==
  ASSUME TypeOK, NEW cmd \in [Slots -> Byte], NEW index \in Byte,
         NEW bytes \in {2, 3}, Finish(cmd, index, bytes)
  PROVE  /\ commandArray' \in [Slots -> Byte]
         /\ midi_index' \in Byte
         /\ midiCommandBytes' \in {2, 3}
         /\ call' \in {NoCall, WildCall}
              \cup [op : {"Note_On"}, note : Byte, velocity : 1..255]
              \cup [op : {"Note_Off"}, note : Byte]
         /\ call'.op = "Note_On"  => cmd[0] = NOTE_ON
         /\ call'.op = "Note_Off" => cmd[0] \in {NOTE_ON, NOTE_OFF}
<1>1. midi_index' \in Byte
  BY DEF Finish, Byte
<1>2. call' = NoCall \/ call' = Dispatch(cmd)
  BY DEF Finish
<1> QED BY <1>1, <1>2, DispatchResult DEF Finish, NoCall

(* A status byte starts a message anew, wherever it lands.                 *)
LEMMA StatusInv ==
  ASSUME ReceiverInv, NEW b \in Byte, Receive(b), StatusByte(b) PROVE ReceiverInv'
<1>1. b > 127 /\ b \in Byte /\ TypeOK
  BY DEF StatusByte, ReceiverInv, ResyncTypeOK
<1> DEFINE cmd == [commandArray EXCEPT ![0] = b]
<1>2. cmd \in [Slots -> Byte] /\ cmd[0] = b
  BY <1>1 DEF TypeOK, Slots
<1>3. /\ CommandLength(b) \in {2, 3}
      /\ b \in {NOTE_ON, NOTE_OFF} => CommandLength(b) = 3
  BY <1>1 DEF CommandLength, TypeOK, NOTE_ON, NOTE_OFF, CHANNEL_PRESSURE
<1>4. Finish(cmd, 1, CommandLength(b)) /\ UNCHANGED <<noteOnTop, clobbered>>
  BY DEF StatusByte
<1>5. call' = NoCall /\ midi_index' = 2 /\ commandArray' = cmd
        /\ midiCommandBytes' = CommandLength(b)
  BY <1>3, <1>4 DEF Finish
<1> HIDE DEF cmd
<1>6. TypeOK'
  <2>1. 1 \in Byte
    BY DEF Byte
  <2>2. clobbered' \in BOOLEAN /\ noteOnTop' \in Byte
    BY <1>1, <1>4 DEF TypeOK
  <2> QED BY <1>1, <1>2, <1>3, <1>4, <2>1, <2>2, FinishResult DEF TypeOK
<1>7. /\ recent' \in [1..3 -> Byte \cup {NoByte}]
      /\ recent'[3] = b /\ recent'[2] = recent[3] /\ recent'[1] = recent[2]
      /\ lastStatus' = b
  BY <1>1 DEF Receive, ReceiverInv, ResyncTypeOK
<1>8. call'.op \notin {"Note_On", "Note_Off"}
  BY <1>5 DEF NoCall
<1>9. ~(recent'[3] <= 127)
  BY <1>1, <1>7 DEF Byte
<1>10. ResyncTypeOK'
  BY <1>6, <1>7, <1>1 DEF ResyncTypeOK
<1>11. Progress'
  BY <1>2, <1>3, <1>5, <1>7, <1>9 DEF Progress, InCommand
<1>12. SlotZero'
  BY <1>2, <1>3, <1>5, <1>7 DEF SlotZero
<1> QED BY <1>8, <1>9, <1>10, <1>11, <1>12
        DEF ReceiverInv, Recovers, WholeMessage, NoOtherMessagePlays, NothingEarly

(* A data byte that lands in the command: the only one that can complete a *)
(* message.                                                                *)
LEMMA InsideInv ==
  ASSUME ReceiverInv, NEW b \in Byte, Receive(b), StoreInside(b) PROVE ReceiverInv'
<1>1. b <= 127 /\ b \in Byte /\ TypeOK /\ midi_index \in 1..3
  BY DEF StoreInside, ReceiverInv, ResyncTypeOK, TypeOK, Byte, Slots
<1> DEFINE cmd == [commandArray EXCEPT ![midi_index - 1] = b]
<1>2. /\ cmd \in [Slots -> Byte] /\ cmd[midi_index - 1] = b
      /\ \A i \in Slots : i # midi_index - 1 => cmd[i] = commandArray[i]
  BY <1>1 DEF TypeOK, Slots
<1>3. Finish(cmd, midi_index, midiCommandBytes)
      /\ UNCHANGED <<noteOnTop, clobbered>>
  BY DEF StoreInside
<1>4. /\ commandArray' = cmd /\ midi_index' = midi_index + 1
      /\ midiCommandBytes' = midiCommandBytes
  BY <1>1, <1>3 DEF Finish
<1> HIDE DEF cmd
<1>5. TypeOK' /\ (call'.op = "Note_On"  => cmd[0] = NOTE_ON)
             /\ (call'.op = "Note_Off" => cmd[0] \in {NOTE_ON, NOTE_OFF})
  BY <1>1, <1>2, <1>3, FinishResult DEF TypeOK
<1>6. /\ recent' \in [1..3 -> Byte \cup {NoByte}]
      /\ recent'[3] = b /\ recent'[2] = recent[3] /\ recent'[1] = recent[2]
      /\ lastStatus' = lastStatus
  BY <1>1 DEF Receive, ReceiverInv, ResyncTypeOK, Byte
<1>7. /\ recent'[2] \in {NOTE_ON, NOTE_OFF} => midi_index = 2
      /\ ~(recent'[3] \in {NOTE_ON, NOTE_OFF})
  BY <1>1, <1>6 DEF ReceiverInv, Progress, NOTE_ON, NOTE_OFF
<1>8. ResyncTypeOK'
  BY <1>5, <1>6, <1>1 DEF ResyncTypeOK, ReceiverInv
<1>9. Progress'
  BY <1>1, <1>2, <1>4, <1>6, <1>7 DEF Progress, InCommand, ReceiverInv, Slots
<1>10. SlotZero'
  <2>1. cmd[0] = commandArray[0] \/ cmd[0] = b
    BY <1>1, <1>2 DEF Slots
  <2> QED BY <1>1, <1>4, <1>6, <2>1 DEF SlotZero, ReceiverInv, NOTE_ON, NOTE_OFF, Byte
<1>11. NoOtherMessagePlays'
  BY <1>4, <1>5, <1>10, <1>6
     DEF NoOtherMessagePlays, SlotZero, NOTE_ON, NOTE_OFF
<1>12. NothingEarly'
  BY <1>1, <1>3, <1>6, <1>7 DEF NothingEarly, ReceiverInv, Progress, InCommand, Finish
<1>13. Recovers'
  <2> SUFFICES ASSUME WholeMessage', noteOnTop' = 0
               PROVE  call' = Meaning(recent'[1], recent'[2], recent'[3])
    BY DEF Recovers
  <2>1. recent[2] \in {NOTE_ON, NOTE_OFF} /\ recent[3] <= 127
    BY <1>6 DEF WholeMessage
  <2>2. /\ commandArray[0] = recent[2] /\ midiCommandBytes = 3
        /\ midi_index = 3 /\ commandArray[1] = recent[3]
    BY <2>1 DEF ReceiverInv, Progress, InCommand
  <2>3. cmd[0] = recent[2] /\ cmd[1] = recent[3] /\ cmd[2] = b
    BY <1>2, <2>2 DEF Slots
  <2>4. call' = Dispatch(cmd)
    BY <1>3, <2>2 DEF Finish
  <2>5. noteOnTop = 0
    BY <1>3
  <2> QED BY <1>1, <1>2, <1>6, <2>1, <2>3, <2>4, <2>5, DispatchResult
<1> QED BY <1>8, <1>9, <1>10, <1>11, <1>12, <1>13 DEF ReceiverInv

(* A data byte that lands elsewhere: none does while a message is whole.   *)
LEMMA OutsideInv ==
  ASSUME ReceiverInv, NEW b \in Byte, Receive(b),
         StoreOnIndex(b) \/ StoreOnNoteOn(b) \/ StoreOutside(b)
  PROVE  ReceiverInv'
<1>1. b <= 127 /\ b \in Byte /\ TypeOK /\ midi_index \notin 1..3
  BY DEF StoreOnIndex, StoreOnNoteOn, StoreOutside, ReceiverInv, ResyncTypeOK, TypeOK,
         Byte
<1>2. PICK index \in Byte : Finish(commandArray, index, midiCommandBytes)
  BY <1>1 DEF StoreOnIndex, StoreOnNoteOn, StoreOutside, TypeOK
<1>3. noteOnTop' \in Byte /\ clobbered' \in BOOLEAN
  BY <1>1 DEF StoreOnIndex, StoreOnNoteOn, StoreOutside, TypeOK
<1>4. TypeOK' /\ (call'.op = "Note_On"  => commandArray[0] = NOTE_ON)
             /\ (call'.op = "Note_Off" => commandArray[0] \in {NOTE_ON, NOTE_OFF})
  BY <1>1, <1>2, <1>3, FinishResult DEF TypeOK
<1>5. /\ recent' \in [1..3 -> Byte \cup {NoByte}]
      /\ recent'[3] = b /\ recent'[2] = recent[3] /\ recent'[1] = recent[2]
      /\ lastStatus' = lastStatus
  BY <1>1 DEF Receive, ReceiverInv, ResyncTypeOK, Byte
<1>6. /\ ~(recent[3] \in {NOTE_ON, NOTE_OFF})
      /\ ~(recent[2] \in {NOTE_ON, NOTE_OFF} /\ recent[3] <= 127)
      /\ ~(b \in {NOTE_ON, NOTE_OFF})
  BY <1>1 DEF ReceiverInv, Progress, NOTE_ON, NOTE_OFF
<1>7. /\ commandArray' = commandArray
      /\ midiCommandBytes' = midiCommandBytes
  BY <1>2 DEF Finish
<1>8. ResyncTypeOK' /\ SlotZero'
  BY <1>4, <1>5, <1>7, <1>1 DEF ResyncTypeOK, SlotZero, ReceiverInv
<1>9. Progress' /\ Recovers' /\ NothingEarly'
  BY <1>5, <1>6 DEF Progress, Recovers, WholeMessage, NothingEarly
<1>10. NoOtherMessagePlays'
  BY <1>4, <1>5, <1>1 DEF NoOtherMessagePlays, SlotZero, ReceiverInv, NOTE_ON, NOTE_OFF
<1> QED BY <1>8, <1>9, <1>10 DEF ReceiverInv

(* Every byte keeps the strengthened invariant: one lemma per case.        *)
LEMMA ReceiverStep == ASSUME ReceiverInv, [ResyncNext]_resyncVars PROVE ReceiverInv'
<1>1. ASSUME NEW b \in DataBytes \cup StatusBytes, Receive(b) PROVE ReceiverInv'
  BY <1>1, LineBytes, StatusInv, InsideInv, OutsideInv
     DEF Receive, USART3_IRQHandler
<1>2. ASSUME UNCHANGED resyncVars PROVE ReceiverInv'
  BY <1>2 DEF resyncVars, midiVars, ReceiverInv, ResyncTypeOK, TypeOK, Progress, InCommand, SlotZero,
              Recovers, WholeMessage, NoOtherMessagePlays, NothingEarly
<1> QED BY <1>1, <1>2 DEF ResyncNext

(* For every set of bytes on the line: the receiver stays well-typed, acts *)
(* on every whole note message exactly as it says, takes no other message  *)
(* for a note and acts on no message before its last byte.                 *)
THEOREM Resynchronizes ==
  ResyncSpec =>
    [](ResyncTypeOK /\ Recovers /\ NoOtherMessagePlays /\ NothingEarly)
<1>1. ResyncInit => ReceiverInv
  BY ReceiverStart
<1>2. ReceiverInv /\ [ResyncNext]_resyncVars => ReceiverInv'
  BY ReceiverStep
<1>3. ReceiverInv => ResyncTypeOK /\ Recovers /\ NoOtherMessagePlays /\ NothingEarly
  BY DEF ReceiverInv
<1> QED BY <1>1, <1>2, <1>3, PTL DEF ResyncSpec
-----------------------------------------------------------------------------
OnLine == StatusBytes \cup DataBytes

(* What tells status bytes and data bytes apart.                           *)
LEMMA ByteRange ==
  /\ \A b \in StatusBytes : b \in Byte /\ b > 127
  /\ \A b \in DataBytes : b \in Byte /\ b <= 127
  /\ \A b \in OnLine : b \in Byte /\ (b > 127 <=> b \in StatusBytes)
<1> QED BY BytesAssumption DEF OnLine, Byte

(* A message is a status byte and one or two data bytes.                   *)
LEMMA MessageShape ==
  ASSUME NEW m \in Messages
  PROVE  /\ m \in Seq(OnLine) /\ Len(m) \in 2..3
         /\ m[1] \in StatusBytes /\ \A i \in 2..Len(m) : m[i] \in DataBytes
         /\ m[1] \in {NOTE_ON, NOTE_OFF} => Len(m) = 3
<1>1. CASE m \in {NOTE_ON, NOTE_OFF} \X DataBytes \X DataBytes
  <2>1. /\ m = <<m[1], m[2], m[3]>>
        /\ m[1] \in {NOTE_ON, NOTE_OFF} /\ m[2] \in DataBytes /\ m[3] \in DataBytes
    BY <1>1
  <2>2. m[1] \in StatusBytes
    BY <2>1, WireAssumption
  <2>3. <<m[1], m[2], m[3]>> \in Seq(OnLine) /\ Len(<<m[1], m[2], m[3]>>) = 3
    BY <2>1, <2>2 DEF OnLine
  <2>4. m \in Seq(OnLine) /\ Len(m) = 3
    BY <2>1, <2>3
  <2> QED BY <2>1, <2>2, <2>4
<1>2. CASE m \in OtherMessages
  BY <1>2, WireAssumption DEF OnLine
<1> QED BY <1>1, <1>2 DEF Messages

(* What is left of the message is its end.                                 *)
Ending(s, m) ==
  /\ s \in Seq(OnLine) /\ Len(s) <= Len(m)
  /\ \A j \in 1..Len(s) : s[j] = m[j + Len(m) - Len(s)]

Sent ==
  /\ noisy \in BOOLEAN
  /\ message \in Messages \cup {Silence}
  /\ Ending(toSend, message)
  /\ toSend = Silence <=> message = Silence

(* The next byte on the line.                                              *)
LEMMA NextByte ==
  ASSUME Sent, toSend # Silence
  PROVE  /\ message \in Messages /\ Len(toSend) \in 1..Len(message)
         /\ Head(toSend) = message[Len(message) - Len(toSend) + 1]
         /\ Head(toSend) \in OnLine
         /\ Head(toSend) > 127 <=> Len(toSend) = Len(message)
<1>1. message \in Messages
  BY DEF Sent
<1>2. /\ message \in Seq(OnLine) /\ Len(message) \in 2..3
      /\ message[1] \in StatusBytes /\ \A i \in 2..Len(message) : message[i] \in DataBytes
  BY <1>1, MessageShape
<1>3. toSend \in Seq(OnLine) /\ Len(toSend) \in 1..Len(message)
  BY <1>2 DEF Sent, Ending, Silence
<1>4. Head(toSend) = toSend[1] /\ toSend[1] = message[1 + Len(message) - Len(toSend)]
  BY <1>3 DEF Sent, Ending
<1>5. Head(toSend) \in OnLine
  BY <1>3, <1>4
<1> DEFINE i == Len(message) - Len(toSend) + 1
<1>6. i \in 1..Len(message) /\ Head(toSend) = message[i] /\ (i = 1 <=> Len(toSend) = Len(message))
  BY <1>2, <1>3, <1>4
<1> HIDE DEF i
<1>7. Head(toSend) > 127 <=> i = 1
  <2>1. CASE i = 1
    BY <1>2, <1>6, <2>1, ByteRange
  <2>2. CASE i # 1
    <3>1. i \in 2..Len(message)
      BY <1>2, <1>6, <2>2
    <3>2. Head(toSend) \in DataBytes
      BY <1>2, <1>6, <3>1
    <3>3. Head(toSend) \in 0..127
      BY <3>2, ByteRange DEF Byte
    <3> QED BY <2>2, <3>3
  <2> QED BY <2>1, <2>2
<1> QED BY <1>1, <1>3, <1>5, <1>6, <1>7 DEF i

(* The line advances.                                                      *)
LEMMA AdvanceSent ==
  ASSUME Sent, AdvanceLine
  PROVE  Sent' /\ (toSend' # Silence => /\ message' = message
                                        /\ Len(toSend') = Len(toSend) - 1)
<1>1. message \in Messages /\ Len(toSend) \in 1..Len(message)
  BY NextByte DEF AdvanceLine
<1>2. message \in Seq(OnLine) /\ Len(message) \in 2..3 /\ toSend \in Seq(OnLine)
  BY <1>1, MessageShape DEF Sent, Ending
<1>3. toSend' = Tail(toSend) /\ toSend' \in Seq(OnLine) /\ Len(toSend') = Len(toSend) - 1
        /\ \A j \in 1..Len(toSend') : toSend'[j] = toSend[j + 1]
  BY <1>1, <1>2 DEF AdvanceLine
<1>4. CASE Len(toSend) = 1
  <2>1. toSend' = Silence /\ message' = Silence
    BY <1>3, <1>4 DEF AdvanceLine, Silence
  <2> QED BY <1>3, <2>1 DEF AdvanceLine, Sent, Ending, Silence
<1>5. CASE Len(toSend) # 1
  <2>1. message' = message /\ toSend' # Silence /\ message # Silence
    <3>1. Len(toSend') # 0 /\ Len(message) # 0 /\ message' = message
      BY <1>1, <1>2, <1>3, <1>5 DEF AdvanceLine
    <3> QED BY <3>1 DEF Silence
  <2>2. \A j \in 1..Len(toSend') : toSend'[j] = message[j + Len(message) - Len(toSend')]
    BY <1>1, <1>2, <1>3 DEF Sent, Ending
  <2> QED BY <1>1, <1>2, <1>3, <2>1, <2>2 DEF AdvanceLine, Sent, Ending
<1> QED BY <1>4, <1>5

-----------------------------------------------------------------------------
(* Every byte of the line is one the receiver may meet.                    *)
LEMMA StepBytes ==
  ASSUME Sent, WireNext
  PROVE  \/ \E b \in OnLine : Receive(b)
         \/ NothingReceived
<1>1. \A b \in Realtime \cup Noise : b \in OnLine
  BY WireAssumption DEF OnLine
<1>2. Arrives => Head(toSend) \in OnLine
  BY NextByte DEF Arrives, AdvanceLine
<1> QED BY <1>1, <1>2
        DEF WireNext, StartMessage, Arrives, IsLost, RealtimeByte, AnyByte

(* Nothing received leaves the receiver as it was and forgets what came.   *)
LEMMA SilenceInv == ASSUME ReceiverInv, NothingReceived PROVE ReceiverInv'
<1>1. TypeOK'
  BY DEF NothingReceived, ReceiverInv, ResyncTypeOK, TypeOK
<1>2. recent' \in [1..3 -> Byte \cup {NoByte}] /\ lastStatus' \in Byte \cup {NoByte}
  BY DEF NothingReceived, ReceiverInv, ResyncTypeOK
<1>3. /\ recent'[1] = NoByte /\ recent'[2] = NoByte /\ recent'[3] = NoByte
      /\ NoByte \notin {NOTE_ON, NOTE_OFF}
  BY DEF NothingReceived, NoByte, NOTE_ON, NOTE_OFF
<1>4. call'.op \notin {"Note_On", "Note_Off"}
  BY DEF NothingReceived, NoCall
<1>5. SlotZero'
  BY DEF NothingReceived, ReceiverInv, SlotZero
<1> QED BY <1>1, <1>2, <1>3, <1>4, <1>5
        DEF ReceiverInv, ResyncTypeOK, Progress, Recovers, WholeMessage,
            NoOtherMessagePlays, NothingEarly

(* What is being sent stays the end of a message.                          *)
LEMMA SentStep == ASSUME Sent, [WireNext]_wireVars PROVE Sent'
<1>1. ASSUME NEW m \in Messages, StartMessage(m) PROVE Sent'
  <2>1. m \in Seq(OnLine) /\ Len(m) \in 2..3
    BY MessageShape
  <2>2. message' = m /\ toSend' = m /\ noisy' = noisy
    BY <1>1 DEF StartMessage
  <2>3. Ending(m, m)
    BY <2>1 DEF Ending
  <2> QED BY <2>2, <2>3 DEF Sent
<1>2. CASE Arrives \/ IsLost
  BY <1>2, AdvanceSent DEF Arrives, IsLost
<1>3. CASE RealtimeByte \/ AnyByte \/ UNCHANGED wireVars
  BY <1>3 DEF RealtimeByte, AnyByte, wireVars, Sent
<1> QED BY <1>1, <1>2, <1>3 DEF WireNext

(* The receiver keeps what it knows of the bytes, whatever the line does.  *)
LEMMA WireIInv == ASSUME ReceiverInv, Sent, [WireNext]_wireVars PROVE ReceiverInv'
<1>1. ASSUME NEW b \in OnLine, Receive(b) PROVE ReceiverInv'
  <2>1. [ResyncNext]_resyncVars
    BY <1>1 DEF OnLine, ResyncNext
  <2> QED BY <2>1, ReceiverStep
<1>2. CASE UNCHANGED wireVars
  BY <1>2, ReceiverStep DEF wireVars
<1> QED BY <1>1, <1>2, StepBytes, SilenceInv

(* The line starts silent.                                                 *)
LEMMA WireStart == ASSUME WireInit PROVE ReceiverInv /\ Sent
<1>1. toSend = <<>> /\ message = <<>> /\ noisy \in BOOLEAN
  BY DEF WireInit, Silence
<1> QED BY <1>1, ReceiverStart DEF WireInit, Sent, Ending, Silence

(* For every set of messages, realtime bytes and noise, whatever bytes the *)
(* line loses, a whole note message is acted on exactly as it says         *)
(* (MIDI.c:45, the state machine recovers).                                *)
THEOREM RecoversOnTheWire == WireSpec => []Recovers
<1>1. WireInit => ReceiverInv /\ Sent
  BY WireStart
<1>2. ReceiverInv /\ Sent /\ [WireNext]_wireVars => (ReceiverInv /\ Sent)'
  BY WireIInv, SentStep
<1>3. ReceiverInv => Recovers
  BY DEF ReceiverInv
<1> QED BY <1>1, <1>2, <1>3, PTL DEF WireSpec

(* No message that is not about notes is ever taken for one: MIDI_Handler  *)
(* looks at commandArray[0], which no data byte of a message reaches.      *)
THEOREM OthersStaySilent == WireSpec => []NoOtherMessagePlays
<1>1. WireInit => ReceiverInv /\ Sent
  BY WireStart
<1>2. ReceiverInv /\ Sent /\ [WireNext]_wireVars => (ReceiverInv /\ Sent)'
  BY WireIInv, SentStep
<1>3. ReceiverInv => NoOtherMessagePlays
  BY DEF ReceiverInv
<1> QED BY <1>1, <1>2, <1>3, PTL DEF WireSpec

(* No note message is acted on before its last byte has come.              *)
THEOREM ActsAtTheEnd == WireSpec => []NothingEarly
<1>1. WireInit => ReceiverInv /\ Sent
  BY WireStart
<1>2. ReceiverInv /\ Sent /\ [WireNext]_wireVars => (ReceiverInv /\ Sent)'
  BY WireIInv, SentStep
<1>3. ReceiverInv => NothingEarly
  BY DEF ReceiverInv
<1> QED BY <1>1, <1>2, <1>3, PTL DEF WireSpec

-----------------------------------------------------------------------------
(* A line without noise that loses no status byte.  What the receiver has  *)
(* of the message being sent: room for the rest, and, if a realtime byte   *)
(* has not broken it, its status byte and the note in their places.        *)
Room ==
  /\ 2 <= midi_index
  /\ midi_index + Len(toSend) <= 4

Places ==
  commandArray[0] \in {NOTE_ON, NOTE_OFF} =>
    /\ commandArray[0] = message[1]
    /\ midi_index = 3 => commandArray[1] = message[2]

Underway == toSend # Silence /\ toSend # message

Calm ==
  ~noisy =>
    /\ midi_index <= 4 /\ ~clobbered /\ noteOnTop = 0 /\ call.op # "wild"
    /\ Underway => Room /\ Places

LineInv == ReceiverInv /\ Sent /\ Calm

(* The end of a message is the whole of it when it is as long.             *)
LEMMA WholeEnding ==
  ASSUME NEW m \in Messages \cup {Silence}, NEW s, Ending(s, m)
  PROVE  s = m <=> Len(s) = Len(m)
<1>1. m \in Seq(OnLine)
  <2>1. <<>> \in Seq(OnLine)
    OBVIOUS
  <2> QED BY <2>1, MessageShape DEF Silence
<1>2. ASSUME Len(s) = Len(m) PROVE s = m
  <2>1. \A j \in 1..Len(s) : s[j] = m[j]
    BY <1>1, <1>2 DEF Ending
  <2> QED BY <1>1, <1>2, <2>1 DEF Ending
<1> QED BY <1>2

(* A status byte opens a command and calls nothing.                        *)
LEMMA OpensCommand ==
  ASSUME ReceiverInv, NEW b \in Byte, b > 127, Receive(b)
  PROVE  /\ commandArray'[0] = b /\ midi_index' = 2 /\ call' = NoCall
         /\ noteOnTop' = noteOnTop /\ clobbered' = clobbered
<1>1. StatusByte(b)
  BY DEF Receive, USART3_IRQHandler, StoreInside, StoreOnIndex, StoreOnNoteOn,
         StoreOutside, Byte
<1>2. CommandLength(b) \in {2, 3}
  BY DEF CommandLength, ReceiverInv, ResyncTypeOK, TypeOK
<1> QED BY <1>1, <1>2 DEF StatusByte, Finish, ReceiverInv, ResyncTypeOK, TypeOK, Slots

(* A data byte with its place in the command takes it.                     *)
LEMMA TakesItsPlace ==
  ASSUME ReceiverInv, NEW b \in Byte, b <= 127, Receive(b), midi_index \in 2..3
  PROVE  /\ commandArray'[0] = commandArray[0]
         /\ commandArray'[midi_index - 1] = b
         /\ commandArray' \in [Slots -> Byte]
         /\ midi_index = 3 => commandArray'[1] = commandArray[1]
         /\ midi_index' = midi_index + 1
         /\ noteOnTop' = noteOnTop /\ clobbered' = clobbered
         /\ call' = IF midi_index >= midiCommandBytes
                      THEN Dispatch(commandArray') ELSE NoCall
<1>1. StoreInside(b)
  BY DEF Receive, USART3_IRQHandler, StatusByte, StoreOnIndex, StoreOnNoteOn,
         StoreOutside, Byte
<1>2. commandArray \in [Slots -> Byte]
  BY DEF ReceiverInv, ResyncTypeOK, TypeOK
<1> QED BY <1>1, <1>2 DEF StoreInside, Finish, Slots

(* A whole note message calls for what it says.                            *)
LEMMA CallForNotes ==
  ASSUME NEW m \in Messages, m[1] \in {NOTE_ON, NOTE_OFF}
  PROVE  CallFor(m) = Meaning(m[1], m[2], m[3])
<1>1. m[3] \in DataBytes
  BY MessageShape
<1>2. m[3] \in Byte
  BY <1>1, ByteRange
<1> QED BY <1>2 DEF CallFor, Meaning, Byte, NOTE_ON, NOTE_OFF

(* The effect of one step on the receiver of a line without noise.         *)
Quietly == call' = NoCall /\ message' = message

Ends(c) == message # Silence /\ message' = Silence /\ call' = c

LEMMA ArrivesCalm ==
  ASSUME LineInv, ~noisy, Arrives
  PROVE  Calm' /\ (Quietly \/ Ends(NoCall) \/ Ends(CallFor(message)))
<1> DEFINE b == Head(toSend)
<1>1. /\ Sent /\ ReceiverInv /\ Calm /\ toSend # Silence /\ AdvanceLine /\ Receive(b)
      /\ noisy' = noisy
  BY DEF LineInv, Arrives, AdvanceLine
<1>2. /\ message \in Messages /\ Len(toSend) \in 1..Len(message)
      /\ b = message[Len(message) - Len(toSend) + 1]
      /\ b \in OnLine
      /\ b > 127 <=> Len(toSend) = Len(message)
  BY <1>1, NextByte
<1>3. b \in Byte
  BY <1>2, ByteRange
<1>4. /\ Sent'
      /\ toSend' # Silence => message' = message /\ Len(toSend') = Len(toSend) - 1
      /\ toSend' = Silence => message' = Silence
  BY <1>1, AdvanceSent DEF Sent
<1>5. /\ Len(message) \in 2..3 /\ message # Silence
      /\ message[1] \in {NOTE_ON, NOTE_OFF} => Len(message) = 3
  BY <1>2, MessageShape DEF Silence
<1>6. midi_index \in Byte /\ midiCommandBytes \in {2, 3} /\ midi_index \in Nat
  BY <1>1 DEF ReceiverInv, ResyncTypeOK, TypeOK, Byte
<1>7. Underway' <=> toSend' # Silence /\ Len(toSend') # Len(message')
  BY <1>4, WholeEnding DEF Sent, Underway
<1> HIDE DEF b
<1>8. CASE b > 127
  <2>1. /\ commandArray'[0] = b /\ midi_index' = 2 /\ call' = NoCall
        /\ noteOnTop' = 0 /\ ~clobbered'
    BY <1>1, <1>3, <1>8, OpensCommand DEF Calm
  <2>2. Len(toSend) = Len(message) /\ b = message[1]
    BY <1>2, <1>5, <1>8
  <2>3. Quietly \/ Ends(NoCall)
    BY <1>4, <1>5, <2>1 DEF Quietly, Ends
  <2>4. ASSUME Underway' PROVE Room' /\ Places'
    <3>1. message' = message /\ Len(toSend') = Len(toSend) - 1
      BY <1>4, <1>7, <2>4
    <3> QED BY <1>5, <2>1, <2>2, <3>1 DEF Room, Places
  <2>5. call'.op # "wild"
    BY <2>1 DEF NoCall
  <2> QED BY <2>1, <2>3, <2>4, <2>5 DEF Calm
<1>9. CASE ~(b > 127)
  <2>1. b <= 127 /\ Len(toSend) # Len(message)
    BY <1>2, <1>3, <1>9 DEF Byte
  <2>2. Underway /\ Room /\ Places
    BY <1>1, <2>1 DEF Calm, Underway
  <2>3. /\ midi_index \in 2..3 /\ midi_index + Len(toSend) <= 4
    BY <1>2, <1>5, <1>6, <2>2 DEF Room
  <2>4. /\ commandArray'[0] = commandArray[0]
        /\ commandArray'[midi_index - 1] = b
        /\ commandArray' \in [Slots -> Byte]
        /\ midi_index = 3 => commandArray'[1] = commandArray[1]
        /\ midi_index' = midi_index + 1
        /\ noteOnTop' = noteOnTop /\ clobbered' = clobbered
        /\ call' = IF midi_index >= midiCommandBytes
                     THEN Dispatch(commandArray') ELSE NoCall
    BY <1>1, <1>3, <2>1, <2>3, TakesItsPlace
  <2>5. noteOnTop = 0 /\ ~clobbered
    BY <1>1 DEF Calm
  <2>6. ASSUME Underway' PROVE Room' /\ Places'
    <3>1. message' = message /\ Len(toSend') = Len(toSend) - 1 /\ Len(toSend') # 0
      BY <1>4, <1>7, <2>6 DEF Silence, Sent, Ending
    <3>2. Room'
      BY <1>2, <1>6, <2>3, <2>4, <3>1 DEF Room
    <3>3. midi_index = 2 /\ Len(toSend) = 2
      BY <1>2, <1>5, <2>3, <3>1
    <3>4. Len(message) = 3
      BY <1>5, <2>1, <3>3
    <3>5. b = message[2]
      BY <1>2, <3>3, <3>4
    <3>6. commandArray'[1] = message[2]
      BY <2>4, <3>3, <3>5
    <3> QED BY <2>2, <2>4, <3>1, <3>2, <3>6 DEF Places
  <2>7. /\ call' = NoCall \/ (call' = CallFor(message) /\ Len(toSend) = 1)
        /\ call'.op # "wild"
    <3>1. CASE commandArray[0] \notin {NOTE_ON, NOTE_OFF} \/ midi_index < midiCommandBytes
      <4>1. call' = NoCall
        BY <1>6, <2>4, <3>1 DEF Dispatch
      <4> QED BY <4>1 DEF NoCall
    <3>2. CASE commandArray[0] \in {NOTE_ON, NOTE_OFF} /\ ~(midi_index < midiCommandBytes)
      <4>1. midiCommandBytes = 3 /\ midi_index = 3 /\ Len(toSend) = 1
        <5>1. midiCommandBytes = 3
          BY <1>1, <3>2 DEF ReceiverInv, SlotZero
        <5>2. Len(toSend) \in Nat /\ Len(toSend) >= 1
          BY <1>2, <1>5
        <5>3. midi_index = 3
          BY <2>3, <3>2, <5>1
        <5> QED BY <2>3, <5>1, <5>2, <5>3
      <4>2. /\ commandArray[0] = message[1] /\ commandArray[1] = message[2]
            /\ Len(message) = 3 /\ b = message[3]
        BY <1>2, <1>5, <2>2, <3>2, <4>1 DEF Places
      <4>3. call' = Dispatch(commandArray')
        BY <2>4, <4>1
      <4>4. Dispatch(commandArray') = Meaning(message[1], message[2], message[3])
        BY <1>1, <2>4, <2>5, <3>2, <4>1, <4>2, DispatchResult DEF ReceiverInv, ResyncTypeOK
      <4>5. call' = CallFor(message)
        BY <1>2, <3>2, <4>2, <4>3, <4>4, CallForNotes
      <4>6. call'.op # "wild"
        BY <4>3, <4>4 DEF Meaning, NoteOnCall, NoteOffCall
      <4> QED BY <4>1, <4>5, <4>6
    <3> QED BY <3>1, <3>2
  <2>8. Quietly \/ Ends(NoCall) \/ Ends(CallFor(message))
    <3>1. CASE toSend' = Silence
      BY <1>4, <1>5, <2>7, <3>1 DEF Ends
    <3>2. CASE toSend' # Silence
      <4>1. Len(toSend) # 1 /\ message' = message
        BY <1>2, <1>4, <3>2, SMTT(30) DEF Sent, Ending, Silence
      <4> QED BY <2>7, <4>1 DEF Quietly
    <3> QED BY <3>1, <3>2
  <2>9. midi_index' <= 4
    BY <2>3, <2>4
  <2> QED BY <2>4, <2>5, <2>6, <2>7, <2>8, <2>9 DEF Calm
<1> QED BY <1>8, <1>9

(* A lost data byte leaves the receiver where it was.                      *)
LEMMA LostCalm ==
  ASSUME LineInv, ~noisy, ~LosesStatus, IsLost
  PROVE  Calm' /\ (Quietly \/ Ends(NoCall))
<1>1. /\ Sent /\ Calm /\ toSend # Silence /\ AdvanceLine /\ NothingReceived
      /\ noisy' = noisy /\ ~(Head(toSend) > 127)
  BY DEF LineInv, IsLost, AdvanceLine
<1>2. /\ message \in Messages /\ Len(toSend) \in 1..Len(message)
      /\ Len(toSend) # Len(message)
  BY <1>1, NextByte
<1>3. Len(message) \in 2..3 /\ message # Silence
  BY <1>2, MessageShape DEF Silence
<1>4. /\ Sent'
      /\ toSend' # Silence => message' = message /\ Len(toSend') = Len(toSend) - 1
      /\ toSend' = Silence => message' = Silence
  BY <1>1, AdvanceSent DEF Sent
<1>5. call' = NoCall /\ UNCHANGED <<commandArray, midi_index, noteOnTop, clobbered>>
  BY <1>1 DEF NothingReceived
<1>6. Underway /\ midi_index \in Nat
  BY <1>1, <1>2 DEF Underway, LineInv, ReceiverInv, ResyncTypeOK, TypeOK, Byte
<1>7. ASSUME Underway' PROVE Room' /\ Places'
  <2>1. message' = message /\ Len(toSend') = Len(toSend) - 1
    BY <1>4, <1>7 DEF Underway
  <2>2. Len(toSend) \in Nat
    BY <1>2, <1>3
  <2> QED BY <1>1, <1>5, <1>6, <2>1, <2>2 DEF Calm, Room, Places
<1>8. Quietly \/ Ends(NoCall)
  BY <1>3, <1>4, <1>5 DEF Quietly, Ends
<1> QED BY <1>1, <1>5, <1>7, <1>8 DEF Calm, NoCall

(* A realtime byte leaves room for the rest of the message, and breaks it. *)
LEMMA RealtimeCalm ==
  ASSUME LineInv, RealtimeByte
  PROVE  Calm' /\ Quietly
<1>1. PICK b \in Realtime : Receive(b)
  BY DEF RealtimeByte
<1>2. b \in Byte /\ b > 127 /\ b \notin {NOTE_ON, NOTE_OFF}
  BY WireAssumption, ByteRange
<1>3. /\ commandArray'[0] = b /\ midi_index' = 2 /\ call' = NoCall
      /\ noteOnTop' = noteOnTop /\ clobbered' = clobbered
  BY <1>1, <1>2, OpensCommand DEF LineInv
<1>4. ~noisy /\ UNCHANGED <<message, toSend, noisy>>
  BY DEF RealtimeByte
<1>5. ASSUME Underway' PROVE Room' /\ Places'
  <2>1. Underway /\ message \in Messages /\ Len(toSend) \in 1..Len(message)
    BY <1>4, <1>5, NextByte DEF Underway, LineInv
  <2>2. Len(toSend) # Len(message)
    BY <2>1, WholeEnding DEF Underway, LineInv, Sent
  <2>3. Len(message) \in 2..3
    BY <2>1, MessageShape
  <2>4. Len(toSend) \in Nat /\ Len(toSend) <= 2
    <3> DEFINE left == Len(toSend)
               whole == Len(message)
    <3>1. left \in 1..whole /\ left # whole /\ whole \in 2..3
      BY <2>1, <2>2, <2>3
    <3> HIDE DEF left, whole
    <3>2. left \in Nat /\ left <= 2
      BY <3>1
    <3> QED BY <3>2 DEF left
  <2>5. toSend' = toSend
    BY <1>4
  <2>6. Room'
    BY <1>3, <2>4, <2>5 DEF Room
  <2> QED BY <1>2, <1>3, <2>6 DEF Places
<1> QED BY <1>3, <1>4, <1>5 DEF LineInv, Calm, Quietly, NoCall

(* A new message has nothing under way.                                    *)
LEMMA StartCalm ==
  ASSUME LineInv, NEW m \in Messages, StartMessage(m)
  PROVE  Calm'
<1>1. ~Underway' /\ noisy' = noisy /\ call' = NoCall
        /\ UNCHANGED <<midi_index, noteOnTop, clobbered>>
  BY DEF StartMessage, NothingReceived, Underway
<1> QED BY <1>1 DEF Calm, LineInv, NoCall

(* Every step of a line that loses no status byte keeps the receiver calm. *)
LEMMA LineStep ==
  ASSUME LineInv, ~LosesStatus, [WireNext]_wireVars PROVE LineInv'
<1>1. ReceiverInv' /\ Sent'
  BY WireIInv, SentStep DEF LineInv
<1>2. CASE noisy
  <2>1. noisy' = noisy
    BY <1>2 DEF WireNext, StartMessage, Arrives, IsLost, AdvanceLine, RealtimeByte,
                AnyByte, wireVars
  <2> QED BY <1>1, <1>2, <2>1 DEF LineInv, Calm
<1>3. CASE ~noisy
  <2>1. ASSUME UNCHANGED wireVars PROVE Calm'
    BY <2>1 DEF LineInv, Calm, Underway, Room, Places, wireVars, resyncVars, midiVars
  <2>2. ~AnyByte
    BY <1>3 DEF AnyByte
  <2>3. Calm'
    BY <1>3, <2>1, <2>2, ArrivesCalm, LostCalm, RealtimeCalm, StartCalm DEF WireNext
  <2> QED BY <1>1, <2>3 DEF LineInv
<1> QED BY <1>2, <1>3

(* Before the first message the receiver is calm.                          *)
LEMMA LineStart == ASSUME WireInit PROVE LineInv
<1>1. ~Underway
  BY DEF WireInit, Underway
<1>2. midi_index = 0 /\ ~clobbered /\ noteOnTop = 0 /\ call = NoCall
  BY DEF WireInit, ResyncInit, Init
<1> QED BY <1>1, <1>2, WireStart DEF LineInv, Calm, NoCall

-----------------------------------------------------------------------------
(* Type correctness of the receiver and the line: every byte left to send  *)
(* is of the end of the message.                                           *)
THEOREM WireTypes == WireSpec => []WireTypeOK
<1>1. WireInit => ReceiverInv /\ Sent
  BY WireStart
<1>2. ReceiverInv /\ Sent /\ [WireNext]_wireVars => (ReceiverInv /\ Sent)'
  BY WireIInv, SentStep
<1>3. ASSUME ReceiverInv, Sent PROVE WireTypeOK
  <2>1. message \in Seq(OnLine) /\ Len(message) \in 0..3
    <3>1. CASE message = <<>>
      BY <3>1
    <3>2. CASE message \in Messages
      BY <3>2, MessageShape
    <3> QED BY <1>3, <3>1, <3>2 DEF Sent, Silence
  <2> DEFINE i == Len(toSend)
  <2>2. toSend \in Seq(OnLine) /\ i \in 0..3 /\ i <= Len(message)
    <3>1. toSend \in Seq(OnLine) /\ i <= Len(message)
      BY <1>3 DEF Sent, Ending
    <3>2. i \in Nat
      BY <3>1
    <3> DEFINE whole == Len(message)
    <3>3. whole \in 0..3 /\ i <= whole
      BY <2>1, <3>1
    <3> HIDE DEF i, whole
    <3>4. i \in 0..3
      BY <3>2, <3>3
    <3> QED BY <3>1, <3>4
  <2>3. \A j \in 1..i : toSend[j] = message[j + Len(message) - i]
    BY <1>3 DEF Sent, Ending
  <2> DEFINE rest == SubSeq(message, Len(message) - i + 1, Len(message))
  <2> HIDE DEF i
  <2>4. /\ rest \in Seq(OnLine) /\ Len(rest) = i
        /\ \A j \in 1..i : rest[j] = message[j + Len(message) - i]
    BY <2>1, <2>2
  <2> HIDE DEF rest
  <2>5. toSend = rest
    BY <2>2, <2>3, <2>4 DEF i
  <2> QED BY <1>3, <2>2, <2>5 DEF WireTypeOK, ReceiverInv, Sent, rest, i
<1> QED BY <1>1, <1>2, <1>3, PTL DEF WireSpec

(* MIDI_Handler stores without a bound, and yet, on a line that carries    *)
(* messages and loses no status byte, never outside its array: whatever    *)
(* the messages, the realtime bytes between and the data bytes lost.       *)
THEOREM NeverOutside ==
  ASSUME ~LosesStatus PROVE WireSpec => []StaysInside
<1>1. WireInit => LineInv
  BY LineStart
<1>2. LineInv /\ [WireNext]_wireVars => LineInv'
  BY LineStep
<1>3. LineInv => StaysInside
  BY DEF LineInv, Calm, StaysInside, Underway, Room
<1> QED BY <1>1, <1>2, <1>3, PTL DEF WireSpec

(* The receiver implements the channel of note messages: each message is   *)
(* acted on once, when it ends, exactly as it says, or missed, and nothing *)
(* else is ever acted on (MIDI.c:45).                                      *)
THEOREM Implements ==
  ASSUME ~LosesStatus PROVE WireSpec => RecoversMissingOne
<1>1. WireInit => LineInv
  BY LineStart
<1>2. LineInv /\ [WireNext]_wireVars => LineInv'
  BY LineStep
<1>3. WireInit => Channel!Init
  BY DEF WireInit, ResyncInit, Init, Channel!Init
<1>4. LineInv /\ [WireNext]_wireVars => [Channel!Next]_<<message, call, noisy>>
  <2> SUFFICES ASSUME LineInv, WireNext
               PROVE  Channel!Next \/ UNCHANGED <<message, call, noisy>>
    BY DEF wireVars, resyncVars, midiVars
  <2>1. noisy' = noisy
    BY DEF WireNext, StartMessage, Arrives, IsLost, AdvanceLine, RealtimeByte, AnyByte
  <2>2. Quietly => Channel!Quiet
    BY DEF Quietly, Channel!Quiet
  <2>3. Ends(NoCall) => Channel!Miss
    BY DEF Ends, Channel!Miss
  <2>4. Ends(CallFor(message)) => Channel!Deliver
    BY DEF Ends, Channel!Deliver
  <2>5. ASSUME NEW m \in Messages, StartMessage(m) PROVE Channel!Start(m)
    BY <2>5 DEF StartMessage, NothingReceived, Channel!Start
  <2>6. ~AnyByte \/ noisy
    BY DEF AnyByte
  <2>7. ASSUME ~noisy
        PROVE  Channel!Quiet \/ Channel!Deliver \/ Channel!Miss
                 \/ \E m \in Messages : Channel!Start(m)
    BY <2>2, <2>3, <2>4, <2>5, <2>6, <2>7, ArrivesCalm, LostCalm, RealtimeCalm
       DEF WireNext
  <2> QED BY <2>1, <2>7 DEF Channel!Next
<1> QED BY <1>1, <1>2, <1>3, <1>4, PTL
        DEF WireSpec, RecoversMissingOne, Channel!Spec

-----------------------------------------------------------------------------
(* The allocator: its arrays and the chip's registers agree, and no two    *)
(* channels play the same note.                                            *)
Playing == {notePlayedNumber[i] : i \in {c \in Channels : noteOn[c]}}

Consistent ==
  /\ VoicesTypeOK /\ ~hung
  /\ \A i \in Channels : keyOn[i] = noteOn[i]
  /\ \A i \in Channels : IF noteOn[i] THEN pitch[i] = Pitch(notePlayedNumber[i])
                                      ELSE notePlayedNumber[i] = 0
  /\ \A i, j \in Channels :
       noteOn[i] /\ noteOn[j] /\ notePlayedNumber[i] = notePlayedNumber[j] => i = j

-----------------------------------------------------------------------------
(* A pitch the code computes fits the register fields it goes to.          *)
LEMMA PitchType ==
  ASSUME NEW n \in 0..127
  PROVE  Pitch(n) \in [block : 0..NUM_OCTAVES, note : 0..11]
<1> DEFINE octave == (n \div 12 - 2) % 256
<1>1. octave \in 0..255 /\ n % 12 \in 0..11
  OBVIOUS
<1> HIDE DEF octave
<1>2. (IF octave > NUM_OCTAVES THEN NUM_OCTAVES ELSE octave) \in 0..NUM_OCTAVES
  BY <1>1 DEF NUM_OCTAVES
<1> QED  BY <1>1, <1>2 DEF Pitch, octave

(* With fewer notes playing than there are channels, one is free.          *)
LEMMA SomeFree ==
  ASSUME Consistent, IsFiniteSet(Playing), Cardinality(Playing) < NumChannels
  PROVE  \E i \in Channels : Free(i)
<1> SUFFICES ASSUME \A i \in Channels : noteOn[i]  PROVE FALSE
  BY DEF Consistent, Free
<1> DEFINE f == [i \in Channels |-> notePlayedNumber[i]]
<1>1. IsFiniteSet(Channels) /\ Cardinality(Channels) = NumChannels
  BY FS_Interval, VoicesAssumption DEF Channels
<1>2. f \in [Channels -> Playing]
  BY DEF Playing
<1> HIDE DEF f
<1>3. PICK i, j \in Channels : i # j /\ f[i] = f[j]
  BY <1>1, <1>2, FS_PigeonHole
<1> QED  BY <1>3 DEF f, Consistent

(* MIDI_Note_On adds its note to those that play.                          *)
LEMMA OnAdds ==
  ASSUME Consistent, NEW n \in Notes, n \notin Playing, MIDI_Note_On(n),
         IsFiniteSet(Playing), Cardinality(Playing) < NumChannels
  PROVE  Consistent' /\ Playing' = Playing \cup {n}
<1>1. PICK i \in Channels :
        /\ Free(i)
        /\ notePlayedNumber' = [notePlayedNumber EXCEPT ![i] = n]
        /\ noteOn' = [noteOn EXCEPT ![i] = TRUE]
        /\ notesPlayed' = (notesPlayed + 1) % 256
        /\ pitch' = [pitch EXCEPT ![i] = Pitch(n)]
        /\ keyOn' = [keyOn EXCEPT ![i] = TRUE]
        /\ UNCHANGED hung
  BY SomeFree DEF MIDI_Note_On
<1>2. /\ noteOn \in [Channels -> BOOLEAN] /\ keyOn \in [Channels -> BOOLEAN]
      /\ notePlayedNumber \in [Channels -> 0..127] /\ notesPlayed \in 0..255
      /\ pitch \in [Channels -> [block : 0..NUM_OCTAVES, note : 0..11]]
      /\ ~noteOn[i]
  BY <1>1 DEF Consistent, VoicesTypeOK, Free
<1>3. n \in 0..127 /\ Pitch(n) \in [block : 0..NUM_OCTAVES, note : 0..11]
  BY VoicesAssumption, PitchType
<1>4. /\ noteOn' \in [Channels -> BOOLEAN] /\ keyOn' \in [Channels -> BOOLEAN]
      /\ notePlayedNumber' \in [Channels -> 0..127] /\ notesPlayed' \in 0..255
      /\ pitch' \in [Channels -> [block : 0..NUM_OCTAVES, note : 0..11]]
  BY <1>1, <1>2, <1>3
<1>5. ~hung' /\ VoicesTypeOK'
  BY <1>1, <1>4 DEF Consistent, VoicesTypeOK
<1>6. /\ noteOn'[i] /\ keyOn'[i] /\ notePlayedNumber'[i] = n /\ pitch'[i] = Pitch(n)
      /\ \A j \in Channels : j # i =>
           /\ noteOn'[j] = noteOn[j] /\ keyOn'[j] = keyOn[j]
           /\ notePlayedNumber'[j] = notePlayedNumber[j] /\ pitch'[j] = pitch[j]
  BY <1>1, <1>2
<1>7. Playing' = Playing \cup {n}
  BY <1>2, <1>6 DEF Playing
<1>8. \A j \in Channels : noteOn[j] => notePlayedNumber[j] # n
  BY DEF Playing
<1> QED  BY <1>1, <1>2, <1>5, <1>6, <1>7, <1>8 DEF Consistent

(* MIDI_Note_Off finds its note and takes it from those that play.         *)
LEMMA OffTakes ==
  ASSUME Consistent, NEW n \in Playing, MIDI_Note_Off(n)
  PROVE  Consistent' /\ Playing' = Playing \ {n}
<1>1. PICK i \in Channels :
        /\ Plays(i, n)
        /\ notePlayedNumber' = [notePlayedNumber EXCEPT ![i] = 0]
        /\ noteOn' = [noteOn EXCEPT ![i] = FALSE]
        /\ keyOn' = [keyOn EXCEPT ![i] = FALSE]
        /\ notesPlayed' = (notesPlayed - 1) % 256
        /\ UNCHANGED <<pitch, hung>>
  <2>1. \E j \in Channels : Plays(j, n)
    BY DEF Playing, Plays
  <2> QED  BY <2>1 DEF MIDI_Note_Off, Release
<1>2. /\ noteOn \in [Channels -> BOOLEAN] /\ keyOn \in [Channels -> BOOLEAN]
      /\ notePlayedNumber \in [Channels -> 0..127] /\ notesPlayed \in 0..255
      /\ pitch \in [Channels -> [block : 0..NUM_OCTAVES, note : 0..11]]
      /\ noteOn[i] /\ notePlayedNumber[i] = n
  BY <1>1 DEF Consistent, VoicesTypeOK, Plays
<1>3. /\ noteOn' \in [Channels -> BOOLEAN] /\ keyOn' \in [Channels -> BOOLEAN]
      /\ notePlayedNumber' \in [Channels -> 0..127] /\ notesPlayed' \in 0..255
  BY <1>1, <1>2
<1>4. ~hung' /\ VoicesTypeOK'
  BY <1>1, <1>2, <1>3 DEF Consistent, VoicesTypeOK
<1>5. /\ ~noteOn'[i] /\ ~keyOn'[i] /\ notePlayedNumber'[i] = 0
      /\ \A j \in Channels : j # i =>
           /\ noteOn'[j] = noteOn[j] /\ keyOn'[j] = keyOn[j]
           /\ notePlayedNumber'[j] = notePlayedNumber[j]
  BY <1>1, <1>2
<1>6. \A j \in Channels : noteOn[j] /\ notePlayedNumber[j] = n => j = i
  BY <1>2 DEF Consistent
<1>7. Playing' = Playing \ {n}
  BY <1>2, <1>5, <1>6 DEF Playing
<1>8. \A j \in Channels : keyOn'[j] = noteOn'[j]
  BY <1>3, <1>5 DEF Consistent
<1> QED  BY <1>1, <1>4, <1>5, <1>7, <1>8 DEF Consistent
-----------------------------------------------------------------------------
(* The line.  The bytes not acted on yet are those the parser has kept of  *)
(* the message under way, the one in the data register and those still to  *)
(* come.                                                                   *)
Begun ==
  CASE midi_index = 2 -> <<commandArray[0]>>
    [] midi_index = 3 -> <<commandArray[0], commandArray[1]>>
    [] OTHER          -> <<>>
Waiting     == IF dr = NoByte THEN <<>> ELSE <<dr>>
Outstanding == (Begun \o Waiting) \o line

(* A message that makes of the keys A the keys B.                          *)
Tells(s, n, v, A, B) ==
  /\ n \in Notes
  /\ \/ s = NOTE_ON /\ v = Velocity /\ n \notin A /\ B = A \cup {n}
     \/ s = NOTE_ON /\ v = 0 /\ n \in A /\ B = A \ {n}
     \/ s = NOTE_OFF /\ v = Velocity /\ n \in A /\ B = A \ {n}

(* The bytes F are m messages, that make of S[0] the keys S[1], S[2], ..., *)
(* S[m]; there is a channel for each key of each of them.                  *)
Stream(F, m, S) ==
  /\ F \in Seq(Byte) /\ Len(F) = 3 * m
  /\ S \in [0..m -> SUBSET Notes]
  /\ \A j \in 1..m : Tells(F[3*j - 2], F[3*j - 1], F[3*j], S[j - 1], S[j])
  /\ \A j \in 0..m : IsFiniteSet(S[j]) /\ Cardinality(S[j]) <= NumChannels

(* The call the parser has made, which the handler is about to carry out,  *)
(* makes of the notes A the notes B.                                       *)
Asks(c, A, B) ==
  \/ c = NoCall /\ B = A
  \/ \E n \in Notes : \/ c = NoteOnCall(n, Velocity) /\ n \notin A /\ B = A \cup {n}
                      \/ c = NoteOffCall(n) /\ n \in A /\ B = A \ {n}

(* What the call and the bytes outstanding still ask for leads from the    *)
(* notes that play to the keys that are held.                              *)
LeadsToHeld(F, c, A, h) ==
  \E m \in Nat : \E S \in [0..m -> SUBSET Notes] :
    Stream(F, m, S) /\ S[m] = h /\ Asks(c, A, S[0])

(* What the processor does; a byte that came in during a poll or a handler *)
(* finds the data register empty.                                          *)
Registers ==
  /\ line \in Seq(Byte) /\ dr \in Byte \cup {NoByte}
  /\ cpu \in {"thread", "poll", "busy", "isr"} /\ arrived \in Nat
  /\ cpu # "isr" => call = NoCall
  /\ cpu # "thread" /\ dr # NoByte => arrived >= 1

Parser ==
  /\ commandArray \in [Slots -> Byte] /\ midi_index \in {0, 2, 3, 4}
  /\ midiCommandBytes = 3 /\ noteOnTop = 0

IInv ==
  /\ Registers /\ Parser /\ Consistent
  /\ LeadsToHeld(Outstanding, call, Playing, held)

-----------------------------------------------------------------------------
(* The numbers of the keys are data bytes, other than the status bytes.    *)
LEMMA Bytes ==
  /\ NOTE_ON \in Byte /\ NOTE_OFF \in Byte /\ NOTE_ON > 127 /\ NOTE_OFF > 127
  /\ NOTE_ON # NOTE_OFF /\ Velocity \in Byte /\ Velocity \in 1..127 /\ 0 \in Byte
  /\ \A n \in Notes : n \in Byte /\ n <= 127 /\ n >= 0
BY VoicesAssumption DEF NOTE_ON, NOTE_OFF, Velocity, Byte

LEMMA Grouped ==
  ASSUME NEW s \in Seq(Byte), NEW t \in Seq(Byte), NEW u \in Seq(Byte)
  PROVE  (s \o t) \o u = s \o (t \o u)
BY ConcatAssociative

Followed(S, m, B) == [j \in 0..m + 1 |-> IF j = m + 1 THEN B ELSE S[j]]

(* A message at the end of the bytes tells of the key the player just used.*)
LEMMA StreamGrows ==
  ASSUME NEW F, NEW m \in Nat, NEW S, Stream(F, m, S),
         NEW a \in Byte, NEW n \in Byte, NEW v \in Byte, NEW B \in SUBSET Notes,
         Tells(a, n, v, S[m], B), IsFiniteSet(B), Cardinality(B) <= NumChannels
  PROVE  Stream(F \o <<a, n, v>>, m + 1, Followed(S, m, B))
<1> DEFINE G == F \o <<a, n, v>>
           T == Followed(S, m, B)
<1>1. F \in Seq(Byte) /\ Len(F) = 3 * m /\ S \in [0..m -> SUBSET Notes]
  BY DEF Stream
<1>2. <<a, n, v>> \in Seq(Byte) /\ Len(<<a, n, v>>) = 3
  OBVIOUS
<1>3. /\ G \in Seq(Byte) /\ Len(G) = 3 * (m + 1)
      /\ \A i \in 1..3 * (m + 1) :
           G[i] = IF i <= 3 * m THEN F[i] ELSE <<a, n, v>>[i - 3 * m]
  <2>1. 3 * (m + 1) = Len(F) + 3
    BY <1>1
  <2>2. /\ G \in Seq(Byte) /\ Len(G) = Len(F) + 3
        /\ \A i \in 1..Len(F) + 3 : G[i] = IF i <= Len(F) THEN F[i] ELSE <<a, n, v>>[i - Len(F)]
    BY <1>1, <1>2, ConcatProperties
  <2> QED  BY <1>1, <2>1, <2>2
<1> HIDE DEF G
<1>4. /\ T \in [0..m + 1 -> SUBSET Notes]
      /\ T[m + 1] = B /\ \A j \in 0..m : T[j] = S[j]
  <2>1. \A j \in 0..m + 1 : j = m + 1 \/ j \in 0..m
    OBVIOUS
  <2>2. \A j \in 0..m : j \in 0..m + 1 /\ j # m + 1
    OBVIOUS
  <2> QED  BY <1>1, <2>1, <2>2 DEF Followed
<1> HIDE DEF T
<1>5. ASSUME NEW j \in 1..m + 1
      PROVE  Tells(G[3*j - 2], G[3*j - 1], G[3*j], T[j - 1], T[j])
  <2>1. CASE j \in 1..m
    <3>1. /\ 3*j - 2 \in 1..3 * (m + 1) /\ 3*j - 1 \in 1..3 * (m + 1) /\ 3*j \in 1..3 * (m + 1)
          /\ 3*j <= 3*m /\ 3*j - 1 <= 3*m /\ 3*j - 2 <= 3*m /\ j \in 0..m /\ j - 1 \in 0..m
      BY <2>1
    <3>2. G[3*j - 2] = F[3*j - 2] /\ G[3*j - 1] = F[3*j - 1] /\ G[3*j] = F[3*j]
      BY <1>3, <3>1
    <3>3. T[j] = S[j] /\ T[j - 1] = S[j - 1]
      BY <1>4, <3>1
    <3> QED  BY <2>1, <3>2, <3>3 DEF Stream
  <2>2. CASE j = m + 1
    <3>1. /\ 3*j - 2 \in 1..3 * (m + 1) /\ 3*j - 1 \in 1..3 * (m + 1) /\ 3*j \in 1..3 * (m + 1)
          /\ 3*j - 2 - 3*m = 1 /\ 3*j - 1 - 3*m = 2 /\ 3*j - 3*m = 3
          /\ ~(3*j - 2 <= 3*m) /\ ~(3*j - 1 <= 3*m) /\ ~(3*j <= 3*m)
          /\ j - 1 = m /\ m \in 0..m
      BY <2>2
    <3>2. G[3*j - 2] = a /\ G[3*j - 1] = n /\ G[3*j] = v
      BY <1>3, <3>1
    <3>3. T[j] = B /\ T[j - 1] = S[m]
      BY <1>4, <2>2, <3>1
    <3> QED  BY <3>2, <3>3
  <2> QED  BY <2>1, <2>2
<1>6. \A j \in 0..m + 1 : IsFiniteSet(T[j]) /\ Cardinality(T[j]) <= NumChannels
  <2>1. \A j \in 0..m + 1 : j = m + 1 \/ j \in 0..m
    OBVIOUS
  <2> QED  BY <1>4, <2>1 DEF Stream
<1> QED  BY <1>3, <1>4, <1>5, <1>6 DEF Stream, G, T

(* The first message is gone.                                              *)
LEMMA StreamShrinks ==
  ASSUME NEW F, NEW m \in Nat, m >= 1, NEW S, Stream(F, m, S),
         NEW G \in Seq(Byte), Len(G) = Len(F) - 3, \A i \in 1..Len(G) : G[i] = F[i + 3]
  PROVE  Stream(G, m - 1, [j \in 0..m - 1 |-> S[j + 1]])
<1> DEFINE T == [j \in 0..m - 1 |-> S[j + 1]]
<1>1. Len(F) = 3 * m /\ S \in [0..m -> SUBSET Notes] /\ m - 1 \in Nat /\ Len(G) = 3 * (m - 1)
  BY DEF Stream
<1>2. T \in [0..m - 1 -> SUBSET Notes]
  <2>1. \A j \in 0..m - 1 : j + 1 \in 0..m
    OBVIOUS
  <2> QED  BY <1>1, <2>1
<1>3. \A j \in 0..m - 1 : T[j] = S[j + 1]
  OBVIOUS
<1> HIDE DEF T
<1>4. ASSUME NEW j \in 1..m - 1
      PROVE  Tells(G[3*j - 2], G[3*j - 1], G[3*j], T[j - 1], T[j])
  <2>1. /\ 3*j - 2 \in 1..Len(G) /\ 3*j - 1 \in 1..Len(G) /\ 3*j \in 1..Len(G)
        /\ 3*j - 2 + 3 = 3*(j + 1) - 2 /\ 3*j - 1 + 3 = 3*(j + 1) - 1 /\ 3*j + 3 = 3*(j + 1)
        /\ j + 1 \in 1..m /\ j \in 0..m - 1 /\ j - 1 \in 0..m - 1 /\ (j - 1) + 1 = (j + 1) - 1
    BY <1>1
  <2>2. G[3*j - 2] = F[3*(j + 1) - 2] /\ G[3*j - 1] = F[3*(j + 1) - 1] /\ G[3*j] = F[3*(j + 1)]
    BY <2>1
  <2>3. T[j - 1] = S[(j + 1) - 1] /\ T[j] = S[j + 1]
    BY <1>3, <2>1
  <2> QED  BY <2>1, <2>2, <2>3 DEF Stream
<1>5. \A j \in 0..m - 1 : IsFiniteSet(T[j]) /\ Cardinality(T[j]) <= NumChannels
  <2>1. \A j \in 0..m - 1 : j + 1 \in 0..m
    OBVIOUS
  <2> QED  BY <1>3, <2>1 DEF Stream
<1> QED  BY <1>1, <1>2, <1>4, <1>5 DEF Stream, T

(* A byte there is belongs to a message, the first of which is known.      *)
LEMMA FirstMessage ==
  ASSUME NEW F, NEW m \in Nat, NEW S, Stream(F, m, S), Len(F) >= 1
  PROVE  /\ m >= 1 /\ Len(F) >= 3 /\ 0 \in 0..m /\ 1 \in 0..m
         /\ Tells(F[1], F[2], F[3], S[0], S[1])
<1>1. Len(F) = 3 * m
  BY DEF Stream
<1>2. m >= 1 /\ 1 \in 1..m
  BY <1>1
<1>3. Tells(F[3*1 - 2], F[3*1 - 1], F[3*1], S[1 - 1], S[1])
  BY <1>2 DEF Stream
<1> QED  BY <1>1, <1>2, <1>3
-----------------------------------------------------------------------------
(* What the parser makes of a byte of a note message.                      *)
LEMMA StatusTaken ==
  ASSUME Parser, NEW b \in {NOTE_ON, NOTE_OFF}, USART3_IRQHandler(b)
  PROVE  /\ commandArray' = [commandArray EXCEPT ![0] = b] /\ midi_index' = 2
         /\ call' = NoCall /\ Parser'
<1>1. b > 127 /\ b \in Byte
  BY Bytes
<1>2. StatusByte(b)
  <2>1. ~(b <= 127)
    BY <1>1 DEF Byte
  <2> QED  BY <2>1 DEF USART3_IRQHandler, StoreInside, StoreOnIndex, StoreOnNoteOn, StoreOutside
<1>3. CommandLength(b) = 3
  BY DEF CommandLength, NOTE_ON, NOTE_OFF, CHANNEL_PRESSURE
<1>4. /\ commandArray' = [commandArray EXCEPT ![0] = b] /\ midi_index' = 2
      /\ call' = NoCall /\ midiCommandBytes' = 3 /\ noteOnTop' = noteOnTop
  BY <1>2, <1>3 DEF StatusByte, Finish
<1>5. commandArray' \in [Slots -> Byte]
  BY <1>1, <1>4 DEF Parser
<1> QED  BY <1>4, <1>5 DEF Parser

LEMMA DataTaken ==
  ASSUME Parser, NEW b \in Byte, b <= 127, midi_index \in {2, 3}, USART3_IRQHandler(b)
  PROVE  /\ commandArray' = [commandArray EXCEPT ![midi_index - 1] = b]
         /\ midi_index' = midi_index + 1 /\ Parser'
         /\ call' = IF midi_index = 3 THEN Dispatch(commandArray') ELSE NoCall
<1>1. StoreInside(b)
  BY DEF USART3_IRQHandler, StatusByte, StoreOnIndex, StoreOnNoteOn, StoreOutside, Byte
<1>2. /\ commandArray' = [commandArray EXCEPT ![midi_index - 1] = b]
      /\ midiCommandBytes' = 3 /\ noteOnTop' = noteOnTop
      /\ midi_index' = (midi_index + 1) % 256
      /\ call' = IF midi_index >= 3 THEN Dispatch(commandArray') ELSE NoCall
  BY <1>1 DEF StoreInside, Finish, Parser
<1>3. midi_index' = midi_index + 1
  BY <1>2
<1>4. commandArray' \in [Slots -> Byte]
  BY <1>2 DEF Parser
<1> QED  BY <1>2, <1>3, <1>4 DEF Parser

(* A whole message makes the call that its keys ask for.                   *)
LEMMA DispatchAsks ==
  ASSUME NEW cmd, NEW A, NEW B, Tells(cmd[0], cmd[1], cmd[2], A, B), noteOnTop = 0
  PROVE  Asks(Dispatch(cmd), A, B)
<1>1. cmd[1] \in Notes
  BY DEF Tells
<1>2. CASE cmd[0] = NOTE_ON /\ cmd[2] = Velocity /\ cmd[1] \notin A /\ B = A \cup {cmd[1]}
  <2>1. Dispatch(cmd) = NoteOnCall(cmd[1], Velocity)
    BY <1>2, Bytes DEF Dispatch, Velocity
  <2> QED  BY <1>1, <1>2, <2>1 DEF Asks
<1>3. CASE cmd[0] = NOTE_ON /\ cmd[2] = 0 /\ cmd[1] \in A /\ B = A \ {cmd[1]}
  <2>1. Dispatch(cmd) = NoteOffCall(cmd[1])
    BY <1>3, Bytes DEF Dispatch
  <2> QED  BY <1>1, <1>3, <2>1 DEF Asks
<1>4. CASE cmd[0] = NOTE_OFF /\ cmd[1] \in A /\ B = A \ {cmd[1]}
  <2>1. Dispatch(cmd) = NoteOffCall(cmd[1])
    BY <1>4, Bytes DEF Dispatch
  <2> QED  BY <1>1, <1>4, <2>1 DEF Asks
<1> QED  BY <1>2, <1>3, <1>4 DEF Tells

(* The bytes of a message are of the kinds the parser tells apart.         *)
LEMMA KindsOfBytes ==
  ASSUME NEW a, NEW n, NEW v, NEW A, NEW B, Tells(a, n, v, A, B)
  PROVE  /\ a \in {NOTE_ON, NOTE_OFF} /\ a \in Byte
         /\ n \in Byte /\ n <= 127 /\ v \in Byte /\ v <= 127
BY Bytes DEF Tells

(* The handler is entered with a byte: it is the next one of the message   *)
(* under way, and the last one makes the call.                             *)
LEMMA EnterKeeps ==
  ASSUME IInv, EnterISR
  PROVE  /\ IInv'
         /\ midi_index \in {0, 4} => call' = NoCall
         /\ call' # NoCall => midi_index' = 4
<1>1. /\ cpu = "thread" /\ dr # NoByte /\ USART3_IRQHandler(dr) /\ dr' = NoByte
      /\ cpu' = "isr" /\ arrived' = 0 /\ UNCHANGED <<voiceVars, held, line>>
  BY DEF EnterISR, playerVars
<1>2. /\ dr \in Byte /\ line \in Seq(Byte) /\ call = NoCall
      /\ commandArray \in [Slots -> Byte] /\ midi_index \in {0, 2, 3, 4} /\ noteOnTop = 0
  BY <1>1 DEF IInv, Registers, Parser
<1>3. Consistent' /\ Playing' = Playing
  BY <1>1 DEF voiceVars, IInv, Consistent, VoicesTypeOK, Playing
<1>4. 0 \in Slots /\ 1 \in Slots /\ 2 \in Slots
  BY DEF Slots
<1>p. PICK m \in Nat : \E S \in [0..m -> SUBSET Notes] :
        Stream(Outstanding, m, S) /\ S[m] = held /\ Asks(call, Playing, S[0])
  BY DEF IInv, LeadsToHeld
<1>5. PICK S \in [0..m -> SUBSET Notes] :
        Stream(Outstanding, m, S) /\ S[m] = held /\ Asks(call, Playing, S[0])
  BY <1>p
<1> DEFINE F == Outstanding
<1>6. S[0] = Playing
  BY <1>2, <1>5 DEF Asks, NoCall, NoteOnCall, NoteOffCall
<1>7. Waiting = <<dr>> /\ Waiting' = <<>>
  BY <1>1 DEF Waiting
<1>8. ASSUME Parser', call' = NoCall, Outstanding' = F  PROVE IInv'
  <2>1. LeadsToHeld(Outstanding', call', Playing', held')
    BY <1>1, <1>3, <1>5, <1>6, <1>8 DEF LeadsToHeld, Asks
  <2>2. Registers'
    BY <1>1, <1>2 DEF Registers, NoByte
  <2> QED  BY <1>3, <1>8, <2>1, <2>2 DEF IInv
<1>9. CASE midi_index \in {0, 4}
  <2>1. Begun = <<>> /\ F = <<dr>> \o line
    BY <1>7, <1>9 DEF Begun, Outstanding
  <2>2. Len(F) >= 1 /\ F[1] = dr
    BY <1>2, <2>1
  <2>3. dr \in {NOTE_ON, NOTE_OFF}
    BY <1>5, <2>2, FirstMessage, KindsOfBytes
  <2>4. /\ commandArray' = [commandArray EXCEPT ![0] = dr] /\ midi_index' = 2
        /\ call' = NoCall /\ Parser'
    BY <1>1, <2>3, StatusTaken DEF IInv
  <2>5. commandArray'[0] = dr
    BY <1>2, <1>4, <2>4
  <2>6. Begun' = <<dr>>
    BY <2>4, <2>5 DEF Begun
  <2>7. Outstanding' = F
    BY <1>1, <1>2, <1>7, <2>1, <2>6 DEF Outstanding
  <2> QED  BY <1>8, <2>4, <2>7
<1>10. CASE midi_index = 2
  <2>1. Begun = <<commandArray[0]>> /\ F = <<commandArray[0], dr>> \o line
    BY <1>2, <1>4, <1>7, <1>10 DEF Begun, Outstanding
  <2>2. Len(F) >= 1 /\ F[2] = dr
    BY <1>2, <1>4, <2>1
  <2>3. dr <= 127
    BY <1>5, <2>2, FirstMessage, KindsOfBytes
  <2>4. /\ commandArray' = [commandArray EXCEPT ![1] = dr] /\ midi_index' = 3
        /\ call' = NoCall /\ Parser'
    BY <1>1, <1>2, <1>10, <2>3, DataTaken DEF IInv
  <2>5. commandArray'[0] = commandArray[0] /\ commandArray'[1] = dr
    BY <1>2, <1>4, <2>4
  <2>6. Begun' = <<commandArray[0], dr>>
    BY <2>4, <2>5 DEF Begun
  <2>7. Outstanding' = F
    BY <1>1, <1>2, <1>4, <1>7, <2>1, <2>6 DEF Outstanding
  <2> QED  BY <1>8, <2>4, <2>7
<1>11. CASE midi_index = 3
  <2>1. /\ Begun = <<commandArray[0], commandArray[1]>>
        /\ F = <<commandArray[0], commandArray[1], dr>> \o line
    BY <1>2, <1>4, <1>7, <1>11 DEF Begun, Outstanding
  <2>2. /\ Len(F) = Len(line) + 3 /\ Len(line) \in Nat
        /\ F[1] = commandArray[0] /\ F[2] = commandArray[1] /\ F[3] = dr
        /\ \A i \in 1..Len(line) : F[i + 3] = line[i]
    <3> DEFINE c == <<commandArray[0], commandArray[1], dr>>
    <3>1. /\ c \in Seq(Byte) /\ Len(c) = 3 /\ c[1] = commandArray[0]
          /\ c[2] = commandArray[1] /\ c[3] = dr
      BY <1>2, <1>4
    <3> HIDE DEF c
    <3>2. /\ Len(c \o line) = Len(c) + Len(line) /\ Len(line) \in Nat
          /\ \A i \in 1..Len(c) + Len(line) :
               (c \o line)[i] = IF i <= Len(c) THEN c[i] ELSE line[i - Len(c)]
      BY <1>2, <3>1, ConcatProperties
    <3>3. \A i \in 1..Len(line) : (c \o line)[i + 3] = line[i]
      <4> SUFFICES ASSUME NEW i \in 1..Len(line)  PROVE (c \o line)[i + 3] = line[i]
        OBVIOUS
      <4>1. i + 3 \in 1..Len(c) + Len(line) /\ ~(i + 3 <= Len(c)) /\ i + 3 - Len(c) = i
        BY <3>1, <3>2
      <4> QED  BY <3>2, <4>1
    <3>4. F = c \o line
      BY <2>1 DEF c
    <3> QED  BY <3>1, <3>2, <3>3, <3>4
  <2> HIDE DEF F
  <2>3. m >= 1 /\ 1 \in 0..m /\ Tells(commandArray[0], commandArray[1], dr, S[0], S[1])
    BY <1>5, <2>2, FirstMessage DEF F
  <2>4. dr <= 127
    BY <2>3, KindsOfBytes
  <2>5. /\ commandArray' = [commandArray EXCEPT ![2] = dr] /\ midi_index' = 4
        /\ call' = Dispatch(commandArray') /\ Parser'
    BY <1>1, <1>2, <1>11, <2>4, DataTaken DEF IInv
  <2>6. /\ commandArray'[0] = commandArray[0] /\ commandArray'[1] = commandArray[1]
        /\ commandArray'[2] = dr
    BY <1>2, <1>4, <2>5
  <2>7. Asks(call', Playing, S[1])
    BY <1>2, <1>6, <2>3, <2>5, <2>6, DispatchAsks
  <2>8. Begun' = <<>> /\ Outstanding' = line
    BY <1>1, <1>2, <1>7, <2>5 DEF Begun, Outstanding
  <2> DEFINE T == [j \in 0..m - 1 |-> S[j + 1]]
  <2>9. Stream(line, m - 1, T)
    BY <1>2, <1>5, <2>2, <2>3, StreamShrinks DEF F
  <2>10. m - 1 \in Nat /\ T[m - 1] = held /\ T[0] = S[1]
    BY <1>5, <2>3
  <2> HIDE DEF T
  <2>11. T \in [0..m - 1 -> SUBSET Notes]
    BY <2>9 DEF Stream
  <2>12. LeadsToHeld(Outstanding', call', Playing', held')
    BY <1>1, <1>3, <2>7, <2>8, <2>9, <2>10, <2>11 DEF LeadsToHeld
  <2>13. Registers'
    BY <1>1, <1>2 DEF Registers, NoByte
  <2>14. IInv'
    BY <1>3, <2>5, <2>12, <2>13 DEF IInv
  <2> QED  BY <1>11, <2>5, <2>14
<1> QED  BY <1>2, <1>9, <1>10, <1>11
-----------------------------------------------------------------------------
(* At start nothing plays, is held or outstanding.                         *)
LEMMA InitIInv == ASSUME SynthInit PROVE IInv
<1>1. Registers
  BY EmptySeq DEF SynthInit, Init, Registers, Byte, NoByte
<1>2. Parser
  BY Bytes DEF SynthInit, Init, Parser
<1>3. /\ VoicesTypeOK /\ \A i \in Channels : ~noteOn[i]
  <2>1. [block |-> 0, note |-> 0] \in [block : 0..NUM_OCTAVES, note : 0..11]
    BY DEF NUM_OCTAVES
  <2>2. /\ pitch \in [Channels -> [block : 0..NUM_OCTAVES, note : 0..11]]
        /\ notePlayedNumber \in [Channels -> 0..127] /\ notesPlayed \in 0..255
    BY <2>1 DEF SynthInit, VoicesInit
  <2>3. /\ noteOn \in [Channels -> BOOLEAN] /\ keyOn \in [Channels -> BOOLEAN]
        /\ hung \in BOOLEAN /\ \A i \in Channels : ~noteOn[i]
    BY DEF SynthInit, VoicesInit
  <2> QED  BY <2>2, <2>3 DEF VoicesTypeOK
<1>4. Consistent
  BY <1>3 DEF SynthInit, VoicesInit, Consistent
<1>5. Playing = {} /\ held = {} /\ call = NoCall
  BY <1>3 DEF Playing, SynthInit, Init
<1>6. Outstanding = <<>>
  BY DEF Outstanding, Begun, Waiting, SynthInit, Init
<1>7. LeadsToHeld(Outstanding, call, Playing, held)
  <2> DEFINE S == [j \in 0..0 |-> {}]
  <2>1. S \in [0..0 -> SUBSET Notes] /\ S[0] = {} /\ \A j \in 0..0 : S[j] = {}
    OBVIOUS
  <2>2. <<>> \in Seq(Byte) /\ Len(<<>>) = 0
    BY EmptySeq
  <2>3. IsFiniteSet({}) /\ Cardinality({}) <= NumChannels
    BY FS_EmptySet, VoicesAssumption
  <2> HIDE DEF S
  <2>4. Stream(<<>>, 0, S)
    BY <2>1, <2>2, <2>3 DEF Stream
  <2> QED  BY <1>5, <1>6, <2>1, <2>4 DEF LeadsToHeld, Asks
<1> QED  BY <1>1, <1>2, <1>4, <1>7 DEF IInv

(* The player uses a key: its message goes to the end of the line.         *)
LEMMA KeyKeeps ==
  ASSUME IInv, NEW a \in Byte, NEW n \in Notes, NEW v \in Byte,
         Tells(a, n, v, held, held'), IsFiniteSet(held'), Cardinality(held') <= NumChannels,
         line' = line \o <<a, n, v>>,
         UNCHANGED <<midiVars, voiceVars, dr, cpu, arrived>>
  PROVE  IInv'
<1>1. Consistent' /\ Playing' = Playing /\ Begun' = Begun /\ Waiting' = Waiting
  BY DEF voiceVars, midiVars, IInv, Consistent, VoicesTypeOK, Playing, Begun, Waiting
<1>2. n \in Byte /\ line \in Seq(Byte) /\ <<a, n, v>> \in Seq(Byte)
  BY Bytes DEF IInv, Registers
<1>3. Parser'
  BY DEF midiVars, IInv, Parser
<1>4. Registers'
  BY <1>2, ConcatProperties DEF midiVars, IInv, Registers
<1>p. PICK m \in Nat : \E S \in [0..m -> SUBSET Notes] :
        Stream(Outstanding, m, S) /\ S[m] = held /\ Asks(call, Playing, S[0])
  BY DEF IInv, LeadsToHeld
<1>5. PICK S \in [0..m -> SUBSET Notes] :
        Stream(Outstanding, m, S) /\ S[m] = held /\ Asks(call, Playing, S[0])
  BY <1>p
<1>6. Outstanding' = Outstanding \o <<a, n, v>>
  <2>1. Begun \o Waiting \in Seq(Byte)
    BY DEF IInv, Parser, Registers, Begun, Waiting, Slots
  <2> DEFINE c == Begun \o Waiting
             e == <<a, n, v>>
  <2>2. Outstanding = c \o line /\ Outstanding' = c \o line'
    BY <1>1 DEF Outstanding
  <2>3. c \in Seq(Byte) /\ e \in Seq(Byte) /\ line' = line \o e
    BY <1>2, <2>1
  <2> HIDE DEF c, e
  <2>4. (c \o line) \o e = c \o (line \o e)
    BY <1>2, <2>3, Grouped
  <2>5. Outstanding' = Outstanding \o e
    BY <2>2, <2>3, <2>4
  <2> QED  BY <2>5 DEF e
<1>7. held' \in SUBSET Notes
  <2>1. held \in SUBSET Notes
    BY <1>5
  <2> QED  BY <2>1 DEF Tells
<1> DEFINE T == Followed(S, m, held')
<1>8. Stream(Outstanding \o <<a, n, v>>, m + 1, T)
  <2> DEFINE F == Outstanding
             B == held'
  <2>1. /\ Stream(F, m, S) /\ Tells(a, n, v, S[m], B) /\ B \in SUBSET Notes
        /\ IsFiniteSet(B) /\ Cardinality(B) <= NumChannels
    BY <1>5, <1>7
  <2> HIDE DEF F, B
  <2>2. Stream(F \o <<a, n, v>>, m + 1, Followed(S, m, B))
    BY <1>p, <1>2, <2>1, StreamGrows
  <2> QED  BY <2>2 DEF F, B
<1>9. T[m + 1] = held' /\ T[0] = S[0]
  BY <1>p DEF Followed
<1> HIDE DEF T
<1>10. T \in [0..m + 1 -> SUBSET Notes]
  BY <1>8 DEF Stream
<1>11. LeadsToHeld(Outstanding', call', Playing', held')
  <2>1. Stream(Outstanding', m + 1, T) /\ m + 1 \in Nat
    BY <1>p, <1>6, <1>8
  <2>2. Asks(call', Playing', T[0])
    BY <1>1, <1>5, <1>9 DEF midiVars, Asks
  <2> QED  BY <1>9, <1>10, <2>1, <2>2 DEF LeadsToHeld
<1> QED  BY <1>1, <1>3, <1>4, <1>11 DEF IInv

(* There is a channel for each of the keys that are held.                  *)
LEMMA HeldFinite ==
  ASSUME IInv
  PROVE  /\ IsFiniteSet(held) /\ Cardinality(held) \in Nat /\ Cardinality(held) <= NumChannels
         /\ held \in SUBSET Notes
<1>p. PICK m \in Nat : \E S \in [0..m -> SUBSET Notes] :
        Stream(Outstanding, m, S) /\ S[m] = held
  BY DEF IInv, LeadsToHeld
<1>1. PICK S \in [0..m -> SUBSET Notes] : Stream(Outstanding, m, S) /\ S[m] = held
  BY <1>p
<1>2. m \in 0..m
  OBVIOUS
<1> QED  BY <1>1, <1>2, FS_CardinalityType DEF Stream

LEMMA PressKeeps == ASSUME IInv, NEW n \in Notes, PressKey(n), ~crowded' PROVE IInv'
<1>1. /\ n \notin held /\ held' = held \cup {n} /\ Cardinality(held') <= NumChannels
      /\ line' = line \o <<NOTE_ON, n, Velocity>>
      /\ UNCHANGED <<midiVars, voiceVars, dr, cpu, arrived>>
  <2>1. /\ n \notin held /\ held' = held \cup {n} /\ ~(Cardinality(held') > NumChannels)
        /\ line' = line \o <<NOTE_ON, n, Velocity>>
        /\ UNCHANGED <<midiVars, voiceVars, dr, cpu, arrived>>
    BY DEF PressKey, boardVars
  <2>2. Cardinality(held') = Cardinality(held) + 1
    BY <2>1, HeldFinite, FS_AddElement
  <2> QED  BY <2>1, <2>2, HeldFinite, VoicesAssumption
<1>2. IsFiniteSet(held')
  BY <1>1, HeldFinite, FS_AddElement
<1>3. Tells(NOTE_ON, n, Velocity, held, held')
  BY <1>1 DEF Tells
<1> QED  BY <1>1, <1>2, <1>3, KeyKeeps, Bytes

LEMMA ReleaseKeeps == ASSUME IInv, NEW n \in Notes, ReleaseKey(n) PROVE IInv'
<1>1. /\ n \in held /\ held' = held \ {n}
      /\ \/ line' = line \o <<NOTE_OFF, n, Velocity>>
         \/ line' = line \o <<NOTE_ON, n, 0>>
      /\ UNCHANGED <<midiVars, voiceVars, dr, cpu, arrived>>
  BY DEF ReleaseKey, boardVars
<1>2. IsFiniteSet(held') /\ Cardinality(held') = Cardinality(held) - 1
  BY <1>1, HeldFinite, FS_RemoveElement
<1>3. Cardinality(held') <= NumChannels
  BY <1>2, HeldFinite, VoicesAssumption
<1>4. Tells(NOTE_OFF, n, Velocity, held, held') /\ Tells(NOTE_ON, n, 0, held, held')
  BY <1>1 DEF Tells
<1>5. CASE line' = line \o <<NOTE_OFF, n, Velocity>>
  BY <1>1, <1>2, <1>3, <1>4, <1>5, KeyKeeps, Bytes
<1>6. CASE line' = line \o <<NOTE_ON, n, 0>>
  BY <1>1, <1>2, <1>3, <1>4, <1>6, KeyKeeps, Bytes
<1> QED  BY <1>1, <1>5, <1>6
-----------------------------------------------------------------------------
(* The handler is not stuck.                                               *)
LEMMA NotStuck == ASSUME IInv PROVE ~Stuck
<1>p. PICK m \in Nat : \E S \in [0..m -> SUBSET Notes] : Asks(call, Playing, S[0])
  BY DEF IInv, LeadsToHeld
<1>1. call.op # "wild"
  BY <1>p DEF Asks, NoCall, NoteOnCall, NoteOffCall
<1> QED  BY <1>1 DEF Stuck, IInv, Consistent

(* A byte that finds the data register empty goes there.                   *)
LEMMA TransmitKeeps == ASSUME IInv, Transmit, dr = NoByte PROVE IInv'
<1>1. /\ line # <<>> /\ line \in Seq(Byte) /\ arrived \in Nat
      /\ line' = Tail(line) /\ UNCHANGED <<midiVars, voiceVars, held, cpu>>
  BY DEF IInv, Registers, Transmit
<1>2. dr = NoByte
  OBVIOUS
<1>3. dr' = Head(line) /\ arrived' = arrived + 1
  BY <1>2, NotStuck DEF Transmit
<1>4. Head(line) \in Byte /\ Tail(line) \in Seq(Byte) /\ line = <<Head(line)>> \o Tail(line)
  BY <1>1
<1>5. Waiting = <<>> /\ Waiting' = <<Head(line)>>
  <2>1. dr' \in 0..255
    BY <1>3, <1>4 DEF Byte
  <2>2. dr' # NoByte
    BY <2>1 DEF NoByte
  <2> QED  BY <1>2, <1>3, <2>2 DEF Waiting
<1>6. Consistent' /\ Playing' = Playing /\ Begun' = Begun /\ Parser' /\ call' = call
  BY <1>1 DEF voiceVars, midiVars, IInv, Consistent, VoicesTypeOK, Playing, Begun, Parser
<1>7. Outstanding' = Outstanding
  <2>1. Begun \in Seq(Byte) /\ <<Head(line)>> \in Seq(Byte)
    BY <1>4 DEF IInv, Parser, Begun, Slots
  <2>2. Begun \o <<>> = Begun
    BY <2>1, ConcatEmptySeq
  <2>3. Outstanding = Begun \o (<<Head(line)>> \o Tail(line))
    BY <1>4, <1>5, <2>2 DEF Outstanding
  <2>4. Outstanding' = (Begun \o <<Head(line)>>) \o Tail(line)
    BY <1>1, <1>5, <1>6 DEF Outstanding
  <2> QED  BY <1>4, <2>1, <2>3, <2>4, ConcatAssociative
<1>8. Registers'
  BY <1>1, <1>3, <1>4, <1>6 DEF IInv, Registers
<1> QED  BY <1>1, <1>6, <1>7, <1>8 DEF IInv

(* The handler carries out the call and returns.                           *)
LEMMA LeaveKeeps == ASSUME IInv, LeaveISR PROVE IInv'
<1>1. /\ Callback /\ cpu' = (IF hung' THEN "isr" ELSE "thread") /\ arrived' = 0 /\ call' = NoCall
      /\ UNCHANGED <<commandArray, midi_index, midiCommandBytes, noteOnTop, held, line, dr>>
  BY DEF LeaveISR, playerVars
<1>p. PICK m \in Nat : \E S \in [0..m -> SUBSET Notes] :
        Stream(Outstanding, m, S) /\ S[m] = held /\ Asks(call, Playing, S[0])
  BY DEF IInv, LeadsToHeld
<1>2. PICK S \in [0..m -> SUBSET Notes] :
        Stream(Outstanding, m, S) /\ S[m] = held /\ Asks(call, Playing, S[0])
  BY <1>p
<1>3. Consistent' /\ Playing' = S[0]
  <2>1. CASE call = NoCall /\ S[0] = Playing
    <3>1. UNCHANGED voiceVars
      BY <1>1, <2>1 DEF Callback, NoCall
    <3> QED  BY <2>1, <3>1 DEF voiceVars, IInv, Consistent, VoicesTypeOK, Playing
  <2>2. ASSUME NEW n \in Notes, call = NoteOnCall(n, Velocity), n \notin Playing,
               S[0] = Playing \cup {n}
        PROVE  Consistent' /\ Playing' = S[0]
    <3>1. MIDI_Note_On(n)
      BY <1>1, <2>2 DEF Callback, NoteOnCall
    <3>2. IsFiniteSet(S[0]) /\ Cardinality(S[0]) <= NumChannels
      BY <1>2 DEF Stream
    <3>3. Playing \in SUBSET S[0]
      BY <2>2
    <3>4. IsFiniteSet(Playing)
      BY <3>2, <3>3, FS_Subset
    <3>5. Cardinality(Playing) \in Nat /\ Cardinality(S[0]) = Cardinality(Playing) + 1
      BY <2>2, <3>4, FS_AddElement, FS_CardinalityType
    <3>6. Cardinality(Playing) < NumChannels
      BY <3>2, <3>5, VoicesAssumption
    <3> QED  BY <2>2, <3>1, <3>4, <3>6, OnAdds DEF IInv
  <2>3. ASSUME NEW n \in Notes, call = NoteOffCall(n), n \in Playing, S[0] = Playing \ {n}
        PROVE  Consistent' /\ Playing' = S[0]
    <3>1. MIDI_Note_Off(n)
      BY <1>1, <2>3 DEF Callback, NoteOffCall
    <3> QED  BY <2>3, <3>1, OffTakes DEF IInv
  <2> QED  BY <1>2, <2>1, <2>2, <2>3 DEF Asks
<1>4. cpu' = "thread"
  BY <1>1, <1>3 DEF Consistent
<1>5. Parser' /\ Outstanding' = Outstanding
  BY <1>1 DEF IInv, Parser, Outstanding, Begun, Waiting
<1>6. LeadsToHeld(Outstanding', call', Playing', held')
  BY <1>1, <1>2, <1>3, <1>5 DEF LeadsToHeld, Asks
<1>7. Registers'
  BY <1>1, <1>4 DEF IInv, Registers
<1> QED  BY <1>3, <1>5, <1>6, <1>7 DEF IInv

(* Nothing else changes what is outstanding.                               *)
LEMMA OthersKeep ==
  ASSUME IInv, StartPoll \/ EndPoll \/ UNCHANGED vars PROVE IInv'
<1>1. /\ UNCHANGED <<midiVars, voiceVars, held, line, dr>>
  BY DEF StartPoll, EndPoll, vars, midiVars, voiceVars, playerVars
<1>2. Consistent' /\ Playing' = Playing /\ Parser' /\ Outstanding' = Outstanding /\ call' = call
  BY <1>1 DEF voiceVars, midiVars, IInv, Consistent, VoicesTypeOK, Playing, Parser,
              Outstanding, Begun, Waiting
<1>3. Registers'
  BY <1>1, <1>2 DEF IInv, Registers, StartPoll, EndPoll, vars
<1> QED  BY <1>1, <1>2, <1>3 DEF IInv

(* Until a byte is lost or a key finds no channel every step keeps it.     *)
LEMMA StepIInv == ASSUME IInv, [SynthNext]_vars PROVE IInv' \/ Excused'
<1>1. ASSUME Transmit, dr # NoByte  PROVE overrun'
  BY <1>1 DEF Transmit
<1> QED  BY <1>1, PressKeeps, ReleaseKeeps, TransmitKeeps, EnterKeeps, LeaveKeeps, OthersKeep
         DEF SynthNext, Excused
-----------------------------------------------------------------------------
(* How fast the processor is: a quiet poll lasts a fraction of a byte, a   *)
(* handler entered in time ends before a second byte is in.                *)
InTime == PollBytes <= 1 /\ ISRBytes <= 1

(* The pace of the handler.  A byte that has waited, but for a busy poll,  *)
(* came in while a note was started: it opens the next message, so the     *)
(* handler is done with it at once.                                        *)
Pace ==
  /\ cpu = "thread" /\ late /\ ~disturbed => midi_index \in {0, 4}
  /\ cpu = "isr" /\ late /\ ~disturbed => call = NoCall
  /\ cpu = "isr" /\ call = NoCall => dr = NoByte
  /\ cpu = "isr" /\ call # NoCall => midi_index = 4
  /\ cpu = "busy" /\ arrived >= 1 => disturbed

PInv ==
  /\ NoByteLost
  /\ ~Excused => IInv /\ Pace
  /\ {late, overrun, disturbed, crowded} \subseteq BOOLEAN

LEMMA StepPace ==
  ASSUME IInv, Pace, ~Excused, [SynthNext]_vars, ~Excused',
         {late, overrun, disturbed} \subseteq BOOLEAN
  PROVE  Pace'
<1>1. CASE \E n \in Notes : PressKey(n) \/ ReleaseKey(n)
  <2>1. UNCHANGED <<midi_index, call, dr, cpu, arrived, late, disturbed>>
    BY <1>1 DEF PressKey, ReleaseKey, midiVars, boardVars
  <2> QED  BY <2>1 DEF Pace
<1>2. CASE Transmit
  <2>1. UNCHANGED <<midi_index, call, cpu, late>> /\ disturbed' = (disturbed \/ cpu = "busy")
    BY <1>2 DEF Transmit, midiVars
  <2>2. ~(cpu = "isr" /\ call = NoCall)
    <3> SUFFICES ASSUME cpu = "isr", call = NoCall  PROVE FALSE
      OBVIOUS
    <3>1. call.op = "none"
      BY DEF NoCall
    <3>2. HandlerBytes = 0
      BY <3>1 DEF HandlerBytes
    <3>3. Budget = 0
      BY <3>2 DEF Budget
    <3>4. ~Stuck /\ arrived \in Nat
      BY NotStuck DEF IInv, Registers
    <3> QED  BY <1>2, <3>3, <3>4 DEF Transmit
  <2> QED  BY <2>1, <2>2 DEF Pace
<1>3. CASE EnterISR
  <2>1. /\ cpu = "thread" /\ cpu' = "isr" /\ dr' = NoByte /\ UNCHANGED <<late, disturbed>>
    BY <1>3 DEF EnterISR
  <2>2. midi_index \in {0, 4} => call' = NoCall
    BY <1>3, EnterKeeps
  <2>3. call' # NoCall => midi_index' = 4
    BY <1>3, EnterKeeps
  <2> QED  BY <2>1, <2>2, <2>3 DEF Pace
<1>4. CASE LeaveISR
  <2>1. /\ cpu = "isr" /\ cpu' = (IF hung' THEN "isr" ELSE "thread") /\ UNCHANGED <<midi_index, dr>>
        /\ late' = (dr # NoByte) /\ disturbed' = (disturbed /\ (dr # NoByte \/ overrun))
    BY <1>4 DEF LeaveISR
  <2>2. ~hung'
    BY <1>4, LeaveKeeps DEF IInv, Consistent
  <2>3. ASSUME late', ~disturbed'  PROVE midi_index' \in {0, 4}
    <3>1. dr # NoByte
      BY <2>1, <2>3
    <3>2. call # NoCall
      BY <2>1, <3>1 DEF Pace
    <3> QED  BY <2>1, <3>2 DEF Pace
  <2>4. cpu' = "thread"
    BY <2>1, <2>2
  <2> QED  BY <2>3, <2>4 DEF Pace
<1>5. CASE StartPoll
  <2>1. cpu' \in {"poll", "busy"} /\ arrived' = 0
    BY <1>5 DEF StartPoll
  <2> QED  BY <2>1 DEF Pace
<1>6. CASE EndPoll
  <2>1. /\ cpu \in {"poll", "busy"} /\ cpu' = "thread" /\ disturbed' = disturbed
        /\ late' = (cpu = "busy" /\ dr # NoByte)
    BY <1>6 DEF EndPoll
  <2>2. late' => disturbed'
    BY <2>1 DEF Pace, IInv, Registers
  <2> QED  BY <2>1, <2>2 DEF Pace
<1>7. CASE UNCHANGED vars
  BY <1>7 DEF vars, Pace
<1> QED  BY <1>1, <1>2, <1>3, <1>4, <1>5, <1>6, <1>7 DEF SynthNext

(* The parser makes a call or none.                                        *)
LEMMA KindOfCall == ASSUME IInv PROVE call = NoCall \/ call.op \in {"Note_On", "Note_Off"}
<1>p. PICK m \in Nat : \E S \in [0..m -> SUBSET Notes] : Asks(call, Playing, S[0])
  BY DEF IInv, LeadsToHeld
<1> QED  BY <1>p DEF Asks, NoteOnCall, NoteOffCall

(* A byte is lost only where one has come in during a busy poll.           *)
LEMMA LossExcused ==
  ASSUME InTime, PInv, ~Excused, [SynthNext]_vars, overrun'
  PROVE  disturbed'
<1>1. ~overrun /\ IInv /\ Pace
  BY DEF Excused, PInv
<1>2. Transmit /\ dr # NoByte
  <2>1. CASE \E n \in Notes : PressKey(n) \/ ReleaseKey(n)
    BY <1>1, <2>1 DEF PressKey, ReleaseKey, boardVars
  <2>2. CASE EnterISR \/ LeaveISR \/ StartPoll \/ EndPoll \/ UNCHANGED vars
    BY <1>1, <2>2 DEF EnterISR, LeaveISR, StartPoll, EndPoll, vars
  <2>3. CASE Transmit
    BY <1>1, <2>3 DEF Transmit
  <2> QED  BY <2>1, <2>2, <2>3 DEF SynthNext
<1>3. arrived >= 1 /\ arrived < Budget /\ arrived \in Nat
  BY <1>1, <1>2, NotStuck DEF Transmit, IInv, Registers
<1>4. PollBytes <= 1 /\ ISRBytes <= 1 /\ PollBytes \in Nat /\ ISRBytes \in Nat
  BY SynthAssumption DEF InTime
<1>5. CASE cpu = "poll"
  <2>1. Budget = PollBytes
    BY <1>5 DEF Budget
  <2> QED  BY <1>3, <1>4, <2>1
<1>6. CASE cpu = "busy"
  BY <1>2, <1>6 DEF Transmit
<1>7. CASE cpu = "isr"
  <2>1. Budget = HandlerBytes
    BY <1>7 DEF Budget
  <2>2. call # NoCall
    BY <1>1, <1>2, <1>7 DEF Pace
  <2>3. call.op \in {"Note_On", "Note_Off"}
    BY <1>1, <2>2, KindOfCall
  <2>4. late
    <3> SUFFICES ASSUME ~late  PROVE FALSE
      OBVIOUS
    <3>1. HandlerBytes = ISRBytes
      BY <2>3 DEF HandlerBytes
    <3> QED  BY <1>3, <1>4, <2>1, <3>1
  <2>5. disturbed
    BY <1>1, <1>7, <2>2, <2>4 DEF Pace
  <2> QED  BY <1>2, <2>5 DEF Transmit
<1> QED  BY <1>1, <1>2, <1>5, <1>6, <1>7 DEF Transmit, IInv, Registers

(* What has happened stays so.                                             *)
Remembered ==
  /\ crowded => crowded'
  /\ overrun => overrun'
  /\ overrun /\ disturbed => disturbed'

LEMMA StepRemembers == ASSUME [SynthNext]_vars PROVE Remembered
<1>1. CASE \E n \in Notes : PressKey(n)
  <2>1. UNCHANGED <<overrun, disturbed>> /\ \E h : crowded' = (crowded \/ h)
    BY <1>1 DEF PressKey, boardVars
  <2>2. crowded => crowded'
    BY <2>1, Zenon
  <2>3. overrun' = overrun /\ disturbed' = disturbed
    BY <2>1
  <2> QED  BY <2>2, <2>3 DEF Remembered
<1>2. CASE \E n \in Notes : ReleaseKey(n)
  BY <1>2 DEF ReleaseKey, boardVars, Remembered
<1>3. CASE Transmit
  BY <1>3 DEF Transmit, Remembered
<1>4. CASE EnterISR
  BY <1>4 DEF EnterISR, playerVars, Remembered
<1>5. CASE LeaveISR
  <2>1. /\ UNCHANGED <<overrun, crowded>>
        /\ disturbed' = (disturbed /\ (dr # NoByte \/ overrun))
    BY <1>5 DEF LeaveISR, playerVars
  <2>2. overrun /\ disturbed => disturbed'
    BY <2>1, Zenon
  <2>3. overrun' = overrun /\ crowded' = crowded
    BY <2>1
  <2> QED  BY <2>2, <2>3 DEF Remembered
<1>6. CASE StartPoll \/ EndPoll \/ UNCHANGED vars
  BY <1>6 DEF StartPoll, EndPoll, playerVars, vars, Remembered
<1> QED  BY <1>1, <1>2, <1>3, <1>4, <1>5, <1>6 DEF SynthNext

LEMMA StepPInv == ASSUME InTime, PInv, [SynthNext]_vars PROVE PInv'
<1>1. {late', overrun', disturbed', crowded'} \subseteq BOOLEAN
  BY DEF PInv, SynthNext, PressKey, ReleaseKey, Transmit, EnterISR, LeaveISR, StartPoll, EndPoll,
         vars, boardVars, playerVars
<1>2. Remembered
  BY StepRemembers
<1>3. NoByteLost'
  <2>1. CASE Excused
    BY <1>2, <2>1 DEF Remembered, Excused, PInv, NoByteLost
  <2>2. CASE ~Excused
    BY <2>2, LossExcused DEF NoByteLost
  <2> QED  BY <2>1, <2>2
<1>4. ASSUME ~Excused'  PROVE IInv' /\ Pace'
  <2>1. ~Excused
    BY <1>2, <1>4 DEF Remembered, Excused
  <2> QED  BY <1>4, <2>1, StepIInv, StepPace DEF PInv
<1> QED  BY <1>1, <1>3, <1>4 DEF PInv

(* No byte is overrun in the data register, whatever the order of bytes,   *)
(* handlers and quiet polls, before one comes in during a poll that finds  *)
(* something changed, however long that takes.                             *)
THEOREM EveryByteIsRead == ASSUME InTime PROVE SynthSpec => []NoByteLost
<1>1. SynthInit => PInv
  <2>1. ASSUME SynthInit  PROVE Pace /\ NoByteLost /\ {late, overrun, disturbed, crowded} \subseteq BOOLEAN
    BY <2>1 DEF SynthInit, Pace, NoByteLost
  <2> QED  BY <2>1, InitIInv DEF PInv
<1>2. PInv /\ [SynthNext]_vars => PInv'
  BY StepPInv
<1>3. PInv => NoByteLost
  BY DEF PInv
<1> QED  BY <1>1, <1>2, <1>3, PTL DEF SynthSpec

(* Once all bytes are through and none was lost, the keys that are held    *)
(* sound and no others, each on one channel at its pitch, as long as there *)
(* have been channels for them: for any number of keys and channels, any   *)
(* line, any order of bytes, handlers and polls and any time they take.    *)
THEOREM PlaysWhatIsHeld == SynthSpec => []InTune
<1>1. ASSUME IInv, AllThrough
      PROVE  /\ Heard = held
             /\ \A i, j \in Channels :
                  keyOn[i] /\ keyOn[j] /\ notePlayedNumber[i] = notePlayedNumber[j] => i = j
             /\ \A i \in Channels : keyOn[i] => pitch[i] = Pitch(notePlayedNumber[i])
  <2>p. PICK m \in Nat : \E S \in [0..m -> SUBSET Notes] :
          Stream(Outstanding, m, S) /\ S[m] = held /\ Asks(call, Playing, S[0])
    BY <1>1 DEF IInv, LeadsToHeld
  <2>1. PICK S \in [0..m -> SUBSET Notes] :
          Stream(Outstanding, m, S) /\ S[m] = held /\ Asks(call, Playing, S[0])
    BY <2>p
  <2>2. line = <<>> /\ Waiting = <<>> /\ call = NoCall
    BY <1>1 DEF AllThrough, Waiting, IInv, Registers
  <2>3. Len(Outstanding) <= 2
    BY <1>1, <2>2 DEF Outstanding, Begun, IInv, Parser
  <2>4. m = 0
    BY <2>1, <2>3 DEF Stream
  <2>5. Playing = held
    BY <2>1, <2>2, <2>4 DEF Asks, NoCall, NoteOnCall, NoteOffCall
  <2>6. Heard = Playing
    BY <1>1 DEF Heard, Playing, IInv, Consistent
  <2> QED  BY <1>1, <2>5, <2>6 DEF IInv, Consistent
<1>2. (Excused \/ IInv) => InTune
  BY <1>1 DEF InTune
<1>3. SynthInit => Excused \/ IInv
  BY InitIInv
<1>4. (Excused \/ IInv) /\ [SynthNext]_vars => (Excused \/ IInv)'
  <2>1. ASSUME Excused, [SynthNext]_vars  PROVE Excused'
    BY <2>1, StepRemembers DEF Remembered, Excused
  <2> QED  BY <2>1, StepIInv
<1> QED  BY <1>2, <1>3, <1>4, PTL DEF SynthSpec
=============================================================================
