------------------------------- MODULE Synth --------------------------------
(***************************************************************************)
(* The path of a note through the whole firmware: the player's keys, the   *)
(* MIDI line, the one-byte data register of USART3, the interrupt handler  *)
(* with the parser of MIDI, and the voice allocator of Voices, all on one  *)
(* processor that the timer callback Poll_Inputs also uses.                *)
(*                                                                         *)
(* rt_timer_check calls Poll_Inputs from the SysTick interrupt with        *)
(* interrupts disabled, so while it runs no byte is read; a byte that comes*)
(* when the data register is full is lost.  A poll that finds nothing      *)
(* changed is over in a fraction of the time a byte takes; one that finds a*)
(* potentiometer turned or a button pressed writes registers and draws.    *)
(* The handler of USART3 itself takes longer than a byte when it starts a  *)
(* note.  PollBytes, BusyBytes, ISRBytes and LateBytes say how many bytes  *)
(* may come in during each.                                                *)
(***************************************************************************)
EXTENDS MIDI, Voices, Sequences

CONSTANTS
  MaxHeld,     \* how many keys the player holds at most
  MaxLine,     \* bytes the keyboard has still to send, at most: a bound
  PlaysOn,     \* the player goes on when nothing is promised: a bound
  PollBytes,   \* bytes that come in during a poll that finds nothing new
  BusyBytes,   \* bytes that come in during a poll that finds something
  ISRBytes,    \* bytes that come in while a handler entered in time plays
  LateBytes    \* bytes that come in while one entered late starts a note

ASSUME SynthAssumption ==
  /\ MaxHeld \in Nat
  /\ MaxLine \in Nat
  /\ PlaysOn \in BOOLEAN
  /\ PollBytes \in Nat
  /\ BusyBytes \in Nat
  /\ ISRBytes \in Nat
  /\ LateBytes \in Nat
  /\ Notes \cup {0, 100} \subseteq DataBytes
  /\ {NOTE_ON, NOTE_OFF} \subseteq StatusBytes

VARIABLES
  held,      \* the keys that are down
  line,      \* bytes the keyboard has still to send
  dr,        \* the data register of USART3, NoByte when RXNE is clear
  cpu,       \* what the processor runs: "thread", "isr", "poll" for a poll
             \* that finds nothing new, "busy" for one that does
  arrived,   \* bytes that came in since cpu last changed
  late,      \* the byte in the data register has been waiting there
  overrun,   \* history: a byte has been lost
  disturbed, \* history: what a busy poll left unread is not made up for
  crowded    \* history: more keys were held than there are channels

vars == <<commandArray, midi_index, midiCommandBytes, noteOnTop, clobbered,
          call, noteOn, notePlayedNumber, notesPlayed, keyOn, pitch, hung,
          held, line, dr, cpu, arrived, late, overrun, disturbed, crowded>>

playerVars == <<held, line, crowded>>
boardVars  == <<dr, cpu, arrived, late, overrun, disturbed>>

Velocity == 100

SynthInit ==
  /\ Init
  /\ VoicesInit
  /\ held = {}
  /\ line = <<>>
  /\ dr = NoByte
  /\ cpu = "thread"
  /\ arrived = 0
  /\ late = FALSE
  /\ overrun = FALSE
  /\ disturbed = FALSE
  /\ crowded = FALSE

-----------------------------------------------------------------------------
(* With a byte lost or more keys held than there are channels, the rest is *)
(* what Wire and Keyboard show.                                            *)
Excused == overrun \/ crowded
CanPlay == Len(line) + 3 <= MaxLine /\ (Excused => PlaysOn)

PressKey(n) ==
  /\ CanPlay
  /\ n \notin held
  /\ Cardinality(held) < MaxHeld
  /\ held' = held \cup {n}
  /\ line' = line \o <<NOTE_ON, n, Velocity>>
  /\ crowded' = (crowded \/ Cardinality(held') > NumChannels)
  /\ UNCHANGED <<midiVars, voiceVars, boardVars>>

(* Keyboards send a release as a note off or as a note on at velocity 0.   *)
ReleaseKey(n) ==
  /\ CanPlay
  /\ n \in held
  /\ held' = held \ {n}
  /\ \/ line' = line \o <<NOTE_OFF, n, Velocity>>
     \/ line' = line \o <<NOTE_ON, n, 0>>
  /\ UNCHANGED <<midiVars, voiceVars, boardVars, crowded>>

(* A byte takes 320 us on the line; a handler that may run is entered long *)
(* before that, so while threads run the register is empty.  A handler that*)
(* plays no note is over at once.  To start a note takes longer than a     *)
(* byte: should the byte it was entered for have waited, a second may come.*)
Stuck == hung \/ call.op = "wild"

HandlerBytes ==
  CASE call.op = "none"               -> 0
    [] call.op = "Note_On" /\ late    -> LateBytes
    [] call.op = "Note_On" /\ ~late   -> ISRBytes
    [] call.op = "Note_Off"           -> ISRBytes

Budget ==
  CASE cpu = "poll" -> PollBytes
    [] cpu = "busy" -> BusyBytes
    [] cpu = "isr"  -> HandlerBytes

Transmit ==
  /\ line # <<>>
  /\ IF cpu = "thread" THEN dr = NoByte ELSE Stuck \/ arrived < Budget
  /\ line' = Tail(line)
  /\ IF dr = NoByte THEN dr' = Head(line) /\ UNCHANGED overrun
                    ELSE overrun' = TRUE /\ UNCHANGED dr
  /\ disturbed' = (disturbed \/ cpu = "busy")
  /\ arrived' = IF Stuck THEN arrived ELSE arrived + 1
  /\ UNCHANGED <<midiVars, voiceVars, held, cpu, late, crowded>>

-----------------------------------------------------------------------------
(* USART3_IRQHandler reads the register and parses the byte; the callback  *)
(* the parser makes runs to its end before the handler returns.            *)
EnterISR ==
  /\ cpu = "thread"
  /\ dr # NoByte
  /\ USART3_IRQHandler(dr)
  /\ dr' = NoByte
  /\ cpu' = "isr"
  /\ arrived' = 0
  /\ UNCHANGED <<voiceVars, playerVars, late, overrun, disturbed>>

Callback ==
  CASE call.op = "Note_On"  -> MIDI_Note_On(call.note)
    [] call.op = "Note_Off" -> MIDI_Note_Off(call.note)
    [] OTHER                -> UNCHANGED voiceVars

(* The byte that came in meanwhile has waited.  When none did, the handler *)
(* has caught up with the line.                                            *)
LeaveISR ==
  /\ cpu = "isr"
  /\ ~Stuck
  /\ Callback
  /\ cpu' = IF hung' THEN "isr" ELSE "thread"
  /\ arrived' = 0
  /\ call' = NoCall
  /\ late' = (dr # NoByte)
  /\ disturbed' = (disturbed /\ (dr # NoByte \/ overrun))
  /\ UNCHANGED <<commandArray, midi_index, midiCommandBytes, noteOnTop,
                 clobbered, playerVars, dr, overrun>>

(* Mutant: SysTick goes first. *)
StartPollFirst ==
  /\ cpu = "thread"
  /\ cpu' \in {"poll", "busy"}
  /\ arrived' = 0
  /\ UNCHANGED <<midiVars, voiceVars, playerVars, dr, late, overrun, disturbed>>

(* The SysTick interrupt is the lowest: a pending byte goes first.         *)
StartPoll ==
  /\ cpu = "thread"
  /\ dr = NoByte
  /\ cpu' \in {"poll", "busy"}
  /\ arrived' = 0
  /\ UNCHANGED <<midiVars, voiceVars, playerVars, dr, late, overrun, disturbed>>

EndPoll ==
  /\ cpu \in {"poll", "busy"}
  /\ cpu' = "thread"
  /\ arrived' = 0
  /\ late' = (cpu = "busy" /\ dr # NoByte)
  /\ UNCHANGED <<midiVars, voiceVars, playerVars, dr, overrun, disturbed>>

-----------------------------------------------------------------------------
SynthNext ==
  \/ \E n \in Notes : PressKey(n) \/ ReleaseKey(n)
  \/ Transmit
  \/ EnterISR
  \/ LeaveISR
  \/ StartPoll
  \/ EndPoll

(* The keyboard sends on; a handler that is entered runs; Poll_Inputs ends.*)
(* A pending byte is taken between two polls: EnterISR is then enabled     *)
(* until it happens, since StartPoll waits for it.                         *)
Fairness ==
  /\ WF_vars(Transmit)
  /\ WF_vars(EnterISR)
  /\ WF_vars(LeaveISR)
  /\ WF_vars(EndPoll)

SynthSpec == SynthInit /\ [][SynthNext]_vars /\ Fairness

-----------------------------------------------------------------------------
Heard == {notePlayedNumber[i] : i \in {c \in Channels : keyOn[c]}}

(* The comment at MIDI.c:41-44 has the interrupt read every byte, even when*)
(* the RTOS is busy.  So it does, even while it plays and the quiet polls  *)
(* come, until a byte comes in during a poll that finds something changed: *)
(* that poll, or the handler that makes up for it, may lose bytes.         *)
NoByteLost == overrun => disturbed \/ crowded

(* Every byte the keyboard sent was read and handled.                      *)
AllThrough == line = <<>> /\ dr = NoByte /\ cpu # "isr"

(* Once all bytes are through and none was lost, the notes that sound are  *)
(* the keys that are down, each on one channel at its pitch, as long as    *)
(* there have been channels for them.                                      *)
InTune ==
  AllThrough /\ ~Excused =>
    /\ Heard = held
    /\ \A i, j \in Channels :
         keyOn[i] /\ keyOn[j] /\ notePlayedNumber[i] = notePlayedNumber[j]
           => i = j
    /\ \A i \in Channels :
         keyOn[i] => pitch[i] = Pitch(notePlayedNumber[i])

(* Every key that goes down is heard sooner or later, through the data     *)
(* register, MIDI_Handler and MIDI_Note_On, and every key that goes up     *)
(* falls silent, unless a byte is lost or there is no channel.             *)
EveryKeySounds == \A n \in Notes : n \in held ~> n \in Heard \/ Excused
EveryKeyStops  == \A n \in Notes : n \notin held ~> n \notin Heard \/ Excused

(* With the comment at MIDI.c:41, we don't want to miss MIDI messages: what*)
(* the player does is heard.                                               *)
FollowsKeys == EveryKeySounds /\ EveryKeyStops
=============================================================================
