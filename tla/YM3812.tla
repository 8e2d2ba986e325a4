------------------------------- MODULE YM3812 -------------------------------
(***************************************************************************)
(* A write to the YM3812: YM3812_Write_Full of User/headers/YM3812/OPL2.c  *)
(* bit-bangs the register number and then the value into a shift register  *)
(* and strobes WR after each; the pin A0 tells the chip which of the two   *)
(* it is.  Nothing guards the pins.  Three contexts write:                 *)
(*                                                                         *)
(*   thread   the shell's commands                                         *)
(*   poll     Poll_Inputs, from the SysTick interrupt, interrupts disabled *)
(*   isr      the handler of USART3                                        *)
(*                                                                         *)
(* poll and isr interrupt thread at any step; neither interrupts the other.*)
(***************************************************************************)
EXTENDS Naturals

CONSTANTS
  Bytes,         \* the bytes written: register numbers and values
  ShellWrites,   \* the shell's command YM3812_Write_Wrapper is used
  ShellResets    \* its command YM3812_Test_Sequence is used

ASSUME YM3812Assumption ==
  /\ 0 \in Bytes
  /\ ShellWrites \in BOOLEAN
  /\ ShellResets \in BOOLEAN

Callers    == {"thread", "poll", "isr"}
Interrupts == {"poll", "isr"}

VARIABLES
  chip,      \* the registers of the YM3812
  latch,     \* the register number the chip has latched
  shift,     \* the shift register between the pins and the chip
  half,      \* the byte whose first bits are in, or NoHalf
  a0,        \* the pin A0
  ic,        \* the pin IC: 0 holds the chip in reset
  shadow,    \* the shadow registers of OPL2.c
  running,   \* the context that runs
  pc,        \* where each context is in YM3812_Write_Full
  job,       \* the write each context has in hand
  touched    \* history: the shell has written to the chip or reset it

busVars ==
  <<chip, latch, shift, half, a0, ic, shadow, running, pc, job, touched>>

None   == [reg |-> "none"]
NoHalf == [of |-> "nobody", byte |-> 0]

BusInit ==
  /\ chip = [r \in Bytes |-> 0]
  /\ latch = 0
  /\ shift = 0
  /\ half = NoHalf
  /\ a0 = 1
  /\ ic = 1
  /\ shadow = [r \in Bytes |-> 0]
  /\ running = "thread"
  /\ pc = [c \in Callers |-> "rest"]
  /\ job = [c \in Callers |-> None]
  /\ touched = FALSE

-----------------------------------------------------------------------------
Goto(c, from, to) ==
  /\ running = c
  /\ pc[c] = from
  /\ pc' = [pc EXCEPT ![c] = to]

(* Mutant: poll runs with interrupts enabled. *)
PreemptsPoll(c) ==
  \/ running = "thread"
  \/ running = "poll" /\ c = "isr"

(* The contexts an interrupt may stop: Poll_Inputs runs with interrupts    *)
(* disabled, and SysTick has the lowest priority.                          *)
Preempts(c) == running = "thread"

Enter(c) ==
  /\ c \in Interrupts
  /\ Preempts(c)
  /\ running' = c
  /\ UNCHANGED <<chip, latch, shift, half, a0, ic, shadow, pc, job, touched>>

(* What was interrupted goes on.                                           *)
Return(c) ==
  /\ c \in Interrupts
  /\ running = c
  /\ pc[c] = "rest"
  /\ running' = IF pc["poll"] # "rest" THEN "poll" ELSE "thread"
  /\ UNCHANGED <<chip, latch, shift, half, a0, ic, shadow, pc, job, touched>>

(* setOperatorRegister and its kind store the shadow first; the shell's    *)
(* YM3812_Write_Wrapper and YM3812_Test_Sequence write past it.            *)
Begin(c, r, v) ==
  /\ c = "thread" => ShellWrites
  /\ Goto(c, "rest", "select")
  /\ job' = [job EXCEPT ![c] = [reg |-> r, value |-> v]]
  /\ shadow' = IF c = "thread" THEN shadow ELSE [shadow EXCEPT ![r] = v]
  /\ touched' = (touched \/ c = "thread")
  /\ UNCHANGED <<chip, latch, shift, half, a0, ic, running>>

SelectAddress(c) ==
  /\ Goto(c, "select", "address1")
  /\ a0' = 0
  /\ UNCHANGED <<chip, latch, shift, half, ic, shadow, running, job, touched>>

(* SWSPI_Write clocks eight bits in.  A byte that is interrupted half way  *)
(* by another comes out mixed.                                             *)
ShiftFirst(c, from, to, byte) ==
  /\ Goto(c, from, to)
  /\ half' = [of |-> c, byte |-> byte]
  /\ shift' \in Bytes
  /\ UNCHANGED <<chip, latch, a0, ic, shadow, running, job, touched>>

ShiftRest(c, from, to, byte) ==
  /\ Goto(c, from, to)
  /\ IF half = [of |-> c, byte |-> byte] THEN shift' = byte
                                        ELSE shift' \in Bytes
  /\ half' = NoHalf
  /\ UNCHANGED <<chip, latch, a0, ic, shadow, running, job, touched>>

(* The edge of WR: the chip takes the byte for what A0 says.               *)
Strobe(c) ==
  /\ CASE ic = 0            -> UNCHANGED <<latch, chip>>
       [] ic = 1 /\ a0 = 0  -> latch' = shift /\ UNCHANGED chip
       [] ic = 1 /\ a0 = 1  -> chip' = [chip EXCEPT ![latch] = shift]
                               /\ UNCHANGED latch
  /\ UNCHANGED <<shift, half, a0, ic, shadow, running, touched>>

StrobeAddress(c) ==
  /\ Goto(c, "strobe1", "raise")
  /\ Strobe(c)
  /\ UNCHANGED job

(* Mutant: A0 is not raised for the value. *)
SelectDataLow(c) ==
  /\ Goto(c, "raise", "data1")
  /\ UNCHANGED <<chip, latch, shift, half, a0, ic, shadow, running, job, touched>>

SelectData(c) ==
  /\ Goto(c, "raise", "data1")
  /\ a0' = 1
  /\ UNCHANGED <<chip, latch, shift, half, ic, shadow, running, job, touched>>

StrobeData(c) ==
  /\ Goto(c, "strobe2", "rest")
  /\ Strobe(c)
  /\ job' = [job EXCEPT ![c] = None]

YM3812_Write_Full(c) ==
  \/ SelectAddress(c)
  \/ ShiftFirst(c, "address1", "address2", job[c].reg)
  \/ ShiftRest(c, "address2", "strobe1", job[c].reg)
  \/ StrobeAddress(c)
  \/ SelectData(c)
  \/ ShiftFirst(c, "data1", "data2", job[c].value)
  \/ ShiftRest(c, "data2", "strobe2", job[c].value)
  \/ StrobeData(c)

(* YM3812_Reset holds IC low for a millisecond, asleep.  It leaves the     *)
(* shadows as they are; YM3812_Test_Sequence goes on with ten writes.      *)
ResetLow ==
  /\ ShellResets
  /\ Goto("thread", "rest", "reset")
  /\ ic' = 0
  /\ touched' = TRUE
  /\ chip' = [r \in Bytes |-> 0]
  /\ latch' = 0
  /\ UNCHANGED <<shift, half, a0, shadow, running, job>>

ResetHigh ==
  /\ Goto("thread", "reset", "rest")
  /\ ic' = 1
  /\ UNCHANGED <<chip, latch, shift, half, a0, shadow, running, job, touched>>

BusNext ==
  \/ ResetLow
  \/ ResetHigh
  \/ \E c \in Callers :
       \/ Enter(c)
       \/ Return(c)
       \/ \E r, v \in Bytes : Begin(c, r, v)
       \/ YM3812_Write_Full(c)

BusSpec == BusInit /\ [][BusNext]_busVars

-----------------------------------------------------------------------------
Steps == {"rest", "select", "address1", "address2", "strobe1", "raise",
          "data1", "data2", "strobe2", "reset"}

(* Type correctness of the pins, the chip and the contexts.                *)
BusTypeOK ==
  /\ chip \in [Bytes -> Bytes]
  /\ latch \in Bytes
  /\ shift \in Bytes
  /\ half \in {NoHalf} \cup [of : Callers, byte : Bytes]
  /\ a0 \in {0, 1}
  /\ ic \in {0, 1}
  /\ shadow \in [Bytes -> Bytes]
  /\ running \in Callers
  /\ pc \in [Callers -> Steps]
  /\ job \in [Callers -> {None} \cup [reg : Bytes, value : Bytes]]
  /\ touched \in BOOLEAN

(* The comments at OPL2.c:211, 257 and 302 have the shadow hold a          *)
(* register's current value: while no write is under way it is the chip's, *)
(* until the shell first writes or resets behind the driver's back.        *)
ShadowIsChip ==
  ~touched /\ (\A c \in Callers : pc[c] = "rest") => chip = shadow

WriteEnds(c) == pc[c] = "strobe2" /\ pc'[c] = "rest"

Lands(c) == chip' = [chip EXCEPT ![job[c].reg] = job[c].value]

(* Whatever the shell is interrupted in, an interrupt handler changes the  *)
(* chip only when a write of its own ends, and unless the chip is held in  *)
(* reset that write puts its value in its register: notes and panel        *)
(* survive the shell.                                                      *)
InterruptWritesLand ==
  [][\A c \in Interrupts : running = c =>
       /\ ic = 1 /\ WriteEnds(c) => Lands(c)
       /\ ~WriteEnds(c) => UNCHANGED chip]_busVars
=============================================================================
