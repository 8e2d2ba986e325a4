------------------------------ MODULE Console ------------------------------
(***************************************************************************)
(* The input of the shell: USART1 and its interrupt (drivers/drv_usart.c), *)
(* the ring buffer of the serial device (components/drivers/serial), the   *)
(* semaphore rx_sem, on which the thread tshell waits, and the line editor *)
(* of Shell.                                                               *)
(*                                                                         *)
(* The thread runs only while the interrupt does not; what it does with    *)
(* interrupts disabled is one step.  Bytes come at any time: from a person *)
(* who waits for the shell before the next key, or in a burst.             *)
(***************************************************************************)
EXTENDS Shell

CONSTANTS
  bufsz,        \* RT_SERIAL_RB_BUFSZ, the size of the ring
  MaxSem,       \* bound: no byte comes when rx_sem has this value; it never wraps
  Pasted,       \* bound: the bytes that come in bursts
  KeysOn        \* bound: whether bytes still come once Tab has overread the line

ASSUME ConsoleAssumption ==
  /\ bufsz \in Nat \ {0, 1} /\ MaxSem \in Nat \ {0} /\ MaxSem < 65536
  /\ KeysOn \in BOOLEAN
  /\ Pasted \subseteq Text \cup {"esc", "tab", "backspace", "enter"}

VARIABLES
  burst,        \* whether bytes come in bursts
  datar, rxne,  \* the data register and whether it holds a byte
  fifo,         \* the ring: buffer, put_index, get_index, is_full
  isr,          \* where uart_isr is
  rx_sem,       \* the value of the semaphore
  thread,       \* where tshell is: reading, taking rx_sem, waiting for it, running
  ch,           \* the character it has read
  overread      \* history: whether Tab has found no Nul in the line

vars == <<shell, burst, datar, rxne, fifo, isr, rx_sem, thread, ch, overread>>

hardware == <<datar, rxne>>

Init ==
  /\ finsh_system_init
  /\ burst \in BOOLEAN
  /\ datar = Nul /\ rxne = FALSE
  /\ fifo = [buffer |-> [i \in 0..bufsz - 1 |-> Nul],
             put_index |-> 0, get_index |-> 0, is_full |-> FALSE]
  /\ isr = "idle"
  /\ rx_sem = 0
  /\ thread = "read"
  /\ ch = Nul
  /\ overread = FALSE
-----------------------------------------------------------------------------
(* What a person types: after an escape the rest of an arrow key, or a     *)
(* character.                                                              *)
Typed ==
  CASE shell.stat = "WAIT_SPEC_KEY" -> {"["} \cup Text
    [] shell.stat = "WAIT_FUNC_KEY" -> Arrows \cup Text
    [] OTHER -> Text \cup {"esc", "tab", "backspace", "enter"}

(* A byte arrives in the empty data register.  (One that finds it full     *)
(* sets an overrun flag; bursts are taken to be slow enough.)              *)
Arrives(b) ==
  /\ overread => KeysOn
  /\ ~rxne /\ rx_sem + (IF isr = "idle" THEN 0 ELSE 1) < MaxSem
  /\ IF burst THEN b \in Pasted
     ELSE b \in Typed /\ thread = "waits" /\ isr = "idle"
  /\ datar' = b /\ rxne' = TRUE
  /\ UNCHANGED <<shell, burst, fifo, isr, rx_sem, thread, ch, overread>>

USART1_IRQHandler ==
  /\ isr = "idle" /\ rxne
  /\ isr' = "getc"
  /\ UNCHANGED <<shell, burst, hardware, fifo, rx_sem, thread, ch, overread>>

Wrapped(i) == IF i >= bufsz THEN 0 ELSE i

(* Mutant: the oldest byte is not given up. *)
StoredOver(f, b) ==
  LET put == Wrapped(f.put_index + 1)
  IN  [f EXCEPT !.buffer[f.put_index] = b, !.put_index = put]

Stored(f, b) ==
  LET put  == Wrapped(f.put_index + 1)
      full == put = f.get_index
  IN  [f EXCEPT !.buffer[f.put_index] = b,
                !.put_index = put,
                !.is_full   = @ \/ full,
                !.get_index = IF full THEN Wrapped(@ + 1) ELSE @]

(* What the data register, a slot of the ring or ch still hold after it has*)
(* been read is never used again; here it is Nul.                          *)
Emptied == rxne' = FALSE /\ datar' = Nul

(* ch32_getc and the ring, until no byte is there.                         *)
rt_hw_serial_isr ==
  /\ isr = "getc"
  /\ IF rxne THEN fifo' = Stored(fifo, datar) /\ Emptied /\ UNCHANGED isr
             ELSE isr' = "indicate" /\ UNCHANGED <<fifo, hardware>>
  /\ UNCHANGED <<shell, burst, rx_sem, thread, ch, overread>>

(* rt_sem_release: the thread that waits, or the value, of 16 bits.        *)
finsh_rx_ind ==
  /\ isr = "indicate"
  /\ isr' = "clear"
  /\ IF thread = "waits" THEN thread' = "read" /\ UNCHANGED rx_sem
     ELSE rx_sem' = (rx_sem + 1) % 65536 /\ UNCHANGED thread
  /\ UNCHANGED <<shell, burst, hardware, fifo, ch, overread>>

(* The flag is cleared that the data register may have set again.          *)
USART_ClearITPendingBit ==
  /\ isr = "clear"
  /\ isr' = "idle"
  /\ Emptied
  /\ UNCHANGED <<shell, burst, fifo, rx_sem, thread, ch, overread>>
-----------------------------------------------------------------------------
NoData(f) == f.get_index = f.put_index /\ ~f.is_full

(* finsh_getchar: rt_device_read, which is _serial_int_rx, and rt_sem_take.*)
_serial_int_rx ==
  /\ isr = "idle" /\ thread = "read"
  /\ IF NoData(fifo) THEN thread' = "take" /\ UNCHANGED <<fifo, ch>>
     ELSE /\ thread' = "run"
          /\ ch' = fifo.buffer[fifo.get_index]
          /\ fifo' = [fifo EXCEPT !.buffer[fifo.get_index] = Nul,
                                  !.get_index = Wrapped(@ + 1), !.is_full = FALSE]
  /\ UNCHANGED <<shell, burst, hardware, isr, rx_sem, overread>>

rt_sem_take ==
  /\ isr = "idle" /\ thread = "take"
  /\ IF rx_sem > 0 THEN rx_sem' = rx_sem - 1 /\ thread' = "read"
                   ELSE thread' = "waits" /\ UNCHANGED rx_sem
  /\ UNCHANGED <<shell, burst, hardware, fifo, isr, ch, overread>>

(* Mutant: the semaphore is taken for every character. *)
ThenTake == thread' = "take"

ThenRead == thread' = "read"

(* A character.  The model ends where what it does is not in its data.     *)
Run ==
  /\ isr = "idle" /\ thread = "run"
  /\ ~WritesOutside(shell, ch)
  /\ shell' = finsh_thread_entry(shell, ch)
  /\ overread' = (overread \/ TabOverreads(shell, ch))
  /\ ch' = Nul
  /\ ThenRead
  /\ UNCHANGED <<burst, hardware, fifo, isr, rx_sem>>

Isr == USART1_IRQHandler \/ rt_hw_serial_isr \/ finsh_rx_ind \/ USART_ClearITPendingBit
Tshell == _serial_int_rx \/ rt_sem_take \/ Run

Next == Isr \/ Tshell \/ \E b \in Keys : Arrives(b)

(* An interrupt comes and goes on.  A byte takes some 87 us at 115200 baud,*)
(* much longer than a turn of the interrupt's loop or a step of the thread,*)
(* so not every one of those is met by the next byte: hence SF.            *)
NoMore == rt_hw_serial_isr /\ ~rxne

Spec ==
  Init /\ [][Next]_vars /\ WF_vars(Isr) /\ SF_vars(NoMore) /\ SF_vars(Tshell)
-----------------------------------------------------------------------------
Between(f) == (f.put_index - f.get_index) % bufsz

(* The bytes in the ring, oldest first.                                    *)
Contents ==
  [i \in 1..Between(fifo) |-> fifo.buffer[(fifo.get_index + i - 1) % bufsz]]

(* Type correctness of the device, the thread and the editor.              *)
TypeOK ==
  /\ burst \in BOOLEAN /\ rxne \in BOOLEAN /\ datar \in Keys /\ ch \in Keys
  /\ fifo.buffer \in [0..bufsz - 1 -> Keys] /\ fifo.is_full \in BOOLEAN
  /\ fifo.put_index \in 0..bufsz - 1 /\ fifo.get_index \in 0..bufsz - 1
  /\ isr \in {"idle", "getc", "indicate", "clear"}
  /\ rx_sem \in 0..MaxSem
  /\ thread \in {"read", "take", "waits", "run"}
  /\ shell.stat \in {"WAIT_NORMAL", "WAIT_SPEC_KEY", "WAIT_FUNC_KEY"}
  /\ shell.line \in [Index -> Text \cup {Nul}]

(* The shell never sleeps on input: while it waits for rx_sem the ring is  *)
(* empty, or the interrupt that filled it is about to release rx_sem, even *)
(* where one interrupt stores several bytes.                               *)
NeverSleepsOnInput ==
  thread = "waits" => Contents = <<>> \/ isr \in {"getc", "indicate"}

(* The ring keeps the newest bufsz - 1 bytes, in order, whatever is_full   *)
(* says: bytes come out as they went in, and only the oldest are given up, *)
(* when there is no room.                                                  *)
Ring == INSTANCE Recent WITH Item <- Keys, Capacity <- bufsz - 1, Nothing <- Nul,
                             items <- Contents, taken <- ch
(* serial.c's receive FIFO implements Recent.                              *)
RingKeepsNewest == Ring!Spec

(* The cursor is within the line, and the line within its array with room  *)
(* for the Nul, so that no key moves memory outside it; what is before the *)
(* position is text.  So it is until Tab is pressed where a line that was  *)
(* too long has left no Nul in the array, and from then on it may not be.  *)
InLine ==
  /\ shell.line_curpos <= shell.line_position
  /\ shell.line_position < FINSH_CMD_SIZE
  /\ shell.line_position <= strlen(shell.line)
  /\ shell.current_history <= shell.history_count
  /\ shell.history_count <= FINSH_HISTORY_LINES

StaysInLine == overread \/ (TypeOK /\ InLine)

(* The editor does what a person at its prompt expects, and remembers the  *)
(* commands entered, although line, cursor and history are arrays moved by *)
(* hand.                                                                   *)
AtPrompt == INSTANCE Prompt WITH
  Character  <- Text,
  Room       <- FINSH_CMD_SIZE - 1,
  Remembers  <- FINSH_HISTORY_LINES,
  Command    <- Commands,
  text       <- SubSeq(String(shell.line), 1, shell.line_position),
  cursor     <- shell.line_curpos,
  remembered <- [h \in 1..shell.history_count |-> String(shell.cmd_history[h - 1])],
  shown      <- shell.current_history
(* shell.c's line editor and history implement Prompt, as long as Tab has  *)
(* found a Nul in the line.                                                *)
EditsAsExpected ==
  AtPrompt!Init /\ [][overread' \/ AtPrompt!Next]_(AtPrompt!vars)

(* Whatever is in the ring, the shell comes to read a byte.                *)
InputIsRead == Contents # <<>> ~> thread = "run"
=============================================================================
