# A verification model of DOS-Synth

DOS-Synth is the firmware of a synthesizer: a CH32V307 microcontroller (RISC-V)
takes MIDI from a keyboard, drives a Yamaha YM3812 (OPL2) sound chip over
bit-banged pins, and lets four potentiometers, two buttons and a display edit
the sound. It runs on RT-Thread, whose kernel is part of the repository. This
directory holds TLA+ models of the firmware in `src/User` and of the kernel it is
built on, the TLC runs that check them and the TLAPS proofs of what matters most
about them.

`PROJECT.json` lists the components, runs, properties, hazards, findings and
theorems, and maps each definition to the lines it models.

## 1. Inventory

### The parts, their state and their operations

| part | state | operations | where |
|---|---|---|---|
| MIDI receiver | `commandArray[3]`, `midi_index`, `midiCommandBytes`, the callbacks `Note_On`, `Note_Off` | `USART3_IRQHandler`, `MIDI_Handler`, `UART_Init` | `User/headers/MIDI.c` |
| voice allocator | `noteOn[9]`, `notePlayedNumber[9]`, `notesPlayed` | `MIDI_Note_On`, `MIDI_Note_Off` | end of `YM3812/OPL2.c` |
| YM3812 driver | shadows `chipRegisters[3]`, `channelRegisters[27]`, `operatorRegisters[90]` | 40 getters and setters, `loadInstrument`, `setInstrument`, `setDrumInstrument`, `playNote`, `playDrum`, `YM3812_Begin` | `OPL2.c` |
| YM3812 bus | pins data, clock, WR, A0, IC; the chip behind them | `SWSPI_Write`, `YM3812_Write_Full`, `YM3812_Reset` | `OPL2.c` |
| inputs | `pot1Val..pot4Val`, `pot1PrevVal..`, buttons and their previous values, six function pointers; multiplexer and ADC | `Read_Potentiometers`, `Poll_Inputs`, `Get_ADC_Val`, `Clamp` | `inputs.c`, `adc_helpers.c` |
| menu | `Menu_Index`, `Main_Menu[7]`, what the display shows | 28 `Draw_`/`Change_` pairs, `Handle_Button_Left/Right`, `Slider_Draw` | `menu.c`, `main.c` |
| display | none that is read back | `ILI9341_*` | `headers/ILI9341` |
| timers | the tick, the list of active timers, each timer's time-out and flags | start, stop, control, `rt_timer_check` | `rtthread/src/timer.c`, `clock.c` |
| scheduler, threads | ready lists by priority, the priority bitmap, states, time slices, thread timers, defunct list | schedule, startup, delay, suspend, resume, yield, control, delete, the idle thread | `scheduler.c`, `thread.c`, `idle.c` |
| IPC objects | value or set, owner, ring or linked nodes, lists of waiting threads | take, release, send, receive, urgent, control, detach | `ipc.c` |
| heap | headers of blocks, `lfree`, `used_mem` | `rt_malloc`, `rt_realloc`, `rt_free`, `rt_calloc` | `mem.c` |
| console | data register, ring of 64 bytes, `rx_sem`, line of 80 characters, history of 5 | the interrupt of `USART1`, the serial device, the line editor | `drivers/drv_usart.c`, `serial.c`, `finsh/shell.c` |

### How they interact

* `USART3` interrupts at every MIDI byte. The handler runs the receiver, which
  calls `MIDI_Note_On` or `MIDI_Note_Off` through function pointers, which write
  registers, all before the interrupt returns.
* The tick interrupt counts the tick and the time slice and calls
  `rt_timer_check`, which runs callbacks with interrupts disabled: `Poll_Inputs`
  every 100 ticks, and the time-outs of threads, which make them ready again.
  `Poll_Inputs` calls the handlers of the page in control, which write registers
  and draw on the display.
* The console's interrupt puts bytes in a ring and releases `rx_sem`, on which the
  shell's thread `tshell` waits. Its commands use the same pins
  (`YM3812_Write_Wrapper`, `YM3812_Test_Sequence`) and the same ADC
  (`Read_Potentiometers_Debug`) with no lock. Interrupts preempt it anywhere.
* The tick is the lowest interrupt and `USART3` the higher one, but a poll masks
  all interrupts: so neither of the two interrupts the other, and a byte waits in
  a data register that holds one.
* The kernel protects its data by disabling interrupts for stretches of code. A
  function with two such stretches may be interrupted, and its thread preempted,
  between them. The heap is protected by a semaphore instead.

### What is hard

* Arithmetic on bytes: an index without a bound, `i >= 0` on an unsigned byte,
  an octave lowered below zero, a note number 0 that also means "free", a scale
  whose end would wrap. A tick that wraps, in a list sorted by it.
* Lost bytes, and bytes of other messages between those of a note.
* A write-only chip mirrored by hand, register by register.
* Three contexts on unguarded pins, two on an unguarded ADC.
* An interrupt handler that contains a loop.
* Kernel functions in two or three locked stretches: a time-out racing a release,
  a wake-up that finds its message gone, a node that is in no list.
* Limits: nine voices, one byte of receive buffer, rings that overflow.

### What makes each part correct

| part | correctness |
|---|---|
| receiver | a whole note message is acted on once, as it says, whatever came before; nothing else is; the array is not left |
| allocator | one voice per key held, each at its pitch; a release is never lost; others are not disturbed |
| path | every byte that comes in is read, unless a poll found something changed; every key sounds and stops |
| driver | the shadow is the chip; a call sets what it says and nothing else; a note is retuned only while keyed off |
| bus | a write puts its value in its register |
| panel | a parameter follows its potentiometer, on its page only; the sliders tell the truth |
| timers | each fires once, when its time has come, in order; stopped ones never |
| scheduler, threads | a thread is in one list, that of its state; the highest ready one runs; equals share; nothing of a deleted thread is left |
| IPC | units and messages are conserved and in order; nobody waits for what is there; a mutex has one owner, at its waiters' priority |
| heap | blocks tile the memory, no two users share, free neighbours merge |
| console | no input is left unread while the shell sleeps; the ring drops the oldest; the line editor does what the keys say |

## 2. The modules

| module | models | extends / composes |
|---|---|---|
| `MIDI` | `MIDI_Handler`, `USART3_IRQHandler` under any bytes | |
| `Resync` | the receiver with a history of the last bytes | `MIDI` |
| `Wire`, `MCWire` | a keyboard that sends messages over a line that loses bytes, or any bytes | `Resync`, implements `NoteChannel` |
| `NoteChannel` | abstract: messages are acted on once or missed | |
| `Voices` | `MIDI_Note_On`, `MIDI_Note_Off` | |
| `Keyboard` | a player and the allocator | `Voices`, implements `Polyphony` |
| `Polyphony` | abstract: a key sounds while it is held | |
| `Synth` | keyboard, line, data register, interrupt, quiet and busy polls, one processor | `MIDI`, `Voices` |
| `OPL2`, `MCOPL2` | the driver's functions on shadows and chip | |
| `YM3812` | the bit-banged write and the reset in three contexts | |
| `Panel` | inputs, ADC, menu and what the display shows | |
| `Timers`, `MCTimers` | the timer list, the tick interrupt and its callbacks | |
| `Kernel` | the scheduler and thread states, as operators and the steps all threads take | |
| `Threads`, `MCThreads` | what threads do with each other | `Kernel` |
| `IPC` | lists of waiting threads, detaching | `Kernel` |
| `Semaphore`, `Mutex`, `Event`, `Mailbox`, `MessageQueue` | the kinds of objects | `IPC` |
| `Objects`, `MCIPC` | an object of any kind and its users | the five kinds; mailbox and queue implement `Channel` |
| `Channel` | abstract: a bounded queue with urgent messages | |
| `Heap`, `MCHeap` | `rt_malloc`, `rt_free`, `rt_realloc` | |
| `Shell` | the line editor and its history | |
| `Console`, `MCConsole` | data register, interrupt, ring, semaphore, shell's thread | `Shell`, implements `Recent` and `Prompt` |
| `Recent` | abstract: a buffer in which the oldest makes room | |
| `Prompt` | abstract: a text with a cursor and remembered commands | |
| `Keyboard_proof`, `Timers_proof`, `Heap_proof`, `Console_proof` | theorems | the modules they name |
| `MIDI_proof` | theorems about the receiver and the path of a note | `Resync`, `Wire`, `Synth` |
| `Kernel_proof` | theorems about the scheduler and threads | `Threads` |
| `IPC_proof` | theorems about the objects threads wait for | `Kernel_proof`, `Objects` |
| `Board_proof` | theorems about the pins, the front panel and the driver | `YM3812`, `Panel`, `OPL2` |

### MIDI, Wire, Resync, NoteChannel

The variables have the names of the code. A step is one interrupt: the handler
reads a byte, `MIDI_Handler` runs, `midi_index` is incremented. `StatusByte` is the
first branch and the `Store...` actions are the second, one for each thing
`commandArray[midi_index - 1]` may hit. C leaves the outcome of an index outside
the array undefined. The memory map of the linked image in `src/obj` decides it:
the word before the array is the pointer `Note_On`, the byte after it is
`midi_index`, and what is beyond belongs to others (`clobbered`). A call through a
damaged pointer is a `wild` call; nothing happens after it.

`call` is the callback the last byte caused. `Resync` adds the last three bytes
and the last status byte as history; `Wire` adds the message that is on the line.
A line either carries messages, some of whose bytes are lost and between whose
bytes realtime bytes come, or it is `noisy` and carries any bytes.

### Voices, Keyboard, Polyphony

Both callbacks run inside one interrupt, so each is one step. The lowest free
channel is taken, the highest matching one released. `Pitch` keeps the unsigned
byte of the code: `note / 12 - 2` wraps for notes 0 to 23 and `playNote` cuts it off
at block 7. The F-number is represented by the note within the octave that selects it.

When no channel plays the note the loop of `MIDI_Note_Off` does not stop at zero.
`MatchOutside` and `ScanForEver` model what then happens in the linked image, where
`notePlayedNumber` lies `Distance` = 12 bytes after `noteOn`: a byte read as
`noteOn[j]` may be a note of another channel, a match clears two bytes and a KEY ON
bit and counts down; without a match the loop never ends. Bytes of variables that
the module does not hold are a nondeterministic choice. In the runs the arrays are
shorter and so is their distance, which keeps the overlap. The player may hold more
keys than there are channels; `crowded` remembers that this has happened, and what is
promised only until then says so.

### Synth

`line` holds the bytes the keyboard has still to send, `dr` the data register of
USART3, `cpu` who runs. `Transmit` puts a byte in the register or, when it is full,
loses it. `EnterISR` and `LeaveISR` are the start and the end of one interrupt;
`StartPoll` and `EndPoll` those of `Poll_Inputs`, which is `"poll"` when it finds nothing
changed and `"busy"` when it does; the player may turn a potentiometer at any time. What
matters of time is how many bytes come in during each, with 320 us to a byte:

* a quiet poll converts four times and reads two buttons, 60 us: `PollBytes` = 1;
* a busy one writes up to nine registers of about 134 us each, and draws a slider:
  `BusyBytes` = 3. Drawing may take longer, but bytes after the second are lost as the second is;
* a note writes four registers, 540 us. A handler entered when its byte came in, or after a
  quiet poll, is back before a second byte is in: `ISRBytes` = 1. One whose byte has
  waited, because a busy poll or another note ran (`late`), may see two:
  `LateBytes` = 2.

So the handler, too, may lose bytes, some time after the poll that made it late.
`disturbed` remembers that a byte came in during a busy poll, until a handler returns and
finds nothing waiting: from then on all is as before. `overrun` and `crowded` remember that
a byte was lost and that there were more keys than channels.

Fairness is weak, on the keyboard sending what it has, on entering and leaving
the handler and on the end of a poll. The hardware enters an interrupt that is
pending as soon as it is unmasked, before the lower tick interrupt; a handler that
is not in a loop runs to its end; a poll has only bounded loops. Nothing is
assumed of the player, of the start of polls, or of a handler in an endless loop.

### OPL2

The driver's state is a record, each function an operator on it, `bus` the writes of one
call in order. The setters are alike in the code, one line each, and the tables `Fields20`
to `ChipFields` give their base register, mask, bits and shift, each with its getter's.
`asked` remembers what the last call was for, so that one invariant and one action
property hold of all calls: what is asked for is stored, everything else is kept. `MCOPL2`
takes two instruments, one of the library and one with all bits set. The volume is a
percentage here and a float in the code. `&` and `|` are those of bytes, written out bit
by bit, since the theorems have to reason about them. An argument of a setter whose
parameter is a `bool` is 1 whatever it was, unless it was 0 (`AsParameter`).

### YM3812

`pc` of a context is its place in `YM3812_Write_Full`; a write of a byte to the
shift register is two steps, so that another context can come between, and then
leaves any byte. The edge of WR is one step. An interrupt runs to its end once
entered. The shell's writes and its reset go past the shadow registers; `touched`
remembers that they happened.

### Panel

A poll is one step, because interrupts are disabled. It converts, compares with the
previous values, calls the handlers of the page whose functions are installed
(`handlers`; before the first button that is none), then handles the buttons, left
first. `field` holds each of the 26 parameters on the seven pages, `shown` what is
drawn in each quarter of the display. The pages are tables taken from the
`Change_` functions, with the `scale` given to `Clamp`; `Stored` is the mask in the
setter. `ShellSelect`, `ShellStart`, `Convert`, `ShellTake` are the shell's conversions in
its thread. The ADC's flag is set by the end of a conversion and cleared by reading
the data register, so a poll may find the shell's conversion finished and take it
for its own first one.

`seen`, `turned`, `fresh` and `mixed` are history: where a potentiometer was when its
handler last ran, which were turned since the page came up, whether anything was
touched since the last poll, whether a poll ever took a conversion of the shell.

### Timers, MCTimers

`timers` is a record of the timers' fields and the list; `rt_timer_start` and the
others are operators on it. A thread's call has a step for each stretch with
interrupts disabled: `Start`, `Compute` (the tick is read with interrupts enabled),
`Insert`; `Stop` or `Remove`, then `Clear`, which rewrites the flag byte after the
interrupts are enabled; `Control`, `WriteBack`. `api` holds what the call has read.
`Tick` is the interrupt: it counts, and `Expire` runs one callback per step, which may
start and stop other timers; the periodic one is started again afterwards. Timers in
`Own` belong to one thread, whose calls are interrupted; those in `Shared` are used
with interrupts disabled, as the kernel uses the timers of threads.

The list has one level (`RT_TIMER_SKIP_LIST_LEVEL` is 1) and there are no soft timers
(`rtconfig.h:69-71`). `left` is history: how many ticks there really are until a timer
is to fire, a number that does not wrap.

### Kernel, Threads, MCThreads

`k` holds the kernel's data: ready lists, `group` (the priority bitmap), the running
thread, and of each thread its state, priority, slice, timer and error. What the
kernel does with interrupts disabled is an operator on `k`. `call[t].pc` is where a
thread is between two such stretches. `due` are the threads whose time-outs
`rt_timer_check` has still to run in this tick.

A switch asked for in an interrupt happens when it returns (`SW_handler`); no thread
runs in between, so `k.cur` is also the thread that runs. `k.owed` marks that the
ready lists were changed by a function that leaves the switch to its caller
(`rt_thread_resume`, `rt_thread_control`, a release of a mutex without waiters).

`Threads` adds what `thread.c` and `idle.c` offer. `rt_thread_resume`, `rt_thread_suspend`
and `rt_thread_delete` look at a thread with interrupts enabled and act afterwards. One
thread, `Manager`, calls them for others, as in the firmware; but what it manages may at
any of these points be woken by its time-out, be resumed by an interrupt
(`ResumedByInterrupt`, as `finsh_rx_ind` does with `tshell`), or run and suspend or end
itself. `Overtaken` is a step of this kind, and `raced` remembers it. The model goes on,
since what the code then does is still defined, until the pointers of two lists are mixed
up or a dead thread runs (`Lost`). A delay is a suspend, a timer and a schedule; the
thread then sees why it was woken. A deleted thread is unlinked, loses its timer, is
closed and buried in four steps; `Idle` frees it in two.

### IPC and the kinds of objects, Objects, Channel, MCIPC

`obj` is one object, a record whose fields depend on its kind; `Objects` chooses the kind
in its initial states, so one run covers five and one invariant is proved of all. Each
function is an action per stretch: for `rt_mb_send_wait` the first look, the wait, and the
loop a woken thread goes through again with what is left of its time-out. Interrupt
handlers are callers too where the code allows it. The message queue copies with
interrupts enabled, so that a node can be in neither list; `next`, `head`, `tail` and
`free` are its pointers. The loops over the waiters, `WakeAll` and `OfferAll`, are
functions of the number of turns made.

`Channel` is a bounded queue. The mailbox and the message queue implement it: what is
received was sent, once, in order, urgent messages first.

History: `spent` (takes less releases of a semaphore), `holds` (what each thread
believes to own of a mutex), `got` (what an event or a queue gave a thread).

### Heap, MCHeap

`heap.mem` is a function from the addresses of headers to headers, as the code's linked
blocks are; addresses are in units of `RT_ALIGN_SIZE`. Merged headers are forgotten.
`heap_sem` makes each section one step; `rt_realloc` that moves a block is three
(`rt_realloc`, `Moves`, `FreesOld`), and others come between. `given` is history: who
has which block.

### Shell, Console, Recent, Prompt, MCConsole

`Shell` is the body of the loop of `finsh_thread_entry` as an operator on the record of
the fields of `struct finsh_shell`. `line` is an array with stale characters, not a
string; `strlen` looks for the first `Nul` as the code does.

`Console` puts the hardware in front: a byte in `datar` sets `rxne`, the interrupt reads
it, puts it in the ring, counts the ring's length and releases `rx_sem`, in four steps;
the shell's thread takes bytes until the ring is empty and then takes `rx_sem`. The
thread makes no step while the interrupt runs.

The ring with its two indices and `is_full` implements `Recent`; line, cursor, history
and arrow keys implement `Prompt`. A line that was too long is given up, but its characters stay
in the array, and when Tab is pressed then `strlen(shell->line)` may find no `Nul`. `Length`
follows it to the fields behind the array, the position, the cursor and the pointer to the
device, of which `DeviceBytes` come before one that is 0. `overread` remembers that, and the
model goes on with a position outside the array, until Backspace or Enter would write to
memory that is not the editor's (`WritesOutside`).

## 3. The runs

All passing runs are exhaustive. A property of a run is often a conjunction of named
parts, which its module comments one by one: `StateAgrees` of `Threads` is `TypeOK`,
`OneList`, `GroupTells` and `TimersOfSuspended`. The types of `Wire`, `Keyboard`,
`YM3812`, and some invariants of theirs (`NeverHangs`, `NotesCounted`,
`NeverSoundsWhenFree`, `NoOtherMessagePlays`, `NothingEarly`), no run checks:
they are theorems.

| run | question | result |
|---|---|---|
| `wire` | messages, lost data bytes, realtime bytes; or any bytes | stays inside its array, implements `NoteChannel`; recovers |
| `wire_lost_status` | lost status bytes | violated, see below |
| `keyboard` | as many keys as channels, and one more | implements `Polyphony`, one voice per key, no release lost |
| `synth` | the whole path, quiet and busy polls, one key too many | bytes are lost only after a busy poll or when crowded; until then every key sounds and stops |
| `opl2` | every pair of driver calls | shadow is chip, nothing else changes |
| `ym3812` | three contexts on the pins | interrupts' writes land |
| `panel` | turns, buttons and the shell | parameters follow, sliders agree |
| `timers` | interrupted calls, callbacks, the tick's wrap | in order, none early, none missed, each once per tick |
| `threads` | four threads, every call of `thread.c` | one list each, the highest runs, deleted threads are gone, unless `raced`; equals share |
| `ipc` | each kind of object, three threads and interrupts | conserved, nobody forgotten, inheritance, mailbox and queue are channels |
| `heap` | two threads allocate, grow and free | the blocks tile the heap and belong to one user each |
| `console` | a person, or a burst of bytes, Tab among them | no sleep on input, the ring keeps the newest, the prompt does as told until `overread` |

### Bounds, and why they are enough

* `wire`: data bytes 0, 1, 4 and 100, five status bytes, among them channel pressure,
  which sets the length to two, a control change, which leaves it as it is, and timing
  clock as realtime byte. The handler compares bytes only with 0x80, 0x90, 0xD0, 127 and,
  in the third place, with 0; noise of 0 and 4 reaches the index byte inside and outside
  the array. Any number of messages. The theorems cover all bytes.
* `keyboard`: two channels, three keys, `Distance` 3; notes 0, which also marks a free
  channel, 23, the last whose octave wraps, 60 and 127. The theorems cover every number
  of channels and notes.
* `synth`: two channels, three keys held, so that one can be too many, six bytes of line:
  a press and a release can be under way together, and every byte can meet a handler or a
  poll of either kind. `PlaysOn` FALSE: the player stops once a byte is lost or a key had
  no channel, as nothing is said of later ones.
* `opl2`: two calls after `YM3812_Begin`, for channels 0 and 7, which have different
  register banks and one of which has drums; arguments 2, and 255, which overflows
  every field. Two calls show whether the second loses what the first stored.
  `MaxCalls` bounds them, which is why the run may end. The theorems cover every channel,
  argument, instrument and number of calls.
* `ym3812`: two registers and two values; no bound on the number of writes.
* `panel`: potentiometers 1 and 4 (the one a mixed conversion may hit, and the one
  with a blank handler), positions that differ by less than, about, and far more than
  the threshold of 25, including full scale; `MaxTurns` and `MaxPresses` bound what
  the player does. Two presses reach pages 1, 2, 3, 6 and 7 and the wrap-around.
* `timers`: one interrupted timer, two used with interrupts disabled, a tick of ten
  values that wraps again and again, time-outs 0 and 2, a thread preempted for at most
  one tick between reading the tick and listing the timer (`MaxLate`). A tick of ten
  values has the same halves as one of 2^32; time-outs and delay stay below the half, as
  `timer.c:323` asserts. A delay of a tick less than the half would put the list out of
  order, so `MaxLate` is at most `Half` - 2 (`TimersAssumption`).
* `threads`: the manager, a static and a dynamic thread, idle; three priorities, one of them
  shared; delays of one tick, slices of one
  or two, the scheduler locked once. The manager has a thread above it, which preempts it
  between its steps, and one of its own priority, which it can suspend. `CallsOn` FALSE: after a
  race threads finish the calls under way, but begin no other, as nothing is said of them.
* `ipc`: three threads of two priorities and interrupt handlers, one object; time-outs
  0, 1 and for ever; two flags, two places, two nodes, two values. Two places are the
  least in which a ring wraps at a place other than its start; three threads the least in
  which one overtakes two. `Sleeper` and `Sender` say which threads sleep and send.
  `MaxValue` and `MaxHold` bound the counters. Values and equal threads are symmetric.
* `heap`: 24 units, headers of three, requests of the least size, one that is less than
  it, and half the heap: splits, refusals, merges on either side and moves all happen.
* `console`: a line of three, a history of two, a ring of three, two characters, `rx_sem`
  up to two. Lines overflow, history rolls over, rings overflow, bursts meet the shell
  at every step, and Tab comes after lines that were too long. `KeysOn` FALSE: after Tab has
  found no end of the line the bytes under way are still handled, but no more come. `VIEW`
  leaves out where in the ring its contents are.

Deadlock is not checked where the system may stop. In `wire`, `wire_lost_status`, `keyboard` and
`synth` that is after a wild call or in an endless loop of the handler, and in `synth` also
where `PlaysOn` ends the play; `opl2` ends with its calls; in `ipc` every thread may wait for
ever for an object that nobody uses or that is gone; `threads` ends where `Lost` holds, and
`console` where `KeysOn` or `WritesOutside` ends it.

### Fairness

Beside that of `Synth` (above): in `threads` the tick interrupt keeps coming and an
interrupt that is entered returns (`WF` of `Interrupt`), and a thread inside the kernel
goes on when it runs (`WF` of `InKernel`); nothing is assumed of threads outside of it,
they may compute for ever, which is what time slices are for. In `console` the interrupt
is entered and returns (`WF` of `Isr`), and the shell, when it could run again and again,
runs (`SF` of `Tshell`): the interrupt disables it, but a byte takes 87 us at 115200 baud
and the handler a fraction of that. For the same reason a burst leaves the handler's loop
when it finds the data register empty again and again (`SF` of `NoMore`).

### What does not hold

* **A lost status byte.** `MIDI.c:45` says the state machine will recover. After a
  lost data byte it does. After a lost status byte the data bytes are stored for
  the command before: it is carried out again with other bytes. As the first byte
  after power-on a data byte is stored before the array, in the pointer `Note_On`;
  the next note jumps through it (`wire_lost_status`).

The following have no run of their own. The first four happen in a run, and its properties
say what holds until then; the fifth shows when a constant of a run is changed.

* **A tenth key.** With nine notes on, a tenth is dropped; its release finds no
  channel and the loop in `MIDI_Note_Off` leaves the arrays. Either something in
  memory happens to match, or the handler never returns and the synthesizer is dead
  (`synth` and `keyboard`, `crowded`; without it in `Excused`, `synth` violates
  `FollowsKeys`).
* **Turning a potentiometer while playing.** Interrupts were chosen so that no byte is missed,
  `even when the RTOS is busy` (`MIDI.c:41`), but timer callbacks run with interrupts
  disabled, and one that finds a potentiometer turned takes several bytes: all but one of
  those that come meanwhile are lost, and another may be while the handler is late (`synth`,
  `disturbed`; without it `NoByteLost` is violated). When the two data bytes of a press are
  lost, its release finds no channel, with the end of the tenth key.
* **Overtaking `rt_thread_resume`, `_suspend` and `_delete`.** Each looks at a thread with
  interrupts enabled and acts on what it saw. A time-out, or an interrupt that resumes the
  thread, between the first two parts of `rt_thread_delete` (`thread.c:419`) puts a
  thread that is then closed in a ready list; a thread that is woken and ends after
  `rt_thread_resume` has looked at it is made ready all the same, and one that ends after
  `rt_thread_suspend` has looked is marked as suspended (`threads`, `raced`; without it
  `StateAgrees` and `DeletedIsGone` are violated).
* **Tab after a line that was too long.** The line is given up, its 80 characters are not, and
  Tab's `strlen` (`shell.c:563`) leaves the array: `line_position` becomes 80 or more, the next
  character moves the cursor past the position, and Backspace then writes its `Nul`, and
  Enter copies the line, outside of their arrays (`console`, `overread`; without it
  `StaysInLine` and `EditsAsExpected` are violated).
* **Detaching an object while a waiter's time-out runs.** `rt_ipc_list_resume_all` looks
  whether anybody waits with interrupts enabled (`ipc.c:161`) and then takes the head of
  a list that has become empty (`ipc` with `DetachTimed` TRUE violates `ListsAgree`).
* A shell write (`YM3812_Write_Wrapper`) that a note interrupts mixes two bytes or finds
  another register selected (`YM3812`).
* Notes 0 to 23 come out in the highest block (`OPL2.c:1129`; `Pitch`).
* The potentiometers of page 1 are dead until the first button is pressed, because
  `Setup_Inputs` installs the buttons' handlers only (`main.c:562`; `Generic`).
* Potentiometer 4 on pages 5 and 6 draws the release slider of another page
  (`main.c:344`; `Redraw`).
* The shell's `Read_Potentiometers_Debug` hangs for good when a poll reads the data
  register it waits for (`adc_helpers.c:57`; `ShellTake`), and a poll may take one of
  its conversions (`mixed`).
* `YM3812_Reset` from the shell leaves the shadows stale (`OPL2.c:173`; `touched`).
* `setDrums` keys all drums off before it sets them, though its comment says all at
  once (`OPL2.c:1069`; `setDrums`).
* The upper half of the wave form's potentiometer repeats the lower (`main.c:188`).
* `rt_realloc` can free memory below `lfree` without moving it, though `mem.c:118` calls
  it the lowest free block (`Shrunk`), and a free block at the end of the heap that fits
  exactly is not found (`mem.c:293`, `Fitting`).
* The new owner of a mutex whose waiters queue in order of arrival inherits nothing from
  those behind it; `OwnerInherits` is claimed for lists in order of priority only.
* A byte that comes between the interrupt's last look at the data register of `USART1`
  and its clearing of `RXNE` is lost (`drv_usart.c:181`).

## 4. The proofs

`tlapm` checks them with Z3, Zenon and LS4. Each proof module has an inductive invariant,
here `IInv` (`ReceiverInv` for the MIDI receiver, `LineInv` for the line and the line
editor, `BusInv` for the bus, `DriverInv` for the driver, `ObjectInv` for the objects of
`ipc.c`), the lemmas that each step keeps it, and theorems that get the properties from
it. TLC has checked each invariant on the instance of its run, or a smaller one, before it
was proved. The assumptions on the constants are those TLC evaluates on every run.

**`Keyboard_proof`**, for any number of channels, any set of notes and any number of keys
held, under `VoicesAssumption` and `KeyboardAssumption`:

* `EveryReleaseFound`, `OwnVoice`, `Counted`: always `NeverHangs`, `OneVoicePerKey`,
  `NotesCounted`, each of which speaks of the time until the channels were crowded;
* `Undisturbed`: `SoundingUndisturbed`;
* `Implementation`: `KeepsPromise`, the refinement of `Polyphony`;
* `TypeCorrect`, `FreeIsSilent`: `TypeOK` and `NeverSoundsWhenFree`, whatever happens.

`OneVoicePerKey` is not inductive: it does not say that a free channel exists for the
next key. The inductive invariant adds that `noteOn`, KEY ON and the note
agree on every channel (`Agreement`), that every key held plays and no two channels
play the same note (`Matching`), and that as many channels are on as keys are held
(`Counting`). With fewer than `NumChannels` keys held, cardinality then gives a free
channel, and a release always finds its note, so the loop of `MIDI_Note_Off` never
leaves the arrays. `Inductive` says `~crowded => IInv`. The last two theorems rest on
less: every step that sets KEY ON sets `noteOn`, and each that clears `noteOn` inside the
arrays clears KEY ON.

**`MIDI_proof`** has three parts. The first is about the receiver alone, for any sets of
data and status bytes, under `BytesAssumption`: `Resynchronizes`, the types, `Recovers`,
`NoOtherMessagePlays` and `NothingEarly`. The invariant relates the receiver to the last
bytes: after a status byte the index is 2 and the first slot holds it; one data byte later
it is 3 and the second slot holds that byte (`Progress`); the first slot holds the last
status byte or a stray data byte, and under a note status the length is 3 (`SlotZero`).

The second is about receiver and line, for any messages, realtime bytes and noise, under
`WireAssumption`:

* `WireTypes`, `RecoversOnTheWire`, `OthersStaySilent`, `ActsAtTheEnd`: `WireTypeOK`,
  `Recovers`, `NoOtherMessagePlays` and `NothingEarly`, whatever the line loses;
* `NeverOutside`, `Implements`: if the line loses no status byte, `StaysInside` and the
  refinement of `NoteChannel`.

The first four take the receiver's invariant as it is; what is left to send is the end
of the message (`Sent`). The last two need to know what the receiver has of the message
under way (`Calm`): there is room for the rest of it in the array (`Room`), and if the
first slot holds a note status it is this message's, with the note behind it once the
index has passed it (`Places`). A lost data byte leaves more room than is needed, a
realtime byte puts another status in the first slot; either way the message can no
longer be completed. `LosesStatus` is where this breaks.

The third is about the path of a note, for any keys, any number of channels and held keys, a
line of any length and any `BusyBytes` and `LateBytes`, under `SynthAssumption`.
`EveryByteIsRead` and `PlaysWhatIsHeld`: always `NoByteLost` and `InTune`. `InTune` speaks of
moments when nothing is under way; the invariant must say what is true while bytes are. It
is `LeadsToHeld`: the bytes that the parser, the data register and the line have between
them are whole messages, and these, together with the call the handler is about to make, lead
through a sequence of sets of keys from the notes that play now to the keys that are held
now. Each set has at most `NumChannels` keys, so that a channel is free for each key that is
added. It holds, whatever the times, until a byte is lost or the keys are `crowded`; so
`InTune` needs no hypothesis about them.

`NoByteLost` has the one hypothesis `InTime`: at most one byte comes in during a quiet
poll, and at most one during a handler that was entered in time. With either of these 2
TLC finds a byte lost that no busy poll is to blame for. Of busy polls and late handlers
nothing is assumed. The invariant adds how the handler catches up (`Pace`): unless a busy
poll came, a byte that has waited did so while a note was started or ended, so it is the
first of the next message, and the handler is done with it at once.

**`Board_proof`** has three parts. The first is about the bus, for any registers and
values: `BusTypes`, `Mirrors` and `Landing`, that is `BusTypeOK`, `ShadowIsChip` and
`InterruptWritesLand`. The invariant has three parts besides the types. `Turns`: an
interrupt handler that has not ended is the one that runs, and only the thread holds the
chip in reset. `OnPins`: for each place of an interrupt's write what is on the pins; from
the shift to the strobe the latch holds what was shifted, since nothing else runs until
the interrupt returns. `Shadowed`: until the thread has written, chip and shadow differ
only in the register being written.

The second is about the panel, for any positions of the potentiometers, any calibration and
any number of turns, presses and reads by the shell, under `PanelAssumption`: `PotsAreFollowed`,
`FieldsHoldTheirScale`, `DisplayIsTrue` and `NothingElseChanges`, that is `Tracks`, `InScale`,
`ShownIsStored` and `OnlyWhenMoved`. `ShownIsStored` is not inductive, since a blank quarter
may show the release, and a poll could change that without redrawing it. The invariant
says which parameter a blank quarter may show, and two facts about the pages do
the rest: no two potentiometers of a page set the same parameter (`ControlsDiffer`), and
the release is never on a page with a blank quarter (`BlankQuarter`). `Tracks` needs that the
handlers are those of the page (`OnPage`), that a poll compares with what the handler last saw
(`Compares`), and that the parameters turned on this page are set also while the player
is turning (`AreSet`).

The third is about the driver, for any channels, arguments, instruments of eleven bytes and
number of calls, under `OPL2Assumption`: `ChipAsAskedAlways`, `CallsKeepOthers` and
`NotesStartInTune`, that is `ChipAsAsked`, `OthersKept` and `NoteStartsInTune`. The invariant
`DriverInv` says that the shadows are bytes and hold what the chip holds (`Good`), and the
rest follows from what one call does. Four groups of lemmas show that:

* bits: every byte is the sum of its bits (`HasBits`), `&` with the masks of the code picks
  some of them (`Masked`), so the mask, shift and width of every field agree (`PutsItsBits`) and the
  fields that share a register share no bit;
* places: no two registers share a shadow, and no two an address of the chip, although
  operators and channels have offsets of their own (`ShadowsDiffer`, `AddressesDiffer`);
* `Did(r, s, A)`: from `r` to `s` the fields in the domain of `A` were set to the values
  of `A`, all others are as they were, and shadows and chip agree again. Each setter does
  this, and two calls one after the other do it for both (`DidBoth`). So do instruments,
  drums and notes, which are nothing but setters, or whole registers whose fields are all
  given;
* one lemma per action: what it did is what `asked` says it was asked; for `playNote` also which
  registers it wrote, in what order (`PlayNoteStep`).

**`Timers_proof`**, for any timers, any width of the tick and any time-outs below half of
it, under `TimersAssumption`: `ListIsInOrder`, `AnyListedCanBeStopped` and
`TimersFireOnTime`, that is `InOrder`, `ListedCanBeStopped` and `OnTime`. The list is kept
in order by differences modulo the tick's range; `left`, the true time to the time-out,
says what that order means. The lemmas `Wraps` and those after it show that the code's
comparison agrees with it as long as all of them lie within half the range of each other
(`Near`). The invariant adds what a thread has read and not yet used when the tick interrupt
comes into `rt_timer_start` or `rt_timer_control` (`CallOK`), that none in the list is overdue by
more than `MaxLate` outside the interrupt, and that what fired in an interrupt is not due
again in it (`InTime`). The attempt showed the bound on the delay: with `MaxLate` = `Half` - 1
TLC finds a list out of order, so the assumption is `MaxLate` <= `Half` - 2.

**`Kernel_proof`** is about threads and the scheduler, for any threads, priorities, time
slices, delays and any depth of the scheduler's lock, under `KernelAssumption` and
`ThreadsAssumption` alone.

* `KernelAgrees`, `TheHighestRuns`: always `StateAgrees` and `FirstRuns`;
* `TheDeletedIsGone`: `DeletedIsGone`.

None of these is inductive. The functions of `thread.c` that consist of several stretches
act on what they found in the first, and `rt_schedule` relies on what its caller left. The
invariant therefore says, besides the types:

* the ready lists hold exactly the threads that are ready and not being deleted
  (`Members`), each once, in the list of its priority, and the bitmap tells which of them are
  empty (`ListsInv`);
* what the manager found when it began still holds at each place where it may be
  interrupted (`HandledInv`): the thread it resumes is still suspended, the one it suspends
  is still ready, the one it closes does not run;
* a timer runs only for a suspended thread, and not for one the manager has resumed or
  taken the timer of (`TimerInv`);
* a thread waits for idle, or idle frees it, only once its deletion is over (`GraveInv`);
* idle is always ready, so a highest ready thread exists; a thread that runs and is not
  ready is about to call the scheduler, which is not locked (`RunnerInv`);
* with no time-out due, no lock, no switch owed and no call of the scheduler ahead, the
  highest ready thread runs (`BestInv`).

It holds until a step changes the state of the thread that the manager has in its hands
(`UntilRaced`). That this one condition is enough, on whatever step and whoever makes it, is
what the proof adds to the run: interrupts, time-outs and threads that end at any other
point break nothing. `DeletedIsGone` is about steps as well, so it says that the step
at which a closed thread comes back would itself be one that races.

The lists are sequences, and the prover knows nothing of removal from the middle of
one; the lemmas before the invariant say what appending, inserting in front and removing do
to who is in a list, and what `rt_schedule_insert_thread`, `rt_schedule_remove_thread`,
`rt_thread_yield` and the rest then do to all the lists. One lemma per action shows that it
keeps the invariant, most of them with the help of two: of the calls only the caller's
changes (`OthersKept`), and a kernel whose lists fit a new set of members fits the invariant
(`Assembled`).

**`IPC_proof`** is about the objects of `ipc.c` and the threads and interrupt handlers that
use them, for any threads, priorities, time-outs, values and flags and objects of any kind
and size, under the assumptions of `Kernel`, `IPC`, the five kinds and `Objects`, and a
hypothesis: not `DetachTimed`, no object is detached while a time-out of a waiter runs. With
it TRUE TLC finds `ListsAgree` violated.

* `WaitingAgrees`: always `ListsAgree`;
* `TheMailboxIsAChannel`: `MailboxIsChannel`, the refinement of `Channel`;
* `OneThreadOwns`: always `OneOwner`;
* `ThePriorityIsInherited`: always `Inheritance`;
* `SemaphoreConserves`: always `SemConserves`.

The invariant `ObjectInv` is a conjunction of three. `KInv` says of the kernel, whatever the object:

* the ready lists hold exactly the threads that are ready, and the scheduler is not locked
  (`LockFree`);
* a thread that is in a list of the object is suspended, its error is clear, it is in one
  list, and it is at a place of its call where the code may have left it waiting
  (`QueuesInv`);
* a timer runs, or is due, only for a suspended thread, and a suspended thread is in a list
  or has a timer; what a call that loops has waited is at most what it may wait
  (`ClockInv`);
* the thread that runs is ready or about to call the scheduler, and is the first of highest
  priority when nothing is due and no switch owed (`FirstInv`);
* once an object is detached no waiter has a timer, and one thread, which is between the
  test of `rt_ipc_list_resume_all` and its wake-up, finds the list as it left it (`EndInv`). This
  is what `DetachTimed` breaks.

`MailInv` says which places of its call a thread may be at, given the object's kind, and of a
mailbox that `in_offset` is `entry` places behind `out_offset` (`RingPlace`), which the code
never compares. `ObjInv` says that a mutex that is taken has an owner with a priority to give
back. A thread that has been woken for a letter and finds the object gone would put it in
a ring that is no longer there; that this cannot be is `AwakeIs`, from `EndInv`, and the
refinement rests on it.

What the loops over waiters do is shown by induction on the turns made: the lemma
`Counting` picks the least number of turns for which a claim would fail, and the claims
(`WokenAll`, `OfferAllIs`) say what the kernel is after n turns: the first n waiters have left
the list and are ready, in the lists of their priorities, and nothing else has changed.
Each action then is one of a few kinds of steps: it lets a thread go on, returns, waits,
wakes one thread, wakes several, or comes from a handler (`CallGoesOn` to
`HandlerWakes`), and each kind keeps `KInv`.

The last three need to know what a thread was promised when it was woken. `Got` is a thread on its
way back from a take that is out of the list with its error clear. `StandInv` says that who
is suspended in a take is in the list, so that a promise is never made to a thread that
sleeps on. On top of it,

* `OwnerInv`: the owner either counts the mutex as its own or has `Got` it, and nobody else
  does either. A time-out that takes a waiter out of the list sets its error, so it never looks
  like a promise; a release that finds the list empty leaves no owner;
* `SemInv`: value, units spent and the number of those that have `Got` one add up to what
  was released. Each action moves at most one thread into or out of that set;
* `InheritInv`: who does not own the mutex has its own priority, the owner's is kept in
  `original_priority`, the list is in the order of priorities, which waiters never change,
  and every waiter's priority is at or behind the owner's. The order is needed at the
  hand-over: the new owner gets nothing from those behind it and needs nothing, since it was
  the first.

**`Heap_proof`**, for any size of the memory, of the headers and of what is asked for, and
any number of threads, under `HeapAssumption`: `HeapIsWhole` and `HeapAndUsersAgree`, that is
`WholeList` and `UsersAgree`. Besides these the invariant says that the back links lead back,
since `plug_holes` follows them to the block it merges with (`Tiled`), that the last header is
marked used, so that nothing merges with it (`Typed`), and that a thread in the middle of
`rt_realloc` still has the block that it copies from (`CallsOK`). Between the parts of one
function two free blocks may be neighbours; `ApartBut` says where.

**`Console_proof`** has four parts, for any text, line, commands and ring, under
`ConsoleAssumption` and `ShellAssumption`.

* `NoLostWakeup`: always `NeverSleepsOnInput`. The invariant is `RingOK` (indices and the
  mirror bits), `SemOK` (value and waiter exclude each other) and `Warned`: when the ring
  holds something the thread is reading, or `rx_sem` is positive, or the interrupt is between
  filling the ring and releasing: the shell tests the ring before it takes the semaphore,
  and a release that comes between the two is kept in the semaphore's value.
* `RingImplementsRecent`: `RingKeepsNewest`, the refinement of `Recent`. The abstract buffer is
  the sequence from `get_index` to `put_index`; each step of ring and shell is one of
  `Recent`'s or none of them, by the same invariant.
* `LineIsSafe`: always `StaysInLine`. The invariant `LineInv` says that the cursor is at or
  before the position, that nothing before the position is a `Nul` and that remembered
  commands end within their arrays (`ShellOK`), until `overread`, and that every byte on its
  way to the editor, in the data register, the ring or `ch`, is one the editor may come upon
  (`OnTheWay`): a person who waits for the shell has one byte under way. Tab is as good as any
  key, also after a line that was too long, as long as one `Nul` is left in the array.
* `EditorImplementsPrompt`: `EditsAsExpected`, the refinement of `Prompt`. The text is
  the characters before the position, `remembered` the strings of the history's arrays. One
  lemma per operation says what it does to line, cursor and history place by place
  (`Inserted`, `Erased`, `Entered`, `Shown`, `Moved`, `Completed`), and one what that is for
  the text (`InsertAt`, `RemoveAt`, `SubSeq`, `Append`, `Tail`). The invariant this needs
  besides `LineInv` is `Tidy`: arrays of the history hold only `Nul`s behind their
  strings, and a line that has a character anywhere behind its position has one in every place
  after that (`Stale`), so that its end is either at the position or nowhere. Without
  it `shell_push_history`, which compares whole arrays, could take two different
  texts for one, and Enter would lose a command.

**Only model-checked:** liveness under fairness (`FollowsKeys`, `EveryContenderRuns`,
`InputIsRead`), which the prover does not handle; of the IPC objects what counts threads or
follows chains: `NoneWaitsInVain`, `NothingLost` but for the semaphore's part, `ClearedGoOnce`
and `QueueIsChannel`. The chain of a message queue is a function of the number of links
followed, and what a chain holds after a node is put behind it takes an induction for
each of the queue's four pointers.

## 5. What is not modelled

* `ILI9341`: output only; the time it takes is part of `BusyBytes`.
* `UART_Init`, `Inputs_Init`'s pins, `ADC_Function_Init`: writes to peripheral registers
  at start-up. `Setup_MIDI` assigns the callbacks after the interrupt is enabled, but
  within a fraction of the time a message takes.
* `getFrequency`, `setFrequency` and their helpers: floats, never called.
* The levels of the multiplexer's three pins between two of them being set.
* The context switch in assembly, and the nesting of interrupts around it.
* Kernel objects' registration by name, `rt_kprintf` and the C library's functions, the
  opening and configuration of devices: nothing in them is decided between two actors.
  Memory pools, `memheap` and slab are off in `rtconfig.h:108-109`.
* What the shell's commands do, except to the chip and the ADC; and how `msh_exec` looks
  for the end of an unknown command (`msh.c:358`), which after a line that was too long
  may also be past the array.
* Of the timers: one that its own callback starts again, and one made periodic with a
  time-out of 0, which `rt_timer_check` would run for ever; the firmware has neither.
* Two threads that manage the same thread, nested mutexes, counters that wrap at 8 and 16
  bits.
* The vendor's peripheral library and start-up code, half of the repository's
  lines of code: inline accesses to registers of the chip, one per function, without state of
  their own. What the firmware makes of them is in the modules of the parts that call
  them. The kernel's configuration excludes a large part of what is left; the models
  cover what the linked image runs and decides.

## 6. What could be added

The refinement of `Channel` for the message queue as a theorem, on top of what `IPC_proof`
says of the lists; a second manager in `Threads` (the steps of one that interrupts
another's); a semaphore and a mutex used together; a tick interrupt that finds the
previous one still pending after a long poll.
