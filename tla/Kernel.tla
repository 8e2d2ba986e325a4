------------------------------- MODULE Kernel -------------------------------
(***************************************************************************)
(* The scheduler of RT-Thread (rtthread/src/scheduler.c, clock.c and the   *)
(* parts of thread.c that other parts of the kernel call): ready lists by  *)
(* priority, the bitmap of priorities that have ready threads, suspending  *)
(* and resuming, time slices and the time-outs of threads.                 *)
(*                                                                         *)
(* The kernel guards its data by disabling interrupts, so a step of a      *)
(* thread is a stretch of code between two points where interrupts are     *)
(* enabled, and an interrupt may come between any two steps.  What runs    *)
(* with interrupts disabled, or in an interrupt, is an operator on the     *)
(* kernel's state K.  Timers are counted down here; that the timer list    *)
(* does that is the subject of module Timers.                              *)
(*                                                                         *)
(* An interrupt only records the switch it asks for; it takes place when   *)
(* the interrupt returns, in SW_handler.  No thread runs in between, so    *)
(* here cur is also the thread that runs.                                  *)
(***************************************************************************)
EXTENDS Integers, Sequences, FiniteSets, SequencesExt

CONSTANTS
  Thread,     \* the threads
  Idle,       \* the thread of idle.c
  MaxPrio,    \* RT_THREAD_PRIORITY_MAX - 1, the lowest priority
  InitPrio,   \* init_priority of the threads
  InitTick    \* init_tick of the threads, their time slices

Prio == 0..MaxPrio
Nobody == "list head"

ASSUME KernelAssumption ==
  /\ Idle \in Thread /\ Nobody \notin Thread
  /\ MaxPrio \in Nat
  /\ InitPrio \in [Thread -> Prio] /\ InitPrio[Idle] = MaxPrio
  /\ InitTick \in [Thread -> Nat \ {0}]

VARIABLES
  k,      \* the data of the scheduler and of the threads
  call,   \* where each thread is in the kernel function it called, and its data
  due     \* the threads whose timers rt_timer_check has still to run

kernelVars == <<k, call, due>>

(* The lists threads wait in: of an IPC object, and of a mailbox's senders. *)
Queues == {"receivers", "senders"}

InUser == [pc |-> "user"]
-----------------------------------------------------------------------------
(* rt_list_remove: a thread has one node, so this takes it out of the list *)
(* it is in, whichever that is.                                            *)
Without(s, t) ==
  IF \E i \in 1..Len(s) : s[i] = t THEN RemoveAt(s, CHOOSE i \in 1..Len(s) : s[i] = t)
  ELSE s

rt_list_remove(K, t) ==
  [K EXCEPT !.ready = [p \in Prio |-> Without(@[p], t)],
            !.queue = [q \in Queues |-> Without(@[q], t)],
            !.defunct = Without(@, t)]

rt_schedule_insert_thread(K, t) ==
  [K EXCEPT !.stat[t] = "ready",
            !.ready[K.prio[t]] = Append(@, t),
            !.group = @ \cup {K.prio[t]}]

rt_schedule_remove_thread(K, t) ==
  LET R == rt_list_remove(K, t)
  IN  IF R.ready[K.prio[t]] = <<>> THEN [R EXCEPT !.group = @ \ {K.prio[t]}] ELSE R

(* __rt_ffs: the first bit set, counted from the highest priority.         *)
Highest(group) == CHOOSE p \in group : \A q \in group : p <= q

(* The head of the list that the bitmap says is not empty.                 *)
HighestReady(K) ==
  IF K.group = {} \/ K.ready[Highest(K.group)] = <<>> THEN Nobody
  ELSE Head(K.ready[Highest(K.group)])

rt_schedule(K) ==
  IF K.lock = 0 THEN [K EXCEPT !.cur = HighestReady(K), !.owed = FALSE] ELSE K

rt_thread_suspend(K, t) ==
  IF K.stat[t] # "ready" THEN K
  ELSE [rt_schedule_remove_thread(K, t) EXCEPT !.stat[t] = "suspend", !.timer[t] = 0]

(* rt_thread_resume in its two parts.                                      *)
ResumeUnlink(K, t) == [rt_list_remove(K, t) EXCEPT !.timer[t] = 0]

rt_thread_resume(K, t) ==
  IF K.stat[t] # "suspend" THEN K
  ELSE rt_schedule_insert_thread(ResumeUnlink(K, t), t)

(* Mutant: a ready thread stays in the list of its old priority. *)
ChangePriorityInPlace(K, t, p) == [K EXCEPT !.prio[t] = p]

(* RT_THREAD_CTRL_CHANGE_PRIORITY of rt_thread_control.                    *)
ChangePriority(K, t, p) ==
  IF K.stat[t] = "ready"
  THEN rt_schedule_insert_thread([rt_schedule_remove_thread(K, t) EXCEPT !.prio[t] = p], t)
  ELSE [K EXCEPT !.prio[t] = p]

(* The first part of rt_thread_yield; rt_schedule follows when it says so. *)
Yields(K) == K.stat[K.cur] = "ready" /\ Len(K.ready[K.prio[K.cur]]) > 1
Rotate(K) == [rt_list_remove(K, K.cur) EXCEPT !.ready[K.prio[K.cur]] = Append(@, K.cur)]

rt_thread_yield(K) == IF Yields(K) THEN rt_schedule(Rotate(K)) ELSE K

(* Mutant: no schedule after a time-out. *)
TimeoutNoSchedule(K, t) ==
  rt_schedule_insert_thread(
    rt_list_remove([K EXCEPT !.error[t] = "ETIMEOUT", !.timer[t] = 0], t), t)

rt_thread_timeout(K, t) ==
  rt_schedule(rt_schedule_insert_thread(
    rt_list_remove([K EXCEPT !.error[t] = "ETIMEOUT", !.timer[t] = 0], t), t))

(* Mutant: a time slice that is over starts again. *)
CountSliceNoYield(K) ==
  [K EXCEPT !.slice[K.cur] = IF @ = 1 THEN InitTick[K.cur] ELSE @ - 1]

(* The time slice in rt_tick_increase.                                     *)
CountSlice(K) ==
  IF K.slice[K.cur] = 1
  THEN rt_thread_yield([K EXCEPT !.slice[K.cur] = InitTick[K.cur]])
  ELSE [K EXCEPT !.slice[K.cur] = @ - 1]

StartTimer(K, t, n) == [K EXCEPT !.timer[t] = n]
-----------------------------------------------------------------------------
(* A thread takes a step when no interrupt is being handled.               *)
Runs(t) == due = {} /\ k.cur = t
At(t, pc) == Runs(t) /\ call[t].pc = pc

(* Threads call the kernel from outside of it; idle has its own loop.      *)
User(t) == At(t, "user") /\ t # Idle

Goto(t, pc) == call' = [call EXCEPT ![t].pc = pc]
Return(t) == call' = [call EXCEPT ![t] = InUser]

(* rt_schedule called by a thread, which goes on at "then".                *)
ScheduleThen(then) == [pc |-> "schedule", then |-> then]

Schedule(t) ==
  /\ At(t, "schedule")
  /\ k' = rt_schedule(k)
  /\ Goto(t, call[t].then)
  /\ UNCHANGED due

(* A call that measures how long it waits counts the ticks, up to its limit. *)
Aged(c) == IF "elapsed" \in DOMAIN c /\ c.elapsed < c.time
           THEN [c EXCEPT !.elapsed = @ + 1] ELSE c

(* SysTick_Handler: the tick is counted, then rt_timer_check runs the      *)
(* time-outs one after the other.                                          *)
Tick ==
  /\ due = {}
  /\ call' = [t \in Thread |-> Aged(call[t])]
  /\ due' = {t \in Thread : k.timer[t] = 1}
  /\ k' = [CountSlice(k) EXCEPT !.timer = [t \in Thread |-> IF @[t] > 0 THEN @[t] - 1 ELSE 0]]

Expire(t) ==
  /\ t \in due
  /\ k' = rt_thread_timeout(k, t)
  /\ due' = due \ {t}
  /\ UNCHANGED call

(* rt_thread_sleep, which is rt_thread_delay and rt_thread_mdelay.          *)
rt_thread_sleep(t, n) ==
  /\ At(t, "user") /\ k.lock = 0
  /\ k' = StartTimer(rt_thread_suspend(k, t), t, n)
  /\ call' = [call EXCEPT ![t] = ScheduleThen("slept")]
  /\ UNCHANGED due

Slept(t) ==
  /\ At(t, "slept")
  /\ k' = IF k.error[t] = "ETIMEOUT" THEN [k EXCEPT !.error[t] = "EOK"] ELSE k
  /\ Return(t)
  /\ UNCHANGED due

Interrupts == Tick \/ \E t \in Thread : Expire(t)
-----------------------------------------------------------------------------
(* rt_system_scheduler_init and threads that were only initialized.        *)
NoneReady ==
  [stat |-> [t \in Thread |-> "init"], prio |-> InitPrio,
   ready |-> [p \in Prio |-> <<>>], group |-> {}, cur |-> Nobody, lock |-> 0,
   slice |-> InitTick, error |-> [t \in Thread |-> "EOK"],
   timer |-> [t \in Thread |-> 0], queue |-> [q \in Queues |-> <<>>],
   defunct |-> <<>>, owed |-> FALSE]

(* rtthread_startup: the threads are started one after the other, then     *)
(* rt_system_scheduler_start runs the first.                               *)
Boot(threads) ==
  rt_schedule(
    [NoneReady EXCEPT
       !.stat = [t \in Thread |-> IF t \in threads THEN "ready" ELSE "init"],
       !.ready = [p \in Prio |-> SetToSeq({t \in threads : InitPrio[t] = p})],
       !.group = {InitPrio[t] : t \in threads}])
-----------------------------------------------------------------------------
Stats == {"none", "init", "ready", "suspend", "close"}

KernelTypeOK(Delays, MaxLock) ==
  /\ DOMAIN k = DOMAIN NoneReady
  /\ k.stat \in [Thread -> Stats]
  /\ k.prio \in [Thread -> Prio]
  /\ k.ready \in [Prio -> Seq(Thread)]
  /\ k.group \subseteq Prio
  /\ k.cur \in Thread
  /\ k.lock \in 0..MaxLock
  /\ \A t \in Thread : k.slice[t] \in 1..InitTick[t]
  /\ k.error \in [Thread -> {"EOK", "ETIMEOUT", "ERROR"}]
  /\ k.timer \in [Thread -> Nat]
  /\ \A t \in Thread : k.timer[t] > 0 => \E n \in Delays : k.timer[t] <= n
  /\ k.queue \in [Queues -> Seq(Thread)]
  /\ k.defunct \in Seq(Thread)
  /\ k.owed \in BOOLEAN
  /\ due \subseteq Thread

(* All the places where the lists hold a thread.                           *)
Positions(s, t) == {i \in 1..Len(s) : s[i] = t}
ReadyPlaces(t) == UNION {{<<p, i>> : i \in Positions(k.ready[p], t)} : p \in Prio}
OtherPlaces(t) == Positions(k.defunct, t) \cup
  UNION {{<<q, i>> : i \in Positions(k.queue[q], t)} : q \in Queues}

(* A thread is in one list at most, a ready one in that of its priority.   *)
InItsList(t) ==
  IF k.stat[t] = "ready"
  THEN /\ \E i \in 1..Len(k.ready[k.prio[t]]) : ReadyPlaces(t) = {<<k.prio[t], i>>}
       /\ OtherPlaces(t) = {}
  ELSE ReadyPlaces(t) = {} /\ Cardinality(OtherPlaces(t)) <= 1

(* The bitmap names the lists that are not empty.                          *)
GroupTells == k.group = {p \in Prio : k.ready[p] # <<>>}

(* rt_thread_timeout takes it for granted that the thread is suspended: it *)
(* asserts it (thread.c:738), but with RT_DEBUG off assertions are not     *)
(* compiled.  Then the timer of any other thread must be off.              *)
TimersOfSuspended ==
  \A t \in Thread : k.timer[t] > 0 \/ t \in due => k.stat[t] = "suspend"

(* Outside of the kernel's functions the first of the threads of highest   *)
(* priority runs, unless the scheduler is locked or a function was called  *)
(* that leaves rt_schedule to its caller.                                  *)
HighestRuns ==
  due = {} /\ k.lock = 0 /\ ~k.owed /\ call[k.cur].pc = "user"
    => k.cur = HighestReady(k)
=============================================================================
