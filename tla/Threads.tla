------------------------------- MODULE Threads -------------------------------
(***************************************************************************)
(* Threads and what they do with each other (rtthread/src/thread.c,        *)
(* idle.c): start, delay, suspend and resume, yield, change of priority,   *)
(* lock of the scheduler, exit and deletion, with the points where         *)
(* interrupts are enabled in the middle of a call.                         *)
(*                                                                         *)
(* One thread manages the others; what it manages has a time-out of its    *)
(* own, runs in between, or is resumed by an interrupt handler.  These may *)
(* overtake rt_thread_resume, rt_thread_suspend and rt_thread_delete,      *)
(* which look at a thread with interrupts enabled and act on it later:     *)
(* "raced" remembers that it happened, as nothing is promised after it.    *)
(***************************************************************************)
EXTENDS Kernel

CONSTANTS
  Manager,    \* the thread that starts, resumes, suspends and deletes others
  Dynamic,    \* the threads made by rt_thread_create, which idle frees
  Times,      \* the delays, in ticks
  MaxLock,    \* how deep rt_enter_critical is nested
  CallsOn     \* bound: threads go on calling the kernel after a race

ASSUME ThreadsAssumption ==
  /\ Manager \in Thread \ {Idle}
  /\ Dynamic \subseteq Thread \ {Manager, Idle}
  /\ Times \subseteq Nat \ {0} /\ Times # {} /\ IsFiniteSet(Times)
  /\ MaxLock \in Nat
  /\ CallsOn \in BOOLEAN

VARIABLE
  raced       \* history: a thread changed under the hands of the manager

vars == <<kernelVars, raced>>

Others == Thread \ {Manager, Idle}

Init ==
  /\ k = [Boot({Manager, Idle}) EXCEPT
            !.stat = [t \in Thread |-> IF t \in {Manager, Idle} THEN @[t] ELSE "none"]]
  /\ call = [t \in Thread |-> InUser]
  /\ due = {}
  /\ raced = FALSE

Unlocked == k.lock = 0

Calls(t, c) == call' = [call EXCEPT ![t] = c]
On(pc, u) == [pc |-> pc, on |-> u]
-----------------------------------------------------------------------------
(* rt_thread_init or rt_thread_create.                                     *)
Create(u) ==
  /\ User(Manager)
  /\ k.stat[u] = "none" \/ (k.stat[u] = "close" /\ u \notin Dynamic)
  /\ k' = [k EXCEPT !.stat[u] = "init", !.prio[u] = InitPrio[u],
                    !.slice[u] = InitTick[u], !.error[u] = "EOK", !.timer[u] = 0]
  /\ Calls(u, InUser)
  /\ UNCHANGED due

(* rt_thread_startup: marked as suspended, resumed, then a schedule.       *)
Startup(u) ==
  /\ User(Manager)
  /\ k.stat[u] = "init"
  /\ k' = [k EXCEPT !.stat[u] = "suspend", !.prio[u] = InitPrio[u]]
  /\ Calls(Manager, [pc |-> "unlink", on |-> u, then |-> "schedule"])
  /\ UNCHANGED due

(* rt_thread_resume of a suspended thread, which may also sleep.           *)
Resume(u) ==
  /\ User(Manager)
  /\ k.stat[u] = "suspend"
  /\ Calls(Manager, [pc |-> "unlink", on |-> u, then |-> "user"])
  /\ UNCHANGED <<k, due>>

Unlink ==
  /\ At(Manager, "unlink")
  /\ k' = ResumeUnlink(k, call[Manager].on)
  /\ Goto(Manager, "insert")
  /\ UNCHANGED due

Insert ==
  LET c == call[Manager]
  IN  /\ At(Manager, "insert")
      /\ k' = [rt_schedule_insert_thread(k, c.on) EXCEPT !.owed = @ \/ c.then = "user"]
      /\ IF c.then = "schedule" THEN Calls(Manager, ScheduleThen("user"))
         ELSE Return(Manager)
      /\ UNCHANGED due

(* rt_thread_suspend: a look at the thread, then the change.               *)
SuspendOther(u) ==
  /\ User(Manager)
  /\ k.stat[u] = "ready"
  /\ Calls(Manager, On("suspend", u))
  /\ UNCHANGED <<k, due>>

SuspendIt ==
  LET u == call[Manager].on
  IN  /\ At(Manager, "suspend")
      /\ k' = [rt_schedule_remove_thread(k, u) EXCEPT !.stat[u] = "suspend", !.timer[u] = 0]
      /\ Return(Manager)
      /\ UNCHANGED due

(* rt_thread_control.                                                      *)
Control(u, p) ==
  /\ User(Manager)
  /\ k.stat[u] \in {"ready", "suspend"}
  /\ k' = [ChangePriority(k, u, p) EXCEPT !.owed = TRUE]
  /\ UNCHANGED <<call, due>>
-----------------------------------------------------------------------------
(* What threads do with themselves: rt_thread_sleep and these.             *)
SuspendSelf(t) ==
  /\ User(t) /\ t # Manager /\ Unlocked
  /\ k' = rt_thread_suspend(k, t)
  /\ Calls(t, ScheduleThen("user"))
  /\ UNCHANGED due

(* rt_thread_yield.                                                        *)
Yield(t) ==
  /\ User(t)
  /\ Yields(k)
  /\ k' = Rotate(k)
  /\ Calls(t, ScheduleThen("user"))
  /\ UNCHANGED due

rt_enter_critical(t) ==
  /\ User(t)
  /\ k.lock < MaxLock
  /\ k' = [k EXCEPT !.lock = @ + 1]
  /\ UNCHANGED <<call, due>>

rt_exit_critical(t) ==
  /\ User(t)
  /\ k.lock > 0
  /\ k' = [k EXCEPT !.lock = @ - 1]
  /\ IF k.lock = 1 THEN Calls(t, ScheduleThen("user")) ELSE UNCHANGED call
  /\ UNCHANGED due

(* What becomes of a thread that is closed: an object that was initialized *)
(* is detached, one that was created waits for idle.                       *)
Bury(K, t) ==
  IF t \in Dynamic THEN [K EXCEPT !.defunct = <<t>> \o @] ELSE K

rt_thread_exit(t) ==
  /\ User(t) /\ t # Manager /\ Unlocked
  /\ k' = Bury([rt_schedule_remove_thread(k, t) EXCEPT !.stat[t] = "close", !.timer[t] = 0], t)
  /\ Calls(t, ScheduleThen("gone"))
  /\ UNCHANGED due

(* Mutant: a thread that is ready is not taken out of its list. *)
DeleteListed(u) ==
  /\ User(Manager)
  /\ k.stat[u] \in {"init", "ready", "suspend"}
  /\ Calls(Manager, On("untime", u))
  /\ UNCHANGED <<k, due>>

(* rt_thread_delete and rt_thread_detach, in their four parts.             *)
Delete(u) ==
  /\ User(Manager)
  /\ k.stat[u] \in {"init", "ready", "suspend"}
  /\ k' = IF k.stat[u] = "init" THEN k ELSE rt_schedule_remove_thread(k, u)
  /\ Calls(Manager, On("untime", u))
  /\ UNCHANGED due

Untime ==
  /\ At(Manager, "untime")
  /\ k' = StartTimer(k, call[Manager].on, 0)
  /\ Goto(Manager, "close")
  /\ UNCHANGED due

Close ==
  /\ At(Manager, "close")
  /\ k' = [k EXCEPT !.stat[call[Manager].on] = "close"]
  /\ Goto(Manager, "bury")
  /\ UNCHANGED due

BuryIt ==
  /\ At(Manager, "bury")
  /\ k' = Bury(k, call[Manager].on)
  /\ Return(Manager)
  /\ UNCHANGED due
-----------------------------------------------------------------------------
(* rt_thread_idle_excute: a dead thread is taken out of its list, then its *)
(* memory is freed.                                                        *)
Reap ==
  /\ At(Idle, "user")
  /\ k.defunct # <<>>
  /\ k' = [k EXCEPT !.defunct = Tail(@)]
  /\ Calls(Idle, On("free", Head(k.defunct)))
  /\ UNCHANGED due

Free ==
  /\ At(Idle, "free")
  /\ k' = [k EXCEPT !.stat[call[Idle].on] = "none"]
  /\ Return(Idle)
  /\ UNCHANGED due
-----------------------------------------------------------------------------
(* An interrupt handler resumes a thread and calls the scheduler, as       *)
(* rt_sem_release does in that of the UART (shell.c:110).                  *)
ResumedByInterrupt(u) ==
  /\ due = {}
  /\ k.stat[u] = "suspend"
  /\ k' = rt_schedule(rt_thread_resume(k, u))
  /\ UNCHANGED <<call, due>>

(* The thread that the manager is about to change, or is changing.         *)
InHand ==
  IF call[Manager].pc \in {"unlink", "insert", "suspend", "untime", "close", "bury"}
  THEN {call[Manager].on} ELSE {}

(* A time-out, another interrupt or the thread itself changes its state    *)
(* after the manager looked at it.                                         *)
Overtaken ==
  call'[Manager] = call[Manager] /\ \E t \in InHand : k'.stat[t] # k.stat[t]

Watched == raced' = (raced \/ Overtaken)

(* How many times the lists hold a thread.                                 *)
Places(t) == Cardinality(ReadyPlaces(t)) + Cardinality(OtherPlaces(t))

(* A thread that has ended, or what is no thread, runs.                    *)
EndedRuns ==
  \/ k.cur = Nobody
  \/ call[k.cur].pc = "gone"
  \/ k.stat[k.cur] \in {"none", "close"} /\ call[k.cur].pc # "schedule"

(* Where, after a race, the pointers of the lists are mixed up, or a dead  *)
(* thread runs, the code says no more what happens: there the model ends.  *)
Lost ==
  /\ raced
  /\ \/ EndedRuns
     \/ \E t \in Thread :
          Places(t) > (IF k.stat[t] \in {"none", "init"} THEN 0 ELSE 1)

(* A thread goes on in the function it called.                             *)
InKernel ==
  /\ ~Lost
  /\ \/ \E t \in Thread \ {Idle} : Schedule(t) \/ Slept(t)
     \/ Unlink \/ Insert \/ SuspendIt \/ Untime \/ Close \/ BuryIt
     \/ Reap \/ Free
  /\ Watched

(* A thread calls a function.                                              *)
Request ==
  /\ ~Lost
  /\ ~raced \/ CallsOn
  /\ \/ \E t \in Thread \ {Idle} :
          \/ SuspendSelf(t) \/ Yield(t) \/ rt_thread_exit(t)
          \/ rt_enter_critical(t) \/ rt_exit_critical(t)
          \/ \E n \in Times : rt_thread_sleep(t, n)
     \/ \E u \in Others :
          Create(u) \/ Startup(u) \/ Resume(u) \/ SuspendOther(u) \/ Delete(u)
     \/ \E u \in Others, p \in Prio \ {MaxPrio} : Control(u, p)
  /\ Watched

Clock == ~Lost /\ Interrupts /\ Watched

Interrupt == ~Lost /\ (\E u \in Others : ResumedByInterrupt(u)) /\ Watched

Next == Clock \/ Interrupt \/ InKernel \/ Request

(* The tick interrupt comes again and again, and the processor goes on.    *)
Spec == Init /\ [][Next]_vars /\ WF_vars(Clock) /\ WF_vars(InKernel)
-----------------------------------------------------------------------------
(* Type correctness of the kernel and of the calls under way.              *)
TypeOK ==
  /\ KernelTypeOK(Times, MaxLock)
  /\ \A t \in Thread : call[t].pc \in {"user", "schedule", "slept", "gone", "unlink", "insert",
                                      "suspend", "untime", "close", "bury", "free"}
  /\ raced \in BOOLEAN

(* Between the parts of rt_thread_delete the thread is in no list.         *)
BeingDeleted(t) ==
  call[Manager].pc \in {"untime", "close", "bury"} /\ call[Manager].on = t

(* At every point where an interrupt may come, a thread is in the list of  *)
(* its state, once, whatever calls are under way.                          *)
OneList == \A t \in Thread : InItsList(t) \/ (BeingDeleted(t) /\ ReadyPlaces(t) = {})

(* What the kernel keeps of a thread in four places agrees at any point    *)
(* where an interrupt may come: its state, the list it is in, the bitmap   *)
(* and its timer; until a thread changes between the look that             *)
(* rt_thread_resume, _suspend or _delete takes at it and what they do.     *)
StateAgrees == raced \/ (TypeOK /\ OneList /\ GroupTells /\ TimersOfSuspended)

(* Likewise the first of the threads of highest priority runs.             *)
FirstRuns == raced \/ HighestRuns

(* Idle frees the thread, or has freed it.                                 *)
Dead(t) == k.stat[t] = "none" \/ (call[Idle].pc = "free" /\ call[Idle].on = t)

(* Nothing of a thread that idle frees, or has freed, is left in a list or *)
(* among the timers, nor does it run (idle.c, rt_defunct_execute).         *)
NothingDangles ==
  \A t \in Thread : Dead(t) =>
    /\ ReadyPlaces(t) = {} /\ OtherPlaces(t) = {}
    /\ k.timer[t] = 0 /\ t \notin due /\ k.cur # t

(* A thread that was deleted never runs again.                             *)
StaysClosed ==
  \A t \in Thread : k.stat[t] = "close" => k'.stat[t] \in {"close", "none", "init"}
                                           /\ (k'.cur = t => k.cur = t)

(* Whatever is between two parts of rt_thread_delete, of rt_thread_exit or *)
(* of idle's work, a deleted thread leaves nothing behind and does not     *)
(* come back: unless its time-out, or an interrupt that resumes it, came   *)
(* between the first two parts of rt_thread_delete (thread.c:419), or the  *)
(* thread ended while another one was about to resume or suspend it.       *)
DeletedIsGone == [](raced \/ NothingDangles) /\ [][raced' \/ StaysClosed]_vars

(* The thread is in the ready list of highest priority, and the scheduler  *)
(* may switch.                                                             *)
Contends(t) == k.lock = 0 /\ ~k.owed /\ k.group # {}
                 /\ \E i \in DOMAIN k.ready[Highest(k.group)] : k.ready[Highest(k.group)][i] = t

(* Time slices (clock.c:77): of the threads in the ready list of highest   *)
(* priority each runs at last, though the others never yield.  Idle has    *)
(* its priority for itself.                                                *)
EveryContenderRuns == \A t \in Thread \ {Idle} : <>[](Contends(t) /\ ~raced) => <>(k.cur = t)
=============================================================================
