--------------------------------- MODULE IPC ---------------------------------
(***************************************************************************)
(* What the objects of rtthread/src/ipc.c have in common: the lists of     *)
(* threads that wait, in order of arrival or of priority, and the end of   *)
(* an object with threads waiting.  The modules Semaphore, Mutex, Event,   *)
(* Mailbox and MessageQueue add the kinds; obj is an object of one of      *)
(* them.                                                                   *)
(***************************************************************************)
EXTENDS Kernel

CONSTANTS
  TimeOuts,     \* time-outs in ticks: 0 does not wait
  Forever,      \* RT_WAITING_FOREVER
  DetachTimed,  \* an object may be detached while a time-out of a waiter runs
  Sleeper,      \* bound: the threads that sleep between calls, for each kind
  Sender,       \* bound: the threads that send through mailboxes and queues
  Value,        \* the values sent through mailboxes and message queues
  NoValue       \* where there is none

Handler == "interrupt handler"

ASSUME IPCAssumption ==
  /\ IsFiniteSet(Thread) /\ Handler \notin Thread
  /\ TimeOuts \subseteq Nat \cup {Forever} /\ TimeOuts # {} /\ IsFiniteSet(TimeOuts)
  /\ Forever = -1
  /\ DetachTimed \in BOOLEAN
  /\ NoValue \notin Value

VARIABLE obj

ipcVars == <<kernelVars, obj>>

Of(kind) == obj.kind = kind /\ obj.live

(* Some functions are called by threads and by interrupt handlers.         *)
Callers == (Thread \ {Idle}) \cup {Handler}
CalledBy(by) == IF by = Handler THEN due = {} ELSE User(by)

(* The end of such a function, with a schedule.                            *)
ThenSchedule(K, by) ==
  IF by = Handler THEN k' = rt_schedule(K) /\ UNCHANGED call
  ELSE k' = K /\ call' = [call EXCEPT ![by] = ScheduleThen("user")]
-----------------------------------------------------------------------------
(* The place of a thread in a list: at the end, or before the threads of   *)
(* lower priority.                                                         *)
PlaceIn(K, l, t) ==
  LET lower == {i \in 1..Len(l) : obj.flag = "PRIO" /\ K.prio[t] < K.prio[l[i]]}
  IN  IF lower = {} THEN Len(l) + 1 ELSE CHOOSE i \in lower : \A j \in lower : i <= j

(* Mutant: no place at the end of a list in order of priority. *)
SuspendBeforeOnly(K, q, t) ==
  LET S == rt_thread_suspend(K, t)
      p == PlaceIn(S, S.queue[q], t)
  IN  IF obj.flag = "PRIO" /\ p > Len(S.queue[q]) THEN S ELSE [S EXCEPT !.queue[q] = InsertAt(@, p, t)]

rt_ipc_list_suspend(K, q, t) ==
  LET S == rt_thread_suspend(K, t)
      p == PlaceIn(S, S.queue[q], t)
  IN  [S EXCEPT !.queue[q] = InsertAt(@, p, t)]

rt_ipc_list_resume(K, q) == rt_thread_resume(K, Head(K.queue[q]))

(* Mutant: a receiver is woken only if there was no value before. *)
WakeIfFirst(K, q) ==
  IF K.queue[q] = <<>> \/ (q = "receivers" /\ obj.entry > 0) THEN K ELSE rt_ipc_list_resume(K, q)

WakeOne(K, q) == IF K.queue[q] = <<>> THEN K ELSE rt_ipc_list_resume(K, q)

(* The loop of rt_ipc_list_resume_all: woken[n] is the kernel after n turns. *)
WakeWithError(K, t) == rt_thread_resume([K EXCEPT !.error[t] = "ERROR"], t)
WakeAll(K, q) ==
  LET l == K.queue[q]
      woken[n \in 0..Len(l)] == IF n = 0 THEN K ELSE WakeWithError(woken[n - 1], l[n])
  IN  woken[Len(l)]

(* The thread waits: for ever, or until its timer expires.                 *)
Wait(K, q, t, time) ==
  LET S == rt_ipc_list_suspend([K EXCEPT !.error[t] = "EOK"], q, t)
  IN  IF time > 0 THEN StartTimer(S, t, time) ELSE S

(* The call of a thread that waits at "then": what it sends, how long it   *)
(* may still wait, and how much of a limited time it has waited.           *)
Waiting(then, v, time) ==
  [pc |-> "schedule", then |-> then, value |-> v, time |-> time, elapsed |-> 0]

(* The time that is left after a wait.                                     *)
Left(c) == IF c.time > 0 THEN c.time - c.elapsed ELSE c.time

Waits(t, q) == \E i \in 1..Len(k.queue[q]) : k.queue[q][i] = t
NoneWaits(q) == k.queue[q] = <<>>

Bound(t, pc) == call[t].pc = pc \/ (call[t].pc = "schedule" /\ call[t].then = pc)

(* Threads that were resumed for what they waited for and have not seen it *)
(* yet.                                                                    *)
Granted(q, pc) == {t \in Thread : Bound(t, pc) /\ ~Waits(t, q) /\ k.error[t] = "EOK"}
-----------------------------------------------------------------------------
(* The detach and delete functions wake all waiters with an error.  The    *)
(* test for an empty list is made with interrupts enabled; the object must *)
(* not be in use otherwise.                                                *)
Idles(t) == Bound(t, "user") \/ Bound(t, "slept") \/ \E q \in Queues : Waits(t, q)

Detach(t) ==
  /\ User(t) /\ obj.live
  /\ \A u \in Thread : Idles(u)
  /\ DetachTimed \/ \A q \in Queues, u \in Thread : Waits(u, q) => k.timer[u] = 0
  /\ obj' = [obj EXCEPT !.live = FALSE]
  /\ call' = [call EXCEPT ![t] = [pc |-> "test", q |-> "receivers"]]
  /\ UNCHANGED <<k, due>>

Test(t) ==
  /\ At(t, "test")
  /\ IF ~NoneWaits(call[t].q) THEN Goto(t, "wake")
     ELSE IF call[t].q = "receivers" THEN call' = [call EXCEPT ![t].q = "senders"]
     ELSE Return(t)
  /\ UNCHANGED <<k, due, obj>>

(* No rt_schedule follows: the threads that were woken run after the next. *)
Wake(t) ==
  LET l == k.queue[call[t].q]
  IN  /\ At(t, "wake")
      /\ k' = IF l = <<>> THEN [k EXCEPT !.cur = Nobody]
              ELSE [WakeWithError(k, Head(l)) EXCEPT !.owed = TRUE]
      /\ Goto(t, "test")
      /\ UNCHANGED <<due, obj>>

Ending == \E t \in Thread : Detach(t) \/ Test(t) \/ Wake(t)

(* Steps that are the same for all kinds.                                  *)
Common ==
  /\ UNCHANGED obj
  /\ \/ Interrupts
     \/ \E t \in Thread \ {Idle} : Schedule(t) \/ Slept(t)
     \/ \E t \in Sleeper[obj.kind] : rt_thread_sleep(t, 1)
-----------------------------------------------------------------------------
(* No thread is in a list twice or in two lists, and a thread that waits   *)
(* is suspended in the middle of its call.                                 *)
WaitsInOneList ==
  \A t \in Thread :
    /\ InItsList(t)
    /\ OtherPlaces(t) # {} => /\ k.stat[t] = "suspend" /\ k.error[t] = "EOK"
                              /\ call[t].pc # "user"

(* A thread that is suspended will be woken by something: it is in a list  *)
(* or its timer runs.                                                      *)
NoneForgotten ==
  \A t \in Thread : k.stat[t] = "suspend" => OtherPlaces(t) # {} \/ k.timer[t] > 0 \/ t \in due
=============================================================================
