------------------------------ MODULE Semaphore ------------------------------
(***************************************************************************)
(* Semaphores of rtthread/src/ipc.c, the kind the console's input and the  *)
(* shell use.                                                              *)
(***************************************************************************)
EXTENDS IPC

CONSTANTS
  SemStart,     \* the values a semaphore starts with
  MaxValue      \* bound: a semaphore is not released above this value

ASSUME SemaphoreAssumption == MaxValue \in Nat /\ SemStart \subseteq 0..MaxValue

(* spent is history: how many takes have succeeded more than releases.     *)
rt_sem_init(flag, v) ==
  [kind |-> "sem", live |-> TRUE, flag |-> flag, value |-> v, start |-> v, spent |-> 0]

SemInit == \E v \in SemStart, flag \in {"FIFO", "PRIO"} : obj = rt_sem_init(flag, v)

Take(o) == [o EXCEPT !.value = @ - 1, !.spent = @ + 1]

rt_sem_take(t, time) ==
  /\ User(t) /\ Of("sem")
  /\ IF obj.value > 0
     THEN obj' = Take(obj) /\ UNCHANGED <<k, call>>
     ELSE /\ time # 0 /\ k.lock = 0
          /\ k' = Wait(k, "receivers", t, time)
          /\ call' = [call EXCEPT ![t] = ScheduleThen("taken")]
          /\ UNCHANGED obj
  /\ UNCHANGED due

Taken(t) ==
  /\ At(t, "taken")
  /\ obj' = IF k.error[t] = "EOK" THEN [obj EXCEPT !.spent = @ + 1] ELSE obj
  /\ Return(t)
  /\ UNCHANGED <<k, due>>

(* Mutant: the value is increased although a waiter got the semaphore. *)
ReleaseBoth(by) ==
  /\ CalledBy(by) /\ Of("sem")
  /\ obj.value < MaxValue
  /\ obj' = [obj EXCEPT !.value = @ + 1, !.spent = @ - 1]
  /\ IF ~NoneWaits("receivers")
     THEN ThenSchedule(rt_ipc_list_resume(k, "receivers"), by)
     ELSE UNCHANGED <<k, call>>
  /\ UNCHANGED due

rt_sem_release(by) ==
  /\ CalledBy(by) /\ Of("sem")
  /\ IF ~NoneWaits("receivers")
     THEN /\ ThenSchedule(rt_ipc_list_resume(k, "receivers"), by)
          /\ obj' = [obj EXCEPT !.spent = @ - 1]
     ELSE /\ obj.value < MaxValue
          /\ obj' = [obj EXCEPT !.value = @ + 1, !.spent = @ - 1]
          /\ UNCHANGED <<k, call>>
  /\ UNCHANGED due

(* RT_IPC_CMD_RESET of rt_sem_control.                                     *)
SemReset(t, v) ==
  /\ User(t) /\ Of("sem")
  /\ k' = WakeAll(k, "receivers")
  /\ obj' = [obj EXCEPT !.value = v,
                        !.spent = obj.start - v - Cardinality(Granted("receivers", "taken"))]
  /\ call' = [call EXCEPT ![t] = ScheduleThen("user")]
  /\ UNCHANGED due

SemAgain(t) ==
  /\ User(t) /\ obj.kind = "sem" /\ ~obj.live
  /\ \A u \in Thread : Idles(u)
  /\ \E v \in SemStart : obj' = rt_sem_init(obj.flag, v)
  /\ UNCHANGED kernelVars

SemNext ==
  \/ \E t \in Thread \ {Idle} :
       \/ \E time \in TimeOuts : rt_sem_take(t, time)
       \/ Taken(t) \/ SemAgain(t)
       \/ \E v \in SemStart : SemReset(t, v)
  \/ \E by \in Callers : rt_sem_release(by)
-----------------------------------------------------------------------------
SemTypeOK == obj.kind = "sem" => obj.value \in 0..MaxValue

(* Every release lets exactly one take succeed: a thread is resumed or the *)
(* value counts it, and one whose time-out came first takes nothing.       *)
SemConserves ==
  Of("sem") => obj.value + obj.spent + Cardinality(Granted("receivers", "taken")) = obj.start

(* No thread waits while the semaphore is available.                       *)
SemNoneWaitsInVain == Of("sem") /\ obj.value > 0 => NoneWaits("receivers")
=============================================================================
