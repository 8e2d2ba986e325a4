-------------------------------- MODULE Mutex --------------------------------
(***************************************************************************)
(* Mutexes of rtthread/src/ipc.c: recursive, handed over to the thread     *)
(* that has waited, with the priority of the highest waiter inherited by   *)
(* the owner.                                                              *)
(***************************************************************************)
EXTENDS IPC

CONSTANT MaxHold      \* bound: how often a thread takes the mutex it has

ASSUME MutexAssumption == MaxHold \in Nat \ {0} /\ "no owner" \notin Thread

None == "no owner"
Unset == MaxPrio + 1  \* 0xFF, the original priority while there is no owner

(* holds is history: how often each thread has the mutex, as it knows.     *)
rt_mutex_init(flag) ==
  [kind |-> "mutex", live |-> TRUE, flag |-> flag, value |-> 1, owner |-> None,
   original_priority |-> Unset, hold |-> 0, holds |-> [t \in Thread |-> 0]]

MutexInit == \E flag \in {"FIFO", "PRIO"} : obj = rt_mutex_init(flag)

OwnedBy(o, K, t) ==
  [o EXCEPT !.owner = t, !.original_priority = K.prio[t], !.hold = @ + 1]

(* The owner gets the priority of a waiter that is above its own.          *)
Inherit(K, t) ==
  IF K.prio[t] < K.prio[obj.owner] THEN ChangePriority(K, obj.owner, K.prio[t]) ELSE K

rt_mutex_take(t, time) ==
  /\ User(t) /\ Of("mutex")
  /\ \/ /\ obj.owner = t /\ obj.hold < MaxHold
        /\ obj' = [obj EXCEPT !.hold = @ + 1, !.holds[t] = @ + 1]
        /\ k' = [k EXCEPT !.error[t] = "EOK"]
        /\ UNCHANGED call
     \/ /\ obj.owner # t /\ obj.value > 0
        /\ obj' = [OwnedBy(obj, k, t) EXCEPT !.value = @ - 1, !.holds[t] = 1]
        /\ k' = [k EXCEPT !.error[t] = "EOK"]
        /\ UNCHANGED call
     \/ /\ obj.owner # t /\ obj.value = 0 /\ time # 0 /\ k.lock = 0
        /\ k' = Wait(Inherit(k, t), "receivers", t, time)
        /\ call' = [call EXCEPT ![t] = ScheduleThen("locked")]
        /\ UNCHANGED obj
  /\ UNCHANGED due

Locked(t) ==
  /\ At(t, "locked")
  /\ obj' = IF k.error[t] = "EOK" THEN [obj EXCEPT !.holds[t] = 1] ELSE obj
  /\ Return(t)
  /\ UNCHANGED <<k, due>>

(* Mutant: the owner keeps the priority it inherited. *)
NotRestored(K, t) == K

(* The owner's priority when it has released the mutex.                    *)
Restored(K, t) ==
  IF obj.original_priority # K.prio[t] THEN ChangePriority(K, t, obj.original_priority) ELSE K

(* Mutant: the mutex is free although the next owner was resumed. *)
HandOverFree(o, K, next) == [OwnedBy(o, K, next) EXCEPT !.value = 1]
HandOver(o, K, next) == OwnedBy(o, K, next)

(* rt_mutex_release.  Without a waiter it does not call rt_schedule, even  *)
(* if the owner's priority has become lower.                               *)
Release(t) ==
  LET R == Restored(k, t)
      o == [obj EXCEPT !.hold = 0, !.holds[t] = 0]
  IN  /\ User(t) /\ Of("mutex") /\ obj.owner = t /\ obj.hold = 1
      /\ IF NoneWaits("receivers")
         THEN /\ k' = [R EXCEPT !.owed = @ \/ R.prio # k.prio]
              /\ obj' = [o EXCEPT !.value = @ + 1, !.owner = None, !.original_priority = Unset]
              /\ UNCHANGED call
         ELSE /\ ThenSchedule(rt_ipc_list_resume(R, "receivers"), t)
              /\ obj' = HandOver(o, R, Head(k.queue["receivers"]))
      /\ UNCHANGED due

ReleaseInner(t) ==
  /\ User(t) /\ Of("mutex") /\ obj.owner = t /\ obj.hold > 1
  /\ obj' = [obj EXCEPT !.hold = @ - 1, !.holds[t] = @ - 1]
  /\ UNCHANGED kernelVars

(* A release by another thread is refused.                                 *)
ReleaseRefused(t) ==
  /\ User(t) /\ Of("mutex") /\ obj.owner # t
  /\ k' = [k EXCEPT !.error[t] = "ERROR"]
  /\ UNCHANGED <<call, due, obj>>

MutexAgain(t) ==
  /\ User(t) /\ obj.kind = "mutex" /\ ~obj.live
  /\ \A u \in Thread : Idles(u) /\ k.prio[u] = InitPrio[u]
  /\ obj' = rt_mutex_init(obj.flag)
  /\ UNCHANGED kernelVars

MutexNext ==
  \E t \in Thread \ {Idle} :
    \/ \E time \in TimeOuts : rt_mutex_take(t, time)
    \/ Locked(t) \/ Release(t) \/ ReleaseInner(t) \/ ReleaseRefused(t)
    \/ MutexAgain(t)
-----------------------------------------------------------------------------
MutexTypeOK ==
  Of("mutex") => /\ obj.value \in {0, 1}
                 /\ obj.owner \in Thread \cup {None}
                 /\ obj.hold \in 0..MaxHold
                 /\ obj.original_priority \in 0..Unset

(* Two threads never both believe they have the mutex, and the kernel      *)
(* agrees with the one that does.                                          *)
MutualExclusion ==
  Of("mutex") =>
    \A t \in Thread : obj.holds[t] > 0 => obj.owner = t /\ obj.hold = obj.holds[t]

(* The owner can always be found out: it has the mutex, or was resumed     *)
(* with it and will notice.                                                *)
OwnerKnows ==
  Of("mutex") => /\ obj.owner = None <=> obj.value = 1
                 /\ \A t \in Thread : obj.owner = t =>
                      obj.holds[t] > 0 \/ t \in Granted("receivers", "locked")

(* Priority inheritance: no waiter has a higher priority than the owner.   *)
(* Where waiters are served in order of arrival this holds until the first *)
(* hand-over only, as the new owner inherits nothing from those behind it. *)
OwnerInherits ==
  Of("mutex") /\ obj.flag = "PRIO" =>
    \A t \in Thread : Waits(t, "receivers") => k.prio[obj.owner] <= k.prio[t]

(* A thread that does not own the mutex has its own priority again.        *)
PriorityRestored ==
  Of("mutex") => \A t \in Thread : obj.owner # t => k.prio[t] = InitPrio[t]
=============================================================================
