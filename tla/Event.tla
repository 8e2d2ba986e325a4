-------------------------------- MODULE Event --------------------------------
(***************************************************************************)
(* Event sets of rtthread/src/ipc.c: a thread waits until all (AND) or one *)
(* (OR) of the flags it asks for are set, and may clear what it received.  *)
(***************************************************************************)
EXTENDS IPC

CONSTANTS
  Flag,         \* the flags
  Ask           \* what threads ask for: a set of flags, AND or OR, to clear or not

ASSUME EventAssumption ==
  /\ IsFiniteSet(Flag)
  /\ Ask \subseteq [asked : (SUBSET Flag) \ {{}}, all : BOOLEAN, clear : BOOLEAN]

rt_event_init(flag) == [kind |-> "event", live |-> TRUE, flag |-> flag, set |-> {}]

EventInit == \E flag \in {"FIFO", "PRIO"} : obj = rt_event_init(flag)

Satisfied(a, set) == IF a.all THEN a.asked \subseteq set ELSE a.asked \cap set # {}

(* The flags that a call which is satisfied receives.                      *)
Matched(a, set) == a.asked \cap set

Cleared(set, a, flags) == IF a.clear THEN set \ flags ELSE set

(* got is thread->event_set, once the thread was resumed.                  *)
rt_event_recv(t, a, time) ==
  /\ User(t) /\ Of("event")
  /\ IF Satisfied(a, obj.set)
     THEN /\ obj' = [obj EXCEPT !.set = Cleared(@, a, a.asked)]
          /\ k' = [k EXCEPT !.error[t] = "EOK"]
          /\ UNCHANGED call
     ELSE /\ time # 0 /\ k.lock = 0
          /\ k' = Wait(k, "receivers", t, time)
          /\ call' = [call EXCEPT ![t] =
                       [pc |-> "schedule", then |-> "received", ask |-> a, got |-> {}]]
          /\ UNCHANGED obj
  /\ UNCHANGED due

EventReceived(t) == At(t, "received") /\ Return(t) /\ UNCHANGED <<k, due, obj>>

(* Mutant: what is cleared stays set for the waiters behind. *)
OfferKeeps(s, t) ==
  LET a == call[t].ask
  IN  IF ~Satisfied(a, s.set) THEN s
      ELSE [s EXCEPT !.k = rt_thread_resume(@, t), !.woken = TRUE,
                     !.got[t] = Matched(a, s.set)]

(* One turn of the loop of rt_event_send over the waiters: s holds the     *)
(* kernel, the flags left and what the waiters before t got.               *)
Offer(s, t) ==
  LET a == call[t].ask
  IN  IF ~Satisfied(a, s.set) THEN s
      ELSE [k |-> rt_thread_resume(s.k, t), woken |-> TRUE,
            set |-> Cleared(s.set, a, Matched(a, s.set)),
            got |-> [s.got EXCEPT ![t] = Matched(a, s.set)]]

Unoffered(flags) ==
  [k |-> k, set |-> obj.set \cup flags, woken |-> FALSE, got |-> [t \in Thread |-> {}]]

OfferAll(flags) ==
  LET l == k.queue["receivers"]
      offered[n \in 0..Len(l)] ==
        IF n = 0 THEN Unoffered(flags) ELSE Offer(offered[n - 1], l[n])
  IN  offered[Len(l)]

rt_event_send(by, flags) ==
  LET s == OfferAll(flags)
      calls == [t \in Thread |-> IF s.got[t] = {} THEN call[t] ELSE [call[t] EXCEPT !.got = s.got[t]]]
  IN  /\ CalledBy(by) /\ Of("event")
      /\ obj' = [obj EXCEPT !.set = s.set]
      /\ IF by = Handler
         THEN k' = (IF s.woken THEN rt_schedule(s.k) ELSE s.k) /\ call' = calls
         ELSE k' = s.k /\ call' = IF s.woken THEN [calls EXCEPT ![by] = ScheduleThen("user")] ELSE calls
      /\ UNCHANGED due

(* RT_IPC_CMD_RESET of rt_event_control.                                   *)
EventReset(t) ==
  /\ User(t) /\ Of("event")
  /\ k' = WakeAll(k, "receivers")
  /\ obj' = [obj EXCEPT !.set = {}]
  /\ call' = [call EXCEPT ![t] = ScheduleThen("user")]
  /\ UNCHANGED due

EventAgain(t) ==
  /\ User(t) /\ obj.kind = "event" /\ ~obj.live
  /\ \A u \in Thread : Idles(u)
  /\ obj' = rt_event_init(obj.flag)
  /\ UNCHANGED kernelVars

EventNext ==
  \/ \E t \in Thread \ {Idle} :
       \/ \E a \in Ask, time \in TimeOuts : rt_event_recv(t, a, time)
       \/ EventReceived(t) \/ EventReset(t) \/ EventAgain(t)
  \/ \E by \in Callers, flags \in (SUBSET Flag) \ {{}} : rt_event_send(by, flags)
-----------------------------------------------------------------------------
EventTypeOK == obj.kind = "event" => obj.set \subseteq Flag

(* No thread waits for flags that are set: every send looks at all the     *)
(* waiters, in their order, with the flags those before have left.         *)
EventNoneWaitsInVain ==
  Of("event") => \A t \in Thread : Waits(t, "receivers") => ~Satisfied(call[t].ask, obj.set)

(* A thread whose wait rt_event_send ends.                                 *)
GotByOneSend(t) == Waits(t, "receivers") /\ call'[t].pc = "received" /\ call'[t].got # {}

(* A thread that rt_event_send wakes received what it asked for, and flags *)
(* that one thread received and cleared in a send go to no thread behind   *)
(* it in the list (ipc.c:1089).                                            *)
ClearedGoOnce ==
  [][obj.kind = "event" =>
       /\ \A t \in Thread : GotByOneSend(t) =>
            Satisfied(call[t].ask, call'[t].got) /\ call'[t].got \subseteq call[t].ask.asked
       /\ \A i, j \in 1..Len(k.queue["receivers"]) :
            LET t == k.queue["receivers"][i]
                u == k.queue["receivers"][j]
            IN  i < j /\ GotByOneSend(t) /\ GotByOneSend(u) /\ call[t].ask.clear
                  => call'[t].got \cap call'[u].got = {}]_ipcVars
=============================================================================
