------------------------------- MODULE Timers -------------------------------
(***************************************************************************)
(* The kernel's timers (rtthread/src/timer.c, clock.c), with the list      *)
(* of one level that the firmware is built with.                           *)
(*                                                                         *)
(* A thread starts, stops and controls timers; where it has interrupts     *)
(* enabled the tick interrupt may come between its steps.  The interrupt   *)
(* counts the tick and runs the callbacks of the timers that are due, with *)
(* interrupts disabled.  A callback may use timers as well.                *)
(***************************************************************************)
EXTENDS Integers, Sequences, FiniteSets

CONSTANTS
  Own,        \* timers that threads use with interrupts enabled
  Shared,     \* timers used with interrupts disabled, by threads and callbacks
  Ticks,      \* number of values of rt_tick_t
  Times,      \* values of init_tick
  MaxLate     \* how many ticks a thread in rt_timer_start may be preempted

Timer == Own \cup Shared
RT_TICK_MAX == Ticks - 1
Half == RT_TICK_MAX \div 2
None == "none"

(* Ticks are told apart over half their range (timer.c:344, :512).         *)
ASSUME TimersAssumption ==
  /\ Own \cap Shared = {} /\ None \notin Timer /\ IsFiniteSet(Timer)
  /\ Ticks \in Nat /\ Ticks > 2
  /\ Times \subseteq 0..Half - 1 /\ Times # {}
  /\ MaxLate \in 0..Half - 2
  /\ \A n \in Times : n + MaxLate < Half

VARIABLES
  rt_tick,
  timers,     \* the fields of all timers, and the list
  api,        \* the call a thread is in: its function, timer and what it has read
  isr,        \* the tick interrupt: "idle" or in rt_timer_check
  fired,      \* the timers whose callbacks ran in this interrupt
  left,       \* history: of a timer started, ticks from now to when it is to fire
  stopped     \* history: the timers stopped and not started again

vars == <<rt_tick, timers, api, isr, fired, left, stopped>>
-----------------------------------------------------------------------------
(* Arithmetic of rt_tick_t: from b to a, modulo its range.                 *)
Minus(a, b) == (a - b) % Ticks

(* The list, without a timer.                                              *)
Unlink(l, t) ==
  IF \E i \in 1..Len(l) : l[i] = t
  THEN LET i == CHOOSE i \in 1..Len(l) : l[i] = t
       IN  SubSeq(l, 1, i - 1) \o SubSeq(l, i + 1, Len(l))
  ELSE l

Linked(S, t) == \E i \in 1..Len(S.list) : S.list[i] = t

(* Mutant: times are compared as they are, though the tick wraps. *)
EarlierRaw(S, u, t) == S.timeout_tick[u] <= S.timeout_tick[t]

(* A timer listed before t goes on being before it.                        *)
Earlier(S, u, t) == LET d == Minus(S.timeout_tick[u], S.timeout_tick[t])
                    IN  d = 0 \/ d >= Half

(* The place of t: after all that are earlier or due together, from the    *)
(* head on.                                                                *)
Place(S, t) == CHOOSE p \in 1..Len(S.list) + 1 :
                 /\ \A i \in 1..p - 1 : Earlier(S, S.list[i], t)
                 /\ p <= Len(S.list) => ~Earlier(S, S.list[p], t)

_rt_timer_remove(S, t) == [S EXCEPT !.list = Unlink(S.list, t)]
SetActivated(S, t, on) == [S EXCEPT !.activated[t] = on]

(* Mutant: a timer that is started again is not taken out first. *)
StartRemoveNot(S, t) == SetActivated(S, t, FALSE)

(* rt_timer_start in its three parts.                                      *)
StartRemove(S, t) == SetActivated(_rt_timer_remove(S, t), t, FALSE)
StartCompute(S, t, now) ==
  [S EXCEPT !.timeout_tick[t] = (now + S.init_tick[t]) % Ticks]

(* Mutant: the timer is not marked. *)
StartInsertUnmarked(S, t) ==
  LET p == Place(S, t)
  IN  [S EXCEPT !.list = SubSeq(S.list, 1, p - 1) \o <<t>>
                           \o SubSeq(S.list, p, Len(S.list))]

StartInsert(S, t) ==
  LET p == Place(S, t)
      l == SubSeq(S.list, 1, p - 1) \o <<t>> \o SubSeq(S.list, p, Len(S.list))
  IN  SetActivated([S EXCEPT !.list = l], t, TRUE)

rt_timer_start(S, t, now) ==
  StartInsert(StartCompute(StartRemove(S, t), t, now), t)

rt_timer_stop(S, t) ==
  IF S.activated[t] THEN SetActivated(_rt_timer_remove(S, t), t, FALSE) ELSE S

Due(S, t, now) == Minus(now, S.timeout_tick[t]) < Half

(* A periodic timer's period is positive: rt_timer_check would never end.  *)
Periods(S, t) == IF S.periodic[t] THEN Times \ {0} ELSE Times
-----------------------------------------------------------------------------
NoCall == [fn |-> None, t |-> None, flag |-> FALSE]

Init ==
  /\ rt_tick = 0
  /\ \E per \in [Timer -> BOOLEAN], init \in [Timer -> Times] :
       /\ \A t \in Timer : per[t] => init[t] > 0
       /\ timers = [list |-> <<>>, timeout_tick |-> [t \in Timer |-> 0],
                    init_tick |-> init, periodic |-> per,
                    activated |-> [t \in Timer |-> FALSE]]
  /\ api = NoCall
  /\ isr = "idle"
  /\ fired = {}
  /\ left = [t \in Timer |-> 0]
  /\ stopped = Timer

ThreadRuns == isr = "idle"
Calls(fn, t, flag) == api' = [fn |-> fn, t |-> t, flag |-> flag]
InCall(fn) == ThreadRuns /\ api.fn = fn

(* rt_timer_start with interrupts enabled.                                 *)
Start(t) ==
  /\ InCall(None)
  /\ timers' = StartRemove(timers, t)
  /\ Calls("start", t, FALSE)
  /\ stopped' = stopped \ {t}
  /\ left' = [left EXCEPT ![t] = 0]
  /\ UNCHANGED <<rt_tick, isr, fired>>

Compute ==
  /\ InCall("start")
  /\ timers' = StartCompute(timers, api.t, rt_tick)
  /\ left' = [left EXCEPT ![api.t] = timers.init_tick[api.t]]
  /\ Calls("insert", api.t, FALSE)
  /\ UNCHANGED <<rt_tick, isr, fired, stopped>>

Insert ==
  /\ InCall("insert")
  /\ timers' = StartInsert(timers, api.t)
  /\ api' = NoCall
  /\ UNCHANGED <<rt_tick, isr, fired, left, stopped>>

(* rt_timer_stop with interrupts enabled: the flag, the list, the flag.    *)
Stop(t) ==
  /\ InCall(None)
  /\ timers.activated[t]
  /\ Calls("stop", t, FALSE)
  /\ UNCHANGED <<rt_tick, timers, isr, fired, left, stopped>>

Remove ==
  /\ InCall("stop")
  /\ timers' = _rt_timer_remove(timers, api.t)
  /\ Calls("clear", api.t, FALSE)
  /\ left' = [left EXCEPT ![api.t] = 0]
  /\ UNCHANGED <<rt_tick, isr, fired, stopped>>

Clear ==
  /\ InCall("clear")
  /\ timers' = SetActivated(timers, api.t, FALSE)
  /\ api' = NoCall
  /\ stopped' = stopped \cup {api.t}
  /\ UNCHANGED <<rt_tick, isr, fired, left>>

(* rt_timer_control.  The kind of the timer shares a byte with             *)
(* RT_TIMER_FLAG_ACTIVATED, which is read here and written back later.     *)
SetTime(t, n) ==
  /\ InCall(None)
  /\ n \in Periods(timers, t)
  /\ timers' = [timers EXCEPT !.init_tick[t] = n]
  /\ UNCHANGED <<rt_tick, api, isr, fired, left, stopped>>

Control(t) ==
  /\ InCall(None)
  /\ timers.init_tick[t] > 0
  /\ Calls("control", t, timers.activated[t])
  /\ UNCHANGED <<rt_tick, timers, isr, fired, left, stopped>>

WriteBack(periodic) ==
  /\ InCall("control")
  /\ timers' = [timers EXCEPT !.periodic[api.t] = periodic,
                              !.activated[api.t] = api.flag]
  /\ api' = NoCall
  /\ UNCHANGED <<rt_tick, isr, fired, left, stopped>>

(* A call with interrupts disabled throughout, as the scheduler and the    *)
(* IPC functions make on a thread's timer.                                 *)
StartLocked(t, n) ==
  /\ InCall(None)
  /\ n \in Periods(timers, t)
  /\ timers' = rt_timer_start([timers EXCEPT !.init_tick[t] = n], t, rt_tick)
  /\ left' = [left EXCEPT ![t] = n]
  /\ stopped' = stopped \ {t}
  /\ UNCHANGED <<rt_tick, api, isr, fired>>

StopLocked(t) ==
  /\ InCall(None)
  /\ timers' = rt_timer_stop(timers, t)
  /\ stopped' = IF timers.activated[t] THEN stopped \cup {t} ELSE stopped
  /\ left' = [left EXCEPT ![t] = 0]
  /\ UNCHANGED <<rt_tick, api, isr, fired>>
-----------------------------------------------------------------------------
(* SysTick_Handler: rt_tick_increase counts the tick and calls             *)
(* rt_timer_check.                                                         *)
Started(t) == Linked(timers, t) \/ (api.fn = "insert" /\ api.t = t)
Overdue(t) == api.fn = "insert" /\ api.t = t
                 /\ left[t] = -MaxLate

Tick ==
  /\ isr = "idle"
  /\ ~\E t \in Timer : Overdue(t)
  /\ rt_tick' = (rt_tick + 1) % Ticks
  /\ isr' = "check"
  /\ fired' = {}
  /\ left' = [t \in Timer |-> IF Started(t) THEN left[t] - 1 ELSE 0]
  /\ UNCHANGED <<timers, api, stopped>>

(* The callback of t and what rt_timer_check does before and after it.     *)
AfterCallback(S, t) ==
  IF S.periodic[t] /\ S.activated[t]
  THEN rt_timer_start(SetActivated(S, t, FALSE), t, rt_tick)
  ELSE SetActivated(S, t, FALSE)

Head1 == timers.list[1]

(* A callback may start a timer of others, and stop one or its own.        *)
Expire(t, starts, stops) ==
  LET S1 == _rt_timer_remove(timers, t)
      S2 == IF starts = None THEN S1 ELSE rt_timer_start(S1, starts, rt_tick)
      S3 == IF stops = None THEN S2 ELSE rt_timer_stop(S2, stops)
      S4 == AfterCallback(S3, t)
  IN  /\ isr = "check"
      /\ timers.list # <<>> /\ t = Head1 /\ Due(timers, t, rt_tick)
      /\ starts # None => /\ starts # t /\ starts \in Shared
                          /\ timers.init_tick[starts] > 0
      /\ stops # None => stops \in Shared \cup {t}
      /\ timers' = S4
      /\ fired' = fired \cup {t}
      /\ left' = [u \in Timer |->
                    CASE u = stops -> 0
                      [] u = starts -> timers.init_tick[u]
                      [] u = t -> IF timers.periodic[t] THEN timers.init_tick[t] ELSE 0
                      [] OTHER -> left[u]]
      /\ stopped' = IF stops # None /\ S2.activated[stops]
                    THEN (stopped \ {starts}) \cup {stops}
                    ELSE stopped \ {starts}
      /\ UNCHANGED <<rt_tick, api, isr>>

EndCheck ==
  /\ isr = "check"
  /\ timers.list # <<>> => ~Due(timers, Head1, rt_tick)
  /\ isr' = "idle"
  /\ UNCHANGED <<rt_tick, timers, api, fired, left, stopped>>
-----------------------------------------------------------------------------
Thread ==
  \/ \E t \in Own : Start(t) \/ Stop(t) \/ Control(t)
  \/ \E t \in Own, n \in Times : SetTime(t, n)
  \/ Compute \/ Insert \/ Remove \/ Clear
  \/ \E p \in BOOLEAN : WriteBack(p)
  \/ \E t \in Shared : StopLocked(t) \/ \E n \in Times : StartLocked(t, n)

Interrupt ==
  \/ Tick
  \/ EndCheck
  \/ \E t \in Timer, starts, stops \in Timer \cup {None} : Expire(t, starts, stops)

Next == Thread \/ Interrupt

Spec == Init /\ [][Next]_vars
-----------------------------------------------------------------------------
Tick_t == 0..RT_TICK_MAX
Functions == {None, "start", "insert", "stop", "clear", "control"}

(* Type correctness of the timers, the tick and the history.               *)
TypeOK ==
  /\ rt_tick \in Tick_t
  /\ DOMAIN timers = {"list", "timeout_tick", "init_tick", "periodic", "activated"}
  /\ timers.list \in Seq(Timer)
  /\ timers.timeout_tick \in [Timer -> Tick_t]
  /\ timers.init_tick \in [Timer -> Times]
  /\ timers.periodic \in [Timer -> BOOLEAN]
  /\ timers.activated \in [Timer -> BOOLEAN]
  /\ api \in [fn : Functions, t : Timer \cup {None}, flag : BOOLEAN]
  /\ isr \in {"idle", "check"}
  /\ fired \subseteq Timer
  /\ left \in [Timer -> -MaxLate - 1..Half]
  /\ stopped \subseteq Timer

(* The list that rt_timer_start keeps in order by differences modulo the   *)
(* tick's range is in the order in which its timers are to fire, each once *)
(* and with the time-out it was started with.                              *)
InOrder ==
  /\ TypeOK
  /\ \A i, j \in 1..Len(timers.list) :
       i < j => /\ timers.list[i] # timers.list[j]
                /\ left[timers.list[i]] <= left[timers.list[j]]
  /\ \A t \in Timer : Linked(timers, t) =>
       timers.timeout_tick[t] = (rt_tick + left[t]) % Ticks

(* A timer in the list is marked activated: if it were not, rt_timer_stop  *)
(* would return an error and leave it there (timer.c:427).                 *)
ListedCanBeStopped ==
  \A t \in Timer : Linked(timers, t) => timers.activated[t]

(* rt_timer_check runs a callback when its time has come and no earlier,   *)
(* and never that of a timer that was stopped and not started again.       *)
NeverEarly ==
  [][\A t \in fired' \ fired : left[t] <= 0 /\ t \notin stopped]_vars

(* rt_timer_check leaves no timer in the list whose time has come, though  *)
(* it looks at the first only.                                             *)
NoneMissed ==
  [][isr = "check" /\ isr' = "idle" =>
       \A t \in Timer : Linked(timers, t) => left[t] > 0]_vars

(* In one interrupt a timer fires once, though the loop of rt_timer_check  *)
(* starts periodic timers again; so the interrupt returns.                 *)
OncePerTick == [][timers # timers' /\ isr = "check" => fired' # fired]_vars

(* Each timer fires in the tick it was set for, once.                      *)
OnTime == NeverEarly /\ NoneMissed /\ OncePerTick
=============================================================================
