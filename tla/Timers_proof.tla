---------------------------- MODULE Timers_proof ----------------------------
(***************************************************************************)
(* Proofs about the timer list, for any timers, any range of rt_tick_t and *)
(* any time-outs below half of it.                                         *)
(***************************************************************************)
EXTENDS Timers, WellFoundedInduction, TLAPS

(* Half the range of rt_tick_t, and what its arithmetic does to numbers    *)
(* that are off by less than the range.                                    *)
LEMMA Halves ==
  /\ Ticks \in Nat /\ Half \in Nat /\ MaxLate \in Nat
  /\ 2 * Half <= Ticks - 1 /\ Ticks - 1 <= 2 * Half + 1 /\ MaxLate + 1 < Half
<1>1. Ticks \in Nat /\ Ticks > 2 /\ MaxLate \in 0..Half - 2
  BY TimersAssumption
<1>2. \A n \in Nat : n \div 2 \in Nat /\ 2 * (n \div 2) <= n /\ n <= 2 * (n \div 2) + 1
  OBVIOUS
<1>3. Ticks - 1 \in Nat
  BY <1>1
<1> QED  BY <1>1, <1>2, <1>3 DEF Half, RT_TICK_MAX

LEMMA Wraps ==
  ASSUME NEW a \in Int, -Ticks <= a, a < 2 * Ticks
  PROVE  a % Ticks = IF a < 0 THEN a + Ticks ELSE IF a < Ticks THEN a ELSE a - Ticks
<1>1. Ticks \in Nat /\ Ticks > 0
  BY TimersAssumption
<1>2. CASE a < 0
  BY <1>1, <1>2
<1>3. CASE 0 <= a /\ a < Ticks
  BY <1>1, <1>3
<1>4. CASE Ticks <= a
  BY <1>1, <1>4
<1> QED  BY <1>1, <1>2, <1>3, <1>4

LEMMA WrapsIn ==
  ASSUME NEW a \in Int, -Ticks <= a, a < 2 * Ticks
  PROVE  a % Ticks \in Tick_t
<1>1. Ticks \in Nat /\ Ticks > 0
  BY TimersAssumption
<1> QED  BY <1>1, Wraps DEF Tick_t, RT_TICK_MAX

(* Two time-outs of now + x and now + y are told apart by the difference   *)
(* of x and y, when that is less than half the range.                      *)
Near(x) == x \in Int /\ -MaxLate - 1 <= x /\ x + MaxLate < Half

LEMMA TellsApart ==
  ASSUME NEW now \in Tick_t, NEW x, NEW y, Near(x), Near(y), y >= -MaxLate
  PROVE  LET d == Minus((now + x) % Ticks, (now + y) % Ticks)
         IN  (d = 0 \/ d >= Half) <=> x <= y
<1> DEFINE a == now + x
           b == now + y
           d == Minus(a % Ticks, b % Ticks)
<1>1. /\ Ticks \in Nat /\ Half \in Nat /\ MaxLate \in Nat /\ now \in Int /\ 0 <= now /\ now < Ticks
      /\ 2 * Half <= Ticks - 1 /\ Ticks - 1 <= 2 * Half + 1 /\ MaxLate + 1 < Half
  BY Halves DEF Tick_t, RT_TICK_MAX
<1>2. a \in Int /\ b \in Int /\ -Ticks <= a /\ a < 2 * Ticks /\ -Ticks <= b /\ b < 2 * Ticks
      /\ a - b = x - y
  BY <1>1 DEF Near
<1> HIDE DEF a, b
<1>3. a % Ticks = (IF a < 0 THEN a + Ticks ELSE IF a < Ticks THEN a ELSE a - Ticks)
      /\ b % Ticks = (IF b < 0 THEN b + Ticks ELSE IF b < Ticks THEN b ELSE b - Ticks)
  BY <1>2, Wraps
<1> DEFINE e == (a % Ticks) - (b % Ticks)
<1>4. e \in Int /\ -Ticks < e /\ e < Ticks /\ e \in {x - y, x - y + Ticks, x - y - Ticks}
  BY <1>1, <1>2, <1>3 DEF Near
<1> HIDE DEF e
<1>5. d = IF e < 0 THEN e + Ticks ELSE e
  <2>1. d = e % Ticks
    BY DEF e, Minus
  <2>2. e % Ticks = IF e < 0 THEN e + Ticks ELSE IF e < Ticks THEN e ELSE e - Ticks
    BY <1>1, <1>4, Wraps
  <2> QED  BY <1>4, <2>1, <2>2
<1> HIDE DEF d
<1>6. x - y \in Int /\ x - y < Half /\ y - x <= Half /\ (y - x = Half => d = Ticks - Half)
  BY <1>1, <1>4, <1>5 DEF Near
<1>7. (d = 0 \/ d >= Half) <=> x <= y
  BY <1>1, <1>4, <1>5, <1>6 DEF Near
<1> QED  BY <1>7 DEF d, a, b
(* What the functions of timer.c keep of the timers S, when f tells when   *)
(* each is to fire: the list is in order, each timer is in it once, and    *)
(* those in it are marked, with the time-out they were started with.       *)
Timers_t == [list : Seq(Timer), timeout_tick : [Timer -> Tick_t],
             init_tick : [Timer -> Times], periodic : [Timer -> BOOLEAN],
             activated : [Timer -> BOOLEAN]]

SortedBy(l, f) == \A i, j \in 1..Len(l) : i < j => l[i] # l[j] /\ f[l[i]] <= f[l[j]]

SetFor(S, t, f, now) == S.timeout_tick[t] = (now + f[t]) % Ticks

Sound(S, f, now) ==
  /\ S \in Timers_t
  /\ SortedBy(S.list, f)
  /\ \A t \in Timer : Linked(S, t) => S.activated[t] /\ SetFor(S, t, f, now) /\ Near(f[t])

PeriodsPositive(S) == \A t \in Timer : S.periodic[t] => S.init_tick[t] > 0

(* Where a thread is in a call that the tick interrupt may come into.      *)
CallOK ==
  /\ api.fn # None => api.t \in Own
  /\ api.fn \in {"start", "insert"} => ~Linked(timers, api.t) /\ api.t \notin stopped
  /\ api.fn = "insert" =>
       /\ SetFor(timers, api.t, left, rt_tick) /\ Near(left[api.t])
       /\ -MaxLate <= left[api.t]
  /\ api.fn = "clear" => ~Linked(timers, api.t)
  /\ api.fn = "control" =>
       timers.init_tick[api.t] > 0 /\ (Linked(timers, api.t) => api.flag)

(* An interrupt leaves no timer that is overdue; and what fired in it is   *)
(* not due again in it.                                                    *)
InTime ==
  /\ \A t \in Timer : Linked(timers, t) => t \notin stopped
  /\ isr = "idle" => \A t \in Timer : Linked(timers, t) => left[t] >= -MaxLate
  /\ isr = "check" => \A t \in fired : Linked(timers, t) => left[t] > 0

Rest_t ==
  /\ rt_tick \in Tick_t
  /\ api \in [fn : Functions, t : Timer \cup {None}, flag : BOOLEAN]
  /\ isr \in {"idle", "check"}
  /\ fired \subseteq Timer /\ stopped \subseteq Timer
  /\ left \in [Timer -> -MaxLate - 1..Half]

IInv == Rest_t /\ Sound(timers, left, rt_tick) /\ PeriodsPositive(timers) /\ CallOK /\ InTime
-----------------------------------------------------------------------------
(* The list without the timer at place k, and with t at place p.           *)
Cut(l, k) == SubSeq(l, 1, k - 1) \o SubSeq(l, k + 1, Len(l))
Put(l, p, t) == SubSeq(l, 1, p - 1) \o <<t>> \o SubSeq(l, p, Len(l))

LEMMA CutList ==
  ASSUME NEW l \in Seq(Timer), NEW k \in 1..Len(l)
  PROVE  /\ Cut(l, k) \in Seq(Timer) /\ Len(Cut(l, k)) = Len(l) - 1
         /\ \A i \in 1..Len(Cut(l, k)) : Cut(l, k)[i] = l[IF i < k THEN i ELSE i + 1]
<1> DEFINE a == SubSeq(l, 1, k - 1)
           b == SubSeq(l, k + 1, Len(l))
<1>1. /\ a \in Seq(Timer) /\ Len(a) = k - 1
      /\ \A i \in 1..k - 1 : a[i] = l[i]
  OBVIOUS
<1>2. /\ b \in Seq(Timer) /\ Len(b) = Len(l) - k
      /\ \A i \in 1..Len(l) - k : b[i] = l[k + i]
  OBVIOUS
<1> HIDE DEF a, b
<1> DEFINE c == a \o b
<1>3. /\ c \in Seq(Timer) /\ Len(c) = Len(l) - 1
      /\ \A i \in 1..Len(c) : c[i] = IF i < k THEN a[i] ELSE b[i - k + 1]
  <2>1. /\ c \in Seq(Timer) /\ Len(c) = Len(a) + Len(b)
        /\ \A i \in 1..Len(a) + Len(b) :
             c[i] = IF i <= Len(a) THEN a[i] ELSE b[i - Len(a)]
    <3>1. a \in Seq(Timer) /\ b \in Seq(Timer)
      BY <1>1, <1>2
    <3> QED  BY <3>1
  <2>2. Len(c) = Len(l) - 1
    BY <1>1, <1>2, <2>1
  <2>3. ASSUME NEW i \in 1..Len(c)
        PROVE  c[i] = IF i < k THEN a[i] ELSE b[i - k + 1]
    <3>1. (i <= Len(a) <=> i < k) /\ i - Len(a) = i - k + 1
      BY <1>1, <2>2
    <3>2. c[i] = IF i <= Len(a) THEN a[i] ELSE b[i - Len(a)]
      BY <2>1
    <3> HIDE DEF c
    <3> QED  BY <3>1, <3>2
  <2> QED  BY <2>1, <2>2, <2>3
<1>4. c = Cut(l, k)
  BY DEF a, b, Cut
<1> HIDE DEF c
<1>5. ASSUME NEW i \in 1..Len(c)
      PROVE  c[i] = l[IF i < k THEN i ELSE i + 1]
  <2>1. CASE i < k
    BY <1>1, <1>3, <2>1
  <2>2. CASE i >= k
    <3>1. i - k + 1 \in 1..Len(l) - k /\ c[i] = b[i - k + 1]
      BY <1>3, <2>2
    <3>2. k + (i - k + 1) = i + 1
      OBVIOUS
    <3> QED  BY <1>2, <2>2, <3>1, <3>2
  <2> QED  BY <2>1, <2>2
<1> QED  BY <1>3, <1>4, <1>5

LEMMA PutList ==
  ASSUME NEW l \in Seq(Timer), NEW p \in 1..Len(l) + 1, NEW t \in Timer
  PROVE  /\ Put(l, p, t) \in Seq(Timer) /\ Len(Put(l, p, t)) = Len(l) + 1
         /\ Put(l, p, t)[p] = t
         /\ \A i \in 1..p - 1 : Put(l, p, t)[i] = l[i]
         /\ \A i \in p..Len(l) : Put(l, p, t)[i + 1] = l[i]
<1> DEFINE a == SubSeq(l, 1, p - 1)
           b == SubSeq(l, p, Len(l))
           c == a \o <<t>>
           d == c \o b
<1>1. /\ a \in Seq(Timer) /\ Len(a) = p - 1
      /\ \A i \in 1..p - 1 : a[i] = l[i]
  OBVIOUS
<1>2. /\ b \in Seq(Timer) /\ Len(b) = Len(l) - p + 1
      /\ \A i \in 1..Len(l) - p + 1 : b[i] = l[p + i - 1]
  OBVIOUS
<1>3. d = Put(l, p, t)
  BY DEF Put
<1> HIDE DEF a, b
<1>4. c \in Seq(Timer) /\ Len(c) = p /\ c[p] = t /\ \A i \in 1..p - 1 : c[i] = l[i]
  BY <1>1
<1> HIDE DEF c
<1>5. /\ d \in Seq(Timer) /\ Len(d) = Len(l) + 1
      /\ \A i \in 1..Len(d) : d[i] = IF i <= p THEN c[i] ELSE b[i - p]
  <2>1. /\ d \in Seq(Timer) /\ Len(d) = Len(c) + Len(b)
        /\ \A i \in 1..Len(c) + Len(b) :
             d[i] = IF i <= Len(c) THEN c[i] ELSE b[i - Len(c)]
    BY <1>2, <1>4
  <2>2. Len(d) = Len(l) + 1
    BY <1>2, <1>4, <2>1
  <2> QED  BY <1>4, <2>1, <2>2
<1> HIDE DEF d
<1>6. \A i \in 1..p : d[i] = c[i]
  BY <1>5
<1>7. ASSUME NEW i \in p..Len(l)
      PROVE  d[i + 1] = l[i]
  <2>1. i + 1 \in 1..Len(d) /\ ~(i + 1 <= p) /\ (i + 1) - p \in 1..Len(l) - p + 1
    BY <1>5
  <2>2. d[i + 1] = b[(i + 1) - p] /\ p + ((i + 1) - p) - 1 = i
    BY <1>5, <2>1
  <2> QED  BY <1>2, <2>1, <2>2
<1>8. d[p] = t /\ \A i \in 1..p - 1 : d[i] = l[i]
  BY <1>4, <1>6
<1> QED  BY <1>3, <1>5, <1>7, <1>8

(* rt_timer_remove takes a timer out, and leaves the others in order.      *)
Others(S, R, t) ==
  /\ R.init_tick = S.init_tick /\ R.periodic = S.periodic
  /\ \A u \in Timer \ {t} : /\ R.timeout_tick[u] = S.timeout_tick[u]
                            /\ R.activated[u] = S.activated[u]
                            /\ Linked(R, u) <=> Linked(S, u)

LEMMA TakenOut ==
  ASSUME NEW l \in Seq(Timer), NEW f, SortedBy(l, f), NEW t
  PROVE  /\ Unlink(l, t) \in Seq(Timer) /\ SortedBy(Unlink(l, t), f)
         /\ \A u : (\E i \in 1..Len(Unlink(l, t)) : Unlink(l, t)[i] = u)
                    <=> u # t /\ \E i \in 1..Len(l) : l[i] = u
<1>1. CASE ~\E i \in 1..Len(l) : l[i] = t
  BY <1>1 DEF Unlink
<1>2. CASE \E i \in 1..Len(l) : l[i] = t
  <2> DEFINE k == CHOOSE i \in 1..Len(l) : l[i] = t
             r == Cut(l, k)
  <2>1. k \in 1..Len(l) /\ l[k] = t
    BY <1>2
  <2>2. Unlink(l, t) = r
    BY <1>2 DEF Unlink, Cut
  <2> HIDE DEF k, r
  <2>3. /\ r \in Seq(Timer) /\ Len(r) = Len(l) - 1
        /\ \A i \in 1..Len(r) : r[i] = l[IF i < k THEN i ELSE i + 1]
    BY <2>1, CutList DEF r
  <2> DEFINE o(i) == IF i < k THEN i ELSE i + 1
  <2>4. \A i \in 1..Len(r) : o(i) \in 1..Len(l) \ {k} /\ r[i] = l[o(i)]
    BY <2>1, <2>3
  <2>5. \A i, j \in 1..Len(r) : i < j => o(i) < o(j)
    BY <2>1
  <2>6. \A j \in 1..Len(l) \ {k} : \E i \in 1..Len(r) : o(i) = j
    <3> SUFFICES ASSUME NEW j \in 1..Len(l) \ {k}
                 PROVE  \E i \in 1..Len(r) : o(i) = j
      OBVIOUS
    <3>1. CASE j < k
      BY <2>1, <2>3, <3>1
    <3>2. CASE j > k
      <4>1. j - 1 \in 1..Len(r) /\ o(j - 1) = j
        BY <2>1, <2>3, <3>2
      <4> QED  BY <4>1
    <3> QED  BY <2>1, <3>1, <3>2
  <2> HIDE DEF o
  <2>7. SortedBy(r, f)
    BY <2>4, <2>5 DEF SortedBy
  <2>8. \A i \in 1..Len(l) : l[i] = t => i = k
    BY <2>1 DEF SortedBy
  <2>9. \A u : (\E i \in 1..Len(r) : r[i] = u) <=> u # t /\ \E i \in 1..Len(l) : l[i] = u
    BY <2>1, <2>4, <2>6, <2>8
  <2> QED  BY <2>2, <2>3, <2>7, <2>9
<1> QED  BY <1>1, <1>2

LEMMA RemoveKeeps ==
  ASSUME NEW S, NEW f, NEW now, Sound(S, f, now), NEW t \in Timer
  PROVE  LET R == _rt_timer_remove(S, t)
         IN  /\ Sound(R, f, now) /\ Others(S, R, t) /\ ~Linked(R, t)
             /\ R.timeout_tick = S.timeout_tick /\ R.activated = S.activated
<1> DEFINE R == _rt_timer_remove(S, t)
           r == Unlink(S.list, t)
<1>1. S \in Timers_t /\ S.list \in Seq(Timer) /\ SortedBy(S.list, f)
  BY DEF Sound, Timers_t
<1>2. /\ r \in Seq(Timer) /\ SortedBy(r, f)
      /\ \A u : (\E i \in 1..Len(r) : r[i] = u) <=> u # t /\ \E i \in 1..Len(S.list) : S.list[i] = u
  BY <1>1, TakenOut
<1> HIDE DEF r
<1>3. /\ R.list = r /\ R.timeout_tick = S.timeout_tick /\ R.activated = S.activated
      /\ R.init_tick = S.init_tick /\ R.periodic = S.periodic /\ R \in Timers_t
  BY <1>1, <1>2 DEF _rt_timer_remove, r, Timers_t
<1> HIDE DEF R
<1>4. \A u : Linked(R, u) <=> u # t /\ Linked(S, u)
  BY <1>2, <1>3 DEF Linked
<1>5. Sound(R, f, now)
  BY <1>2, <1>3, <1>4 DEF Sound, SetFor
<1>6. Others(S, R, t)
  BY <1>3, <1>4 DEF Others
<1> QED  BY <1>3, <1>4, <1>5, <1>6 DEF R

(* The flag of a timer that is not listed may be written as one likes.     *)
LEMMA MarkKeeps ==
  ASSUME NEW S, NEW f, NEW now, Sound(S, f, now), NEW t \in Timer, NEW on \in BOOLEAN,
         ~Linked(S, t) \/ on
  PROVE  LET R == SetActivated(S, t, on)
         IN  /\ Sound(R, f, now) /\ Others(S, R, t) /\ (Linked(R, t) <=> Linked(S, t))
             /\ R.timeout_tick = S.timeout_tick /\ R.activated = [S.activated EXCEPT ![t] = on]
<1> DEFINE R == SetActivated(S, t, on)
<1>1. /\ R.list = S.list /\ R.timeout_tick = S.timeout_tick
      /\ R.activated = [S.activated EXCEPT ![t] = on]
      /\ R.init_tick = S.init_tick /\ R.periodic = S.periodic /\ R \in Timers_t
  BY DEF Sound, Timers_t, SetActivated
<1>2. S.activated \in [Timer -> BOOLEAN]
  BY DEF Sound, Timers_t
<1> HIDE DEF R
<1>3. \A u : Linked(R, u) <=> Linked(S, u)
  BY <1>1 DEF Linked
<1>4. \A u \in Timer : Linked(R, u) => R.activated[u]
  BY <1>1, <1>2, <1>3 DEF Sound
<1>5. Sound(R, f, now)
  BY <1>1, <1>3, <1>4 DEF Sound, SetFor
<1>6. Others(S, R, t)
  BY <1>1, <1>2, <1>3 DEF Others
<1> QED  BY <1>1, <1>3, <1>5, <1>6 DEF R

(* The loop of rt_timer_start finds a place: past the end, if nowhere else.*)
LEMMA PlaceFound ==
  ASSUME NEW S, NEW t, S.list \in Seq(Timer)
  PROVE  /\ Place(S, t) \in 1..Len(S.list) + 1
         /\ \A i \in 1..Place(S, t) - 1 : Earlier(S, S.list[i], t)
         /\ Place(S, t) <= Len(S.list) => ~Earlier(S, S.list[Place(S, t)], t)
<1> DEFINE n == Len(S.list)
           later == {p \in 1..n + 1 : p <= n => ~Earlier(S, S.list[p], t)}
           R == OpToRel(<, Nat)
<1>1. n \in Nat
  OBVIOUS
<1>2. n + 1 \in later /\ later \subseteq Nat
  BY <1>1
<1>3. PICK p \in later : \A q \in later : ~(<<q, p>> \in R)
  <2>1. IsWellFoundedOn(R, Nat)
    BY NatLessThanWellFounded
  <2> HIDE DEF R, later
  <2> QED  BY <1>2, <2>1, WFMin
<1>4. \A q \in later : p <= q
  <2> SUFFICES ASSUME NEW q \in later  PROVE p <= q
    OBVIOUS
  <2>1. p \in Nat /\ q \in Nat /\ (q < p => <<q, p>> \in R)
    BY <1>2 DEF OpToRel
  <2> HIDE DEF R, later
  <2> QED  BY <1>3, <2>1
<1>5. \A i \in 1..p - 1 : Earlier(S, S.list[i], t)
  <2> SUFFICES ASSUME NEW i \in 1..p - 1, ~Earlier(S, S.list[i], t)  PROVE FALSE
    OBVIOUS
  <2>1. i \in 1..n + 1 /\ i < p
    BY <1>1
  <2> QED  BY <1>4, <2>1
<1>6. p \in 1..n + 1 /\ (p <= n => ~Earlier(S, S.list[p], t))
  OBVIOUS
<1> QED  BY <1>5, <1>6 DEF Place

Fits(l, f, p, t) ==
  /\ p \in 1..Len(l) + 1
  /\ f[t] \in Int /\ \A i \in 1..Len(l) : f[l[i]] \in Int /\ l[i] # t
  /\ \A i \in 1..p - 1 : f[l[i]] <= f[t]
  /\ p <= Len(l) => f[l[p]] > f[t]

Adds(r, l, t) ==
  \A u : (\E i \in 1..Len(r) : r[i] = u) <=> u = t \/ \E i \in 1..Len(l) : l[i] = u

LEMMA PutInOrder ==
  ASSUME NEW l \in Seq(Timer), NEW f, SortedBy(l, f), NEW t \in Timer,
         NEW p, Fits(l, f, p, t)
  PROVE  /\ Put(l, p, t) \in Seq(Timer) /\ SortedBy(Put(l, p, t), f)
         /\ Adds(Put(l, p, t), l, t)
<1> DEFINE r == Put(l, p, t)
           o(i) == IF i < p THEN i ELSE i - 1
<1> USE DEF Fits
<1>1. /\ r \in Seq(Timer) /\ Len(r) = Len(l) + 1 /\ r[p] = t
      /\ \A i \in 1..p - 1 : r[i] = l[i]
      /\ \A i \in p..Len(l) : r[i + 1] = l[i]
  BY PutList
<1> HIDE DEF r
<1>2. \A i \in 1..Len(r) \ {p} : o(i) \in 1..Len(l) /\ r[i] = l[o(i)]
  <2> SUFFICES ASSUME NEW i \in 1..Len(r) \ {p}
               PROVE  o(i) \in 1..Len(l) /\ r[i] = l[o(i)]
    OBVIOUS
  <2>1. CASE i < p
    BY <1>1, <2>1
  <2>2. CASE i > p
    <3>1. i - 1 \in p..Len(l) /\ (i - 1) + 1 = i /\ o(i) = i - 1
      BY <1>1, <2>2
    <3> QED  BY <1>1, <3>1
  <2> QED  BY <2>1, <2>2
<1>3. \A i, j \in 1..Len(r) \ {p} : i < j => o(i) < o(j)
  BY <1>1
<1>4. \A i \in 1..Len(l) : f[l[i]] <= f[t] <=> i < p
  <2> SUFFICES ASSUME NEW i \in 1..Len(l)  PROVE f[l[i]] <= f[t] <=> i < p
    OBVIOUS
  <2>1. CASE i < p
    BY <2>1
  <2>2. CASE i = p
    BY <2>2
  <2>3. CASE i > p
    <3>1. p \in 1..Len(l) /\ f[l[p]] <= f[l[i]]
      BY <2>3 DEF SortedBy
    <3> QED  BY <2>3, <3>1
  <2> QED  BY <2>1, <2>2, <2>3
<1>5. \A i \in 1..Len(r) \ {p} : o(i) < p <=> i < p
  BY <1>1
<1>6. \A j \in 1..Len(l) : \E i \in 1..Len(r) : r[i] = l[j]
  <2> SUFFICES ASSUME NEW j \in 1..Len(l)  PROVE \E i \in 1..Len(r) : r[i] = l[j]
    OBVIOUS
  <2>1. CASE j < p
    BY <1>1, <2>1
  <2>2. CASE j >= p
    <3>1. j + 1 \in 1..Len(r) /\ r[j + 1] = l[j]
      BY <1>1, <2>2
    <3> QED  BY <3>1
  <2> QED  BY <2>1, <2>2
<1>7. p \in 1..Len(r)
  BY <1>1
<1> HIDE DEF o
<1>8. ASSUME NEW i \in 1..Len(r), NEW j \in 1..Len(r), i < j
      PROVE  r[i] # r[j] /\ f[r[i]] <= f[r[j]]
  <2>1. CASE i = p
    BY <1>1, <1>2, <1>4, <1>5, <1>8, <2>1
  <2>2. CASE j = p
    BY <1>1, <1>2, <1>4, <1>5, <1>8, <2>2
  <2>3. CASE i # p /\ j # p
    BY <1>2, <1>3, <1>8, <2>3 DEF SortedBy
  <2> QED  BY <2>1, <2>2, <2>3
<1>9. SortedBy(r, f)
  BY <1>8 DEF SortedBy
<1>10. Adds(r, l, t)
  BY <1>1, <1>2, <1>6, <1>7 DEF Adds
<1> QED  BY <1>1, <1>9, <1>10 DEF r

LEMMA InsertKeeps ==
  ASSUME NEW S, NEW f, NEW now \in Tick_t, Sound(S, f, now), NEW t \in Timer,
         ~Linked(S, t), SetFor(S, t, f, now), Near(f[t]), f[t] >= -MaxLate
  PROVE  LET R == StartInsert(S, t)
         IN  /\ Sound(R, f, now) /\ Others(S, R, t) /\ Linked(R, t)
             /\ R.timeout_tick = S.timeout_tick
<1> DEFINE R == StartInsert(S, t)
           l == S.list
           p == Place(S, t)
           r == Put(l, p, t)
<1>1. S \in Timers_t /\ l \in Seq(Timer) /\ SortedBy(l, f)
  BY DEF Sound, Timers_t
<1>2. /\ p \in 1..Len(l) + 1
      /\ \A i \in 1..p - 1 : Earlier(S, l[i], t)
      /\ p <= Len(l) => ~Earlier(S, l[p], t)
  BY <1>1, PlaceFound
<1> HIDE DEF p
<1>3. \A i \in 1..Len(l) : l[i] \in Timer /\ Linked(S, l[i]) /\ l[i] # t
  BY <1>1 DEF Linked
<1>4. \A i \in 1..Len(l) : Near(f[l[i]]) /\ (Earlier(S, l[i], t) <=> f[l[i]] <= f[t])
  <2> SUFFICES ASSUME NEW i \in 1..Len(l)
               PROVE  Near(f[l[i]]) /\ (Earlier(S, l[i], t) <=> f[l[i]] <= f[t])
    OBVIOUS
  <2>1. Near(f[l[i]]) /\ SetFor(S, l[i], f, now)
    BY <1>3 DEF Sound
  <2> QED  BY <2>1, TellsApart DEF Earlier, SetFor
<1>5. \A i \in 1..Len(l) : f[l[i]] \in Int /\ l[i] # t
  BY <1>3, <1>4 DEF Near
<1>6. f[t] \in Int
  BY DEF Near
<1>7. (\A i \in 1..p - 1 : f[l[i]] <= f[t]) /\ (p <= Len(l) => f[l[p]] > f[t])
  <2>1. \A i \in 1..p - 1 : i \in 1..Len(l)
    BY <1>1, <1>2
  <2>2. p <= Len(l) => p \in 1..Len(l)
    BY <1>1, <1>2
  <2> QED  BY <1>2, <1>4, <1>5, <1>6, <2>1, <2>2
<1>8. r \in Seq(Timer) /\ SortedBy(r, f) /\ Adds(r, l, t)
  <2>1. Fits(l, f, p, t)
    BY <1>2, <1>5, <1>6, <1>7 DEF Fits
  <2> QED  BY <1>1, <2>1, PutInOrder
<1> HIDE DEF r
<1>9. /\ R.list = r /\ R.timeout_tick = S.timeout_tick
      /\ R.activated = [S.activated EXCEPT ![t] = TRUE]
      /\ R.init_tick = S.init_tick /\ R.periodic = S.periodic /\ R \in Timers_t
  <2>1. R = SetActivated([S EXCEPT !.list = r], t, TRUE)
    BY DEF StartInsert, r, p, Put
  <2> HIDE DEF R, l
  <2> QED  BY <1>1, <1>8, <2>1 DEF SetActivated, Timers_t
<1>10. S.activated \in [Timer -> BOOLEAN]
  BY <1>1 DEF Timers_t
<1> HIDE DEF R, l
<1>11. \A u : Linked(R, u) <=> u = t \/ Linked(S, u)
  BY <1>8, <1>9 DEF Linked, l, Adds
<1>12. \A u \in Timer : Linked(R, u) => R.activated[u] /\ SetFor(R, u, f, now) /\ Near(f[u])
  BY <1>9, <1>10, <1>11 DEF Sound, SetFor
<1>13. Sound(R, f, now)
  BY <1>8, <1>9, <1>12 DEF Sound
<1>14. Others(S, R, t)
  BY <1>9, <1>10, <1>11 DEF Others
<1> QED  BY <1>9, <1>11, <1>13, <1>14 DEF R

(* Only when the listed timers are to fire matters.                        *)
LEMMA Refits ==
  ASSUME NEW S, NEW f, NEW now, Sound(S, f, now), NEW g,
         \A t \in Timer : Linked(S, t) => g[t] = f[t]
  PROVE  Sound(S, g, now)
<1>1. \A i \in 1..Len(S.list) : S.list[i] \in Timer /\ g[S.list[i]] = f[S.list[i]]
  <2>1. S.list \in Seq(Timer)
    BY DEF Sound, Timers_t
  <2> QED  BY <2>1 DEF Linked
<1>2. SortedBy(S.list, g)
  BY <1>1 DEF Sound, SortedBy
<1> QED  BY <1>2 DEF Sound, SetFor

LEMMA Computes ==
  ASSUME NEW S, NEW f, NEW now \in Tick_t, Sound(S, f, now), NEW t \in Timer, ~Linked(S, t)
  PROVE  LET R == StartCompute(S, t, now)
         IN  /\ Sound(R, f, now) /\ Others(S, R, t) /\ ~Linked(R, t)
             /\ R.timeout_tick[t] = (now + S.init_tick[t]) % Ticks
             /\ Near(S.init_tick[t]) /\ S.init_tick[t] \in 0..Half - 1
<1> DEFINE R == StartCompute(S, t, now)
           n == S.init_tick[t]
           e == (now + n) % Ticks
<1>1. S \in Timers_t /\ S.timeout_tick \in [Timer -> Tick_t]
  BY DEF Sound, Timers_t
<1>2. n \in Times /\ n \in 0..Half - 1 /\ n + MaxLate < Half
  BY <1>1, TimersAssumption DEF Timers_t
<1>3. Near(n)
  BY <1>2, Halves DEF Near
<1>4. e \in Tick_t
  <2>1. now + n \in Int /\ -Ticks <= now + n /\ now + n < 2 * Ticks
    BY <1>2, Halves DEF Tick_t, RT_TICK_MAX
  <2> QED  BY <2>1, WrapsIn
<1> HIDE DEF e
<1>5. R = [S EXCEPT !.timeout_tick[t] = e]
  BY DEF StartCompute, e
<1> HIDE DEF R
<1>6. /\ R.list = S.list /\ R.timeout_tick = [S.timeout_tick EXCEPT ![t] = e]
      /\ R.activated = S.activated
      /\ R.init_tick = S.init_tick /\ R.periodic = S.periodic /\ R \in Timers_t
  BY <1>1, <1>4, <1>5 DEF Timers_t
<1>7. \A u : Linked(R, u) <=> Linked(S, u)
  BY <1>6 DEF Linked
<1>8. Sound(R, f, now)
  BY <1>1, <1>6, <1>7 DEF Sound, SetFor
<1>9. Others(S, R, t)
  BY <1>1, <1>6, <1>7 DEF Others
<1> QED  BY <1>1, <1>2, <1>3, <1>6, <1>7, <1>8, <1>9 DEF R, e

(* rt_timer_start lists the timer, to fire when its time has passed.       *)
LEMMA StartKeeps ==
  ASSUME NEW S, NEW f \in [Timer -> Int], NEW now \in Tick_t, Sound(S, f, now), NEW t \in Timer
  PROVE  LET R == rt_timer_start(S, t, now)
         IN  /\ Sound(R, [f EXCEPT ![t] = S.init_tick[t]], now) /\ Others(S, R, t)
             /\ Linked(R, t) /\ S.init_tick[t] \in 0..Half - 1
<1> DEFINE A == _rt_timer_remove(S, t)
           B == SetActivated(A, t, FALSE)
           C == StartCompute(B, t, now)
           R == StartInsert(C, t)
           g == [f EXCEPT ![t] = S.init_tick[t]]
<1>0. R = rt_timer_start(S, t, now)
  BY DEF rt_timer_start, StartRemove
<1>1. Sound(A, f, now) /\ Others(S, A, t) /\ ~Linked(A, t)
  BY RemoveKeeps
<1> HIDE DEF A
<1>2. Sound(B, f, now) /\ Others(A, B, t) /\ ~Linked(B, t)
  BY <1>1, MarkKeeps
<1> HIDE DEF B
<1>3. /\ Sound(C, f, now) /\ Others(B, C, t) /\ ~Linked(C, t)
      /\ C.timeout_tick[t] = (now + B.init_tick[t]) % Ticks
      /\ Near(B.init_tick[t]) /\ B.init_tick[t] \in 0..Half - 1
  BY <1>2, Computes
<1> HIDE DEF C
<1>4. B.init_tick[t] = S.init_tick[t]
  BY <1>1, <1>2 DEF Others
<1>5. g[t] = S.init_tick[t] /\ \A u \in Timer \ {t} : g[u] = f[u]
  OBVIOUS
<1> HIDE DEF g
<1>6. Sound(C, g, now)
  BY <1>3, <1>5, Refits
<1>7. SetFor(C, t, g, now) /\ Near(g[t]) /\ g[t] >= -MaxLate
  BY <1>3, <1>4, <1>5, Halves DEF SetFor
<1>8. Sound(R, g, now) /\ Others(C, R, t) /\ Linked(R, t)
  BY <1>3, <1>6, <1>7, InsertKeeps
<1> HIDE DEF R
<1>9. Others(S, R, t)
  BY <1>1, <1>2, <1>3, <1>8 DEF Others
<1> QED  BY <1>0, <1>3, <1>4, <1>8, <1>9 DEF g

(* rt_timer_stop takes out a timer that is listed, which is marked.        *)
LEMMA StopKeeps ==
  ASSUME NEW S, NEW f, NEW now, Sound(S, f, now), NEW t \in Timer
  PROVE  LET R == rt_timer_stop(S, t)
         IN  /\ Sound(R, f, now) /\ Others(S, R, t) /\ ~Linked(R, t) /\ ~R.activated[t]
             /\ R.timeout_tick = S.timeout_tick
<1> DEFINE R == rt_timer_stop(S, t)
           A == _rt_timer_remove(S, t)
<1>1. CASE ~S.activated[t]
  <2>1. R = S /\ ~Linked(S, t)
    BY <1>1 DEF rt_timer_stop, Sound
  <2> QED  BY <1>1, <2>1 DEF Others
<1>2. CASE S.activated[t]
  <2>1. R = SetActivated(A, t, FALSE)
    BY <1>2 DEF rt_timer_stop
  <2>2. /\ Sound(A, f, now) /\ Others(S, A, t) /\ ~Linked(A, t)
        /\ A.timeout_tick = S.timeout_tick
    BY RemoveKeeps
  <2> HIDE DEF A, R
  <2>3. A.activated \in [Timer -> BOOLEAN]
    BY <2>2 DEF Sound, Timers_t
  <2>4. /\ Sound(R, f, now) /\ Others(A, R, t) /\ ~Linked(R, t)
        /\ R.timeout_tick = A.timeout_tick /\ R.activated = [A.activated EXCEPT ![t] = FALSE]
    BY <2>1, <2>2, MarkKeeps
  <2>5. Others(S, R, t)
    BY <2>2, <2>4 DEF Others
  <2> QED  BY <2>2, <2>3, <2>4, <2>5 DEF R
<1> QED  BY <1>1, <1>2

(* What the tick does to the time-outs, and which of them are due.         *)
LEMMA NextTick ==
  ASSUME NEW now \in Tick_t, NEW x, Near(x)
  PROVE  (now + 1) % Ticks \in Tick_t /\ (now + x) % Ticks = (((now + 1) % Ticks) + (x - 1)) % Ticks
<1> DEFINE n == (now + 1) % Ticks
           a == now + x
           b == n + (x - 1)
<1>1. /\ Ticks \in Nat /\ Half \in Nat /\ MaxLate \in Nat /\ now \in Int /\ 0 <= now /\ now < Ticks
      /\ 2 * Half <= Ticks - 1 /\ MaxLate + 1 < Half
      /\ x \in Int /\ -MaxLate - 1 <= x /\ x < Half
  BY Halves DEF Tick_t, RT_TICK_MAX, Near
<1>2. n = IF now + 1 < Ticks THEN now + 1 ELSE 0
  <2> DEFINE m == now + 1
  <2>1. m \in Int /\ 0 <= m /\ m <= Ticks /\ -Ticks <= m /\ m < 2 * Ticks
    BY <1>1
  <2> HIDE DEF m
  <2>2. m % Ticks = IF m < 0 THEN m + Ticks ELSE IF m < Ticks THEN m ELSE m - Ticks
    BY <2>1, Wraps
  <2>3. m % Ticks = IF m < Ticks THEN m ELSE 0
    BY <1>1, <2>1, <2>2
  <2> QED  BY <2>3 DEF m
<1> HIDE DEF n
<1>3. /\ a \in Int /\ -Ticks <= a /\ a < 2 * Ticks
      /\ b \in Int /\ -Ticks <= b /\ b < 2 * Ticks /\ b \in {a, a - Ticks}
      /\ (b = a - Ticks => now + 1 = Ticks)
  BY <1>1, <1>2
<1> HIDE DEF a, b
<1>4. /\ a % Ticks = (IF a < 0 THEN a + Ticks ELSE IF a < Ticks THEN a ELSE a - Ticks)
      /\ b % Ticks = (IF b < 0 THEN b + Ticks ELSE IF b < Ticks THEN b ELSE b - Ticks)
  BY <1>3, Wraps
<1>5. CASE b = a
  BY <1>1, <1>2, <1>5 DEF n, a, b, Tick_t, RT_TICK_MAX
<1>6. CASE b = a - Ticks
  <2>1. a = Ticks - 1 + x /\ n = 0
    BY <1>1, <1>2, <1>3, <1>6 DEF a
  <2>2. a % Ticks = b % Ticks
    BY <1>1, <1>3, <1>4, <1>6, <2>1
  <2> QED  BY <1>1, <2>1, <2>2 DEF n, a, b, Tick_t, RT_TICK_MAX
<1> QED  BY <1>3, <1>5, <1>6

LEMMA DueNow ==
  ASSUME NEW S, NEW f, NEW now \in Tick_t, NEW t, SetFor(S, t, f, now), Near(f[t])
  PROVE  Due(S, t, now) <=> f[t] <= 0
<1> DEFINE x == f[t]
           a == now + x
           e == now - (a % Ticks)
           d == e % Ticks
<1>1. /\ Ticks \in Nat /\ Half \in Nat /\ MaxLate \in Nat /\ now \in Int /\ 0 <= now /\ now < Ticks
      /\ 2 * Half <= Ticks - 1 /\ MaxLate + 1 < Half
      /\ x \in Int /\ -MaxLate - 1 <= x /\ x < Half
  BY Halves DEF Tick_t, RT_TICK_MAX, Near
<1>2. Due(S, t, now) <=> d < Half
  BY DEF Due, Minus, SetFor
<1> HIDE DEF x
<1>3. a \in Int /\ -Ticks <= a /\ a < 2 * Ticks /\ a - now = x
  BY <1>1
<1> HIDE DEF a
<1>4. a % Ticks = (IF a < 0 THEN a + Ticks ELSE IF a < Ticks THEN a ELSE a - Ticks)
  BY <1>3, Wraps
<1>5. e \in Int /\ -Ticks < e /\ e < Ticks /\ e \in {-x, -x + Ticks, -x - Ticks}
  BY <1>1, <1>3, <1>4
<1> HIDE DEF e
<1>6. d = IF e < 0 THEN e + Ticks ELSE e
  BY <1>1, <1>5, Wraps
<1> HIDE DEF d
<1>7. d < Half <=> x <= 0
  BY <1>1, <1>5, <1>6
<1> QED  BY <1>2, <1>7 DEF x

LEMMA TickMoves ==
  ASSUME NEW S, NEW f, NEW now \in Tick_t, Sound(S, f, now), NEW g,
         \A t \in Timer : Linked(S, t) => g[t] = f[t] - 1 /\ f[t] >= -MaxLate
  PROVE  Sound(S, g, (now + 1) % Ticks)
<1>1. \A t \in Timer : Linked(S, t) =>
        SetFor(S, t, g, (now + 1) % Ticks) /\ Near(g[t]) /\ Near(f[t])
  <2> SUFFICES ASSUME NEW t \in Timer, Linked(S, t)
               PROVE  SetFor(S, t, g, (now + 1) % Ticks) /\ Near(g[t]) /\ Near(f[t])
    OBVIOUS
  <2>1. SetFor(S, t, f, now) /\ Near(f[t]) /\ g[t] = f[t] - 1 /\ f[t] >= -MaxLate
    BY DEF Sound
  <2>2. Near(g[t])
    BY <2>1, Halves DEF Near
  <2>3. (now + f[t]) % Ticks = (((now + 1) % Ticks) + (f[t] - 1)) % Ticks
    BY <2>1, NextTick
  <2> QED  BY <2>1, <2>2, <2>3 DEF SetFor
<1>2. \A i \in 1..Len(S.list) : S.list[i] \in Timer /\ Linked(S, S.list[i])
  <2>1. S.list \in Seq(Timer)
    BY DEF Sound, Timers_t
  <2> QED  BY <2>1 DEF Linked
<1>3. \A i \in 1..Len(S.list) : f[S.list[i]] \in Int /\ g[S.list[i]] = f[S.list[i]] - 1
  BY <1>1, <1>2 DEF Near
<1>4. SortedBy(S.list, g)
  BY <1>3 DEF Sound, SortedBy
<1> QED  BY <1>1, <1>4 DEF Sound

(* Of the listed timers the first is due first.                            *)
LEMMA HeadFirst ==
  ASSUME NEW S, NEW f, NEW now, Sound(S, f, now), NEW t \in Timer, Linked(S, t)
  PROVE  S.list # <<>> /\ S.list[1] \in Timer /\ Linked(S, S.list[1]) /\ f[S.list[1]] <= f[t]
<1>1. S.list \in Seq(Timer)
  BY DEF Sound, Timers_t
<1>2. PICK i \in 1..Len(S.list) : S.list[i] = t
  BY DEF Linked
<1>3. 1 \in 1..Len(S.list) /\ S.list # <<>>
  BY <1>1, <1>2
<1>4. S.list[1] \in Timer /\ Linked(S, S.list[1])
  BY <1>1, <1>3 DEF Linked
<1>5. Near(f[t])
  BY DEF Sound
<1>6. f[S.list[1]] <= f[t]
  BY <1>2, <1>3, <1>5 DEF Sound, SortedBy, Near
<1> QED  BY <1>3, <1>4, <1>6
-----------------------------------------------------------------------------
LEMMA AtInit == Init => IInv
<1> SUFFICES ASSUME Init  PROVE IInv
  OBVIOUS
<1>1. PICK per \in [Timer -> BOOLEAN], init \in [Timer -> Times] :
        /\ \A t \in Timer : per[t] => init[t] > 0
        /\ timers = [list |-> <<>>, timeout_tick |-> [t \in Timer |-> 0],
                     init_tick |-> init, periodic |-> per,
                     activated |-> [t \in Timer |-> FALSE]]
  BY DEF Init
<1>2. 0 \in Tick_t /\ 0 \in -MaxLate - 1..Half
  BY Halves DEF Tick_t, RT_TICK_MAX
<1>3. timers.list = <<>> /\ timers \in Timers_t /\ \A t \in Timer : ~Linked(timers, t)
  BY <1>1, <1>2 DEF Timers_t, Linked
<1>4. Sound(timers, left, rt_tick)
  BY <1>3 DEF Sound, SortedBy
<1>5. PeriodsPositive(timers)
  BY <1>1 DEF PeriodsPositive
<1>6. Rest_t
  BY <1>2 DEF Init, NoCall, Rest_t, Functions
<1>7. CallOK /\ InTime
  BY <1>3 DEF Init, NoCall, CallOK, InTime, None
<1> QED  BY <1>4, <1>5, <1>6, <1>7 DEF IInv

LEMMA NothingStarts == 0 \in -MaxLate - 1..Half /\ 0..Half - 1 \subseteq -MaxLate - 1..Half
                       /\ -MaxLate <= 0
BY Halves

(* The steps of a thread, one function at a time.                          *)
LEMMA StartStep ==
  ASSUME IInv, NEW t \in Own, Start(t)
  PROVE  IInv'
<1> DEFINE A == _rt_timer_remove(timers, t)
           B == SetActivated(A, t, FALSE)
<1>1. /\ isr = "idle" /\ timers' = B /\ api' = [fn |-> "start", t |-> t, flag |-> FALSE]
      /\ stopped' = stopped \ {t} /\ left' = [left EXCEPT ![t] = 0]
      /\ UNCHANGED <<rt_tick, isr, fired>>
  BY DEF Start, InCall, ThreadRuns, StartRemove, Calls
<1>2. t \in Timer /\ Sound(timers, left, rt_tick)
  BY DEF IInv, Timer
<1>3. Sound(A, left, rt_tick) /\ Others(timers, A, t) /\ ~Linked(A, t)
  BY <1>2, RemoveKeeps
<1> HIDE DEF A
<1>4. Sound(B, left, rt_tick) /\ Others(A, B, t) /\ ~Linked(B, t)
  BY <1>2, <1>3, MarkKeeps
<1> HIDE DEF B
<1>5. left' \in [Timer -> -MaxLate - 1..Half] /\ \A u \in Timer \ {t} : left'[u] = left[u]
  BY <1>1, NothingStarts DEF IInv, Rest_t
<1>6. Sound(B, left', rt_tick)
  BY <1>4, <1>5, Refits
<1>7. /\ B.init_tick = timers.init_tick /\ B.periodic = timers.periodic
      /\ \A u \in Timer : Linked(B, u) => u # t /\ Linked(timers, u)
  BY <1>3, <1>4 DEF Others
<1>8. PeriodsPositive(B)
  BY <1>7 DEF PeriodsPositive, IInv
<1>9. Rest_t'
  BY <1>1, <1>2, <1>5 DEF IInv, Rest_t, Functions
<1>10. CallOK'
  BY <1>1, <1>4 DEF CallOK
<1>11. InTime'
  BY <1>1, <1>5, <1>7 DEF IInv, InTime
<1> QED  BY <1>1, <1>6, <1>8, <1>9, <1>10, <1>11 DEF IInv

LEMMA ComputeStep ==
  ASSUME IInv, Compute
  PROVE  IInv'
<1> DEFINE t == api.t
           B == StartCompute(timers, t, rt_tick)
<1>1. /\ isr = "idle" /\ api.fn = "start" /\ timers' = B
      /\ api' = [fn |-> "insert", t |-> t, flag |-> FALSE]
      /\ left' = [left EXCEPT ![t] = timers.init_tick[t]]
      /\ UNCHANGED <<rt_tick, isr, fired, stopped>>
  BY DEF Compute, InCall, ThreadRuns, Calls
<1>2. /\ t \in Own /\ t \in Timer /\ Sound(timers, left, rt_tick) /\ rt_tick \in Tick_t
      /\ ~Linked(timers, t) /\ t \notin stopped
  BY <1>1 DEF IInv, Timer, CallOK, Rest_t, None
<1> HIDE DEF t
<1>3. /\ Sound(B, left, rt_tick) /\ Others(timers, B, t) /\ ~Linked(B, t)
      /\ B.timeout_tick[t] = (rt_tick + timers.init_tick[t]) % Ticks
      /\ Near(timers.init_tick[t]) /\ timers.init_tick[t] \in 0..Half - 1
  BY <1>2, Computes
<1> HIDE DEF B
<1>4. /\ left' \in [Timer -> -MaxLate - 1..Half] /\ \A u \in Timer \ {t} : left'[u] = left[u]
      /\ left'[t] = timers.init_tick[t]
  BY <1>1, <1>2, <1>3, NothingStarts DEF IInv, Rest_t
<1>5. Sound(B, left', rt_tick)
  BY <1>3, <1>4, Refits
<1>6. /\ B.init_tick = timers.init_tick /\ B.periodic = timers.periodic
      /\ \A u \in Timer : Linked(B, u) => u # t /\ Linked(timers, u)
  BY <1>3 DEF Others
<1>7. PeriodsPositive(B)
  BY <1>6 DEF PeriodsPositive, IInv
<1>8. Rest_t'
  BY <1>1, <1>2, <1>4 DEF IInv, Rest_t, Functions
<1>9. -MaxLate <= left'[t]
  BY <1>3, <1>4, Halves
<1>10. CallOK'
  BY <1>1, <1>2, <1>3, <1>4, <1>9 DEF CallOK, SetFor
<1>11. InTime'
  BY <1>1, <1>4, <1>6 DEF IInv, InTime
<1> QED  BY <1>1, <1>5, <1>7, <1>8, <1>10, <1>11 DEF IInv

LEMMA InsertStep ==
  ASSUME IInv, Insert
  PROVE  IInv'
<1> DEFINE t == api.t
           B == StartInsert(timers, t)
<1>1. /\ isr = "idle" /\ api.fn = "insert" /\ timers' = B
      /\ api' = NoCall /\ UNCHANGED <<rt_tick, isr, fired, left, stopped>>
  BY DEF Insert, InCall, ThreadRuns
<1>2. /\ t \in Timer /\ Sound(timers, left, rt_tick) /\ rt_tick \in Tick_t
      /\ ~Linked(timers, t) /\ t \notin stopped
      /\ SetFor(timers, t, left, rt_tick) /\ Near(left[t]) /\ -MaxLate <= left[t]
  BY <1>1 DEF IInv, Timer, CallOK, Rest_t, None
<1> HIDE DEF t
<1>3. left[t] >= -MaxLate
  BY <1>2, Halves DEF Near
<1>4. Sound(B, left, rt_tick) /\ Others(timers, B, t) /\ Linked(B, t)
  BY <1>2, <1>3, InsertKeeps
<1> HIDE DEF B
<1>5. /\ B.init_tick = timers.init_tick /\ B.periodic = timers.periodic
      /\ \A u \in Timer : Linked(B, u) => u = t \/ Linked(timers, u)
  BY <1>4 DEF Others
<1>6. PeriodsPositive(B)
  BY <1>5 DEF PeriodsPositive, IInv
<1>7. Rest_t'
  BY <1>1 DEF IInv, Rest_t, Functions, NoCall
<1>8. CallOK'
  BY <1>1 DEF CallOK, NoCall, None
<1>9. InTime'
  BY <1>1, <1>2, <1>3, <1>5 DEF IInv, InTime
<1> QED  BY <1>1, <1>4, <1>6, <1>7, <1>8, <1>9 DEF IInv

LEMMA StopOrControlStep ==
  ASSUME IInv, NEW t \in Own, Stop(t) \/ Control(t)
  PROVE  IInv'
<1>1. /\ \/ api' = [fn |-> "stop", t |-> t, flag |-> FALSE]
         \/ timers.init_tick[t] > 0 /\ api' = [fn |-> "control", t |-> t, flag |-> timers.activated[t]]
      /\ UNCHANGED <<rt_tick, timers, isr, fired, left, stopped>>
  BY DEF Stop, Control, InCall, ThreadRuns, Calls
<1>2. t \in Timer /\ timers.activated[t] \in BOOLEAN /\ (Linked(timers, t) => timers.activated[t])
  BY DEF IInv, Timer, Sound, Timers_t
<1>3. api' \in [fn : Functions, t : Timer \cup {None}, flag : BOOLEAN]
  <2>1. CASE api' = [fn |-> "stop", t |-> t, flag |-> FALSE]
    BY <1>2, <2>1 DEF Functions
  <2>2. CASE api' = [fn |-> "control", t |-> t, flag |-> timers.activated[t]]
    BY <1>2, <2>2 DEF Functions
  <2> QED  BY <1>1, <2>1, <2>2
<1>4. Rest_t'
  BY <1>1, <1>3 DEF IInv, Rest_t
<1>5. CallOK'
  BY <1>1, <1>2 DEF CallOK
<1> QED  BY <1>1, <1>4, <1>5 DEF IInv, InTime

LEMMA RemoveStep ==
  ASSUME IInv, Remove
  PROVE  IInv'
<1> DEFINE t == api.t
           B == _rt_timer_remove(timers, t)
<1>1. /\ isr = "idle" /\ api.fn = "stop" /\ timers' = B
      /\ api' = [fn |-> "clear", t |-> t, flag |-> FALSE]
      /\ left' = [left EXCEPT ![t] = 0]
      /\ UNCHANGED <<rt_tick, isr, fired, stopped>>
  BY DEF Remove, InCall, ThreadRuns, Calls
<1>2. t \in Own /\ t \in Timer /\ Sound(timers, left, rt_tick)
  BY <1>1 DEF IInv, Timer, CallOK, None
<1> HIDE DEF t
<1>3. Sound(B, left, rt_tick) /\ Others(timers, B, t) /\ ~Linked(B, t)
  BY <1>2, RemoveKeeps
<1> HIDE DEF B
<1>4. left' \in [Timer -> -MaxLate - 1..Half] /\ \A u \in Timer \ {t} : left'[u] = left[u]
  BY <1>1, NothingStarts DEF IInv, Rest_t
<1>5. Sound(B, left', rt_tick)
  BY <1>3, <1>4, Refits
<1>6. /\ B.init_tick = timers.init_tick /\ B.periodic = timers.periodic
      /\ \A u \in Timer : Linked(B, u) => u # t /\ Linked(timers, u)
  BY <1>3 DEF Others
<1>7. PeriodsPositive(B)
  BY <1>6 DEF PeriodsPositive, IInv
<1>8. Rest_t'
  BY <1>1, <1>2, <1>4 DEF IInv, Rest_t, Functions
<1>9. CallOK'
  BY <1>1, <1>2, <1>3 DEF CallOK
<1>10. InTime'
  BY <1>1, <1>4, <1>6 DEF IInv, InTime
<1> QED  BY <1>1, <1>5, <1>7, <1>8, <1>9, <1>10 DEF IInv

LEMMA ClearStep ==
  ASSUME IInv, Clear
  PROVE  IInv'
<1> DEFINE t == api.t
           B == SetActivated(timers, t, FALSE)
<1>1. /\ isr = "idle" /\ api.fn = "clear" /\ timers' = B /\ api' = NoCall
      /\ stopped' = stopped \cup {t} /\ UNCHANGED <<rt_tick, isr, fired, left>>
  BY DEF Clear, InCall, ThreadRuns
<1>2. t \in Timer /\ ~Linked(timers, t) /\ Sound(timers, left, rt_tick)
  BY <1>1 DEF IInv, Timer, CallOK, None
<1> HIDE DEF t
<1>3. Sound(B, left, rt_tick) /\ Others(timers, B, t) /\ ~Linked(B, t)
  BY <1>2, MarkKeeps
<1> HIDE DEF B
<1>4. /\ B.init_tick = timers.init_tick /\ B.periodic = timers.periodic
      /\ \A u \in Timer : Linked(B, u) => u # t /\ Linked(timers, u)
  BY <1>3 DEF Others
<1>5. PeriodsPositive(B)
  BY <1>4 DEF PeriodsPositive, IInv
<1>6. Rest_t'
  BY <1>1, <1>2 DEF IInv, Rest_t, Functions, NoCall
<1>7. CallOK'
  BY <1>1 DEF CallOK, NoCall, None
<1>8. InTime'
  BY <1>1, <1>4 DEF IInv, InTime
<1> QED  BY <1>1, <1>3, <1>5, <1>6, <1>7, <1>8 DEF IInv

LEMMA SetTimeStep ==
  ASSUME IInv, NEW t \in Own, NEW n \in Times, SetTime(t, n)
  PROVE  IInv'
<1>1. /\ isr = "idle" /\ api.fn = None /\ n \in Periods(timers, t)
      /\ timers' = [timers EXCEPT !.init_tick[t] = n]
      /\ UNCHANGED <<rt_tick, api, isr, fired, left, stopped>>
  BY DEF SetTime, InCall, ThreadRuns
<1>2. t \in Timer /\ Sound(timers, left, rt_tick) /\ timers \in Timers_t
  BY DEF IInv, Timer, Sound
<1>3. /\ timers' \in Timers_t /\ timers'.list = timers.list
      /\ timers'.timeout_tick = timers.timeout_tick /\ timers'.activated = timers.activated
      /\ timers'.periodic = timers.periodic
      /\ timers'.init_tick = [timers.init_tick EXCEPT ![t] = n]
  BY <1>1, <1>2 DEF Timers_t
<1>4. \A u : Linked(timers', u) <=> Linked(timers, u)
  BY <1>3 DEF Linked
<1>5. Sound(timers', left, rt_tick)
  BY <1>2, <1>3, <1>4 DEF Sound, SetFor
<1>6. n \in Times /\ (timers.periodic[t] => n > 0)
  <2>1. Times \subseteq Nat
    BY TimersAssumption
  <2> QED  BY <1>1, <2>1 DEF Periods
<1>7. PeriodsPositive(timers')
  BY <1>2, <1>3, <1>6 DEF PeriodsPositive, IInv, Timers_t
<1>8. Rest_t'
  BY <1>1 DEF IInv, Rest_t
<1>9. CallOK'
  BY <1>1 DEF CallOK, None
<1>10. InTime'
  BY <1>1, <1>4 DEF IInv, InTime
<1> QED  BY <1>1, <1>5, <1>7, <1>8, <1>9, <1>10 DEF IInv

LEMMA WriteBackStep ==
  ASSUME IInv, NEW p \in BOOLEAN, WriteBack(p)
  PROVE  IInv'
<1> DEFINE t == api.t
           A == [timers EXCEPT !.periodic[t] = p]
           B == SetActivated(A, t, api.flag)
<1>1. /\ isr = "idle" /\ api.fn = "control" /\ timers' = B /\ api' = NoCall
      /\ UNCHANGED <<rt_tick, isr, fired, left, stopped>>
  BY DEF WriteBack, InCall, ThreadRuns, SetActivated
<1>2. /\ t \in Timer /\ timers.init_tick[t] > 0 /\ (Linked(timers, t) => api.flag)
      /\ api.flag \in BOOLEAN /\ Sound(timers, left, rt_tick) /\ timers \in Timers_t
  BY <1>1 DEF IInv, Timer, CallOK, None, Rest_t, Sound
<1> HIDE DEF t
<1>3. /\ A \in Timers_t /\ A.list = timers.list
      /\ A.timeout_tick = timers.timeout_tick /\ A.activated = timers.activated
      /\ A.periodic = [timers.periodic EXCEPT ![t] = p]
      /\ A.init_tick = timers.init_tick
  BY <1>1, <1>2 DEF Timers_t
<1> HIDE DEF A
<1>4. \A u : Linked(A, u) <=> Linked(timers, u)
  BY <1>3 DEF Linked
<1>5. Sound(A, left, rt_tick)
  BY <1>2, <1>3, <1>4 DEF Sound, SetFor
<1>6. /\ Sound(B, left, rt_tick) /\ Others(A, B, t) /\ (Linked(B, t) <=> Linked(A, t))
  BY <1>2, <1>4, <1>5, MarkKeeps
<1> HIDE DEF B
<1>7. PeriodsPositive(B)
  BY <1>2, <1>3, <1>6 DEF Others, PeriodsPositive, IInv, Timers_t
<1>8. \A u \in Timer : Linked(B, u) => Linked(timers, u)
  BY <1>4, <1>6 DEF Others
<1>9. Rest_t'
  BY <1>1 DEF IInv, Rest_t, NoCall, Functions
<1>10. CallOK'
  BY <1>1 DEF CallOK, NoCall, None
<1>11. InTime'
  BY <1>1, <1>8 DEF IInv, InTime
<1> QED  BY <1>1, <1>6, <1>7, <1>9, <1>10, <1>11 DEF IInv

LEMMA StartLockedStep ==
  ASSUME IInv, NEW t \in Shared, NEW n \in Times, StartLocked(t, n)
  PROVE  IInv'
<1> DEFINE A == [timers EXCEPT !.init_tick[t] = n]
           B == rt_timer_start(A, t, rt_tick)
<1>1. /\ isr = "idle" /\ api.fn = None /\ n \in Periods(timers, t)
      /\ timers' = B /\ left' = [left EXCEPT ![t] = n] /\ stopped' = stopped \ {t}
      /\ UNCHANGED <<rt_tick, api, isr, fired>>
  BY DEF StartLocked, InCall, ThreadRuns
<1>2. /\ t \in Timer /\ Sound(timers, left, rt_tick) /\ timers \in Timers_t /\ rt_tick \in Tick_t
      /\ left \in [Timer -> Int]
  <2>1. left \in [Timer -> -MaxLate - 1..Half]
    BY DEF IInv, Rest_t
  <2> QED  BY <2>1, Halves DEF IInv, Timer, Sound, Rest_t
<1>3. /\ A \in Timers_t /\ A.list = timers.list
      /\ A.timeout_tick = timers.timeout_tick /\ A.activated = timers.activated
      /\ A.periodic = timers.periodic
      /\ A.init_tick = [timers.init_tick EXCEPT ![t] = n]
  BY <1>1, <1>2 DEF Timers_t
<1> HIDE DEF A
<1>4. \A u : Linked(A, u) <=> Linked(timers, u)
  BY <1>3 DEF Linked
<1>5. Sound(A, left, rt_tick)
  BY <1>2, <1>3, <1>4 DEF Sound, SetFor
<1>6. A.init_tick[t] = n
  BY <1>2, <1>3 DEF Timers_t
<1>7. /\ Sound(B, left', rt_tick) /\ Others(A, B, t) /\ n \in 0..Half - 1
  <2>1. /\ Sound(B, [left EXCEPT ![t] = A.init_tick[t]], rt_tick) /\ Others(A, B, t)
        /\ A.init_tick[t] \in 0..Half - 1
    BY <1>2, <1>5, StartKeeps
  <2> QED  BY <1>1, <1>6, <2>1
<1> HIDE DEF B
<1>8. timers.periodic[t] => n > 0
  <2>1. Times \subseteq Nat
    BY TimersAssumption
  <2> QED  BY <1>1, <2>1 DEF Periods
<1>9. PeriodsPositive(B)
  BY <1>2, <1>3, <1>7, <1>8 DEF Others, PeriodsPositive, IInv, Timers_t
<1>10. \A u \in Timer : Linked(B, u) => u = t \/ Linked(timers, u)
  BY <1>4, <1>7 DEF Others
<1>11. /\ left' \in [Timer -> -MaxLate - 1..Half] /\ left'[t] = n /\ n >= -MaxLate
       /\ \A u \in Timer \ {t} : left'[u] = left[u]
  BY <1>1, <1>2, <1>7, NothingStarts, Halves DEF IInv, Rest_t
<1>12. Rest_t'
  BY <1>1, <1>11 DEF IInv, Rest_t
<1>13. CallOK'
  BY <1>1 DEF CallOK, None
<1>14. InTime'
  BY <1>1, <1>2, <1>10, <1>11 DEF IInv, InTime
<1> QED  BY <1>1, <1>7, <1>9, <1>12, <1>13, <1>14 DEF IInv

LEMMA StopLockedStep ==
  ASSUME IInv, NEW t \in Shared, StopLocked(t)
  PROVE  IInv'
<1> DEFINE B == rt_timer_stop(timers, t)
<1>1. /\ isr = "idle" /\ api.fn = None
      /\ timers' = B /\ left' = [left EXCEPT ![t] = 0]
      /\ (stopped' = stopped \cup {t} \/ stopped' = stopped)
      /\ UNCHANGED <<rt_tick, api, isr, fired>>
  BY DEF StopLocked, InCall, ThreadRuns
<1>2. t \in Timer /\ Sound(timers, left, rt_tick)
  BY DEF IInv, Timer
<1>3. Sound(B, left, rt_tick) /\ Others(timers, B, t) /\ ~Linked(B, t)
  BY <1>2, StopKeeps
<1> HIDE DEF B
<1>4. left' \in [Timer -> -MaxLate - 1..Half] /\ \A u \in Timer \ {t} : left'[u] = left[u]
  BY <1>1, NothingStarts DEF IInv, Rest_t
<1>5. Sound(B, left', rt_tick)
  BY <1>3, <1>4, Refits
<1>6. /\ B.init_tick = timers.init_tick /\ B.periodic = timers.periodic
      /\ \A u \in Timer : Linked(B, u) => u # t /\ Linked(timers, u)
  BY <1>3 DEF Others
<1>7. PeriodsPositive(B)
  BY <1>6 DEF PeriodsPositive, IInv
<1>8. Rest_t'
  BY <1>1, <1>2, <1>4 DEF IInv, Rest_t
<1>9. CallOK'
  BY <1>1 DEF CallOK, None
<1>10. InTime'
  BY <1>1, <1>4, <1>6 DEF IInv, InTime
<1> QED  BY <1>1, <1>5, <1>7, <1>8, <1>9, <1>10 DEF IInv

LEMMA ThreadStep ==
  ASSUME IInv, Thread
  PROVE  IInv'
BY StartStep, ComputeStep, InsertStep, StopOrControlStep, RemoveStep, ClearStep, SetTimeStep,
   WriteBackStep, StartLockedStep, StopLockedStep DEF Thread

(* The steps of the interrupt.                                             *)
LEMMA TickStep ==
  ASSUME IInv, Tick
  PROVE  IInv'
<1>1. /\ isr = "idle" /\ isr' = "check" /\ rt_tick' = (rt_tick + 1) % Ticks /\ fired' = {}
      /\ left' = [t \in Timer |-> IF Started(t) THEN left[t] - 1 ELSE 0]
      /\ UNCHANGED <<timers, api, stopped>>
      /\ \A t \in Timer : ~Overdue(t)
  BY DEF Tick
<1>2. Sound(timers, left, rt_tick) /\ rt_tick \in Tick_t
  BY DEF IInv, Rest_t
<1>3. \A t \in Timer : Linked(timers, t) =>
        left'[t] = left[t] - 1 /\ left[t] >= -MaxLate /\ Near(left[t])
  BY <1>1 DEF IInv, InTime, Sound, Started
<1>4. Sound(timers, left', rt_tick')
  BY <1>1, <1>2, <1>3, TickMoves
<1>5. api.fn = "insert" => /\ SetFor(timers, api.t, left', rt_tick') /\ Near(left'[api.t])
                           /\ -MaxLate <= left'[api.t] /\ left'[api.t] = left[api.t] - 1
  <2> SUFFICES ASSUME api.fn = "insert"
               PROVE  /\ SetFor(timers, api.t, left', rt_tick') /\ Near(left'[api.t])
                      /\ -MaxLate <= left'[api.t] /\ left'[api.t] = left[api.t] - 1
    OBVIOUS
  <2> DEFINE t == api.t
  <2>1. /\ t \in Timer /\ SetFor(timers, t, left, rt_tick)
        /\ Near(left[t]) /\ -MaxLate <= left[t]
    BY DEF IInv, CallOK, Timer, None
  <2>2. left'[t] = left[t] - 1 /\ left[t] # -MaxLate
    BY <1>1, <2>1 DEF Started, Overdue
  <2> HIDE DEF t
  <2>3. -MaxLate <= left'[t] /\ Near(left'[t])
    BY <2>1, <2>2, Halves DEF Near
  <2>4. (rt_tick + left[t]) % Ticks = (((rt_tick + 1) % Ticks) + (left[t] - 1)) % Ticks
    BY <1>2, <2>1, NextTick
  <2>5. SetFor(timers, t, left', rt_tick')
    BY <1>1, <2>1, <2>2, <2>4 DEF SetFor
  <2> QED  BY <2>2, <2>3, <2>5 DEF t
<1>6. rt_tick' \in Tick_t
  <2>1. Near(0)
    BY Halves DEF Near
  <2> QED  BY <1>1, <1>2, <2>1, NextTick
<1>7. left' \in [Timer -> -MaxLate - 1..Half]
  <2> SUFFICES ASSUME NEW t \in Timer
               PROVE  left'[t] \in -MaxLate - 1..Half
    BY <1>1
  <2>1. left[t] \in -MaxLate - 1..Half
    BY DEF IInv, Rest_t
  <2>2. CASE Linked(timers, t)
    BY <1>3, <2>1, <2>2, Halves
  <2>3. CASE api.fn = "insert" /\ api.t = t
    BY <1>5, <2>1, <2>3, Halves
  <2>4. CASE ~Started(t)
    BY <1>1, <2>4, NothingStarts
  <2> QED  BY <2>2, <2>3, <2>4 DEF Started
<1>8. Rest_t'
  BY <1>1, <1>6, <1>7 DEF IInv, Rest_t
<1>9. CallOK'
  BY <1>1, <1>5 DEF IInv, CallOK
<1>10. InTime'
  BY <1>1 DEF IInv, InTime
<1> QED  BY <1>1, <1>4, <1>8, <1>9, <1>10 DEF IInv

(* rt_timer_check looks at the first timer, and none is due before it.     *)
LEMMA EndFinds ==
  ASSUME IInv, EndCheck
  PROVE  \A t \in Timer : Linked(timers, t) => left[t] > 0
<1> SUFFICES ASSUME NEW t \in Timer, Linked(timers, t)  PROVE left[t] > 0
  OBVIOUS
<1>1. Sound(timers, left, rt_tick) /\ rt_tick \in Tick_t
  BY DEF IInv, Rest_t
<1>2. timers.list # <<>> /\ Head1 \in Timer /\ Linked(timers, Head1) /\ left[Head1] <= left[t]
  BY <1>1, HeadFirst DEF Head1
<1>3. ~Due(timers, Head1, rt_tick)
  BY <1>2 DEF EndCheck
<1>4. SetFor(timers, Head1, left, rt_tick) /\ Near(left[Head1]) /\ Near(left[t])
  BY <1>1, <1>2 DEF Sound
<1>5. ~(left[Head1] <= 0)
  BY <1>1, <1>3, <1>4, DueNow
<1> QED  BY <1>2, <1>4, <1>5 DEF Near

LEMMA EndStep ==
  ASSUME IInv, EndCheck
  PROVE  IInv'
<1>1. isr' = "idle" /\ UNCHANGED <<rt_tick, timers, api, fired, left, stopped>>
  BY DEF EndCheck
<1>2. \A t \in Timer : Linked(timers, t) => left[t] >= -MaxLate
  <2> SUFFICES ASSUME NEW t \in Timer, Linked(timers, t)  PROVE left[t] >= -MaxLate
    OBVIOUS
  <2>1. left[t] > 0 /\ Near(left[t])
    BY EndFinds DEF IInv, Sound
  <2> QED  BY <2>1, Halves DEF Near
<1>3. Sound(timers, left, rt_tick)' /\ PeriodsPositive(timers)'
  BY <1>1 DEF IInv
<1>4. Rest_t' /\ CallOK'
  BY <1>1 DEF IInv, Rest_t, CallOK
<1>5. InTime'
  BY <1>1, <1>2 DEF IInv, InTime
<1> QED  BY <1>3, <1>4, <1>5 DEF IInv

(* The timer that rt_timer_check takes out of the list is due, and has not *)
(* fired in this interrupt.                                                *)
LEMMA ExpireFinds ==
  ASSUME IInv, NEW t \in Timer, NEW starts, NEW stops, Expire(t, starts, stops)
  PROVE  isr = "check" /\ Linked(timers, t) /\ left[t] <= 0 /\ t \notin stopped /\ t \notin fired
<1>1. isr = "check" /\ timers.list # <<>> /\ t = Head1 /\ Due(timers, t, rt_tick)
  BY DEF Expire
<1>2. Sound(timers, left, rt_tick) /\ rt_tick \in Tick_t /\ timers.list \in Seq(Timer)
  BY DEF IInv, Rest_t, Sound, Timers_t
<1>3. Linked(timers, t)
  <2>1. 1 \in 1..Len(timers.list)
    BY <1>1, <1>2
  <2> QED  BY <1>1, <2>1 DEF Linked, Head1
<1>4. SetFor(timers, t, left, rt_tick) /\ Near(left[t])
  BY <1>2, <1>3 DEF Sound
<1>5. left[t] <= 0
  BY <1>1, <1>2, <1>4, DueNow
<1>6. t \notin fired
  <2>1. t \in fired => left[t] > 0
    BY <1>1, <1>3 DEF IInv, InTime
  <2> QED  BY <1>4, <1>5, <2>1 DEF Near
<1> QED  BY <1>1, <1>3, <1>5, <1>6 DEF IInv, InTime

LEMMA ExpireStep ==
  ASSUME IInv, NEW t \in Timer, NEW starts \in Timer \cup {None}, NEW stops \in Timer \cup {None},
         Expire(t, starts, stops)
  PROVE  IInv'
<1> DEFINE S1 == _rt_timer_remove(timers, t)
           S2 == IF starts = None THEN S1 ELSE rt_timer_start(S1, starts, rt_tick)
           S3 == IF stops = None THEN S2 ELSE rt_timer_stop(S2, stops)
           S4 == AfterCallback(S3, t)
           init == timers.init_tick
           f2 == IF starts = None THEN left ELSE [left EXCEPT ![starts] = init[starts]]
           f4 == IF Linked(S4, t) THEN [f2 EXCEPT ![t] = init[t]] ELSE f2
<1>1. /\ isr = "check"
      /\ starts # None => starts # t /\ starts \in Shared /\ init[starts] > 0
      /\ stops # None => stops \in Shared \cup {t}
      /\ timers' = S4 /\ fired' = fired \cup {t}
      /\ (stopped' = (stopped \ {starts}) \cup {stops} /\ stops # None) \/ stopped' = stopped \ {starts}
      /\ UNCHANGED <<rt_tick, api, isr>>
  BY DEF Expire
<1>2. left' = [u \in Timer |->
                 CASE u = stops -> 0
                   [] u = starts -> init[u]
                   [] u = t -> IF timers.periodic[t] THEN init[t] ELSE 0
                   [] OTHER -> left[u]]
  BY DEF Expire
<1>3. /\ Sound(timers, left, rt_tick) /\ rt_tick \in Tick_t /\ None \notin Timer
      /\ left \in [Timer -> -MaxLate - 1..Half] /\ left \in [Timer -> Int]
      /\ Linked(timers, t) /\ t \notin stopped
  <2>1. left \in [Timer -> -MaxLate - 1..Half]
    BY DEF IInv, Rest_t
  <2>2. left \in [Timer -> Int]
    BY <2>1, Halves
  <2> QED  BY <2>1, <2>2, ExpireFinds, TimersAssumption DEF IInv, Rest_t
<1>4. /\ Sound(S1, left, rt_tick) /\ Others(timers, S1, t) /\ ~Linked(S1, t)
      /\ S1.activated = timers.activated
  BY <1>3, RemoveKeeps
<1> HIDE DEF S1
<1>5. S1.init_tick = init /\ S1.periodic = timers.periodic
  BY <1>4 DEF Others
<1>6. /\ Sound(S2, f2, rt_tick) /\ ~Linked(S2, t)
      /\ S2.init_tick = init /\ S2.periodic = timers.periodic
      /\ f2 \in [Timer -> Int] /\ (starts # None => f2[starts] = init[starts] /\ init[starts] \in 0..Half - 1)
      /\ \A u \in Timer \ {starts} : f2[u] = left[u]
      /\ \A u \in Timer \ {starts} : S2.timeout_tick[u] = S1.timeout_tick[u] /\ (Linked(S2, u) <=> Linked(S1, u))
  <2>1. CASE starts = None
    BY <1>3, <1>4, <1>5, <2>1
  <2>2. CASE starts # None
    <3>1. S2 = rt_timer_start(S1, starts, rt_tick) /\ starts \in Timer
      BY <2>2
    <3>2. /\ Sound(S2, [left EXCEPT ![starts] = S1.init_tick[starts]], rt_tick)
          /\ Others(S1, S2, starts) /\ S1.init_tick[starts] \in 0..Half - 1
      BY <1>3, <1>4, <3>1, StartKeeps
    <3> HIDE DEF S2
    <3>3. f2 = [left EXCEPT ![starts] = S1.init_tick[starts]]
      BY <1>5, <2>2
    <3> HIDE DEF f2
    <3>4. f2 \in [Timer -> Int] /\ f2[starts] = init[starts] /\ \A u \in Timer \ {starts} : f2[u] = left[u]
      BY <1>3, <1>5, <3>1, <3>2, <3>3, Halves
    <3> QED  BY <1>1, <1>4, <1>5, <2>2, <3>2, <3>3, <3>4 DEF Others
  <2> QED  BY <2>1, <2>2
<1> HIDE DEF S2, f2
<1>7. /\ Sound(S3, f2, rt_tick) /\ ~Linked(S3, t)
      /\ S3.init_tick = init /\ S3.periodic = timers.periodic
      /\ \A u \in Timer : S3.timeout_tick[u] = S2.timeout_tick[u] /\ (Linked(S3, u) => Linked(S2, u))
      /\ \A u \in Timer : Linked(S3, u) => u # stops
      /\ stops = t => ~S3.activated[t]
  <2>1. CASE stops = None
    BY <1>3, <1>6, <2>1
  <2>2. CASE stops # None
    <3>1. S3 = rt_timer_stop(S2, stops) /\ stops \in Timer
      BY <2>2
    <3>2. /\ Sound(S3, f2, rt_tick) /\ Others(S2, S3, stops) /\ ~Linked(S3, stops)
          /\ ~S3.activated[stops] /\ S3.timeout_tick = S2.timeout_tick
      BY <1>6, <3>1, StopKeeps
    <3> HIDE DEF S3
    <3> QED  BY <1>6, <2>2, <3>1, <3>2 DEF Others
  <2> QED  BY <2>1, <2>2
<1> HIDE DEF S3
<1>8. /\ Sound(S4, f4, rt_tick) /\ Others(S3, S4, t)
      /\ Linked(S4, t) => timers.periodic[t] /\ stops # t /\ init[t] \in 0..Half - 1
  <2> DEFINE A == SetActivated(S3, t, FALSE)
  <2>1. Sound(A, f2, rt_tick) /\ Others(S3, A, t) /\ ~Linked(A, t)
    BY <1>7, MarkKeeps
  <2> HIDE DEF A
  <2>2. CASE S3.periodic[t] /\ S3.activated[t]
    <3>1. S4 = rt_timer_start(A, t, rt_tick)
      BY <2>2 DEF AfterCallback, A
    <3> HIDE DEF S4
    <3>2. /\ Sound(S4, [f2 EXCEPT ![t] = A.init_tick[t]], rt_tick) /\ Others(A, S4, t)
          /\ Linked(S4, t) /\ A.init_tick[t] \in 0..Half - 1
      BY <1>3, <1>6, <2>1, <3>1, StartKeeps
    <3>3. A.init_tick = init
      BY <1>7, <2>1 DEF Others
    <3>4. f4 = [f2 EXCEPT ![t] = A.init_tick[t]]
      BY <3>2, <3>3
    <3>5. Others(S3, S4, t)
      BY <2>1, <3>2 DEF Others
    <3> QED  BY <1>7, <2>2, <3>2, <3>3, <3>4, <3>5
  <2>3. CASE ~(S3.periodic[t] /\ S3.activated[t])
    <3>1. S4 = A
      BY <2>3 DEF AfterCallback, A
    <3> HIDE DEF S4
    <3> QED  BY <2>1, <3>1
  <2> QED  BY <2>2, <2>3
<1> HIDE DEF S4
<1>9. \A u \in Timer : Linked(S4, u) => u # stops /\ (u = t \/ u = starts \/ Linked(timers, u))
  BY <1>4, <1>6, <1>7, <1>8 DEF Others
<1>10. \A u \in Timer \ {t, starts} : S4.timeout_tick[u] = timers.timeout_tick[u]
  BY <1>4, <1>6, <1>7, <1>8 DEF Others
<1>11. \A u \in Timer \ {t, starts, stops} : left'[u] = left[u]
  BY <1>2
<1>12. Linked(S4, t) => left'[t] = init[t]
  BY <1>1, <1>2, <1>8, <1>9
<1>13. starts # None /\ Linked(S4, starts) => left'[starts] = init[starts]
  BY <1>1, <1>2, <1>9
<1>14. \A u \in Timer : Linked(S4, u) => left'[u] = f4[u]
  <2> SUFFICES ASSUME NEW u \in Timer, Linked(S4, u)  PROVE left'[u] = f4[u]
    OBVIOUS
  <2>1. CASE u = t
    BY <1>6, <1>12, <2>1
  <2>2. CASE u = starts /\ u # t
    BY <1>3, <1>6, <1>13, <2>2
  <2>3. CASE u # starts /\ u # t
    BY <1>6, <1>9, <1>11, <2>3
  <2> QED  BY <2>1, <2>2, <2>3
<1> HIDE DEF f4
<1>15. Sound(S4, left', rt_tick)
  BY <1>8, <1>14, Refits
<1>16. S4.init_tick = init /\ S4.periodic = timers.periodic
  BY <1>7, <1>8 DEF Others
<1>17. PeriodsPositive(S4)
  BY <1>16 DEF PeriodsPositive, IInv
<1>18. left' \in [Timer -> -MaxLate - 1..Half]
  <2>1. \A u \in Timer : init[u] \in 0..Half - 1
    <3>1. init \in [Timer -> Times] /\ Times \subseteq 0..Half - 1
      BY <1>3, TimersAssumption DEF Sound, Timers_t
    <3> QED  BY <3>1
  <2>2. \A u \in Timer : left'[u] \in {0, init[u], left[u]}
    BY <1>2
  <2> QED  BY <1>2, <1>3, <2>1, <2>2, NothingStarts
<1>19. Rest_t'
  BY <1>1, <1>18 DEF IInv, Rest_t
<1>20. \A u \in Own : starts # u /\ (stops = u => u = t)
  BY <1>1, TimersAssumption DEF Timer
<1>21. CallOK'
  <2>1. api.fn # None => api.t \in Own /\ api.t \in Timer /\ api.t # starts
    BY <1>20 DEF IInv, CallOK, Timer
  <2>2. CASE api.fn \in {"start", "insert"}
    <3>1. /\ api.t \in Own /\ api.t \in Timer \ {t, starts, stops} /\ api.t \notin stopped
          /\ ~Linked(timers, api.t)
      BY <1>3, <1>20, <2>1, <2>2 DEF IInv, CallOK, None
    <3>2. ~Linked(S4, api.t) /\ api.t \notin stopped'
      BY <1>1, <1>9, <3>1
    <3>3. api.fn = "insert" => SetFor(S4, api.t, left', rt_tick) /\ Near(left'[api.t]) /\ -MaxLate <= left'[api.t]
      BY <1>10, <1>11, <3>1 DEF IInv, CallOK, SetFor
    <3> QED  BY <1>1, <2>2, <3>1, <3>2, <3>3 DEF CallOK
  <2>3. CASE api.fn = "clear"
    <3>1. ~Linked(timers, api.t) /\ api.t \in Timer \ {t, starts}
      BY <1>3, <2>1, <2>3 DEF IInv, CallOK, None
    <3> QED  BY <1>1, <1>9, <2>1, <2>3, <3>1 DEF CallOK
  <2>4. CASE api.fn = "control"
    <3>1. init[api.t] > 0 /\ (Linked(timers, api.t) => api.flag) /\ api.t \in Timer \ {starts}
      BY <2>1, <2>4 DEF IInv, CallOK, None
    <3>2. Linked(S4, api.t) => api.flag
      BY <1>3, <1>9, <3>1
    <3> QED  BY <1>1, <1>16, <2>1, <2>4, <3>1, <3>2 DEF CallOK
  <2>5. CASE api.fn \notin {"start", "insert", "clear", "control"}
    BY <1>1, <2>1, <2>5 DEF CallOK
  <2> QED  BY <2>2, <2>3, <2>4, <2>5
<1>22. \A u \in Timer : Linked(S4, u) => u \notin stopped'
  <2> SUFFICES ASSUME NEW u \in Timer, Linked(S4, u)  PROVE u \notin stopped'
    OBVIOUS
  <2>1. u # stops /\ (u = starts \/ u \notin stopped)
    BY <1>3, <1>9 DEF IInv, InTime
  <2> QED  BY <1>1, <2>1
<1>23. \A u \in fired' : Linked(S4, u) => left'[u] > 0
  <2> SUFFICES ASSUME NEW u \in fired', Linked(S4, u)  PROVE left'[u] > 0
    OBVIOUS
  <2>1. u \in Timer
    BY <1>1 DEF IInv, Rest_t
  <2>2. CASE u = t
    BY <1>8, <1>12, <2>2 DEF IInv, PeriodsPositive
  <2>3. CASE u = starts /\ u # t
    BY <1>1, <1>3, <1>13, <2>1, <2>3
  <2>4. CASE u # starts /\ u # t
    <3>1. u \in fired /\ Linked(timers, u) /\ left'[u] = left[u]
      BY <1>1, <1>9, <1>11, <2>1, <2>4
    <3> QED  BY <1>1, <3>1 DEF IInv, InTime
  <2> QED  BY <2>2, <2>3, <2>4
<1>24. InTime'
  BY <1>1, <1>22, <1>23 DEF InTime
<1> QED  BY <1>1, <1>15, <1>17, <1>19, <1>21, <1>24 DEF IInv

LEMMA NextStep ==
  ASSUME IInv, [Next]_vars
  PROVE  IInv'
<1>1. CASE Thread
  BY <1>1, ThreadStep
<1>2. CASE Tick
  BY <1>2, TickStep
<1>3. CASE EndCheck
  BY <1>3, EndStep
<1>4. ASSUME NEW t \in Timer, NEW starts \in Timer \cup {None}, NEW stops \in Timer \cup {None},
             Expire(t, starts, stops)
      PROVE  IInv'
  BY <1>4, ExpireStep
<1>5. CASE UNCHANGED vars
  BY <1>5 DEF vars, IInv, Rest_t, CallOK, InTime
<1> QED  BY <1>1, <1>2, <1>3, <1>4, <1>5 DEF Next, Interrupt
-----------------------------------------------------------------------------
THEOREM TimersInvariant == Spec => []IInv
<1>1. Init => IInv
  BY AtInit
<1>2. IInv /\ [Next]_vars => IInv'
  BY NextStep
<1> QED  BY <1>1, <1>2, PTL DEF Spec

(* The list that rt_timer_start keeps by differences modulo the tick's     *)
(* range is always in the order in which its timers are to fire, each of   *)
(* them in it once, with the time-out it was started with.                 *)
THEOREM ListIsInOrder == Spec => []InOrder
<1>1. IInv => InOrder
  <2> SUFFICES ASSUME IInv  PROVE InOrder
    OBVIOUS
  <2>1. timers \in Timers_t /\ SortedBy(timers.list, left) /\ Rest_t
    BY DEF IInv, Sound
  <2>2. TypeOK
    BY <2>1 DEF TypeOK, Timers_t, Rest_t
  <2>3. \A t \in Timer : Linked(timers, t) => timers.timeout_tick[t] = (rt_tick + left[t]) % Ticks
    BY DEF IInv, Sound, SetFor
  <2> QED  BY <2>1, <2>2, <2>3 DEF InOrder, SortedBy
<1> QED  BY <1>1, TimersInvariant, PTL

(* A timer in the list is marked activated, so that rt_timer_stop takes it *)
(* out, wherever an interrupt came between the steps of another call.      *)
THEOREM AnyListedCanBeStopped == Spec => []ListedCanBeStopped
<1>1. IInv => ListedCanBeStopped
  BY DEF IInv, Sound, ListedCanBeStopped
<1> QED  BY <1>1, TimersInvariant, PTL

(* rt_timer_check runs a callback no earlier than its time, leaves no      *)
(* timer whose time has come, and runs a callback once in an interrupt.    *)
THEOREM TimersFireOnTime == Spec => OnTime
<1>1. IInv /\ [Next]_vars => [\A t \in fired' \ fired : left[t] <= 0 /\ t \notin stopped]_vars
  <2> SUFFICES ASSUME IInv, [Next]_vars, NEW t \in fired' \ fired
               PROVE  left[t] <= 0 /\ t \notin stopped
    OBVIOUS
  <2>1. Thread => fired' = fired
    BY DEF Thread, Start, Stop, Control, SetTime, Compute, Insert, Remove, Clear, WriteBack,
           StopLocked, StartLocked
  <2>2. Tick => fired' = {}
    BY DEF Tick
  <2>3. EndCheck \/ UNCHANGED vars => fired' = fired
    BY DEF EndCheck, vars
  <2>4. PICK u \in Timer, starts \in Timer \cup {None}, stops \in Timer \cup {None} : Expire(u, starts, stops)
    BY <2>1, <2>2, <2>3 DEF Next, Interrupt
  <2>5. fired' = fired \cup {u}
    BY <2>4 DEF Expire
  <2> QED  BY <2>4, <2>5, ExpireFinds
<1>2. IInv /\ [Next]_vars => [isr = "check" /\ isr' = "idle" =>
                                \A t \in Timer : Linked(timers, t) => left[t] > 0]_vars
  <2> SUFFICES ASSUME IInv, [Next]_vars, isr = "check", isr' = "idle"
               PROVE  \A t \in Timer : Linked(timers, t) => left[t] > 0
    OBVIOUS
  <2>1. Thread \/ Tick => isr = "idle"
    BY DEF Thread, Start, Stop, Control, SetTime, Compute, Insert, Remove, Clear, WriteBack,
           StopLocked, StartLocked, InCall, ThreadRuns, Tick
  <2>2. \A t, starts, stops : Expire(t, starts, stops) => isr' = isr
    BY DEF Expire
  <2>3. EndCheck
    BY <2>1, <2>2 DEF Next, Interrupt, vars
  <2> QED  BY <2>3, EndFinds
<1>3. IInv /\ [Next]_vars => [timers # timers' /\ isr = "check" => fired' # fired]_vars
  <2> SUFFICES ASSUME IInv, [Next]_vars, timers # timers', isr = "check"
               PROVE  fired' # fired
    OBVIOUS
  <2>1. Thread \/ Tick => isr = "idle"
    BY DEF Thread, Start, Stop, Control, SetTime, Compute, Insert, Remove, Clear, WriteBack,
           StopLocked, StartLocked, InCall, ThreadRuns, Tick
  <2>2. EndCheck => timers' = timers
    BY DEF EndCheck
  <2>3. PICK u \in Timer, starts \in Timer \cup {None}, stops \in Timer \cup {None} : Expire(u, starts, stops)
    BY <2>1, <2>2 DEF Next, Interrupt, vars
  <2>4. fired' = fired \cup {u}
    BY <2>3 DEF Expire
  <2> QED  BY <2>3, <2>4, ExpireFinds
<1> QED  BY <1>1, <1>2, <1>3, TimersInvariant, PTL DEF Spec, OnTime, NeverEarly, NoneMissed, OncePerTick
=============================================================================
