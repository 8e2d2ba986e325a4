---------------------------- MODULE Kernel_proof ----------------------------
(***************************************************************************)
(* Theorems about the scheduler and its threads: for any threads,          *)
(* priorities, time slices and delays.                                     *)
(***************************************************************************)
EXTENDS Threads, FiniteSetTheorems, SequenceTheorems, WellFoundedInduction, TLAPS

(* A thread is in a list; no thread is twice in it.                        *)
In(s, t) == \E i \in 1..Len(s) : s[i] = t
Once(s) == \A i, j \in 1..Len(s) : s[i] = s[j] => i = j

LEMMA NoneIn ==
  ASSUME NEW S, NEW s \in Seq(S), \A t \in S : ~In(s, t)
  PROVE  s = <<>>
<1>1. CASE Len(s) > 0
  <2>1. 1 \in 1..Len(s) /\ s[1] \in S
    BY <1>1
  <2> QED  BY <2>1 DEF In
<1> QED  BY <1>1

LEMMA HeadIn ==
  ASSUME NEW S, NEW s \in Seq(S), s # <<>>
  PROVE  Head(s) \in S /\ In(s, Head(s)) /\ 1 \in 1..Len(s) /\ Head(s) = s[1]
<1>1. Len(s) \in Nat /\ Len(s) > 0 /\ Head(s) = s[1]
  OBVIOUS
<1>2. 1 \in 1..Len(s)
  BY <1>1
<1> QED  BY <1>1, <1>2 DEF In

LEMMA AppendIn ==
  ASSUME NEW S, NEW s \in Seq(S), NEW t \in S
  PROVE  /\ Append(s, t) \in Seq(S) /\ Append(s, t) # <<>>
         /\ \A u : In(Append(s, t), u) <=> In(s, u) \/ u = t
         /\ ~In(s, t) /\ Once(s) => Once(Append(s, t))
<1> DEFINE a == Append(s, t)
           n == Len(s)
<1>1. /\ a \in Seq(S) /\ n \in Nat /\ Len(a) = n + 1 /\ a[n + 1] = t
      /\ \A i \in 1..n : a[i] = s[i]
  OBVIOUS
<1>2. \A i : i \in 1..n + 1 <=> i \in 1..n \/ i = n + 1
  BY <1>1
<1>3. n + 1 \notin 1..n
  BY <1>1
<1>4. a # <<>>
  BY <1>1
<1> HIDE DEF a
<1>5. ASSUME NEW u  PROVE In(a, u) <=> In(s, u) \/ u = t
  BY <1>1, <1>2 DEF In
<1>6. ASSUME ~In(s, t), Once(s)  PROVE Once(a)
  BY <1>1, <1>2, <1>6 DEF In, Once
<1> QED  BY <1>1, <1>4, <1>5, <1>6 DEF a

LEMMA ConsIn ==
  ASSUME NEW S, NEW s \in Seq(S), NEW t \in S
  PROVE  /\ <<t>> \o s \in Seq(S)
         /\ \A u : In(<<t>> \o s, u) <=> In(s, u) \/ u = t
         /\ ~In(s, t) /\ Once(s) => Once(<<t>> \o s)
<1> DEFINE a == <<t>> \o s
           n == Len(s)
<1>1. /\ a \in Seq(S) /\ n \in Nat /\ Len(a) = n + 1 /\ a[1] = t
      /\ \A i \in 1..n : a[i + 1] = s[i]
  OBVIOUS
<1>2. \A i : i \in 1..n + 1 <=> i = 1 \/ (i \in Int /\ i - 1 \in 1..n)
  BY <1>1
<1>3. \A i \in 1..n : i + 1 \in 1..n + 1 /\ i + 1 # 1
  BY <1>1
<1>4. \A i \in 1..n + 1 : i = 1 \/ (i - 1 \in 1..n /\ a[i] = s[i - 1])
  BY <1>1, <1>2
<1> HIDE DEF a
<1>5. ASSUME NEW u  PROVE In(a, u) <=> In(s, u) \/ u = t
  <2>1. ASSUME In(s, u)  PROVE In(a, u)
    <3>1. PICK i \in 1..n : s[i] = u
      BY <2>1 DEF In
    <3> QED  BY <1>1, <1>3, <3>1 DEF In
  <2>2. ASSUME u = t  PROVE In(a, u)
    <3>1. 1 \in 1..n + 1
      BY <1>1
    <3> QED  BY <1>1, <2>2, <3>1 DEF In
  <2>3. ASSUME In(a, u), u # t  PROVE In(s, u)
    BY <1>1, <1>4, <2>3 DEF In
  <2> QED  BY <2>1, <2>2, <2>3
<1>6. ASSUME ~In(s, t), Once(s)  PROVE Once(a)
  <2> SUFFICES ASSUME NEW i \in 1..n + 1, NEW j \in 1..n + 1, a[i] = a[j]
               PROVE  i = j
    BY <1>1 DEF Once
  <2>1. CASE i = 1 /\ j # 1
    BY <1>1, <1>4, <1>6, <2>1 DEF In
  <2>2. CASE j = 1 /\ i # 1
    BY <1>1, <1>4, <1>6, <2>2 DEF In
  <2>3. CASE i # 1 /\ j # 1
    <3>1. i - 1 \in 1..n /\ j - 1 \in 1..n /\ s[i - 1] = s[j - 1]
      BY <1>4, <2>3
    <3>2. i - 1 = j - 1
      BY <1>6, <3>1 DEF Once
    <3> QED  BY <3>2
  <2> QED  BY <2>1, <2>2, <2>3
<1> QED  BY <1>1, <1>5, <1>6 DEF a

LEMMA TailIn ==
  ASSUME NEW S, NEW s \in Seq(S), s # <<>>, Once(s)
  PROVE  /\ Tail(s) \in Seq(S) /\ Once(Tail(s))
         /\ \A u : In(Tail(s), u) <=> In(s, u) /\ u # Head(s)
<1> DEFINE a == Tail(s)
           n == Len(s)
<1>1. /\ a \in Seq(S) /\ n \in Nat /\ n > 0 /\ Len(a) = n - 1 /\ Head(s) = s[1]
      /\ \A i \in 1..n - 1 : a[i] = s[i + 1]
  OBVIOUS
<1>2. 1 \in 1..n /\ \A i \in 1..n - 1 : i + 1 \in 1..n /\ i + 1 # 1
  BY <1>1
<1>3. \A i \in 1..n : i # 1 => i - 1 \in 1..n - 1 /\ a[i - 1] = s[i]
  BY <1>1
<1> HIDE DEF a, n
<1>4. Once(a)
  <2> SUFFICES ASSUME NEW i \in 1..n - 1, NEW j \in 1..n - 1, a[i] = a[j]
               PROVE  i = j
    BY <1>1 DEF Once
  <2>1. s[i + 1] = s[j + 1] /\ i + 1 \in 1..n /\ j + 1 \in 1..n
    BY <1>1, <1>2
  <2>2. i + 1 = j + 1
    BY <2>1 DEF Once, n
  <2> QED  BY <1>1, <2>2
<1>5. ASSUME NEW u  PROVE In(a, u) <=> In(s, u) /\ u # Head(s)
  <2>1. ASSUME In(a, u)  PROVE In(s, u) /\ u # Head(s)
    <3>1. PICK i \in 1..n - 1 : a[i] = u
      BY <1>1, <2>1 DEF In
    <3>2. i + 1 \in 1..n /\ s[i + 1] = u /\ i + 1 # 1
      BY <1>1, <1>2, <3>1
    <3> QED  BY <1>1, <1>2, <3>2 DEF In, Once, n
  <2>2. ASSUME In(s, u), u # Head(s)  PROVE In(a, u)
    <3>1. PICK i \in 1..n : s[i] = u
      BY <2>2 DEF In, n
    <3>2. i # 1
      BY <1>1, <2>2, <3>1
    <3> QED  BY <1>1, <1>3, <3>1, <3>2 DEF In
  <2> QED  BY <2>1, <2>2
<1> QED  BY <1>1, <1>4, <1>5 DEF a

(* Without takes one thread out of a list and leaves the rest in order.    *)
LEMMA RemoveAtIs ==
  ASSUME NEW S, NEW s \in Seq(S), NEW j \in 1..Len(s)
  PROVE  /\ RemoveAt(s, j) \in Seq(S) /\ Len(RemoveAt(s, j)) = Len(s) - 1
         /\ \A i \in 1..Len(s) - 1 : RemoveAt(s, j)[i] = IF i < j THEN s[i] ELSE s[i + 1]
<1> DEFINE n == Len(s)
           a == SubSeq(s, 1, j - 1)
           b == SubSeq(s, j + 1, n)
<1>1. n \in Nat /\ j \in Nat /\ 1 <= j /\ j <= n
  OBVIOUS
<1>2. a \in Seq(S) /\ Len(a) = j - 1 /\ \A i \in 1..j - 1 : a[i] = s[i]
  BY <1>1
<1>3. b \in Seq(S) /\ Len(b) = n - j /\ \A i \in 1..n - j : b[i] = s[j + i]
  BY <1>1
<1>4. RemoveAt(s, j) = a \o b
  BY DEF RemoveAt
<1> HIDE DEF a, b, n
<1>5. /\ a \o b \in Seq(S) /\ Len(a \o b) = (j - 1) + (n - j)
      /\ \A i \in 1..(j - 1) + (n - j) :
           (a \o b)[i] = IF i <= j - 1 THEN a[i] ELSE b[i - (j - 1)]
  <2>1. /\ a \o b \in Seq(S) /\ Len(a \o b) = Len(a) + Len(b)
        /\ \A i \in 1..Len(a) + Len(b) :
             (a \o b)[i] = IF i <= Len(a) THEN a[i] ELSE b[i - Len(a)]
    BY <1>2, <1>3, ConcatProperties
  <2> QED  BY <1>2, <1>3, <2>1
<1>6. (j - 1) + (n - j) = n - 1
  BY <1>1
<1>7. ASSUME NEW i \in 1..n - 1  PROVE (a \o b)[i] = IF i < j THEN s[i] ELSE s[i + 1]
  <2>1. (a \o b)[i] = IF i <= j - 1 THEN a[i] ELSE b[i - (j - 1)]
    BY <1>5, <1>6
  <2>2. CASE i < j
    BY <1>1, <1>2, <2>1, <2>2
  <2>3. CASE ~(i < j)
    <3>1. i - (j - 1) \in 1..n - j /\ j + (i - (j - 1)) = i + 1 /\ ~(i <= j - 1)
      BY <1>1, <2>3
    <3> QED  BY <1>3, <2>1, <2>3, <3>1
  <2> QED  BY <2>2, <2>3
<1> QED  BY <1>4, <1>5, <1>6, <1>7 DEF n

LEMMA WithoutIn ==
  ASSUME NEW S, NEW s \in Seq(S), Once(s), NEW t
  PROVE  /\ Without(s, t) \in Seq(S) /\ Once(Without(s, t))
         /\ \A u : In(Without(s, t), u) <=> In(s, u) /\ u # t
         /\ ~In(s, t) => Without(s, t) = s
         /\ s # <<>> /\ Head(s) # t => Without(s, t) # <<>> /\ Head(Without(s, t)) = Head(s)
<1>1. CASE ~In(s, t)
  BY <1>1 DEF Without, In
<1>2. CASE In(s, t)
  <2> DEFINE j == CHOOSE i \in 1..Len(s) : s[i] = t
             a == RemoveAt(s, j)
             n == Len(s)
  <2>1. j \in 1..n /\ s[j] = t /\ Without(s, t) = a
    BY <1>2 DEF Without, In
  <2> HIDE DEF j
  <2>2. /\ a \in Seq(S) /\ Len(a) = n - 1 /\ n \in Nat
        /\ \A i \in 1..n - 1 : a[i] = IF i < j THEN s[i] ELSE s[i + 1]
    <3>1. /\ RemoveAt(s, j) \in Seq(S) /\ Len(RemoveAt(s, j)) = Len(s) - 1
          /\ \A i \in 1..Len(s) - 1 : RemoveAt(s, j)[i] = IF i < j THEN s[i] ELSE s[i + 1]
      BY <2>1, RemoveAtIs
    <3> QED  BY <3>1
  <2> HIDE DEF a
  <2> DEFINE From(i) == IF i < j THEN i ELSE i + 1
  <2>4. \A i \in 1..n - 1 : From(i) \in 1..n /\ From(i) # j /\ a[i] = s[From(i)]
    BY <2>1, <2>2
  <2>5. \A i, m \in 1..n - 1 : From(i) = From(m) => i = m
    BY <2>1, <2>2
  <2>6. \A i \in 1..n : i # j => \E m \in 1..n - 1 : From(m) = i
    <3> SUFFICES ASSUME NEW i \in 1..n, i # j  PROVE \E m \in 1..n - 1 : From(m) = i
      OBVIOUS
    <3>1. CASE i < j
      <4>1. i \in 1..n - 1 /\ From(i) = i
        BY <2>1, <2>2, <3>1
      <4> QED  BY <4>1
    <3>2. CASE ~(i < j)
      <4>1. i - 1 \in 1..n - 1 /\ From(i - 1) = i
        BY <2>1, <2>2, <3>2
      <4> QED  BY <4>1
    <3> QED  BY <3>1, <3>2
  <2> HIDE DEF From
  <2>7. Once(a)
    BY <2>2, <2>4, <2>5 DEF Once
  <2>8. ASSUME NEW u  PROVE In(a, u) <=> In(s, u) /\ u # t
    <3>1. ASSUME In(a, u)  PROVE In(s, u) /\ u # t
      <4>1. PICK i \in 1..n - 1 : a[i] = u
        BY <2>2, <3>1 DEF In
      <4> QED  BY <2>1, <2>4, <4>1 DEF In, Once
    <3>2. ASSUME In(s, u), u # t  PROVE In(a, u)
      <4>1. PICK i \in 1..n : s[i] = u
        BY <3>2 DEF In
      <4>2. PICK m \in 1..n - 1 : From(m) = i
        BY <2>1, <2>6, <3>2, <4>1
      <4> QED  BY <2>2, <2>4, <4>1, <4>2 DEF In
    <3> QED  BY <3>1, <3>2
  <2>9. ASSUME s # <<>>, Head(s) # t  PROVE a # <<>> /\ Head(a) = Head(s)
    <3>1. Head(s) = s[1] /\ 1 \in 1..n
      BY <2>9, HeadIn
    <3>2. j > 1 /\ 1 \in 1..n - 1
      BY <2>1, <2>2, <2>9, <3>1
    <3>3. a[1] = s[1] /\ a # <<>>
      BY <2>1, <2>2, <3>2
    <3> QED  BY <2>2, <3>1, <3>3
  <2> QED  BY <1>2, <2>1, <2>2, <2>7, <2>8, <2>9
<1> QED  BY <1>1, <1>2
-----------------------------------------------------------------------------
(* The data of the scheduler, and what each list operation leaves alone.   *)
KState ==
  [stat : [Thread -> Stats], prio : [Thread -> Prio], ready : [Prio -> Seq(Thread)],
   group : SUBSET Prio, cur : Thread \cup {Nobody}, lock : Nat,
   slice : [Thread -> Nat], error : [Thread -> {"EOK", "ETIMEOUT", "ERROR"}],
   timer : [Thread -> Nat], queue : [Queues -> Seq(Thread)], defunct : Seq(Thread),
   owed : BOOLEAN]

SameButLists(L, K) ==
  /\ L.stat = K.stat /\ L.prio = K.prio /\ L.cur = K.cur /\ L.lock = K.lock
  /\ L.slice = K.slice /\ L.error = K.error /\ L.timer = K.timer /\ L.owed = K.owed

SameElsewhere(L, K) == L.queue = K.queue /\ L.defunct = K.defunct

(* The ready lists and the bitmap hold the threads of S, each once, in the *)
(* list of its priority.                                                   *)
Lists(K, S) ==
  /\ K \in KState
  /\ \A p \in Prio : Once(K.ready[p])
  /\ \A p \in Prio, t \in Thread : In(K.ready[p], t) <=> t \in S /\ K.prio[t] = p
  /\ K.group = {p \in Prio : K.ready[p] # <<>>}

Elsewhere(K, t) == In(K.defunct, t) \/ \E q \in Queues : In(K.queue[q], t)
OnceElsewhere(K) == Once(K.defunct) /\ \A q \in Queues : Once(K.queue[q])

LEMMA Priorities ==
  /\ MaxPrio \in Nat /\ Prio \subseteq Nat /\ Idle \in Thread /\ Nobody \notin Thread
  /\ \A t \in Thread : InitPrio[t] \in Prio /\ InitTick[t] \in Nat /\ InitTick[t] > 0
BY KernelAssumption DEF Prio

LEMMA Least ==
  ASSUME NEW S \in SUBSET Nat, S # {}
  PROVE  \E n \in S : \A m \in S : n <= m
<1> DEFINE R == OpToRel(<, Nat)
<1>1. IsWellFoundedOn(R, Nat)
  BY NatLessThanWellFounded
<1>2. PICK n \in S : \A m \in S : ~(<<m, n>> \in R)
  <2> HIDE DEF R
  <2> QED  BY <1>1, WFMin
<1>3. \A m \in S : m \in Nat /\ n \in Nat /\ ~(m < n)
  BY <1>2 DEF OpToRel
<1> QED  BY <1>3

LEMMA HighestIs ==
  ASSUME NEW group \in SUBSET Prio, group # {}
  PROVE  Highest(group) \in group /\ \A q \in group : Highest(group) <= q
BY Priorities, Least DEF Highest

(* The ready lists are left alone by what does not touch them.             *)
LEMMA ListsKept ==
  ASSUME NEW K, NEW S, Lists(K, S), NEW L \in KState,
         L.ready = K.ready, L.group = K.group, L.prio = K.prio
  PROVE  Lists(L, S) /\ HighestReady(L) = HighestReady(K)
BY DEF Lists, HighestReady

(* The priority of a thread that is in no ready list may change.           *)
LEMMA ListsPrio ==
  ASSUME NEW K, NEW S, Lists(K, S), NEW L \in KState,
         L.ready = K.ready, L.group = K.group, \A t \in S : L.prio[t] = K.prio[t]
  PROVE  Lists(L, S) /\ HighestReady(L) = HighestReady(K)
BY DEF Lists, HighestReady

(* The head of the first list that is not empty is a thread of highest     *)
(* priority.                                                               *)
LEMMA HighestReadyIs ==
  ASSUME NEW K, NEW S \in SUBSET Thread, Lists(K, S), S # {}
  PROVE  /\ HighestReady(K) \in S
         /\ K.prio[HighestReady(K)] = Highest(K.group)
         /\ K.group # {} /\ Highest(K.group) \in Prio /\ K.ready[Highest(K.group)] # <<>>
         /\ HighestReady(K) = Head(K.ready[Highest(K.group)])
         /\ \A t \in S : K.prio[HighestReady(K)] <= K.prio[t]
<1> DEFINE h == Highest(K.group)
<1>1. K \in KState /\ K.prio \in [Thread -> Prio] /\ K.ready \in [Prio -> Seq(Thread)]
      /\ K.group = {p \in Prio : K.ready[p] # <<>>}
  BY DEF Lists, KState
<1>2. ASSUME NEW t \in S  PROVE K.prio[t] \in K.group
  <2>1. K.prio[t] \in Prio /\ In(K.ready[K.prio[t]], t)
    BY <1>1 DEF Lists
  <2>2. K.ready[K.prio[t]] # <<>>
    BY <2>1 DEF In
  <2> QED  BY <1>1, <2>1, <2>2
<1>3. K.group # {} /\ K.group \in SUBSET Prio
  BY <1>1, <1>2
<1>4. h \in K.group /\ \A q \in K.group : h <= q
  BY <1>3, HighestIs
<1> HIDE DEF h
<1>5. h \in Prio /\ K.ready[h] # <<>> /\ K.ready[h] \in Seq(Thread)
  BY <1>1, <1>4
<1>6. HighestReady(K) = Head(K.ready[h])
  BY <1>3, <1>5 DEF HighestReady, h
<1>7. HighestReady(K) \in Thread /\ In(K.ready[h], HighestReady(K))
  BY <1>5, <1>6, HeadIn
<1>8. HighestReady(K) \in S /\ K.prio[HighestReady(K)] = h
  BY <1>5, <1>7 DEF Lists
<1> QED  BY <1>2, <1>3, <1>4, <1>5, <1>6, <1>8 DEF h

(* rt_list_remove.                                                         *)
LEMMA ListRemove ==
  ASSUME NEW K \in KState, NEW t, \A p \in Prio : Once(K.ready[p]), OnceElsewhere(K)
  PROVE  LET L == rt_list_remove(K, t)
         IN  /\ L \in KState /\ SameButLists(L, K) /\ L.group = K.group
             /\ L.ready = [p \in Prio |-> Without(K.ready[p], t)]
             /\ L.queue = [q \in Queues |-> Without(K.queue[q], t)]
             /\ L.defunct = Without(K.defunct, t)
<1> DEFINE L == rt_list_remove(K, t)
           r == [p \in Prio |-> Without(K.ready[p], t)]
           q == [x \in Queues |-> Without(K.queue[x], t)]
           d == Without(K.defunct, t)
<1>1. r \in [Prio -> Seq(Thread)]
  <2>1. \A p \in Prio : K.ready[p] \in Seq(Thread)
    BY DEF KState
  <2> QED  BY <2>1, WithoutIn
<1>2. q \in [Queues -> Seq(Thread)]
  <2>1. \A x \in Queues : K.queue[x] \in Seq(Thread) /\ Once(K.queue[x])
    BY DEF KState, OnceElsewhere
  <2> QED  BY <2>1, WithoutIn
<1>3. d \in Seq(Thread)
  <2>1. K.defunct \in Seq(Thread) /\ Once(K.defunct)
    BY DEF KState, OnceElsewhere
  <2> QED  BY <2>1, WithoutIn
<1>4. L = [K EXCEPT !.ready = r, !.queue = q, !.defunct = d]
  BY DEF rt_list_remove
<1> HIDE DEF r, q, d, L
<1>5. L \in KState /\ L.ready = r /\ L.queue = q /\ L.defunct = d
  BY <1>1, <1>2, <1>3, <1>4 DEF KState
<1>6. SameButLists(L, K) /\ L.group = K.group
  BY <1>4 DEF KState, SameButLists
<1> QED  BY <1>5, <1>6 DEF r, q, d, L

LEMMA NotElsewhere ==
  ASSUME NEW K \in KState, OnceElsewhere(K), NEW t, ~Elsewhere(K, t)
  PROVE  /\ [q \in Queues |-> Without(K.queue[q], t)] = K.queue
         /\ Without(K.defunct, t) = K.defunct
<1>1. K.queue \in [Queues -> Seq(Thread)] /\ K.defunct \in Seq(Thread)
  BY DEF KState
<1>2. \A q \in Queues : Without(K.queue[q], t) = K.queue[q]
  BY <1>1, WithoutIn DEF Elsewhere, OnceElsewhere
<1> QED  BY <1>1, <1>2, WithoutIn DEF Elsewhere, OnceElsewhere

(* It leaves alone lists that the thread is not in.                        *)
LEMMA ListRemoveNothing ==
  ASSUME NEW K, NEW S, Lists(K, S), OnceElsewhere(K), NEW t \in Thread, t \notin S, ~Elsewhere(K, t)
  PROVE  rt_list_remove(K, t) = K
<1> DEFINE L == rt_list_remove(K, t)
<1>1. K \in KState /\ \A p \in Prio : Once(K.ready[p])
  BY DEF Lists
<1>2. /\ L \in KState /\ SameButLists(L, K) /\ L.group = K.group
      /\ L.ready = [p \in Prio |-> Without(K.ready[p], t)]
      /\ L.queue = [q \in Queues |-> Without(K.queue[q], t)]
      /\ L.defunct = Without(K.defunct, t)
  BY <1>1, ListRemove
<1> HIDE DEF L
<1>3. L.ready = K.ready
  <2>1. K.ready \in [Prio -> Seq(Thread)]
    BY <1>1 DEF KState
  <2>2. \A p \in Prio : Without(K.ready[p], t) = K.ready[p]
    BY <2>1, WithoutIn DEF Lists
  <2> QED  BY <1>2, <2>1, <2>2
<1>4. L.queue = K.queue /\ L.defunct = K.defunct
  BY <1>1, <1>2, NotElsewhere
<1>5. L = [K EXCEPT !.ready = L.ready, !.queue = L.queue, !.defunct = L.defunct]
  BY <1>1, <1>2, Zenon DEF rt_list_remove, L
<1>6. [K EXCEPT !.ready = K.ready, !.queue = K.queue, !.defunct = K.defunct] = K
  BY <1>1 DEF KState
<1> QED  BY <1>3, <1>4, <1>5, <1>6, Zenon DEF L
(* rt_schedule_insert_thread puts a thread at the end of its list.         *)
LEMMA Inserted ==
  ASSUME NEW K, NEW S, Lists(K, S), NEW t \in Thread, t \notin S
  PROVE  LET L == rt_schedule_insert_thread(K, t)
         IN  /\ Lists(L, S \cup {t}) /\ SameElsewhere(L, K)
             /\ L.stat = [K.stat EXCEPT ![t] = "ready"] /\ L.prio = K.prio
             /\ L.cur = K.cur /\ L.lock = K.lock /\ L.slice = K.slice /\ L.error = K.error
             /\ L.timer = K.timer /\ L.owed = K.owed
<1> DEFINE L == rt_schedule_insert_thread(K, t)
           p == K.prio[t]
           r == [K.ready EXCEPT ![p] = Append(K.ready[p], t)]
           g == K.group \cup {p}
<1>1. /\ K \in KState /\ K.prio \in [Thread -> Prio] /\ K.ready \in [Prio -> Seq(Thread)]
      /\ K.group \in SUBSET Prio /\ K.group = {q \in Prio : K.ready[q] # <<>>}
      /\ \A q \in Prio : Once(K.ready[q])
  BY DEF Lists, KState
<1>2. p \in Prio /\ K.ready[p] \in Seq(Thread) /\ ~In(K.ready[p], t)
  BY <1>1 DEF Lists
<1>3. L = [K EXCEPT !.stat = [K.stat EXCEPT ![t] = "ready"], !.ready = r, !.group = g]
  BY <1>1 DEF rt_schedule_insert_thread, KState
<1> HIDE DEF L, p
<1>4. /\ r \in [Prio -> Seq(Thread)] /\ r[p] # <<>> /\ Once(r[p])
      /\ \A u : In(r[p], u) <=> In(K.ready[p], u) \/ u = t
      /\ \A q \in Prio : q # p => r[q] = K.ready[q]
  BY <1>1, <1>2, AppendIn, SMTT(30)
<1>5. g \in SUBSET Prio /\ g = {q \in Prio : r[q] # <<>>}
  BY <1>1, <1>2, <1>4
<1> HIDE DEF r, g
<1>6. [K.stat EXCEPT ![t] = "ready"] \in [Thread -> Stats]
  BY <1>1 DEF KState, Stats
<1>7. L \in KState /\ L.ready = r /\ L.group = g /\ SameElsewhere(L, K)
  BY <1>1, <1>3, <1>4, <1>5, <1>6 DEF KState, SameElsewhere
<1>8. /\ L.stat = [K.stat EXCEPT ![t] = "ready"] /\ L.prio = K.prio
      /\ L.cur = K.cur /\ L.lock = K.lock /\ L.slice = K.slice /\ L.error = K.error
      /\ L.timer = K.timer /\ L.owed = K.owed
  BY <1>1, <1>3 DEF KState
<1>9. ASSUME NEW q \in Prio, NEW u \in Thread
      PROVE  In(L.ready[q], u) <=> u \in S \cup {t} /\ L.prio[u] = q
  <2>1. In(K.ready[q], u) <=> u \in S /\ K.prio[u] = q
    BY DEF Lists
  <2>2. CASE q = p
    BY <1>4, <1>7, <1>8, <2>1, <2>2 DEF p
  <2>3. CASE q # p
    BY <1>4, <1>7, <1>8, <2>1, <2>3 DEF p
  <2> QED  BY <2>2, <2>3
<1>10. \A q \in Prio : Once(L.ready[q])
  BY <1>1, <1>4, <1>7
<1>11. Lists(L, S \cup {t})
  BY <1>5, <1>7, <1>9, <1>10 DEF Lists
<1> QED  BY <1>7, <1>8, <1>11 DEF L

(* rt_schedule_remove_thread takes a thread out of its list; if it is not  *)
(* the first of highest priority, that one stays first.                    *)
LEMMA Removed ==
  ASSUME NEW K, NEW S, Lists(K, S), OnceElsewhere(K), NEW t \in Thread
  PROVE  LET L == rt_schedule_remove_thread(K, t)
         IN  /\ Lists(L, S \ {t}) /\ SameButLists(L, K)
             /\ L.queue = [q \in Queues |-> Without(K.queue[q], t)]
             /\ L.defunct = Without(K.defunct, t)
             /\ S \subseteq Thread /\ S # {} /\ HighestReady(K) # t
                  => HighestReady(L) = HighestReady(K)
<1> DEFINE R == rt_list_remove(K, t)
           L == rt_schedule_remove_thread(K, t)
           p == K.prio[t]
<1>1. /\ K \in KState /\ K.prio \in [Thread -> Prio] /\ K.ready \in [Prio -> Seq(Thread)]
      /\ K.group \in SUBSET Prio /\ K.group = {q \in Prio : K.ready[q] # <<>>}
      /\ \A q \in Prio : Once(K.ready[q])
  BY DEF Lists, KState
<1>2. p \in Prio
  BY <1>1
<1>3. /\ R \in KState /\ SameButLists(R, K) /\ R.group = K.group
      /\ R.ready = [q \in Prio |-> Without(K.ready[q], t)]
      /\ R.queue = [q \in Queues |-> Without(K.queue[q], t)]
      /\ R.defunct = Without(K.defunct, t)
  BY <1>1, ListRemove
<1>4. L = IF R.ready[p] = <<>> THEN [R EXCEPT !.group = R.group \ {p}] ELSE R
  BY DEF rt_schedule_remove_thread
<1> HIDE DEF R, L, p
<1>5. /\ L \in KState /\ SameButLists(L, R) /\ L.ready = R.ready /\ SameElsewhere(L, R)
      /\ L.group = IF R.ready[p] = <<>> THEN R.group \ {p} ELSE R.group
  <2>1. CASE R.ready[p] = <<>>
    <3>1. L = [R EXCEPT !.group = R.group \ {p}] /\ R.group \ {p} \in SUBSET Prio
      BY <1>3, <1>4, <2>1 DEF KState
    <3>2. L \in KState
      BY <1>3, <3>1 DEF KState
    <3> QED  BY <1>3, <2>1, <3>1, <3>2 DEF KState, SameButLists, SameElsewhere
  <2>2. CASE R.ready[p] # <<>>
    BY <1>3, <1>4, <2>2 DEF SameButLists, SameElsewhere
  <2> QED  BY <2>1, <2>2
<1>6. SameButLists(L, K) /\ L.queue = R.queue /\ L.defunct = R.defunct
  BY <1>3, <1>5 DEF SameButLists, SameElsewhere
<1>7. ASSUME NEW q \in Prio
      PROVE  /\ Once(L.ready[q]) /\ L.ready[q] = Without(K.ready[q], t)
             /\ \A u : In(L.ready[q], u) <=> In(K.ready[q], u) /\ u # t
             /\ ~In(K.ready[q], t) => L.ready[q] = K.ready[q]
             /\ K.ready[q] # <<>> /\ Head(K.ready[q]) # t
                  => L.ready[q] # <<>> /\ Head(L.ready[q]) = Head(K.ready[q])
  <2>1. L.ready[q] = Without(K.ready[q], t) /\ K.ready[q] \in Seq(Thread)
    BY <1>1, <1>3, <1>5
  <2> QED  BY <1>1, <2>1, WithoutIn
<1>8. \A q \in Prio : q # p => L.ready[q] = K.ready[q]
  BY <1>7 DEF Lists, p
<1>9. L.group = {q \in Prio : L.ready[q] # <<>>}
  <2>1. L.ready[p] = <<>> \/ (L.ready[p] # <<>> /\ K.ready[p] # <<>>)
    <3>1. CASE K.ready[p] = <<>>
      <4>1. ~In(K.ready[p], t)
        BY <3>1 DEF In
      <4> QED  BY <1>2, <1>7, <3>1, <4>1
    <3> QED  BY <3>1
  <2>2. L.group = IF L.ready[p] = <<>> THEN K.group \ {p} ELSE K.group
    BY <1>3, <1>5
  <2> QED  BY <1>1, <1>2, <1>8, <2>1, <2>2
<1>10. ASSUME NEW q \in Prio, NEW u \in Thread
       PROVE  In(L.ready[q], u) <=> u \in S \ {t} /\ L.prio[u] = q
  BY <1>6, <1>7 DEF Lists, SameButLists
<1>11. Lists(L, S \ {t})
  BY <1>5, <1>7, <1>9, <1>10 DEF Lists
<1>12. ASSUME S \subseteq Thread, S # {}, HighestReady(K) # t
       PROVE  HighestReady(L) = HighestReady(K)
  <2> DEFINE h == Highest(K.group)
  <2>1. /\ HighestReady(K) \in S /\ K.group # {} /\ h \in Prio /\ K.ready[h] # <<>>
        /\ HighestReady(K) = Head(K.ready[h])
    BY <1>12, HighestReadyIs
  <2>2. L.ready[h] # <<>> /\ Head(L.ready[h]) = Head(K.ready[h])
    BY <1>7, <1>12, <2>1
  <2>3. h \in L.group /\ L.group \subseteq K.group
    BY <1>1, <1>3, <1>5, <1>9, <2>1, <2>2
  <2>4. h \in K.group /\ \A q \in K.group : h <= q
    BY <1>1, <2>1, HighestIs
  <2> HIDE DEF h
  <2>5. L.group \in SUBSET Prio /\ L.group # {}
    BY <1>9, <2>3
  <2>6. Highest(L.group) \in L.group /\ \A q \in L.group : Highest(L.group) <= q
    BY <2>5, HighestIs
  <2>7. Highest(L.group) = h
    <3>1. Highest(L.group) <= h /\ h <= Highest(L.group)
      BY <2>3, <2>4, <2>6
    <3>2. Highest(L.group) \in Nat /\ h \in Nat
      BY <2>1, <2>5, <2>6, Priorities
    <3> QED  BY <3>1, <3>2
  <2> QED  BY <2>1, <2>2, <2>5, <2>7 DEF HighestReady
<1> QED  BY <1>3, <1>6, <1>11, <1>12 DEF L
LEMMA Scheduled ==
  ASSUME NEW K, NEW S \in SUBSET Thread, Lists(K, S), S # {}
  PROVE  LET L == rt_schedule(K)
         IN  /\ Lists(L, S) /\ HighestReady(L) = HighestReady(K) /\ SameElsewhere(L, K)
             /\ L.stat = K.stat /\ L.prio = K.prio /\ L.lock = K.lock
             /\ L.slice = K.slice /\ L.error = K.error /\ L.timer = K.timer
             /\ K.lock = 0 => L.cur = HighestReady(L) /\ L.cur \in S /\ L.owed = FALSE
             /\ K.lock # 0 => L = K
<1> DEFINE L == rt_schedule(K)
           h == HighestReady(K)
<1>1. K \in KState /\ h \in S
  BY HighestReadyIs DEF Lists
<1>2. CASE K.lock # 0
  BY <1>2 DEF rt_schedule, SameElsewhere
<1>3. CASE K.lock = 0
  <2>1. L = [K EXCEPT !.cur = h, !.owed = FALSE]
    BY <1>3 DEF rt_schedule
  <2> HIDE DEF L, h
  <2>2. L \in KState /\ L.cur = h /\ L.owed = FALSE
    BY <1>1, <2>1 DEF KState
  <2>3. /\ L.ready = K.ready /\ L.group = K.group /\ SameElsewhere(L, K)
        /\ L.stat = K.stat /\ L.prio = K.prio /\ L.lock = K.lock
        /\ L.slice = K.slice /\ L.error = K.error /\ L.timer = K.timer
    BY <1>1, <2>1 DEF KState, SameElsewhere
  <2>4. Lists(L, S) /\ HighestReady(L) = HighestReady(K)
    BY <2>2, <2>3, ListsKept
  <2> QED  BY <1>1, <1>3, <2>2, <2>3, <2>4 DEF L, h
<1> QED  BY <1>2, <1>3

(* A thread that yields goes to the end of its list.                       *)
LEMMA Rotated ==
  ASSUME NEW K, NEW S \in SUBSET Thread, Lists(K, S), OnceElsewhere(K),
         K.cur \in S, ~Elsewhere(K, K.cur)
  PROVE  LET L == Rotate(K)
         IN  Lists(L, S) /\ SameButLists(L, K) /\ SameElsewhere(L, K)
<1> DEFINE c == K.cur
           R == rt_list_remove(K, c)
           L == Rotate(K)
           p == K.prio[c]
           a == Append(R.ready[p], c)
           r == [R.ready EXCEPT ![p] = a]
<1>1. /\ K \in KState /\ K.prio \in [Thread -> Prio] /\ K.ready \in [Prio -> Seq(Thread)]
      /\ K.group = {q \in Prio : K.ready[q] # <<>>}
      /\ \A q \in Prio : Once(K.ready[q])
      /\ c \in Thread
  BY DEF Lists, KState
<1>2. p \in Prio
  BY <1>1
<1>3. /\ R \in KState /\ SameButLists(R, K) /\ R.group = K.group
      /\ R.ready = [q \in Prio |-> Without(K.ready[q], c)]
      /\ R.queue = K.queue /\ R.defunct = K.defunct
  <2>1. /\ [q \in Queues |-> Without(K.queue[q], c)] = K.queue
        /\ Without(K.defunct, c) = K.defunct
    BY <1>1, NotElsewhere
  <2>2. /\ R \in KState /\ SameButLists(R, K) /\ R.group = K.group
        /\ R.ready = [q \in Prio |-> Without(K.ready[q], c)]
        /\ R.queue = [q \in Queues |-> Without(K.queue[q], c)]
        /\ R.defunct = Without(K.defunct, c)
    BY <1>1, ListRemove
  <2> QED  BY <2>1, <2>2
<1>4. L = [R EXCEPT !.ready = r]
  <2>1. R.prio[c] = p
    BY <1>3 DEF SameButLists
  <2> QED  BY <2>1 DEF Rotate
<1>5. ASSUME NEW q \in Prio
      PROVE  /\ R.ready[q] \in Seq(Thread) /\ Once(R.ready[q])
             /\ \A u : In(R.ready[q], u) <=> In(K.ready[q], u) /\ u # c
             /\ ~In(K.ready[q], c) => R.ready[q] = K.ready[q]
  <2>1. R.ready[q] = Without(K.ready[q], c) /\ K.ready[q] \in Seq(Thread)
    BY <1>1, <1>3
  <2> QED  BY <1>1, <2>1, WithoutIn
<1>6. \A q \in Prio : In(K.ready[q], c) <=> q = p
  BY <1>1 DEF Lists
<1> HIDE DEF c, p, R, L
<1>7. /\ a \in Seq(Thread) /\ a # <<>> /\ Once(a)
      /\ \A u : In(a, u) <=> In(R.ready[p], u) \/ u = c
  <2>1. R.ready[p] \in Seq(Thread) /\ Once(R.ready[p]) /\ ~In(R.ready[p], c) /\ c \in Thread
    BY <1>1, <1>2, <1>5
  <2> QED  BY <2>1, AppendIn
<1> HIDE DEF a
<1>8. R.ready \in [Prio -> Seq(Thread)] /\ r \in [Prio -> Seq(Thread)]
      /\ r[p] = a /\ \A q \in Prio : q # p => r[q] = K.ready[q]
  <2>1. R.ready \in [Prio -> Seq(Thread)]
    BY <1>3 DEF KState
  <2> QED  BY <1>2, <1>5, <1>6, <1>7, <2>1
<1> HIDE DEF r
<1>9. L \in KState /\ L.ready = r
  BY <1>3, <1>4, <1>8 DEF KState
<1>10. SameButLists(L, K) /\ L.group = K.group /\ L.queue = K.queue /\ L.defunct = K.defunct
  BY <1>3, <1>4 DEF KState, SameButLists
<1>11. L.group = {q \in Prio : L.ready[q] # <<>>}
  <2>1. K.ready[p] # <<>>
    BY <1>2, <1>6 DEF In
  <2> QED  BY <1>1, <1>2, <1>7, <1>8, <1>9, <1>10, <2>1
<1>12. \A q \in Prio : Once(L.ready[q])
  BY <1>1, <1>7, <1>8, <1>9
<1>13. ASSUME NEW q \in Prio, NEW u \in Thread
       PROVE  In(L.ready[q], u) <=> u \in S /\ L.prio[u] = q
  <2>1. (In(K.ready[q], u) <=> u \in S /\ K.prio[u] = q) /\ L.prio = K.prio
    BY <1>10 DEF Lists, SameButLists
  <2>2. CASE q = p
    <3>1. In(L.ready[q], u) <=> (In(K.ready[q], u) /\ u # c) \/ u = c
      BY <1>5, <1>7, <1>8, <1>9, <2>2
    <3>2. In(K.ready[q], c)
      BY <1>6, <2>2
    <3> QED  BY <2>1, <3>1, <3>2
  <2>3. CASE q # p
    BY <1>8, <1>9, <2>1, <2>3
  <2> QED  BY <2>2, <2>3
<1> QED  BY <1>9, <1>10, <1>11, <1>12, <1>13 DEF Lists, SameElsewhere, L

(* The time slice of the thread that runs, at a tick.                      *)
LEMMA SliceCounted ==
  ASSUME NEW K, NEW S \in SUBSET Thread, Lists(K, S), S # {}, OnceElsewhere(K),
         K.cur \in Thread, \A t \in Thread : K.slice[t] \in 1..InitTick[t],
         K.stat[K.cur] = "ready" => K.cur \in S /\ ~Elsewhere(K, K.cur)
  PROVE  LET L == CountSlice(K)
         IN  /\ Lists(L, S) /\ SameElsewhere(L, K)
             /\ L.stat = K.stat /\ L.prio = K.prio /\ L.lock = K.lock
             /\ L.error = K.error /\ L.timer = K.timer
             /\ \A t \in Thread : L.slice[t] \in 1..InitTick[t]
             /\ \/ /\ L.cur = K.cur /\ L.owed = K.owed
                   /\ K.lock = 0 => HighestReady(L) = HighestReady(K)
                \/ /\ K.lock = 0 /\ L.cur = HighestReady(L) /\ L.cur \in S /\ L.owed = FALSE
<1> DEFINE c == K.cur
           n == IF K.slice[c] = 1 THEN InitTick[c] ELSE K.slice[c] - 1
           M == [K EXCEPT !.slice = [K.slice EXCEPT ![c] = n]]
           L == CountSlice(K)
<1>1. K \in KState /\ K.slice \in [Thread -> Nat] /\ c \in Thread
  BY DEF Lists, KState
<1>2. n \in 1..InitTick[c] /\ n \in Nat
  BY <1>1, Priorities
<1> HIDE DEF n
<1>3. M \in KState /\ M.slice = [K.slice EXCEPT ![c] = n]
  BY <1>1, <1>2 DEF KState
<1>4. /\ M.ready = K.ready /\ M.group = K.group /\ M.queue = K.queue /\ M.defunct = K.defunct
      /\ M.stat = K.stat /\ M.prio = K.prio /\ M.cur = K.cur /\ M.lock = K.lock
      /\ M.error = K.error /\ M.timer = K.timer /\ M.owed = K.owed
  BY <1>1 DEF KState
<1>5. \A t \in Thread : M.slice[t] \in 1..InitTick[t]
  BY <1>1, <1>2, <1>3
<1>6. L = M \/ (Yields(M) /\ L = rt_schedule(Rotate(M)))
  BY Zenon DEF CountSlice, rt_thread_yield, n, M
<1> HIDE DEF M, L
<1>7. Lists(M, S) /\ HighestReady(M) = HighestReady(K)
  BY <1>3, <1>4, ListsKept
<1>8. CASE L = M
  BY <1>4, <1>5, <1>7, <1>8 DEF L, SameElsewhere
<1>9. CASE Yields(M) /\ L = rt_schedule(Rotate(M))
  <2> DEFINE R == Rotate(M)
  <2>1. M.cur \in S /\ ~Elsewhere(M, M.cur) /\ OnceElsewhere(M)
    BY <1>4, <1>9 DEF Yields, Elsewhere, OnceElsewhere
  <2>2. Lists(R, S) /\ SameButLists(R, M) /\ SameElsewhere(R, M)
    BY <1>7, <2>1, Rotated
  <2> HIDE DEF R
  <2>3. /\ Lists(L, S) /\ SameElsewhere(L, R)
        /\ L.stat = R.stat /\ L.prio = R.prio /\ L.lock = R.lock
        /\ L.slice = R.slice /\ L.error = R.error /\ L.timer = R.timer
        /\ R.lock = 0 => L.cur = HighestReady(L) /\ L.cur \in S /\ L.owed = FALSE
        /\ R.lock # 0 => L = R
    BY <1>9, <2>2, Scheduled DEF R
  <2>4. CASE K.lock = 0
    BY <1>4, <1>5, <2>2, <2>3, <2>4 DEF L, SameButLists, SameElsewhere
  <2>5. CASE K.lock # 0
    BY <1>4, <1>5, <2>2, <2>3, <2>5 DEF L, SameButLists, SameElsewhere
  <2> QED  BY <2>4, <2>5
<1> QED  BY <1>6, <1>8, <1>9

(* A time-out, or a handler that resumes it, puts the thread back and lets *)
(* the first of highest priority run, unless the scheduler is locked.      *)
TimesOut(L, K, S, t) ==
  /\ Lists(L, S \cup {t}) /\ SameElsewhere(L, K)
  /\ L.stat = [K.stat EXCEPT ![t] = "ready"] /\ L.prio = K.prio
  /\ L.lock = K.lock /\ L.slice = K.slice
  /\ L.timer = [K.timer EXCEPT ![t] = 0]
  /\ K.lock = 0 => L.cur = HighestReady(L) /\ L.cur \in S \cup {t} /\ L.owed = FALSE
  /\ K.lock # 0 => L.cur = K.cur /\ L.owed = K.owed

LEMMA TimedOut ==
  ASSUME NEW K, NEW S \in SUBSET Thread, Lists(K, S), OnceElsewhere(K),
         NEW t \in Thread, t \notin S, ~Elsewhere(K, t)
  PROVE  TimesOut(rt_thread_timeout(K, t), K, S, t)
<1> DEFINE M == [K EXCEPT !.error[t] = "ETIMEOUT", !.timer[t] = 0]
           I == rt_schedule_insert_thread(M, t)
           L == rt_thread_timeout(K, t)
<1>1. K \in KState
  BY DEF Lists
<1>2. M \in KState
  BY <1>1 DEF KState
<1>3. /\ M.ready = K.ready /\ M.group = K.group /\ M.queue = K.queue /\ M.defunct = K.defunct
      /\ M.stat = K.stat /\ M.prio = K.prio /\ M.cur = K.cur /\ M.lock = K.lock
      /\ M.slice = K.slice /\ M.owed = K.owed
      /\ M.error = [K.error EXCEPT ![t] = "ETIMEOUT"] /\ M.timer = [K.timer EXCEPT ![t] = 0]
  BY <1>1 DEF KState
<1>4. Lists(M, S) /\ OnceElsewhere(M) /\ ~Elsewhere(M, t)
  BY <1>2, <1>3, ListsKept DEF OnceElsewhere, Elsewhere
<1>5. L = rt_schedule(rt_schedule_insert_thread(rt_list_remove(M, t), t))
  BY DEF rt_thread_timeout
<1> HIDE DEF M, L
<1>6. rt_list_remove(M, t) = M
  BY <1>4, ListRemoveNothing
<1>7. L = rt_schedule(I)
  BY <1>5, <1>6
<1>8. /\ Lists(I, S \cup {t}) /\ SameElsewhere(I, M)
      /\ I.stat = [M.stat EXCEPT ![t] = "ready"] /\ I.prio = M.prio
      /\ I.cur = M.cur /\ I.lock = M.lock /\ I.slice = M.slice /\ I.error = M.error
      /\ I.timer = M.timer /\ I.owed = M.owed
  BY <1>4, Inserted
<1> HIDE DEF I
<1>9. /\ Lists(L, S \cup {t}) /\ SameElsewhere(L, I)
      /\ L.stat = I.stat /\ L.prio = I.prio /\ L.lock = I.lock
      /\ L.slice = I.slice /\ L.error = I.error /\ L.timer = I.timer
      /\ I.lock = 0 => L.cur = HighestReady(L) /\ L.cur \in S \cup {t} /\ L.owed = FALSE
      /\ I.lock # 0 => L = I
  BY <1>7, <1>8, Scheduled
<1> QED  BY <1>3, <1>8, <1>9 DEF L, SameElsewhere, TimesOut

LEMMA Resumed ==
  ASSUME NEW K, NEW S \in SUBSET Thread, Lists(K, S), OnceElsewhere(K),
         NEW t \in Thread, t \notin S, ~Elsewhere(K, t), K.stat[t] = "suspend"
  PROVE  TimesOut(rt_schedule(rt_thread_resume(K, t)), K, S, t)
<1> DEFINE M == [K EXCEPT !.timer[t] = 0]
           I == rt_schedule_insert_thread(M, t)
           L == rt_schedule(rt_thread_resume(K, t))
<1>1. K \in KState
  BY DEF Lists
<1>2. M \in KState
  BY <1>1 DEF KState
<1>3. /\ M.ready = K.ready /\ M.group = K.group /\ M.queue = K.queue /\ M.defunct = K.defunct
      /\ M.stat = K.stat /\ M.prio = K.prio /\ M.cur = K.cur /\ M.lock = K.lock
      /\ M.slice = K.slice /\ M.owed = K.owed /\ M.timer = [K.timer EXCEPT ![t] = 0]
  BY <1>1 DEF KState
<1>4. Lists(M, S)
  BY <1>2, <1>3, ListsKept
<1>5. L = rt_schedule(I)
  <2>1. rt_list_remove(K, t) = K
    BY ListRemoveNothing
  <2> QED  BY <2>1 DEF rt_thread_resume, ResumeUnlink
<1> HIDE DEF M, L
<1>6. /\ Lists(I, S \cup {t}) /\ SameElsewhere(I, M)
      /\ I.stat = [M.stat EXCEPT ![t] = "ready"] /\ I.prio = M.prio
      /\ I.cur = M.cur /\ I.lock = M.lock /\ I.slice = M.slice
      /\ I.timer = M.timer /\ I.owed = M.owed
  BY <1>4, Inserted
<1> HIDE DEF I
<1>7. /\ Lists(L, S \cup {t}) /\ SameElsewhere(L, I)
      /\ L.stat = I.stat /\ L.prio = I.prio /\ L.lock = I.lock
      /\ L.slice = I.slice /\ L.timer = I.timer
      /\ I.lock = 0 => L.cur = HighestReady(L) /\ L.cur \in S \cup {t} /\ L.owed = FALSE
      /\ I.lock # 0 => L = I
  BY <1>5, <1>6, Scheduled
<1> QED  BY <1>3, <1>6, <1>7 DEF L, SameElsewhere, TimesOut

(* A ready thread that is suspended.                                       *)
LEMMA Suspended ==
  ASSUME NEW K, NEW S, Lists(K, S), OnceElsewhere(K), NEW t \in Thread,
         K.stat[t] = "ready", ~Elsewhere(K, t)
  PROVE  LET L == rt_thread_suspend(K, t)
         IN  /\ Lists(L, S \ {t}) /\ SameElsewhere(L, K)
             /\ L.stat = [K.stat EXCEPT ![t] = "suspend"] /\ L.prio = K.prio
             /\ L.cur = K.cur /\ L.lock = K.lock /\ L.slice = K.slice /\ L.error = K.error
             /\ L.timer = [K.timer EXCEPT ![t] = 0] /\ L.owed = K.owed
<1> DEFINE R == rt_schedule_remove_thread(K, t)
           L == rt_thread_suspend(K, t)
<1>1. K \in KState /\ /\ [q \in Queues |-> Without(K.queue[q], t)] = K.queue
                      /\ Without(K.defunct, t) = K.defunct
  BY NotElsewhere DEF Lists
<1>2. /\ Lists(R, S \ {t}) /\ SameButLists(R, K)
      /\ R.queue = K.queue /\ R.defunct = K.defunct
  BY <1>1, Removed
<1>3. L = [R EXCEPT !.stat[t] = "suspend", !.timer[t] = 0]
  BY DEF rt_thread_suspend
<1> HIDE DEF R, L
<1>4. R \in KState
  BY <1>2 DEF Lists
<1>5. L \in KState
  BY <1>3, <1>4 DEF KState, Stats
<1>6. /\ L.ready = R.ready /\ L.group = R.group /\ L.queue = R.queue /\ L.defunct = R.defunct
      /\ L.stat = [R.stat EXCEPT ![t] = "suspend"] /\ L.prio = R.prio
      /\ L.cur = R.cur /\ L.lock = R.lock /\ L.slice = R.slice /\ L.error = R.error
      /\ L.timer = [R.timer EXCEPT ![t] = 0] /\ L.owed = R.owed
  BY <1>3, <1>4 DEF KState
<1>7. Lists(L, S \ {t})
  BY <1>2, <1>5, <1>6, ListsKept
<1> QED  BY <1>2, <1>6, <1>7 DEF L, SameButLists, SameElsewhere

(* RT_THREAD_CTRL_CHANGE_PRIORITY.                                         *)
ChangesOnlyPriority(L, K, S, t, p) ==
  /\ Lists(L, S) /\ SameElsewhere(L, K)
  /\ L.stat = K.stat /\ L.prio = [K.prio EXCEPT ![t] = p]
  /\ L.cur = K.cur /\ L.lock = K.lock /\ L.slice = K.slice /\ L.error = K.error
  /\ L.timer = K.timer /\ L.owed = K.owed

LEMMA PriorityChanged ==
  ASSUME NEW K, NEW S, Lists(K, S), OnceElsewhere(K), NEW t \in Thread, NEW p \in Prio,
         K.stat[t] = "ready" <=> t \in S, t \in S => ~Elsewhere(K, t)
  PROVE  ChangesOnlyPriority(ChangePriority(K, t, p), K, S, t, p)
<1> DEFINE L == ChangePriority(K, t, p)
           R == rt_schedule_remove_thread(K, t)
           M == [R EXCEPT !.prio[t] = p]
<1>1. K \in KState
  BY DEF Lists
<1>2. CASE K.stat[t] # "ready"
  <2>1. L = [K EXCEPT !.prio[t] = p] /\ t \notin S
    BY <1>2 DEF ChangePriority
  <2> HIDE DEF L
  <2>2. L \in KState
    BY <1>1, <2>1 DEF KState
  <2>3. /\ L.ready = K.ready /\ L.group = K.group /\ L.queue = K.queue /\ L.defunct = K.defunct
        /\ L.stat = K.stat /\ L.prio = [K.prio EXCEPT ![t] = p]
        /\ L.cur = K.cur /\ L.lock = K.lock /\ L.slice = K.slice /\ L.error = K.error
        /\ L.timer = K.timer /\ L.owed = K.owed
    BY <1>1, <2>1 DEF KState
  <2>4. \A u \in S : L.prio[u] = K.prio[u]
    BY <1>1, <2>1, <2>3 DEF KState
  <2>5. Lists(L, S)
    BY <2>2, <2>3, <2>4, ListsPrio
  <2> QED  BY <2>3, <2>5 DEF L, SameElsewhere, ChangesOnlyPriority
<1>3. CASE K.stat[t] = "ready"
  <2>1. L = rt_schedule_insert_thread(M, t) /\ t \in S
    BY <1>3 DEF ChangePriority
  <2>2. /\ Lists(R, S \ {t}) /\ SameButLists(R, K)
        /\ R.queue = K.queue /\ R.defunct = K.defunct
    <3>1. /\ [q \in Queues |-> Without(K.queue[q], t)] = K.queue
          /\ Without(K.defunct, t) = K.defunct
      BY <1>1, <2>1, NotElsewhere
    <3> QED  BY <3>1, Removed
  <2> HIDE DEF R
  <2>3. R \in KState
    BY <2>2 DEF Lists
  <2>4. M \in KState
    BY <2>3 DEF KState
  <2>5. /\ M.ready = R.ready /\ M.group = R.group /\ M.queue = R.queue /\ M.defunct = R.defunct
        /\ M.stat = R.stat /\ M.prio = [R.prio EXCEPT ![t] = p]
        /\ M.cur = R.cur /\ M.lock = R.lock /\ M.slice = R.slice /\ M.error = R.error
        /\ M.timer = R.timer /\ M.owed = R.owed
    BY <2>3 DEF KState
  <2> HIDE DEF M
  <2>6. \A u \in S \ {t} : M.prio[u] = R.prio[u]
    BY <2>3, <2>5 DEF KState
  <2>7. Lists(M, S \ {t})
    BY <2>2, <2>4, <2>5, <2>6, ListsPrio
  <2>8. t \notin S \ {t} /\ (S \ {t}) \cup {t} = S
    BY <2>1
  <2> HIDE DEF L
  <2>9. /\ Lists(L, S) /\ SameElsewhere(L, M)
        /\ L.stat = [M.stat EXCEPT ![t] = "ready"] /\ L.prio = M.prio
        /\ L.cur = M.cur /\ L.lock = M.lock /\ L.slice = M.slice /\ L.error = M.error
        /\ L.timer = M.timer /\ L.owed = M.owed
    <3> DEFINE W == S \ {t}
    <3>1. Lists(M, W) /\ t \notin W
      BY <2>7
    <3>2. W \cup {t} = S
      BY <2>8
    <3> HIDE DEF W
    <3> QED  BY <2>1, <3>1, <3>2, Inserted
  <2>10. [K.stat EXCEPT ![t] = "ready"] = K.stat
    BY <1>1, <1>3 DEF KState
  <2> QED  BY <2>2, <2>5, <2>9, <2>10 DEF L, SameButLists, SameElsewhere, ChangesOnlyPriority
<1> QED  BY <1>2, <1>3

(* A finite set in some order.                                             *)
LEMMA SetToSeqIs ==
  ASSUME NEW S, IsFiniteSet(S)
  PROVE  /\ SetToSeq(S) \in Seq(S) /\ Once(SetToSeq(S))
         /\ \A t : In(SetToSeq(S), t) <=> t \in S
<1> DEFINE n == Cardinality(S)
           s == SetToSeq(S)
<1>1. n \in Nat /\ ExistsBijection(1..n, S)
  BY FS_CardinalityType
<1>2. PICK f \in Bijection(1..n, S) : TRUE
  BY <1>1 DEF ExistsBijection
<1>3. f \in [1..n -> S] /\ IsInjective(f)
  BY <1>2 DEF Bijection, Injection
<1>4. s \in [1..n -> S] /\ IsInjective(s)
  BY <1>3 DEF SetToSeq
<1> HIDE DEF s, n
<1>5. s \in Injection(1..n, S)
  BY <1>4 DEF Injection
<1>6. IsFiniteSet(1..n) /\ Cardinality(1..n) = n
  <2>1. 1 \in Int /\ n \in Int
    BY <1>1
  <2>2. /\ IsFiniteSet(1..n)
        /\ Cardinality(1..n) = IF 1 > n THEN 0 ELSE n - 1 + 1
    BY <2>1, FS_Interval
  <2> QED  BY <1>1, <2>2
<1>7. s \in Surjection(1..n, S)
  BY <1>5, <1>6, FS_Injection DEF n
<1>8. s \in Seq(S) /\ Len(s) = n
  BY <1>1, <1>4
<1>9. Once(s)
  BY <1>4, <1>8 DEF Once, IsInjective
<1>10. ASSUME NEW t  PROVE In(s, t) <=> t \in S
  BY <1>4, <1>7, <1>8 DEF In, Surjection
<1> QED  BY <1>8, <1>9, <1>10 DEF s

(* The threads of the system at its start.                                 *)
LEMMA Booted ==
  ASSUME NEW T \in SUBSET Thread, T # {}, IsFiniteSet(T)
  PROVE  LET L == Boot(T)
         IN  /\ Lists(L, T) /\ L.cur = HighestReady(L) /\ L.cur \in T /\ L.owed = FALSE
             /\ L.stat = [t \in Thread |-> IF t \in T THEN "ready" ELSE "init"]
             /\ L.prio = InitPrio /\ L.lock = 0 /\ L.slice = InitTick
             /\ L.error = [t \in Thread |-> "EOK"] /\ L.timer = [t \in Thread |-> 0]
             /\ L.queue = [q \in Queues |-> <<>>] /\ L.defunct = <<>>
<1> DEFINE r == [p \in Prio |-> SetToSeq({t \in T : InitPrio[t] = p})]
           g == {InitPrio[t] : t \in T}
           st == [t \in Thread |-> IF t \in T THEN "ready" ELSE "init"]
           N == [NoneReady EXCEPT !.stat = st, !.ready = r, !.group = g]
           L == Boot(T)
<1>1. L = rt_schedule(N)
  BY DEF Boot
<1>2. InitPrio \in [Thread -> Prio] /\ InitTick \in [Thread -> Nat]
  BY KernelAssumption
<1>3. ASSUME NEW p \in Prio
      PROVE  /\ r[p] \in Seq(Thread) /\ Once(r[p])
             /\ \A t : In(r[p], t) <=> t \in T /\ InitPrio[t] = p
  <2> DEFINE X == {t \in T : InitPrio[t] = p}
  <2>1. IsFiniteSet(X)
    BY FS_Subset
  <2>2. X \subseteq Thread
    OBVIOUS
  <2> HIDE DEF X
  <2>3. /\ SetToSeq(X) \in Seq(X) /\ Once(SetToSeq(X))
        /\ \A t : In(SetToSeq(X), t) <=> t \in X
    BY <2>1, SetToSeqIs
  <2>4. Seq(X) \subseteq Seq(Thread)
    BY <2>2
  <2>5. r[p] = SetToSeq(X)
    BY DEF X
  <2> HIDE DEF r
  <2> QED  BY <2>3, <2>4, <2>5 DEF X
<1>4. r \in [Prio -> Seq(Thread)]
  BY <1>3
<1>5. \A t \in T : InitPrio[t] \in Prio
  BY <1>2
<1>6. g \in SUBSET Prio /\ g = {p \in Prio : r[p] # <<>>}
  <2>1. ASSUME NEW p \in Prio  PROVE p \in g <=> r[p] # <<>>
    <3> HIDE DEF r
    <3>1. ASSUME p \in g  PROVE r[p] # <<>>
      <4>1. PICK t \in T : InitPrio[t] = p
        BY <3>1
      <4> QED  BY <1>3, <4>1 DEF In
    <3>2. ASSUME r[p] # <<>>  PROVE p \in g
      <4>1. PICK t \in Thread : In(r[p], t)
        BY <1>3, <3>2, NoneIn
      <4> QED  BY <1>3, <4>1
    <3> QED  BY <3>1, <3>2
  <2>2. g \subseteq Prio
    BY <1>5
  <2> HIDE DEF r, g
  <2> QED  BY <2>1, <2>2
<1>7. st \in [Thread -> Stats]
  BY DEF Stats
<1> HIDE DEF r, g, st, L
<1>8. NoneReady \in KState
  <2>1. [q \in Queues |-> <<>>] \in [Queues -> Seq(Thread)]
    OBVIOUS
  <2>2. [t \in Thread |-> 0] \in [Thread -> Nat]
    OBVIOUS
  <2>3. [t \in Thread |-> "EOK"] \in [Thread -> {"EOK", "ETIMEOUT", "ERROR"}]
    OBVIOUS
  <2>4. [p \in Prio |-> <<>>] \in [Prio -> Seq(Thread)]
    OBVIOUS
  <2>5. [t \in Thread |-> "init"] \in [Thread -> Stats]
    BY DEF Stats
  <2>6. <<>> \in Seq(Thread)
    OBVIOUS
  <2> QED  BY <1>2, <2>1, <2>2, <2>3, <2>4, <2>5, <2>6 DEF KState, NoneReady
<1>9. /\ N \in KState /\ N.stat = st /\ N.prio = InitPrio /\ N.ready = r /\ N.group = g
      /\ N.lock = 0 /\ N.slice = InitTick /\ N.error = [t \in Thread |-> "EOK"]
      /\ N.timer = [t \in Thread |-> 0] /\ N.queue = [q \in Queues |-> <<>>]
      /\ N.defunct = <<>>
  <2>1. N \in KState /\ N.stat = st /\ N.ready = r /\ N.group = g
    BY <1>4, <1>6, <1>7, <1>8 DEF KState
  <2>2. /\ N.prio = NoneReady.prio /\ N.lock = NoneReady.lock /\ N.slice = NoneReady.slice
        /\ N.error = NoneReady.error /\ N.timer = NoneReady.timer
        /\ N.queue = NoneReady.queue /\ N.defunct = NoneReady.defunct
    BY <1>8 DEF KState
  <2> QED  BY <2>1, <2>2, SMTT(30) DEF NoneReady
<1> HIDE DEF N
<1>10. Lists(N, T)
  BY <1>3, <1>6, <1>9 DEF Lists
<1>11. /\ Lists(L, T) /\ HighestReady(L) = HighestReady(N) /\ SameElsewhere(L, N)
       /\ L.stat = N.stat /\ L.prio = N.prio /\ L.lock = N.lock
       /\ L.slice = N.slice /\ L.error = N.error /\ L.timer = N.timer
       /\ N.lock = 0 => L.cur = HighestReady(L) /\ L.cur \in T /\ L.owed = FALSE
  BY <1>1, <1>10, Scheduled
<1> QED  BY <1>9, <1>11 DEF L, st, SameElsewhere
-----------------------------------------------------------------------------
(* The calls under way: idle frees a thread, the manager is at a place in  *)
(* one of its functions, or a thread that is not idle waits for the        *)
(* scheduler.                                                              *)
Scheduling == [pc : {"user", "schedule", "slept", "gone"}, then : {"user", "slept", "gone"}]
Resuming == [pc : {"unlink", "insert"}, on : Others, then : {"user", "schedule"}]
Handling == [pc : {"suspend", "untime", "close", "bury"}, on : Others]
Freeing == [pc : {"free"}, on : Dynamic]

Call == {InUser} \cup Scheduling \cup Resuming \cup Handling \cup Freeing
Managing == {"unlink", "insert", "suspend", "untime", "close", "bury"}

CallsInv ==
  /\ call \in [Thread -> Call]
  /\ call[Idle].pc \in {"user", "free"}
  /\ \A t \in Thread : call[t].pc \in Managing => t = Manager
  /\ \A t \in Thread : call[t].pc = "free" => t = Idle

Doing(pcs, t) == call[Manager].pc \in pcs /\ call[Manager].on = t
Frees(t) == call[Idle].pc = "free" /\ call[Idle].on = t
Quiet(t) == k.timer[t] = 0 /\ t \notin due

(* The ready lists hold the threads that are ready, but for one that the   *)
(* manager has taken out to delete it; the other lists hold no thread      *)
(* twice.                                                                  *)
Members == {t \in Thread : k.stat[t] = "ready" /\ ~BeingDeleted(t)}

ListsInv ==
  /\ Lists(k, Members)
  /\ k.queue = [q \in Queues |-> <<>>] /\ Once(k.defunct)

RestTypes ==
  /\ k.cur \in Thread /\ k.lock \in 0..MaxLock
  /\ \A t \in Thread : k.slice[t] \in 1..InitTick[t]
  /\ \A t \in Thread : k.timer[t] > 0 => \E n \in Times : k.timer[t] <= n
  /\ due \subseteq Thread

(* A thread waits for idle, or idle frees it, only when its deletion is    *)
(* over, and it does not run.                                              *)
Grave(t) ==
  /\ In(k.defunct, t) => /\ k.stat[t] = "close" /\ t \in Dynamic
                         /\ ~BeingDeleted(t) /\ ~Frees(t)
  /\ Frees(t) => k.stat[t] = "close" /\ ~BeingDeleted(t) /\ k.cur # t

(* A timer runs only for a thread that is suspended; rt_thread_resume and  *)
(* rt_thread_delete stop it before they go on.                             *)
Timed(t) ==
  ~Quiet(t) => k.stat[t] = "suspend" /\ ~Doing({"insert", "close", "bury"}, t)

(* What the manager found when it began still holds at the places in       *)
(* between, as nothing raced with it.                                      *)
Handled(t) ==
  /\ Doing({"unlink", "insert"}, t) => k.stat[t] = "suspend"
  /\ Doing({"suspend"}, t) => k.stat[t] = "ready"
  /\ Doing({"bury"}, t) => k.stat[t] = "close"
  /\ BeingDeleted(t) => k.cur # t

GraveInv == \A t \in Thread : Grave(t)
TimerInv == \A t \in Thread : Timed(t)
HandledInv == \A t \in Thread : Handled(t)

(* Idle is always ready; a thread that runs and is not ready is about to   *)
(* call the scheduler, which is not locked.                                *)
RunnerInv ==
  /\ k.stat[Idle] = "ready"
  /\ \/ k.cur \in Members
     \/ k.stat[k.cur] \in {"suspend", "close"} /\ k.lock = 0 /\ call[k.cur].pc = "schedule"

BestInv ==
  due = {} /\ k.lock = 0 /\ ~k.owed /\ call[k.cur].pc # "schedule" => k.cur = HighestReady(k)

IInv ==
  /\ CallsInv /\ ListsInv /\ RestTypes /\ GraveInv /\ TimerInv /\ HandledInv
  /\ RunnerInv /\ BestInv
-----------------------------------------------------------------------------
(* What the invariant says of one thread, or of the thread that runs.      *)
LEMMA CallIs ==
  ASSUME CallsInv, NEW t \in Thread
  PROVE  /\ call[t].pc \in {"user", "schedule", "slept", "gone", "unlink", "insert",
                            "suspend", "untime", "close", "bury", "free"}
         /\ call[t].pc = "schedule" =>
              call[t].then \in {"user", "slept", "gone"} /\ call[t] \in Scheduling
         /\ call[t].pc \in {"unlink", "insert"} =>
              call[t].on \in Others /\ call[t].then \in {"user", "schedule"} /\ call[t] \in Resuming
         /\ call[t].pc \in Managing => call[t].on \in Others /\ t = Manager
         /\ call[t].pc \in {"suspend", "untime", "close", "bury"} => call[t] \in Handling
         /\ call[t].pc = "free" => call[t].on \in Dynamic /\ t = Idle
         /\ Aged(call[t]) = call[t]
<1>1. call[t] \in Call
  BY DEF CallsInv
<1>2. CASE call[t] = InUser
  BY <1>2 DEF InUser, Managing, Aged
<1>3. CASE call[t] \in Scheduling
  BY <1>3 DEF Scheduling, Managing, Aged
<1>4. CASE call[t] \in Resuming
  BY <1>4 DEF Resuming, Managing, Aged, CallsInv
<1>5. CASE call[t] \in Handling
  BY <1>5 DEF Handling, Managing, Aged, CallsInv
<1>6. CASE call[t] \in Freeing
  BY <1>6 DEF Freeing, Managing, Aged, CallsInv
<1> QED  BY <1>1, <1>2, <1>3, <1>4, <1>5, <1>6 DEF Call

LEMMA Roles ==
  /\ Idle \in Thread /\ Manager \in Thread /\ Manager # Idle
  /\ Idle \notin Others /\ Manager \notin Others /\ Others \subseteq Thread
  /\ Dynamic \subseteq Others
BY KernelAssumption, ThreadsAssumption DEF Others

LEMMA CallSet ==
  ASSUME CallsInv, NEW t \in Thread, NEW c \in Call, call' = [call EXCEPT ![t] = c],
         t = Idle => c.pc \in {"user", "free"}, c.pc \in Managing => t = Manager,
         c.pc = "free" => t = Idle
  PROVE  CallsInv' /\ call'[t] = c /\ \A u \in Thread : u # t => call'[u] = call[u]
<1>1. call \in [Thread -> Call]
  BY DEF CallsInv
<1>2. call' \in [Thread -> Call] /\ call'[t] = c /\ \A u \in Thread : u # t => call'[u] = call[u]
  BY <1>1
<1> QED  BY <1>2, Roles DEF CallsInv

LEMMA CallGoto ==
  ASSUME CallsInv, NEW t \in Thread, NEW pc, Goto(t, pc),
         [call[t] EXCEPT !.pc = pc] \in Call,
         t = Idle => pc \in {"user", "free"}, pc \in Managing => t = Manager,
         pc = "free" => t = Idle, call[t].pc # "free"
  PROVE  /\ CallsInv' /\ call'[t] = [call[t] EXCEPT !.pc = pc] /\ call'[t].pc = pc
         /\ \A u \in Thread : u # t => call'[u] = call[u]
<1> DEFINE c == [call[t] EXCEPT !.pc = pc]
<1>1. call' = [call EXCEPT ![t] = c]
  BY DEF Goto
<1>2. c.pc = pc
  <2>1. "pc" \in DOMAIN call[t]
    <3>1. call[t] \in Call
      BY DEF CallsInv
    <3> QED  BY <3>1 DEF Call, InUser, Scheduling, Resuming, Handling, Freeing
  <2> QED  BY <2>1
<1> HIDE DEF c
<1>3. c \in Call
  BY DEF c
<1>4. CallsInv' /\ call'[t] = c /\ \A u \in Thread : u # t => call'[u] = call[u]
  BY <1>1, <1>2, <1>3, CallSet
<1> QED  BY <1>2, <1>4 DEF c

LEMMA Basics ==
  ASSUME IInv
  PROVE  /\ k \in KState /\ OnceElsewhere(k)
         /\ k.stat \in [Thread -> Stats] /\ k.prio \in [Thread -> Prio]
         /\ k.timer \in [Thread -> Nat] /\ k.defunct \in Seq(Thread) /\ k.cur \in Thread
         /\ Lists(k, Members) /\ Members \in SUBSET Thread /\ Members # {} /\ Idle \in Members
         /\ \A t \in Thread : BeingDeleted(t) => t \in Others
         /\ \A t \in Thread : Elsewhere(k, t) <=> In(k.defunct, t)
         /\ \A t \in Thread : k.stat[t] # "close" => ~Elsewhere(k, t)
<1>1. Lists(k, Members) /\ k.queue = [q \in Queues |-> <<>>] /\ Once(k.defunct)
  BY DEF IInv, ListsInv
<1>2. k \in KState
  BY <1>1 DEF Lists
<1>3. \A q \in Queues : k.queue[q] = <<>>
  BY <1>1
<1>4. OnceElsewhere(k)
  BY <1>1, <1>3 DEF OnceElsewhere, Once
<1>5. ASSUME NEW t \in Thread  PROVE Elsewhere(k, t) <=> In(k.defunct, t)
  BY <1>3 DEF Elsewhere, In
<1>6. ASSUME NEW t \in Thread, k.stat[t] # "close"  PROVE ~Elsewhere(k, t)
  BY <1>5, <1>6 DEF IInv, GraveInv, Grave
<1>7. ASSUME NEW t \in Thread, BeingDeleted(t)  PROVE t \in Others
  <2>1. call[Manager].pc \in Managing /\ call[Manager].on = t
    BY <1>7 DEF BeingDeleted, Managing
  <2> QED  BY <2>1, Roles, CallIs DEF IInv
<1>8. Idle \in Members
  BY <1>7, Roles DEF IInv, RunnerInv, Members
<1>9. k.stat \in [Thread -> Stats] /\ k.prio \in [Thread -> Prio]
      /\ k.timer \in [Thread -> Nat] /\ k.defunct \in Seq(Thread)
  BY <1>2 DEF KState
<1> QED  BY <1>1, <1>2, <1>4, <1>5, <1>6, <1>7, <1>8, <1>9 DEF Members, IInv, RestTypes

(* A thread that is not about to call the scheduler runs because it is     *)
(* ready.                                                                  *)
LEMMA Running ==
  ASSUME IInv, NEW t \in Thread, NEW pc, At(t, pc), pc # "schedule"
  PROVE  /\ k.cur = t /\ due = {} /\ call[t].pc = pc /\ t \in Members /\ k.stat[t] = "ready"
         /\ ~BeingDeleted(t) /\ ~Elsewhere(k, t)
<1>1. k.cur = t /\ due = {} /\ call[t].pc = pc
  BY DEF At, Runs
<1>2. t \in Members
  BY <1>1 DEF IInv, RunnerInv
<1> QED  BY <1>1, <1>2, Basics DEF Members, IInv, HandledInv, Handled

(* A step that leaves the work of the manager and of idle as it is.        *)
SameWork ==
  /\ call'[Idle] = call[Idle]
  /\ \/ call'[Manager] = call[Manager]
     \/ call[Manager].pc \notin Managing /\ call'[Manager].pc \notin Managing

LEMMA SameWorkIs ==
  ASSUME SameWork, NEW t
  PROVE  /\ BeingDeleted(t)' <=> BeingDeleted(t)
         /\ Frees(t)' <=> Frees(t)
         /\ Doing({"unlink", "insert"}, t)' <=> Doing({"unlink", "insert"}, t)
         /\ Doing({"suspend"}, t)' <=> Doing({"suspend"}, t)
         /\ Doing({"bury"}, t)' <=> Doing({"bury"}, t)
         /\ Doing({"insert", "close", "bury"}, t)' <=> Doing({"insert", "close", "bury"}, t)
BY DEF SameWork, BeingDeleted, Frees, Doing, Managing

(* Steps that change no thread's state: the scheduler may switch to a      *)
(* thread of highest priority.                                             *)
LEMMA OnlySwitches ==
  ASSUME IInv, SameWork, k'.stat = k.stat, k'.defunct = k.defunct,
         \A t \in Thread : Quiet(t) => Quiet(t)',
         \/ k'.cur = k.cur
         \/ k'.cur \in Members /\ \A t \in Members : k.prio[k'.cur] <= k.prio[t]
  PROVE  Members' = Members /\ GraveInv' /\ TimerInv' /\ HandledInv'
<1>1. Members' = Members
  BY SameWorkIs DEF Members
<1>2. \A t \in Thread : Frees(t) \/ BeingDeleted(t) => k'.cur # t
  BY DEF IInv, GraveInv, Grave, HandledInv, Handled, Members
<1>3. GraveInv'
  BY <1>2, SameWorkIs DEF IInv, GraveInv, Grave
<1>4. TimerInv'
  BY SameWorkIs DEF IInv, TimerInv, Timed
<1>5. HandledInv'
  BY <1>2, SameWorkIs DEF IInv, HandledInv, Handled
<1> QED  BY <1>1, <1>3, <1>4, <1>5

(* A step that races with nothing leaves the thread that the manager has   *)
(* in its hands, unless it is the manager's.                               *)
LEMMA NotInHand ==
  ASSUME ~Overtaken, call'[Manager] = call[Manager], NEW t, k'.stat[t] # k.stat[t]
  PROVE  /\ ~BeingDeleted(t) /\ ~Doing({"unlink", "insert"}, t) /\ ~Doing({"suspend"}, t)
         /\ ~Doing({"bury"}, t) /\ ~Doing({"insert", "close", "bury"}, t)
<1>1. t \notin InHand
  BY DEF Overtaken
<1>2. call[Manager].pc \in {"unlink", "insert", "suspend", "untime", "close", "bury"}
        => call[Manager].on # t
  BY <1>1 DEF InHand
<1> QED  BY <1>2 DEF BeingDeleted, Doing
-----------------------------------------------------------------------------
(* Each kind of step keeps the invariant.  First those of interrupts and   *)
(* of threads that call the scheduler.                                     *)
LEMMA TickKeeps ==
  ASSUME IInv, Tick
  PROVE  IInv' /\ k'.stat = k.stat /\ (k'.cur = k.cur \/ k'.cur \in Members')
<1> DEFINE L == CountSlice(k)
           tm == [t \in Thread |-> IF L.timer[t] > 0 THEN L.timer[t] - 1 ELSE 0]
<1>1. /\ due = {} /\ k' = [L EXCEPT !.timer = tm] /\ due' = {t \in Thread : k.timer[t] = 1}
      /\ call' = [t \in Thread |-> Aged(call[t])]
  BY DEF Tick
<1>2. call' = call
  BY <1>1, CallIs DEF IInv, CallsInv
<1>3. k.stat[k.cur] = "ready" => k.cur \in Members /\ ~Elsewhere(k, k.cur)
  BY Basics DEF IInv, RunnerInv
<1>4. /\ Lists(L, Members) /\ SameElsewhere(L, k)
      /\ L.stat = k.stat /\ L.prio = k.prio /\ L.lock = k.lock
      /\ L.error = k.error /\ L.timer = k.timer
      /\ \A t \in Thread : L.slice[t] \in 1..InitTick[t]
      /\ \/ /\ L.cur = k.cur /\ L.owed = k.owed
            /\ k.lock = 0 => HighestReady(L) = HighestReady(k)
         \/ /\ k.lock = 0 /\ L.cur = HighestReady(L) /\ L.cur \in Members /\ L.owed = FALSE
  BY <1>3, Basics, SliceCounted DEF IInv, RestTypes
<1> HIDE DEF L
<1>5. L \in KState
  BY <1>4 DEF Lists
<1>6. tm \in [Thread -> Nat] /\ \A t \in Thread : tm[t] = IF k.timer[t] > 0 THEN k.timer[t] - 1 ELSE 0
  BY <1>4, Basics
<1> HIDE DEF tm
<1>7. k' \in KState /\ k'.timer = tm
  BY <1>1, <1>5, <1>6 DEF KState
<1>8. /\ k'.ready = L.ready /\ k'.group = L.group /\ k'.prio = L.prio /\ k'.stat = L.stat
      /\ k'.cur = L.cur /\ k'.lock = L.lock /\ k'.slice = L.slice /\ k'.owed = L.owed
      /\ k'.queue = L.queue /\ k'.defunct = L.defunct
  BY <1>1, <1>5 DEF KState
<1>9. Lists(k', Members) /\ HighestReady(k') = HighestReady(L)
  BY <1>4, <1>7, <1>8, ListsKept
<1>10. SameWork
  BY <1>2 DEF SameWork
<1>11. \A t \in Thread : Quiet(t) => Quiet(t)'
  BY <1>1, <1>6, <1>7 DEF Quiet
<1>12. \/ k'.cur = k.cur
       \/ k'.cur \in Members /\ \A t \in Members : k.prio[k'.cur] <= k.prio[t]
  BY <1>4, <1>8, HighestReadyIs, Basics
<1>13. Members' = Members /\ GraveInv' /\ TimerInv' /\ HandledInv'
  BY <1>4, <1>8, <1>10, <1>11, <1>12, OnlySwitches DEF SameElsewhere
<1>14. CallsInv'
  BY <1>2 DEF IInv, CallsInv
<1>15. ListsInv'
  BY <1>4, <1>8, <1>9, <1>13 DEF IInv, ListsInv, SameElsewhere
<1>16. RestTypes'
  <2>1. k'.cur \in Thread
    BY <1>12, Basics
  <2>2. \A t \in Thread : k'.timer[t] > 0 => \E n \in Times : k'.timer[t] <= n
    <3> SUFFICES ASSUME NEW t \in Thread, k'.timer[t] > 0
                 PROVE  \E n \in Times : k'.timer[t] <= n
      OBVIOUS
    <3>1. k.timer[t] \in Nat /\ k.timer[t] > 0 /\ k'.timer[t] = k.timer[t] - 1
      BY <1>6, <1>7, Basics
    <3>2. PICK n \in Times : k.timer[t] <= n
      BY <3>1 DEF IInv, RestTypes
    <3>3. n \in Nat
      BY ThreadsAssumption
    <3> QED  BY <3>1, <3>2, <3>3
  <2> QED  BY <1>1, <1>4, <1>8, <2>1, <2>2 DEF IInv, RestTypes
<1>17. RunnerInv'
  BY <1>2, <1>4, <1>8, <1>13 DEF IInv, RunnerInv
<1>18. BestInv'
  BY <1>1, <1>2, <1>4, <1>8, <1>9 DEF IInv, BestInv
<1> QED  BY <1>4, <1>8, <1>12, <1>13, <1>14, <1>15, <1>16, <1>17, <1>18 DEF IInv

(* A suspended thread is put back by an interrupt.                         *)
LEMMA BackKeeps ==
  ASSUME IInv, ~Overtaken, NEW t \in Thread, k.stat[t] = "suspend",
         TimesOut(k', k, Members, t), call' = call, due' = due \ {t}
  PROVE  IInv' /\ StaysClosed
<1>1. call' = call /\ due' = due \ {t}
  OBVIOUS
<1>4. /\ Lists(k', Members \cup {t}) /\ SameElsewhere(k', k)
      /\ k'.stat = [k.stat EXCEPT ![t] = "ready"] /\ k'.prio = k.prio
      /\ k'.lock = k.lock /\ k'.slice = k.slice
      /\ k'.timer = [k.timer EXCEPT ![t] = 0]
      /\ k.lock = 0 => k'.cur = HighestReady(k') /\ k'.cur \in Members \cup {t} /\ k'.owed = FALSE
      /\ k.lock # 0 => k'.cur = k.cur /\ k'.owed = k.owed
  BY DEF TimesOut
<1>2. /\ k.stat[t] = "suspend" /\ ~BeingDeleted(t) /\ ~Doing({"suspend"}, t)
      /\ ~Doing({"unlink", "insert"}, t) /\ ~Doing({"bury"}, t)
      /\ ~Doing({"insert", "close", "bury"}, t)
  <2>1. k'.stat[t] # k.stat[t]
    BY <1>4, Basics
  <2> QED  BY <1>1, <2>1, NotInHand
<1>3. t \notin Members /\ ~Elsewhere(k, t)
  BY <1>2, Basics DEF Members
<1>5. SameWork
  BY <1>1 DEF SameWork
<1>6. Members' = Members \cup {t}
  BY <1>2, <1>4, <1>5, SameWorkIs, Basics DEF Members
<1>7. \A u \in Thread : k'.stat[u] = IF u = t THEN "ready" ELSE k.stat[u]
  BY <1>4, Basics
<1>8. k'.defunct = k.defunct /\ k'.queue = k.queue
  BY <1>4 DEF SameElsewhere
<1>9. k'.cur = k.cur \/ k'.cur \in Members'
  BY <1>4, <1>6
<1>10. CallsInv'
  BY <1>1 DEF IInv, CallsInv
<1>11. ListsInv'
  BY <1>4, <1>6, <1>8 DEF IInv, ListsInv
<1>12. RestTypes'
  <2>1. k'.cur \in Thread
    BY <1>6, <1>9, Basics
  <2>2. \A u \in Thread : k'.timer[u] = IF u = t THEN 0 ELSE k.timer[u]
    BY <1>4, Basics
  <2>3. \A u \in Thread : k'.timer[u] > 0 => \E n \in Times : k'.timer[u] <= n
    BY <2>2 DEF IInv, RestTypes
  <2> QED  BY <1>1, <1>4, <2>1, <2>3 DEF IInv, RestTypes
<1>13. \A u \in Thread : Frees(u) \/ BeingDeleted(u) => k'.cur # u
  <2> SUFFICES ASSUME NEW u \in Thread, Frees(u) \/ BeingDeleted(u)  PROVE k'.cur # u
    OBVIOUS
  <2>1. k.cur # u
    BY DEF IInv, GraveInv, Grave, HandledInv, Handled
  <2>2. u \notin Members'
    BY <1>2, <1>6 DEF IInv, GraveInv, Grave, Members
  <2> QED  BY <1>9, <2>1, <2>2
<1>14. GraveInv'
  BY <1>2, <1>5, <1>7, <1>8, <1>13, SameWorkIs DEF IInv, GraveInv, Grave
<1>15. \A u \in Thread : Quiet(u) => Quiet(u)'
  <2>1. \A u \in Thread : k'.timer[u] = IF u = t THEN 0 ELSE k.timer[u]
    BY <1>4, Basics
  <2> QED  BY <1>1, <2>1 DEF Quiet
<1>16. Quiet(t)'
  <2>1. k'.timer[t] = 0
    BY <1>4, Basics
  <2> QED  BY <1>1, <2>1 DEF Quiet
<1>17. TimerInv'
  BY <1>5, <1>7, <1>15, <1>16, SameWorkIs DEF IInv, TimerInv, Timed
<1>19. HandledInv'
  BY <1>2, <1>5, <1>7, <1>13, SameWorkIs DEF IInv, HandledInv, Handled
<1>20. RunnerInv'
  <2>1. k'.stat[Idle] = "ready"
    BY <1>7, Roles DEF IInv, RunnerInv
  <2>2. k.lock # 0 => k.cur \in Members
    BY DEF IInv, RunnerInv
  <2> QED  BY <1>4, <1>6, <2>1, <2>2 DEF RunnerInv
<1>21. BestInv'
  BY <1>4 DEF BestInv
<1>22. StaysClosed
  BY <1>2, <1>7, <1>9 DEF StaysClosed, Members
<1> QED  BY <1>10, <1>11, <1>12, <1>14, <1>17, <1>19, <1>20, <1>21, <1>22 DEF IInv

LEMMA ExpireKeeps ==
  ASSUME IInv, ~Overtaken, NEW t \in Thread, Expire(t)
  PROVE  IInv' /\ StaysClosed
<1>1. t \in due /\ k' = rt_thread_timeout(k, t) /\ due' = due \ {t} /\ call' = call
  BY DEF Expire
<1>2. k.stat[t] = "suspend"
  BY <1>1 DEF IInv, TimerInv, Timed, Quiet
<1>3. /\ t \notin Members /\ ~Elsewhere(k, t)
      /\ Lists(k, Members) /\ OnceElsewhere(k) /\ Members \in SUBSET Thread
  BY <1>2, Basics DEF Members
<1>4. TimesOut(k', k, Members, t)
  BY <1>1, <1>3, TimedOut
<1> QED  BY <1>1, <1>2, <1>4, BackKeeps

LEMMA ResumedByInterruptKeeps ==
  ASSUME IInv, ~Overtaken, NEW u \in Others, ResumedByInterrupt(u)
  PROVE  IInv' /\ StaysClosed
<1>1. /\ due = {} /\ k.stat[u] = "suspend" /\ k' = rt_schedule(rt_thread_resume(k, u))
      /\ call' = call /\ due' = due
  BY DEF ResumedByInterrupt
<1>2. /\ u \in Thread /\ u \notin Members /\ ~Elsewhere(k, u)
      /\ Lists(k, Members) /\ OnceElsewhere(k) /\ Members \in SUBSET Thread
  BY <1>1, Basics, Roles DEF Members
<1>3. TimesOut(k', k, Members, u)
  BY <1>1, <1>2, Resumed
<1>4. due' = due \ {u}
  BY <1>1
<1> QED  BY <1>1, <1>2, <1>3, <1>4, BackKeeps
-----------------------------------------------------------------------------
(* A step of a thread with the state of one thread u: whoever works on a   *)
(* thread, before it or after it, works on u.                              *)
WorkOn(u) ==
  /\ \/ call'[Manager] = call[Manager]
     \/ /\ call[Manager].pc \in Managing => call[Manager].on = u
        /\ call'[Manager].pc \in Managing => call'[Manager].on = u
  /\ \/ call'[Idle] = call[Idle]
     \/ /\ call[Idle].pc = "free" => call[Idle].on = u
        /\ call'[Idle].pc = "free" => call'[Idle].on = u

SameFor(t) ==
  /\ k'.stat[t] = k.stat[t] /\ k'.prio[t] = k.prio[t] /\ k'.timer[t] = k.timer[t]
  /\ In(k'.defunct, t) <=> In(k.defunct, t)

LEMMA OthersKept ==
  ASSUME IInv, NEW u \in Thread, WorkOn(u), k'.cur = k.cur, due' = due,
         \A t \in Thread \ {u} : SameFor(t),
         NEW t \in Thread, t # u
  PROVE  /\ (Grave(t) /\ Timed(t) /\ Handled(t))'
         /\ t \in Members' <=> t \in Members
<1>1. /\ BeingDeleted(t)' <=> BeingDeleted(t)
      /\ Frees(t)' <=> Frees(t)
      /\ Doing({"unlink", "insert"}, t)' <=> Doing({"unlink", "insert"}, t)
      /\ Doing({"suspend"}, t)' <=> Doing({"suspend"}, t)
      /\ Doing({"bury"}, t)' <=> Doing({"bury"}, t)
      /\ Doing({"insert", "close", "bury"}, t)' <=> Doing({"insert", "close", "bury"}, t)
  BY DEF WorkOn, BeingDeleted, Frees, Doing, Managing
<1>2. Grave(t) /\ Timed(t) /\ Handled(t)
  BY DEF IInv, GraveInv, TimerInv, HandledInv
<1>3. SameFor(t)
  OBVIOUS
<1>4. Grave(t)'
  BY <1>1, <1>2, <1>3 DEF Grave, SameFor
<1>5. Timed(t)'
  BY <1>1, <1>2, <1>3 DEF Timed, Quiet, SameFor
<1>6. Handled(t)'
  BY <1>1, <1>2, <1>3 DEF Handled, SameFor
<1>7. t \in Members' <=> t \in Members
  BY <1>1, <1>3 DEF Members, SameFor
<1> QED  BY <1>4, <1>5, <1>6, <1>7

(* What is left to show for such a step: the facts of thread u, and what   *)
(* the invariant says of no thread in particular.                          *)
LEMMA Assembled ==
  ASSUME IInv, NEW u \in Thread, WorkOn(u), k'.cur = k.cur, due' = due,
         \A t \in Thread \ {u} : SameFor(t),
         (Grave(u) /\ Timed(u) /\ Handled(u))',
         CallsInv', ListsInv', RestTypes', RunnerInv', BestInv'
  PROVE  IInv'
<1>1. \A t \in Thread : (Grave(t) /\ Timed(t) /\ Handled(t))'
  BY OthersKept
<1>2. GraveInv' /\ TimerInv' /\ HandledInv'
  BY <1>1 DEF GraveInv, TimerInv, HandledInv
<1> QED  BY <1>2 DEF IInv

LEMMA MembersAre ==
  ASSUME IInv, NEW u \in Thread, WorkOn(u), k'.cur = k.cur, due' = due,
         \A t \in Thread \ {u} : SameFor(t)
  PROVE  /\ u \in Members' => Members' = Members \cup {u}
         /\ u \notin Members' => Members' = Members \ {u}
<1>1. \A t \in Thread \ {u} : t \in Members' <=> t \in Members
  BY OthersKept
<1>2. Members' \subseteq Thread /\ Members \subseteq Thread
  BY DEF Members
<1> QED  BY <1>1, <1>2

LEMMA RestKept ==
  ASSUME IInv, k'.cur \in Thread, k'.lock \in 0..MaxLock,
         \A t \in Thread : k'.slice[t] = k.slice[t] \/ k'.slice[t] = InitTick[t],
         \A t \in Thread : k'.timer[t] = k.timer[t] \/ k'.timer[t] = 0 \/ k'.timer[t] \in Times,
         due' \subseteq Thread
  PROVE  RestTypes'
<1>1. \A t \in Thread : k'.slice[t] \in 1..InitTick[t]
  BY Priorities DEF IInv, RestTypes
<1>2. \A n \in Times : n <= n
  BY ThreadsAssumption
<1>3. \A t \in Thread : k'.timer[t] > 0 => \E n \in Times : k'.timer[t] <= n
  BY <1>2 DEF IInv, RestTypes
<1> QED  BY <1>1, <1>3 DEF RestTypes

LEMMA IdleFrees ==
  ASSUME IInv, NEW t \in Thread, k.stat[t] # "close"
  PROVE  ~Frees(t) /\ ~In(k.defunct, t) /\ ~Elsewhere(k, t)
BY Basics DEF IInv, GraveInv, Grave

LEMMA ManagerFree ==
  ASSUME call[Manager].pc \notin Managing, NEW t
  PROVE  /\ ~BeingDeleted(t) /\ ~Doing({"unlink", "insert"}, t) /\ ~Doing({"suspend"}, t)
         /\ ~Doing({"bury"}, t) /\ ~Doing({"insert", "close", "bury"}, t)
BY DEF Doing, BeingDeleted, Managing
-----------------------------------------------------------------------------
(* Steps of threads that call the scheduler.                               *)
LEMMA SchedulingCalls ==
  /\ InUser \in Call /\ InUser.pc = "user"
  /\ \A then \in {"user", "slept", "gone"} :
       ScheduleThen(then) \in Call /\ ScheduleThen(then).pc = "schedule"
BY DEF Call, Scheduling, ScheduleThen, InUser

(* A thread that is not idle calls the kernel, or returns.                 *)
LEMMA OneCalls ==
  ASSUME IInv, NEW t \in Thread \ {Idle}, NEW c \in Call, Calls(t, c),
         call[t].pc \notin Managing, c.pc \notin Managing \cup {"free"}
  PROVE  /\ CallsInv' /\ SameWork /\ call'[t] = c
         /\ \A u \in Thread : u # t => call'[u] = call[u]
<1>1. CallsInv' /\ call'[t] = c /\ \A u \in Thread : u # t => call'[u] = call[u]
  BY CallSet DEF IInv, Calls
<1>2. SameWork
  BY <1>1, Roles DEF SameWork
<1> QED  BY <1>1, <1>2

LEMMA ScheduleKeeps ==
  ASSUME IInv, NEW t \in Thread \ {Idle}, Schedule(t)
  PROVE  IInv' /\ StaysClosed
<1>1. /\ k.cur = t /\ due = {} /\ call[t].pc = "schedule" /\ k' = rt_schedule(k)
      /\ Goto(t, call[t].then) /\ due' = due
  BY DEF Schedule, At, Runs
<1>2. /\ call[t].then \in {"user", "slept", "gone"} /\ call[t] \in Scheduling
  BY <1>1, CallIs DEF IInv
<1>3. [call[t] EXCEPT !.pc = call[t].then] \in Scheduling
  BY <1>2 DEF Scheduling
<1>4. /\ CallsInv' /\ call'[t].pc \in {"user", "slept", "gone"}
      /\ \A u \in Thread : u # t => call'[u] = call[u]
  <2>1. [call[t] EXCEPT !.pc = call[t].then] \in Call
    BY <1>3 DEF Call
  <2>2. call[t].then \notin Managing /\ call[t].then # "free"
    BY <1>2 DEF Managing
  <2> QED  BY <1>1, <1>2, <2>1, <2>2, CallGoto DEF IInv
<1>5. SameWork
  BY <1>1, <1>4, Roles DEF SameWork, Managing
<1>6. Lists(k, Members) /\ Members \in SUBSET Thread /\ Members # {}
  BY Basics
<1>7. /\ Lists(k', Members) /\ HighestReady(k') = HighestReady(k) /\ SameElsewhere(k', k)
      /\ k'.stat = k.stat /\ k'.prio = k.prio /\ k'.lock = k.lock
      /\ k'.slice = k.slice /\ k'.error = k.error /\ k'.timer = k.timer
      /\ k.lock = 0 => k'.cur = HighestReady(k') /\ k'.cur \in Members /\ k'.owed = FALSE
      /\ k.lock # 0 => k' = k
  BY <1>1, <1>6, Scheduled
<1>8. \/ k'.cur = k.cur
      \/ k'.cur \in Members /\ \A u \in Members : k.prio[k'.cur] <= k.prio[u]
  BY <1>6, <1>7, HighestReadyIs
<1>9. \A u \in Thread : Quiet(u) => Quiet(u)'
  BY <1>1, <1>7 DEF Quiet
<1>10. Members' = Members /\ GraveInv' /\ TimerInv' /\ HandledInv'
  BY <1>5, <1>7, <1>8, <1>9, OnlySwitches DEF SameElsewhere
<1>11. ListsInv'
  BY <1>7, <1>10 DEF IInv, ListsInv, SameElsewhere
<1>12. RestTypes'
  BY <1>1, <1>6, <1>7, <1>8, Basics, RestKept DEF IInv, RestTypes
<1>13. RunnerInv'
  BY <1>7, <1>10 DEF IInv, RunnerInv
<1>14. BestInv'
  BY <1>7 DEF BestInv
<1>15. StaysClosed
  BY <1>7, <1>8 DEF StaysClosed, Members
<1> QED  BY <1>4, <1>10, <1>11, <1>12, <1>13, <1>14, <1>15 DEF IInv

(* Steps that neither switch nor change a thread's state.                  *)
LEMMA NoSwitch ==
  ASSUME IInv, SameWork, CallsInv', k'.cur = k.cur, k'.stat = k.stat, k'.timer = k.timer,
         k'.slice = k.slice, SameElsewhere(k', k), due' = due,
         k'.lock \in 0..MaxLock, k.stat[k.cur] = "ready", Lists(k', Members),
         BestInv'
  PROVE  IInv' /\ StaysClosed
<1>1. \A u \in Thread : Quiet(u) => Quiet(u)'
  BY DEF Quiet
<1>2. Members' = Members /\ GraveInv' /\ TimerInv' /\ HandledInv'
  BY <1>1, OnlySwitches DEF SameElsewhere
<1>3. ListsInv'
  BY <1>2 DEF IInv, ListsInv, SameElsewhere
<1>4. RestTypes'
  BY Basics, RestKept DEF IInv, RestTypes
<1>5. RunnerInv'
  BY <1>2 DEF IInv, RunnerInv
<1>6. StaysClosed
  BY DEF StaysClosed
<1> QED  BY <1>2, <1>3, <1>4, <1>5, <1>6 DEF IInv

LEMMA SleptKeeps ==
  ASSUME IInv, NEW t \in Thread \ {Idle}, Slept(t)
  PROVE  IInv' /\ StaysClosed
<1>1. /\ At(t, "slept") /\ due' = due /\ Calls(t, InUser)
      /\ k' = IF k.error[t] = "ETIMEOUT" THEN [k EXCEPT !.error[t] = "EOK"] ELSE k
  BY DEF Slept, Return, Calls
<1>2. k.cur = t /\ due = {} /\ call[t].pc = "slept" /\ k.stat[t] = "ready"
  BY <1>1, Running
<1>3. CallsInv' /\ SameWork /\ call'[t] = InUser
  BY <1>1, <1>2, SchedulingCalls, OneCalls DEF Managing
<1>4. k \in KState /\ Lists(k, Members)
  BY Basics
<1>5. /\ k' \in KState /\ k'.stat = k.stat /\ k'.prio = k.prio /\ k'.ready = k.ready
      /\ k'.group = k.group /\ k'.cur = k.cur /\ k'.lock = k.lock /\ k'.slice = k.slice
      /\ k'.timer = k.timer /\ k'.queue = k.queue /\ k'.defunct = k.defunct /\ k'.owed = k.owed
  BY <1>1, <1>4 DEF KState
<1>6. Lists(k', Members) /\ HighestReady(k') = HighestReady(k)
  BY <1>4, <1>5, ListsKept
<1>7. BestInv'
  BY <1>2, <1>5, <1>6 DEF IInv, BestInv
<1> QED  BY <1>1, <1>2, <1>3, <1>5, <1>6, <1>7, NoSwitch DEF SameElsewhere, IInv, RestTypes

LEMMA YieldKeeps ==
  ASSUME IInv, NEW t \in Thread \ {Idle}, Yield(t)
  PROVE  IInv' /\ StaysClosed
<1>1. /\ At(t, "user") /\ k' = Rotate(k) /\ Calls(t, ScheduleThen("user"))
      /\ due' = due
  BY DEF Yield, User
<1>2. /\ k.cur = t /\ due = {} /\ call[t].pc = "user" /\ k.stat[t] = "ready" /\ t \in Members
      /\ ~Elsewhere(k, t)
  BY <1>1, Running
<1>3. CallsInv' /\ SameWork /\ call'[t].pc = "schedule"
  BY <1>1, <1>2, SchedulingCalls, OneCalls DEF Managing
<1>4. Lists(k, Members) /\ OnceElsewhere(k) /\ Members \in SUBSET Thread
  BY Basics
<1>5. Lists(k', Members) /\ SameButLists(k', k) /\ SameElsewhere(k', k)
  BY <1>1, <1>2, <1>4, Rotated
<1>6. BestInv'
  BY <1>2, <1>3, <1>5 DEF BestInv, SameButLists
<1> QED  BY <1>1, <1>2, <1>3, <1>5, <1>6, NoSwitch DEF SameButLists, IInv, RestTypes

LEMMA EnterKeeps ==
  ASSUME IInv, NEW t \in Thread \ {Idle}, rt_enter_critical(t)
  PROVE  IInv' /\ StaysClosed
<1>1. /\ At(t, "user") /\ k.lock < MaxLock /\ k' = [k EXCEPT !.lock = @ + 1] /\ call' = call
      /\ due' = due
  BY DEF rt_enter_critical, User
<1>2. k.cur = t /\ k.stat[t] = "ready"
  BY <1>1, Running
<1>3. CallsInv' /\ SameWork
  BY <1>1 DEF CallsInv, SameWork, IInv
<1>4. k \in KState /\ Lists(k, Members) /\ k.lock \in 0..MaxLock /\ MaxLock \in Nat
  BY Basics, ThreadsAssumption DEF IInv, RestTypes
<1>5. k'.lock \in 1..MaxLock /\ k'.lock \in 0..MaxLock /\ k'.lock \in Nat /\ k'.lock # 0
  BY <1>1, <1>4, SMTT(30) DEF KState
<1>6. /\ k' \in KState /\ k'.stat = k.stat /\ k'.prio = k.prio /\ k'.ready = k.ready
      /\ k'.group = k.group /\ k'.cur = k.cur /\ k'.slice = k.slice
      /\ k'.timer = k.timer /\ k'.queue = k.queue /\ k'.defunct = k.defunct
  <2>1. k.lock \in Nat /\ k.lock + 1 \in Nat
    BY <1>4 DEF KState
  <2> DEFINE n == k.lock + 1
  <2>2. k' = [k EXCEPT !.lock = n]
    BY <1>1
  <2> HIDE DEF n
  <2>3. n \in Nat
    BY <2>1 DEF n
  <2> QED  BY <1>4, <2>2, <2>3 DEF KState
<1>7. Lists(k', Members)
  BY <1>4, <1>6, ListsKept
<1>8. BestInv'
  BY <1>5 DEF BestInv
<1> QED  BY <1>1, <1>2, <1>3, <1>5, <1>6, <1>7, <1>8, NoSwitch DEF SameElsewhere

LEMMA ExitKeeps ==
  ASSUME IInv, NEW t \in Thread \ {Idle}, rt_exit_critical(t)
  PROVE  IInv' /\ StaysClosed
<1>1. /\ At(t, "user") /\ k.lock > 0 /\ k' = [k EXCEPT !.lock = @ - 1]
      /\ IF k.lock = 1 THEN Calls(t, ScheduleThen("user")) ELSE call' = call
      /\ due' = due
  BY DEF rt_exit_critical, User
<1>2. k.cur = t /\ k.stat[t] = "ready" /\ call[t].pc = "user"
  BY <1>1, Running
<1>3. CallsInv' /\ SameWork /\ (k.lock = 1 => call'[t].pc = "schedule")
  <2>1. CASE k.lock = 1
    BY <1>1, <1>2, <2>1, SchedulingCalls, OneCalls DEF Managing
  <2>2. CASE k.lock # 1
    BY <1>1, <2>2 DEF CallsInv, SameWork, IInv
  <2> QED  BY <2>1, <2>2
<1>4. k \in KState /\ Lists(k, Members) /\ k.lock \in 0..MaxLock /\ MaxLock \in Nat
  BY Basics, ThreadsAssumption DEF IInv, RestTypes
<1>5. k'.lock \in 0..MaxLock /\ k'.lock \in Nat /\ (k'.lock = 0 => k.lock = 1)
  BY <1>1, <1>4 DEF KState
<1>6. /\ k' \in KState /\ k'.stat = k.stat /\ k'.prio = k.prio /\ k'.ready = k.ready
      /\ k'.group = k.group /\ k'.cur = k.cur /\ k'.slice = k.slice
      /\ k'.timer = k.timer /\ k'.queue = k.queue /\ k'.defunct = k.defunct
  BY <1>1, <1>4, <1>5 DEF KState
<1>7. Lists(k', Members)
  BY <1>4, <1>6, ListsKept
<1>8. BestInv'
  BY <1>2, <1>3, <1>5, <1>6 DEF BestInv
<1> QED  BY <1>1, <1>2, <1>3, <1>5, <1>6, <1>7, <1>8, NoSwitch DEF SameElsewhere

LEMMA ControlKeeps ==
  ASSUME IInv, NEW u \in Others, NEW p \in Prio, Control(u, p)
  PROVE  IInv' /\ StaysClosed
<1> DEFINE L == ChangePriority(k, u, p)
<1>1. /\ At(Manager, "user") /\ k.stat[u] \in {"ready", "suspend"}
      /\ k' = [L EXCEPT !.owed = TRUE]
      /\ call' = call /\ due' = due
  BY DEF Control, User
<1>2. k.cur = Manager /\ k.stat[Manager] = "ready" /\ call[Manager].pc = "user"
  BY <1>1, Running, Roles
<1>3. CallsInv' /\ SameWork
  BY <1>1 DEF CallsInv, SameWork, IInv
<1>4. /\ Lists(k, Members) /\ OnceElsewhere(k) /\ ~Elsewhere(k, u) /\ u \in Thread
      /\ k.stat[u] = "ready" <=> u \in Members
  <2>1. ~BeingDeleted(u)
    BY <1>2, ManagerFree DEF Managing
  <2> QED  BY <1>1, <2>1, Basics, Roles DEF Members
<1>5. /\ Lists(L, Members) /\ SameElsewhere(L, k) /\ L.stat = k.stat
      /\ L.cur = k.cur /\ L.lock = k.lock /\ L.slice = k.slice /\ L.timer = k.timer
  <2>1. ChangesOnlyPriority(L, k, Members, u, p)
    BY <1>4, PriorityChanged
  <2> QED  BY <2>1 DEF ChangesOnlyPriority
<1> HIDE DEF L
<1>6. L \in KState
  BY <1>5 DEF Lists
<1>7. /\ k' \in KState /\ k'.stat = L.stat /\ k'.prio = L.prio /\ k'.ready = L.ready
      /\ k'.group = L.group /\ k'.cur = L.cur /\ k'.lock = L.lock /\ k'.slice = L.slice
      /\ k'.timer = L.timer /\ k'.queue = L.queue /\ k'.defunct = L.defunct /\ k'.owed = TRUE
  BY <1>1, <1>6 DEF KState
<1>8. Lists(k', Members)
  BY <1>5, <1>7, ListsKept
<1>9. BestInv'
  BY <1>7 DEF BestInv
<1>10. k'.lock \in 0..MaxLock
  BY <1>5, <1>7 DEF IInv, RestTypes
<1>11. SameElsewhere(k', k)
  BY <1>5, <1>7 DEF SameElsewhere
<1> QED  BY <1>1, <1>2, <1>3, <1>5, <1>7, <1>8, <1>9, <1>10, <1>11, NoSwitch
(* A thread stops: it sleeps, is suspended by itself, or exits.            *)
LEMMA StopKeeps ==
  ASSUME IInv, ~Overtaken, NEW t \in Thread \ {Idle}, At(t, "user"), k.lock = 0,
         NEW then \in {"user", "slept", "gone"}, Calls(t, ScheduleThen(then)), due' = due,
         NEW st \in {"suspend", "close"}, NEW n \in {0} \cup Times,
         Lists(k', Members \ {t}), k'.queue = k.queue,
         k'.stat = [k.stat EXCEPT ![t] = st], k'.timer = [k.timer EXCEPT ![t] = n],
         k'.prio = k.prio, k'.cur = k.cur, k'.lock = k.lock, k'.slice = k.slice,
         \/ k'.defunct = k.defunct
         \/ k'.defunct = <<t>> \o k.defunct /\ st = "close" /\ t \in Dynamic,
         n # 0 => st = "suspend"
  PROVE  IInv' /\ StaysClosed
<1>1. /\ k.cur = t /\ due = {} /\ call[t].pc = "user" /\ t \in Members /\ k.stat[t] = "ready"
      /\ ~BeingDeleted(t) /\ ~Elsewhere(k, t)
  BY Running
<1>2. /\ CallsInv' /\ SameWork /\ call'[t].pc = "schedule"
      /\ \A u \in Thread : u # t => call'[u] = call[u]
  BY <1>1, SchedulingCalls, OneCalls DEF Managing
<1>3. /\ k'.stat[t] = st /\ k'.timer[t] = n
      /\ \A u \in Thread \ {t} : k'.stat[u] = k.stat[u] /\ k'.timer[u] = k.timer[u]
  BY Basics
<1>4. /\ Once(k'.defunct) /\ (In(k'.defunct, t) => st = "close" /\ t \in Dynamic)
      /\ \A u \in Thread \ {t} : In(k'.defunct, u) <=> In(k.defunct, u)
  <2>1. ~In(k.defunct, t) /\ k.defunct \in Seq(Thread) /\ Once(k.defunct)
    BY <1>1, Basics DEF Elsewhere, IInv, ListsInv
  <2>2. CASE k'.defunct = k.defunct
    BY <2>1, <2>2
  <2>3. CASE k'.defunct = <<t>> \o k.defunct /\ st = "close" /\ t \in Dynamic
    BY <2>1, <2>3, ConsIn
  <2> QED  BY <2>2, <2>3
<1>5. \A u \in Thread \ {t} : SameFor(u)
  BY <1>3, <1>4 DEF SameFor
<1>6. WorkOn(t)
  BY <1>2 DEF WorkOn, SameWork
<1>8. /\ ~BeingDeleted(t)' /\ ~Frees(t)' /\ ~Doing({"suspend"}, t)'
      /\ ~Doing({"unlink", "insert"}, t)' /\ ~Doing({"bury"}, t)'
      /\ ~Doing({"insert", "close", "bury"}, t)'
  <2>1. ~Frees(t)
    BY <1>1, IdleFrees
  <2>2. /\ ~Doing({"suspend"}, t) /\ ~Doing({"unlink", "insert"}, t) /\ ~Doing({"bury"}, t)
        /\ ~Doing({"insert", "close", "bury"}, t)
    <3>1. CASE t = Manager
      BY <1>1, <3>1, ManagerFree DEF Managing
    <3>2. CASE t # Manager
      <4>1. call'[Manager] = call[Manager] /\ k'.stat[t] # k.stat[t]
        BY <1>1, <1>2, <1>3, <3>2, Roles
      <4> QED  BY <4>1, NotInHand
    <3> QED  BY <3>1, <3>2
  <2> QED  BY <1>1, <1>2, <2>1, <2>2, SameWorkIs
<1>9. (Grave(t) /\ Timed(t) /\ Handled(t))'
  <2>1. due' = {}
    BY <1>1
  <2> QED  BY <1>3, <1>4, <1>8, <2>1 DEF Grave, Timed, Handled, Quiet
<1>10. Members' = Members \ {t}
  <2>1. t \notin Members'
    BY <1>3 DEF Members
  <2> QED  BY <1>5, <1>6, <2>1, MembersAre
<1>11. ListsInv'
  BY <1>4, <1>10 DEF IInv, ListsInv
<1>12. RestTypes'
  <2>1. due' \subseteq Thread
    BY DEF IInv, RestTypes
  <2>2. k'.cur \in Thread /\ k'.lock \in 0..MaxLock
    BY Basics DEF IInv, RestTypes
  <2>3. \A u \in Thread : k'.timer[u] = k.timer[u] \/ k'.timer[u] = 0 \/ k'.timer[u] \in Times
    BY <1>3
  <2> QED  BY <2>1, <2>2, <2>3, RestKept
<1>13. RunnerInv'
  <2>1. k'.stat[Idle] = "ready"
    BY <1>3, Roles DEF IInv, RunnerInv
  <2> QED  BY <1>1, <1>2, <1>3, <2>1 DEF RunnerInv
<1>14. BestInv'
  BY <1>1, <1>2 DEF BestInv
<1>15. IInv'
  BY <1>2, <1>5, <1>6, <1>9, <1>11, <1>12, <1>13, <1>14, Assembled
<1>16. StaysClosed
  <2>1. \A u \in Thread : k.stat[u] = "close" => u # t
    BY <1>1
  <2> QED  BY <1>3, <2>1 DEF StaysClosed
<1> QED  BY <1>15, <1>16

LEMMA SleepKeeps ==
  ASSUME IInv, ~Overtaken, NEW t \in Thread \ {Idle}, NEW n \in Times, rt_thread_sleep(t, n)
  PROVE  IInv' /\ StaysClosed
<1> DEFINE L == rt_thread_suspend(k, t)
<1>1. /\ At(t, "user") /\ k.lock = 0 /\ k' = [L EXCEPT !.timer[t] = n]
      /\ Calls(t, ScheduleThen("slept")) /\ due' = due
  BY DEF rt_thread_sleep, StartTimer, Calls
<1>2. /\ k.stat[t] = "ready" /\ ~Elsewhere(k, t) /\ Lists(k, Members) /\ OnceElsewhere(k)
  BY <1>1, Running, Basics
<1>3. /\ Lists(L, Members \ {t}) /\ SameElsewhere(L, k)
      /\ L.stat = [k.stat EXCEPT ![t] = "suspend"] /\ L.prio = k.prio
      /\ L.cur = k.cur /\ L.lock = k.lock /\ L.slice = k.slice /\ L.error = k.error
      /\ L.timer = [k.timer EXCEPT ![t] = 0] /\ L.owed = k.owed
  BY <1>2, Suspended
<1> HIDE DEF L
<1>4. L \in KState /\ n \in Nat /\ k.timer \in [Thread -> Nat]
  BY <1>3, Basics, ThreadsAssumption DEF Lists
<1>5. /\ k' \in KState /\ k'.stat = L.stat /\ k'.prio = L.prio /\ k'.ready = L.ready
      /\ k'.group = L.group /\ k'.cur = L.cur /\ k'.lock = L.lock /\ k'.slice = L.slice
      /\ k'.queue = L.queue /\ k'.defunct = L.defunct
  BY <1>1, <1>4 DEF KState
<1>6. k'.timer = [k.timer EXCEPT ![t] = n]
  BY <1>1, <1>3, <1>4 DEF KState
<1>7. Lists(k', Members \ {t})
  BY <1>3, <1>5, ListsKept
<1>8. /\ k'.stat = [k.stat EXCEPT ![t] = "suspend"] /\ k'.prio = k.prio
      /\ k'.cur = k.cur /\ k'.lock = k.lock /\ k'.slice = k.slice
      /\ k'.queue = k.queue /\ k'.defunct = k.defunct
  BY <1>3, <1>5 DEF SameElsewhere
<1> QED  BY <1>1, <1>6, <1>7, <1>8, StopKeeps

LEMMA SuspendSelfKeeps ==
  ASSUME IInv, ~Overtaken, NEW t \in Thread \ {Idle}, SuspendSelf(t)
  PROVE  IInv' /\ StaysClosed
<1>1. /\ At(t, "user") /\ k.lock = 0 /\ k' = rt_thread_suspend(k, t)
      /\ Calls(t, ScheduleThen("user")) /\ due' = due
  BY DEF SuspendSelf, User, Unlocked
<1>2. /\ k.stat[t] = "ready" /\ ~Elsewhere(k, t) /\ Lists(k, Members) /\ OnceElsewhere(k)
  BY <1>1, Running, Basics
<1>3. /\ Lists(k', Members \ {t}) /\ SameElsewhere(k', k)
      /\ k'.stat = [k.stat EXCEPT ![t] = "suspend"] /\ k'.prio = k.prio
      /\ k'.cur = k.cur /\ k'.lock = k.lock /\ k'.slice = k.slice /\ k'.error = k.error
      /\ k'.timer = [k.timer EXCEPT ![t] = 0] /\ k'.owed = k.owed
  BY <1>1, <1>2, Suspended
<1>4. k'.queue = k.queue /\ k'.defunct = k.defunct
  BY <1>3 DEF SameElsewhere
<1> HIDE DEF Calls
<1> QED  BY <1>1, <1>3, <1>4, StopKeeps

(* What becomes of a thread that is taken out of its list.                 *)
LEMMA TakenOut ==
  ASSUME IInv, NEW t \in Thread, k.stat[t] # "close"
  PROVE  LET L == rt_schedule_remove_thread(k, t)
         IN  /\ Lists(L, Members \ {t}) /\ SameButLists(L, k) /\ SameElsewhere(L, k)
             /\ L \in KState /\ (HighestReady(k) # t => HighestReady(L) = HighestReady(k))
<1> DEFINE L == rt_schedule_remove_thread(k, t)
<1>1. /\ Lists(k, Members) /\ OnceElsewhere(k) /\ Members \subseteq Thread /\ Members # {}
      /\ k \in KState /\ ~Elsewhere(k, t)
  BY Basics
<1>2. /\ [q \in Queues |-> Without(k.queue[q], t)] = k.queue /\ Without(k.defunct, t) = k.defunct
  BY <1>1, NotElsewhere
<1>3. /\ Lists(L, Members \ {t}) /\ SameButLists(L, k)
      /\ L.queue = k.queue /\ L.defunct = k.defunct
      /\ HighestReady(k) # t => HighestReady(L) = HighestReady(k)
  BY <1>1, <1>2, Removed
<1> HIDE DEF L
<1>4. L \in KState
  BY <1>3 DEF Lists
<1> QED  BY <1>3, <1>4 DEF L, SameElsewhere

LEMMA ThreadExitKeeps ==
  ASSUME IInv, ~Overtaken, NEW t \in Thread \ {Idle}, rt_thread_exit(t)
  PROVE  IInv' /\ StaysClosed
<1> DEFINE L == rt_schedule_remove_thread(k, t)
           M == [L EXCEPT !.stat[t] = "close", !.timer[t] = 0]
<1>1. /\ At(t, "user") /\ k.lock = 0 /\ k' = Bury(M, t)
      /\ Calls(t, ScheduleThen("gone")) /\ due' = due
  BY DEF rt_thread_exit, User, Unlocked
<1>2. k.stat[t] = "ready"
  BY <1>1, Running
<1>3. Lists(L, Members \ {t}) /\ SameButLists(L, k) /\ SameElsewhere(L, k) /\ L \in KState
  BY <1>2, TakenOut
<1> HIDE DEF L
<1>4. M \in KState
  BY <1>3 DEF KState, Stats
<1>5. /\ M.ready = L.ready /\ M.group = L.group /\ M.queue = L.queue /\ M.defunct = L.defunct
      /\ M.stat = [L.stat EXCEPT ![t] = "close"] /\ M.prio = L.prio
      /\ M.cur = L.cur /\ M.lock = L.lock /\ M.slice = L.slice
      /\ M.timer = [L.timer EXCEPT ![t] = 0]
  BY <1>3 DEF KState
<1> HIDE DEF M
<1>6. M.defunct \in Seq(Thread) /\ <<t>> \o M.defunct \in Seq(Thread)
  <2>1. M.defunct \in Seq(Thread)
    BY <1>4 DEF KState
  <2> QED  BY <2>1, ConsIn
<1>7. /\ k' \in KState /\ k'.ready = M.ready /\ k'.group = M.group /\ k'.queue = M.queue
      /\ k'.stat = M.stat /\ k'.prio = M.prio /\ k'.cur = M.cur /\ k'.lock = M.lock
      /\ k'.slice = M.slice /\ k'.timer = M.timer
      /\ k'.defunct = IF t \in Dynamic THEN <<t>> \o M.defunct ELSE M.defunct
  BY <1>1, <1>4, <1>6 DEF Bury, KState
<1>8. Lists(k', Members \ {t})
  BY <1>3, <1>5, <1>7, ListsKept
<1>9. /\ k'.stat = [k.stat EXCEPT ![t] = "close"] /\ k'.prio = k.prio
      /\ k'.cur = k.cur /\ k'.lock = k.lock /\ k'.slice = k.slice
      /\ k'.queue = k.queue /\ k'.timer = [k.timer EXCEPT ![t] = 0]
      /\ k'.defunct = IF t \in Dynamic THEN <<t>> \o k.defunct ELSE k.defunct
  BY <1>3, <1>5, <1>7 DEF SameElsewhere, SameButLists
<1> QED  BY <1>1, <1>8, <1>9, StopKeeps
-----------------------------------------------------------------------------
(* Steps of the manager, and of idle, with another thread.                 *)
LEMMA WorkKeeps ==
  ASSUME IInv, NEW r \in Thread, NEW pc, At(r, pc), pc # "schedule", NEW u \in Others, u # r,
         WorkOn(u), CallsInv', k'.cur = k.cur, k'.lock = k.lock, due' = due,
         \A t \in Thread \ {u} : SameFor(t), (Grave(u) /\ Timed(u) /\ Handled(u))',
         \A t \in Thread : k'.slice[t] = k.slice[t] \/ k'.slice[t] = InitTick[t],
         k'.timer[u] \in {0, k.timer[u]},
         Lists(k', Members'), k'.queue = k.queue, Once(k'.defunct),
         k.stat[u] = "close" => k'.stat[u] \in {"close", "none", "init"},
         BestInv'
  PROVE  IInv' /\ StaysClosed
<1>1. k.cur = r /\ due = {} /\ r \in Members
  BY Running
<1>2. u \in Thread /\ u # Manager /\ u # Idle /\ Idle \in Thread
  BY Roles
<1>3. \A t \in Thread \ {u} : k'.stat[t] = k.stat[t] /\ k'.timer[t] = k.timer[t]
  BY DEF SameFor
<1>4. ListsInv'
  BY DEF IInv, ListsInv
<1>5. RestTypes'
  <2>1. due' \subseteq Thread
    BY DEF IInv, RestTypes
  <2>2. k'.cur \in Thread /\ k'.lock \in 0..MaxLock
    BY Basics DEF IInv, RestTypes
  <2>3. \A t \in Thread : k'.timer[t] = k.timer[t] \/ k'.timer[t] = 0 \/ k'.timer[t] \in Times
    BY <1>3
  <2> QED  BY <2>1, <2>2, <2>3, RestKept
<1>6. RunnerInv'
  <2>1. k'.stat[Idle] = "ready"
    BY <1>2, <1>3 DEF IInv, RunnerInv
  <2>2. r \in Members'
    BY <1>1, <1>2, OthersKept
  <2> QED  BY <1>1, <2>1, <2>2 DEF RunnerInv
<1>7. IInv'
  BY <1>2, <1>4, <1>5, <1>6, Assembled
<1>8. StaysClosed
  BY <1>3 DEF StaysClosed
<1> QED  BY <1>7, <1>8

(* The manager's next call, or the next place in it.                       *)
LEMMA ManagerCalls ==
  ASSUME IInv, NEW c \in Call, Calls(Manager, c), c.pc # "free"
  PROVE  CallsInv' /\ call'[Manager] = c /\ call'[Idle] = call[Idle]
BY Roles, CallSet DEF IInv, Calls

LEMMA ManagerGoesOn ==
  ASSUME IInv, NEW pc, Goto(Manager, pc),
         \/ call[Manager] \in Resuming /\ pc = "insert"
         \/ call[Manager] \in Handling /\ pc \in {"close", "bury"}
  PROVE  /\ CallsInv' /\ call'[Manager].pc = pc /\ call'[Manager].on = call[Manager].on
         /\ call'[Idle] = call[Idle]
<1>1. [call[Manager] EXCEPT !.pc = pc] \in Call
  BY DEF Resuming, Handling, Call
<1>2. call[Manager].pc # "free" /\ pc # "free"
  BY DEF Resuming, Handling
<1>3. /\ CallsInv' /\ call'[Manager] = [call[Manager] EXCEPT !.pc = pc] /\ call'[Manager].pc = pc
      /\ \A u \in Thread : u # Manager => call'[u] = call[u]
  BY <1>1, <1>2, CallGoto, Roles DEF IInv
<1>4. [call[Manager] EXCEPT !.pc = pc].on = call[Manager].on
  BY DEF Resuming, Handling
<1> QED  BY <1>3, <1>4, Roles

LEMMA CreateKeeps ==
  ASSUME IInv, NEW u \in Others, Create(u)
  PROVE  IInv' /\ StaysClosed
<1>1. /\ At(Manager, "user") /\ due' = due
      /\ k.stat[u] = "none" \/ (k.stat[u] = "close" /\ u \notin Dynamic)
      /\ k' = [k EXCEPT !.stat[u] = "init", !.prio[u] = InitPrio[u],
                        !.slice[u] = InitTick[u], !.error[u] = "EOK", !.timer[u] = 0]
      /\ call' = [call EXCEPT ![u] = InUser]
  BY DEF Create, User, Calls
<1>2. k.cur = Manager /\ due = {} /\ call[Manager].pc = "user"
  BY <1>1, Running, Roles
<1>3. /\ u \in Thread /\ u # Manager /\ u # Idle /\ Manager \in Thread /\ Idle \in Thread
      /\ k \in KState /\ Lists(k, Members)
  BY Roles, Basics
<1>4. CallsInv' /\ call'[Manager] = call[Manager] /\ call'[Idle] = call[Idle]
  <2>1. InUser.pc \notin Managing /\ InUser.pc # "free"
    BY SchedulingCalls DEF Managing
  <2> QED  BY <1>1, <1>3, <2>1, SchedulingCalls, CallSet DEF IInv
<1>5. SameWork /\ WorkOn(u)
  BY <1>4 DEF WorkOn, SameWork
<1>6. InitPrio[u] \in Prio /\ InitTick[u] \in Nat
  BY <1>3, Priorities
<1>7. /\ k' \in KState /\ k'.ready = k.ready /\ k'.group = k.group /\ k'.cur = k.cur
      /\ k'.lock = k.lock /\ k'.queue = k.queue /\ k'.defunct = k.defunct /\ k'.owed = k.owed
      /\ k'.stat[u] = "init" /\ k'.timer[u] = 0
      /\ \A t \in Thread \ {u} : k'.stat[t] = k.stat[t] /\ k'.prio[t] = k.prio[t]
                                 /\ k'.timer[t] = k.timer[t]
      /\ \A t \in Thread : k'.slice[t] = k.slice[t] \/ k'.slice[t] = InitTick[t]
  BY <1>1, <1>3, <1>6 DEF KState, Stats
<1>8. \A t \in Thread \ {u} : SameFor(t)
  BY <1>1, <1>7 DEF SameFor
<1>9. u \notin Members /\ u \notin Members' /\ Members' = Members
  <2>1. u \notin Members /\ u \notin Members'
    BY <1>1, <1>7 DEF Members
  <2> QED  BY <1>1, <1>3, <1>5, <1>7, <1>8, <2>1, MembersAre, SMTT(30)
<1>10. Lists(k', Members') /\ HighestReady(k') = HighestReady(k)
  <2>1. \A t \in Members : k'.prio[t] = k.prio[t]
    BY <1>7, <1>9 DEF Members
  <2> QED  BY <1>3, <1>7, <1>9, <2>1, ListsPrio
<1>11. (Grave(u) /\ Timed(u) /\ Handled(u))'
  <2>1. ~In(k.defunct, u) /\ ~Frees(u)
    <3>1. ~BeingDeleted(u)
      BY <1>2, ManagerFree DEF Managing
    <3>2. Frees(u) => u \in Dynamic
      BY <1>3, CallIs DEF Frees, IInv
    <3> QED  BY <1>1, <1>3, <3>1, <3>2 DEF IInv, GraveInv, Grave
  <2>2. /\ ~BeingDeleted(u)' /\ ~Frees(u)' /\ ~Doing({"suspend"}, u)'
        /\ ~Doing({"unlink", "insert"}, u)' /\ ~Doing({"bury"}, u)'
    BY <1>2, <1>5, <2>1, ManagerFree, SameWorkIs DEF Managing
  <2> QED  BY <1>1, <1>2, <1>7, <2>1, <2>2 DEF Grave, Timed, Handled, Quiet
<1>12. BestInv'
  BY <1>2, <1>4, <1>7, <1>10 DEF IInv, BestInv
<1>13. Once(k'.defunct)
  BY <1>7 DEF IInv, ListsInv
<1> QED  BY <1>1, <1>3, <1>4, <1>5, <1>7, <1>8, <1>10, <1>11, <1>12, <1>13, WorkKeeps
LEMMA StartupKeeps ==
  ASSUME IInv, NEW u \in Others, Startup(u)
  PROVE  IInv' /\ StaysClosed
<1> DEFINE c == [pc |-> "unlink", on |-> u, then |-> "schedule"]
<1>1. /\ At(Manager, "user") /\ due' = due /\ k.stat[u] = "init"
      /\ k' = [k EXCEPT !.stat[u] = "suspend", !.prio[u] = InitPrio[u]]
      /\ Calls(Manager, c)
  BY DEF Startup, User
<1>2. k.cur = Manager /\ due = {} /\ call[Manager].pc = "user"
  BY <1>1, Running, Roles
<1>3. /\ u \in Thread /\ u # Manager /\ u # Idle /\ Manager \in Thread
      /\ k \in KState /\ Lists(k, Members) /\ InitPrio[u] \in Prio
  BY Roles, Basics, Priorities
<1>4. c \in Call /\ c.pc = "unlink" /\ c.on = u
  BY DEF Call, Resuming
<1> HIDE DEF c
<1>5. CallsInv' /\ call'[Manager] = c /\ call'[Idle] = call[Idle]
  BY <1>1, <1>4, ManagerCalls
<1>6. WorkOn(u)
  BY <1>2, <1>4, <1>5 DEF WorkOn, Managing
<1>7. /\ k' \in KState /\ k'.ready = k.ready /\ k'.group = k.group /\ k'.cur = k.cur
      /\ k'.lock = k.lock /\ k'.queue = k.queue /\ k'.defunct = k.defunct /\ k'.owed = k.owed
      /\ k'.stat[u] = "suspend" /\ k'.timer = k.timer /\ k'.slice = k.slice
      /\ \A t \in Thread \ {u} : k'.stat[t] = k.stat[t] /\ k'.prio[t] = k.prio[t]
  BY <1>1, <1>3 DEF KState, Stats
<1>8. \A t \in Thread \ {u} : SameFor(t)
  BY <1>1, <1>7 DEF SameFor
<1>9. u \notin Members /\ Members' = Members
  <2>1. u \notin Members /\ u \notin Members'
    BY <1>1, <1>7 DEF Members
  <2> QED  BY <1>1, <1>3, <1>6, <1>7, <1>8, <2>1, MembersAre
<1>10. Lists(k', Members')
  <2>1. \A t \in Members : k'.prio[t] = k.prio[t]
    BY <1>7, <1>9 DEF Members
  <2> QED  BY <1>3, <1>7, <1>9, <2>1, ListsPrio
<1>11. (Grave(u) /\ Timed(u) /\ Handled(u))'
  <2>1. ~In(k.defunct, u) /\ ~Frees(u) /\ Quiet(u)
    BY <1>1, <1>3, IdleFrees DEF IInv, TimerInv, Timed
  <2>2. ~BeingDeleted(u)' /\ ~Frees(u)' /\ ~Doing({"suspend"}, u)' /\ ~Doing({"bury"}, u)'
    BY <1>4, <1>5, <2>1 DEF BeingDeleted, Doing, Frees
  <2> QED  BY <1>1, <1>2, <1>7, <2>1, <2>2 DEF Grave, Timed, Handled, Quiet
<1>12. BestInv'
  <2>1. HighestReady(k') = HighestReady(k)
    BY <1>7 DEF HighestReady
  <2> QED  BY <1>2, <1>7, <2>1 DEF IInv, BestInv
<1>13. Once(k'.defunct)
  BY <1>7 DEF IInv, ListsInv
<1> QED  BY <1>1, <1>3, <1>5, <1>6, <1>7, <1>8, <1>10, <1>11, <1>12, <1>13, WorkKeeps

(* The manager begins with a thread; nothing changes yet.                  *)
LEMMA BeginKeeps ==
  ASSUME IInv, NEW u \in Others, NEW c \in Call, At(Manager, "user"), Calls(Manager, c),
         c.pc \in {"unlink", "suspend"}, c.on = u, k' = k, due' = due,
         k.stat[u] # "close", Handled(u)'
  PROVE  IInv' /\ StaysClosed
<1>1. k.cur = Manager /\ due = {} /\ call[Manager].pc = "user"
  BY Running, Roles
<1>2. /\ u \in Thread /\ u # Manager /\ Manager \in Thread /\ Lists(k, Members)
  BY Roles, Basics
<1>3. CallsInv' /\ call'[Manager] = c /\ call'[Idle] = call[Idle]
  BY ManagerCalls
<1>4. WorkOn(u)
  BY <1>1, <1>3 DEF WorkOn, Managing
<1>5. \A t \in Thread : ~BeingDeleted(t) /\ ~BeingDeleted(t)'
  BY <1>1, <1>3 DEF BeingDeleted
<1>6. Members' = Members
  BY <1>5 DEF Members
<1>7. \A t \in Thread \ {u} : SameFor(t)
  BY DEF SameFor
<1>8. ~In(k.defunct, u) /\ ~Frees(u)
  BY <1>2, IdleFrees
<1>9. Grave(u)'
  BY <1>3, <1>8 DEF Grave, Frees
<1>10. Timed(u)'
  <2>1. Timed(u)
    BY <1>2 DEF IInv, TimerInv
  <2>2. ~Doing({"insert", "close", "bury"}, u)'
    BY <1>3 DEF Doing
  <2> QED  BY <2>1, <2>2 DEF Timed, Quiet
<1>11. BestInv'
  BY <1>1 DEF IInv, BestInv
<1>12. Lists(k', Members') /\ Once(k'.defunct)
  BY <1>2, <1>6 DEF IInv, ListsInv
<1> QED  BY <1>2, <1>3, <1>4, <1>7, <1>9, <1>10, <1>11, <1>12, WorkKeeps

LEMMA ResumeKeeps ==
  ASSUME IInv, NEW u \in Others, Resume(u)
  PROVE  IInv' /\ StaysClosed
<1> DEFINE c == [pc |-> "unlink", on |-> u, then |-> "user"]
<1>1. /\ At(Manager, "user") /\ k' = k /\ due' = due
      /\ k.stat[u] = "suspend" /\ Calls(Manager, c)
  BY DEF Resume, User
<1>2. c \in Call /\ c.pc = "unlink" /\ c.on = u
  BY DEF Call, Resuming
<1> HIDE DEF c
<1>3. call'[Manager] = c
  BY <1>1, <1>2, ManagerCalls
<1>4. Handled(u)'
  BY <1>1, <1>2, <1>3 DEF Handled, Doing, BeingDeleted
<1> QED  BY <1>1, <1>2, <1>4, BeginKeeps

LEMMA SuspendOtherKeeps ==
  ASSUME IInv, NEW u \in Others, SuspendOther(u)
  PROVE  IInv' /\ StaysClosed
<1> DEFINE c == On("suspend", u)
<1>1. /\ At(Manager, "user") /\ k' = k /\ due' = due
      /\ k.stat[u] = "ready" /\ Calls(Manager, c)
  BY DEF SuspendOther, User
<1>2. c \in Call /\ c.pc = "suspend" /\ c.on = u
  BY DEF Call, Handling, On
<1> HIDE DEF c
<1>3. call'[Manager] = c
  BY <1>1, <1>2, ManagerCalls
<1>4. Handled(u)'
  BY <1>1, <1>2, <1>3 DEF Handled, Doing, BeingDeleted
<1> QED  BY <1>1, <1>2, <1>4, BeginKeeps

LEMMA UnlinkKeeps ==
  ASSUME IInv, NEW u, call[Manager].on = u, Unlink
  PROVE  IInv' /\ StaysClosed
<1>1. /\ At(Manager, "unlink") /\ k' = ResumeUnlink(k, u) /\ Goto(Manager, "insert")
      /\ due' = due
  BY DEF Unlink
<1>2. k.cur = Manager /\ due = {} /\ call[Manager].pc = "unlink"
  BY <1>1, Running, Roles
<1>3. u \in Others /\ call[Manager] \in Resuming
  BY <1>2, Roles, CallIs DEF IInv
<1>4. CallsInv' /\ call'[Manager].pc = "insert" /\ call'[Manager].on = u
      /\ call'[Idle] = call[Idle]
  BY <1>1, <1>3, ManagerGoesOn
<1>5. /\ u \in Thread /\ u # Manager /\ Manager \in Thread /\ k \in KState /\ Lists(k, Members)
      /\ OnceElsewhere(k)
  BY <1>3, Roles, Basics
<1>6. Doing({"unlink", "insert"}, u) /\ ~BeingDeleted(u)
  BY <1>2 DEF Doing, BeingDeleted
<1>7. k.stat[u] = "suspend"
  BY <1>5, <1>6 DEF IInv, HandledInv, Handled
<1>8. u \notin Members /\ ~Elsewhere(k, u) /\ ~In(k.defunct, u) /\ ~Frees(u)
  BY <1>5, <1>7, IdleFrees DEF Members
<1>9. k' = [k EXCEPT !.timer[u] = 0]
  <2>1. rt_list_remove(k, u) = k
    BY <1>5, <1>8, ListRemoveNothing
  <2> QED  BY <1>1, <2>1 DEF ResumeUnlink
<1>10. /\ k' \in KState /\ k'.ready = k.ready /\ k'.group = k.group /\ k'.cur = k.cur
       /\ k'.lock = k.lock /\ k'.queue = k.queue /\ k'.defunct = k.defunct /\ k'.owed = k.owed
       /\ k'.stat = k.stat /\ k'.prio = k.prio /\ k'.slice = k.slice /\ k'.timer[u] = 0
       /\ \A t \in Thread \ {u} : k'.timer[t] = k.timer[t]
  BY <1>5, <1>9 DEF KState
<1>11. WorkOn(u)
  BY <1>4 DEF WorkOn
<1>12. \A t \in Thread \ {u} : SameFor(t)
  BY <1>1, <1>10 DEF SameFor
<1>13. Members' = Members
  <2>1. \A t \in Thread : ~BeingDeleted(t) /\ ~BeingDeleted(t)'
    BY <1>2, <1>4 DEF BeingDeleted
  <2> QED  BY <1>10, <2>1 DEF Members
<1>14. Lists(k', Members') /\ HighestReady(k') = HighestReady(k)
  BY <1>5, <1>10, <1>13, ListsKept
<1>15. (Grave(u) /\ Timed(u) /\ Handled(u))'
  <2>1. ~BeingDeleted(u)' /\ ~Frees(u)' /\ ~Doing({"suspend"}, u)' /\ ~Doing({"bury"}, u)'
    BY <1>4, <1>8 DEF BeingDeleted, Doing, Frees
  <2>2. Quiet(u)'
    BY <1>2, <1>1, <1>10 DEF Quiet
  <2> QED  BY <1>7, <1>8, <1>10, <2>1, <2>2 DEF Grave, Timed, Handled
<1>16. BestInv'
  BY <1>2, <1>10, <1>14 DEF IInv, BestInv
<1>17. Once(k'.defunct)
  BY <1>10 DEF IInv, ListsInv
<1> QED
  BY <1>1, <1>3, <1>4, <1>5, <1>7, <1>10, <1>11, <1>12, <1>14, <1>15, <1>16, <1>17, WorkKeeps
LEMMA InsertKeeps ==
  ASSUME IInv, NEW u, call[Manager].on = u, Insert
  PROVE  IInv' /\ StaysClosed
<1> DEFINE L == rt_schedule_insert_thread(k, u)
           then == call[Manager].then
           c == IF then = "schedule" THEN ScheduleThen("user") ELSE InUser
<1>1. /\ At(Manager, "insert") /\ k' = [L EXCEPT !.owed = k.owed \/ then = "user"]
      /\ Calls(Manager, c) /\ due' = due
  <2>1. L.owed = k.owed
    BY Basics DEF rt_schedule_insert_thread, KState
  <2> QED  BY <2>1 DEF Insert, Return, Calls
<1>2. k.cur = Manager /\ due = {} /\ call[Manager].pc = "insert"
  BY <1>1, Running, Roles
<1>3. u \in Others /\ then \in {"user", "schedule"}
  BY <1>2, Roles, CallIs DEF IInv
<1>4. /\ c \in Call /\ c.pc \in {"user", "schedule"}
      /\ then = "schedule" => c.pc = "schedule"
  BY <1>3, SchedulingCalls
<1> HIDE DEF c, then
<1>5. CallsInv' /\ call'[Manager] = c /\ call'[Idle] = call[Idle]
  BY <1>1, <1>4, ManagerCalls
<1>6. /\ u \in Thread /\ u # Manager /\ Manager \in Thread /\ k \in KState /\ Lists(k, Members)
  BY <1>3, Roles, Basics
<1>7. k.stat[u] = "suspend" /\ Quiet(u)
  <2>1. Doing({"unlink", "insert"}, u) /\ Doing({"insert", "close", "bury"}, u)
    BY <1>2 DEF Doing
  <2> QED  BY <1>6, <2>1 DEF IInv, HandledInv, Handled, TimerInv, Timed
<1>8. u \notin Members /\ ~In(k.defunct, u) /\ ~Frees(u)
  BY <1>6, <1>7, IdleFrees DEF Members
<1>9. /\ Lists(L, Members \cup {u}) /\ SameElsewhere(L, k)
      /\ L.stat = [k.stat EXCEPT ![u] = "ready"] /\ L.prio = k.prio
      /\ L.cur = k.cur /\ L.lock = k.lock /\ L.slice = k.slice /\ L.error = k.error
      /\ L.timer = k.timer /\ L.owed = k.owed
  BY <1>6, <1>8, Inserted
<1> HIDE DEF L
<1>10. L \in KState /\ (k.owed \/ then = "user") \in BOOLEAN
  BY <1>9 DEF Lists
<1>11. /\ k' \in KState /\ k'.ready = L.ready /\ k'.group = L.group /\ k'.cur = L.cur
       /\ k'.lock = L.lock /\ k'.queue = L.queue /\ k'.defunct = L.defunct
       /\ k'.stat = L.stat /\ k'.prio = L.prio /\ k'.slice = L.slice /\ k'.timer = L.timer
       /\ k'.owed = (k.owed \/ then = "user")
  BY <1>1, <1>10 DEF KState
<1>12. /\ k'.stat[u] = "ready" /\ \A t \in Thread \ {u} : k'.stat[t] = k.stat[t]
       /\ k'.prio = k.prio /\ k'.timer = k.timer /\ k'.defunct = k.defunct /\ k'.queue = k.queue
  BY <1>6, <1>9, <1>11 DEF KState, SameElsewhere
<1>13. WorkOn(u)
  BY <1>4, <1>5 DEF WorkOn, Managing
<1>14. \A t \in Thread \ {u} : SameFor(t)
  BY <1>1, <1>12 DEF SameFor
<1>15. ~BeingDeleted(u)' /\ ~Frees(u)' /\ ~Doing({"suspend"}, u)' /\ ~Doing({"bury"}, u)'
       /\ ~Doing({"unlink", "insert"}, u)'
  BY <1>4, <1>5, <1>8 DEF BeingDeleted, Doing, Frees
<1>16. Members' = Members \cup {u}
  <2>1. u \in Members'
    BY <1>6, <1>12, <1>15 DEF Members
  <2> QED  BY <1>1, <1>6, <1>9, <1>11, <1>13, <1>14, <2>1, MembersAre
<1>17. Lists(k', Members')
  BY <1>9, <1>11, <1>16, ListsKept
<1>18. (Grave(u) /\ Timed(u) /\ Handled(u))'
  <2>1. Quiet(u)'
    BY <1>1, <1>7, <1>12 DEF Quiet
  <2> QED  BY <1>8, <1>12, <1>15, <2>1 DEF Grave, Timed, Handled
<1>19. BestInv'
  <2>1. then = "user" => k'.owed
    BY <1>11
  <2>2. then = "schedule" => call'[k'.cur].pc = "schedule"
    BY <1>2, <1>4, <1>5, <1>9, <1>11
  <2> QED  BY <1>3, <2>1, <2>2 DEF BestInv
<1>20. Once(k'.defunct)
  BY <1>12 DEF IInv, ListsInv
<1> QED
  BY <1>1, <1>3, <1>5, <1>6, <1>7, <1>9, <1>11, <1>12, <1>13, <1>14, <1>17, <1>18, <1>19,
     <1>20, WorkKeeps

LEMMA SuspendItKeeps ==
  ASSUME IInv, NEW u, call[Manager].on = u, SuspendIt
  PROVE  IInv' /\ StaysClosed
<1> DEFINE L == rt_schedule_remove_thread(k, u)
<1>1. /\ At(Manager, "suspend") /\ k' = [L EXCEPT !.stat[u] = "suspend", !.timer[u] = 0]
      /\ Calls(Manager, InUser) /\ due' = due
  BY DEF SuspendIt, Return, Calls
<1>2. k.cur = Manager /\ due = {} /\ call[Manager].pc = "suspend"
  BY <1>1, Running, Roles
<1>3. /\ u \in Others /\ u \in Thread /\ u # Manager /\ Manager \in Thread
  BY <1>2, Roles, CallIs DEF IInv, Managing
<1>4. CallsInv' /\ call'[Manager].pc = "user" /\ call'[Idle] = call[Idle]
  <2>1. InUser \in Call /\ InUser.pc = "user"
    BY SchedulingCalls
  <2>2. Calls(Manager, InUser)
    BY <1>1
  <2>3. CallsInv' /\ call'[Manager] = InUser /\ call'[Idle] = call[Idle]
    BY <2>1, <2>2, ManagerCalls
  <2> QED  BY <2>1, <2>3
<1>5. k.stat[u] = "ready" /\ k.cur # u
  <2>1. Doing({"suspend"}, u)
    BY <1>2 DEF Doing
  <2> QED  BY <1>2, <1>3, <2>1 DEF IInv, HandledInv, Handled
<1>6. /\ Lists(L, Members \ {u}) /\ SameButLists(L, k) /\ SameElsewhere(L, k) /\ L \in KState
      /\ HighestReady(k) # u => HighestReady(L) = HighestReady(k)
  BY <1>3, <1>5, TakenOut
<1> HIDE DEF L
<1>7. /\ k' \in KState /\ k'.ready = L.ready /\ k'.group = L.group /\ k'.cur = L.cur
      /\ k'.lock = L.lock /\ k'.queue = L.queue /\ k'.defunct = L.defunct
      /\ k'.stat[u] = "suspend" /\ \A t \in Thread \ {u} : k'.stat[t] = L.stat[t]
      /\ k'.timer[u] = 0 /\ \A t \in Thread \ {u} : k'.timer[t] = L.timer[t]
      /\ k'.prio = L.prio /\ k'.slice = L.slice /\ k'.owed = L.owed
  BY <1>1, <1>3, <1>6 DEF KState, Stats
<1>8. WorkOn(u)
  BY <1>4 DEF WorkOn, Managing
<1>9. \A t \in Thread \ {u} : SameFor(t)
  BY <1>1, <1>6, <1>7 DEF SameFor, SameButLists, SameElsewhere
<1>10. k'.cur = k.cur /\ k'.lock = k.lock /\ k'.slice = k.slice /\ k'.queue = k.queue
       /\ k'.defunct = k.defunct /\ k'.owed = k.owed
  BY <1>6, <1>7 DEF SameButLists, SameElsewhere
<1>11. Members' = Members \ {u}
  <2>1. u \notin Members'
    BY <1>7 DEF Members
  <2> QED  BY <1>1, <1>3, <1>8, <1>9, <1>10, <2>1, MembersAre
<1>12. Lists(k', Members') /\ HighestReady(k') = HighestReady(L)
  BY <1>6, <1>7, <1>11, ListsKept
<1>13. (Grave(u) /\ Timed(u) /\ Handled(u))'
  <2>1. ~In(k.defunct, u) /\ ~Frees(u)
    BY <1>3, <1>5, IdleFrees
  <2>2. ~BeingDeleted(u)' /\ ~Frees(u)' /\ ~Doing({"suspend"}, u)' /\ ~Doing({"bury"}, u)'
    BY <1>4, <2>1 DEF BeingDeleted, Doing, Frees
  <2>3. Quiet(u)'
    BY <1>1, <1>2, <1>7 DEF Quiet
  <2> QED  BY <1>7, <1>10, <2>1, <2>2, <2>3 DEF Grave, Timed, Handled
<1>14. BestInv'
  BY <1>2, <1>5, <1>6, <1>10, <1>12 DEF IInv, BestInv
<1>15. Once(k'.defunct)
  BY <1>10 DEF IInv, ListsInv
<1> QED
  BY <1>1, <1>3, <1>4, <1>5, <1>7, <1>8, <1>9, <1>10, <1>12, <1>13, <1>14, <1>15, WorkKeeps

LEMMA DeleteKeeps ==
  ASSUME IInv, NEW u \in Others, Delete(u)
  PROVE  IInv' /\ StaysClosed
<1> DEFINE c == On("untime", u)
           L == rt_schedule_remove_thread(k, u)
<1>1. /\ At(Manager, "user") /\ k' = IF k.stat[u] = "init" THEN k ELSE L
      /\ k.stat[u] \in {"init", "ready", "suspend"}
      /\ Calls(Manager, c) /\ due' = due
  BY DEF Delete, User
<1>2. k.cur = Manager /\ due = {} /\ call[Manager].pc = "user"
  BY <1>1, Running, Roles
<1>3. /\ u \in Thread /\ u # Manager /\ Manager \in Thread /\ k \in KState /\ Lists(k, Members)
  BY Roles, Basics
<1>4. c \in Call /\ c.pc = "untime" /\ c.on = u
  BY DEF Call, Handling, On
<1> HIDE DEF c
<1>5. CallsInv' /\ call'[Manager] = c /\ call'[Idle] = call[Idle]
  BY <1>1, <1>4, ManagerCalls
<1>6. BeingDeleted(u)' /\ ~Doing({"suspend"}, u)' /\ ~Doing({"bury"}, u)'
      /\ ~Doing({"unlink", "insert"}, u)' /\ ~Doing({"insert", "close", "bury"}, u)'
  BY <1>4, <1>5 DEF BeingDeleted, Doing
<1>7. /\ Lists(L, Members \ {u}) /\ SameButLists(L, k) /\ SameElsewhere(L, k)
      /\ HighestReady(k) # u => HighestReady(L) = HighestReady(k)
  BY <1>1, <1>3, TakenOut
<1>8. /\ Lists(k', Members \ {u}) /\ SameButLists(k', k) /\ SameElsewhere(k', k)
      /\ HighestReady(k) # u => HighestReady(k') = HighestReady(k)
  <2> HIDE DEF L
  <2>1. CASE k.stat[u] = "init"
    <3>1. Members \ {u} = Members
      BY <2>1 DEF Members
    <3> QED  BY <1>1, <1>3, <2>1, <3>1 DEF SameButLists, SameElsewhere
  <2>2. CASE k.stat[u] # "init"
    BY <1>1, <1>7, <2>2
  <2> QED  BY <2>1, <2>2
<1> HIDE DEF L
<1>9. WorkOn(u)
  BY <1>2, <1>4, <1>5 DEF WorkOn, Managing
<1>10. \A t \in Thread \ {u} : SameFor(t)
  BY <1>1, <1>8 DEF SameFor, SameButLists, SameElsewhere
<1>11. Members' = Members \ {u}
  <2>1. u \notin Members'
    BY <1>6 DEF Members
  <2> QED  BY <1>1, <1>3, <1>8, <1>9, <1>10, <2>1, MembersAre DEF SameButLists
<1>12. (Grave(u) /\ Timed(u) /\ Handled(u))'
  <2>1. ~In(k.defunct, u) /\ ~Frees(u)
    BY <1>1, <1>3, IdleFrees
  <2>2. ~Frees(u)' /\ ~In(k'.defunct, u)
    BY <1>5, <1>8, <2>1 DEF Frees, SameElsewhere
  <2>3. Timed(u)'
    <3>1. Timed(u)
      BY <1>3 DEF IInv, TimerInv
    <3> QED  BY <1>1, <1>6, <1>8, <3>1 DEF Timed, Quiet, SameButLists
  <2>4. k'.cur # u
    BY <1>2, <1>3, <1>8 DEF SameButLists
  <2> QED  BY <1>6, <2>2, <2>3, <2>4 DEF Grave, Handled
<1>13. BestInv'
  BY <1>2, <1>3, <1>8 DEF IInv, BestInv, SameButLists
<1>14. k'.queue = k.queue /\ Once(k'.defunct)
  BY <1>8 DEF IInv, ListsInv, SameElsewhere
<1>15. k'.cur = k.cur /\ k'.lock = k.lock /\ k'.slice = k.slice /\ k'.timer = k.timer
  BY <1>8 DEF SameButLists
<1> QED
  BY <1>1, <1>3, <1>5, <1>8, <1>9, <1>10, <1>11, <1>12, <1>13, <1>14, <1>15, WorkKeeps
LEMMA UntimeKeeps ==
  ASSUME IInv, NEW u, call[Manager].on = u, Untime
  PROVE  IInv' /\ StaysClosed
<1>1. /\ At(Manager, "untime") /\ k' = [k EXCEPT !.timer[u] = 0]
      /\ Goto(Manager, "close") /\ due' = due
  BY DEF Untime, StartTimer
<1>2. k.cur = Manager /\ due = {} /\ call[Manager].pc = "untime"
  BY <1>1, Running, Roles
<1>3. /\ u \in Others /\ u \in Thread /\ u # Manager /\ Manager \in Thread
      /\ call[Manager] \in Handling
  BY <1>2, Roles, CallIs DEF IInv, Managing
<1>4. CallsInv' /\ call'[Manager].pc = "close" /\ call'[Manager].on = u
      /\ call'[Idle] = call[Idle]
  BY <1>1, <1>3, ManagerGoesOn
<1>5. k \in KState /\ Lists(k, Members)
  BY Basics
<1>6. /\ k' \in KState /\ k'.ready = k.ready /\ k'.group = k.group /\ k'.cur = k.cur
      /\ k'.lock = k.lock /\ k'.queue = k.queue /\ k'.defunct = k.defunct /\ k'.owed = k.owed
      /\ k'.stat = k.stat /\ k'.prio = k.prio /\ k'.slice = k.slice /\ k'.timer[u] = 0
      /\ \A t \in Thread \ {u} : k'.timer[t] = k.timer[t]
  BY <1>1, <1>3, <1>5 DEF KState
<1>7. WorkOn(u)
  BY <1>4 DEF WorkOn
<1>8. \A t \in Thread \ {u} : SameFor(t)
  BY <1>1, <1>6 DEF SameFor
<1>9. BeingDeleted(u) /\ BeingDeleted(u)' /\ ~Doing({"suspend"}, u)' /\ ~Doing({"bury"}, u)'
      /\ ~Doing({"unlink", "insert"}, u)'
  BY <1>2, <1>4 DEF BeingDeleted, Doing
<1>10. Members' = Members
  <2>1. \A t \in Thread : BeingDeleted(t)' <=> BeingDeleted(t)
    BY <1>2, <1>4 DEF BeingDeleted
  <2> QED  BY <1>6, <2>1 DEF Members
<1>11. Lists(k', Members') /\ HighestReady(k') = HighestReady(k)
  BY <1>5, <1>6, <1>10, ListsKept
<1>12. (Grave(u) /\ Timed(u) /\ Handled(u))'
  <2>1. ~In(k.defunct, u) /\ ~Frees(u) /\ k.cur # u
    BY <1>3, <1>9 DEF IInv, GraveInv, Grave, HandledInv, Handled
  <2>2. ~Frees(u)'
    BY <1>4, <2>1 DEF Frees
  <2>3. Quiet(u)'
    BY <1>1, <1>2, <1>6 DEF Quiet
  <2> QED  BY <1>6, <1>9, <2>1, <2>2, <2>3 DEF Grave, Timed, Handled
<1>13. BestInv'
  BY <1>2, <1>6, <1>11 DEF IInv, BestInv
<1>14. Once(k'.defunct)
  BY <1>6 DEF IInv, ListsInv
<1> QED
  BY <1>1, <1>3, <1>4, <1>6, <1>7, <1>8, <1>11, <1>12, <1>13, <1>14, WorkKeeps

LEMMA CloseKeeps ==
  ASSUME IInv, NEW u, call[Manager].on = u, Close
  PROVE  IInv' /\ StaysClosed
<1>1. /\ At(Manager, "close") /\ k' = [k EXCEPT !.stat[u] = "close"]
      /\ Goto(Manager, "bury") /\ due' = due
  BY DEF Close
<1>2. k.cur = Manager /\ due = {} /\ call[Manager].pc = "close"
  BY <1>1, Running, Roles
<1>3. /\ u \in Others /\ u \in Thread /\ u # Manager /\ Manager \in Thread
      /\ call[Manager] \in Handling
  BY <1>2, Roles, CallIs DEF IInv, Managing
<1>4. CallsInv' /\ call'[Manager].pc = "bury" /\ call'[Manager].on = u
      /\ call'[Idle] = call[Idle]
  BY <1>1, <1>3, ManagerGoesOn
<1>5. k \in KState /\ Lists(k, Members)
  BY Basics
<1>6. /\ k' \in KState /\ k'.ready = k.ready /\ k'.group = k.group /\ k'.cur = k.cur
      /\ k'.lock = k.lock /\ k'.queue = k.queue /\ k'.defunct = k.defunct /\ k'.owed = k.owed
      /\ k'.timer = k.timer /\ k'.prio = k.prio /\ k'.slice = k.slice
      /\ k'.stat[u] = "close" /\ \A t \in Thread \ {u} : k'.stat[t] = k.stat[t]
  BY <1>1, <1>3, <1>5 DEF KState, Stats
<1>7. WorkOn(u)
  BY <1>4 DEF WorkOn
<1>8. \A t \in Thread \ {u} : SameFor(t)
  BY <1>1, <1>6 DEF SameFor
<1>9. /\ BeingDeleted(u) /\ BeingDeleted(u)' /\ Doing({"insert", "close", "bury"}, u)
      /\ ~Doing({"suspend"}, u)' /\ ~Doing({"unlink", "insert"}, u)'
  BY <1>2, <1>4 DEF BeingDeleted, Doing
<1>10. Members' = Members
  <2>1. u \notin Members /\ u \notin Members'
    BY <1>9 DEF Members
  <2> QED  BY <1>1, <1>3, <1>6, <1>7, <1>8, <2>1, MembersAre
<1>11. Lists(k', Members') /\ HighestReady(k') = HighestReady(k)
  BY <1>5, <1>6, <1>10, ListsKept
<1>12. (Grave(u) /\ Timed(u) /\ Handled(u))'
  <2>1. ~In(k.defunct, u) /\ ~Frees(u) /\ k.cur # u /\ Quiet(u)
    BY <1>3, <1>9 DEF IInv, GraveInv, Grave, HandledInv, Handled, TimerInv, Timed
  <2>2. ~Frees(u)'
    BY <1>4, <2>1 DEF Frees
  <2>3. Quiet(u)'
    BY <1>1, <1>6, <2>1 DEF Quiet
  <2> QED  BY <1>6, <1>9, <2>1, <2>2, <2>3 DEF Grave, Timed, Handled
<1>13. BestInv'
  BY <1>2, <1>6, <1>11 DEF IInv, BestInv
<1>14. Once(k'.defunct)
  BY <1>6 DEF IInv, ListsInv
<1> QED
  BY <1>1, <1>3, <1>4, <1>6, <1>7, <1>8, <1>11, <1>12, <1>13, <1>14, WorkKeeps

LEMMA BuryItKeeps ==
  ASSUME IInv, NEW u, call[Manager].on = u, BuryIt
  PROVE  IInv' /\ StaysClosed
<1>1. /\ At(Manager, "bury") /\ k' = Bury(k, u)
      /\ Calls(Manager, InUser) /\ due' = due
  BY DEF BuryIt, Return, Calls
<1>2. k.cur = Manager /\ due = {} /\ call[Manager].pc = "bury"
  BY <1>1, Running, Roles
<1>3. /\ u \in Others /\ u \in Thread /\ u # Manager /\ Manager \in Thread
  BY <1>2, Roles, CallIs DEF IInv, Managing
<1>4. CallsInv' /\ call'[Manager].pc = "user" /\ call'[Idle] = call[Idle]
  <2>1. InUser \in Call /\ InUser.pc = "user"
    BY SchedulingCalls
  <2>2. Calls(Manager, InUser)
    BY <1>1
  <2>3. CallsInv' /\ call'[Manager] = InUser /\ call'[Idle] = call[Idle]
    BY <2>1, <2>2, ManagerCalls
  <2> QED  BY <2>1, <2>3
<1>5. BeingDeleted(u) /\ Doing({"bury"}, u) /\ Doing({"insert", "close", "bury"}, u)
  BY <1>2 DEF BeingDeleted, Doing
<1>6. /\ k.stat[u] = "close" /\ ~In(k.defunct, u) /\ ~Frees(u) /\ k.cur # u /\ Quiet(u)
      /\ u \notin Members
  BY <1>3, <1>5 DEF IInv, GraveInv, Grave, HandledInv, Handled, TimerInv, Timed, Members
<1>7. k \in KState /\ Lists(k, Members) /\ k.defunct \in Seq(Thread) /\ Once(k.defunct)
  BY Basics DEF IInv, ListsInv
<1>8. <<u>> \o k.defunct \in Seq(Thread)
  BY <1>3, <1>7, ConsIn
<1>9. /\ k' \in KState /\ k'.ready = k.ready /\ k'.group = k.group /\ k'.cur = k.cur
      /\ k'.lock = k.lock /\ k'.queue = k.queue /\ k'.owed = k.owed
      /\ k'.timer = k.timer /\ k'.prio = k.prio /\ k'.slice = k.slice /\ k'.stat = k.stat
      /\ k'.defunct = IF u \in Dynamic THEN <<u>> \o k.defunct ELSE k.defunct
  BY <1>1, <1>7, <1>8 DEF KState, Bury
<1>10. /\ Once(k'.defunct) /\ (In(k'.defunct, u) => u \in Dynamic)
       /\ \A t \in Thread \ {u} : In(k'.defunct, t) <=> In(k.defunct, t)
  <2>1. CASE u \in Dynamic
    BY <1>3, <1>6, <1>7, <1>9, <2>1, ConsIn
  <2>2. CASE u \notin Dynamic
    BY <1>6, <1>7, <1>9, <2>2
  <2> QED  BY <2>1, <2>2
<1>11. WorkOn(u)
  BY <1>4 DEF WorkOn, Managing
<1>12. \A t \in Thread \ {u} : SameFor(t)
  BY <1>1, <1>9, <1>10 DEF SameFor
<1>13. Members' = Members
  <2>1. u \notin Members'
    BY <1>6, <1>9 DEF Members
  <2> QED  BY <1>1, <1>3, <1>6, <1>9, <1>11, <1>12, <2>1, MembersAre, SMTT(30)
<1>14. Lists(k', Members') /\ HighestReady(k') = HighestReady(k)
  BY <1>7, <1>9, <1>13, ListsKept
<1>15. (Grave(u) /\ Timed(u) /\ Handled(u))'
  <2>1. ~BeingDeleted(u)' /\ ~Frees(u)' /\ ~Doing({"suspend"}, u)' /\ ~Doing({"bury"}, u)'
        /\ ~Doing({"unlink", "insert"}, u)'
    BY <1>4, <1>6 DEF BeingDeleted, Doing, Frees
  <2>2. Quiet(u)'
    BY <1>1, <1>6, <1>9 DEF Quiet
  <2> QED  BY <1>6, <1>9, <1>10, <2>1, <2>2 DEF Grave, Timed, Handled
<1>16. BestInv'
  BY <1>2, <1>9, <1>14 DEF IInv, BestInv
<1> QED
  BY <1>1, <1>3, <1>4, <1>6, <1>9, <1>10, <1>11, <1>12, <1>14, <1>15, <1>16, WorkKeeps
-----------------------------------------------------------------------------
(* Steps of idle.                                                          *)
LEMMA ReapKeeps ==
  ASSUME IInv, Reap
  PROVE  IInv' /\ StaysClosed
<1>1. PICK u : u = Head(k.defunct)
  OBVIOUS
<1>2. /\ At(Idle, "user") /\ k' = [k EXCEPT !.defunct = Tail(@)] /\ k.defunct # <<>>
      /\ Calls(Idle, On("free", u)) /\ due' = due
  BY <1>1 DEF Reap
<1>3. k.cur = Idle /\ due = {} /\ call[Idle].pc = "user"
  BY <1>2, Running, Roles
<1>4. k \in KState /\ Lists(k, Members) /\ k.defunct \in Seq(Thread) /\ Once(k.defunct)
  BY Basics DEF IInv, ListsInv
<1>5. u \in Thread /\ In(k.defunct, u)
  BY <1>1, <1>2, <1>4, HeadIn
<1>6. /\ k.stat[u] = "close" /\ u \in Dynamic /\ ~BeingDeleted(u)
  BY <1>5 DEF IInv, GraveInv, Grave
<1>7. u \in Others /\ u # Manager /\ u # Idle /\ Idle \in Thread /\ Manager \in Thread
  BY <1>6, Roles
<1>8. CallsInv' /\ call'[Idle] = On("free", u) /\ call'[Manager] = call[Manager]
  <2>1. On("free", u) \in Call /\ On("free", u).pc = "free"
    BY <1>6 DEF Call, Freeing, On
  <2>2. Calls(Idle, On("free", u))
    BY <1>2
  <2> HIDE DEF On
  <2>3. call' = [call EXCEPT ![Idle] = On("free", u)] /\ "free" \notin Managing
    BY <2>2 DEF Calls, Managing
  <2>4. CallsInv
    BY DEF IInv
  <2>5. CallsInv' /\ call'[Idle] = On("free", u) /\ \A t \in Thread : t # Idle => call'[t] = call[t]
    BY <1>7, <2>1, <2>3, <2>4, CallSet
  <2> QED  BY <1>7, <2>5, Roles
<1>9. /\ Tail(k.defunct) \in Seq(Thread) /\ Once(Tail(k.defunct))
      /\ \A t : In(Tail(k.defunct), t) <=> In(k.defunct, t) /\ t # u
  BY <1>1, <1>2, <1>4, TailIn
<1>10. /\ k' \in KState /\ k'.ready = k.ready /\ k'.group = k.group /\ k'.cur = k.cur
       /\ k'.lock = k.lock /\ k'.queue = k.queue /\ k'.owed = k.owed
       /\ k'.timer = k.timer /\ k'.prio = k.prio /\ k'.slice = k.slice /\ k'.stat = k.stat
       /\ k'.defunct = Tail(k.defunct)
  BY <1>2, <1>4, <1>9 DEF KState
<1>11. WorkOn(u)
  BY <1>3, <1>8 DEF WorkOn, On
<1>12. \A t \in Thread \ {u} : SameFor(t)
  BY <1>2, <1>9, <1>10 DEF SameFor
<1>13. \A t : /\ BeingDeleted(t)' <=> BeingDeleted(t)
              /\ Doing({"unlink", "insert"}, t)' <=> Doing({"unlink", "insert"}, t)
              /\ Doing({"suspend"}, t)' <=> Doing({"suspend"}, t)
              /\ Doing({"bury"}, t)' <=> Doing({"bury"}, t)
              /\ Doing({"insert", "close", "bury"}, t)' <=> Doing({"insert", "close", "bury"}, t)
  BY <1>8 DEF BeingDeleted, Doing
<1>14. Members' = Members
  BY <1>10, <1>13 DEF Members
<1>15. Lists(k', Members') /\ HighestReady(k') = HighestReady(k)
  BY <1>4, <1>10, <1>14, ListsKept
<1>16. (Grave(u) /\ Timed(u) /\ Handled(u))'
  <2>1. Timed(u) /\ Handled(u)
    BY <1>5 DEF IInv, TimerInv, HandledInv
  <2>2. Handled(u)'
    BY <1>2, <1>10, <1>13, <2>1, <1>6 DEF Handled
  <2>3. Timed(u)'
    BY <1>2, <1>10, <1>13, <2>1 DEF Timed, Quiet
  <2>4. Grave(u)'
    BY <1>3, <1>6, <1>7, <1>9, <1>10, <1>13 DEF Grave
  <2> QED  BY <2>2, <2>3, <2>4
<1>17. BestInv'
  BY <1>3, <1>10, <1>15 DEF IInv, BestInv
<1> QED
  BY <1>2, <1>6, <1>7, <1>8, <1>9, <1>10, <1>11, <1>12, <1>15, <1>16, <1>17, WorkKeeps

LEMMA FreeKeeps ==
  ASSUME IInv, NEW u, call[Idle].on = u, Free
  PROVE  IInv' /\ StaysClosed
<1>1. /\ At(Idle, "free") /\ k' = [k EXCEPT !.stat[u] = "none"]
      /\ Calls(Idle, InUser) /\ due' = due
  BY DEF Free, Return, Calls
<1>2. k.cur = Idle /\ due = {} /\ call[Idle].pc = "free"
  BY <1>1, Running, Roles
<1>3. u \in Dynamic /\ u \in Others /\ u \in Thread /\ u # Idle /\ u # Manager /\ Idle \in Thread
      /\ Manager \in Thread /\ Manager # Idle
  BY <1>2, Roles, CallIs DEF IInv
<1>4. CallsInv' /\ call'[Idle].pc = "user" /\ call'[Manager] = call[Manager]
  <2>1. InUser \in Call /\ InUser.pc = "user" /\ InUser.pc \notin Managing
    BY SchedulingCalls DEF Managing
  <2>2. call' = [call EXCEPT ![Idle] = InUser]
    BY <1>1 DEF Calls
  <2>3. CallsInv' /\ call'[Idle] = InUser /\ \A t \in Thread : t # Idle => call'[t] = call[t]
    BY <1>3, <2>1, <2>2, CallSet DEF IInv
  <2> QED  BY <1>3, <2>1, <2>3
<1>5. Frees(u)
  BY <1>2 DEF Frees
<1>6. k.stat[u] = "close" /\ ~BeingDeleted(u) /\ ~In(k.defunct, u)
  BY <1>3, <1>5 DEF IInv, GraveInv, Grave
<1>7. /\ Quiet(u) /\ ~Doing({"unlink", "insert"}, u)
      /\ ~Doing({"suspend"}, u) /\ ~Doing({"bury"}, u)
  <2>1. Timed(u) /\ Handled(u)
    BY <1>3 DEF IInv, TimerInv, HandledInv
  <2>2. Doing({"bury"}, u) => BeingDeleted(u)
    BY DEF Doing, BeingDeleted
  <2> QED  BY <1>6, <2>1, <2>2 DEF Timed, Handled
<1>8. k \in KState /\ Lists(k, Members)
  BY Basics
<1>9. /\ k' \in KState /\ k'.ready = k.ready /\ k'.group = k.group /\ k'.cur = k.cur
      /\ k'.lock = k.lock /\ k'.queue = k.queue /\ k'.defunct = k.defunct /\ k'.owed = k.owed
      /\ k'.timer = k.timer /\ k'.prio = k.prio /\ k'.slice = k.slice
      /\ k'.stat[u] = "none" /\ \A t \in Thread \ {u} : k'.stat[t] = k.stat[t]
  <2>1. DOMAIN k = DOMAIN k' /\ k.stat \in [Thread -> Stats] /\ [k.stat EXCEPT ![u] = "none"] \in [Thread -> Stats]
    BY <1>1, <1>3, <1>8 DEF KState, Stats
  <2>2. /\ k'.ready = k.ready /\ k'.group = k.group /\ k'.cur = k.cur
        /\ k'.lock = k.lock /\ k'.queue = k.queue /\ k'.defunct = k.defunct /\ k'.owed = k.owed
        /\ k'.timer = k.timer /\ k'.prio = k.prio /\ k'.slice = k.slice
        /\ k'.stat = [k.stat EXCEPT ![u] = "none"]
    BY <1>1, <1>8 DEF KState
  <2>3. k' \in KState
    BY <1>1, <1>8, <2>1 DEF KState
  <2>4. k'.stat[u] = "none" /\ \A t \in Thread \ {u} : k'.stat[t] = k.stat[t]
    BY <1>3, <2>1, <2>2
  <2> QED  BY <2>2, <2>3, <2>4
<1>10. WorkOn(u)
  BY <1>4 DEF WorkOn
<1>11. \A t \in Thread \ {u} : SameFor(t)
  BY <1>1, <1>9 DEF SameFor
<1>12. Members' = Members
  <2>1. k.stat[u] # "ready" /\ k'.stat[u] # "ready"
    BY <1>6, <1>9
  <2>2. u \notin Members /\ u \notin Members'
    BY <2>1 DEF Members
  <2>3. k'.cur = k.cur /\ due' = due
    BY <1>1, <1>9
  <2>4. Members' = Members \ {u}
    BY <1>3, <1>10, <1>11, <2>2, <2>3, MembersAre
  <2> QED  BY <2>2, <2>4
<1>13. Lists(k', Members') /\ HighestReady(k') = HighestReady(k)
  BY <1>8, <1>9, <1>12, ListsKept
<1>14. (Grave(u) /\ Timed(u) /\ Handled(u))'
  <2>1. ~Frees(u)'
    BY <1>4 DEF Frees
  <2>2. ~BeingDeleted(u)' /\ ~Doing({"unlink", "insert"}, u)' /\ ~Doing({"suspend"}, u)'
        /\ ~Doing({"bury"}, u)'
    BY <1>4, <1>6, <1>7 DEF BeingDeleted, Doing
  <2>3. Quiet(u)'
    BY <1>1, <1>7, <1>9 DEF Quiet
  <2> QED  BY <1>6, <1>9, <2>1, <2>2, <2>3 DEF Grave, Timed, Handled
<1>15. BestInv'
  BY <1>2, <1>9, <1>13 DEF IInv, BestInv
<1>16. Once(k'.defunct)
  BY <1>9 DEF IInv, ListsInv
<1> QED
  BY <1>1, <1>3, <1>4, <1>6, <1>9, <1>10, <1>11, <1>13, <1>14, <1>15, <1>16, WorkKeeps
-----------------------------------------------------------------------------
(* The invariant of the whole specification.                               *)
LEMMA InitIInv == Init => IInv
<1> SUFFICES ASSUME Init PROVE IInv
  OBVIOUS
<1> DEFINE B == Boot({Manager, Idle})
           st == [t \in Thread |-> IF t \in {Manager, Idle} THEN B.stat[t] ELSE "none"]
<1>0. {Manager, Idle} \in SUBSET Thread /\ IsFiniteSet({Manager, Idle})
  <2>1. IsFiniteSet({Manager}) /\ IsFiniteSet({Manager} \cup {Idle})
    BY FS_Singleton, FS_AddElement
  <2>2. {Manager, Idle} = {Manager} \cup {Idle}
    OBVIOUS
  <2> QED  BY <2>1, <2>2, Roles
<1>1. /\ k = [B EXCEPT !.stat = st] /\ call = [t \in Thread |-> InUser] /\ due = {}
  <2>1. B \in KState
    BY <1>0, Booted DEF Lists
  <2> QED  BY <2>1 DEF Init, KState
<1>2. /\ Lists(B, {Manager, Idle}) /\ B.cur = HighestReady(B) /\ B.cur \in {Manager, Idle}
      /\ B.stat = [t \in Thread |-> IF t \in {Manager, Idle} THEN "ready" ELSE "init"]
      /\ B.lock = 0 /\ B.slice = InitTick /\ B.timer = [t \in Thread |-> 0]
      /\ B.queue = [q \in Queues |-> <<>>] /\ B.defunct = <<>>
  BY <1>0, Booted
<1>3. \A t \in Thread : st[t] = IF t \in {Manager, Idle} THEN "ready" ELSE "none"
  BY <1>2
<1> HIDE DEF B
<1>4. B \in KState /\ st \in [Thread -> Stats]
  BY <1>2, <1>3 DEF Lists, Stats
<1> HIDE DEF st
<1>5. /\ k \in KState /\ k.stat = st /\ k.prio = B.prio /\ k.ready = B.ready /\ k.group = B.group
      /\ k.cur = B.cur /\ k.lock = B.lock /\ k.slice = B.slice /\ k.timer = B.timer
      /\ k.queue = B.queue /\ k.defunct = B.defunct
  BY <1>1, <1>4 DEF KState
<1>6. \A t \in Thread : call[t] = InUser /\ InUser \in Call /\ InUser.pc = "user"
  BY <1>1, SchedulingCalls
<1>7. CallsInv
  BY <1>1, <1>6, Roles DEF CallsInv, Managing
<1>8. \A t : /\ ~BeingDeleted(t) /\ ~Doing({"unlink", "insert"}, t) /\ ~Doing({"suspend"}, t)
             /\ ~Doing({"bury"}, t) /\ ~Frees(t)
  BY <1>6, Roles DEF BeingDeleted, Doing, Frees
<1>9. Members = {Manager, Idle}
  BY <1>3, <1>5, <1>8, Roles DEF Members
<1>10. Lists(k, Members) /\ HighestReady(k) = HighestReady(B)
  BY <1>2, <1>5, <1>9, ListsKept
<1>11. k.queue = [q \in Queues |-> <<>>] /\ Once(k.defunct) /\ \A t : ~In(k.defunct, t)
  BY <1>2, <1>5 DEF Once, In
<1>12. \A t \in Thread : Quiet(t)
  BY <1>1, <1>2, <1>5 DEF Quiet
<1>13. GraveInv /\ TimerInv /\ HandledInv
  BY <1>1, <1>8, <1>11, <1>12 DEF GraveInv, Grave, TimerInv, Timed, HandledInv, Handled
<1>14. RestTypes
  <2>1. k.cur \in Thread /\ k.lock \in 0..MaxLock
    BY <1>2, <1>5, Roles, ThreadsAssumption
  <2>2. \A t \in Thread : k.slice[t] \in 1..InitTick[t] /\ k.timer[t] = 0
    BY <1>2, <1>5, Priorities
  <2> QED  BY <1>1, <2>1, <2>2 DEF RestTypes
<1>15. RunnerInv
  BY <1>2, <1>3, <1>5, <1>9, Roles DEF RunnerInv
<1>16. BestInv
  BY <1>2, <1>5, <1>10 DEF BestInv
<1> QED  BY <1>7, <1>10, <1>11, <1>13, <1>14, <1>15, <1>16 DEF IInv, ListsInv
-----------------------------------------------------------------------------
(* Every step keeps the invariant.                                         *)
LEMMA InterruptKeeps ==
  ASSUME IInv, ~Overtaken, Clock \/ Interrupt
  PROVE  IInv' /\ StaysClosed
<1>1. CASE Tick
  <2>1. IInv' /\ k'.stat = k.stat /\ (k'.cur = k.cur \/ k'.cur \in Members')
    BY <1>1, TickKeeps
  <2> QED  BY <2>1 DEF StaysClosed, Members
<1>2. ASSUME NEW t \in Thread, Expire(t)
      PROVE  IInv' /\ StaysClosed
  BY <1>2, ExpireKeeps
<1>3. ASSUME NEW u \in Others, ResumedByInterrupt(u)
      PROVE  IInv' /\ StaysClosed
  BY <1>3, ResumedByInterruptKeeps
<1> QED  BY <1>1, <1>2, <1>3 DEF Clock, Interrupt, Interrupts

LEMMA InKernelKeeps ==
  ASSUME IInv, InKernel
  PROVE  IInv' /\ StaysClosed
<1>1. PICK u : call[Manager].on = u
  OBVIOUS
<1>2. PICK w : call[Idle].on = w
  OBVIOUS
<1>3. ASSUME NEW t \in Thread \ {Idle}, Schedule(t)
      PROVE  IInv' /\ StaysClosed
  BY <1>3, ScheduleKeeps
<1>4. ASSUME NEW t \in Thread \ {Idle}, Slept(t)
      PROVE  IInv' /\ StaysClosed
  BY <1>4, SleptKeeps
<1>5. CASE Unlink
  BY <1>1, <1>5, UnlinkKeeps
<1>6. CASE Insert
  BY <1>1, <1>6, InsertKeeps
<1>7. CASE SuspendIt
  BY <1>1, <1>7, SuspendItKeeps
<1>8. CASE Untime
  BY <1>1, <1>8, UntimeKeeps
<1>9. CASE Close
  BY <1>1, <1>9, CloseKeeps
<1>10. CASE BuryIt
  BY <1>1, <1>10, BuryItKeeps
<1>11. CASE Reap
  BY <1>11, ReapKeeps
<1>12. CASE Free
  BY <1>2, <1>12, FreeKeeps
<1> QED
  BY <1>3, <1>4, <1>5, <1>6, <1>7, <1>8, <1>9, <1>10, <1>11, <1>12 DEF InKernel

LEMMA RequestKeeps ==
  ASSUME IInv, ~Overtaken, Request
  PROVE  IInv' /\ StaysClosed
<1>1. ASSUME NEW t \in Thread \ {Idle},
             \/ SuspendSelf(t) \/ Yield(t) \/ rt_thread_exit(t)
             \/ rt_enter_critical(t) \/ rt_exit_critical(t)
             \/ \E n \in Times : rt_thread_sleep(t, n)
      PROVE  IInv' /\ StaysClosed
  <2>1. ASSUME NEW n \in Times, rt_thread_sleep(t, n)
        PROVE  IInv' /\ StaysClosed
    BY <2>1, SleepKeeps
  <2>2. CASE SuspendSelf(t)
    BY <2>2, SuspendSelfKeeps
  <2>3. CASE Yield(t)
    BY <2>3, YieldKeeps
  <2>4. CASE rt_thread_exit(t)
    BY <2>4, ThreadExitKeeps
  <2>5. CASE rt_enter_critical(t)
    BY <2>5, EnterKeeps
  <2>6. CASE rt_exit_critical(t)
    BY <2>6, ExitKeeps
  <2> QED  BY <1>1, <2>1, <2>2, <2>3, <2>4, <2>5, <2>6
<1>2. ASSUME NEW u \in Others,
             Create(u) \/ Startup(u) \/ Resume(u) \/ SuspendOther(u) \/ Delete(u)
      PROVE  IInv' /\ StaysClosed
  <2>1. CASE Create(u)
    BY <2>1, CreateKeeps
  <2>2. CASE Startup(u)
    BY <2>2, StartupKeeps
  <2>3. CASE Resume(u)
    BY <2>3, ResumeKeeps
  <2>4. CASE SuspendOther(u)
    BY <2>4, SuspendOtherKeeps
  <2>5. CASE Delete(u)
    BY <2>5, DeleteKeeps
  <2> QED  BY <1>2, <2>1, <2>2, <2>3, <2>4, <2>5
<1>3. ASSUME NEW u \in Others, NEW p \in Prio \ {MaxPrio}, Control(u, p)
      PROVE  IInv' /\ StaysClosed
  BY <1>3, ControlKeeps
<1> QED  BY <1>1, <1>2, <1>3 DEF Request

LEMMA StutterKeeps ==
  ASSUME IInv, UNCHANGED vars
  PROVE  IInv'
<1>1. k' = k /\ call' = call /\ due' = due
  BY DEF vars, kernelVars
<1>2. \A t : /\ BeingDeleted(t)' <=> BeingDeleted(t)
             /\ Frees(t)' <=> Frees(t)
             /\ Quiet(t)' <=> Quiet(t)
             /\ Doing({"unlink", "insert"}, t)' <=> Doing({"unlink", "insert"}, t)
             /\ Doing({"suspend"}, t)' <=> Doing({"suspend"}, t)
             /\ Doing({"bury"}, t)' <=> Doing({"bury"}, t)
             /\ Doing({"insert", "close", "bury"}, t)' <=> Doing({"insert", "close", "bury"}, t)
  BY <1>1 DEF BeingDeleted, Frees, Quiet, Doing
<1>3. Members' = Members
  BY <1>1, <1>2 DEF Members
<1>4. CallsInv' /\ ListsInv' /\ RestTypes' /\ RunnerInv' /\ BestInv'
  BY <1>1, <1>3 DEF IInv, CallsInv, ListsInv, RestTypes, RunnerInv, BestInv
<1>5. \A t \in Thread : Grave(t) /\ Timed(t) /\ Handled(t)
  BY DEF IInv, GraveInv, TimerInv, HandledInv
<1>6. \A t \in Thread : (Grave(t) /\ Timed(t) /\ Handled(t))'
  BY <1>1, <1>2, <1>5 DEF Grave, Timed, Handled
<1> QED  BY <1>4, <1>6 DEF IInv, GraveInv, TimerInv, HandledInv

LEMMA NextKeeps ==
  ASSUME IInv, ~raced', [Next]_vars
  PROVE  IInv' /\ [StaysClosed]_vars
<1>1. CASE Next
  <2>1. raced' = (raced \/ Overtaken)
    BY <1>1 DEF Next, Clock, Interrupt, InKernel, Request, Watched
  <2>2. ~Overtaken
    BY <2>1
  <2> QED  BY <1>1, <2>2, InterruptKeeps, InKernelKeeps, RequestKeeps DEF Next
<1>2. CASE UNCHANGED vars
  BY <1>2, StutterKeeps
<1> QED  BY <1>1, <1>2

(* The invariant until a thread changes under the hands of the manager.    *)
LEMMA RacedKept ==
  ASSUME raced \in BOOLEAN, [Next]_vars
  PROVE  raced' \in BOOLEAN /\ (raced => raced')
<1>1. CASE Next
  <2>1. raced' = (raced \/ Overtaken)
    BY <1>1 DEF Next, Clock, Interrupt, InKernel, Request, Watched
  <2> QED  BY <2>1
<1>2. CASE UNCHANGED vars
  <2>1. raced' = raced
    BY <1>2 DEF vars
  <2> QED  BY <2>1
<1> QED  BY <1>1, <1>2

UntilRaced == raced \in BOOLEAN /\ (raced \/ IInv)

LEMMA Invariance ==
  Spec => []UntilRaced /\ [][raced' \/ StaysClosed]_vars
<1>1. Init => UntilRaced
  BY InitIInv DEF Init, UntilRaced
<1>2. UntilRaced /\ [Next]_vars => UntilRaced' /\ [raced' \/ StaysClosed]_vars
  <2> SUFFICES ASSUME UntilRaced, [Next]_vars
               PROVE  UntilRaced' /\ [raced' \/ StaysClosed]_vars
    OBVIOUS
  <2>1. raced' \in BOOLEAN /\ (raced => raced')
    BY RacedKept DEF UntilRaced
  <2>2. CASE raced'
    BY <2>1, <2>2 DEF UntilRaced
  <2>3. CASE ~raced'
    <3>1. IInv
      BY <2>1, <2>3 DEF UntilRaced
    <3>2. IInv' /\ [StaysClosed]_vars
      BY <2>3, <3>1, NextKeeps
    <3> QED  BY <2>1, <3>2 DEF UntilRaced
  <2> QED  BY <2>2, <2>3
<1> QED  BY <1>1, <1>2, PTL DEF Spec
-----------------------------------------------------------------------------
LEMMA NoPlaces ==
  ASSUME NEW s, NEW t
  PROVE  /\ Positions(s, t) = {} <=> ~In(s, t)
         /\ Once(s) /\ In(s, t) => \E i \in 1..Len(s) : Positions(s, t) = {i}
BY DEF Positions, In, Once

LEMMA InNoReadyList ==
  ASSUME IInv, NEW t \in Thread, t \notin Members
  PROVE  ReadyPlaces(t) = {}
<1>1. \A p \in Prio : Positions(k.ready[p], t) = {}
  BY Basics, NoPlaces DEF Lists
<1> QED  BY <1>1 DEF ReadyPlaces

LEMMA OtherPlacesAre ==
  ASSUME IInv, NEW t \in Thread
  PROVE  /\ OtherPlaces(t) = Positions(k.defunct, t)
         /\ ~In(k.defunct, t) => OtherPlaces(t) = {}
<1>1. \A q \in Queues : Positions(k.queue[q], t) = {}
  <2>1. \A q \in Queues : k.queue[q] = <<>>
    BY DEF IInv, ListsInv
  <2> QED  BY <2>1 DEF Positions
<1>2. OtherPlaces(t) = Positions(k.defunct, t)
  BY <1>1 DEF OtherPlaces
<1> QED  BY <1>2, NoPlaces

LEMMA AllInOneList ==
  ASSUME IInv, NEW t \in Thread
  PROVE  InItsList(t) \/ (BeingDeleted(t) /\ ReadyPlaces(t) = {})
<1>1. CASE BeingDeleted(t)
  <2>1. t \notin Members
    BY <1>1 DEF Members
  <2> QED  BY <1>1, <2>1, InNoReadyList
<1>2. CASE ~BeingDeleted(t) /\ k.stat[t] = "ready"
  <2>1. t \in Members /\ ~In(k.defunct, t)
    BY <1>2, IdleFrees DEF Members
  <2>2. /\ k.prio[t] \in Prio
        /\ \A p \in Prio : Once(k.ready[p]) /\ (In(k.ready[p], t) <=> k.prio[t] = p)
    BY <2>1, Basics DEF Lists
  <2>3. PICK i \in 1..Len(k.ready[k.prio[t]]) : Positions(k.ready[k.prio[t]], t) = {i}
    BY <2>2, NoPlaces
  <2>4. \A p \in Prio \ {k.prio[t]} : Positions(k.ready[p], t) = {}
    BY <2>2, NoPlaces
  <2>5. ReadyPlaces(t) = {<<k.prio[t], i>>}
    <3>1. ASSUME NEW x  PROVE x \in ReadyPlaces(t) <=> x = <<k.prio[t], i>>
      <4>1. x \in ReadyPlaces(t)
              <=> \E p \in Prio : \E j \in Positions(k.ready[p], t) : x = <<p, j>>
        BY DEF ReadyPlaces
      <4> QED  BY <2>2, <2>3, <2>4, <4>1
    <3> QED  BY <3>1
  <2>6. OtherPlaces(t) = {}
    BY <2>1, OtherPlacesAre
  <2> QED  BY <1>2, <2>3, <2>5, <2>6 DEF InItsList
<1>3. CASE k.stat[t] # "ready"
  <2>1. ReadyPlaces(t) = {}
    BY <1>3, InNoReadyList DEF Members
  <2>2. Cardinality(OtherPlaces(t)) <= 1
    <3>1. CASE ~In(k.defunct, t)
      BY <3>1, OtherPlacesAre, FS_EmptySet
    <3>2. CASE In(k.defunct, t)
      <4>1. Once(k.defunct)
        BY DEF IInv, ListsInv
      <4>2. PICK i : OtherPlaces(t) = {i}
        BY <3>2, <4>1, OtherPlacesAre, NoPlaces
      <4>3. Cardinality(OtherPlaces(t)) = 1
        BY <4>2, FS_Singleton
      <4> QED  BY <4>3
    <3> QED  BY <3>1, <3>2
  <2> QED  BY <1>3, <2>1, <2>2 DEF InItsList
<1> QED  BY <1>1, <1>2, <1>3

LEMMA IInvAgrees ==
  ASSUME IInv
  PROVE  KernelTypeOK(Times, MaxLock) /\ OneList /\ GroupTells /\ TimersOfSuspended
<1>1. KernelTypeOK(Times, MaxLock)
  <2>1. DOMAIN k = DOMAIN NoneReady
    <3> DEFINE names == {"stat", "prio", "ready", "group", "cur", "lock", "slice", "error",
                         "timer", "queue", "defunct", "owed"}
    <3>1. DOMAIN k = names
      <4>1. k \in KState
        BY Basics
      <4> QED  BY <4>1 DEF KState
    <3>2. DOMAIN NoneReady = names
      BY DEF NoneReady
    <3> QED  BY <3>1, <3>2
  <2> QED  BY <2>1, Basics DEF KernelTypeOK, KState, IInv, RestTypes
<1>3. OneList
  BY AllInOneList DEF OneList
<1>4. GroupTells
  BY Basics DEF GroupTells, Lists
<1>5. TimersOfSuspended
  BY Basics DEF TimersOfSuspended, IInv, TimerInv, Timed, Quiet
<1> QED  BY <1>1, <1>3, <1>4, <1>5

LEMMA IInvNothingDangles ==
  ASSUME IInv
  PROVE  NothingDangles
<1> SUFFICES ASSUME NEW t \in Thread, Dead(t)
             PROVE  /\ ReadyPlaces(t) = {} /\ OtherPlaces(t) = {}
                    /\ k.timer[t] = 0 /\ t \notin due /\ k.cur # t
  BY DEF NothingDangles
<1>1. k.stat[t] = "none" \/ (k.stat[t] = "close" /\ Frees(t))
  BY DEF Dead, Frees, IInv, GraveInv, Grave
<1>2. t \notin Members /\ ~In(k.defunct, t) /\ Quiet(t) /\ k.cur # t
  <2>1. t \notin Members
    BY <1>1 DEF Members
  <2>2. ~In(k.defunct, t) /\ Quiet(t)
    BY <1>1 DEF IInv, GraveInv, Grave, TimerInv, Timed
  <2>3. k.cur # t
    BY <1>1, <2>1 DEF IInv, RunnerInv, GraveInv, Grave
  <2> QED  BY <2>1, <2>2, <2>3
<1> QED  BY <1>2, InNoReadyList, OtherPlacesAre DEF Quiet

(* At every point where an interrupt may come, what scheduler.c and        *)
(* thread.c keep of a thread agrees: its state, the one list it is in, the *)
(* bitmap of priorities and its timer, until a thread changes between the  *)
(* look that rt_thread_resume, _suspend or _delete takes at it and what    *)
(* they do.                                                                *)
THEOREM KernelAgrees == Spec => []StateAgrees
<1>1. UntilRaced => StateAgrees
  <2> SUFFICES ASSUME raced \in BOOLEAN, IInv
               PROVE  StateAgrees
    BY DEF UntilRaced, StateAgrees
  <2>1. \A t \in Thread : call[t].pc \in {"user", "schedule", "slept", "gone", "unlink",
                                         "insert", "suspend", "untime", "close", "bury", "free"}
    BY CallIs DEF IInv
  <2>2. TypeOK
    BY <2>1, IInvAgrees DEF TypeOK
  <2> QED  BY <2>2, IInvAgrees DEF StateAgrees
<1> QED  BY <1>1, Invariance, PTL

(* Outside of the kernel's functions the first of the threads of highest   *)
(* priority runs (rt_schedule, scheduler.c), unless the scheduler is       *)
(* locked or the caller of the last function still has to call it, until   *)
(* a thread changes under the hands of the manager.                        *)
THEOREM TheHighestRuns == Spec => []FirstRuns
<1>1. UntilRaced => FirstRuns
  BY DEF UntilRaced, IInv, BestInv, FirstRuns, HighestRuns
<1> QED  BY <1>1, Invariance, PTL

(* Of a thread that idle frees nothing is left in a list or among the      *)
(* timers (rt_defunct_execute, idle.c), and no thread that was deleted     *)
(* comes back; the step at which either ends is one where a time-out or a  *)
(* handler changed a thread between the parts of rt_thread_delete, _resume *)
(* or _suspend, or where the thread itself did.                            *)
THEOREM TheDeletedIsGone == Spec => DeletedIsGone
<1>1. UntilRaced => raced \/ NothingDangles
  BY IInvNothingDangles DEF UntilRaced
<1> QED  BY <1>1, Invariance, PTL DEF DeletedIsGone
=============================================================================
