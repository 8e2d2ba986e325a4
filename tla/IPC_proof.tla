------------------------------ MODULE IPC_proof ------------------------------
(***************************************************************************)
(* Theorems about the objects of ipc.c, and the threads and interrupt      *)
(* handlers that use them: for any threads, priorities and time-outs, and  *)
(* objects of any kind and size.                                           *)
(***************************************************************************)
EXTENDS Kernel_proof, Objects

(* The lists hold the threads that are ready, or that wait.                *)
Ready(K) == {t \in Thread : K.stat[t] = "ready"}
Listed(K) == Lists(K, Ready(K)) /\ OnceElsewhere(K) /\ K.defunct = <<>>

LEMMA ListedIs ==
  ASSUME NEW K, Listed(K)
  PROVE  /\ K \in KState /\ K.stat \in [Thread -> Stats] /\ K.prio \in [Thread -> Prio]
         /\ K.queue \in [Queues -> Seq(Thread)] /\ \A q \in Queues : Once(K.queue[q])
         /\ K.error \in [Thread -> {"EOK", "ETIMEOUT", "ERROR"}] /\ K.timer \in [Thread -> Nat]
         /\ \A t : Elsewhere(K, t) <=> \E q \in Queues : In(K.queue[q], t)
<1>1. \A t : ~In(<<>>, t)
  BY DEF In
<1> QED  BY <1>1 DEF Listed, Lists, KState, OnceElsewhere, Elsewhere

(* Data that the lists do not depend on may change.                        *)
LEMMA ListedSame ==
  ASSUME NEW K, Listed(K), NEW L \in KState, L.ready = K.ready, L.group = K.group,
         L.prio = K.prio, L.stat = K.stat, L.queue = K.queue, L.defunct = K.defunct
  PROVE  Listed(L) /\ HighestReady(L) = HighestReady(K)
<1>1. Ready(L) = Ready(K)
  BY DEF Ready
<1> QED  BY <1>1, ListsKept DEF Listed, OnceElsewhere

(* The lists that are left when a thread is taken out of those it is in.   *)
QueuesWithout(K, t) == [q \in Queues |-> Without(K.queue[q], t)]

LEMMA QueuesWithoutIs ==
  ASSUME NEW K, Listed(K), NEW t
  PROVE  /\ QueuesWithout(K, t) \in [Queues -> Seq(Thread)]
         /\ \A q \in Queues : /\ Once(QueuesWithout(K, t)[q])
                              /\ \A u : In(QueuesWithout(K, t)[q], u) <=> In(K.queue[q], u) /\ u # t
<1>1. \A q \in Queues : K.queue[q] \in Seq(Thread) /\ Once(K.queue[q])
  BY ListedIs
<1>2. \A q \in Queues : /\ Without(K.queue[q], t) \in Seq(Thread) /\ Once(Without(K.queue[q], t))
                        /\ \A u : In(Without(K.queue[q], t), u) <=> In(K.queue[q], u) /\ u # t
  BY <1>1, WithoutIn
<1> QED  BY <1>2 DEF QueuesWithout

LEMMA Unlinked ==
  ASSUME NEW K, Listed(K), NEW t \in Thread, t \notin Ready(K)
  PROVE  LET L == rt_list_remove(K, t)
         IN  /\ Listed(L) /\ SameButLists(L, K) /\ L.queue = QueuesWithout(K, t)
             /\ ~Elsewhere(L, t)
<1> DEFINE L == rt_list_remove(K, t)
<1>1. K \in KState /\ (\A p \in Prio : Once(K.ready[p])) /\ OnceElsewhere(K) /\ Lists(K, Ready(K))
  BY DEF Listed, Lists
<1>2. /\ L \in KState /\ SameButLists(L, K) /\ L.group = K.group
      /\ L.ready = [p \in Prio |-> Without(K.ready[p], t)]
      /\ L.queue = QueuesWithout(K, t)
      /\ L.defunct = Without(K.defunct, t)
  BY <1>1, ListRemove DEF QueuesWithout
<1> HIDE DEF L
<1>3. L.ready = K.ready
  <2>1. K.ready \in [Prio -> Seq(Thread)]
    BY <1>1 DEF KState
  <2>2. \A p \in Prio : ~In(K.ready[p], t)
    BY DEF Listed, Lists
  <2>3. \A p \in Prio : Without(K.ready[p], t) = K.ready[p]
    BY <1>1, <2>1, <2>2, WithoutIn
  <2> QED  BY <1>2, <2>1, <2>3
<1>4. L.defunct = <<>>
  <2>1. K.defunct = <<>> /\ ~In(<<>>, t)
    BY DEF Listed, In
  <2>2. Without(<<>>, t) = <<>>
    BY DEF Without
  <2> QED  BY <1>2, <2>1, <2>2
<1>5. OnceElsewhere(L) /\ ~Elsewhere(L, t)
  <2>1. \A u : ~In(<<>>, u) /\ Once(<<>>)
    BY DEF In, Once
  <2>2. \A q \in Queues : Once(L.queue[q]) /\ ~In(L.queue[q], t)
    BY <1>2, QueuesWithoutIs
  <2> QED  BY <1>4, <2>1, <2>2 DEF OnceElsewhere, Elsewhere
<1>6. Ready(L) = Ready(K)
  BY <1>2 DEF Ready, SameButLists
<1>7. Lists(L, Ready(L))
  BY <1>1, <1>2, <1>3, <1>6, ListsKept DEF SameButLists
<1> QED  BY <1>2, <1>4, <1>5, <1>7 DEF Listed, L

(* A thread that waited, or slept, is ready again.                         *)
Woken(L, K, t) ==
  /\ Listed(L) /\ L.stat = [K.stat EXCEPT ![t] = "ready"] /\ L.prio = K.prio
  /\ L.lock = K.lock /\ L.slice = K.slice /\ L.queue = QueuesWithout(K, t)
  /\ L.timer = [K.timer EXCEPT ![t] = 0]

LEMMA LinkedAgain ==
  ASSUME NEW K, Listed(K), NEW t \in Thread, t \notin Ready(K)
  PROVE  LET L == rt_schedule_insert_thread(rt_list_remove(K, t), t)
         IN  /\ Listed(L) /\ L.stat = [K.stat EXCEPT ![t] = "ready"] /\ L.prio = K.prio
             /\ L.cur = K.cur /\ L.lock = K.lock /\ L.slice = K.slice /\ L.error = K.error
             /\ L.timer = K.timer /\ L.owed = K.owed /\ L.queue = QueuesWithout(K, t)
<1> DEFINE M == rt_list_remove(K, t)
           L == rt_schedule_insert_thread(M, t)
<1>1. Listed(M) /\ SameButLists(M, K) /\ M.queue = QueuesWithout(K, t) /\ ~Elsewhere(M, t)
  BY Unlinked
<1> HIDE DEF M
<1>2. t \notin Ready(M) /\ Lists(M, Ready(M)) /\ M.stat \in [Thread -> Stats]
  BY <1>1, ListedIs DEF Ready, SameButLists, Listed
<1>3. /\ Lists(L, Ready(M) \cup {t}) /\ SameElsewhere(L, M)
      /\ L.stat = [M.stat EXCEPT ![t] = "ready"] /\ L.prio = M.prio
      /\ L.cur = M.cur /\ L.lock = M.lock /\ L.slice = M.slice /\ L.error = M.error
      /\ L.timer = M.timer /\ L.owed = M.owed
  BY <1>2, Inserted
<1> HIDE DEF L
<1>4. Ready(L) = Ready(M) \cup {t}
  BY <1>2, <1>3 DEF Ready
<1>5. Listed(L)
  BY <1>1, <1>3, <1>4 DEF Listed, SameElsewhere, OnceElsewhere
<1> QED  BY <1>1, <1>3, <1>5 DEF SameButLists, SameElsewhere, L, M

LEMMA ResumeIs ==
  ASSUME NEW K, Listed(K), NEW t \in Thread, K.stat[t] = "suspend"
  PROVE  LET L == rt_thread_resume(K, t)
         IN  Woken(L, K, t) /\ L.error = K.error /\ L.cur = K.cur /\ L.owed = K.owed
<1> DEFINE N == [K EXCEPT !.timer[t] = 0]
           L == rt_thread_resume(K, t)
           M == rt_schedule_insert_thread(rt_list_remove(N, t), t)
<1>1. K \in KState
  BY ListedIs
<1>2. N \in KState
  BY <1>1 DEF KState
<1>3. /\ N.ready = K.ready /\ N.group = K.group /\ N.queue = K.queue /\ N.defunct = K.defunct
      /\ N.stat = K.stat /\ N.prio = K.prio /\ N.cur = K.cur /\ N.lock = K.lock
      /\ N.slice = K.slice /\ N.owed = K.owed /\ N.error = K.error
      /\ N.timer = [K.timer EXCEPT ![t] = 0]
  BY <1>1 DEF KState
<1>4. L = rt_schedule_insert_thread([rt_list_remove(K, t) EXCEPT !.timer[t] = 0], t)
  BY DEF rt_thread_resume, ResumeUnlink
<1>5. [rt_list_remove(K, t) EXCEPT !.timer[t] = 0] = rt_list_remove(N, t)
  BY <1>1 DEF rt_list_remove, KState
<1> HIDE DEF N
<1>6. L = M
  BY <1>4, <1>5
<1>7. Listed(N) /\ t \notin Ready(N)
  BY <1>2, <1>3, ListedSame DEF Ready
<1>8. QueuesWithout(N, t) = QueuesWithout(K, t)
  BY <1>3 DEF QueuesWithout
<1> HIDE DEF L
<1>9. /\ Listed(M) /\ M.stat = [N.stat EXCEPT ![t] = "ready"] /\ M.prio = N.prio
      /\ M.cur = N.cur /\ M.lock = N.lock /\ M.slice = N.slice /\ M.error = N.error
      /\ M.timer = N.timer /\ M.owed = N.owed /\ M.queue = QueuesWithout(N, t)
  BY <1>7, LinkedAgain
<1> QED  BY <1>3, <1>6, <1>8, <1>9 DEF Woken, L

LEMMA WakeErrorIs ==
  ASSUME NEW K, Listed(K), NEW t \in Thread, K.stat[t] = "suspend"
  PROVE  LET L == WakeWithError(K, t)
         IN  /\ Woken(L, K, t) /\ L.cur = K.cur /\ L.owed = K.owed
             /\ L.error = [K.error EXCEPT ![t] = "ERROR"]
<1> DEFINE N == [K EXCEPT !.error[t] = "ERROR"]
           L == WakeWithError(K, t)
<1>1. K \in KState
  BY ListedIs
<1>2. N \in KState
  BY <1>1 DEF KState
<1>3. /\ N.ready = K.ready /\ N.group = K.group /\ N.queue = K.queue /\ N.defunct = K.defunct
      /\ N.stat = K.stat /\ N.prio = K.prio /\ N.cur = K.cur /\ N.lock = K.lock
      /\ N.slice = K.slice /\ N.owed = K.owed /\ N.timer = K.timer
      /\ N.error = [K.error EXCEPT ![t] = "ERROR"]
  BY <1>1 DEF KState
<1>4. L = rt_thread_resume(N, t)
  BY DEF WakeWithError
<1> HIDE DEF N, L
<1>5. Listed(N) /\ N.stat[t] = "suspend"
  BY <1>2, <1>3, ListedSame
<1>6. QueuesWithout(N, t) = QueuesWithout(K, t)
  BY <1>3 DEF QueuesWithout
<1>7. Woken(L, N, t) /\ L.error = N.error /\ L.cur = N.cur /\ L.owed = N.owed
  BY <1>4, <1>5, ResumeIs
<1> QED  BY <1>3, <1>6, <1>7 DEF Woken, L

(* rt_schedule keeps the lists.                                            *)
LEMMA ScheduledIs ==
  ASSUME NEW K, Listed(K), K.lock = 0, K.stat[Idle] = "ready"
  PROVE  LET L == rt_schedule(K)
         IN  /\ Listed(L) /\ L.stat = K.stat /\ L.prio = K.prio /\ L.lock = K.lock
             /\ L.slice = K.slice /\ L.error = K.error /\ L.timer = K.timer
             /\ L.queue = K.queue
             /\ L.cur = HighestReady(L) /\ L.cur \in Ready(L) /\ L.owed = FALSE
<1> DEFINE L == rt_schedule(K)
<1>1. Idle \in Ready(K) /\ Ready(K) \in SUBSET Thread /\ Lists(K, Ready(K))
  BY Priorities DEF Ready, Listed
<1>2. /\ Lists(L, Ready(K)) /\ HighestReady(L) = HighestReady(K) /\ SameElsewhere(L, K)
      /\ L.stat = K.stat /\ L.prio = K.prio /\ L.lock = K.lock
      /\ L.slice = K.slice /\ L.error = K.error /\ L.timer = K.timer
      /\ L.cur = HighestReady(L) /\ L.cur \in Ready(K) /\ L.owed = FALSE
  BY <1>1, Scheduled
<1> HIDE DEF L
<1>3. Ready(L) = Ready(K)
  BY <1>2 DEF Ready
<1>4. Listed(L)
  BY <1>2, <1>3 DEF Listed, OnceElsewhere, SameElsewhere
<1> QED  BY <1>2, <1>3, <1>4 DEF SameElsewhere, L

(* A time-out takes a thread out of the list it waits in.                  *)
LEMMA TimeoutIs ==
  ASSUME NEW K, Listed(K), K.lock = 0, K.stat[Idle] = "ready",
         NEW t \in Thread, K.stat[t] = "suspend"
  PROVE  LET L == rt_thread_timeout(K, t)
         IN  /\ Woken(L, K, t) /\ L.error = [K.error EXCEPT ![t] = "ETIMEOUT"]
             /\ L.cur = HighestReady(L) /\ L.cur \in Ready(L) /\ L.owed = FALSE
<1> DEFINE N == [K EXCEPT !.error[t] = "ETIMEOUT", !.timer[t] = 0]
           M == rt_schedule_insert_thread(rt_list_remove(N, t), t)
           L == rt_thread_timeout(K, t)
<1>1. K \in KState
  BY ListedIs
<1>2. N \in KState
  BY <1>1 DEF KState
<1>3. /\ N.ready = K.ready /\ N.group = K.group /\ N.queue = K.queue /\ N.defunct = K.defunct
      /\ N.stat = K.stat /\ N.prio = K.prio /\ N.lock = K.lock /\ N.slice = K.slice
      /\ N.error = [K.error EXCEPT ![t] = "ETIMEOUT"] /\ N.timer = [K.timer EXCEPT ![t] = 0]
  BY <1>1 DEF KState
<1>4. L = rt_schedule(M)
  BY DEF rt_thread_timeout
<1> HIDE DEF N
<1>5. Listed(N) /\ t \notin Ready(N)
  BY <1>2, <1>3, ListedSame DEF Ready
<1>6. QueuesWithout(N, t) = QueuesWithout(K, t)
  BY <1>3 DEF QueuesWithout
<1>7. /\ Listed(M) /\ M.stat = [N.stat EXCEPT ![t] = "ready"] /\ M.prio = N.prio
      /\ M.lock = N.lock /\ M.slice = N.slice /\ M.error = N.error
      /\ M.timer = N.timer /\ M.queue = QueuesWithout(N, t)
  BY <1>5, LinkedAgain
<1> HIDE DEF M, L
<1>8. M.stat[Idle] = "ready" /\ M.lock = 0
  <2>1. K.stat \in [Thread -> Stats] /\ Idle \in Thread
    BY ListedIs, Priorities
  <2> QED  BY <1>3, <1>7, <2>1
<1>9. /\ Listed(L) /\ L.stat = M.stat /\ L.prio = M.prio /\ L.lock = M.lock
      /\ L.slice = M.slice /\ L.error = M.error /\ L.timer = M.timer /\ L.queue = M.queue
      /\ L.cur = HighestReady(L) /\ L.cur \in Ready(L) /\ L.owed = FALSE
  BY <1>4, <1>7, <1>8, ScheduledIs
<1> QED  BY <1>3, <1>6, <1>7, <1>9 DEF Woken, L

(* A thread is put into a list in some place.                              *)
LEMMA InsertAtIs ==
  ASSUME NEW S, NEW s \in Seq(S), NEW e \in S, NEW p \in 1..Len(s) + 1
  PROVE  LET r == InsertAt(s, p, e)
         IN  /\ r \in Seq(S) /\ Len(r) = Len(s) + 1
             /\ \A i \in 1..Len(s) + 1 :
                  r[i] = IF i < p THEN s[i] ELSE IF i = p THEN e ELSE s[i - 1]
<1> DEFINE n == Len(s)
           a == SubSeq(s, 1, p - 1)
           b == SubSeq(s, p, n)
           r == InsertAt(s, p, e)
<1>1. n \in Nat /\ p \in 1..n + 1
  OBVIOUS
<1>2. a \in Seq(S) /\ Len(a) = p - 1 /\ \A i \in 1..p - 1 : a[i] = s[i]
  BY <1>1
<1>3. b \in Seq(S) /\ Len(b) = n - p + 1 /\ \A i \in 1..n - p + 1 : b[i] = s[p + i - 1]
  BY <1>1
<1>4. r = a \o <<e>> \o b
  BY DEF InsertAt
<1> HIDE DEF a, b, r
<1> DEFINE c == a \o <<e>>
<1>5. c \in Seq(S) /\ Len(c) = p /\ c[p] = e /\ \A i \in 1..p - 1 : c[i] = a[i]
  BY <1>1, <1>2, SMTT(30)
<1>6. r = c \o b
  BY <1>4
<1> HIDE DEF c
<1>7. /\ r \in Seq(S) /\ Len(r) = p + (n - p + 1)
      /\ \A i \in 1..p + (n - p + 1) : r[i] = IF i <= p THEN c[i] ELSE b[i - p]
  BY <1>1, <1>3, <1>5, <1>6, SMTT(30)
<1>8. p + (n - p + 1) = n + 1
  BY <1>1
<1>9. ASSUME NEW i \in 1..n + 1
      PROVE  r[i] = IF i < p THEN s[i] ELSE IF i = p THEN e ELSE s[i - 1]
  <2>1. CASE i < p
    BY <1>1, <1>2, <1>5, <1>7, <1>8, <2>1
  <2>2. CASE i = p
    BY <1>1, <1>5, <1>7, <1>8, <2>2
  <2>3. CASE i > p
    <3>1. i - p \in 1..n - p + 1 /\ p + (i - p) - 1 = i - 1
      BY <1>1, <2>3
    <3>2. r[i] = b[i - p] /\ b[i - p] = s[p + (i - p) - 1]
      BY <1>1, <1>3, <1>7, <1>8, <2>3, <3>1
    <3> QED  BY <1>1, <2>3, <3>1, <3>2
  <2> QED  BY <1>1, <2>1, <2>2, <2>3
<1> QED  BY <1>7, <1>8, <1>9 DEF r

LEMMA InsertIn ==
  ASSUME NEW S, NEW s \in Seq(S), NEW e \in S, NEW p \in 1..Len(s) + 1
  PROVE  LET r == InsertAt(s, p, e)
         IN  /\ r \in Seq(S)
             /\ \A u : In(r, u) <=> In(s, u) \/ u = e
             /\ ~In(s, e) /\ Once(s) => Once(r)
<1> DEFINE r == InsertAt(s, p, e)
           n == Len(s)
<1>1. /\ r \in Seq(S) /\ Len(r) = n + 1 /\ n \in Nat /\ p \in 1..n + 1
      /\ \A i \in 1..n + 1 : r[i] = IF i < p THEN s[i] ELSE IF i = p THEN e ELSE s[i - 1]
  BY InsertAtIs
<1> HIDE DEF r
<1> DEFINE from(i) == IF i < p THEN i ELSE i - 1
           to(i) == IF i < p THEN i ELSE i + 1
<1>2. \A i \in 1..n + 1 : i # p => from(i) \in 1..n /\ r[i] = s[from(i)] /\ to(from(i)) = i
  BY <1>1
<1>3. \A i \in 1..n : to(i) \in 1..n + 1 /\ to(i) # p /\ from(to(i)) = i
  BY <1>1
<1> HIDE DEF from, to
<1>4. \A i \in 1..n : r[to(i)] = s[i]
  BY <1>2, <1>3
<1>5. ASSUME NEW u  PROVE In(r, u) <=> In(s, u) \/ u = e
  <2>1. ASSUME In(r, u), u # e  PROVE In(s, u)
    <3>1. PICK i \in 1..n + 1 : r[i] = u
      BY <1>1, <2>1 DEF In
    <3>2. i # p
      BY <1>1, <2>1, <3>1
    <3>3. from(i) \in 1..n /\ s[from(i)] = u
      BY <1>2, <3>1, <3>2
    <3> QED  BY <3>3 DEF In
  <2>2. ASSUME In(s, u)  PROVE In(r, u)
    <3>1. PICK i \in 1..n : s[i] = u
      BY <2>2 DEF In
    <3>2. to(i) \in 1..n + 1 /\ r[to(i)] = u
      BY <1>3, <1>4, <3>1
    <3> QED  BY <1>1, <3>2 DEF In
  <2>3. In(r, e)
    <3>1. r[p] = e
      BY <1>1
    <3> QED  BY <1>1, <3>1 DEF In
  <2> QED  BY <2>1, <2>2, <2>3
<1>6. ASSUME ~In(s, e), Once(s), NEW i \in 1..n + 1, NEW j \in 1..n + 1, r[i] = r[j]
      PROVE  i = j
  <2>1. r[p] = e
    BY <1>1
  <2>2. \A m \in 1..n + 1 : m # p => r[m] # e
    BY <1>2, <1>6 DEF In
  <2>3. CASE i = p \/ j = p
    BY <1>6, <2>1, <2>2, <2>3
  <2>4. CASE i # p /\ j # p
    <3>1. from(i) \in 1..n /\ from(j) \in 1..n /\ s[from(i)] = s[from(j)]
      BY <1>2, <1>6, <2>4
    <3>2. from(i) = from(j)
      BY <1>6, <3>1 DEF Once
    <3> QED  BY <1>2, <2>4, <3>2
  <2> QED  BY <2>3, <2>4
<1>7. ~In(s, e) /\ Once(s) => Once(r)
  BY <1>1, <1>6 DEF Once
<1> QED  BY <1>1, <1>5, <1>7 DEF r

LEMMA PlaceIs ==
  ASSUME NEW K, NEW l \in Seq(Thread), NEW t
  PROVE  PlaceIn(K, l, t) \in 1..Len(l) + 1
<1> DEFINE lower == {i \in 1..Len(l) : obj.flag = "PRIO" /\ K.prio[t] < K.prio[l[i]]}
<1>1. CASE lower = {}
  BY <1>1 DEF PlaceIn
<1>2. CASE lower # {}
  <2>1. lower \in SUBSET Nat /\ lower \subseteq 1..Len(l)
    OBVIOUS
  <2>2. \E i \in lower : \A j \in lower : i <= j
    BY <1>2, <2>1, Least
  <2>3. PlaceIn(K, l, t) = CHOOSE i \in lower : \A j \in lower : i <= j
    BY <1>2 DEF PlaceIn
  <2> HIDE DEF lower
  <2>4. PlaceIn(K, l, t) \in lower
    BY <2>2, <2>3
  <2>5. PlaceIn(K, l, t) \in 1..Len(l)
    BY <2>1, <2>4
  <2>6. Len(l) \in Nat
    OBVIOUS
  <2> QED  BY <2>5, <2>6
<1> QED  BY <1>1, <1>2

(* A thread that runs and starts to wait, with a time-out or without.      *)
Waiter(L, K, q, t, time) ==
  /\ Listed(L) /\ L.stat = [K.stat EXCEPT ![t] = "suspend"] /\ L.prio = K.prio
  /\ L.cur = K.cur /\ L.lock = K.lock /\ L.slice = K.slice /\ L.owed = K.owed
  /\ L.error = [K.error EXCEPT ![t] = "EOK"]
  /\ L.timer = [K.timer EXCEPT ![t] = IF time > 0 THEN time ELSE 0]
  /\ L.queue = [K.queue EXCEPT ![q] = InsertAt(@, PlaceIn(K, K.queue[q], t), t)]
  /\ \A x \in Queues : \A u : In(L.queue[x], u) <=> In(K.queue[x], u) \/ (x = q /\ u = t)

LEMMA PlaceSame ==
  ASSUME NEW K, NEW L, L.prio = K.prio, NEW l, NEW t
  PROVE  PlaceIn(L, l, t) = PlaceIn(K, l, t)
BY DEF PlaceIn

LEMMA WaitIs ==
  ASSUME NEW K, Listed(K), NEW q \in Queues, NEW t \in Thread, K.stat[t] = "ready",
         ~Elsewhere(K, t), NEW time \in Int
  PROVE  Waiter(Wait(K, q, t, time), K, q, t, time)
<1> DEFINE N == [K EXCEPT !.error[t] = "EOK"]
           M == rt_thread_suspend(N, t)
           p == PlaceIn(M, M.queue[q], t)
           R == [M EXCEPT !.queue[q] = InsertAt(@, p, t)]
           L == Wait(K, q, t, time)
<1>1. K \in KState /\ K.queue \in [Queues -> Seq(Thread)] /\ Ready(K) \subseteq Thread
  BY ListedIs DEF Ready
<1>2. N \in KState
  BY <1>1 DEF KState
<1>3. /\ N.ready = K.ready /\ N.group = K.group /\ N.queue = K.queue /\ N.defunct = K.defunct
      /\ N.stat = K.stat /\ N.prio = K.prio /\ N.cur = K.cur /\ N.lock = K.lock
      /\ N.slice = K.slice /\ N.owed = K.owed /\ N.timer = K.timer
      /\ N.error = [K.error EXCEPT ![t] = "EOK"]
  BY <1>1 DEF KState
<1>4. R = rt_ipc_list_suspend(N, q, t)
  BY DEF rt_ipc_list_suspend
<1>5. L = IF time > 0 THEN StartTimer(R, t, time) ELSE R
  BY <1>4 DEF Wait
<1> HIDE DEF N, L
<1>6. Listed(N) /\ ~Elsewhere(N, t)
  BY <1>2, <1>3, ListedSame DEF Elsewhere
<1>30. Lists(N, Ready(N)) /\ OnceElsewhere(N) /\ N.stat[t] = "ready"
  BY <1>3, <1>6 DEF Listed
<1>7. /\ Lists(M, Ready(N) \ {t}) /\ SameElsewhere(M, N)
      /\ M.stat = [N.stat EXCEPT ![t] = "suspend"] /\ M.prio = N.prio
      /\ M.cur = N.cur /\ M.lock = N.lock /\ M.slice = N.slice /\ M.error = N.error
      /\ M.timer = [N.timer EXCEPT ![t] = 0] /\ M.owed = N.owed
  BY <1>6, <1>30, Suspended
<1> HIDE DEF M
<1>8. Ready(M) = Ready(N) \ {t}
  <2>1. N.stat \in [Thread -> Stats]
    BY <1>6, ListedIs
  <2> QED  BY <1>7, <2>1 DEF Ready
<1>9. Listed(M) /\ M \in KState /\ M.queue = K.queue /\ M.defunct = <<>>
  BY <1>3, <1>6, <1>7, <1>8 DEF Listed, SameElsewhere, OnceElsewhere, Lists
<1>10. K.queue[q] \in Seq(Thread) /\ Once(K.queue[q]) /\ ~In(K.queue[q], t)
       /\ p \in 1..Len(K.queue[q]) + 1
  BY <1>1, <1>9, ListedIs, PlaceIs DEF Elsewhere
<1>11. p = PlaceIn(K, K.queue[q], t)
  BY <1>3, <1>7, <1>9, PlaceSame
<1> HIDE DEF p
<1> DEFINE l == InsertAt(K.queue[q], p, t)
<1>12. l \in Seq(Thread) /\ Once(l) /\ \A u : In(l, u) <=> In(K.queue[q], u) \/ u = t
  BY <1>10, InsertIn
<1> HIDE DEF l
<1>13. R = [M EXCEPT !.queue = [M.queue EXCEPT ![q] = l]]
  BY <1>9 DEF l
<1> DEFINE w == [K.queue EXCEPT ![q] = l]
<1>14. w \in [Queues -> Seq(Thread)] /\ w[q] = l /\ \A x \in Queues : x # q => w[x] = K.queue[x]
  BY <1>1, <1>12
<1>15. R = [M EXCEPT !.queue = w]
  BY <1>9, <1>13
<1> HIDE DEF w, R
<1>16. /\ R \in KState /\ R.queue = w /\ R.ready = M.ready /\ R.group = M.group
       /\ R.defunct = M.defunct /\ R.stat = M.stat /\ R.prio = M.prio
       /\ R.cur = M.cur /\ R.lock = M.lock /\ R.slice = M.slice /\ R.error = M.error
       /\ R.timer = M.timer /\ R.owed = M.owed
  BY <1>9, <1>14, <1>15 DEF KState
<1>17. Listed(R)
  <2>1. Lists(R, Ready(R))
    <3>1. Ready(R) = Ready(M)
      BY <1>16 DEF Ready
    <3> QED  BY <1>9, <1>16, <3>1, ListsKept DEF Listed
  <2>2. \A x \in Queues : Once(R.queue[x])
    BY <1>1, <1>12, <1>14, <1>16, ListedIs
  <2>3. Once(R.defunct) /\ R.defunct = <<>>
    BY <1>9, <1>16 DEF Once
  <2> QED  BY <2>1, <2>2, <2>3 DEF Listed, OnceElsewhere
<1>18. \A x \in Queues : \A u : In(R.queue[x], u) <=> In(K.queue[x], u) \/ (x = q /\ u = t)
  BY <1>12, <1>14, <1>16
<1>19. R.queue = [K.queue EXCEPT ![q] = InsertAt(@, PlaceIn(K, K.queue[q], t), t)]
  BY <1>11, <1>16 DEF w, l
<1>20. /\ R.stat = [K.stat EXCEPT ![t] = "suspend"] /\ R.prio = K.prio
       /\ R.cur = K.cur /\ R.lock = K.lock /\ R.slice = K.slice /\ R.owed = K.owed
       /\ R.error = [K.error EXCEPT ![t] = "EOK"] /\ R.timer = [K.timer EXCEPT ![t] = 0]
  BY <1>3, <1>7, <1>16
<1>21. CASE ~(time > 0)
  BY <1>5, <1>17, <1>18, <1>19, <1>20, <1>21 DEF Waiter, L
<1>22. CASE time > 0
  <2>1. L = [R EXCEPT !.timer = [R.timer EXCEPT ![t] = time]]
    BY <1>5, <1>22 DEF StartTimer
  <2>2. time \in Nat /\ K.timer \in [Thread -> Nat]
    BY <1>22, ListedIs
  <2>3. [R.timer EXCEPT ![t] = time] = [K.timer EXCEPT ![t] = time]
    BY <1>20, <2>2
  <2>4. L = [R EXCEPT !.timer = [K.timer EXCEPT ![t] = time]]
    BY <2>1, <2>3
  <2>5. /\ L \in KState /\ L.queue = R.queue /\ L.ready = R.ready /\ L.group = R.group
        /\ L.defunct = R.defunct /\ L.stat = R.stat /\ L.prio = R.prio
        /\ L.cur = R.cur /\ L.lock = R.lock /\ L.slice = R.slice /\ L.error = R.error
        /\ L.timer = [K.timer EXCEPT ![t] = time] /\ L.owed = R.owed
    BY <1>16, <2>2, <2>4 DEF KState
  <2>6. Listed(L)
    BY <1>17, <2>5, ListedSame
  <2> QED  BY <1>18, <1>19, <1>20, <1>22, <2>5, <2>6 DEF Waiter, L
<1> QED  BY <1>21, <1>22

(* What holds before a loop and is kept by each of its turns holds after.  *)
LEMMA Counting ==
  ASSUME NEW n \in Nat, NEW A, 0 \in A, \A m \in 0..n : m < n /\ m \in A => m + 1 \in A
  PROVE  \A m \in 0..n : m \in A
<1> DEFINE B == {m \in 0..n : m \notin A}
<1>1. CASE B = {}
  BY <1>1
<1>2. CASE B # {}
  <2>1. B \in SUBSET Nat
    OBVIOUS
  <2>2. PICK b \in B : \A m \in B : b <= m
    BY <1>2, <2>1, Least
  <2>3. b \in 0..n /\ b \notin A /\ b # 0
    BY <2>2
  <2>4. b - 1 \in 0..n /\ b - 1 < n /\ b - 1 + 1 = b
    BY <2>3
  <2>5. b - 1 \notin A
    BY <2>3, <2>4
  <2>6. b - 1 \in B
    BY <2>4, <2>5
  <2> QED  BY <2>2, <2>3, <2>6
<1> QED  BY <1>1, <1>2

(* The first n threads of a list.                                          *)
First(l, n) == {l[i] : i \in 1..n}

LEMMA FirstIs ==
  ASSUME NEW l \in Seq(Thread), Once(l), NEW n \in 0..Len(l)
  PROVE  /\ First(l, 0) = {} /\ First(l, n) \subseteq Thread
         /\ \A u : u \in First(l, Len(l)) <=> In(l, u)
         /\ n < Len(l) => /\ n + 1 \in 1..Len(l) /\ l[n + 1] \in Thread
                          /\ First(l, n + 1) = First(l, n) \cup {l[n + 1]}
                          /\ l[n + 1] \notin First(l, n)
<1>1. First(l, 0) = {} /\ First(l, n) \subseteq Thread
  BY DEF First
<1>2. \A u : u \in First(l, Len(l)) <=> In(l, u)
  BY DEF First, In
<1>3. ASSUME n < Len(l)
      PROVE  /\ n + 1 \in 1..Len(l) /\ l[n + 1] \in Thread
             /\ First(l, n + 1) = First(l, n) \cup {l[n + 1]}
             /\ l[n + 1] \notin First(l, n)
  <2>1. n + 1 \in 1..Len(l) /\ n \in Nat /\ Len(l) \in Nat
    BY <1>3
  <2>2. \A i : i \in 1..n + 1 <=> i \in 1..n \/ i = n + 1
    BY <2>1
  <2>3. First(l, n + 1) = First(l, n) \cup {l[n + 1]}
    BY <2>2 DEF First
  <2>4. \A i \in 1..n : i \in 1..Len(l) /\ i # n + 1
    BY <2>1
  <2>5. l[n + 1] \notin First(l, n)
    BY <2>1, <2>4 DEF First, Once
  <2> QED  BY <2>1, <2>3, <2>5
<1> QED  BY <1>1, <1>2, <1>3

(* The threads of W were woken, one after the other.                       *)
WokenAll(L, K, W) ==
  /\ Listed(L) /\ L.prio = K.prio /\ L.lock = K.lock /\ L.slice = K.slice
  /\ L.cur = K.cur /\ L.owed = K.owed
  /\ L.stat = [u \in Thread |-> IF u \in W THEN "ready" ELSE K.stat[u]]
  /\ L.timer = [u \in Thread |-> IF u \in W THEN 0 ELSE K.timer[u]]
  /\ \A q \in Queues : \A u : In(L.queue[q], u) <=> In(K.queue[q], u) /\ u \notin W

LEMMA NoneWoken ==
  ASSUME NEW K, Listed(K)
  PROVE  WokenAll(K, K, {})
BY ListedIs DEF WokenAll

LEMMA OneMoreWoken ==
  ASSUME NEW K, Listed(K), NEW W \in SUBSET Thread, NEW L, WokenAll(L, K, W),
         NEW t \in Thread, NEW M, Woken(M, L, t), M.cur = L.cur, M.owed = L.owed
  PROVE  WokenAll(M, K, W \cup {t})
<1>1. K.stat \in [Thread -> Stats] /\ K.timer \in [Thread -> Nat]
  BY ListedIs
<1>2. M.stat = [u \in Thread |-> IF u \in W \cup {t} THEN "ready" ELSE K.stat[u]]
  BY ZenonT(30) DEF WokenAll, Woken
<1>3. M.timer = [u \in Thread |-> IF u \in W \cup {t} THEN 0 ELSE K.timer[u]]
  BY DEF WokenAll, Woken
<1>4. ASSUME NEW q \in Queues, NEW u
      PROVE  In(M.queue[q], u) <=> In(K.queue[q], u) /\ u \notin W \cup {t}
  <2>1. In(L.queue[q], u) <=> In(K.queue[q], u) /\ u \notin W
    BY DEF WokenAll
  <2>2. Listed(L) /\ M.queue = QueuesWithout(L, t)
    BY DEF WokenAll, Woken
  <2>3. In(M.queue[q], u) <=> In(L.queue[q], u) /\ u # t
    BY <2>2, QueuesWithoutIs
  <2> QED  BY <2>1, <2>3
<1> QED  BY <1>2, <1>3, <1>4 DEF WokenAll, Woken

(* rt_ipc_list_resume_all empties the list and wakes those in it with an   *)
(* error.                                                                  *)
LEMMA WakeAllIs ==
  ASSUME NEW K, Listed(K), NEW q \in Queues, \A u \in Thread : In(K.queue[q], u) => K.stat[u] = "suspend"
  PROVE  LET W == {u \in Thread : In(K.queue[q], u)}
         IN  /\ WokenAll(WakeAll(K, q), K, W)
             /\ WakeAll(K, q).error = [u \in Thread |-> IF u \in W THEN "ERROR" ELSE K.error[u]]
<1> DEFINE l == K.queue[q]
           n == Len(l)
           Turns(f, m) == f = [i \in 0..m |-> IF i = 0 THEN K ELSE WakeWithError(f[i - 1], l[i])]
<1>1. l \in Seq(Thread) /\ Once(l) /\ n \in Nat /\ K.error \in [Thread -> {"EOK", "ETIMEOUT", "ERROR"}]
  BY ListedIs
<1>2. \E f : Turns(f, n)
  <2> DEFINE A == {m \in 0..n : \E f : Turns(f, m)}
  <2>1. 0 \in A
    <3> DEFINE g == [i \in 0..0 |-> K]
               h == [i \in 0..0 |-> IF i = 0 THEN K ELSE WakeWithError(g[i - 1], l[i])]
    <3>1. \A i \in 0..0 : K = IF i = 0 THEN K ELSE WakeWithError(g[i - 1], l[i])
      OBVIOUS
    <3>2. g = h
      BY <3>1
    <3>3. Turns(g, 0)
      BY <3>2
    <3> HIDE DEF g, Turns
    <3> QED  BY <1>1, <3>3
  <2>2. ASSUME NEW m \in 0..n, m < n, m \in A  PROVE m + 1 \in A
    <3>1. PICK f : Turns(f, m)
      BY <2>2
    <3> DEFINE g == [i \in 0..m + 1 |-> IF i <= m THEN f[i] ELSE WakeWithError(f[m], l[i])]
    <3>2. ASSUME NEW i \in 0..m + 1
          PROVE  g[i] = IF i = 0 THEN K ELSE WakeWithError(g[i - 1], l[i])
      <4>1. CASE i = 0
        BY <3>1, <4>1
      <4>2. CASE i # 0 /\ i <= m
        <5>1. g[i] = f[i] /\ i - 1 \in 0..m + 1 /\ i - 1 <= m /\ i \in 0..m
          BY <4>2
        <5>2. g[i - 1] = f[i - 1] /\ f[i] = WakeWithError(f[i - 1], l[i])
          BY <3>1, <4>2, <5>1
        <5> QED  BY <4>2, <5>1, <5>2
      <4>3. CASE i = m + 1
        <5>1. g[i] = WakeWithError(f[m], l[i]) /\ i - 1 = m /\ g[m] = f[m] /\ i # 0
          BY <4>3
        <5> QED  BY <5>1
      <4> QED  BY <4>1, <4>2, <4>3
    <3>3. Turns(g, m + 1)
      <4> DEFINE h == [i \in 0..m + 1 |-> IF i = 0 THEN K ELSE WakeWithError(g[i - 1], l[i])]
      <4>1. \A i \in 0..m + 1 : g[i] = h[i]
        BY <3>2
      <4>2. DOMAIN g = 0..m + 1 /\ g = [i \in 0..m + 1 |-> g[i]]
        OBVIOUS
      <4> HIDE DEF g
      <4>3. h = [i \in 0..m + 1 |-> h[i]]
        OBVIOUS
      <4> HIDE DEF h
      <4>4. g = h
        BY <4>1, <4>2, <4>3
      <4> QED  BY <4>4 DEF h
    <3> HIDE DEF g, Turns
    <3>4. m + 1 \in 0..n
      BY <1>1, <2>2
    <3> QED  BY <3>3, <3>4
  <2> HIDE DEF A, Turns
  <2>3. \A m \in 0..n : m \in A
    BY <1>1, <2>1, <2>2, Counting
  <2> QED  BY <1>1, <2>3 DEF A
<1> DEFINE F == CHOOSE f : Turns(f, n)
<1>3. Turns(F, n)
  <2> HIDE DEF Turns
  <2> QED  BY <1>2
<1>4. WakeAll(K, q) = F[n]
  BY DEF WakeAll
<1> HIDE DEF F
<1>5. F[0] = K /\ \A m \in 0..n : m < n => F[m + 1] = WakeWithError(F[m], l[m + 1])
  <2>1. F[0] = K
    BY <1>1, <1>3
  <2>2. ASSUME NEW m \in 0..n, m < n  PROVE F[m + 1] = WakeWithError(F[m], l[m + 1])
    <3>1. m + 1 \in 0..n /\ m + 1 # 0 /\ m + 1 - 1 = m
      BY <1>1, <2>2
    <3> QED  BY <1>3, <3>1
  <2> QED  BY <2>1, <2>2
<1> HIDE DEF Turns
<1> DEFINE After(m) == /\ WokenAll(F[m], K, First(l, m))
                       /\ F[m].error = [u \in Thread |-> IF u \in First(l, m) THEN "ERROR" ELSE K.error[u]]
           A == {m \in 0..n : After(m)}
<1>6. 0 \in A
  <2>1. First(l, 0) = {}
    BY DEF First
  <2>2. WokenAll(F[0], K, First(l, 0))
    BY <1>5, <2>1, NoneWoken
  <2>3. F[0].error = [u \in Thread |-> IF u \in First(l, 0) THEN "ERROR" ELSE K.error[u]]
    BY <1>1, <1>5, <2>1
  <2> QED  BY <1>1, <2>2, <2>3
<1>7. ASSUME NEW m \in 0..n, m < n, m \in A  PROVE m + 1 \in A
  <2> DEFINE t == l[m + 1]
             W == First(l, m)
  <2>1. After(m) /\ m + 1 \in 0..n
    BY <1>1, <1>7
  <2>2. t \in Thread /\ t \notin W /\ First(l, m + 1) = W \cup {t} /\ W \in SUBSET Thread /\ In(l, t)
    <3>1. /\ m + 1 \in 1..Len(l) /\ l[m + 1] \in Thread /\ First(l, m) \subseteq Thread
          /\ First(l, m + 1) = First(l, m) \cup {l[m + 1]} /\ l[m + 1] \notin First(l, m)
      BY <1>1, <1>7, FirstIs
    <3> QED  BY <3>1 DEF In
  <2>3. Listed(F[m]) /\ F[m].stat[t] = "suspend"
    BY <2>1, <2>2 DEF WokenAll
  <2>4. /\ Woken(F[m + 1], F[m], t) /\ F[m + 1].cur = F[m].cur /\ F[m + 1].owed = F[m].owed
        /\ F[m + 1].error = [F[m].error EXCEPT ![t] = "ERROR"]
    <3> HIDE DEF t
    <3>1. LET L == WakeWithError(F[m], t)
          IN  /\ Woken(L, F[m], t) /\ L.cur = F[m].cur /\ L.owed = F[m].owed
              /\ L.error = [F[m].error EXCEPT ![t] = "ERROR"]
      BY <2>2, <2>3, WakeErrorIs
    <3>2. F[m + 1] = WakeWithError(F[m], t)
      BY <1>5, <1>7 DEF t
    <3> QED  BY <3>1, <3>2
  <2> HIDE DEF t, W
  <2>5. WokenAll(F[m + 1], K, W \cup {t})
    BY <2>1, <2>2, <2>4, OneMoreWoken DEF W
  <2>6. F[m + 1].error = [u \in Thread |-> IF u \in W \cup {t} THEN "ERROR" ELSE K.error[u]]
    BY <2>1, <2>2, <2>4 DEF W
  <2> QED  BY <2>1, <2>2, <2>5, <2>6
<1> HIDE DEF After
<1>8. n \in A
  <2> HIDE DEF A
  <2>1. \A m \in 0..n : m \in A
    BY <1>1, <1>6, <1>7, Counting
  <2> QED  BY <1>1, <2>1
<1>9. First(l, n) = {u \in Thread : In(l, u)}
  BY <1>1, FirstIs
<1> QED  BY <1>4, <1>8, <1>9 DEF After
-----------------------------------------------------------------------------
(* The place in its call a thread is at, or the scheduler lets it go on at. *)
Place(c) == IF c.pc = "schedule" THEN c.then ELSE c.pc

(* The places of the calls that are made for an object of some kind.       *)
PlacesOf(kind) ==
  {"user", "slept", "test", "wake"} \cup
    CASE kind = "sem"     -> {"taken"}
      [] kind = "mutex"   -> {"locked"}
      [] kind = "event"   -> {"received"}
      [] kind = "mailbox" -> {"send", "receive", "mail"}
      [] kind = "queue"   -> {"link", "get", "copy", "release"}

(* A call that an object of this kind may find in the kernel.              *)
CallFits(c, kind) ==
  /\ "pc" \in DOMAIN c /\ (c.pc = "schedule" => "then" \in DOMAIN c)
  /\ Place(c) \in PlacesOf(kind)
  /\ Place(c) \in {"send", "mail"} => "value" \in DOMAIN c
  /\ Place(c) = "send" => c.value \in Value

CallsFit == DOMAIN call = Thread /\ \A t \in Thread : CallFits(call[t], obj.kind)

GotOf(c) == IF Place(c) = "mail" THEN c.value ELSE NoValue
Gots == [t \in Thread |-> MailGot(t)]

Box(o) ==
  /\ DOMAIN o = {"kind", "live", "flag", "msg_pool", "in_offset", "out_offset", "entry"}
  /\ o.live \in BOOLEAN
  /\ o.msg_pool \in [0..MailSize - 1 -> Value \cup {NoValue}]
  /\ o.in_offset \in 0..MailSize - 1 /\ o.out_offset \in 0..MailSize - 1
  /\ o.entry \in 0..MailSize

(* The offset of the n-th place from i on.                                 *)
RingPlace(i, n) == IF i + n < MailSize THEN i + n ELSE i + n - MailSize

ObjectFits ==
  /\ "kind" \in DOMAIN obj /\ obj.kind \in Kinds
  /\ obj.kind = "mailbox" => Box(obj) /\ obj.in_offset = RingPlace(obj.out_offset, obj.entry)

MailInv == CallsFit /\ ObjectFits

LEMMA Modulo ==
  ASSUME NEW i \in 0..MailSize - 1, NEW n \in 0..MailSize
  PROVE  (i + n) % MailSize = RingPlace(i, n)
<1>1. MailSize \in Nat \ {0}
  BY MailboxAssumption
<1>2. ASSUME NEW x \in 0..2 * MailSize - 1  PROVE x % MailSize = IF x < MailSize THEN x ELSE x - MailSize
  <2>1. CASE x < MailSize
    BY <1>1, <2>1
  <2>2. CASE x >= MailSize
    <3>1. x - MailSize \in 0..MailSize - 1 /\ x = MailSize * 1 + (x - MailSize)
      BY <1>1, <2>2
    <3> QED  BY <1>1, <3>1
  <2> QED  BY <1>1, <2>1, <2>2
<1>3. i + n \in 0..2 * MailSize - 1
  BY <1>1
<1> QED  BY <1>1, <1>2, <1>3 DEF RingPlace

Ring(o) == [i \in 1..o.entry |-> o.msg_pool[(o.out_offset + i - 1) % MailSize]]

LEMMA RingIs ==
  ASSUME NEW o, Box(o)
  PROVE  /\ Ring(o) \in Seq(Value \cup {NoValue}) /\ Len(Ring(o)) = o.entry
         /\ \A i \in 1..o.entry : /\ RingPlace(o.out_offset, i - 1) \in 0..MailSize - 1
                                  /\ Ring(o)[i] = o.msg_pool[RingPlace(o.out_offset, i - 1)]
<1>1. /\ MailSize \in Nat \ {0} /\ o.entry \in 0..MailSize /\ o.out_offset \in 0..MailSize - 1
      /\ o.msg_pool \in [0..MailSize - 1 -> Value \cup {NoValue}]
  BY MailboxAssumption DEF Box
<1>2. ASSUME NEW i \in 1..o.entry
      PROVE  /\ (o.out_offset + i - 1) % MailSize = RingPlace(o.out_offset, i - 1)
             /\ RingPlace(o.out_offset, i - 1) \in 0..MailSize - 1
  <2>1. i - 1 \in 0..MailSize /\ o.out_offset + (i - 1) = o.out_offset + i - 1
    BY <1>1
  <2>2. (o.out_offset + (i - 1)) % MailSize = RingPlace(o.out_offset, i - 1)
    BY <1>1, <2>1, Modulo
  <2>3. RingPlace(o.out_offset, i - 1) \in 0..MailSize - 1
    BY <1>1, <2>1 DEF RingPlace
  <2> QED  BY <2>1, <2>2, <2>3
<1>3. \A i \in 1..o.entry : o.msg_pool[(o.out_offset + i - 1) % MailSize] \in Value \cup {NoValue}
  BY <1>1, <1>2
<1>4. Ring(o) \in Seq(Value \cup {NoValue}) /\ Len(Ring(o)) = o.entry
  <2>1. Ring(o) \in [1..o.entry -> Value \cup {NoValue}] /\ o.entry \in Nat
    BY <1>1, <1>3 DEF Ring
  <2> QED  BY <2>1
<1>5. \A i \in 1..o.entry : Ring(o)[i] = o.msg_pool[(o.out_offset + i - 1) % MailSize]
  BY DEF Ring
<1> QED  BY <1>2, <1>4, <1>5

LEMMA NextIs ==
  ASSUME NEW i \in 0..MailSize - 1
  PROVE  NextOffset(i) = RingPlace(i, 1) /\ NextOffset(i) \in 0..MailSize - 1
BY MailboxAssumption DEF NextOffset, RingPlace

(* The places before the n-th are others.                                  *)
LEMMA PlacesDiffer ==
  ASSUME NEW a \in 0..MailSize - 1, NEW n \in 0..MailSize - 1, NEW i \in 1..n
  PROVE  RingPlace(a, i - 1) # RingPlace(a, n) /\ RingPlace(a, i - 1) \in 0..MailSize - 1
<1>1. MailSize \in Nat \ {0}
  BY MailboxAssumption
<1>2. a \in Nat /\ a < MailSize /\ n \in Nat /\ n < MailSize /\ i \in Nat /\ i >= 1 /\ i <= n
  BY <1>1
<1>3. CASE a + (i - 1) < MailSize
  <2>1. RingPlace(a, i - 1) = a + (i - 1)
    BY <1>3 DEF RingPlace
  <2> QED  BY <1>1, <1>2, <1>3, <2>1 DEF RingPlace
<1>4. CASE ~(a + (i - 1) < MailSize)
  <2>1. RingPlace(a, i - 1) = a + (i - 1) - MailSize /\ RingPlace(a, n) = a + n - MailSize
    BY <1>1, <1>2, <1>4 DEF RingPlace
  <2> QED  BY <1>1, <1>2, <1>4, <2>1
<1> QED  BY <1>3, <1>4

LEMMA PutIs ==
  ASSUME NEW o, Box(o), o.in_offset = RingPlace(o.out_offset, o.entry), o.entry < MailSize, NEW v \in Value
  PROVE  LET p == PutMail(o, v)
         IN  /\ Box(p) /\ p.in_offset = RingPlace(p.out_offset, p.entry)
             /\ p.live = o.live
             /\ Ring(p) = Append(Ring(o), v)
<1> DEFINE p == PutMail(o, v)
<1>1. /\ MailSize \in Nat \ {0} /\ o.entry \in 0..MailSize - 1 /\ o.out_offset \in 0..MailSize - 1
      /\ o.in_offset \in 0..MailSize - 1
      /\ o.msg_pool \in [0..MailSize - 1 -> Value \cup {NoValue}]
  BY MailboxAssumption DEF Box
<1>2. /\ p.kind = o.kind /\ p.live = o.live /\ p.flag = o.flag /\ p.out_offset = o.out_offset
      /\ p.in_offset = NextOffset(o.in_offset) /\ p.entry = o.entry + 1
      /\ p.msg_pool = [o.msg_pool EXCEPT ![o.in_offset] = v]
  BY DEF PutMail, Box
<1>3. Box(p)
  <2>1. /\ NextOffset(o.in_offset) \in 0..MailSize - 1 /\ o.entry + 1 \in 0..MailSize
        /\ [o.msg_pool EXCEPT ![o.in_offset] = v] \in [0..MailSize - 1 -> Value \cup {NoValue}]
    BY <1>1, NextIs
  <2>2. DOMAIN p = DOMAIN o
    BY DEF PutMail
  <2> HIDE DEF p
  <2> QED  BY <1>1, <1>2, <2>1, <2>2 DEF Box
<1> HIDE DEF p
<1>4. p.in_offset = RingPlace(p.out_offset, p.entry)
  BY <1>1, <1>2, SMTT(30) DEF NextOffset, RingPlace
<1>5. /\ Len(Ring(p)) = Len(Append(Ring(o), v))
      /\ Ring(p) \in Seq(Value \cup {NoValue}) /\ Append(Ring(o), v) \in Seq(Value \cup {NoValue})
  BY <1>1, <1>2, <1>3, RingIs
<1>6. ASSUME NEW i \in 1..Len(Ring(p))  PROVE Ring(p)[i] = Append(Ring(o), v)[i]
  <2>1. i \in 1..o.entry + 1 /\ Ring(p)[i] = p.msg_pool[RingPlace(o.out_offset, i - 1)]
    <3>1. Len(Ring(p)) = p.entry
      BY <1>3, RingIs
    <3>2. i \in 1..p.entry
      BY <3>1
    <3>3. Ring(p)[i] = p.msg_pool[RingPlace(p.out_offset, i - 1)]
      BY <1>3, <3>2, RingIs
    <3> QED  BY <1>2, <3>2, <3>3
  <2>2. CASE i = o.entry + 1
    BY <1>1, <1>2, <2>1, <2>2, RingIs, SMTT(30)
  <2>3. CASE i # o.entry + 1
    <3>1. i \in 1..o.entry
      BY <1>1, <2>1, <2>3
    <3>2. Append(Ring(o), v)[i] = Ring(o)[i] /\ Ring(o)[i] = o.msg_pool[RingPlace(o.out_offset, i - 1)]
      BY <3>1, RingIs
    <3>3. RingPlace(o.out_offset, i - 1) # o.in_offset /\ RingPlace(o.out_offset, i - 1) \in 0..MailSize - 1
      BY <1>1, <3>1, PlacesDiffer
    <3> QED  BY <1>1, <1>2, <2>1, <3>2, <3>3
  <2> QED  BY <2>2, <2>3
<1>7. Ring(p) = Append(Ring(o), v)
  BY <1>5, <1>6, SeqEqual
<1> QED  BY <1>2, <1>3, <1>4, <1>7 DEF p

LEMMA TakeIs ==
  ASSUME NEW o, Box(o), o.in_offset = RingPlace(o.out_offset, o.entry), o.entry > 0
  PROVE  LET p == TakeMail(o)
         IN  /\ Box(p) /\ p.in_offset = RingPlace(p.out_offset, p.entry)
             /\ p.live = o.live
             /\ Ring(o) # <<>> /\ Ring(p) = Tail(Ring(o))
             /\ Head(Ring(o)) = o.msg_pool[o.out_offset]
<1> DEFINE p == TakeMail(o)
<1>1. /\ MailSize \in Nat \ {0} /\ o.entry \in 1..MailSize /\ o.out_offset \in 0..MailSize - 1
      /\ o.in_offset \in 0..MailSize - 1
      /\ o.msg_pool \in [0..MailSize - 1 -> Value \cup {NoValue}]
  BY MailboxAssumption DEF Box
<1>2. /\ p.kind = o.kind /\ p.live = o.live /\ p.flag = o.flag /\ p.in_offset = o.in_offset
      /\ p.out_offset = NextOffset(o.out_offset) /\ p.entry = o.entry - 1
      /\ p.msg_pool = o.msg_pool
  BY DEF TakeMail, Box
<1>3. Box(p)
  <2>1. NextOffset(o.out_offset) \in 0..MailSize - 1 /\ o.entry - 1 \in 0..MailSize
    BY <1>1, NextIs
  <2>2. DOMAIN p = DOMAIN o
    BY DEF TakeMail
  <2> HIDE DEF p
  <2> QED  BY <1>1, <1>2, <2>1, <2>2 DEF Box
<1> HIDE DEF p
<1>4. p.in_offset = RingPlace(p.out_offset, p.entry)
  BY <1>1, <1>2 DEF NextOffset, RingPlace
<1>5. /\ Ring(o) \in Seq(Value \cup {NoValue}) /\ Len(Ring(o)) = o.entry /\ Ring(o) # <<>>
  BY <1>1, RingIs
<1>6. Head(Ring(o)) = o.msg_pool[o.out_offset]
  <2>1. Head(Ring(o)) = Ring(o)[1] /\ Ring(o)[1] = o.msg_pool[RingPlace(o.out_offset, 1 - 1)]
    BY <1>1, <1>5, RingIs
  <2>2. RingPlace(o.out_offset, 1 - 1) = o.out_offset
    BY <1>1 DEF RingPlace
  <2> QED  BY <2>1, <2>2
<1>7. /\ Len(Ring(p)) = Len(Tail(Ring(o)))
      /\ Ring(p) \in Seq(Value \cup {NoValue}) /\ Tail(Ring(o)) \in Seq(Value \cup {NoValue})
  <2>1. Ring(p) \in Seq(Value \cup {NoValue}) /\ Len(Ring(p)) = o.entry - 1
    BY <1>2, <1>3, RingIs
  <2>2. Tail(Ring(o)) \in Seq(Value \cup {NoValue}) /\ Len(Tail(Ring(o))) = o.entry - 1
    <3> HIDE DEF p
    <3>1. ASSUME NEW S, NEW s \in Seq(S), s # <<>>
          PROVE  Tail(s) \in Seq(S) /\ Len(Tail(s)) = Len(s) - 1
      BY <3>1
    <3> QED  BY <1>5, <3>1
  <2> QED  BY <2>1, <2>2
<1>8. ASSUME NEW i \in 1..Len(Ring(p))  PROVE Ring(p)[i] = Tail(Ring(o))[i]
  <2>1. i \in 1..o.entry - 1 /\ Ring(p)[i] = o.msg_pool[RingPlace(p.out_offset, i - 1)]
    BY <1>2, <1>3, RingIs
  <2>2. i + 1 \in 1..o.entry /\ Tail(Ring(o))[i] = Ring(o)[i + 1]
    BY <1>1, <1>5, <2>1
  <2>3. Ring(o)[i + 1] = o.msg_pool[RingPlace(o.out_offset, (i + 1) - 1)]
    BY <2>2, RingIs
  <2>4. RingPlace(p.out_offset, i - 1) = RingPlace(o.out_offset, (i + 1) - 1)
    <3>1. i \in 1..MailSize - 1 /\ (i + 1) - 1 = i
      BY <1>1, <2>1
    <3>2. CASE o.out_offset + 1 >= MailSize
      <4>1. NextOffset(o.out_offset) = 0 /\ o.out_offset = MailSize - 1
        BY <1>1, <3>2 DEF NextOffset
      <4>2. RingPlace(0, i - 1) = i - 1 /\ RingPlace(MailSize - 1, i) = i - 1
        BY <1>1, <3>1 DEF RingPlace
      <4> QED  BY <1>2, <3>1, <4>1, <4>2
    <3>3. CASE ~(o.out_offset + 1 >= MailSize)
      <4>1. NextOffset(o.out_offset) = o.out_offset + 1
        BY <3>3 DEF NextOffset
      <4>2. RingPlace(o.out_offset + 1, i - 1) = RingPlace(o.out_offset, i)
        BY <1>1, <3>1 DEF RingPlace
      <4> QED  BY <1>2, <3>1, <4>1, <4>2
    <3> QED  BY <3>2, <3>3
  <2> QED  BY <2>1, <2>2, <2>3, <2>4
<1>9. Ring(p) = Tail(Ring(o))
  BY <1>7, <1>8, SeqEqual
<1> QED  BY <1>2, <1>3, <1>4, <1>5, <1>6, <1>9 DEF p

-----------------------------------------------------------------------------
LEMMA GotIs ==
  ASSUME NEW t \in Thread
  PROVE  MailGot(t) = GotOf(call[t])
BY DEF MailGot, GotOf, Bound, Place

LEMMA FitsPlain ==
  ASSUME NEW kind \in Kinds, NEW p \in PlacesOf(kind), p \notin {"send", "mail"}
  PROVE  /\ CallFits(ScheduleThen(p), kind) /\ GotOf(ScheduleThen(p)) = NoValue
         /\ CallFits([pc |-> p], kind) /\ GotOf([pc |-> p]) = NoValue
BY ObjectsAssumption DEF CallFits, ScheduleThen, Place, GotOf, PlacesOf

LEMMA OneCall ==
  ASSUME CallsFit, NEW t \in Thread, NEW c, call' = [call EXCEPT ![t] = c],
         obj'.kind = obj.kind, CallFits(c, obj.kind)
  PROVE  /\ CallsFit'
         /\ Gots' = [Gots EXCEPT ![t] = GotOf(c)]
         /\ GotOf(call[t]) = GotOf(c) => Gots' = Gots
<1>1. DOMAIN call' = Thread /\ \A u \in Thread : call'[u] = IF u = t THEN c ELSE call[u]
  BY DEF CallsFit
<1>2. CallsFit'
  BY <1>1 DEF CallsFit
<1>3. \A u \in Thread : MailGot(u)' = IF u = t THEN GotOf(c) ELSE MailGot(u)
  <2>1. \A u \in Thread : MailGot(u)' = GotOf(call'[u])
    BY DEF MailGot, GotOf, Bound, Place
  <2> QED  BY <1>1, <2>1, GotIs
<1>4. Gots' = [Gots EXCEPT ![t] = GotOf(c)]
  BY <1>3 DEF Gots
<1>5. ASSUME GotOf(call[t]) = GotOf(c)  PROVE Gots' = Gots
  <2>1. \A u \in Thread : MailGot(u)' = MailGot(u)
    BY <1>3, <1>5, GotIs
  <2> QED  BY <2>1 DEF Gots
<1> QED  BY <1>2, <1>4, <1>5

LEMMA FitsWaiting ==
  ASSUME NEW p, NEW v, NEW time, NEW kind,
         \/ kind = "mailbox" /\ (p = "receive" \/ (p = "send" /\ v \in Value))
         \/ kind = "queue" /\ p = "get"
  PROVE  CallFits(Waiting(p, v, time), kind) /\ GotOf(Waiting(p, v, time)) = NoValue
BY DEF CallFits, Waiting, Place, GotOf, PlacesOf

(* What a step must do to be a step of the letterbox or to leave it alone. *)
Steps == Letterbox!Next \/ (Letters' = Letters /\ Gots' = Gots)

Kept == obj'.kind = obj.kind /\ "kind" \in DOMAIN obj'

(* With an object of another kind there are no letters.                    *)
LEMMA OtherKinds ==
  ASSUME MailInv, Kept, CallsFit', obj.kind # "mailbox"
  PROVE  MailInv' /\ Steps
<1>1. ObjectFits'
  BY DEF ObjectFits, MailInv, Kept
<1>2. Letters = <<>> /\ Letters' = <<>>
  BY DEF Letters, Of, Kept
<1>3. ASSUME NEW t \in Thread  PROVE MailGot(t) = NoValue /\ MailGot(t)' = NoValue
  <2>1. Place(call[t]) # "mail" /\ Place(call'[t]) # "mail"
    BY ObjectsAssumption DEF MailInv, CallsFit, CallFits, PlacesOf, Kept, ObjectFits
  <2> QED  BY <2>1 DEF MailGot, Bound, Place
<1>4. Gots' = Gots
  BY <1>3 DEF Gots
<1> QED  BY <1>1, <1>2, <1>4 DEF MailInv, Steps

(* A step that leaves the object alone and, in each call, what was sent or *)
(* received.                                                               *)
LEMMA SameObject ==
  ASSUME MailInv, UNCHANGED obj, CallsFit', \A t \in Thread : GotOf(call'[t]) = GotOf(call[t])
  PROVE  MailInv' /\ Steps
<1>1. ObjectFits'
  BY DEF ObjectFits, MailInv, Box
<1>2. Letters' = Letters
  BY DEF Letters, Of
<1>3. ASSUME NEW t \in Thread  PROVE MailGot(t)' = MailGot(t)
  <2>1. MailGot(t)' = GotOf(call'[t])
    BY DEF MailGot, GotOf, Bound, Place
  <2> QED  BY <2>1, GotIs
<1>4. Gots' = Gots
  BY <1>3 DEF Gots
<1> QED  BY <1>1, <1>2, <1>4 DEF MailInv, Steps

(* A thread in no place of its call where it has a letter.                 *)
LEMMA NothingGot ==
  ASSUME NEW t \in Thread, Place(call[t]) # "mail"
  PROVE  GotOf(call[t]) = NoValue
BY DEF GotOf

(* A step of one thread that leaves the object alone.                      *)
LEMMA OneCallSame ==
  ASSUME MailInv, UNCHANGED obj, NEW t \in Thread, NEW c, call' = [call EXCEPT ![t] = c],
         CallFits(c, obj.kind), GotOf(c) = GotOf(call[t])
  PROVE  MailInv' /\ Steps
<1>1. CallsFit /\ CallsFit'
  BY OneCall DEF MailInv
<1>2. \A u \in Thread : GotOf(call'[u]) = GotOf(call[u])
  BY <1>1 DEF CallsFit
<1> QED  BY <1>1, <1>2, SameObject

(* A step that leaves object and calls alone.                              *)
LEMMA Unchanged ==
  ASSUME MailInv, UNCHANGED <<obj, call>>
  PROVE  MailInv' /\ Steps
<1>1. CallsFit'
  BY DEF MailInv, CallsFit
<1> QED  BY <1>1, SameObject

LEMMA InUserFits ==
  ASSUME NEW kind \in Kinds
  PROVE  CallFits(InUser, kind) /\ GotOf(InUser) = NoValue
BY ObjectsAssumption DEF CallFits, InUser, Place, GotOf, PlacesOf

(* What a call that fits an object says of the object's kind.              *)
LEMMA KindAt ==
  ASSUME MailInv, NEW t \in Thread
  PROVE  /\ obj.kind \in Kinds /\ "kind" \in DOMAIN obj
         /\ Place(call[t]) = "taken" => obj.kind = "sem"
         /\ Place(call[t]) = "locked" => obj.kind = "mutex"
         /\ Place(call[t]) = "received" => obj.kind = "event"
         /\ Place(call[t]) \in {"send", "receive", "mail"} => obj.kind = "mailbox"
         /\ Place(call[t]) \in {"link", "get", "copy", "release"} => obj.kind = "queue"
BY ObjectsAssumption DEF MailInv, CallsFit, CallFits, PlacesOf, ObjectFits

(* A time-out, a slice that is over: what a thread waits for stays.        *)
LEMMA TickFits ==
  ASSUME MailInv, UNCHANGED obj, Tick
  PROVE  MailInv' /\ Steps
<1>1. ASSUME NEW t \in Thread
      PROVE  /\ call'[t] = Aged(call[t]) /\ CallFits(call[t], obj.kind)
             /\ CallFits(call'[t], obj'.kind) /\ GotOf(call'[t]) = GotOf(call[t])
  <2>1. call'[t] = Aged(call[t]) /\ CallFits(call[t], obj.kind)
    BY DEF Tick, MailInv, CallsFit
  <2>2. CASE call'[t] = call[t]
    BY <2>1, <2>2
  <2>3. CASE call'[t] = [call[t] EXCEPT !.elapsed = @ + 1]
    <3> DEFINE c == call[t]
               d == [c EXCEPT !.elapsed = @ + 1]
    <3>1. DOMAIN d = DOMAIN c /\ \A x \in DOMAIN c : x # "elapsed" => d[x] = c[x]
      OBVIOUS
    <3>2. "pc" \in DOMAIN c /\ (c.pc = "schedule" => "then" \in DOMAIN c)
      BY <2>1 DEF CallFits
    <3>3. Place(d) = Place(c)
      <4>1. d.pc = c.pc
        BY <3>1, <3>2
      <4>2. c.pc = "schedule" => d.then = c.then
        BY <3>1, <3>2
      <4> HIDE DEF d
      <4> QED  BY <4>1, <4>2 DEF Place
    <3>4. Place(c) \in {"send", "mail"} => "value" \in DOMAIN c
      BY <2>1 DEF CallFits
    <3>5. Place(c) \in {"send", "mail"} => d.value = c.value
      BY <3>1, <3>4
    <3>6. d.pc = c.pc
      BY <3>1, <3>2
    <3>7. call'[t] = d
      BY <2>3
    <3> HIDE DEF d
    <3> QED  BY <2>1, <3>1, <3>2, <3>3, <3>4, <3>5, <3>6, <3>7 DEF CallFits, GotOf
  <2> QED  BY <2>1, <2>2, <2>3 DEF Aged
<1>2. CallsFit'
  BY <1>1 DEF CallsFit, Tick
<1> QED  BY <1>1, <1>2, SameObject

(* The scheduler lets a thread go on in its call.                          *)
LEMMA ScheduleFits ==
  ASSUME MailInv, UNCHANGED obj, NEW t \in Thread, Schedule(t)
  PROVE  MailInv' /\ Steps
<1> DEFINE c == call[t]
           d == [c EXCEPT !.pc = c.then]
<1>1. /\ CallFits(c, obj.kind) /\ c.pc = "schedule" /\ call' = [call EXCEPT ![t] = d]
      /\ DOMAIN call = Thread /\ obj.kind \in Kinds
  BY DEF Schedule, At, Goto, MailInv, CallsFit, ObjectFits
<1>2. {"pc", "then"} \subseteq DOMAIN c
  BY <1>1 DEF CallFits
<1>3. DOMAIN d = DOMAIN c /\ d.pc = c.then /\ \A x \in DOMAIN c : x # "pc" => d[x] = c[x]
  BY <1>2
<1>4. Place(c) = c.then /\ c.then # "schedule"
  BY <1>1, ObjectsAssumption DEF Place, CallFits, PlacesOf
<1>5. Place(d) = Place(c)
  <2> HIDE DEF d
  <2> QED  BY <1>3, <1>4 DEF Place
<1>6. Place(c) \in {"send", "mail"} => "value" \in DOMAIN c /\ d.value = c.value
  <2>1. Place(c) \in {"send", "mail"} => "value" \in DOMAIN c
    BY <1>1 DEF CallFits
  <2> QED  BY <2>1, <1>3
<1>7. CallFits(d, obj.kind) /\ GotOf(d) = GotOf(c)
  <2> HIDE DEF d
  <2> QED  BY <1>1, <1>2, <1>3, <1>4, <1>5, <1>6 DEF CallFits, GotOf
<1> HIDE DEF d
<1> QED  BY <1>1, <1>7, OneCallSame

LEMMA CommonKeeps ==
  ASSUME MailInv, Common
  PROVE  MailInv' /\ Steps
<1>1. obj.kind \in Kinds /\ UNCHANGED obj
  BY DEF MailInv, ObjectFits, Common
<1>2. CASE Interrupts
  <2>1. CASE Tick
    BY <1>1, <2>1, TickFits
  <2>2. ASSUME NEW t \in Thread, Expire(t)  PROVE MailInv' /\ Steps
    BY <1>1, <2>2, Unchanged DEF Expire
  <2> QED  BY <1>2, <2>1, <2>2 DEF Interrupts
<1>3. ASSUME NEW t \in Thread \ {Idle}, Slept(t)  PROVE MailInv' /\ Steps
  <2>1. call' = [call EXCEPT ![t] = InUser] /\ Place(call[t]) = "slept"
    BY <1>3 DEF Slept, Return, At, Place
  <2>2. GotOf(call[t]) = NoValue
    BY <2>1 DEF GotOf
  <2> QED  BY <1>1, <2>1, <2>2, InUserFits, OneCallSame
<1>4. ASSUME NEW t \in Thread, rt_thread_sleep(t, 1)  PROVE MailInv' /\ Steps
  <2>1. call' = [call EXCEPT ![t] = ScheduleThen("slept")]
    BY <1>4 DEF rt_thread_sleep
  <2>2. "slept" \in PlacesOf(obj.kind) /\ GotOf(call[t]) = NoValue
    BY <1>4 DEF rt_thread_sleep, At, PlacesOf, Place, GotOf
  <2> QED  BY <1>1, <1>4, <2>1, <2>2, FitsPlain, OneCallSame
<1>5. Sleeper[obj.kind] \subseteq Thread
  BY <1>1, ObjectsAssumption
<1> QED  BY <1>1, <1>2, <1>3, <1>4, <1>5, ScheduleFits DEF Common
-----------------------------------------------------------------------------
(* A thread outside of the kernel, or at some place of its call in it.     *)
LEMMA UserIs ==
  ASSUME NEW t \in Thread, User(t)
  PROVE  Place(call[t]) = "user" /\ GotOf(call[t]) = NoValue
BY DEF User, At, Place, GotOf

LEMMA AtIs ==
  ASSUME NEW t, NEW pc, At(t, pc), pc # "schedule"
  PROVE  Place(call[t]) = pc
BY DEF At, Place

(* A step of one thread with an object that is no mailbox.                 *)
LEMMA OneCallOther ==
  ASSUME MailInv, obj.kind # "mailbox", Kept, NEW t \in Thread, NEW c,
         call' = [call EXCEPT ![t] = c], CallFits(c, obj.kind)
  PROVE  MailInv' /\ Steps
<1>1. CallsFit'
  BY OneCall DEF MailInv, Kept
<1> QED  BY <1>1, OtherKinds

LEMMA NoCallOther ==
  ASSUME MailInv, obj.kind # "mailbox", Kept, UNCHANGED call
  PROVE  MailInv' /\ Steps
<1>1. CallsFit'
  BY DEF MailInv, CallsFit, Kept
<1> QED  BY <1>1, OtherKinds

LEMMA SemKeeps ==
  ASSUME MailInv, SemNext
  PROVE  MailInv' /\ Steps
<1>1. "kind" \in DOMAIN obj /\ obj.kind \in Kinds
  BY DEF MailInv, ObjectFits
<1>2. /\ \A p \in {"user", "taken"} : obj.kind = "sem" =>
            CallFits(ScheduleThen(p), obj.kind)
      /\ CallFits(InUser, obj.kind)
  BY <1>1, FitsPlain, InUserFits DEF PlacesOf
<1>3. ASSUME NEW t \in Thread \ {Idle}, NEW time, rt_sem_take(t, time)  PROVE MailInv' /\ Steps
  <2>1. obj.kind = "sem" /\ Kept
    BY <1>1, <1>3 DEF rt_sem_take, Of, Take, Kept
  <2>2. UNCHANGED call \/ call' = [call EXCEPT ![t] = ScheduleThen("taken")]
    BY <1>3 DEF rt_sem_take
  <2> QED  BY <1>2, <2>1, <2>2, OneCallOther, NoCallOther
<1>4. ASSUME NEW t \in Thread \ {Idle}, Taken(t)  PROVE MailInv' /\ Steps
  <2>1. obj.kind = "sem" /\ Kept
    BY <1>1, <1>4, KindAt, AtIs DEF Taken, Kept
  <2>2. call' = [call EXCEPT ![t] = InUser]
    BY <1>4 DEF Taken, Return
  <2> QED  BY <1>2, <2>1, <2>2, OneCallOther
<1>5. ASSUME NEW t \in Thread \ {Idle}, SemAgain(t)  PROVE MailInv' /\ Steps
  <2>1. obj.kind = "sem" /\ Kept /\ UNCHANGED call
    BY <1>5 DEF SemAgain, rt_sem_init, kernelVars, Kept
  <2> QED  BY <2>1, NoCallOther
<1>6. ASSUME NEW t \in Thread \ {Idle}, NEW v, SemReset(t, v)  PROVE MailInv' /\ Steps
  <2>1. obj.kind = "sem" /\ Kept /\ call' = [call EXCEPT ![t] = ScheduleThen("user")]
    BY <1>1, <1>6 DEF SemReset, Of, Kept
  <2> QED  BY <1>2, <2>1, OneCallOther
<1>7. ASSUME NEW by \in Callers, rt_sem_release(by)  PROVE MailInv' /\ Steps
  <2>1. obj.kind = "sem" /\ Kept
    BY <1>1, <1>7 DEF rt_sem_release, Of, Kept
  <2>2. UNCHANGED call \/ (by \in Thread /\ call' = [call EXCEPT ![by] = ScheduleThen("user")])
    BY <1>7 DEF rt_sem_release, ThenSchedule, Callers
  <2> QED  BY <1>2, <2>1, <2>2, OneCallOther, NoCallOther
<1> QED  BY <1>3, <1>4, <1>5, <1>6, <1>7 DEF SemNext

LEMMA MutexKeeps ==
  ASSUME MailInv, MutexNext
  PROVE  MailInv' /\ Steps
<1>1. "kind" \in DOMAIN obj /\ obj.kind \in Kinds
  BY DEF MailInv, ObjectFits
<1>2. /\ \A p \in {"user", "locked"} : obj.kind = "mutex" =>
            CallFits(ScheduleThen(p), obj.kind)
      /\ CallFits(InUser, obj.kind)
  BY <1>1, FitsPlain, InUserFits DEF PlacesOf
<1>3. ASSUME NEW t \in Thread \ {Idle}, NEW time, rt_mutex_take(t, time)  PROVE MailInv' /\ Steps
  <2>1. obj.kind = "mutex" /\ Kept
    BY <1>1, <1>3 DEF rt_mutex_take, Of, OwnedBy, Kept
  <2>2. UNCHANGED call \/ call' = [call EXCEPT ![t] = ScheduleThen("locked")]
    BY <1>3 DEF rt_mutex_take
  <2> QED  BY <1>2, <2>1, <2>2, OneCallOther, NoCallOther
<1>4. ASSUME NEW t \in Thread \ {Idle}, Locked(t)  PROVE MailInv' /\ Steps
  <2>1. obj.kind = "mutex" /\ Kept
    BY <1>1, <1>4, KindAt, AtIs DEF Locked, Kept
  <2>2. call' = [call EXCEPT ![t] = InUser]
    BY <1>4 DEF Locked, Return
  <2> QED  BY <1>2, <2>1, <2>2, OneCallOther
<1>5. ASSUME NEW t \in Thread \ {Idle}, Release(t)  PROVE MailInv' /\ Steps
  <2>1. obj.kind = "mutex" /\ Kept
    BY <1>1, <1>5 DEF Release, Of, HandOver, OwnedBy, Kept
  <2>2. UNCHANGED call \/ call' = [call EXCEPT ![t] = ScheduleThen("user")]
    BY <1>5 DEF Release, ThenSchedule, User, At, Handler
  <2> QED  BY <1>2, <2>1, <2>2, OneCallOther, NoCallOther
<1>6. ASSUME NEW t \in Thread \ {Idle}, ReleaseInner(t) \/ ReleaseRefused(t) \/ MutexAgain(t)
      PROVE  MailInv' /\ Steps
  <2>1. obj.kind = "mutex" /\ UNCHANGED call
    BY <1>6 DEF ReleaseInner, ReleaseRefused, MutexAgain, Of, kernelVars
  <2>2. Kept
    <3>1. CASE ReleaseInner(t)
      BY <1>1, <3>1 DEF ReleaseInner, Kept
    <3>2. CASE ReleaseRefused(t)
      BY <1>1, <3>2 DEF ReleaseRefused, Kept
    <3>3. CASE MutexAgain(t)
      BY <3>3 DEF MutexAgain, rt_mutex_init, Kept
    <3> QED  BY <1>6, <3>1, <3>2, <3>3
  <2> QED  BY <2>1, <2>2, NoCallOther
<1> QED  BY <1>3, <1>4, <1>5, <1>6 DEF MutexNext

(* A send tells waiting threads what they got, and leaves them where they  *)
(* are in their calls.                                                     *)
LEMMA ToldFits ==
  ASSUME NEW c, NEW g, NEW kind, CallFits(c, kind)
  PROVE  CallFits([c EXCEPT !.got = g], kind)
<1> DEFINE d == [c EXCEPT !.got = g]
<1>1. DOMAIN d = DOMAIN c /\ \A x \in DOMAIN c : x # "got" => d[x] = c[x]
  OBVIOUS
<1>2. d.pc = c.pc /\ (c.pc = "schedule" => d.then = c.then)
  BY <1>1 DEF CallFits
<1>3. Place(c) \in {"send", "mail"} => d.value = c.value
  BY <1>1 DEF CallFits
<1> HIDE DEF d
<1>4. Place(d) = Place(c)
  BY <1>2 DEF Place
<1>5. CallFits(d, kind)
  BY <1>1, <1>2, <1>3, <1>4 DEF CallFits
<1> QED  BY <1>5 DEF d

LEMMA EventSendKeeps ==
  ASSUME MailInv, NEW by \in Callers, NEW flags, rt_event_send(by, flags)
  PROVE  MailInv' /\ Steps
<1> DEFINE s == OfferAll(flags)
           calls == [t \in Thread |-> IF s.got[t] = {} THEN call[t] ELSE [call[t] EXCEPT !.got = s.got[t]]]
<1>1. obj.kind = "event" /\ Kept /\ obj.kind \in Kinds
  BY DEF rt_event_send, Of, MailInv, ObjectFits, Kept
<1>2. ASSUME NEW t \in Thread  PROVE CallFits(calls[t], obj.kind)
  <2>1. CallFits(call[t], obj.kind)
    BY DEF MailInv, CallsFit
  <2>2. calls[t] = call[t] \/ calls[t] = [call[t] EXCEPT !.got = s.got[t]]
    OBVIOUS
  <2> QED  BY <2>1, <2>2, ToldFits
<1>3. call' = calls \/ (by \in Thread /\ call' = [calls EXCEPT ![by] = ScheduleThen("user")])
  BY DEF rt_event_send, Callers
<1>4. DOMAIN calls = Thread
  OBVIOUS
<1>5. CallFits(ScheduleThen("user"), obj.kind)
  BY <1>1, FitsPlain DEF PlacesOf
<1> HIDE DEF calls
<1>6. DOMAIN call' = Thread /\ \A t \in Thread : CallFits(call'[t], obj.kind)
  BY <1>2, <1>3, <1>4, <1>5
<1>7. CallsFit'
  BY <1>1, <1>6 DEF CallsFit, Kept
<1> QED  BY <1>1, <1>7, OtherKinds

LEMMA EventKeeps ==
  ASSUME MailInv, EventNext
  PROVE  MailInv' /\ Steps
<1>1. "kind" \in DOMAIN obj /\ obj.kind \in Kinds
  BY DEF MailInv, ObjectFits
<1>2. /\ obj.kind = "event" => CallFits(ScheduleThen("user"), obj.kind)
      /\ CallFits(InUser, obj.kind)
  BY <1>1, FitsPlain, InUserFits DEF PlacesOf
<1>3. ASSUME NEW t \in Thread \ {Idle}, NEW a, NEW time, rt_event_recv(t, a, time)
      PROVE  MailInv' /\ Steps
  <2> DEFINE c == [pc |-> "schedule", then |-> "received", ask |-> a, got |-> {}]
  <2>1. obj.kind = "event" /\ Kept
    BY <1>1, <1>3 DEF rt_event_recv, Of, Kept
  <2>2. UNCHANGED call \/ call' = [call EXCEPT ![t] = c]
    BY <1>3 DEF rt_event_recv
  <2>3. CallFits(c, obj.kind)
    BY <2>1 DEF CallFits, Place, PlacesOf
  <2> HIDE DEF c
  <2> QED  BY <2>1, <2>2, <2>3, OneCallOther, NoCallOther
<1>4. ASSUME NEW t \in Thread \ {Idle}, EventReceived(t)  PROVE MailInv' /\ Steps
  <2>1. obj.kind = "event" /\ Kept
    BY <1>1, <1>4, KindAt, AtIs DEF EventReceived, Kept
  <2>2. call' = [call EXCEPT ![t] = InUser]
    BY <1>4 DEF EventReceived, Return
  <2> QED  BY <1>2, <2>1, <2>2, OneCallOther
<1>5. ASSUME NEW t \in Thread \ {Idle}, EventReset(t)  PROVE MailInv' /\ Steps
  <2>1. obj.kind = "event" /\ Kept /\ call' = [call EXCEPT ![t] = ScheduleThen("user")]
    BY <1>1, <1>5 DEF EventReset, Of, Kept
  <2> QED  BY <1>2, <2>1, OneCallOther
<1>6. ASSUME NEW t \in Thread \ {Idle}, EventAgain(t)  PROVE MailInv' /\ Steps
  <2>1. obj.kind = "event" /\ Kept /\ UNCHANGED call
    BY <1>6 DEF EventAgain, rt_event_init, kernelVars, Kept
  <2> QED  BY <2>1, NoCallOther
<1> QED  BY <1>3, <1>4, <1>5, <1>6, EventSendKeeps DEF EventNext

(* The sections that move a node leave the rest of the queue alone.        *)
Same(p, o, x) == x \in DOMAIN p /\ p[x] = o[x]

LEMMA NodesMove ==
  ASSUME NEW x \in {"kind", "live"}, NEW o, x \in DOMAIN o
  PROVE  /\ Same(Allocate(o), o, x) /\ Same(UnlinkFirst(o), o, x)
         /\ \A n : Same(ToFree(o, n), o, x)
         /\ \A n, v, urgent : Same(Fill(o, n, v, urgent), o, x)
         /\ \A n, urgent : Same(Linked(o, n, urgent), o, x)
<1>1. Same(Allocate(o), o, x) /\ Same(UnlinkFirst(o), o, x)
  BY DEF Allocate, UnlinkFirst, Same
<1>2. ASSUME NEW n  PROVE Same(ToFree(o, n), o, x)
  BY DEF ToFree, Same
<1>3. ASSUME NEW n, NEW v, NEW urgent  PROVE Same(Fill(o, n, v, urgent), o, x)
  BY DEF Fill, Same
<1>4. ASSUME NEW n  PROVE Same(Link(o, n), o, x) /\ Same(LinkFirst(o, n), o, x)
  BY DEF Link, LinkFirst, Same
<1>5. ASSUME NEW n, NEW urgent  PROVE Same(Linked(o, n, urgent), o, x)
  BY <1>4 DEF Linked
<1> QED  BY <1>1, <1>2, <1>3, <1>5

LEMMA FilledMove ==
  ASSUME NEW x \in {"kind", "live"}, NEW o, x \in DOMAIN o, NEW n, NEW v, NEW urgent
  PROVE  /\ Same(Linked(Fill(o, n, v, urgent), n, urgent), o, x)
         /\ Same(Linked(Fill(Allocate(o), n, v, urgent), n, urgent), o, x)
<1>1. ASSUME NEW y, x \in DOMAIN y  PROVE Same(Linked(Fill(y, n, v, urgent), n, urgent), y, x)
  <2> DEFINE f == Fill(y, n, v, urgent)
  <2>1. Same(f, y, x)
    <3>1. \A m, w, u : Same(Fill(y, m, w, u), y, x)
      BY <1>1, NodesMove
    <3> QED  BY <3>1
  <2> HIDE DEF f
  <2>2. x \in DOMAIN f
    BY <2>1 DEF Same
  <2>3. \A m, u : Same(Linked(f, m, u), f, x)
    BY <2>2, NodesMove
  <2> QED  BY <2>1, <2>3 DEF Same, f
<1>2. Same(Allocate(o), o, x)
  BY NodesMove
<1> QED  BY <1>1, <1>2 DEF Same

LEMMA QueueLoopKeeps ==
  ASSUME MailInv, obj.kind = "queue", NEW t \in Thread, NEW time, QueueLoop(t, time)
  PROVE  MailInv' /\ Steps
<1>1. "kind" \in DOMAIN obj /\ obj.kind \in Kinds
  BY DEF MailInv, ObjectFits
<1>2. Kept
  BY <1>1, NodesMove DEF QueueLoop, Kept, Same
<1>3. PICK c \in {[pc |-> "copy", msg |-> obj.head], InUser, Waiting("get", NoValue, time)} :
        call' = [call EXCEPT ![t] = c]
  BY DEF QueueLoop, Return
<1>4. CallFits([pc |-> "copy", msg |-> obj.head], obj.kind)
  BY DEF CallFits, Place, PlacesOf
<1>5. CallFits(c, obj.kind)
  BY <1>1, <1>3, <1>4, InUserFits, FitsWaiting
<1> QED  BY <1>2, <1>3, <1>5, OneCallOther

LEMMA QueueKeeps ==
  ASSUME MailInv, QueueNext
  PROVE  MailInv' /\ Steps
<1>1. "kind" \in DOMAIN obj /\ obj.kind \in Kinds
  BY DEF MailInv, ObjectFits
<1>2. /\ obj.kind = "queue" => CallFits(ScheduleThen("user"), obj.kind)
      /\ CallFits(InUser, obj.kind)
  BY <1>1, FitsPlain, InUserFits DEF PlacesOf
<1>3. ASSUME NEW t \in Thread \ {Idle}, NEW time, rt_mq_recv(t, time)  PROVE MailInv' /\ Steps
  BY <1>3, QueueLoopKeeps DEF rt_mq_recv, Of
<1>4. ASSUME NEW t \in Thread \ {Idle}, GetAgain(t)  PROVE MailInv' /\ Steps
  <2>1. obj.kind = "queue"
    BY <1>4, KindAt, AtIs DEF GetAgain
  <2>2. CASE k.error[t] # "EOK"
    <3>1. call' = [call EXCEPT ![t] = InUser] /\ Kept
      BY <1>1, <1>4, <2>2 DEF GetAgain, Return, Kept
    <3> QED  BY <1>2, <2>1, <3>1, OneCallOther
  <2>3. CASE k.error[t] = "EOK"
    BY <1>4, <2>1, <2>3, QueueLoopKeeps DEF GetAgain
  <2> QED  BY <2>2, <2>3
<1>5. ASSUME NEW t \in Thread \ {Idle}, CopyAndLink(t)  PROVE MailInv' /\ Steps
  <2>1. obj.kind = "queue"
    BY <1>5, KindAt, AtIs DEF CopyAndLink
  <2>2. Kept
    BY <1>1, <1>5, FilledMove DEF CopyAndLink, Kept, Same
  <2>3. PICK c \in {InUser, ScheduleThen("user")} : call' = [call EXCEPT ![t] = c]
    BY <1>5 DEF CopyAndLink
  <2> QED  BY <1>2, <2>1, <2>2, <2>3, OneCallOther
<1>6. ASSUME NEW t \in Thread \ {Idle}, CopyOut(t)  PROVE MailInv' /\ Steps
  <2> DEFINE c == [pc |-> "release", msg |-> call[t].msg, value |-> obj.data[call[t].msg]]
  <2>1. obj.kind = "queue" /\ Kept
    BY <1>1, <1>6, KindAt, AtIs DEF CopyOut, Kept
  <2>2. call' = [call EXCEPT ![t] = c]
    BY <1>6 DEF CopyOut, MailInv, CallsFit
  <2>3. CallFits(c, obj.kind)
    BY <2>1 DEF CallFits, Place, PlacesOf
  <2> HIDE DEF c
  <2> QED  BY <2>1, <2>2, <2>3, OneCallOther
<1>7. ASSUME NEW t \in Thread \ {Idle}, GiveBack(t)  PROVE MailInv' /\ Steps
  <2>1. obj.kind = "queue" /\ Kept
    BY <1>1, <1>7, KindAt, AtIs, NodesMove DEF GiveBack, Kept, Same
  <2>2. call' = [call EXCEPT ![t] = InUser]
    BY <1>7 DEF GiveBack, Return
  <2> QED  BY <1>2, <2>1, <2>2, OneCallOther
<1>8. ASSUME NEW t \in Thread \ {Idle}, QueueReset(t)  PROVE MailInv' /\ Steps
  <2>1. obj.kind = "queue" /\ Kept /\ call' = [call EXCEPT ![t] = ScheduleThen("user")]
    BY <1>1, <1>8 DEF QueueReset, Of, Kept
  <2> QED  BY <1>2, <2>1, OneCallOther
<1>9. ASSUME NEW t \in Thread \ {Idle}, QueueAgain(t)  PROVE MailInv' /\ Steps
  <2>1. obj.kind = "queue" /\ Kept /\ UNCHANGED call
    BY <1>9 DEF QueueAgain, rt_mq_init, kernelVars, Kept
  <2> QED  BY <2>1, NoCallOther
<1>10. ASSUME NEW v, NEW urgent, rt_mq_send_isr(v, urgent)  PROVE MailInv' /\ Steps
  <2>1. obj.kind = "queue" /\ UNCHANGED call
    BY <1>10 DEF rt_mq_send_isr, Of
  <2>2. Kept
    BY <1>1, <1>10, FilledMove DEF rt_mq_send_isr, Kept, Same
  <2> QED  BY <2>1, <2>2, NoCallOther
<1>11. ASSUME NEW t \in Sender, NEW v, NEW urgent, rt_mq_send(t, v, urgent)  PROVE MailInv' /\ Steps
  <2> DEFINE c == [pc |-> "link", msg |-> obj.free, value |-> v, urgent |-> urgent]
  <2>1. obj.kind = "queue" /\ Kept /\ t \in Thread
    BY <1>1, <1>11, NodesMove, ObjectsAssumption DEF rt_mq_send, Of, Kept, Same
  <2>2. call' = [call EXCEPT ![t] = c]
    BY <1>11 DEF rt_mq_send
  <2>3. CallFits(c, obj.kind)
    BY <2>1 DEF CallFits, Place, PlacesOf
  <2> HIDE DEF c
  <2> QED  BY <2>1, <2>2, <2>3, OneCallOther
<1> QED  BY <1>3, <1>4, <1>5, <1>6, <1>7, <1>8, <1>9, <1>10, <1>11 DEF QueueNext

(* The end of an object empties its letterbox.                             *)
LEMMA EndingKeeps ==
  ASSUME MailInv, Ending
  PROVE  MailInv' /\ Steps
<1>1. "kind" \in DOMAIN obj /\ obj.kind \in Kinds
  BY DEF MailInv, ObjectFits
<1>2. \A p \in {"user", "test", "wake"} : CallFits([pc |-> p], obj.kind) /\ GotOf([pc |-> p]) = NoValue
  BY <1>1, FitsPlain DEF PlacesOf
<1>3. ASSUME NEW t \in Thread, NEW q
      PROVE  /\ CallFits([pc |-> "test", q |-> q], obj.kind)
             /\ GotOf([pc |-> "test", q |-> q]) = NoValue
  BY <1>1, ObjectsAssumption DEF CallFits, Place, PlacesOf, GotOf
<1>4. ASSUME NEW t \in Thread, Detach(t)  PROVE MailInv' /\ Steps
  <2> DEFINE c == [pc |-> "test", q |-> "receivers"]
  <2>1. Kept /\ call' = [call EXCEPT ![t] = c] /\ CallFits(c, obj.kind)
    BY <1>1, <1>3, <1>4 DEF Detach, Kept
  <2>2. GotOf(call[t]) = GotOf(c)
    BY <1>3, <1>4, UserIs DEF Detach
  <2> HIDE DEF c
  <2>3. CallsFit' /\ Gots' = Gots
    BY <2>1, <2>2, OneCall DEF MailInv, Kept
  <2>4. Letters' = <<>>
    BY <1>1, <1>4 DEF Detach, Letters, Of
  <2>5. ObjectFits'
    BY <1>4, <2>1 DEF Detach, Kept, MailInv, ObjectFits, Box
  <2> QED  BY <2>3, <2>4, <2>5 DEF MailInv, Steps, Gots, Letterbox!Next, Letterbox!Reset
<1>5. ASSUME NEW t \in Thread, Test(t)  PROVE MailInv' /\ Steps
  <2>1. Place(call[t]) = "test" /\ GotOf(call[t]) = NoValue /\ UNCHANGED obj /\ call[t].pc = "test"
    BY <1>5, AtIs DEF Test, At, GotOf
  <2>2. \A c : call' = [call EXCEPT ![t] = c] /\ CallFits(c, obj.kind) /\ GotOf(c) = NoValue
                 => MailInv' /\ Steps
    BY <2>1, OneCallSame
  <2>3. /\ \/ call' = [call EXCEPT ![t].pc = "wake"]
           \/ call' = [call EXCEPT ![t].q = "senders"]
           \/ call' = [call EXCEPT ![t] = InUser]
    BY <1>5 DEF Test, Goto, Return
  <2>4. "pc" \in DOMAIN call[t] /\ "wake" \in PlacesOf(obj.kind) /\ "test" \in PlacesOf(obj.kind)
    BY <1>1 DEF MailInv, CallsFit, CallFits, PlacesOf
  <2>5. CASE call' = [call EXCEPT ![t].pc = "wake"]
    <3> DEFINE c == [call[t] EXCEPT !.pc = "wake"]
    <3>1. "pc" \in DOMAIN c /\ c.pc = "wake"
      BY <2>4
    <3> HIDE DEF c
    <3>2. CallFits(c, obj.kind) /\ GotOf(c) = NoValue
      BY <2>4, <3>1 DEF CallFits, GotOf, Place
    <3> QED  BY <2>2, <2>5, <3>2 DEF c
  <2>6. CASE call' = [call EXCEPT ![t].q = "senders"]
    <3> DEFINE c == [call[t] EXCEPT !.q = "senders"]
    <3>1. "pc" \in DOMAIN c /\ c.pc = "test"
      BY <2>1, <2>4
    <3> HIDE DEF c
    <3>2. CallFits(c, obj.kind) /\ GotOf(c) = NoValue
      BY <2>4, <3>1 DEF CallFits, GotOf, Place
    <3> QED  BY <2>2, <2>6, <3>2 DEF c
  <2>7. CASE call' = [call EXCEPT ![t] = InUser]
    BY <1>1, <2>2, <2>7, InUserFits
  <2> QED  BY <2>3, <2>5, <2>6, <2>7
<1>6. ASSUME NEW t \in Thread, Wake(t)  PROVE MailInv' /\ Steps
  <2>1. Place(call[t]) = "wake" /\ GotOf(call[t]) = NoValue /\ UNCHANGED obj
    BY <1>6, AtIs DEF Wake, GotOf
  <2>2. "pc" \in DOMAIN call[t] /\ "test" \in PlacesOf(obj.kind)
    BY <1>1 DEF MailInv, CallsFit, CallFits, PlacesOf
  <2> DEFINE c == [call[t] EXCEPT !.pc = "test"]
  <2>3. "pc" \in DOMAIN c /\ c.pc = "test" /\ call' = [call EXCEPT ![t] = c]
    BY <1>6, <2>2 DEF Wake, Goto
  <2> HIDE DEF c
  <2>4. CallFits(c, obj.kind) /\ GotOf(c) = NoValue
    BY <2>2, <2>3 DEF CallFits, GotOf, Place
  <2> QED  BY <2>1, <2>3, <2>4, OneCallSame
<1> QED  BY <1>4, <1>5, <1>6 DEF Ending

(* A thread that goes on in a call that waits has a mailbox.               *)
Awake ==
  \A t \in Thread : (At(t, "send") \/ At(t, "receive")) /\ k.error[t] = "EOK" => obj.live

LEMMA LettersIs ==
  ASSUME MailInv, obj.kind = "mailbox"
  PROVE  /\ Box(obj) /\ obj.in_offset = RingPlace(obj.out_offset, obj.entry)
         /\ Letters = IF obj.live THEN Ring(obj) ELSE <<>>
BY DEF MailInv, ObjectFits, Letters, Of, Ring

(* The step of a thread that puts a letter into the ring.                  *)
LEMMA PutKeeps ==
  ASSUME MailInv, Of("mailbox"), obj.entry < MailSize, NEW v \in Value, obj' = PutMail(obj, v),
         CallsFit', Gots' = Gots
  PROVE  MailInv' /\ Steps
<1>1. Box(obj) /\ obj.in_offset = RingPlace(obj.out_offset, obj.entry) /\ Letters = Ring(obj)
  BY LettersIs DEF Of
<1>2. /\ Box(obj') /\ obj'.in_offset = RingPlace(obj'.out_offset, obj'.entry) /\ obj'.live
      /\ Ring(obj') = Append(Ring(obj), v)
  BY <1>1, PutIs DEF Of
<1>3. obj'.kind = "mailbox" /\ "kind" \in DOMAIN obj' /\ "mailbox" \in Kinds
  BY <1>1 DEF PutMail, Of, Box, MailInv, ObjectFits
<1>4. MailInv'
  BY <1>2, <1>3 DEF MailInv, ObjectFits
<1>5. Letters' = Append(Letters, v)
  BY <1>1, <1>2, <1>3 DEF Letters, Of, Ring
<1>6. Len(Letters) < MailSize
  BY <1>1, RingIs
<1>7. Letterbox!Send(v)
  BY <1>5, <1>6 DEF Letterbox!Send, Gots
<1> QED  BY <1>4, <1>7 DEF Steps, Letterbox!Next

LEMMA TakeKeeps ==
  ASSUME MailInv, Of("mailbox"), obj.entry > 0, obj' = TakeMail(obj), CallsFit',
         NEW t \in Thread, Gots' = [Gots EXCEPT ![t] = obj.msg_pool[obj.out_offset]]
  PROVE  MailInv' /\ Steps
<1>1. Box(obj) /\ obj.in_offset = RingPlace(obj.out_offset, obj.entry) /\ Letters = Ring(obj)
  BY LettersIs DEF Of
<1>2. /\ Box(obj') /\ obj'.in_offset = RingPlace(obj'.out_offset, obj'.entry) /\ obj'.live
      /\ Ring(obj) # <<>> /\ Ring(obj') = Tail(Ring(obj))
      /\ Head(Ring(obj)) = obj.msg_pool[obj.out_offset]
  BY <1>1, TakeIs DEF Of
<1>3. obj'.kind = "mailbox" /\ "kind" \in DOMAIN obj' /\ "mailbox" \in Kinds
  BY <1>1 DEF TakeMail, Of, Box, MailInv, ObjectFits
<1>4. MailInv'
  BY <1>2, <1>3 DEF MailInv, ObjectFits
<1>5. Letters' = Tail(Letters)
  BY <1>1, <1>2, <1>3 DEF Letters, Of, Ring
<1>6. Letterbox!Receive(t)
  BY <1>1, <1>2, <1>5 DEF Letterbox!Receive, Gots
<1> QED  BY <1>4, <1>6 DEF Steps, Letterbox!Next

LEMMA SendLoopKeeps ==
  ASSUME MailInv, Of("mailbox"), NEW t \in Thread, NEW v \in Value, NEW time, SendLoop(t, v, time),
         Place(call[t]) # "mail"
  PROVE  MailInv' /\ Steps
<1>1. obj.kind = "mailbox" /\ "mailbox" \in Kinds /\ GotOf(call[t]) = NoValue
  BY NothingGot DEF Of, MailInv, ObjectFits
<1>2. \A c \in {InUser, ScheduleThen("user"), Waiting("send", v, time)} :
        CallFits(c, "mailbox") /\ GotOf(c) = NoValue
  <2>1. "user" \in PlacesOf("mailbox")
    BY DEF PlacesOf
  <2>2. CallFits(InUser, "mailbox") /\ GotOf(InUser) = NoValue
    BY <1>1, InUserFits
  <2>3. CallFits(ScheduleThen("user"), "mailbox") /\ GotOf(ScheduleThen("user")) = NoValue
    BY <1>1, <2>1, FitsPlain
  <2>4. CallFits(Waiting("send", v, time), "mailbox") /\ GotOf(Waiting("send", v, time)) = NoValue
    BY FitsWaiting
  <2> QED  BY <2>2, <2>3, <2>4
<1>3. PICK c \in {InUser, ScheduleThen("user"), Waiting("send", v, time)} : call' = [call EXCEPT ![t] = c]
  BY DEF SendLoop, Return
<1>4. CASE obj.entry < MailSize
  <2>1. obj' = PutMail(obj, v)
    BY <1>4 DEF SendLoop
  <2>2. obj'.kind = obj.kind
    BY <1>1, <2>1, LettersIs DEF PutMail, Box
  <2>3. CallsFit' /\ Gots' = Gots
    BY <1>1, <1>2, <1>3, <2>2, OneCall DEF MailInv
  <2> QED  BY <1>4, <2>1, <2>3, PutKeeps
<1>5. CASE ~(obj.entry < MailSize)
  <2>1. UNCHANGED obj
    BY <1>5 DEF SendLoop
  <2> QED  BY <1>1, <1>2, <1>3, <2>1, OneCallSame
<1> QED  BY <1>4, <1>5

LEMMA ReceiveLoopKeeps ==
  ASSUME MailInv, Of("mailbox"), NEW t \in Thread, NEW time, ReceiveLoop(t, time),
         Place(call[t]) # "mail"
  PROVE  MailInv' /\ Steps
<1>1. obj.kind = "mailbox" /\ "mailbox" \in Kinds /\ GotOf(call[t]) = NoValue
  BY NothingGot DEF Of, MailInv, ObjectFits
<1>2. CASE obj.entry > 0
  <2> DEFINE c == [pc |-> IF NoneWaits("senders") THEN "mail" ELSE "schedule", then |-> "mail",
                   value |-> obj.msg_pool[obj.out_offset]]
  <2>1. obj' = TakeMail(obj) /\ call' = [call EXCEPT ![t] = c]
    BY <1>2 DEF ReceiveLoop
  <2>2. obj'.kind = obj.kind
    BY <1>1, <2>1, LettersIs DEF TakeMail, Box
  <2>3. CallFits(c, "mailbox") /\ GotOf(c) = obj.msg_pool[obj.out_offset]
    BY DEF CallFits, GotOf, Place, PlacesOf
  <2> HIDE DEF c
  <2>4. CallsFit' /\ Gots' = [Gots EXCEPT ![t] = GotOf(c)]
    BY <1>1, <2>1, <2>2, <2>3, OneCall DEF MailInv
  <2> QED  BY <1>2, <2>1, <2>3, <2>4, TakeKeeps
<1>3. CASE ~(obj.entry > 0)
  <2>1. PICK c \in {InUser, Waiting("receive", NoValue, time)} : call' = [call EXCEPT ![t] = c]
    BY <1>3 DEF ReceiveLoop, Return
  <2>2. CallFits(c, "mailbox") /\ GotOf(c) = NoValue
    BY <1>1, <2>1, InUserFits, FitsWaiting
  <2>3. UNCHANGED obj
    BY <1>3 DEF ReceiveLoop
  <2> QED  BY <1>1, <2>1, <2>2, <2>3, OneCallSame
<1> QED  BY <1>2, <1>3

LEMMA MailboxKeeps ==
  ASSUME MailInv, Awake, MailboxNext
  PROVE  MailInv' /\ Steps
<1>1. "kind" \in DOMAIN obj /\ obj.kind \in Kinds
  BY DEF MailInv, ObjectFits
<1>2. ASSUME NEW t \in Thread \ {Idle}, NEW time, rt_mb_recv(t, time)  PROVE MailInv' /\ Steps
  BY <1>2, ReceiveLoopKeeps, UserIs DEF rt_mb_recv
<1>3. ASSUME NEW t \in Sender, NEW v \in Value, NEW time, rt_mb_send_wait(t, v, time)  PROVE MailInv' /\ Steps
  <2>1. t \in Thread /\ Place(call[t]) # "mail"
    BY <1>3, ObjectsAssumption, UserIs DEF rt_mb_send_wait
  <2> QED  BY <1>3, <2>1, SendLoopKeeps DEF rt_mb_send_wait
<1>4. ASSUME NEW t \in Thread, CallFits(InUser, obj.kind), Place(call[t]) # "mail", Return(t), UNCHANGED obj
      PROVE  MailInv' /\ Steps
  <2>1. GotOf(call[t]) = NoValue /\ GotOf(InUser) = NoValue
    BY <1>4, <1>1, NothingGot, InUserFits
  <2> QED  BY <1>4, <2>1, OneCallSame DEF Return
<1>5. CallFits(InUser, obj.kind)
  BY <1>1, InUserFits
<1>6. ASSUME NEW t \in Thread \ {Idle}, SendAgain(t)  PROVE MailInv' /\ Steps
  <2>1. Place(call[t]) = "send" /\ obj.kind = "mailbox" /\ call[t].value \in Value
    BY <1>6, AtIs, KindAt DEF SendAgain, MailInv, CallsFit, CallFits
  <2>2. CASE k.error[t] # "EOK"
    BY <1>4, <1>5, <1>6, <2>1, <2>2 DEF SendAgain
  <2>3. CASE k.error[t] = "EOK"
    <3>1. Of("mailbox")
      BY <1>6, <2>1, <2>3 DEF SendAgain, Awake, Of
    <3> QED  BY <1>6, <2>1, <2>3, <3>1, SendLoopKeeps DEF SendAgain
  <2> QED  BY <2>2, <2>3
<1>7. ASSUME NEW t \in Thread \ {Idle}, ReceiveAgain(t)  PROVE MailInv' /\ Steps
  <2>1. Place(call[t]) = "receive" /\ obj.kind = "mailbox"
    BY <1>7, AtIs, KindAt DEF ReceiveAgain
  <2>2. CASE k.error[t] # "EOK"
    BY <1>4, <1>5, <1>7, <2>1, <2>2 DEF ReceiveAgain
  <2>3. CASE k.error[t] = "EOK"
    <3>1. Of("mailbox")
      BY <1>7, <2>1, <2>3 DEF ReceiveAgain, Awake, Of
    <3> QED  BY <1>7, <2>1, <2>3, <3>1, ReceiveLoopKeeps DEF ReceiveAgain
  <2> QED  BY <2>2, <2>3
<1>8. ASSUME NEW t \in Thread \ {Idle}, MailReceived(t)  PROVE MailInv' /\ Steps
  <2>1. call' = [call EXCEPT ![t] = InUser] /\ UNCHANGED obj
    BY <1>8 DEF MailReceived, Return
  <2>2. CallsFit' /\ Gots' = [Gots EXCEPT ![t] = NoValue]
    BY <1>1, <1>5, <2>1, InUserFits, OneCall DEF MailInv
  <2>3. ObjectFits' /\ Letters' = Letters
    BY <2>1 DEF MailInv, ObjectFits, Box, Letters, Of
  <2>4. Letterbox!Use(t)
    BY <2>2, <2>3 DEF Letterbox!Use, Gots
  <2> QED  BY <2>2, <2>3, <2>4 DEF MailInv, Steps, Letterbox!Next
<1>9. ASSUME CallsFit', Gots' = Gots, Letters' = <<>>, ObjectFits'  PROVE MailInv' /\ Steps
  BY <1>9 DEF MailInv, Steps, Letterbox!Next, Letterbox!Reset, Gots
<1>10. MailSize \in Nat /\ MailSize > 0
  BY MailboxAssumption
<1>11. ASSUME NEW t \in Thread \ {Idle}, MailboxReset(t)  PROVE MailInv' /\ Steps
  <2>1. Of("mailbox") /\ Place(call[t]) = "user" /\ call' = [call EXCEPT ![t] = ScheduleThen("user")]
    BY <1>11, UserIs DEF MailboxReset
  <2>2. Box(obj)
    BY <2>1, LettersIs DEF Of
  <2>3. /\ Box(obj') /\ obj'.kind = obj.kind /\ obj'.entry = 0 /\ obj'.in_offset = 0
        /\ obj'.out_offset = 0
    <3>1. obj' = [obj EXCEPT !.entry = 0, !.in_offset = 0, !.out_offset = 0]
      BY <1>11 DEF MailboxReset
    <3> QED  BY <1>10, <2>2, <3>1 DEF Box
  <2>4. "user" \in PlacesOf(obj.kind) /\ GotOf(call[t]) = NoValue
    BY <2>1 DEF PlacesOf, GotOf
  <2>8. CallFits(ScheduleThen("user"), obj.kind) /\ GotOf(ScheduleThen("user")) = NoValue
    BY <1>1, <2>4, FitsPlain
  <2>5. CallsFit' /\ Gots' = Gots
    BY <2>1, <2>3, <2>4, <2>8, OneCall DEF MailInv
  <2>6. ObjectFits'
    BY <1>1, <1>10, <2>3 DEF ObjectFits, RingPlace, Box
  <2>7. Letters' = <<>>
    BY <2>3 DEF Letters, Of
  <2> QED  BY <1>9, <2>5, <2>6, <2>7
<1>12. ASSUME NEW t \in Thread \ {Idle}, MailboxAgain(t)  PROVE MailInv' /\ Steps
  <2>1. obj.kind = "mailbox" /\ obj' = rt_mb_init(obj.flag) /\ UNCHANGED call
    BY <1>12 DEF MailboxAgain, kernelVars
  <2>2. /\ Box(obj') /\ obj'.kind = "mailbox" /\ obj'.entry = 0 /\ obj'.in_offset = 0
        /\ obj'.out_offset = 0
    BY <1>10, <2>1 DEF Box, rt_mb_init
  <2>3. CallsFit' /\ Gots' = Gots
    BY <2>1, <2>2 DEF CallsFit, Gots, MailInv, MailGot, Bound
  <2>4. ObjectFits'
    BY <1>1, <1>10, <2>1, <2>2 DEF ObjectFits, RingPlace, Box
  <2>5. Letters' = <<>>
    BY <2>2 DEF Letters, Of
  <2> QED  BY <1>9, <2>3, <2>4, <2>5
<1>13. ASSUME rt_mb_send  PROVE MailInv' /\ Steps
  <2>1. Of("mailbox") /\ obj.entry < MailSize /\ UNCHANGED call
    BY <1>13 DEF rt_mb_send
  <2>2. PICK v \in Value : obj' = PutMail(obj, v)
    BY <1>13 DEF rt_mb_send
  <2>3. obj'.kind = obj.kind
    BY <2>1, <2>2, LettersIs DEF PutMail, Box, Of
  <2>4. CallsFit' /\ Gots' = Gots
    BY <2>1, <2>3 DEF CallsFit, Gots, MailInv, MailGot, Bound
  <2> QED  BY <2>1, <2>2, <2>4, PutKeeps
<1> QED  BY <1>2, <1>3, <1>6, <1>7, <1>8, <1>11, <1>12, <1>13 DEF MailboxNext

LEMMA MailStarts ==
  ASSUME ObjectInit
  PROVE  MailInv /\ Letterbox!Init
<1>1. call = [t \in Thread |-> InUser] /\ obj.kind \in Kinds
  BY DEF ObjectInit
<1>2. CallsFit
  BY <1>1, InUserFits DEF CallsFit
<1>3. \A t \in Thread : MailGot(t) = NoValue
  BY <1>1, InUserFits, GotIs
<1>4. MailSize \in Nat /\ MailSize > 0
  BY MailboxAssumption
<1>5. "kind" \in DOMAIN obj
  BY DEF ObjectInit, SemInit, MutexInit, EventInit, MailboxInit, QueueInit, rt_sem_init,
         rt_mutex_init, rt_event_init, rt_mb_init, rt_mq_init
<1>6. obj.kind = "mailbox" => \E flag \in {"FIFO", "PRIO"} : obj = rt_mb_init(flag)
  BY DEF ObjectInit, SemInit, MutexInit, EventInit, MailboxInit, QueueInit, rt_sem_init,
         rt_mutex_init, rt_event_init, rt_mb_init, rt_mq_init
<1>7. ASSUME NEW flag
      PROVE  LET o == rt_mb_init(flag)
             IN  Box(o) /\ o.entry = 0 /\ o.in_offset = 0 /\ o.out_offset = 0
  BY <1>4 DEF rt_mb_init, Box
<1>8. ObjectFits
  BY <1>1, <1>4, <1>5, <1>6, <1>7 DEF ObjectFits, RingPlace
<1>9. Letters = <<>>
  BY <1>6, <1>7 DEF Letters, Of
<1> QED  BY <1>2, <1>3, <1>8, <1>9 DEF MailInv, Letterbox!Init

LEMMA StepKeeps ==
  ASSUME MailInv, Awake, [ObjectNext]_ipcVars
  PROVE  MailInv' /\ Steps
<1>1. CASE UNCHANGED ipcVars
  BY <1>1, Unchanged DEF ipcVars, kernelVars
<1> QED  BY <1>1, CommonKeeps, EndingKeeps, SemKeeps, MutexKeeps, EventKeeps, MailboxKeeps, QueueKeeps
         DEF ObjectNext
-----------------------------------------------------------------------------
WaitPlaces == {"taken", "locked", "received", "send", "receive", "get", "slept"}

(* How long a call that loops has waited and may wait.                     *)
TimeFits(c) ==
  Place(c) \in {"send", "receive", "get"} =>
    /\ {"time", "elapsed"} \subseteq DOMAIN c /\ c.time \in Int /\ c.elapsed \in Nat
    /\ c.time > 0 => c.elapsed <= c.time /\ \E n \in TimeOuts : c.time <= n

LockFree(K) ==
  /\ Listed(K) /\ K.lock = 0 /\ K.stat[Idle] = "ready" /\ K.cur \in Thread
  /\ \A t \in Thread : K.stat[t] \in {"ready", "suspend"} /\ K.slice[t] \in 1..InitTick[t]

(* A thread that waits is suspended, in one list, for what it called.      *)
QueuesInv ==
  \A t \in Thread :
    /\ Elsewhere(k, t) => k.stat[t] = "suspend" /\ k.error[t] = "EOK" /\ Place(call[t]) # "slept"
    /\ ~(In(k.queue["receivers"], t) /\ In(k.queue["senders"], t))
    /\ k.stat[t] = "suspend" => Place(call[t]) \in WaitPlaces

Ticking(t) == k.timer[t] > 0 \/ t \in due

ClockInv ==
  /\ due \subseteq Thread
  /\ \A t \in Thread :
       /\ Ticking(t) => k.stat[t] = "suspend"
       /\ k.stat[t] = "suspend" => Elsewhere(k, t) \/ Ticking(t)
       /\ k.timer[t] > 0 => \E n \in TimeOuts \cup {1} : k.timer[t] <= n
       /\ TimeFits(call[t])

FirstInv ==
  /\ k.stat[k.cur] = "ready" \/ call[k.cur].pc = "schedule"
  /\ due = {} /\ ~k.owed /\ call[k.cur].pc # "schedule" => k.cur = HighestReady(k)

(* The end of an object: who waits has no timer, nobody is in the middle of*)
(* a call but those that will learn of it, and one thread wakes them.      *)
Ends(t) == Place(call[t]) \in {"test", "wake"}

EndInv ==
  /\ ~obj.live =>
       \A t \in Thread :
         /\ Elsewhere(k, t) => ~Ticking(t)
         /\ \/ Place(call[t]) \in {"user", "slept", "test", "wake"}
            \/ Place(call[t]) \in WaitPlaces /\ (Elsewhere(k, t) \/ k.error[t] # "EOK")
  /\ \A t \in Thread : Ends(t) =>
       /\ ~obj.live /\ "q" \in DOMAIN call[t] /\ call[t].q \in Queues
       /\ \A u \in Thread : Ends(u) => u = t
       /\ Place(call[t]) = "wake" => k.queue[call[t].q] # <<>>

(* A mutex that is taken has an owner.                                     *)
ObjInv ==
  /\ {"kind", "live"} \subseteq DOMAIN obj /\ obj.live \in BOOLEAN
  /\ obj.kind = "mutex" =>
       /\ {"owner", "value", "original_priority", "hold", "holds"} \subseteq DOMAIN obj
       /\ obj.value \in {0, 1}
       /\ obj.owner \in Thread \cup {None} /\ (obj.owner = None <=> obj.value = 1)
       /\ obj.owner # None => obj.original_priority \in Prio

KInv == LockFree(k) /\ QueuesInv /\ ClockInv /\ FirstInv /\ EndInv
-----------------------------------------------------------------------------
(* A step leaves the call of a thread where it is.                         *)
SameCall(d, c) ==
  /\ d.pc = c.pc /\ Place(d) = Place(c) /\ (TimeFits(c) => TimeFits(d))
  /\ Place(c) \in {"test", "wake"} /\ "q" \in DOMAIN c => "q" \in DOMAIN d /\ d.q = c.q

(* The kernel after the threads of W were woken, whatever their priorities *)
(* and errors are.                                                         *)
WokenIn(L, W) ==
  /\ Listed(L) /\ L.lock = k.lock /\ L.slice = k.slice
  /\ L.stat = [u \in Thread |-> IF u \in W THEN "ready" ELSE k.stat[u]]
  /\ L.timer = [u \in Thread |-> IF u \in W THEN 0 ELSE k.timer[u]]
  /\ \A q \in Queues : \A u : In(L.queue[q], u) <=> In(k.queue[q], u) /\ u \notin W
  /\ \A u \in Thread : Elsewhere(k, u) /\ u \notin W => L.error[u] = k.error[u]

(* The thread that runs goes on to c; it may have woken the threads of W.  *)
Does(t, c, W) ==
  /\ Runs(t) /\ call[t].pc # "schedule"
  /\ \A u \in Thread : IF u = t THEN call'[u] = c ELSE SameCall(call'[u], call[u])
  /\ UNCHANGED due /\ obj'.live = obj.live
  /\ W \subseteq {u \in Thread : Elsewhere(k, u)} /\ WokenIn(k', W) /\ k'.cur = k.cur
  /\ c.pc = "schedule" \/ k'.owed \/ (HighestReady(k') = HighestReady(k) /\ k'.owed = k.owed)
  /\ TimeFits(c)
  /\ ~obj.live => /\ Place(c) \in {"user", "test", "wake"}
                  /\ \A u \in W : k'.error[u] # "EOK"
                  /\ \A u \in Thread : u \notin W /\ u # t => k'.error[u] = k.error[u]
                  /\ W # {} => Ends(t)
  /\ Place(c) \in {"test", "wake"} =>
       /\ Ends(t) /\ "q" \in DOMAIN c /\ c.q \in Queues
       /\ Place(c) = "wake" => k'.queue[c.q] # <<>>

LEMMA DoesKeeps ==
  ASSUME KInv, NEW t \in Thread, NEW c, NEW W, Does(t, c, W)
  PROVE  KInv'
<1>1. /\ t = k.cur /\ due = {} /\ k.stat[t] = "ready" /\ call[t].pc # "schedule" /\ t \in Thread
      /\ ~Elsewhere(k, t) /\ t \notin W
  BY DEF KInv, FirstInv, LockFree, Does, Runs, QueuesInv
<1>2. /\ Listed(k) /\ Listed(k') /\ WokenIn(k', W) /\ W \subseteq Thread /\ k'.cur = k.cur
      /\ k'.lock = 0 /\ due' = {}
  BY <1>1 DEF KInv, LockFree, Does, WokenIn
<1>3. \A u \in Thread : /\ k'.stat[u] = (IF u \in W THEN "ready" ELSE k.stat[u])
                        /\ k'.timer[u] = (IF u \in W THEN 0 ELSE k.timer[u])
                        /\ Elsewhere(k', u) <=> Elsewhere(k, u) /\ u \notin W
  BY <1>2, ListedIs DEF WokenIn
<1>4. LockFree(k')
  BY <1>2, <1>3, Priorities DEF LockFree, KInv, WokenIn
<1>5. \A u \in Thread : u # t => SameCall(call'[u], call[u])
  BY DEF Does
<1>6. QueuesInv'
  <2> SUFFICES ASSUME NEW u \in Thread
               PROVE  /\ Elsewhere(k', u) => k'.stat[u] = "suspend" /\ k'.error[u] = "EOK" /\ Place(call'[u]) # "slept"
                      /\ ~(In(k'.queue["receivers"], u) /\ In(k'.queue["senders"], u))
                      /\ k'.stat[u] = "suspend" => Place(call'[u]) \in WaitPlaces
    BY DEF QueuesInv
  <2>1. /\ Elsewhere(k, u) => k.stat[u] = "suspend" /\ k.error[u] = "EOK" /\ Place(call[u]) # "slept"
        /\ ~(In(k.queue["receivers"], u) /\ In(k.queue["senders"], u))
        /\ k.stat[u] = "suspend" => Place(call[u]) \in WaitPlaces
    BY DEF KInv, QueuesInv
  <2>2. ~(In(k'.queue["receivers"], u) /\ In(k'.queue["senders"], u))
    BY <1>2, <2>1 DEF WokenIn, Queues
  <2>3. CASE u = t
    BY <1>1, <1>3, <2>2, <2>3
  <2>4. CASE u # t
    <3>1. Place(call'[u]) = Place(call[u])
      BY <1>5, <2>4 DEF SameCall
    <3>2. Elsewhere(k', u) => k'.error[u] = k.error[u]
      BY <1>2, <1>3 DEF WokenIn
    <3> QED  BY <1>3, <2>1, <2>2, <3>1, <3>2
  <2> QED  BY <2>3, <2>4
<1>7. ClockInv'
  <2>1. ASSUME NEW u \in Thread
        PROVE  /\ k'.timer[u] > 0 \/ u \in due' => k'.stat[u] = "suspend"
               /\ k'.stat[u] = "suspend" => Elsewhere(k', u) \/ k'.timer[u] > 0
               /\ k'.timer[u] > 0 => \E n \in TimeOuts \cup {1} : k'.timer[u] <= n
               /\ TimeFits(call'[u])
    <3>1. /\ k.timer[u] > 0 => k.stat[u] = "suspend"
          /\ k.stat[u] = "suspend" => Elsewhere(k, u) \/ k.timer[u] > 0
          /\ k.timer[u] > 0 => \E n \in TimeOuts \cup {1} : k.timer[u] <= n
          /\ TimeFits(call[u])
      BY <1>1 DEF KInv, ClockInv, Ticking
    <3>2. TimeFits(call'[u])
      BY <1>5, <3>1 DEF Does, SameCall
    <3> QED  BY <1>2, <1>3, <3>1, <3>2
  <2> QED  BY <1>2, <2>1 DEF ClockInv, Ticking
<1>8. FirstInv'
  <2>1. k'.stat[t] = "ready" /\ call'[t] = c /\ k'.cur = t
    BY <1>1, <1>2, <1>3 DEF Does
  <2>2. ASSUME ~k'.owed, call'[k'.cur].pc # "schedule"  PROVE k'.cur = HighestReady(k')
    BY <1>1, <2>1, <2>2 DEF Does, KInv, FirstInv
  <2> QED  BY <2>1, <2>2 DEF FirstInv
<1>9. EndInv'
  <2>1. call'[t] = c /\ obj'.live = obj.live
    BY DEF Does
  <2>2. ASSUME ~obj'.live, NEW u \in Thread
        PROVE  /\ Elsewhere(k', u) => ~(k'.timer[u] > 0 \/ u \in due')
               /\ \/ Place(call'[u]) \in {"user", "slept", "test", "wake"}
                  \/ Place(call'[u]) \in WaitPlaces /\ (Elsewhere(k', u) \/ k'.error[u] # "EOK")
    <3>1. /\ Elsewhere(k, u) => ~(k.timer[u] > 0)
          /\ \/ Place(call[u]) \in {"user", "slept", "test", "wake"}
             \/ Place(call[u]) \in WaitPlaces /\ (Elsewhere(k, u) \/ k.error[u] # "EOK")
      BY <2>1, <2>2 DEF KInv, EndInv, Ticking
    <3>2. CASE u = t
      BY <1>2, <1>3, <2>1, <2>2, <3>1, <3>2 DEF Does
    <3>3. CASE u # t
      <4>1. Place(call'[u]) = Place(call[u])
        BY <1>5, <3>3 DEF SameCall
      <4>2. u \in W => k'.error[u] # "EOK"
        BY <2>1, <2>2 DEF Does
      <4>3. u \notin W => k'.error[u] = k.error[u]
        BY <2>1, <2>2, <3>3 DEF Does
      <4> QED  BY <1>2, <1>3, <3>1, <4>1, <4>2, <4>3
    <3> QED  BY <3>2, <3>3
  <2>3. ASSUME NEW u \in Thread  PROVE Ends(u)' => Ends(u)
    <3>1. CASE u = t
      BY <2>1, <3>1 DEF Does, Ends
    <3>2. CASE u # t
      BY <1>5, <3>2 DEF SameCall, Ends
    <3> QED  BY <3>1, <3>2
  <2>4. ASSUME NEW u \in Thread, Ends(u)'
        PROVE  /\ ~obj'.live /\ "q" \in DOMAIN call'[u] /\ call'[u].q \in Queues
               /\ \A v \in Thread : Ends(v)' => v = u
               /\ Place(call'[u]) = "wake" => k'.queue[call'[u].q] # <<>>
    <3>1. /\ ~obj.live /\ "q" \in DOMAIN call[u] /\ call[u].q \in Queues
          /\ \A v \in Thread : Ends(v) => v = u
          /\ Place(call[u]) = "wake" => k.queue[call[u].q] # <<>>
      BY <2>3, <2>4 DEF KInv, EndInv
    <3>2. ~obj'.live /\ \A v \in Thread : Ends(v)' => v = u
      BY <2>1, <2>3, <3>1
    <3>3. CASE u = t
      BY <2>1, <2>4, <3>2, <3>3 DEF Does, Ends
    <3>4. CASE u # t
      <4>1. Place(call'[u]) = Place(call[u]) /\ "q" \in DOMAIN call'[u] /\ call'[u].q = call[u].q
        BY <1>5, <2>3, <2>4, <3>1, <3>4 DEF SameCall, Ends
      <4>2. W = {}
        BY <3>1, <3>4 DEF Does
      <4>3. ASSUME k'.queue[call[u].q] = <<>>  PROVE k.queue[call[u].q] = <<>>
        <5>1. \A v : ~In(<<>>, v)
          BY DEF In
        <5>2. \A v : ~In(k.queue[call[u].q], v)
          BY <1>2, <3>1, <4>2, <4>3, <5>1, ZenonT(30) DEF WokenIn
        <5>3. k.queue[call[u].q] \in Seq(Thread)
          BY <1>2, <3>1, ListedIs
        <5> QED  BY <5>2, <5>3, NoneIn
      <4> QED  BY <3>1, <3>2, <4>1, <4>3
    <3> QED  BY <3>3, <3>4
  <2> QED  BY <2>2, <2>4 DEF EndInv, Ticking
<1> QED  BY <1>4, <1>6, <1>7, <1>8, <1>9 DEF KInv

(* The thread that runs is ready and in no list of waiting threads.        *)
LEMMA RunsIs ==
  ASSUME KInv, NEW t \in Thread, Runs(t), call[t].pc # "schedule"
  PROVE  /\ t = k.cur /\ due = {} /\ k.stat[t] = "ready" /\ ~Elsewhere(k, t)
         /\ Listed(k) /\ k.lock = 0
BY DEF KInv, FirstInv, LockFree, Runs, QueuesInv

(* In the middle of a call for an object, it is still there.               *)
LEMMA LiveIs ==
  ASSUME KInv, NEW t \in Thread, Runs(t), call[t].pc # "schedule", ~obj.live
  PROVE  \/ Place(call[t]) \in {"user", "slept", "test", "wake"}
         \/ Place(call[t]) \in WaitPlaces /\ k.error[t] # "EOK"
BY RunsIs DEF KInv, EndInv

LEMMA SameCallIs == \A c : SameCall(c, c)
BY DEF SameCall

LEMMA WokenNone ==
  ASSUME Listed(k), NEW L \in KState, L.ready = k.ready, L.group = k.group,
         L.prio = k.prio, L.stat = k.stat, L.queue = k.queue, L.defunct = k.defunct,
         L.lock = k.lock, L.slice = k.slice, L.timer = k.timer,
         \A u \in Thread : Elsewhere(k, u) => L.error[u] = k.error[u]
  PROVE  WokenIn(L, {}) /\ HighestReady(L) = HighestReady(k)
<1>1. Listed(L) /\ HighestReady(L) = HighestReady(k)
  BY ListedSame
<1>2. k.stat \in [Thread -> Stats] /\ k.timer \in [Thread -> Nat]
  BY ListedIs
<1>3. L.stat = [u \in Thread |-> IF u \in {} THEN "ready" ELSE k.stat[u]]
  BY <1>2
<1>4. L.timer = [u \in Thread |-> IF u \in {} THEN 0 ELSE k.timer[u]]
  BY <1>2
<1> QED  BY <1>1, <1>3, <1>4 DEF WokenIn

(* Before a thread waits or wakes another, a priority may change.          *)
Prepared(L) ==
  /\ Listed(L) /\ L.stat = k.stat /\ L.queue = k.queue /\ L.cur = k.cur /\ L.lock = k.lock
  /\ L.slice = k.slice /\ L.timer = k.timer /\ L.error = k.error

LEMMA PreparedIs ==
  ASSUME Listed(k)
  PROVE  Prepared(k) /\ \A R : Prepared(R) => WokenIn(R, {})
<1>1. k.stat \in [Thread -> Stats] /\ k.timer \in [Thread -> Nat]
  BY ListedIs
<1>2. k.stat = [u \in Thread |-> IF u \in {} THEN "ready" ELSE k.stat[u]]
  BY <1>1
<1>3. k.timer = [u \in Thread |-> IF u \in {} THEN 0 ELSE k.timer[u]]
  BY <1>1
<1> QED  BY <1>2, <1>3 DEF Prepared, WokenIn

LEMMA WokenOne ==
  ASSUME Listed(k), NEW R, Prepared(R), NEW L, NEW t \in Thread, Woken(L, R, t),
         \A u \in Thread : u # t => L.error[u] = k.error[u]
  PROVE  WokenIn(L, {t})
<1>1. /\ k.stat \in [Thread -> Stats] /\ k.timer \in [Thread -> Nat]
      /\ \A q \in Queues : \A u : In(QueuesWithout(R, t)[q], u) <=> In(k.queue[q], u) /\ u # t
  BY ListedIs, QueuesWithoutIs DEF Prepared
<1>2. L.stat = [u \in Thread |-> IF u \in {t} THEN "ready" ELSE k.stat[u]]
  BY <1>1 DEF Woken, Prepared
<1>3. L.timer = [u \in Thread |-> IF u \in {t} THEN 0 ELSE k.timer[u]]
  BY <1>1 DEF Woken, Prepared
<1> QED  BY <1>1, <1>2, <1>3 DEF WokenIn, Woken, Prepared

(* A thread goes on by itself; at most its error changes.                  *)
LEMMA GoesOn ==
  ASSUME KInv, NEW t \in Thread, Runs(t), call[t].pc # "schedule", NEW c,
         \A u \in Thread : call'[u] = IF u = t THEN c ELSE call[u], UNCHANGED due, obj'.live = obj.live,
         k' = k \/ \E e \in {"EOK", "ERROR"} : k' = [k EXCEPT !.error[t] = e],
         TimeFits(c), ~obj.live => Place(c) = "user", Place(c) \notin {"test", "wake"}
  PROVE  KInv'
<1>1. t = k.cur /\ ~Elsewhere(k, t) /\ Listed(k)
  BY RunsIs
<1>2. k \in KState
  BY <1>1, ListedIs
<1>3. PICK f \in [Thread -> {"EOK", "ETIMEOUT", "ERROR"}] :
        (\A u \in Thread : u # t => f[u] = k.error[u]) /\ k' = [k EXCEPT !.error = f]
  <2>1. CASE k' = k
    <3>1. k.error \in [Thread -> {"EOK", "ETIMEOUT", "ERROR"}] /\ k' = [k EXCEPT !.error = k.error]
      BY <1>2, <2>1 DEF KState
    <3> QED  BY <3>1
  <2>2. ASSUME NEW e \in {"EOK", "ERROR"}, k' = [k EXCEPT !.error[t] = e]
        PROVE  \E f \in [Thread -> {"EOK", "ETIMEOUT", "ERROR"}] :
                 (\A u \in Thread : u # t => f[u] = k.error[u]) /\ k' = [k EXCEPT !.error = f]
    <3> DEFINE f == [k.error EXCEPT ![t] = e]
    <3>1. f \in [Thread -> {"EOK", "ETIMEOUT", "ERROR"}] /\ \A u \in Thread : u # t => f[u] = k.error[u]
      BY <1>2 DEF KState
    <3>2. k' = [k EXCEPT !.error = f]
      BY <2>2
    <3> QED  BY <3>1, <3>2
  <2> QED  BY <2>1, <2>2
<1>4. /\ k' \in KState /\ k'.ready = k.ready /\ k'.group = k.group
      /\ k'.prio = k.prio /\ k'.stat = k.stat /\ k'.queue = k.queue /\ k'.defunct = k.defunct
      /\ k'.lock = k.lock /\ k'.slice = k.slice /\ k'.timer = k.timer
      /\ k'.cur = k.cur /\ k'.owed = k.owed /\ k'.error = f
  BY <1>2, <1>3 DEF KState
<1>5. WokenIn(k', {}) /\ HighestReady(k') = HighestReady(k)
  <2>1. \A u \in Thread : Elsewhere(k, u) => k'.error[u] = k.error[u]
    BY <1>1, <1>3, <1>4
  <2> QED  BY <1>1, <1>4, <2>1, WokenNone
<1>6. \A u \in Thread : IF u = t THEN call'[u] = c ELSE SameCall(call'[u], call[u])
  BY SameCallIs
<1>7. Does(t, c, {})
  BY <1>3, <1>4, <1>5, <1>6 DEF Does
<1> QED  BY <1>7, DoesKeeps

LEMMA QueuedIs ==
  ASSUME KInv, NEW q \in Queues, NEW u \in Thread, In(k.queue[q], u)
  PROVE  Elsewhere(k, u) /\ k.stat[u] = "suspend"
BY ListedIs DEF KInv, LockFree, QueuesInv

LEMMA ResumedIs ==
  ASSUME KInv, NEW R, Prepared(R), NEW q \in Queues, k.queue[q] # <<>>
  PROVE  LET h == Head(k.queue[q])
             L == rt_ipc_list_resume(R, q)
         IN  /\ h \in Thread /\ Elsewhere(k, h) /\ WokenIn(L, {h})
             /\ L.cur = k.cur /\ L.owed = R.owed /\ L.error = k.error
<1> DEFINE h == Head(k.queue[q])
<1>1. Listed(k) /\ h \in Thread /\ In(k.queue[q], h)
  BY ListedIs, HeadIn DEF KInv, LockFree
<1>2. Elsewhere(k, h) /\ k.stat[h] = "suspend"
  BY <1>1, QueuedIs
<1> DEFINE L == rt_thread_resume(R, h)
<1>3. Woken(L, R, h) /\ L.error = k.error /\ L.cur = k.cur /\ L.owed = R.owed
  <2>1. Listed(R) /\ R.stat[h] = "suspend"
    BY <1>2 DEF Prepared
  <2> HIDE DEF h
  <2>2. Woken(L, R, h) /\ L.error = R.error /\ L.cur = R.cur /\ L.owed = R.owed
    BY <1>1, <2>1, ResumeIs
  <2> QED  BY <2>2 DEF Prepared
<1>4. rt_ipc_list_resume(R, q) = L
  BY DEF rt_ipc_list_resume, Prepared
<1> HIDE DEF L, h
<1>5. WokenIn(L, {h})
  BY <1>1, <1>3, WokenOne
<1> QED  BY <1>1, <1>2, <1>3, <1>4, <1>5 DEF h

(* The reset of an object wakes all who wait for it.                       *)
LEMMA ResetIs ==
  ASSUME KInv, NEW q \in Queues
  PROVE  LET W == {u \in Thread : In(k.queue[q], u)}
             L == WakeAll(k, q)
         IN  /\ WokenAll(L, k, W) /\ L.error = [u \in Thread |-> IF u \in W THEN "ERROR" ELSE k.error[u]]
             /\ W \subseteq {u \in Thread : Elsewhere(k, u)} /\ WokenIn(L, W)
<1> DEFINE W == {u \in Thread : In(k.queue[q], u)}
           L == WakeAll(k, q)
<1>1. Listed(k) /\ \A u \in Thread : In(k.queue[q], u) => k.stat[u] = "suspend" /\ Elsewhere(k, u)
  BY QueuedIs DEF KInv, LockFree
<1>2. /\ WokenAll(L, k, W)
      /\ L.error = [u \in Thread |-> IF u \in W THEN "ERROR" ELSE k.error[u]]
  BY <1>1, WakeAllIs
<1> HIDE DEF L
<1>3. WokenIn(L, W)
  BY <1>2 DEF WokenIn, WokenAll
<1> QED  BY <1>1, <1>2, <1>3 DEF L

LEMMA ResetBothIs ==
  ASSUME KInv
  PROVE  LET W == {u \in Thread : Elsewhere(k, u)}
             L == WakeAll(WakeAll(k, "receivers"), "senders")
         IN  WokenIn(L, W) /\ L.cur = k.cur
<1> DEFINE V == {u \in Thread : In(k.queue["receivers"], u)}
           U == {u \in Thread : In(k.queue["senders"], u)}
           W == {u \in Thread : Elsewhere(k, u)}
           M == WakeAll(k, "receivers")
           X == {u \in Thread : In(M.queue["senders"], u)}
           L == WakeAll(M, "senders")
<1>1. Listed(k) /\ "senders" \in Queues /\ "receivers" \in Queues
      /\ \A u \in Thread : In(k.queue["senders"], u) => k.stat[u] = "suspend"
  BY QueuedIs DEF KInv, LockFree, Queues
<1>2. WokenAll(M, k, V)
  BY <1>1, ResetIs
<1>3. V \cup U = W
  BY <1>1, ListedIs DEF Queues
<1> HIDE DEF M
<1>4. \A u \in Thread : In(M.queue["senders"], u) <=> u \in U /\ u \notin V
  BY <1>1, <1>2 DEF WokenAll
<1>5. Listed(M) /\ \A u \in Thread : In(M.queue["senders"], u) => M.stat[u] = "suspend"
  BY <1>1, <1>2, <1>4 DEF WokenAll
<1>6. WokenAll(L, M, X)
  BY <1>1, <1>5, WakeAllIs
<1> HIDE DEF L, U, V, W, X
<1>7. X \cup V = W /\ X \subseteq Thread /\ V \subseteq Thread
  BY <1>3, <1>4 DEF X, U, V
<1>8. L.stat = [u \in Thread |-> IF u \in W THEN "ready" ELSE k.stat[u]]
  BY <1>2, <1>6, <1>7 DEF WokenAll
<1>9. L.timer = [u \in Thread |-> IF u \in W THEN 0 ELSE k.timer[u]]
  BY <1>2, <1>6, <1>7 DEF WokenAll
<1>10. /\ Listed(L) /\ L.lock = k.lock /\ L.slice = k.slice /\ L.cur = k.cur
       /\ \A q \in Queues : \A u : In(L.queue[q], u) <=> In(k.queue[q], u) /\ u \notin W
  BY <1>2, <1>6, <1>7 DEF WokenAll
<1> QED  BY <1>8, <1>9, <1>10 DEF WokenIn, W, L, M

(* A thread goes on with the schedule that follows a wake-up.              *)
LEMMA WakesThen ==
  ASSUME KInv, NEW t \in Thread, Runs(t), call[t].pc # "schedule", DOMAIN call = Thread,
         NEW c, call' = [call EXCEPT ![t] = c], UNCHANGED due, obj.live, obj'.live = obj.live,
         NEW W \in SUBSET {u \in Thread : Elsewhere(k, u)}, WokenIn(k', W), k'.cur = k.cur,
         c.pc = "schedule" \/ k'.owed, TimeFits(c), Place(c) \notin {"test", "wake"}
  PROVE  KInv'
<1>1. \A u \in Thread : IF u = t THEN call'[u] = c ELSE SameCall(call'[u], call[u])
  BY SameCallIs
<1>2. Does(t, c, W)
  BY <1>1 DEF Does
<1> QED  BY <1>2, DoesKeeps

(* An interrupt handler wakes threads, and the scheduler runs.             *)
LEMMA HandlerKeeps ==
  ASSUME KInv, due = {}, UNCHANGED due, obj.live, obj'.live,
         NEW L, NEW W \in SUBSET {u \in Thread : Elsewhere(k, u)}, WokenIn(L, W), L.cur = k.cur,
         k' = rt_schedule(L) \/ (k' = L /\ HighestReady(L) = HighestReady(k) /\ L.owed = k.owed),
         \A u \in Thread : SameCall(call'[u], call[u])
  PROVE  KInv'
<1>1. /\ Listed(k) /\ Listed(L) /\ L.lock = 0 /\ L.stat[Idle] = "ready" /\ L.cur = k.cur
      /\ \A u \in Thread : L.stat[u] \in {"ready", "suspend"} /\ L.slice[u] \in 1..InitTick[u]
  BY Priorities DEF KInv, LockFree, WokenIn
<1>2. \A u \in Thread : /\ L.stat[u] = (IF u \in W THEN "ready" ELSE k.stat[u])
                        /\ L.timer[u] = (IF u \in W THEN 0 ELSE k.timer[u])
                        /\ Elsewhere(L, u) <=> Elsewhere(k, u) /\ u \notin W
                        /\ Elsewhere(L, u) => L.error[u] = k.error[u]
  BY <1>1, ListedIs DEF WokenIn
<1>3. /\ Listed(k') /\ k'.stat = L.stat /\ k'.lock = L.lock /\ k'.slice = L.slice
      /\ k'.error = L.error /\ k'.timer = L.timer /\ k'.queue = L.queue
      /\ \A u : Elsewhere(k', u) <=> Elsewhere(L, u)
      /\ \/ k'.cur = HighestReady(k') /\ k'.stat[k'.cur] = "ready" /\ k'.cur \in Thread
         \/ k'.cur = k.cur /\ HighestReady(k') = HighestReady(k) /\ k'.owed = k.owed
  <2>1. CASE k' = rt_schedule(L)
    <3>1. /\ Listed(k') /\ k'.stat = L.stat /\ k'.lock = L.lock /\ k'.slice = L.slice
          /\ k'.error = L.error /\ k'.timer = L.timer /\ k'.queue = L.queue
          /\ k'.cur = HighestReady(k') /\ k'.cur \in Ready(k')
      BY <1>1, <2>1, ScheduledIs
    <3> QED  BY <1>1, <3>1, ListedIs DEF Ready
  <2>2. CASE k' = L /\ HighestReady(L) = HighestReady(k) /\ L.owed = k.owed
    BY <1>1, <2>2
  <2> QED  BY <2>1, <2>2
<1>4. LockFree(k')
  BY <1>1, <1>3 DEF LockFree, KInv
<1>5. \A u \in Thread : SameCall(call'[u], call[u])
  OBVIOUS
<1>6. QueuesInv'
  <2> SUFFICES ASSUME NEW u \in Thread
               PROVE  /\ Elsewhere(k', u) => k'.stat[u] = "suspend" /\ k'.error[u] = "EOK" /\ Place(call'[u]) # "slept"
                      /\ ~(In(k'.queue["receivers"], u) /\ In(k'.queue["senders"], u))
                      /\ k'.stat[u] = "suspend" => Place(call'[u]) \in WaitPlaces
    BY DEF QueuesInv
  <2>1. /\ Elsewhere(k, u) => k.stat[u] = "suspend" /\ k.error[u] = "EOK" /\ Place(call[u]) # "slept"
        /\ ~(In(k.queue["receivers"], u) /\ In(k.queue["senders"], u))
        /\ k.stat[u] = "suspend" => Place(call[u]) \in WaitPlaces
    BY DEF KInv, QueuesInv
  <2>2. ~(In(k'.queue["receivers"], u) /\ In(k'.queue["senders"], u))
    BY <1>3, <2>1 DEF WokenIn, Queues
  <2>3. Place(call'[u]) = Place(call[u])
    BY <1>5 DEF SameCall
  <2> QED  BY <1>2, <1>3, <2>1, <2>2, <2>3
<1>7. ClockInv'
  <2>1. ASSUME NEW u \in Thread
        PROVE  /\ k'.timer[u] > 0 \/ u \in due' => k'.stat[u] = "suspend"
               /\ k'.stat[u] = "suspend" => Elsewhere(k', u) \/ k'.timer[u] > 0
               /\ k'.timer[u] > 0 => \E n \in TimeOuts \cup {1} : k'.timer[u] <= n
               /\ TimeFits(call'[u])
    <3>1. /\ k.timer[u] > 0 => k.stat[u] = "suspend"
          /\ k.stat[u] = "suspend" => Elsewhere(k, u) \/ k.timer[u] > 0
          /\ k.timer[u] > 0 => \E n \in TimeOuts \cup {1} : k.timer[u] <= n
          /\ TimeFits(call[u])
      BY DEF KInv, ClockInv, Ticking
    <3>2. TimeFits(call'[u])
      BY <1>5, <3>1 DEF SameCall
    <3> QED  BY <1>2, <1>3, <3>1, <3>2
  <2> QED  BY <2>1 DEF ClockInv, Ticking
<1>8. FirstInv'
  <2>1. CASE k'.cur = HighestReady(k') /\ k'.stat[k'.cur] = "ready" /\ k'.cur \in Thread
    BY <2>1 DEF FirstInv
  <2>2. CASE k'.cur = k.cur /\ HighestReady(k') = HighestReady(k) /\ k'.owed = k.owed
    <3>1. k.cur \in Thread
      BY DEF KInv, LockFree
    <3>2. call'[k.cur].pc = call[k.cur].pc
      BY <1>5, <3>1 DEF SameCall
    <3>3. k.stat[k.cur] = "ready" => k'.stat[k.cur] = "ready"
      BY <1>2, <1>3, <3>1
    <3> QED  BY <2>2, <3>2, <3>3 DEF KInv, FirstInv
  <2> QED  BY <1>3, <2>1, <2>2
<1>9. EndInv'
  <2>1. \A u \in Thread : Place(call'[u]) = Place(call[u])
    BY <1>5 DEF SameCall
  <2>2. \A u \in Thread : ~Ends(u)
    BY DEF KInv, EndInv
  <2> QED  BY <2>1, <2>2 DEF EndInv, Ends
<1> QED  BY <1>4, <1>6, <1>7, <1>8, <1>9 DEF KInv

LEMMA WaitsKeep ==
  ASSUME KInv, NEW t \in Thread \ {Idle}, Runs(t), call[t].pc # "schedule", DOMAIN call = Thread,
         NEW c, call' = [call EXCEPT ![t] = c], UNCHANGED due, obj.live, obj'.live,
         NEW L, Prepared(L), NEW q \in Queues, NEW time \in Int, k' = Wait(L, q, t, time),
         time > 0 => \E n \in TimeOuts : time <= n,
         c.pc = "schedule", Place(c) \in WaitPlaces \ {"slept"}, TimeFits(c)
  PROVE  KInv'
<1>1. t = k.cur /\ due = {} /\ k.stat[t] = "ready" /\ ~Elsewhere(k, t) /\ Listed(k)
  BY RunsIs
<1>2. ~Elsewhere(L, t) /\ L.stat[t] = "ready"
  BY <1>1, ListedIs DEF Prepared
<1>3. Waiter(k', L, q, t, time)
  BY <1>2, WaitIs DEF Prepared
<1>4. /\ k.stat \in [Thread -> Stats] /\ k.timer \in [Thread -> Nat]
      /\ k.error \in [Thread -> {"EOK", "ETIMEOUT", "ERROR"}]
  BY <1>1, ListedIs
<1>5. /\ Listed(k') /\ k'.cur = k.cur /\ k'.lock = k.lock /\ k'.slice = k.slice
      /\ \A u \in Thread : /\ k'.stat[u] = (IF u = t THEN "suspend" ELSE k.stat[u])
                           /\ k'.error[u] = (IF u = t THEN "EOK" ELSE k.error[u])
                           /\ k'.timer[u] = (IF u = t THEN IF time > 0 THEN time ELSE 0 ELSE k.timer[u])
      /\ \A x \in Queues : \A u : In(k'.queue[x], u) <=> In(k.queue[x], u) \/ (x = q /\ u = t)
  BY <1>3, <1>4 DEF Waiter, Prepared
<1>6. \A u : Elsewhere(k', u) <=> Elsewhere(k, u) \/ u = t
  <2>1. \A u : Elsewhere(k', u) <=> \E x \in Queues : In(k'.queue[x], u)
    BY <1>5, ListedIs
  <2>2. \A u : Elsewhere(k, u) <=> \E x \in Queues : In(k.queue[x], u)
    BY <1>1, ListedIs
  <2> QED  BY <1>5, <2>1, <2>2
<1>7. LockFree(k')
  BY <1>5, Priorities DEF LockFree, KInv
<1>8. \A u \in Thread : call'[u] = IF u = t THEN c ELSE call[u]
  OBVIOUS
<1>9. QueuesInv'
  <2> SUFFICES ASSUME NEW u \in Thread
               PROVE  /\ Elsewhere(k', u) => k'.stat[u] = "suspend" /\ k'.error[u] = "EOK" /\ Place(call'[u]) # "slept"
                      /\ ~(In(k'.queue["receivers"], u) /\ In(k'.queue["senders"], u))
                      /\ k'.stat[u] = "suspend" => Place(call'[u]) \in WaitPlaces
    BY DEF QueuesInv
  <2>1. /\ Elsewhere(k, u) => k.stat[u] = "suspend" /\ k.error[u] = "EOK" /\ Place(call[u]) # "slept"
        /\ ~(In(k.queue["receivers"], u) /\ In(k.queue["senders"], u))
        /\ k.stat[u] = "suspend" => Place(call[u]) \in WaitPlaces
    BY DEF KInv, QueuesInv
  <2>2. \A x \in Queues : ~In(k.queue[x], t)
    BY <1>1, ListedIs
  <2>3. ~(In(k'.queue["receivers"], u) /\ In(k'.queue["senders"], u))
    BY <1>5, <2>1, <2>2 DEF Queues
  <2> QED  BY <1>5, <1>6, <1>8, <2>1, <2>3
<1>10. ClockInv'
  <2>1. ASSUME NEW u \in Thread
        PROVE  /\ k'.timer[u] > 0 \/ u \in due' => k'.stat[u] = "suspend"
               /\ k'.stat[u] = "suspend" => Elsewhere(k', u) \/ k'.timer[u] > 0
               /\ k'.timer[u] > 0 => \E n \in TimeOuts \cup {1} : k'.timer[u] <= n
               /\ TimeFits(call'[u])
    <3>1. /\ k.timer[u] > 0 => k.stat[u] = "suspend"
          /\ k.stat[u] = "suspend" => Elsewhere(k, u) \/ k.timer[u] > 0
          /\ k.timer[u] > 0 => \E n \in TimeOuts \cup {1} : k.timer[u] <= n
          /\ TimeFits(call[u])
      BY <1>1 DEF KInv, ClockInv, Ticking
    <3> QED  BY <1>1, <1>5, <1>6, <1>8, <3>1
  <2> QED  BY <1>1, <2>1 DEF ClockInv, Ticking
<1>11. FirstInv'
  BY <1>1, <1>5, <1>8 DEF FirstInv
<1>12. EndInv'
  <2>1. \A u \in Thread : ~Ends(u)
    BY DEF KInv, EndInv
  <2>2. \A u \in Thread : ~Ends(u)'
    BY <1>8, <2>1 DEF Ends, WaitPlaces
  <2> QED  BY <2>2 DEF EndInv
<1> QED  BY <1>7, <1>9, <1>10, <1>11, <1>12 DEF KInv

(* The scheduler lets a thread run that called it.                         *)
LEMMA ScheduledKeeps ==
  ASSUME KInv, MailInv, NEW t \in Thread, Schedule(t), UNCHANGED obj
  PROVE  KInv'
<1>1. /\ due = {} /\ due' = {} /\ k.cur = t /\ call[t].pc = "schedule" /\ k' = rt_schedule(k)
      /\ call' = [call EXCEPT ![t].pc = call[t].then]
  BY DEF Schedule, At, Runs, Goto
<1>2. /\ Listed(k) /\ k.lock = 0 /\ k.stat[Idle] = "ready"
      /\ \A u \in Thread : k.stat[u] \in {"ready", "suspend"} /\ k.slice[u] \in 1..InitTick[u]
  BY DEF KInv, LockFree
<1>3. /\ Listed(k') /\ k'.stat = k.stat /\ k'.lock = k.lock /\ k'.slice = k.slice
      /\ k'.error = k.error /\ k'.timer = k.timer /\ k'.queue = k.queue
      /\ k'.cur = HighestReady(k') /\ k'.cur \in Thread /\ k'.stat[k'.cur] = "ready"
      /\ \A u : Elsewhere(k', u) <=> Elsewhere(k, u)
  <2>1. /\ Listed(k') /\ k'.stat = k.stat /\ k'.lock = k.lock /\ k'.slice = k.slice
        /\ k'.error = k.error /\ k'.timer = k.timer /\ k'.queue = k.queue
        /\ k'.cur = HighestReady(k') /\ k'.cur \in Ready(k')
    BY <1>1, <1>2, ScheduledIs
  <2> QED  BY <1>2, <2>1, ListedIs DEF Ready
<1>4. "pc" \in DOMAIN call[t] /\ "then" \in DOMAIN call[t] /\ DOMAIN call = Thread
      /\ call[t].then # "schedule"
  <2>1. CallFits(call[t], obj.kind) /\ DOMAIN call = Thread /\ obj.kind \in Kinds
    BY DEF MailInv, CallsFit, ObjectFits
  <2>2. "schedule" \notin PlacesOf(obj.kind)
    BY <2>1, ObjectsAssumption DEF PlacesOf
  <2> QED  BY <1>1, <2>1, <2>2 DEF CallFits, Place
<1>5. \A u \in Thread : /\ Place(call'[u]) = Place(call[u])
                        /\ DOMAIN call'[u] = DOMAIN call[u]
                        /\ \A x \in DOMAIN call[u] : x # "pc" => call'[u][x] = call[u][x]
  BY <1>1, <1>4 DEF Place
<1>6. LockFree(k')
  BY <1>2, <1>3 DEF LockFree
<1>7. QueuesInv'
  BY <1>3, <1>5 DEF KInv, QueuesInv
<1>8. \A u \in Thread : TimeFits(call[u]) => TimeFits(call'[u])
  BY <1>5 DEF TimeFits
<1>9. ClockInv'
  BY <1>1, <1>3, <1>8 DEF KInv, ClockInv, Ticking
<1>10. FirstInv'
  BY <1>3 DEF FirstInv
<1>11. EndInv'
  <2>1. ASSUME ~obj.live, NEW u \in Thread
        PROVE  /\ Elsewhere(k', u) => ~(k'.timer[u] > 0 \/ u \in due')
               /\ \/ Place(call'[u]) \in {"user", "slept", "test", "wake"}
                  \/ Place(call'[u]) \in WaitPlaces /\ (Elsewhere(k', u) \/ k'.error[u] # "EOK")
    BY <1>1, <1>3, <1>5, <2>1 DEF KInv, EndInv, Ticking
  <2>2. \A u \in Thread : Ends(u)' <=> Ends(u)
    BY <1>5 DEF Ends
  <2>3. ASSUME NEW u \in Thread, Ends(u)
        PROVE  /\ ~obj.live /\ "q" \in DOMAIN call'[u] /\ call'[u].q \in Queues
               /\ \A v \in Thread : Ends(v)' => v = u
               /\ Place(call'[u]) = "wake" => k'.queue[call'[u].q] # <<>>
    <3>1. /\ ~obj.live /\ "q" \in DOMAIN call[u] /\ call[u].q \in Queues
          /\ \A v \in Thread : Ends(v) => v = u
          /\ Place(call[u]) = "wake" => k.queue[call[u].q] # <<>>
      BY <2>3 DEF KInv, EndInv
    <3>2. "q" \in DOMAIN call'[u] /\ call'[u].q = call[u].q /\ Place(call'[u]) = Place(call[u])
      BY <1>5, <3>1
    <3> QED  BY <1>3, <2>2, <3>1, <3>2
  <2> QED  BY <2>1, <2>2, <2>3 DEF EndInv, Ticking
<1> QED  BY <1>6, <1>7, <1>9, <1>10, <1>11 DEF KInv

(* A thread outside of the kernel sleeps.                                  *)
LEMMA SleepsKeep ==
  ASSUME KInv, MailInv, NEW t \in Thread \ {Idle}, rt_thread_sleep(t, 1), UNCHANGED obj
  PROVE  KInv'
<1> DEFINE c == ScheduleThen("slept")
           M == rt_thread_suspend(k, t)
<1>1. /\ Runs(t) /\ call[t].pc = "user" /\ call' = [call EXCEPT ![t] = c]
      /\ k' = [M EXCEPT !.timer[t] = 1] /\ UNCHANGED due
  BY DEF rt_thread_sleep, At, StartTimer
<1>2. t = k.cur /\ due = {} /\ k.stat[t] = "ready" /\ ~Elsewhere(k, t) /\ Listed(k)
  BY <1>1, RunsIs
<1>3. /\ k.stat \in [Thread -> Stats] /\ k.timer \in [Thread -> Nat] /\ k.defunct = <<>>
      /\ Lists(k, Ready(k)) /\ OnceElsewhere(k)
  BY <1>2, ListedIs DEF Listed
<1>4. /\ Lists(M, Ready(k) \ {t}) /\ SameElsewhere(M, k)
      /\ M.stat = [k.stat EXCEPT ![t] = "suspend"] /\ M.prio = k.prio
      /\ M.cur = k.cur /\ M.lock = k.lock /\ M.slice = k.slice /\ M.error = k.error
      /\ M.timer = [k.timer EXCEPT ![t] = 0] /\ M.owed = k.owed
  BY <1>2, <1>3, Suspended
<1> HIDE DEF M
<1>5. Listed(M)
  <2>1. Ready(M) = Ready(k) \ {t}
    BY <1>3, <1>4 DEF Ready
  <2> QED  BY <1>3, <1>4, <2>1 DEF Listed, SameElsewhere, OnceElsewhere
<1>6. M \in KState /\ M.timer \in [Thread -> Nat]
  BY <1>5, ListedIs
<1>7. /\ k' \in KState /\ k'.ready = M.ready /\ k'.group = M.group /\ k'.prio = M.prio
      /\ k'.stat = M.stat /\ k'.queue = M.queue /\ k'.defunct = M.defunct
      /\ k'.lock = M.lock /\ k'.slice = M.slice /\ k'.cur = M.cur /\ k'.error = M.error
      /\ k'.timer = [M.timer EXCEPT ![t] = 1]
  BY <1>1, <1>6 DEF KState
<1>8. /\ Listed(k') /\ k'.queue = k.queue /\ \A u : Elsewhere(k', u) <=> Elsewhere(k, u)
  BY <1>4, <1>5, <1>7, ListedSame DEF SameElsewhere, Elsewhere
<1>9. /\ k'.cur = k.cur /\ k'.lock = k.lock /\ k'.slice = k.slice /\ k'.error = k.error
      /\ \A u \in Thread : /\ k'.stat[u] = (IF u = t THEN "suspend" ELSE k.stat[u])
                           /\ k'.timer[u] = (IF u = t THEN 1 ELSE k.timer[u])
  BY <1>3, <1>4, <1>7
<1>10. \A u \in Thread : call'[u] = IF u = t THEN c ELSE call[u]
  BY <1>1 DEF MailInv, CallsFit
<1>11. c.pc = "schedule" /\ Place(c) = "slept" /\ TimeFits(c)
  BY DEF Place, ScheduleThen, TimeFits
<1> HIDE DEF c
<1>12. LockFree(k')
  BY <1>8, <1>9, Priorities DEF LockFree, KInv
<1>13. QueuesInv'
  BY <1>2, <1>8, <1>9, <1>10, <1>11 DEF KInv, QueuesInv, WaitPlaces
<1>14. ClockInv'
  <2>1. ASSUME NEW u \in Thread
        PROVE  /\ k'.timer[u] > 0 \/ u \in due' => k'.stat[u] = "suspend"
               /\ k'.stat[u] = "suspend" => Elsewhere(k', u) \/ k'.timer[u] > 0
               /\ k'.timer[u] > 0 => \E n \in TimeOuts \cup {1} : k'.timer[u] <= n
               /\ TimeFits(call'[u])
    <3>1. /\ k.timer[u] > 0 => k.stat[u] = "suspend"
          /\ k.stat[u] = "suspend" => Elsewhere(k, u) \/ k.timer[u] > 0
          /\ k.timer[u] > 0 => \E n \in TimeOuts \cup {1} : k.timer[u] <= n
          /\ TimeFits(call[u])
      BY <1>2 DEF KInv, ClockInv, Ticking
    <3> QED  BY <1>1, <1>2, <1>8, <1>9, <1>10, <1>11, <3>1
  <2> QED  BY <1>1, <1>2, <2>1 DEF ClockInv, Ticking
<1>15. FirstInv'
  BY <1>2, <1>9, <1>10, <1>11 DEF FirstInv
<1>16. EndInv'
  <2>1. Place(call[t]) = "user"
    BY <1>1 DEF Place
  <2>2. \A u \in Thread : Ends(u)' <=> Ends(u)
    BY <1>10, <1>11, <2>1 DEF Ends
  <2>3. ASSUME ~obj.live, NEW u \in Thread
        PROVE  /\ Elsewhere(k', u) => ~(k'.timer[u] > 0 \/ u \in due')
               /\ \/ Place(call'[u]) \in {"user", "slept", "test", "wake"}
                  \/ Place(call'[u]) \in WaitPlaces /\ (Elsewhere(k', u) \/ k'.error[u] # "EOK")
    BY <1>1, <1>2, <1>8, <1>9, <1>10, <1>11, <2>3 DEF KInv, EndInv, Ticking
  <2>4. \A u \in Thread : Ends(u) => call'[u] = call[u]
    BY <1>10, <2>1 DEF Ends
  <2> QED  BY <1>8, <2>2, <2>3, <2>4 DEF KInv, EndInv, Ticking
<1> QED  BY <1>12, <1>13, <1>14, <1>15, <1>16 DEF KInv

LEMMA AgedIs ==
  ASSUME NEW c, "pc" \in DOMAIN c, c.pc = "schedule" => "then" \in DOMAIN c
  PROVE  SameCall(Aged(c), c)
<1> DEFINE d == [c EXCEPT !.elapsed = @ + 1]
<1>1. DOMAIN d = DOMAIN c /\ \A x \in DOMAIN c : x # "elapsed" => d[x] = c[x]
  OBVIOUS
<1>2. d.pc = c.pc /\ Place(d) = Place(c) /\ ("q" \in DOMAIN c => "q" \in DOMAIN d /\ d.q = c.q)
  BY <1>1 DEF Place
<1>3. "elapsed" \in DOMAIN c => d.elapsed = c.elapsed + 1
  OBVIOUS
<1> HIDE DEF d
<1>4. ASSUME "elapsed" \in DOMAIN c, c.elapsed < c.time, TimeFits(c)  PROVE TimeFits(d)
  <2> SUFFICES ASSUME Place(c) \in {"send", "receive", "get"}
               PROVE  /\ {"time", "elapsed"} \subseteq DOMAIN d /\ d.time \in Int /\ d.elapsed \in Nat
                      /\ d.time > 0 => d.elapsed <= d.time /\ \E n \in TimeOuts : d.time <= n
    BY <1>2 DEF TimeFits
  <2>1. /\ {"time", "elapsed"} \subseteq DOMAIN c /\ c.time \in Int /\ c.elapsed \in Nat
        /\ c.time > 0 => c.elapsed <= c.time /\ \E n \in TimeOuts : c.time <= n
    BY <1>4 DEF TimeFits
  <2>2. d.time = c.time /\ {"time", "elapsed"} \subseteq DOMAIN d /\ d.elapsed = c.elapsed + 1
    BY <1>1, <1>3, <2>1
  <2> QED  BY <1>4, <2>1, <2>2
<1>5. Aged(c) = d \/ Aged(c) = c
  BY DEF Aged, d
<1>6. CASE Aged(c) = c
  BY <1>6, SameCallIs
<1>7. CASE "elapsed" \in DOMAIN c /\ c.elapsed < c.time
  BY <1>2, <1>4, <1>7 DEF Aged, SameCall, d
<1>8. CASE ~("elapsed" \in DOMAIN c /\ c.elapsed < c.time)
  BY <1>8, SameCallIs DEF Aged
<1> QED  BY <1>7, <1>8

(* A tick counts slices, timers and what limited waits have waited.        *)
LEMMA TicksKeep ==
  ASSUME KInv, MailInv, Tick, UNCHANGED obj
  PROVE  KInv'
<1> DEFINE L == CountSlice(k)
           g == [u \in Thread |-> IF L.timer[u] > 0 THEN L.timer[u] - 1 ELSE 0]
<1>1. /\ due = {} /\ k' = [L EXCEPT !.timer = g]
      /\ due' = {u \in Thread : k.timer[u] = 1} /\ call' = [u \in Thread |-> Aged(call[u])]
  BY DEF Tick
<1>2. /\ Listed(k) /\ k.lock = 0 /\ k.stat[Idle] = "ready" /\ Idle \in Thread /\ k.cur \in Thread
      /\ \A u \in Thread : k.stat[u] \in {"ready", "suspend"} /\ k.slice[u] \in 1..InitTick[u]
  BY Priorities DEF KInv, LockFree
<1>3. /\ k \in KState /\ k.stat \in [Thread -> Stats] /\ k.timer \in [Thread -> Nat]
      /\ Lists(k, Ready(k)) /\ OnceElsewhere(k) /\ k.defunct = <<>>
      /\ Ready(k) # {} /\ Ready(k) \in SUBSET Thread
  BY <1>2, ListedIs DEF Listed, Ready
<1>4. k.stat[k.cur] = "ready" => k.cur \in Ready(k) /\ ~Elsewhere(k, k.cur)
  BY <1>2 DEF KInv, QueuesInv, Ready
<1>5. /\ Lists(L, Ready(k)) /\ SameElsewhere(L, k)
      /\ L.stat = k.stat /\ L.prio = k.prio /\ L.lock = k.lock
      /\ L.error = k.error /\ L.timer = k.timer
      /\ \A u \in Thread : L.slice[u] \in 1..InitTick[u]
      /\ \/ L.cur = k.cur /\ L.owed = k.owed /\ HighestReady(L) = HighestReady(k)
         \/ L.cur = HighestReady(L) /\ L.cur \in Ready(k) /\ L.owed = FALSE
  BY <1>2, <1>3, <1>4, SliceCounted
<1> HIDE DEF L
<1>6. Listed(L) /\ L \in KState
  BY <1>3, <1>5, ListedIs DEF Listed, SameElsewhere, OnceElsewhere, Ready
<1>7. g \in [Thread -> Nat]
  BY <1>3, <1>5
<1>8. /\ k' \in KState /\ k'.ready = L.ready /\ k'.group = L.group /\ k'.prio = L.prio
      /\ k'.stat = L.stat /\ k'.queue = L.queue /\ k'.defunct = L.defunct /\ k'.timer = g
      /\ k'.lock = L.lock /\ k'.slice = L.slice /\ k'.cur = L.cur /\ k'.error = L.error
      /\ k'.owed = L.owed
  <2> HIDE DEF g
  <2> QED  BY <1>1, <1>6, <1>7 DEF KState
<1>9. Listed(k') /\ HighestReady(k') = HighestReady(L) /\ k'.queue = k.queue
      /\ \A u : Elsewhere(k', u) <=> Elsewhere(k, u)
  BY <1>5, <1>6, <1>8, ListedSame DEF SameElsewhere, Elsewhere
<1>10. \A u \in Thread : k'.timer[u] = IF k.timer[u] > 0 THEN k.timer[u] - 1 ELSE 0
  BY <1>5, <1>8
<1> HIDE DEF g
<1>11. \A u \in Thread : SameCall(call'[u], call[u])
  BY <1>1, AgedIs DEF MailInv, CallsFit, CallFits
<1>12. \A u \in Thread : Place(call'[u]) = Place(call[u]) /\ call'[u].pc = call[u].pc
  BY <1>11 DEF SameCall
<1>13. LockFree(k')
  <2>1. k'.cur \in Thread
    BY <1>2, <1>3, <1>5, <1>8
  <2> QED  BY <1>2, <1>5, <1>8, <1>9, <2>1 DEF LockFree
<1>14. QueuesInv'
  BY <1>5, <1>8, <1>9, <1>12 DEF KInv, QueuesInv
<1>15. ClockInv'
  <2>1. ASSUME NEW u \in Thread
        PROVE  /\ k'.timer[u] > 0 \/ u \in due' => k'.stat[u] = "suspend"
               /\ k'.stat[u] = "suspend" => Elsewhere(k', u) \/ k'.timer[u] > 0 \/ u \in due'
               /\ k'.timer[u] > 0 => \E n \in TimeOuts \cup {1} : k'.timer[u] <= n
               /\ TimeFits(call'[u])
    <3>1. /\ k.timer[u] > 0 => k.stat[u] = "suspend"
          /\ k.stat[u] = "suspend" => Elsewhere(k, u) \/ k.timer[u] > 0
          /\ k.timer[u] > 0 => \E n \in TimeOuts \cup {1} : k.timer[u] <= n
          /\ TimeFits(call[u]) /\ k.timer[u] \in Nat
      BY <1>1, <1>3 DEF KInv, ClockInv, Ticking
    <3>2. TimeFits(call'[u])
      BY <1>11, <3>1 DEF SameCall
    <3>3. k'.stat[u] = k.stat[u] /\ (Elsewhere(k', u) <=> Elsewhere(k, u))
          /\ k'.timer[u] = (IF k.timer[u] > 0 THEN k.timer[u] - 1 ELSE 0) /\ (u \in due' <=> k.timer[u] = 1)
      BY <1>1, <1>5, <1>8, <1>9, <1>10
    <3>4. TimeOuts \subseteq Int
      BY IPCAssumption
    <3> QED  BY <3>1, <3>2, <3>3, <3>4
  <2> QED  BY <1>1, <2>1 DEF ClockInv, Ticking
<1>16. FirstInv'
  <2>1. k'.stat[k'.cur] = "ready" \/ call'[k'.cur].pc = "schedule"
    BY <1>2, <1>5, <1>8, <1>12 DEF KInv, FirstInv, Ready
  <2>2. ASSUME ~k'.owed, call'[k'.cur].pc # "schedule"  PROVE k'.cur = HighestReady(k')
    BY <1>1, <1>2, <1>5, <1>8, <1>9, <1>12, <2>2 DEF KInv, FirstInv
  <2> QED  BY <2>1, <2>2 DEF FirstInv
<1>17. EndInv'
  <2>1. ASSUME ~obj.live, NEW u \in Thread
        PROVE  /\ Elsewhere(k', u) => ~(k'.timer[u] > 0 \/ u \in due')
               /\ \/ Place(call'[u]) \in {"user", "slept", "test", "wake"}
                  \/ Place(call'[u]) \in WaitPlaces /\ (Elsewhere(k', u) \/ k'.error[u] # "EOK")
    <3>1. /\ Elsewhere(k, u) => ~(k.timer[u] > 0)
          /\ \/ Place(call[u]) \in {"user", "slept", "test", "wake"}
             \/ Place(call[u]) \in WaitPlaces /\ (Elsewhere(k, u) \/ k.error[u] # "EOK")
      BY <2>1 DEF KInv, EndInv, Ticking
    <3> QED  BY <1>1, <1>5, <1>8, <1>9, <1>10, <1>12, <3>1
  <2>2. \A u \in Thread : Ends(u)' <=> Ends(u)
    BY <1>12 DEF Ends
  <2>3. ASSUME NEW u \in Thread, Ends(u)
        PROVE  /\ ~obj.live /\ "q" \in DOMAIN call'[u] /\ call'[u].q \in Queues
               /\ \A v \in Thread : Ends(v)' => v = u
               /\ Place(call'[u]) = "wake" => k'.queue[call'[u].q] # <<>>
    <3>1. /\ ~obj.live /\ "q" \in DOMAIN call[u] /\ call[u].q \in Queues
          /\ \A v \in Thread : Ends(v) => v = u
          /\ Place(call[u]) = "wake" => k.queue[call[u].q] # <<>>
      BY <2>3 DEF KInv, EndInv
    <3>2. "q" \in DOMAIN call'[u] /\ call'[u].q = call[u].q /\ Place(call'[u]) = Place(call[u])
      BY <1>11, <2>3, <3>1 DEF SameCall, Ends
    <3> QED  BY <1>9, <2>2, <3>1, <3>2
  <2> QED  BY <2>1, <2>2, <2>3 DEF EndInv, Ticking
<1> QED  BY <1>13, <1>14, <1>15, <1>16, <1>17 DEF KInv

(* The time of a thread that waits, or sleeps, is over.                    *)
LEMMA ExpiredKeeps ==
  ASSUME KInv, NEW t \in Thread, Expire(t), UNCHANGED obj
  PROVE  KInv'
<1>1. t \in due /\ k' = rt_thread_timeout(k, t) /\ due' = due \ {t} /\ UNCHANGED call
  BY DEF Expire
<1>2. /\ Listed(k) /\ k.lock = 0 /\ k.stat[Idle] = "ready" /\ k.stat[t] = "suspend"
      /\ \A u \in Thread : k.stat[u] \in {"ready", "suspend"} /\ k.slice[u] \in 1..InitTick[u]
  BY <1>1 DEF KInv, LockFree, ClockInv, Ticking
<1>3. /\ Woken(k', k, t) /\ k'.error = [k.error EXCEPT ![t] = "ETIMEOUT"]
      /\ k'.cur = HighestReady(k') /\ k'.cur \in Ready(k')
  BY <1>1, <1>2, TimeoutIs
<1>4. /\ k.stat \in [Thread -> Stats] /\ k.timer \in [Thread -> Nat]
      /\ k.error \in [Thread -> {"EOK", "ETIMEOUT", "ERROR"}]
      /\ \A q \in Queues : \A u : In(QueuesWithout(k, t)[q], u) <=> In(k.queue[q], u) /\ u # t
  BY <1>2, ListedIs, QueuesWithoutIs
<1>5. /\ Listed(k') /\ k'.lock = k.lock /\ k'.slice = k.slice
      /\ \A u \in Thread : /\ k'.stat[u] = (IF u = t THEN "ready" ELSE k.stat[u])
                           /\ k'.error[u] = (IF u = t THEN "ETIMEOUT" ELSE k.error[u])
                           /\ k'.timer[u] = (IF u = t THEN 0 ELSE k.timer[u])
      /\ \A q \in Queues : \A u : In(k'.queue[q], u) <=> In(k.queue[q], u) /\ u # t
  BY <1>3, <1>4 DEF Woken
<1>6. \A u : Elsewhere(k', u) <=> Elsewhere(k, u) /\ u # t
  <2>1. \A u : Elsewhere(k', u) <=> \E q \in Queues : In(k'.queue[q], u)
    BY <1>5, ListedIs
  <2>2. \A u : Elsewhere(k, u) <=> \E q \in Queues : In(k.queue[q], u)
    BY <1>2, ListedIs
  <2> QED  BY <1>5, <2>1, <2>2
<1>7. LockFree(k')
  BY <1>2, <1>3, <1>5, Priorities DEF LockFree, Ready
<1>8. QueuesInv'
  <2> SUFFICES ASSUME NEW u \in Thread
               PROVE  /\ Elsewhere(k', u) => k'.stat[u] = "suspend" /\ k'.error[u] = "EOK" /\ Place(call'[u]) # "slept"
                      /\ ~(In(k'.queue["receivers"], u) /\ In(k'.queue["senders"], u))
                      /\ k'.stat[u] = "suspend" => Place(call'[u]) \in WaitPlaces
    BY DEF QueuesInv
  <2>1. /\ Elsewhere(k, u) => k.stat[u] = "suspend" /\ k.error[u] = "EOK" /\ Place(call[u]) # "slept"
        /\ ~(In(k.queue["receivers"], u) /\ In(k.queue["senders"], u))
        /\ k.stat[u] = "suspend" => Place(call[u]) \in WaitPlaces
    BY DEF KInv, QueuesInv
  <2>2. ~(In(k'.queue["receivers"], u) /\ In(k'.queue["senders"], u))
    BY <1>5, <2>1 DEF Queues
  <2> QED  BY <1>1, <1>5, <1>6, <2>1, <2>2
<1>9. ClockInv'
  <2>1. ASSUME NEW u \in Thread
        PROVE  /\ k'.timer[u] > 0 \/ u \in due' => k'.stat[u] = "suspend"
               /\ k'.stat[u] = "suspend" => Elsewhere(k', u) \/ k'.timer[u] > 0 \/ u \in due'
               /\ k'.timer[u] > 0 => \E n \in TimeOuts \cup {1} : k'.timer[u] <= n
               /\ TimeFits(call'[u])
    <3>1. /\ k.timer[u] > 0 \/ u \in due => k.stat[u] = "suspend"
          /\ k.stat[u] = "suspend" => Elsewhere(k, u) \/ k.timer[u] > 0 \/ u \in due
          /\ k.timer[u] > 0 => \E n \in TimeOuts \cup {1} : k.timer[u] <= n
          /\ TimeFits(call[u])
      BY DEF KInv, ClockInv, Ticking
    <3> QED  BY <1>1, <1>5, <1>6, <3>1
  <2>2. due' \subseteq Thread
    BY <1>1 DEF KInv, ClockInv
  <2> QED  BY <2>1, <2>2 DEF ClockInv, Ticking
<1>10. FirstInv'
  BY <1>3 DEF FirstInv, Ready
<1>11. EndInv'
  <2>1. ASSUME ~obj.live, NEW u \in Thread
        PROVE  /\ Elsewhere(k', u) => ~(k'.timer[u] > 0 \/ u \in due')
               /\ \/ Place(call'[u]) \in {"user", "slept", "test", "wake"}
                  \/ Place(call'[u]) \in WaitPlaces /\ (Elsewhere(k', u) \/ k'.error[u] # "EOK")
    <3>1. /\ Elsewhere(k, u) => ~(k.timer[u] > 0 \/ u \in due)
          /\ \/ Place(call[u]) \in {"user", "slept", "test", "wake"}
             \/ Place(call[u]) \in WaitPlaces /\ (Elsewhere(k, u) \/ k.error[u] # "EOK")
      BY <2>1 DEF KInv, EndInv, Ticking
    <3> QED  BY <1>1, <1>5, <1>6, <3>1
  <2>2. \A u \in Thread : Ends(u)' <=> Ends(u)
    BY <1>1 DEF Ends
  <2>3. ASSUME NEW u \in Thread, Ends(u)
        PROVE  /\ ~obj.live /\ "q" \in DOMAIN call'[u] /\ call'[u].q \in Queues
               /\ \A v \in Thread : Ends(v)' => v = u
               /\ Place(call'[u]) = "wake" => k'.queue[call'[u].q] # <<>>
    <3>1. /\ ~obj.live /\ "q" \in DOMAIN call[u] /\ call[u].q \in Queues
          /\ \A v \in Thread : Ends(v) => v = u
          /\ Place(call[u]) = "wake" => k.queue[call[u].q] # <<>>
          /\ ~Elsewhere(k, t)
      BY <1>1, <2>3 DEF KInv, EndInv, Ticking
    <3>2. ASSUME k'.queue[call[u].q] = <<>>  PROVE k.queue[call[u].q] = <<>>
      <4>1. \A v : ~In(<<>>, v)
        BY DEF In
      <4>2. \A v : v # t => ~In(k.queue[call[u].q], v)
        BY <1>5, <3>1, <3>2, <4>1
      <4>3. ~In(k.queue[call[u].q], t) /\ k.queue[call[u].q] \in Seq(Thread)
        BY <1>2, <3>1, ListedIs
      <4> QED  BY <4>2, <4>3, NoneIn
    <3> QED  BY <1>1, <2>2, <3>1, <3>2
  <2> QED  BY <2>1, <2>2, <2>3 DEF EndInv, Ticking
<1> QED  BY <1>7, <1>8, <1>9, <1>10, <1>11 DEF KInv

(* An object whose waiters' time-outs do not run is detached.              *)
LEMMA WaitsIs ==
  ASSUME NEW t, NEW q
  PROVE  Waits(t, q) <=> In(k.queue[q], t)
BY DEF Waits, In

LEMMA IdlesIs ==
  ASSUME KInv, NEW u \in Thread, Idles(u)
  PROVE  Place(call[u]) \in {"user", "slept"} \/ (Place(call[u]) \in WaitPlaces /\ Elsewhere(k, u))
<1>1. CASE Bound(u, "user") \/ Bound(u, "slept")
  BY <1>1 DEF Bound, Place
<1>2. ASSUME NEW q \in Queues, Waits(u, q)
      PROVE  Place(call[u]) \in WaitPlaces /\ Elsewhere(k, u)
  BY <1>2, WaitsIs, QueuedIs DEF KInv, QueuesInv
<1> QED  BY <1>1, <1>2 DEF Idles

LEMMA DetachKeeps ==
  ASSUME KInv, MailInv, ~DetachTimed, "live" \in DOMAIN obj, NEW t \in Thread, Detach(t)
  PROVE  KInv'
<1> DEFINE c == [pc |-> "test", q |-> "receivers"]
<1>1. /\ Runs(t) /\ call[t].pc = "user" /\ obj.live /\ call' = [call EXCEPT ![t] = c]
      /\ UNCHANGED <<k, due>> /\ obj' = [obj EXCEPT !.live = FALSE]
      /\ \A u \in Thread : Idles(u)
      /\ \A q \in Queues : \A u \in Thread : Waits(u, q) => k.timer[u] = 0
  BY DEF Detach, User, At
<1>2. t = k.cur /\ due = {} /\ k.stat[t] = "ready" /\ ~Elsewhere(k, t) /\ Listed(k)
  BY <1>1, RunsIs
<1>3. \A u \in Thread : call'[u] = IF u = t THEN c ELSE call[u]
  BY <1>1 DEF MailInv, CallsFit
<1>4. c.pc = "test" /\ Place(c) = "test" /\ TimeFits(c) /\ "q" \in DOMAIN c /\ c.q = "receivers"
  BY DEF Place, TimeFits
<1> HIDE DEF c
<1>5. LockFree(k')
  BY <1>1 DEF KInv
<1>6. QueuesInv'
  BY <1>1, <1>2, <1>3 DEF KInv, QueuesInv
<1>7. ClockInv'
  BY <1>1, <1>3, <1>4 DEF KInv, ClockInv, Ticking
<1>8. FirstInv'
  BY <1>1, <1>2, <1>3, <1>4 DEF KInv, FirstInv
<1>9. EndInv'
  <2>1. \A u \in Thread : u # t => call'[u] = call[u] /\ Place(call[u]) \notin {"test", "wake"}
                                   /\ \/ Place(call[u]) \in {"user", "slept"}
                                      \/ Place(call[u]) \in WaitPlaces /\ Elsewhere(k, u)
    BY <1>1, <1>3, IdlesIs DEF WaitPlaces
  <2>2. \A u \in Thread : Elsewhere(k, u) => k.timer[u] = 0
    BY <1>1, <1>2, ListedIs, WaitsIs
  <2>3. \A u \in Thread : Ends(u)' <=> u = t
    BY <1>3, <1>4, <2>1 DEF Ends
  <2>4. ~obj'.live /\ "receivers" \in Queues
    BY <1>1 DEF Queues
  <2>5. \A u \in Thread : /\ Elsewhere(k, u) => ~(k'.timer[u] > 0 \/ u \in due')
                          /\ \/ Place(call'[u]) \in {"user", "slept", "test", "wake"}
                             \/ Place(call'[u]) \in WaitPlaces /\ (Elsewhere(k', u) \/ k'.error[u] # "EOK")
    BY <1>1, <1>2, <1>3, <1>4, <2>1, <2>2
  <2> QED  BY <1>1, <1>3, <1>4, <2>3, <2>4, <2>5 DEF EndInv, Ticking
<1> QED  BY <1>5, <1>6, <1>7, <1>8, <1>9 DEF KInv

(* Nobody was in the middle of a call when the object is used again.       *)
LEMMA AgainKeeps ==
  ASSUME KInv, UNCHANGED kernelVars, \A u \in Thread : Idles(u), obj'.live
  PROVE  KInv'
<1>1. \A u \in Thread : ~Ends(u)
  BY IdlesIs DEF Ends, WaitPlaces
<1>2. \A u \in Thread : ~Ends(u)'
  BY <1>1 DEF Ends, kernelVars
<1>3. EndInv'
  BY <1>2 DEF EndInv
<1>4. LockFree(k') /\ QueuesInv' /\ ClockInv' /\ FirstInv'
  BY DEF KInv, kernelVars, QueuesInv, ClockInv, FirstInv, Ticking
<1> QED  BY <1>3, <1>4 DEF KInv

LEMMA TestKeeps ==
  ASSUME KInv, MailInv, NEW t \in Thread, Test(t)
  PROVE  KInv'
<1>1. Runs(t) /\ call[t].pc = "test" /\ UNCHANGED <<k, due, obj>> /\ DOMAIN call = Thread
      /\ "pc" \in DOMAIN call[t]
  BY DEF Test, At, MailInv, CallsFit, CallFits
<1>2. Ends(t) /\ ~obj.live /\ "q" \in DOMAIN call[t] /\ call[t].q \in Queues /\ Listed(k)
  BY <1>1, RunsIs DEF Ends, Place, KInv, EndInv
<1>3. PICK c : /\ call' = [call EXCEPT ![t] = c]
               /\ \/ /\ c.pc = "wake" /\ "q" \in DOMAIN c /\ c.q = call[t].q
                     /\ k.queue[c.q] # <<>>
                  \/ c.pc = "test" /\ "q" \in DOMAIN c /\ c.q \in Queues
                  \/ c = InUser
  <2>1. CASE ~NoneWaits(call[t].q)
    <3> DEFINE c == [call[t] EXCEPT !.pc = "wake"]
    <3>1. c.pc = "wake" /\ "q" \in DOMAIN c /\ c.q = call[t].q
      BY <1>1, <1>2
    <3>2. call' = [call EXCEPT ![t] = c]
      BY <1>1, <2>1 DEF Test, Goto
    <3>3. k.queue[call[t].q] # <<>>
      BY <2>1 DEF NoneWaits
    <3> QED  BY <3>1, <3>2, <3>3
  <2>2. CASE NoneWaits(call[t].q) /\ call[t].q = "receivers"
    <3> DEFINE c == [call[t] EXCEPT !.q = "senders"]
    <3>1. c.pc = "test" /\ "q" \in DOMAIN c /\ c.q \in Queues
      BY <1>1, <1>2 DEF Queues
    <3>2. call' = [call EXCEPT ![t] = c]
      BY <1>1, <2>2 DEF Test
    <3> QED  BY <3>1, <3>2
  <2>3. CASE NoneWaits(call[t].q) /\ call[t].q # "receivers"
    BY <2>3 DEF Test, Return
  <2> QED  BY <2>1, <2>2, <2>3
<1>4. c.pc # "schedule" /\ Place(c) = c.pc /\ c.pc \in {"wake", "test", "user"}
  BY <1>3 DEF InUser, Place
<1>5. TimeFits(c)
  BY <1>4 DEF TimeFits
<1>6. k \in KState
  BY <1>2, ListedIs
<1>7. WokenIn(k, {})
  BY <1>2, <1>6, WokenNone
<1>8. \A u \in Thread : IF u = t THEN call'[u] = c ELSE SameCall(call'[u], call[u])
  BY <1>1, <1>3, SameCallIs
<1>9. Place(c) \in {"test", "wake"} =>
        /\ "q" \in DOMAIN c /\ c.q \in Queues
        /\ Place(c) = "wake" => k.queue[c.q] # <<>>
  BY <1>2, <1>3, <1>4 DEF InUser
<1>10. Does(t, c, {})
  BY <1>1, <1>2, <1>4, <1>5, <1>7, <1>8, <1>9 DEF Does
<1> QED  BY <1>10, DoesKeeps

LEMMA WakeKeeps ==
  ASSUME KInv, MailInv, NEW t \in Thread, Wake(t)
  PROVE  KInv'
<1> DEFINE q == call[t].q
           h == Head(k.queue[q])
           L == WakeWithError(k, h)
           c == [call[t] EXCEPT !.pc = "test"]
<1>1. Runs(t) /\ call[t].pc = "wake" /\ UNCHANGED <<due, obj>> /\ DOMAIN call = Thread
      /\ "pc" \in DOMAIN call[t] /\ call' = [call EXCEPT ![t] = c]
  BY DEF Wake, At, Goto, MailInv, CallsFit, CallFits
<1>2. /\ Ends(t) /\ ~obj.live /\ "q" \in DOMAIN call[t] /\ q \in Queues /\ Listed(k)
      /\ k.queue[q] # <<>>
  BY <1>1, RunsIs DEF Ends, Place, KInv, EndInv
<1>3. k' = [L EXCEPT !.owed = TRUE]
  BY <1>2 DEF Wake
<1>4. h \in Thread /\ In(k.queue[q], h) /\ Elsewhere(k, h) /\ k.stat[h] = "suspend"
  <2>1. k.queue[q] \in Seq(Thread)
    BY <1>2, ListedIs
  <2>2. h \in Thread /\ In(k.queue[q], h)
    BY <1>2, <2>1, HeadIn
  <2> QED  BY <1>2, <2>2, QueuedIs
<1>5. c.pc = "test" /\ "q" \in DOMAIN c /\ c.q \in Queues
  BY <1>1, <1>2
<1> HIDE DEF c, h, q
<1>6. Woken(L, k, h) /\ L.cur = k.cur /\ L.error = [k.error EXCEPT ![h] = "ERROR"]
  BY <1>2, <1>4, WakeErrorIs
<1>7. L \in KState /\ k.error \in [Thread -> {"EOK", "ETIMEOUT", "ERROR"}]
  BY <1>2, <1>6, ListedIs DEF Woken
<1> HIDE DEF L
<1>8. /\ k' \in KState /\ k'.ready = L.ready /\ k'.group = L.group /\ k'.prio = L.prio
      /\ k'.stat = L.stat /\ k'.queue = L.queue /\ k'.defunct = L.defunct /\ k'.timer = L.timer
      /\ k'.lock = L.lock /\ k'.slice = L.slice /\ k'.cur = L.cur /\ k'.error = L.error
      /\ k'.owed = TRUE
  BY <1>3, <1>7 DEF KState
<1>9. Woken(k', k, h)
  BY <1>6, <1>8, ListedSame DEF Woken
<1>10. WokenIn(k', {h})
  <2>1. \A u \in Thread : u # h => k'.error[u] = k.error[u]
    BY <1>6, <1>7, <1>8
  <2> QED  BY <1>2, <1>4, <1>9, <2>1, PreparedIs, WokenOne
<1>11. \A u \in Thread : IF u = t THEN call'[u] = c ELSE SameCall(call'[u], call[u])
  BY <1>1, SameCallIs
<1>12. Place(c) = "test" /\ TimeFits(c)
  BY <1>5 DEF Place, TimeFits
<1>13. k'.error[h] = "ERROR" /\ \A u \in Thread : u # h => k'.error[u] = k.error[u]
  BY <1>4, <1>6, <1>7, <1>8
<1>14. Does(t, c, {h})
  BY <1>1, <1>2, <1>4, <1>5, <1>6, <1>8, <1>10, <1>11, <1>12, <1>13 DEF Does
<1> QED  BY <1>14, DoesKeeps

(* What each call may do to the kernel, with an object that lives.         *)
Calling(t) ==
  /\ KInv /\ MailInv /\ Runs(t) /\ call[t].pc # "schedule" /\ UNCHANGED due
  /\ obj.live /\ obj'.live

LEMMA CallingIs ==
  ASSUME NEW t \in Thread, Calling(t)
  PROVE  /\ KInv /\ Runs(t) /\ call[t].pc # "schedule" /\ DOMAIN call = Thread
         /\ due' = due /\ obj.live /\ obj'.live /\ Listed(k) /\ t = k.cur
         /\ TimeFits(call[t])
<1>1. DOMAIN call = Thread
  BY DEF Calling, MailInv, CallsFit
<1>3. TimeFits(call[t])
  BY DEF Calling, KInv, ClockInv
<1> QED  BY <1>1, <1>3, RunsIs DEF Calling

(* It goes on, or returns.                                                 *)
LEMMA CallGoesOn ==
  ASSUME NEW t \in Thread, Calling(t), NEW c, call' = [call EXCEPT ![t] = c],
         k' = k \/ \E e \in {"EOK", "ERROR"} : k' = [k EXCEPT !.error[t] = e],
         TimeFits(c), Place(c) \notin {"test", "wake"}
  PROVE  KInv'
<1>1. \A u \in Thread : call'[u] = IF u = t THEN c ELSE call[u]
  BY CallingIs
<1> QED  BY <1>1, CallingIs, GoesOn

LEMMA CallReturns ==
  ASSUME NEW t \in Thread, Calling(t), Return(t), k' = k
  PROVE  KInv'
<1>1. TimeFits(InUser) /\ Place(InUser) = "user"
  BY DEF TimeFits, InUser, Place
<1> QED  BY <1>1, CallGoesOn DEF Return

LEMMA CallStays ==
  ASSUME NEW t \in Thread, Calling(t), UNCHANGED call, Place(call[t]) \notin {"test", "wake"},
         k' = k \/ \E e \in {"EOK", "ERROR"} : k' = [k EXCEPT !.error[t] = e]
  PROVE  KInv'
<1>1. \A u \in Thread : call'[u] = IF u = t THEN call[t] ELSE call[u]
  OBVIOUS
<1> QED  BY <1>1, CallingIs, GoesOn

(* It waits.                                                               *)
LEMMA CallWaits ==
  ASSUME NEW t \in Thread \ {Idle}, Calling(t), NEW c, call' = [call EXCEPT ![t] = c],
         NEW L, Prepared(L), NEW q \in Queues, NEW time \in Int, k' = Wait(L, q, t, time),
         time > 0 => \E n \in TimeOuts : time <= n,
         c.pc = "schedule", Place(c) \in WaitPlaces \ {"slept"}, TimeFits(c)
  PROVE  KInv'
BY CallingIs, WaitsKeep

(* It wakes the first thread of a list, if there is one.                   *)
LEMMA CallWakes ==
  ASSUME NEW t \in Thread, Calling(t), NEW R, Prepared(R), NEW q \in Queues, ~NoneWaits(q),
         k' = rt_ipc_list_resume(R, q), NEW c, call' = [call EXCEPT ![t] = c],
         c.pc = "schedule", TimeFits(c), Place(c) \notin {"test", "wake"}
  PROVE  KInv'
<1> DEFINE h == Head(k.queue[q])
<1>1. h \in Thread /\ Elsewhere(k, h) /\ WokenIn(k', {h}) /\ k'.cur = k.cur
  BY CallingIs, ResumedIs DEF NoneWaits
<1> HIDE DEF h
<1>2. {h} \in SUBSET {u \in Thread : Elsewhere(k, u)}
  BY <1>1
<1> QED  BY <1>1, <1>2, CallingIs, WakesThen

(* It resets the object: all who wait are woken.                           *)
LEMMA CallResets ==
  ASSUME NEW t \in Thread, Calling(t), call' = [call EXCEPT ![t] = ScheduleThen("user")],
         \/ k' = WakeAll(k, "receivers")
         \/ k' = WakeAll(WakeAll(k, "receivers"), "senders")
  PROVE  KInv'
<1> DEFINE c == ScheduleThen("user")
<1>1. c.pc = "schedule" /\ Place(c) = "user" /\ TimeFits(c)
  BY DEF ScheduleThen, Place, TimeFits
<1>2. "receivers" \in Queues
  BY DEF Queues
<1>3. PICK W \in SUBSET {u \in Thread : Elsewhere(k, u)} : WokenIn(k', W) /\ k'.cur = k.cur
  <2>1. CASE k' = WakeAll(k, "receivers")
    <3> DEFINE W == {u \in Thread : In(k.queue["receivers"], u)}
    <3>1. WokenAll(k', k, W) /\ WokenIn(k', W) /\ W \in SUBSET {u \in Thread : Elsewhere(k, u)}
      BY <1>2, <2>1, CallingIs, ResetIs
    <3> HIDE DEF W
    <3> QED  BY <3>1 DEF WokenAll
  <2>2. CASE k' = WakeAll(WakeAll(k, "receivers"), "senders")
    <3> DEFINE W == {u \in Thread : Elsewhere(k, u)}
    <3>1. WokenIn(k', W) /\ k'.cur = k.cur
      BY <2>2, CallingIs, ResetBothIs
    <3> QED  BY <3>1
  <2> QED  BY <2>1, <2>2
<1> HIDE DEF c
<1> QED  BY <1>1, <1>3, CallingIs, WakesThen DEF c

(* A function that interrupt handlers call too wakes one thread, or none.  *)
CalledFor(by) == KInv /\ MailInv /\ CalledBy(by) /\ UNCHANGED due /\ obj.live /\ obj'.live

LEMMA CalledIs ==
  ASSUME NEW by \in Callers, CalledFor(by), by # Handler
  PROVE  by \in Thread /\ Calling(by) /\ Place(call[by]) = "user"
BY DEF Callers, CalledFor, CalledBy, Calling, User, At, Place

LEMMA NoneCalled ==
  ASSUME KInv, UNCHANGED kernelVars, obj'.live = obj.live
  PROVE  KInv'
BY DEF KInv, kernelVars, LockFree, QueuesInv, ClockInv, FirstInv, EndInv, Ends, Ticking

LEMMA HandlerWakes ==
  ASSUME KInv, due = {}, UNCHANGED <<due, call>>, obj.live, obj'.live, NEW q \in Queues,
         ~NoneWaits(q), k' = rt_schedule(rt_ipc_list_resume(k, q))
  PROVE  KInv'
<1> DEFINE h == Head(k.queue[q])
           L == rt_ipc_list_resume(k, q)
<1>1. h \in Thread /\ Elsewhere(k, h) /\ WokenIn(L, {h}) /\ L.cur = k.cur
  BY PreparedIs, ResumedIs DEF NoneWaits, KInv, LockFree
<1>2. {h} \in SUBSET {u \in Thread : Elsewhere(k, u)} /\ k' = rt_schedule(L)
  BY <1>1
<1>3. \A u \in Thread : SameCall(call'[u], call[u])
  BY SameCallIs
<1> HIDE DEF h, L
<1> QED  BY <1>1, <1>2, <1>3, HandlerKeeps

LEMMA CalledWakes ==
  ASSUME NEW by \in Callers, CalledFor(by), NEW q \in Queues, ~NoneWaits(q),
         ThenSchedule(rt_ipc_list_resume(k, q), by)
  PROVE  KInv'
<1>1. CASE by = Handler
  BY <1>1, HandlerWakes DEF CalledFor, CalledBy, ThenSchedule
<1>2. CASE by # Handler
  <2> DEFINE c == ScheduleThen("user")
  <2>1. c.pc = "schedule" /\ Place(c) = "user" /\ TimeFits(c)
    BY DEF ScheduleThen, Place, TimeFits
  <2>2. k' = rt_ipc_list_resume(k, q) /\ call' = [call EXCEPT ![by] = c]
    BY <1>2 DEF ThenSchedule
  <2> HIDE DEF c
  <2> QED  BY <1>2, <2>1, <2>2, CalledIs, CallingIs, PreparedIs, CallWakes
<1> QED  BY <1>1, <1>2

(* A time-out that a call may be given.                                    *)
LEMMA TimeOutIs ==
  ASSUME NEW time \in TimeOuts
  PROVE  time \in Int /\ (time > 0 => \E n \in TimeOuts : time <= n)
BY IPCAssumption

LEMMA SemIs ==
  ASSUME KInv, MailInv, ObjInv, SemNext
  PROVE  KInv'
<1>1. {"kind", "live"} \subseteq DOMAIN obj
  BY DEF ObjInv
<1>2. \A t \in Thread : User(t) => Runs(t) /\ call[t].pc = "user" /\ Place(call[t]) = "user"
  BY DEF User, At, Place
<1>3. ASSUME NEW t \in Thread \ {Idle}, NEW time \in TimeOuts, rt_sem_take(t, time)  PROVE KInv'
  <2>1. User(t) /\ obj.live /\ obj'.live /\ UNCHANGED due
    BY <1>1, <1>3 DEF rt_sem_take, Of, Take
  <2>2. Calling(t)
    BY <1>2, <2>1 DEF Calling
  <2>3. CASE obj.value > 0
    BY <1>2, <1>3, <2>1, <2>2, <2>3, CallStays DEF rt_sem_take
  <2>4. CASE ~(obj.value > 0)
    <3> DEFINE c == ScheduleThen("taken")
    <3>1. k' = Wait(k, "receivers", t, time) /\ call' = [call EXCEPT ![t] = c]
      BY <1>3, <2>4 DEF rt_sem_take
    <3>2. c.pc = "schedule" /\ Place(c) \in WaitPlaces \ {"slept"} /\ TimeFits(c)
      BY DEF ScheduleThen, Place, WaitPlaces, TimeFits
    <3>3. "receivers" \in Queues /\ Prepared(k)
      BY <2>2, CallingIs, PreparedIs DEF Queues
    <3> HIDE DEF c
    <3> QED  BY <2>2, <3>1, <3>2, <3>3, TimeOutIs, CallWaits
  <2> QED  BY <2>3, <2>4
<1>4. ASSUME NEW t \in Thread \ {Idle}, Taken(t)  PROVE KInv'
  <2>1. /\ Runs(t) /\ call[t].pc = "taken" /\ call' = [call EXCEPT ![t] = InUser] /\ UNCHANGED <<k, due>>
        /\ obj'.live = obj.live
    BY <1>1, <1>4 DEF Taken, At, Return
  <2>2. TimeFits(InUser) /\ Place(InUser) = "user"
    BY DEF TimeFits, InUser, Place
  <2>3. \A u \in Thread : call'[u] = IF u = t THEN InUser ELSE call[u]
    BY <2>1 DEF MailInv, CallsFit
  <2> QED  BY <2>1, <2>2, <2>3, GoesOn
<1>5. ASSUME NEW t \in Thread \ {Idle}, SemAgain(t)  PROVE KInv'
  BY <1>5, AgainKeeps DEF SemAgain, rt_sem_init
<1>6. ASSUME NEW t \in Thread \ {Idle}, NEW v, SemReset(t, v)  PROVE KInv'
  <2>1. User(t) /\ obj.live /\ obj'.live /\ UNCHANGED due
    BY <1>1, <1>6 DEF SemReset, Of
  <2>2. Calling(t)
    BY <1>2, <2>1 DEF Calling
  <2> QED  BY <1>6, <2>2, CallResets DEF SemReset
<1>7. ASSUME NEW by \in Callers, rt_sem_release(by)  PROVE KInv'
  <2>1. CalledBy(by) /\ obj.live /\ obj'.live /\ UNCHANGED due
    BY <1>1, <1>7 DEF rt_sem_release, Of
  <2>2. CASE NoneWaits("receivers")
    BY <1>7, <2>1, <2>2, NoneCalled DEF rt_sem_release, kernelVars, ObjInv
  <2>3. CASE ~NoneWaits("receivers")
    <3>1. CalledFor(by) /\ "receivers" \in Queues
      BY <2>1 DEF CalledFor, Queues
    <3> QED  BY <1>7, <2>3, <3>1, CalledWakes DEF rt_sem_release
  <2> QED  BY <2>2, <2>3
<1> QED  BY <1>3, <1>4, <1>5, <1>6, <1>7 DEF SemNext

(* The priority of a thread, and no more, is another.                      *)
LEMMA PriorityIs ==
  ASSUME KInv, NEW t \in Thread, NEW p \in Prio
  PROVE  LET L == ChangePriority(k, t, p)
         IN  Prepared(L) /\ L.owed = k.owed /\ L.prio = [k.prio EXCEPT ![t] = p]
<1> DEFINE L == ChangePriority(k, t, p)
<1>1. /\ Listed(k) /\ Lists(k, Ready(k)) /\ OnceElsewhere(k) /\ k.defunct = <<>>
  BY DEF KInv, LockFree, Listed
<1>2. (k.stat[t] = "ready" <=> t \in Ready(k)) /\ (t \in Ready(k) => ~Elsewhere(k, t))
  BY DEF Ready, KInv, QueuesInv
<1>3. ChangesOnlyPriority(L, k, Ready(k), t, p)
  BY <1>1, <1>2, PriorityChanged
<1> HIDE DEF L
<1>4. Ready(L) = Ready(k)
  BY <1>3 DEF ChangesOnlyPriority, Ready
<1>5. Listed(L)
  BY <1>1, <1>3, <1>4 DEF ChangesOnlyPriority, Listed, SameElsewhere, OnceElsewhere
<1> QED  BY <1>3, <1>5 DEF ChangesOnlyPriority, Prepared, SameElsewhere, L

LEMMA TakeMutexIs ==
  ASSUME KInv, MailInv, ObjInv, NEW t \in Thread \ {Idle}, NEW time \in TimeOuts, rt_mutex_take(t, time)
  PROVE  KInv'
<1>1. /\ User(t) /\ obj.live /\ UNCHANGED due /\ obj.kind = "mutex" /\ {"kind", "live"} \subseteq DOMAIN obj
      /\ Place(call[t]) = "user" /\ Runs(t) /\ call[t].pc = "user"
  BY DEF rt_mutex_take, Of, ObjInv, User, At, Place
<1>2. obj'.live
  BY <1>1 DEF rt_mutex_take, OwnedBy
<1>3. Calling(t)
  BY <1>1, <1>2 DEF Calling
<1>4. CASE k' = [k EXCEPT !.error[t] = "EOK"] /\ UNCHANGED call
  BY <1>1, <1>3, <1>4, CallStays
<1>5. CASE /\ obj.owner # t /\ obj.value = 0 /\ time # 0 /\ k.lock = 0
           /\ k' = Wait(Inherit(k, t), "receivers", t, time)
           /\ call' = [call EXCEPT ![t] = ScheduleThen("locked")]
           /\ UNCHANGED obj
  <2> DEFINE c == ScheduleThen("locked")
             L == Inherit(k, t)
  <2>1. obj.owner \in Thread
    BY <1>1, <1>5 DEF ObjInv
  <2>2. k.prio[t] \in Prio /\ Prepared(k)
    BY <1>3, CallingIs, ListedIs, PreparedIs
  <2>3. Prepared(L)
    BY <1>3, <2>1, <2>2, CallingIs, PriorityIs DEF Inherit
  <2>4. c.pc = "schedule" /\ Place(c) \in WaitPlaces \ {"slept"} /\ TimeFits(c)
    BY DEF ScheduleThen, Place, WaitPlaces, TimeFits
  <2>5. "receivers" \in Queues
    BY DEF Queues
  <2>6. k' = Wait(L, "receivers", t, time) /\ call' = [call EXCEPT ![t] = c]
    BY <1>5
  <2> HIDE DEF c, L
  <2> QED  BY <1>3, <2>3, <2>4, <2>5, <2>6, TimeOutIs, CallWaits
<1> QED  BY <1>4, <1>5 DEF rt_mutex_take

(* The priority that an owner gives back with the mutex.                   *)
LEMMA RestoredIs ==
  ASSUME KInv, ObjInv, NEW t \in Thread, obj.kind = "mutex", obj.owner = t
  PROVE  LET R == Restored(k, t)
         IN  Prepared(R) /\ R.owed = k.owed /\ (R = k \/ R.prio # k.prio)
<1> DEFINE R == Restored(k, t)
<1>1. Listed(k) /\ Prepared(k) /\ obj.original_priority \in Prio /\ k.prio \in [Thread -> Prio]
  <2>1. t # None
    BY MutexAssumption DEF None
  <2> QED  BY <2>1, ListedIs, PreparedIs DEF ObjInv, KInv, LockFree
<1>2. CASE obj.original_priority = k.prio[t]
  BY <1>1, <1>2 DEF Restored
<1>3. CASE obj.original_priority # k.prio[t]
  <2>1. R = ChangePriority(k, t, obj.original_priority)
    BY <1>3 DEF Restored
  <2> HIDE DEF R
  <2>2. /\ Prepared(R) /\ R.owed = k.owed
        /\ R.prio = [k.prio EXCEPT ![t] = obj.original_priority]
    BY <1>1, <2>1, PriorityIs
  <2>3. R.prio[t] # k.prio[t]
    BY <1>1, <1>3, <2>2
  <2> QED  BY <2>2, <2>3 DEF R
<1> QED  BY <1>2, <1>3

LEMMA ReleaseMutexIs ==
  ASSUME KInv, MailInv, ObjInv, NEW t \in Thread \ {Idle}, Release(t)
  PROVE  KInv'
<1> DEFINE R == Restored(k, t)
<1>1. /\ User(t) /\ obj.live /\ UNCHANGED due /\ obj.kind = "mutex" /\ {"kind", "live"} \subseteq DOMAIN obj
      /\ Place(call[t]) = "user" /\ Runs(t) /\ call[t].pc = "user" /\ obj.owner = t
  BY DEF Release, Of, ObjInv, User, At, Place
<1>2. obj'.live
  BY <1>1 DEF Release, HandOver, OwnedBy
<1>3. Calling(t)
  BY <1>1, <1>2 DEF Calling
<1>4. Listed(k) /\ k \in KState
  BY <1>3, CallingIs, ListedIs
<1>5. Prepared(R) /\ R.owed = k.owed /\ (R = k \/ R.prio # k.prio)
  BY <1>1, RestoredIs
<1>6. CASE NoneWaits("receivers")
  <2>1. k' = [R EXCEPT !.owed = @ \/ R.prio # k.prio] /\ UNCHANGED call
    BY <1>6 DEF Release
  <2> HIDE DEF R
  <2>2. R \in KState /\ Listed(R)
    BY <1>5, ListedIs DEF Prepared
  <2>3. /\ k' \in KState /\ k'.ready = R.ready /\ k'.group = R.group /\ k'.prio = R.prio
        /\ k'.stat = R.stat /\ k'.queue = R.queue /\ k'.defunct = R.defunct /\ k'.timer = R.timer
        /\ k'.lock = R.lock /\ k'.slice = R.slice /\ k'.cur = R.cur /\ k'.error = R.error
        /\ (k'.owed <=> R.owed \/ R.prio # k.prio)
    BY <2>1, <2>2 DEF KState
  <2>4. Listed(k') /\ HighestReady(k') = HighestReady(R)
    BY <2>2, <2>3, ListedSame
  <2>5. Prepared(k')
    BY <1>5, <2>3, <2>4 DEF Prepared
  <2>6. WokenIn(k', {}) /\ k'.cur = k.cur
    BY <1>4, <2>5, PreparedIs DEF Prepared
  <2>7. k'.owed \/ (HighestReady(k') = HighestReady(k) /\ k'.owed = k.owed)
    <3>1. CASE R.prio # k.prio
      BY <2>3, <3>1
    <3>2. CASE R = k
      <4>1. k'.owed \in BOOLEAN /\ k.owed \in BOOLEAN
        BY <1>4, <2>3 DEF KState
      <4> QED  BY <2>3, <2>4, <3>2, <4>1
    <3> QED  BY <1>5, <3>1, <3>2
  <2>8. TimeFits(call[t])
    BY <1>3, CallingIs
  <2>9. \A u \in Thread : IF u = t THEN call'[u] = call[t] ELSE SameCall(call'[u], call[u])
    BY <2>1, SameCallIs
  <2>10. Does(t, call[t], {})
    BY <1>1, <1>2, <1>3, <2>6, <2>7, <2>8, <2>9 DEF Does, Calling
  <2> QED  BY <2>10, DoesKeeps
<1>7. CASE ~NoneWaits("receivers")
  <2> DEFINE c == ScheduleThen("user")
  <2>1. c.pc = "schedule" /\ Place(c) = "user" /\ TimeFits(c)
    BY DEF ScheduleThen, Place, TimeFits
  <2>2. k' = rt_ipc_list_resume(R, "receivers") /\ call' = [call EXCEPT ![t] = c]
    BY <1>7, IPCAssumption DEF Release, ThenSchedule
  <2>3. "receivers" \in Queues
    BY DEF Queues
  <2> HIDE DEF c, R
  <2> QED  BY <1>3, <1>5, <1>7, <2>1, <2>2, <2>3, CallWakes
<1> QED  BY <1>6, <1>7

LEMMA MutexIs ==
  ASSUME KInv, MailInv, ObjInv, MutexNext
  PROVE  KInv'
<1>1. {"kind", "live"} \subseteq DOMAIN obj
  BY DEF ObjInv
<1>2. \A t \in Thread : User(t) => Runs(t) /\ call[t].pc = "user" /\ Place(call[t]) = "user"
  BY DEF User, At, Place
<1>3. ASSUME NEW t \in Thread \ {Idle}, Locked(t)  PROVE KInv'
  <2>1. /\ Runs(t) /\ call[t].pc = "locked" /\ call' = [call EXCEPT ![t] = InUser] /\ UNCHANGED <<k, due>>
        /\ obj'.live = obj.live
    BY <1>1, <1>3 DEF Locked, At, Return
  <2>2. TimeFits(InUser) /\ Place(InUser) = "user"
    BY DEF TimeFits, InUser, Place
  <2>3. \A u \in Thread : call'[u] = IF u = t THEN InUser ELSE call[u]
    BY <2>1 DEF MailInv, CallsFit
  <2> QED  BY <2>1, <2>2, <2>3, GoesOn
<1>4. ASSUME NEW t \in Thread \ {Idle}, ReleaseInner(t)  PROVE KInv'
  BY <1>1, <1>4, NoneCalled DEF ReleaseInner
<1>5. ASSUME NEW t \in Thread \ {Idle}, ReleaseRefused(t)  PROVE KInv'
  <2>1. Calling(t) /\ Place(call[t]) = "user"
    BY <1>2, <1>5 DEF ReleaseRefused, Calling, Of
  <2> QED  BY <1>5, <2>1, CallStays DEF ReleaseRefused
<1>6. ASSUME NEW t \in Thread \ {Idle}, MutexAgain(t)  PROVE KInv'
  BY <1>6, AgainKeeps DEF MutexAgain, rt_mutex_init
<1> QED  BY <1>3, <1>4, <1>5, <1>6, TakeMutexIs, ReleaseMutexIs DEF MutexNext

(* What an event's send has done when it has looked at all who wait: it    *)
(* woke some of them.                                                      *)
LEMMA OfferAllIs ==
  ASSUME KInv, NEW flags
  PROVE  LET s == OfferAll(flags)
         IN  \E W \in SUBSET {u \in Thread : Elsewhere(k, u)} :
               /\ WokenIn(s.k, W) /\ s.k.cur = k.cur /\ s.k.owed = k.owed
               /\ s.woken \in BOOLEAN /\ (~s.woken => s.k = k)
<1> DEFINE s0 == Unoffered(flags)
           l == k.queue["receivers"]
           n == Len(l)
           Turns(f, m) == f = [i \in 0..m |-> IF i = 0 THEN s0 ELSE Offer(f[i - 1], l[i])]
<1>1. l \in Seq(Thread) /\ Once(l) /\ n \in Nat
  BY ListedIs DEF KInv, LockFree, Queues
<1>2. \E f : Turns(f, n)
  <2> DEFINE A == {m \in 0..n : \E f : Turns(f, m)}
  <2>1. 0 \in A
    <3> DEFINE g == [i \in 0..0 |-> s0]
               h == [i \in 0..0 |-> IF i = 0 THEN s0 ELSE Offer(g[i - 1], l[i])]
    <3>1. \A i \in 0..0 : s0 = IF i = 0 THEN s0 ELSE Offer(g[i - 1], l[i])
      OBVIOUS
    <3>2. g = h
      BY <3>1
    <3>3. Turns(g, 0)
      BY <3>2
    <3> HIDE DEF g, Turns
    <3> QED  BY <1>1, <3>3
  <2>2. ASSUME NEW m \in 0..n, m < n, m \in A  PROVE m + 1 \in A
    <3>1. PICK f : Turns(f, m)
      BY <2>2
    <3> DEFINE g == [i \in 0..m + 1 |-> IF i <= m THEN f[i] ELSE Offer(f[m], l[i])]
    <3>2. ASSUME NEW i \in 0..m + 1
          PROVE  g[i] = IF i = 0 THEN s0 ELSE Offer(g[i - 1], l[i])
      <4>1. CASE i = 0
        BY <3>1, <4>1
      <4>2. CASE i # 0 /\ i <= m
        <5>1. g[i] = f[i] /\ i - 1 \in 0..m + 1 /\ i - 1 <= m /\ i \in 0..m
          BY <4>2
        <5>2. g[i - 1] = f[i - 1] /\ f[i] = Offer(f[i - 1], l[i])
          BY <3>1, <4>2, <5>1
        <5> QED  BY <4>2, <5>1, <5>2
      <4>3. CASE i = m + 1
        <5>1. g[i] = Offer(f[m], l[i]) /\ i - 1 = m /\ g[m] = f[m] /\ i # 0
          BY <4>3
        <5> QED  BY <5>1
      <4> QED  BY <4>1, <4>2, <4>3
    <3>3. Turns(g, m + 1)
      <4> DEFINE h == [i \in 0..m + 1 |-> IF i = 0 THEN s0 ELSE Offer(g[i - 1], l[i])]
      <4>1. \A i \in 0..m + 1 : g[i] = h[i]
        BY <3>2
      <4>2. DOMAIN g = 0..m + 1 /\ g = [i \in 0..m + 1 |-> g[i]]
        OBVIOUS
      <4> HIDE DEF g
      <4>3. h = [i \in 0..m + 1 |-> h[i]]
        OBVIOUS
      <4> HIDE DEF h
      <4>4. g = h
        BY <4>1, <4>2, <4>3
      <4> QED  BY <4>4 DEF h
    <3> HIDE DEF g, Turns
    <3>4. m + 1 \in 0..n
      BY <1>1, <2>2
    <3> QED  BY <3>3, <3>4
  <2> HIDE DEF A, Turns
  <2>3. \A m \in 0..n : m \in A
    BY <1>1, <2>1, <2>2, Counting
  <2> QED  BY <1>1, <2>3 DEF A
<1> DEFINE F == CHOOSE f : Turns(f, n)
<1>3. Turns(F, n)
  <2> HIDE DEF Turns
  <2> QED  BY <1>2
<1>4. OfferAll(flags) = F[n]
  BY DEF OfferAll
<1> HIDE DEF F
<1>5. F[0] = s0 /\ \A m \in 0..n : m < n => F[m + 1] = Offer(F[m], l[m + 1])
  <2>1. F[0] = s0
    BY <1>1, <1>3
  <2>2. ASSUME NEW m \in 0..n, m < n  PROVE F[m + 1] = Offer(F[m], l[m + 1])
    <3>1. m + 1 \in 0..n /\ m + 1 # 0 /\ m + 1 - 1 = m
      BY <1>1, <2>2
    <3> QED  BY <1>3, <3>1
  <2> QED  BY <2>1, <2>2
<1> HIDE DEF Turns
<1>6. Listed(k)
  BY DEF KInv, LockFree
<1>7. s0.k = k /\ s0.woken = FALSE
  BY DEF Unoffered
<1> HIDE DEF s0
<1> DEFINE Some(s, W) == /\ WokenAll(s.k, k, W) /\ s.k.error = k.error
                         /\ s.woken \in BOOLEAN /\ (~s.woken => s.k = k)
           After(m) == \E W \in SUBSET First(l, m) : Some(F[m], W)
           A == {m \in 0..n : After(m)}
<1>8. 0 \in A
  <2>1. WokenAll(F[0].k, k, {})
    BY <1>5, <1>6, <1>7, NoneWoken
  <2>2. Some(F[0], {})
    BY <1>5, <1>7, <2>1
  <2> HIDE DEF Some
  <2> QED  BY <1>1, <2>2
<1>9. ASSUME NEW m \in 0..n, m < n, m \in A  PROVE m + 1 \in A
  <2> DEFINE t == l[m + 1]
  <2>1. After(m) /\ m + 1 \in 0..n
    BY <1>1, <1>9
  <2>2. PICK W \in SUBSET First(l, m) : Some(F[m], W)
    BY <2>1
  <2>3. /\ t \in Thread /\ t \notin W /\ W \in SUBSET Thread /\ In(l, t)
        /\ W \cup {t} \in SUBSET First(l, m + 1) /\ W \in SUBSET First(l, m + 1)
    <3>1. /\ m + 1 \in 1..Len(l) /\ l[m + 1] \in Thread /\ First(l, m) \subseteq Thread
          /\ First(l, m + 1) = First(l, m) \cup {l[m + 1]} /\ l[m + 1] \notin First(l, m)
      BY <1>1, <1>9, FirstIs
    <3> QED  BY <3>1 DEF In
  <2>4. F[m + 1] = Offer(F[m], t)
    BY <1>5, <1>9
  <2>5. CASE ~Satisfied(call[t].ask, F[m].set)
    <3>1. F[m + 1] = F[m]
      BY <2>4, <2>5 DEF Offer
    <3>2. Some(F[m + 1], W)
      BY <2>2, <3>1
    <3> HIDE DEF Some
    <3> QED  BY <2>1, <2>3, <3>2
  <2>6. CASE Satisfied(call[t].ask, F[m].set)
    <3>1. F[m + 1].k = rt_thread_resume(F[m].k, t) /\ F[m + 1].woken = TRUE
      BY <2>4, <2>6 DEF Offer
    <3>2. k.stat[t] = "suspend"
      BY <2>3, QueuedIs DEF Queues
    <3>3. Listed(F[m].k) /\ F[m].k.stat[t] = "suspend" /\ WokenAll(F[m].k, k, W) /\ F[m].k.error = k.error
      BY <2>2, <2>3, <3>2 DEF WokenAll
    <3> HIDE DEF t
    <3>4. /\ Woken(F[m + 1].k, F[m].k, t) /\ F[m + 1].k.error = F[m].k.error
          /\ F[m + 1].k.cur = F[m].k.cur /\ F[m + 1].k.owed = F[m].k.owed
      BY <2>3, <3>1, <3>3, ResumeIs
    <3>5. WokenAll(F[m + 1].k, k, W \cup {t})
      BY <1>6, <2>3, <3>3, <3>4, OneMoreWoken
    <3>6. Some(F[m + 1], W \cup {t})
      BY <3>1, <3>3, <3>4, <3>5
    <3> HIDE DEF Some
    <3> QED  BY <2>1, <2>3, <3>6
  <2> QED  BY <2>5, <2>6
<1> HIDE DEF After
<1>10. n \in A
  <2> HIDE DEF A
  <2>1. \A m \in 0..n : m \in A
    BY <1>1, <1>8, <1>9, Counting
  <2> QED  BY <1>1, <2>1
<1>11. PICK W \in SUBSET First(l, n) : Some(F[n], W)
  BY <1>10 DEF After
<1>12. W \in SUBSET {u \in Thread : Elsewhere(k, u)}
  <2>1. First(l, n) \subseteq Thread /\ \A u : u \in First(l, n) <=> In(l, u)
    BY <1>1, FirstIs
  <2>2. \A u \in First(l, n) : u \in Thread /\ Elsewhere(k, u)
    BY <2>1, QueuedIs, SMTT(30) DEF Queues
  <2> QED  BY <2>2
<1>13. /\ WokenIn(F[n].k, W) /\ F[n].k.cur = k.cur /\ F[n].k.owed = k.owed
  BY <1>11 DEF WokenIn, WokenAll
<1> QED  BY <1>4, <1>11, <1>12, <1>13

(* A send tells waiting threads what they got, and leaves them where they  *)
(* are in their calls.                                                     *)
LEMMA ToldSame ==
  ASSUME NEW c, NEW g, NEW kind, CallFits(c, kind)
  PROVE  SameCall([c EXCEPT !.got = g], c)
<1> DEFINE d == [c EXCEPT !.got = g]
<1>1. DOMAIN d = DOMAIN c /\ \A x \in DOMAIN c : x # "got" => d[x] = c[x]
  OBVIOUS
<1> HIDE DEF d
<1>2. d.pc = c.pc /\ (c.pc = "schedule" => d.then = c.then)
  BY <1>1 DEF CallFits
<1>3. Place(d) = Place(c)
  BY <1>2 DEF Place
<1>4. TimeFits(c) => TimeFits(d)
  <2> SUFFICES ASSUME Place(c) \in {"send", "receive", "get"}, TimeFits(c)
               PROVE  /\ {"time", "elapsed"} \subseteq DOMAIN d /\ d.time \in Int /\ d.elapsed \in Nat
                      /\ d.time > 0 => d.elapsed <= d.time /\ \E n \in TimeOuts : d.time <= n
    BY <1>3 DEF TimeFits
  <2>1. d.time = c.time /\ d.elapsed = c.elapsed /\ {"time", "elapsed"} \subseteq DOMAIN d
    BY <1>1 DEF TimeFits
  <2> QED  BY <2>1 DEF TimeFits
<1>5. "q" \in DOMAIN c => "q" \in DOMAIN d /\ d.q = c.q
  BY <1>1
<1>6. SameCall(d, c)
  BY <1>2, <1>3, <1>4, <1>5 DEF SameCall
<1> QED  BY <1>6 DEF d

LEMMA SendEventIs ==
  ASSUME KInv, MailInv, ObjInv, NEW by \in Callers, NEW flags, rt_event_send(by, flags)
  PROVE  KInv'
<1> DEFINE s == OfferAll(flags)
           calls == [t \in Thread |-> IF s.got[t] = {} THEN call[t] ELSE [call[t] EXCEPT !.got = s.got[t]]]
<1>1. PICK W \in SUBSET {u \in Thread : Elsewhere(k, u)} :
        /\ WokenIn(s.k, W) /\ s.k.cur = k.cur /\ s.k.owed = k.owed
        /\ s.woken \in BOOLEAN /\ (~s.woken => s.k = k)
  BY OfferAllIs
<1>2. CalledFor(by) /\ UNCHANGED due /\ obj.live /\ obj'.live /\ CalledBy(by)
  BY DEF rt_event_send, Of, CalledFor, ObjInv
<1>3. IF by = Handler
      THEN k' = (IF s.woken THEN rt_schedule(s.k) ELSE s.k) /\ call' = calls
      ELSE k' = s.k /\ call' = IF s.woken THEN [calls EXCEPT ![by] = ScheduleThen("user")] ELSE calls
  BY DEF rt_event_send
<1> HIDE DEF s
<1>4. \A u \in Thread : SameCall(calls[u], call[u])
  BY SameCallIs, ToldSame DEF MailInv, CallsFit
<1>5. DOMAIN calls = Thread
  OBVIOUS
<1> HIDE DEF calls
<1>6. CASE by = Handler
  <2>1. due = {} /\ call' = calls
    BY <1>2, <1>3, <1>6 DEF CalledBy
  <2>2. k' = rt_schedule(s.k) \/ (k' = s.k /\ HighestReady(s.k) = HighestReady(k) /\ s.k.owed = k.owed)
    BY <1>1, <1>3, <1>6
  <2> QED  BY <1>1, <1>2, <1>4, <2>1, <2>2, HandlerKeeps
<1>7. CASE by # Handler
  <2>1. by \in Thread /\ Calling(by) /\ Place(call[by]) = "user"
    BY <1>2, <1>7, CalledIs
  <2>2. k' = s.k
    BY <1>3, <1>7
  <2>3. \A u \in Thread : u # by => SameCall(call'[u], call[u])
    BY <1>3, <1>4, <1>5, <1>7
  <2>4. /\ call'[by].pc = "schedule" \/ (HighestReady(k') = HighestReady(k) /\ k'.owed = k.owed)
        /\ TimeFits(call'[by]) /\ Place(call'[by]) = "user"
    <3>1. CASE s.woken
      <4>1. call'[by] = ScheduleThen("user")
        BY <1>3, <1>5, <1>7, <2>1, <3>1
      <4> QED  BY <4>1 DEF ScheduleThen, Place, TimeFits
    <3>2. CASE ~s.woken
      <4>1. SameCall(call'[by], call[by]) /\ k' = k
        BY <1>1, <1>3, <1>4, <1>7, <2>1, <2>2, <3>2
      <4> QED  BY <2>1, <4>1, CallingIs DEF SameCall
    <3> QED  BY <3>1, <3>2
  <2>5. Does(by, call'[by], W)
    BY <1>1, <1>2, <2>1, <2>2, <2>3, <2>4 DEF Does, Calling
  <2> QED  BY <1>2, <2>1, <2>5, DoesKeeps
<1> QED  BY <1>6, <1>7

LEMMA EventIs ==
  ASSUME KInv, MailInv, ObjInv, EventNext
  PROVE  KInv'
<1>1. {"kind", "live"} \subseteq DOMAIN obj
  BY DEF ObjInv
<1>2. \A t \in Thread : User(t) => Runs(t) /\ call[t].pc = "user" /\ Place(call[t]) = "user"
  BY DEF User, At, Place
<1>3. ASSUME NEW t \in Thread \ {Idle}, NEW a, NEW time \in TimeOuts, rt_event_recv(t, a, time)  PROVE KInv'
  <2>1. User(t) /\ obj.live /\ obj'.live /\ UNCHANGED due
    BY <1>1, <1>3 DEF rt_event_recv, Of
  <2>2. Calling(t)
    BY <1>2, <2>1 DEF Calling
  <2>3. CASE Satisfied(a, obj.set)
    BY <1>2, <1>3, <2>1, <2>2, <2>3, CallStays DEF rt_event_recv
  <2>4. CASE ~Satisfied(a, obj.set)
    <3> DEFINE c == [pc |-> "schedule", then |-> "received", ask |-> a, got |-> {}]
    <3>1. k' = Wait(k, "receivers", t, time) /\ call' = [call EXCEPT ![t] = c]
      BY <1>3, <2>4 DEF rt_event_recv
    <3>2. c.pc = "schedule" /\ Place(c) \in WaitPlaces \ {"slept"} /\ TimeFits(c)
      BY DEF Place, WaitPlaces, TimeFits
    <3>3. "receivers" \in Queues /\ Prepared(k)
      BY <2>2, CallingIs, PreparedIs DEF Queues
    <3> HIDE DEF c
    <3> QED  BY <2>2, <3>1, <3>2, <3>3, TimeOutIs, CallWaits
  <2> QED  BY <2>3, <2>4
<1>4. ASSUME NEW t \in Thread \ {Idle}, EventReceived(t)  PROVE KInv'
  <2>1. /\ Runs(t) /\ call[t].pc = "received" /\ call' = [call EXCEPT ![t] = InUser] /\ UNCHANGED <<k, due>>
        /\ obj'.live = obj.live
    BY <1>4 DEF EventReceived, At, Return
  <2>2. TimeFits(InUser) /\ Place(InUser) = "user"
    BY DEF TimeFits, InUser, Place
  <2>3. \A u \in Thread : call'[u] = IF u = t THEN InUser ELSE call[u]
    BY <2>1 DEF MailInv, CallsFit
  <2> QED  BY <2>1, <2>2, <2>3, GoesOn
<1>5. ASSUME NEW t \in Thread \ {Idle}, EventReset(t)  PROVE KInv'
  <2>1. User(t) /\ obj.live /\ obj'.live /\ UNCHANGED due
    BY <1>1, <1>5 DEF EventReset, Of
  <2>2. Calling(t)
    BY <1>2, <2>1 DEF Calling
  <2> QED  BY <1>5, <2>2, CallResets DEF EventReset
<1>6. ASSUME NEW t \in Thread \ {Idle}, EventAgain(t)  PROVE KInv'
  BY <1>6, AgainKeeps DEF EventAgain, rt_event_init
<1> QED  BY <1>3, <1>4, <1>5, <1>6, SendEventIs DEF EventNext

(* The time-out of a call that loops, and what is left of it.              *)
Bounded(time) == time \in Int /\ (time > 0 => \E n \in TimeOuts : time <= n)

LEMMA WaitingFits ==
  ASSUME NEW p \in {"send", "receive", "get"}, NEW v, NEW time, Bounded(time)
  PROVE  LET c == Waiting(p, v, time)
         IN  c.pc = "schedule" /\ Place(c) \in WaitPlaces \ {"slept"} /\ TimeFits(c)
BY DEF Waiting, Place, WaitPlaces, TimeFits, Bounded

LEMMA LeftFits ==
  ASSUME NEW c, TimeFits(c), Place(c) \in {"send", "receive", "get"}
  PROVE  Bounded(Left(c))
<1>1. /\ c.time \in Int /\ c.elapsed \in Nat
      /\ c.time > 0 => c.elapsed <= c.time /\ \E n \in TimeOuts : c.time <= n
  BY DEF TimeFits
<1>2. CASE c.time > 0
  <2>1. PICK n \in TimeOuts : c.time <= n
    BY <1>1, <1>2
  <2>2. n \in Int /\ c.time - c.elapsed <= n
    BY <1>1, <2>1, IPCAssumption
  <2> QED  BY <1>1, <1>2, <2>1, <2>2 DEF Bounded, Left
<1>3. CASE ~(c.time > 0)
  BY <1>1, <1>3 DEF Bounded, Left
<1> QED  BY <1>2, <1>3

(* A thread wakes the first that waits, and returns if there is none.      *)
LEMMA CallWakesOne ==
  ASSUME NEW t \in Thread, Calling(t), NEW q \in Queues, k' = WakeOne(k, q), NEW c,
         call' = [call EXCEPT ![t] = c], ~NoneWaits(q) => c.pc = "schedule", TimeFits(c),
         Place(c) \notin {"test", "wake"}
  PROVE  KInv'
<1>1. CASE NoneWaits(q)
  <2>1. k' = k
    BY <1>1 DEF NoneWaits, WakeOne
  <2> QED  BY <2>1, CallGoesOn
<1>2. CASE ~NoneWaits(q)
  <2>1. k' = rt_ipc_list_resume(k, q)
    BY <1>2 DEF NoneWaits, WakeOne
  <2> QED  BY <1>2, <2>1, CallingIs, PreparedIs, CallWakes
<1> QED  BY <1>1, <1>2

LEMMA SendLoopIs ==
  ASSUME NEW t \in Thread \ {Idle}, Calling(t), NEW v, NEW time, Bounded(time), SendLoop(t, v, time)
  PROVE  KInv'
<1>1. CASE obj.entry < MailSize
  <2> DEFINE c == IF NoneWaits("receivers") THEN InUser ELSE ScheduleThen("user")
  <2>1. k' = WakeOne(k, "receivers") /\ call' = [call EXCEPT ![t] = c] /\ "receivers" \in Queues
    BY <1>1 DEF SendLoop, Queues
  <2>2. (~NoneWaits("receivers") => c.pc = "schedule") /\ Place(c) = "user" /\ TimeFits(c)
    BY DEF ScheduleThen, InUser, Place, TimeFits
  <2> HIDE DEF c
  <2> QED  BY <2>1, <2>2, CallWakesOne
<1>2. CASE ~(obj.entry < MailSize) /\ time = 0
  BY <1>2, CallReturns DEF SendLoop
<1>3. CASE ~(obj.entry < MailSize) /\ time # 0
  <2> DEFINE c == Waiting("send", v, time)
  <2>1. k' = Wait(k, "senders", t, time) /\ call' = [call EXCEPT ![t] = c]
    BY <1>3 DEF SendLoop
  <2>2. c.pc = "schedule" /\ Place(c) \in WaitPlaces \ {"slept"} /\ TimeFits(c)
    BY WaitingFits
  <2>3. "senders" \in Queues /\ Prepared(k)
    BY CallingIs, PreparedIs DEF Queues
  <2> HIDE DEF c
  <2> QED  BY <2>1, <2>2, <2>3, CallWaits DEF Bounded
<1> QED  BY <1>1, <1>2, <1>3

LEMMA ReceiveLoopIs ==
  ASSUME NEW t \in Thread \ {Idle}, Calling(t), NEW time, Bounded(time), ReceiveLoop(t, time)
  PROVE  KInv'
<1>1. CASE obj.entry > 0
  <2> DEFINE c == [pc |-> IF NoneWaits("senders") THEN "mail" ELSE "schedule", then |-> "mail",
                   value |-> obj.msg_pool[obj.out_offset]]
  <2>1. k' = WakeOne(k, "senders") /\ call' = [call EXCEPT ![t] = c] /\ "senders" \in Queues
    BY <1>1 DEF ReceiveLoop, Queues
  <2>2. (~NoneWaits("senders") => c.pc = "schedule") /\ Place(c) = "mail" /\ TimeFits(c)
    BY DEF Place, TimeFits
  <2> HIDE DEF c
  <2> QED  BY <2>1, <2>2, CallWakesOne
<1>2. CASE ~(obj.entry > 0) /\ time = 0
  BY <1>2, CallReturns DEF ReceiveLoop
<1>3. CASE ~(obj.entry > 0) /\ time # 0
  <2> DEFINE c == Waiting("receive", NoValue, time)
  <2>1. k' = Wait(k, "receivers", t, time) /\ call' = [call EXCEPT ![t] = c]
    BY <1>3 DEF ReceiveLoop
  <2>2. c.pc = "schedule" /\ Place(c) \in WaitPlaces \ {"slept"} /\ TimeFits(c)
    BY WaitingFits
  <2>3. "receivers" \in Queues /\ Prepared(k)
    BY CallingIs, PreparedIs DEF Queues
  <2> HIDE DEF c
  <2> QED  BY <2>1, <2>2, <2>3, CallWaits DEF Bounded
<1> QED  BY <1>1, <1>2, <1>3

(* A thread at some place of its call has an object that lives, unless an  *)
(* error tells it otherwise.                                               *)
LEMMA CallingAt ==
  ASSUME KInv, MailInv, NEW t \in Thread, NEW pc, At(t, pc), pc \notin {"user", "slept", "test", "wake", "schedule"},
         pc \in WaitPlaces => k.error[t] = "EOK", UNCHANGED due, obj'.live = obj.live
  PROVE  Calling(t) /\ Place(call[t]) = pc
<1>1. Runs(t) /\ call[t].pc = pc /\ Place(call[t]) = pc
  BY DEF At, Place
<1>2. CASE ~obj.live
  BY <1>1, <1>2, LiveIs
<1>3. CASE obj.live
  BY <1>1, <1>3 DEF Calling
<1> QED  BY <1>2, <1>3

LEMMA GivesUp ==
  ASSUME KInv, MailInv, NEW t \in Thread, NEW pc, At(t, pc), pc \notin {"schedule"}, Return(t),
         UNCHANGED <<k, due, obj>>
  PROVE  KInv'
<1>1. TimeFits(InUser) /\ Place(InUser) = "user"
  BY DEF TimeFits, InUser, Place
<1>2. \A u \in Thread : call'[u] = IF u = t THEN InUser ELSE call[u]
  BY DEF MailInv, CallsFit, Return
<1> QED  BY <1>1, <1>2, GoesOn DEF At

(* A mailbox lives on when it is filled, emptied or reset.                 *)
LEMMA LivesOn ==
  ASSUME "live" \in DOMAIN obj, obj.live
  PROVE  /\ \A v : PutMail(obj, v).live
         /\ TakeMail(obj).live
         /\ [obj EXCEPT !.entry = 0, !.in_offset = 0, !.out_offset = 0].live
BY DEF PutMail, TakeMail

(* A sender or receiver goes on only while the object lives.               *)
LEMMA LoopLives ==
  ASSUME ObjInv, obj.live, NEW t, NEW time,
         (\E v : SendLoop(t, v, time)) \/ ReceiveLoop(t, time)
  PROVE  obj'.live /\ UNCHANGED due
<1>1. "live" \in DOMAIN obj
  BY DEF ObjInv
<1>2. ASSUME NEW v, SendLoop(t, v, time)  PROVE obj'.live /\ UNCHANGED due
  <2>1. obj' = PutMail(obj, v) \/ obj' = obj
    BY <1>2 DEF SendLoop
  <2> QED  BY <1>1, <1>2, <2>1, LivesOn DEF SendLoop
<1>3. ASSUME ReceiveLoop(t, time)  PROVE obj'.live /\ UNCHANGED due
  <2>1. obj' = TakeMail(obj) \/ obj' = obj
    BY <1>3 DEF ReceiveLoop
  <2> QED  BY <1>1, <1>3, <2>1, LivesOn DEF ReceiveLoop
<1> QED  BY <1>2, <1>3

(* A call that waited and was woken without an error finds its object.     *)
LEMMA AgainAt ==
  ASSUME KInv, MailInv, NEW t \in Thread, NEW pc \in {"send", "receive", "get"}, At(t, pc),
         k.error[t] = "EOK"
  PROVE  obj.live /\ Runs(t) /\ call[t].pc # "schedule" /\ Bounded(Left(call[t]))
<1>1. Runs(t) /\ call[t].pc = pc /\ Place(call[t]) = pc
  BY DEF At, Place
<1>2. TimeFits(call[t])
  BY DEF KInv, ClockInv
<1>3. CASE ~obj.live
  BY <1>1, <1>3, LiveIs
<1> QED  BY <1>1, <1>2, <1>3, LeftFits

LEMMA MailboxIs ==
  ASSUME KInv, MailInv, ObjInv, MailboxNext
  PROVE  KInv'
<1>1. {"kind", "live"} \subseteq DOMAIN obj
  BY DEF ObjInv
<1>2. \A t \in Thread : User(t) => Runs(t) /\ call[t].pc = "user" /\ Place(call[t]) = "user" /\ t # Idle
  BY DEF User, At, Place
<1>3. ASSUME NEW t \in Thread \ {Idle}, NEW time \in TimeOuts, rt_mb_recv(t, time)  PROVE KInv'
  <2>1. obj.live /\ User(t) /\ ReceiveLoop(t, time)
    BY <1>3 DEF rt_mb_recv, Of
  <2>2. Calling(t)
    BY <1>2, <2>1, LoopLives DEF Calling
  <2> QED  BY <2>1, <2>2, TimeOutIs, ReceiveLoopIs DEF Bounded
<1>4. ASSUME NEW t \in Sender, NEW v \in Value, NEW time \in TimeOuts, rt_mb_send_wait(t, v, time)
      PROVE  KInv'
  <2>1. obj.live /\ User(t) /\ SendLoop(t, v, time) /\ t \in Thread
    BY <1>4, ObjectsAssumption DEF rt_mb_send_wait, Of
  <2>2. Calling(t) /\ t \in Thread \ {Idle}
    BY <1>2, <2>1, LoopLives DEF Calling
  <2> QED  BY <2>1, <2>2, TimeOutIs, SendLoopIs DEF Bounded
<1>5. ASSUME NEW t \in Thread \ {Idle}, SendAgain(t)  PROVE KInv'
  <2>1. At(t, "send")
    BY <1>5 DEF SendAgain
  <2>2. CASE k.error[t] # "EOK"
    BY <1>5, <2>1, <2>2, GivesUp DEF SendAgain
  <2>3. CASE k.error[t] = "EOK"
    <3>1. /\ obj.live /\ Runs(t) /\ call[t].pc # "schedule" /\ Bounded(Left(call[t]))
          /\ SendLoop(t, call[t].value, Left(call[t]))
      BY <1>5, <2>1, <2>3, AgainAt DEF SendAgain
    <3>2. Calling(t)
      BY <3>1, LoopLives DEF Calling
    <3> QED  BY <3>1, <3>2, SendLoopIs
  <2> QED  BY <2>2, <2>3
<1>6. ASSUME NEW t \in Thread \ {Idle}, ReceiveAgain(t)  PROVE KInv'
  <2>1. At(t, "receive")
    BY <1>6 DEF ReceiveAgain
  <2>2. CASE k.error[t] # "EOK"
    BY <1>6, <2>1, <2>2, GivesUp DEF ReceiveAgain
  <2>3. CASE k.error[t] = "EOK"
    <3>1. /\ obj.live /\ Runs(t) /\ call[t].pc # "schedule" /\ Bounded(Left(call[t]))
          /\ ReceiveLoop(t, Left(call[t]))
      BY <1>6, <2>1, <2>3, AgainAt DEF ReceiveAgain
    <3>2. Calling(t)
      BY <3>1, LoopLives DEF Calling
    <3> QED  BY <3>1, <3>2, ReceiveLoopIs
  <2> QED  BY <2>2, <2>3
<1>7. ASSUME NEW t \in Thread \ {Idle}, MailReceived(t)  PROVE KInv'
  BY <1>7, GivesUp DEF MailReceived
<1>8. ASSUME NEW t \in Thread \ {Idle}, MailboxReset(t)  PROVE KInv'
  <2>1. User(t) /\ obj.live /\ obj'.live /\ UNCHANGED due
    BY <1>1, <1>8, LivesOn DEF MailboxReset, Of
  <2>2. Calling(t)
    BY <1>2, <2>1 DEF Calling
  <2> QED  BY <1>8, <2>2, CallResets DEF MailboxReset
<1>9. ASSUME NEW t \in Thread \ {Idle}, MailboxAgain(t)  PROVE KInv'
  BY <1>9, AgainKeeps DEF MailboxAgain, rt_mb_init
<1>10. ASSUME rt_mb_send  PROVE KInv'
  <2>1. due = {} /\ obj.live /\ obj'.live /\ UNCHANGED <<call, due>> /\ "receivers" \in Queues
    BY <1>1, <1>10, LivesOn DEF rt_mb_send, Of, CalledBy, Queues
  <2>2. CASE NoneWaits("receivers")
    BY <1>10, <2>1, <2>2, NoneCalled DEF rt_mb_send, kernelVars
  <2>3. CASE ~NoneWaits("receivers")
    <3>1. k' = rt_schedule(rt_ipc_list_resume(k, "receivers"))
      BY <1>10, <2>3 DEF rt_mb_send, WakeOne, NoneWaits
    <3> QED  BY <2>1, <2>3, <3>1, HandlerWakes
  <2> QED  BY <2>2, <2>3
<1> QED  BY <1>3, <1>4, <1>5, <1>6, <1>7, <1>8, <1>9, <1>10 DEF MailboxNext

(* The nodes of a queue move, and the queue lives on.                      *)
LEMMA NodesLive ==
  ASSUME "live" \in DOMAIN obj, obj.live
  PROVE  /\ Allocate(obj).live /\ UnlinkFirst(obj).live
         /\ \A n : ToFree(obj, n).live
         /\ \A n, v, urgent : /\ Linked(Fill(obj, n, v, urgent), n, urgent).live
                              /\ Linked(Fill(Allocate(obj), n, v, urgent), n, urgent).live
BY NodesMove, FilledMove DEF Same

LEMMA QueueLoopIs ==
  ASSUME KInv, MailInv, ObjInv, obj.live, NEW t \in Thread \ {Idle}, Runs(t),
         call[t].pc # "schedule", NEW time, Bounded(time), QueueLoop(t, time)
  PROVE  KInv'
<1>1. Calling(t)
  <2>1. obj' = UnlinkFirst(obj) \/ obj' = obj
    BY DEF QueueLoop
  <2> QED  BY <2>1, NodesLive DEF Calling, ObjInv, QueueLoop
<1>2. CASE obj.entry > 0
  <2> DEFINE c == [pc |-> "copy", msg |-> obj.head]
  <2>1. k' = k /\ call' = [call EXCEPT ![t] = c]
    BY <1>2 DEF QueueLoop
  <2>2. Place(c) = "copy" /\ TimeFits(c)
    BY DEF Place, TimeFits
  <2> HIDE DEF c
  <2> QED  BY <1>1, <2>1, <2>2, CallGoesOn
<1>3. CASE ~(obj.entry > 0) /\ time = 0
  BY <1>1, <1>3, CallReturns DEF QueueLoop
<1>4. CASE ~(obj.entry > 0) /\ time # 0
  <2> DEFINE c == Waiting("get", NoValue, time)
  <2>1. k' = Wait(k, "receivers", t, time) /\ call' = [call EXCEPT ![t] = c]
    BY <1>4 DEF QueueLoop
  <2>2. c.pc = "schedule" /\ Place(c) \in WaitPlaces \ {"slept"} /\ TimeFits(c)
    BY WaitingFits
  <2>3. "receivers" \in Queues /\ Prepared(k)
    BY <1>1, CallingIs, PreparedIs DEF Queues
  <2> HIDE DEF c
  <2> QED  BY <1>1, <2>1, <2>2, <2>3, CallWaits DEF Bounded
<1> QED  BY <1>2, <1>3, <1>4

LEMMA QueueIs ==
  ASSUME KInv, MailInv, ObjInv, QueueNext
  PROVE  KInv'
<1>1. "live" \in DOMAIN obj
  BY DEF ObjInv
<1>2. \A t \in Thread : User(t) => Runs(t) /\ call[t].pc = "user" /\ Place(call[t]) = "user" /\ t # Idle
  BY DEF User, At, Place
<1>3. ASSUME NEW t \in Thread \ {Idle}, NEW time \in TimeOuts, rt_mq_recv(t, time)  PROVE KInv'
  <2>1. obj.live /\ User(t) /\ QueueLoop(t, time)
    BY <1>3 DEF rt_mq_recv, Of
  <2> QED  BY <1>2, <2>1, TimeOutIs, QueueLoopIs DEF Bounded
<1>4. ASSUME NEW t \in Thread \ {Idle}, GetAgain(t)  PROVE KInv'
  <2>1. At(t, "get")
    BY <1>4 DEF GetAgain
  <2>2. CASE k.error[t] # "EOK"
    BY <1>4, <2>1, <2>2, GivesUp DEF GetAgain
  <2>3. CASE k.error[t] = "EOK"
    <3>1. /\ obj.live /\ Runs(t) /\ call[t].pc # "schedule" /\ Bounded(Left(call[t]))
          /\ QueueLoop(t, Left(call[t]))
      BY <1>4, <2>1, <2>3, AgainAt DEF GetAgain
    <3> QED  BY <3>1, QueueLoopIs
  <2> QED  BY <2>2, <2>3
<1>5. ASSUME NEW t \in Sender, NEW v \in Value, NEW urgent \in BOOLEAN, rt_mq_send(t, v, urgent)
      PROVE  KInv'
  <2> DEFINE c == [pc |-> "link", msg |-> obj.free, value |-> v, urgent |-> urgent]
  <2>1. /\ User(t) /\ obj.live /\ obj'.live /\ UNCHANGED due /\ t \in Thread
        /\ k' = k /\ call' = [call EXCEPT ![t] = c]
    BY <1>1, <1>5, NodesLive, ObjectsAssumption DEF rt_mq_send, Of
  <2>2. Calling(t)
    BY <1>2, <2>1 DEF Calling
  <2>3. Place(c) = "link" /\ TimeFits(c)
    BY DEF Place, TimeFits
  <2> HIDE DEF c
  <2> QED  BY <2>1, <2>2, <2>3, CallGoesOn
<1>6. ASSUME NEW t \in Thread \ {Idle}, CopyAndLink(t)  PROVE KInv'
  <2> DEFINE c == IF NoneWaits("receivers") THEN InUser ELSE ScheduleThen("user")
  <2>1. /\ At(t, "link") /\ UNCHANGED due /\ k' = WakeOne(k, "receivers")
        /\ call' = [call EXCEPT ![t] = c] /\ "receivers" \in Queues
    BY <1>6 DEF CopyAndLink, Queues
  <2>2. Runs(t) /\ call[t].pc = "link" /\ Place(call[t]) = "link"
    BY <2>1 DEF At, Place
  <2>3. obj.live
    BY <2>2, LiveIs DEF WaitPlaces
  <2>4. obj'.live
    BY <1>1, <1>6, <2>3, NodesLive DEF CopyAndLink
  <2>5. Calling(t)
    BY <2>1, <2>2, <2>3, <2>4 DEF Calling
  <2>6. (~NoneWaits("receivers") => c.pc = "schedule") /\ Place(c) = "user" /\ TimeFits(c)
    BY DEF ScheduleThen, InUser, Place, TimeFits
  <2> HIDE DEF c
  <2> QED  BY <2>1, <2>5, <2>6, CallWakesOne
<1>7. ASSUME NEW t \in Thread \ {Idle}, CopyOut(t)  PROVE KInv'
  <2> DEFINE c == [pc |-> "release", msg |-> call[t].msg, value |-> obj.data[call[t].msg]]
  <2>1. At(t, "copy") /\ UNCHANGED <<k, due, obj>> /\ DOMAIN call = Thread
    BY <1>7 DEF CopyOut, MailInv, CallsFit
  <2>2. call' = [call EXCEPT ![t] = c]
    BY <1>7, <2>1 DEF CopyOut
  <2>3. Calling(t)
    BY <2>1, CallingAt DEF WaitPlaces
  <2>4. Place(c) = "release" /\ TimeFits(c)
    BY DEF Place, TimeFits
  <2> HIDE DEF c
  <2> QED  BY <2>1, <2>2, <2>3, <2>4, CallGoesOn
<1>8. ASSUME NEW t \in Thread \ {Idle}, GiveBack(t)  PROVE KInv'
  <2>1. At(t, "release") /\ UNCHANGED <<k, due>> /\ Return(t)
    BY <1>8 DEF GiveBack
  <2>2. Runs(t) /\ call[t].pc = "release" /\ Place(call[t]) = "release"
    BY <2>1 DEF At, Place
  <2>3. obj.live
    BY <2>2, LiveIs DEF WaitPlaces
  <2>4. obj'.live
    BY <1>1, <1>8, <2>3, NodesLive DEF GiveBack
  <2>5. Calling(t)
    BY <2>1, <2>2, <2>3, <2>4 DEF Calling
  <2> QED  BY <2>1, <2>5, CallReturns
<1>9. ASSUME NEW t \in Thread \ {Idle}, QueueReset(t)  PROVE KInv'
  <2>1. User(t) /\ obj.live /\ obj'.live /\ UNCHANGED due
    BY <1>1, <1>9 DEF QueueReset, Of
  <2>2. Calling(t)
    BY <1>2, <2>1 DEF Calling
  <2> QED  BY <1>9, <2>2, CallResets DEF QueueReset
<1>10. ASSUME NEW t \in Thread \ {Idle}, QueueAgain(t)  PROVE KInv'
  BY <1>10, AgainKeeps DEF QueueAgain, rt_mq_init
<1>11. ASSUME NEW v \in Value, NEW urgent \in BOOLEAN, rt_mq_send_isr(v, urgent)  PROVE KInv'
  <2>1. due = {} /\ obj.live /\ obj'.live /\ UNCHANGED <<call, due>> /\ "receivers" \in Queues
    BY <1>1, <1>11, NodesLive DEF rt_mq_send_isr, Of, CalledBy, Queues
  <2>2. CASE NoneWaits("receivers")
    BY <1>11, <2>1, <2>2, NoneCalled DEF rt_mq_send_isr, kernelVars
  <2>3. CASE ~NoneWaits("receivers")
    <3>1. k' = rt_schedule(rt_ipc_list_resume(k, "receivers"))
      BY <1>11, <2>3 DEF rt_mq_send_isr, WakeOne, NoneWaits
    <3> QED  BY <2>1, <2>3, <3>1, HandlerWakes
  <2> QED  BY <2>2, <2>3
<1> QED  BY <1>3, <1>4, <1>5, <1>6, <1>7, <1>8, <1>9, <1>10, <1>11 DEF QueueNext

LEMMA CommonIs ==
  ASSUME KInv, MailInv, ObjInv, Common
  PROVE  KInv'
<1>1. ASSUME NEW t \in Thread \ {Idle}, Slept(t), UNCHANGED obj  PROVE KInv'
  <2>1. /\ Runs(t) /\ call[t].pc = "slept" /\ call' = [call EXCEPT ![t] = InUser] /\ UNCHANGED due
        /\ k' = k \/ \E e \in {"EOK", "ERROR"} : k' = [k EXCEPT !.error[t] = e]
    BY <1>1 DEF Slept, At, Return
  <2>2. TimeFits(InUser) /\ Place(InUser) = "user"
    BY DEF TimeFits, InUser, Place
  <2>3. \A u \in Thread : call'[u] = IF u = t THEN InUser ELSE call[u]
    BY <2>1 DEF MailInv, CallsFit
  <2> QED  BY <1>1, <2>1, <2>2, <2>3, GoesOn
<1>2. ASSUME NEW t \in Sleeper[obj.kind], rt_thread_sleep(t, 1), UNCHANGED obj  PROVE KInv'
  BY <1>2, SleepsKeep, ObjectsAssumption DEF MailInv, ObjectFits
<1> QED  BY <1>1, <1>2, TicksKeep, ExpiredKeeps, ScheduledKeeps DEF Common, Interrupts

LEMMA EndingIs ==
  ASSUME ~DetachTimed, KInv, MailInv, ObjInv, Ending
  PROVE  KInv'
BY DetachKeeps, TestKeeps, WakeKeeps DEF Ending, ObjInv

(* The object keeps its kind, and a mutex what it says of its owner.       *)
LEMMA OtherObjects ==
  ASSUME obj.kind # "mutex", obj'.kind = obj.kind, {"kind", "live"} \subseteq DOMAIN obj',
         obj'.live \in BOOLEAN
  PROVE  ObjInv'
BY DEF ObjInv

LEMMA SemObject ==
  ASSUME MailInv, ObjInv, SemNext
  PROVE  ObjInv' /\ obj'.kind = obj.kind
<1>1. {"kind", "live"} \subseteq DOMAIN obj /\ obj.live \in BOOLEAN
  BY DEF ObjInv
<1>2. obj.kind = "sem"
  BY KindAt, AtIs DEF SemNext, rt_sem_take, Taken, SemAgain, SemReset, rt_sem_release, Of
<1>3. /\ obj'.kind = obj.kind /\ {"kind", "live"} \subseteq DOMAIN obj' /\ obj'.live \in BOOLEAN
  <2>1. \/ obj' = obj \/ (\E v, n : obj' = [obj EXCEPT !.value = v, !.spent = n])
        \/ (\E n : obj' = [obj EXCEPT !.spent = n]) \/ \E v : obj' = rt_sem_init(obj.flag, v)
    BY DEF SemNext, rt_sem_take, Taken, SemAgain, SemReset, rt_sem_release, Take
  <2>2. ASSUME NEW v, NEW n, obj' = [obj EXCEPT !.value = v, !.spent = n] \/ obj' = [obj EXCEPT !.spent = n]
        PROVE  obj'.kind = obj.kind /\ {"kind", "live"} \subseteq DOMAIN obj' /\ obj'.live \in BOOLEAN
    BY <1>1, <2>2
  <2>3. ASSUME NEW v, obj' = rt_sem_init(obj.flag, v)  PROVE obj'.kind = obj.kind /\ {"kind", "live"} \subseteq DOMAIN obj' /\ obj'.live \in BOOLEAN
    BY <1>2, <2>3 DEF rt_sem_init
  <2>4. CASE obj' = obj
    BY <1>1, <2>4
  <2> QED  BY <2>1, <2>2, <2>3, <2>4
<1> QED  BY <1>2, <1>3, OtherObjects

LEMMA EventObject ==
  ASSUME MailInv, ObjInv, EventNext
  PROVE  ObjInv' /\ obj'.kind = obj.kind
<1>1. {"kind", "live"} \subseteq DOMAIN obj /\ obj.live \in BOOLEAN
  BY DEF ObjInv
<1>2. obj.kind = "event"
  BY KindAt, AtIs DEF EventNext, rt_event_recv, EventReceived, EventAgain, EventReset, rt_event_send, Of
<1>3. \/ obj' = obj \/ \E s : obj' = [obj EXCEPT !.set = s]
      \/ obj' = rt_event_init(obj.flag)
  BY DEF EventNext, rt_event_recv, EventReceived, EventAgain, EventReset, rt_event_send
<1>4. /\ obj'.kind = obj.kind /\ {"kind", "live"} \subseteq DOMAIN obj' /\ obj'.live \in BOOLEAN
  <2>1. ASSUME NEW x, obj' = [obj EXCEPT !.set = x]
        PROVE  obj'.kind = obj.kind /\ {"kind", "live"} \subseteq DOMAIN obj' /\ obj'.live \in BOOLEAN
    BY <1>1, <2>1
  <2>2. CASE obj' = rt_event_init(obj.flag)
    BY <1>2, <2>2 DEF rt_event_init
  <2>3. CASE obj' = obj
    BY <1>1, <2>3
  <2> QED  BY <1>3, <2>1, <2>2, <2>3
<1> QED  BY <1>2, <1>4, OtherObjects

LEMMA MailboxObject ==
  ASSUME MailInv, ObjInv, MailboxNext
  PROVE  ObjInv' /\ obj'.kind = obj.kind
<1>1. {"kind", "live"} \subseteq DOMAIN obj /\ obj.live \in BOOLEAN
  BY DEF ObjInv
<1>2. obj.kind = "mailbox"
  BY KindAt, AtIs DEF MailboxNext, rt_mb_recv, rt_mb_send_wait, rt_mb_send, SendAgain, ReceiveAgain,
                      MailReceived, MailboxReset, MailboxAgain, Of
<1>3. \/ obj' = obj \/ (\E v : obj' = PutMail(obj, v)) \/ obj' = TakeMail(obj)
      \/ obj' = [obj EXCEPT !.entry = 0, !.in_offset = 0, !.out_offset = 0]
      \/ obj' = rt_mb_init(obj.flag)
  BY DEF MailboxNext, rt_mb_recv, rt_mb_send_wait, rt_mb_send, SendAgain, ReceiveAgain,
         MailReceived, MailboxReset, MailboxAgain, SendLoop, ReceiveLoop
<1>4. /\ obj'.kind = obj.kind /\ {"kind", "live"} \subseteq DOMAIN obj' /\ obj'.live \in BOOLEAN
  <2>1. ASSUME NEW v, obj' = PutMail(obj, v)  PROVE obj'.kind = obj.kind /\ {"kind", "live"} \subseteq DOMAIN obj' /\ obj'.live \in BOOLEAN
    BY <1>1, <2>1 DEF PutMail
  <2>2. CASE obj' = TakeMail(obj)
    BY <1>1, <2>2 DEF TakeMail
  <2>3. CASE obj' = [obj EXCEPT !.entry = 0, !.in_offset = 0, !.out_offset = 0]
    BY <1>1, <2>3
  <2>4. CASE obj' = rt_mb_init(obj.flag)
    BY <1>2, <2>4 DEF rt_mb_init
  <2>5. CASE obj' = obj
    BY <1>1, <2>5
  <2> QED  BY <1>3, <2>1, <2>2, <2>3, <2>4, <2>5
<1> QED  BY <1>2, <1>4, OtherObjects

LEMMA QueueObject ==
  ASSUME MailInv, ObjInv, QueueNext
  PROVE  ObjInv' /\ obj'.kind = obj.kind
<1>1. {"kind", "live"} \subseteq DOMAIN obj /\ obj.live \in BOOLEAN
  BY DEF ObjInv
<1>2. obj.kind = "queue"
  BY KindAt, AtIs DEF QueueNext, rt_mq_recv, rt_mq_send, rt_mq_send_isr, GetAgain, CopyAndLink, CopyOut,
                      GiveBack, QueueReset, QueueAgain, Of
<1>3. \/ obj' = obj \/ obj' = Allocate(obj) \/ obj' = UnlinkFirst(obj) \/ (\E n : obj' = ToFree(obj, n))
      \/ (\E n, v, urgent : obj' = Linked(Fill(obj, n, v, urgent), n, urgent))
      \/ (\E n, v, urgent : obj' = Linked(Fill(Allocate(obj), n, v, urgent), n, urgent))
      \/ (\E m, f : obj' = [obj EXCEPT !.next = m, !.free = f, !.head = Null, !.tail = Null, !.entry = 0])
      \/ obj' = rt_mq_init(obj.flag)
  BY DEF QueueNext, rt_mq_recv, rt_mq_send, rt_mq_send_isr, GetAgain, CopyAndLink, CopyOut,
         GiveBack, QueueReset, QueueAgain, QueueLoop
<1>4. /\ obj'.kind = obj.kind /\ {"kind", "live"} \subseteq DOMAIN obj' /\ obj'.live \in BOOLEAN
  <2>1. CASE obj' = rt_mq_init(obj.flag)
    BY <1>2, <2>1 DEF rt_mq_init
  <2>2. CASE \E m, f : obj' = [obj EXCEPT !.next = m, !.free = f, !.head = Null, !.tail = Null, !.entry = 0]
    BY <1>1, <2>2
  <2>3. CASE obj' = obj
    BY <1>1, <2>3
  <2>4. CASE ~(obj' = rt_mq_init(obj.flag)) /\ obj' # obj
             /\ ~\E m, f : obj' = [obj EXCEPT !.next = m, !.free = f, !.head = Null, !.tail = Null, !.entry = 0]
    <3>1. \A x \in {"kind", "live"} : Same(obj', obj, x)
      <4> SUFFICES ASSUME NEW x \in {"kind", "live"}  PROVE Same(obj', obj, x)
        OBVIOUS
      <4>1. x \in DOMAIN obj
        BY <1>1
      <4> QED  BY <1>3, <2>4, <4>1, NodesMove, FilledMove
    <3> QED  BY <1>1, <3>1 DEF Same
  <2> QED  BY <2>1, <2>2, <2>3, <2>4
<1> QED  BY <1>2, <1>4, OtherObjects

(* A mutex has an owner while it is taken, before and after.               *)
LEMMA MutexObject ==
  ASSUME KInv, MailInv, ObjInv, MutexNext
  PROVE  ObjInv' /\ obj'.kind = obj.kind
<1>1. obj.kind = "mutex"
  BY KindAt, AtIs DEF MutexNext, rt_mutex_take, Locked, Release, ReleaseInner, ReleaseRefused, MutexAgain, Of
<1>2. /\ {"kind", "live", "owner", "value", "original_priority", "hold", "holds"} \subseteq DOMAIN obj
      /\ obj.live \in BOOLEAN /\ obj.value \in {0, 1}
      /\ obj.owner \in Thread \cup {None} /\ (obj.owner = None <=> obj.value = 1)
      /\ obj.owner # None => obj.original_priority \in Prio
  BY <1>1 DEF ObjInv
<1>3. k.prio \in [Thread -> Prio] /\ None \notin Thread
  BY ListedIs, MutexAssumption DEF KInv, LockFree, None
<1>4. ASSUME NEW h, NEW g, obj' = [obj EXCEPT !.hold = h, !.holds = g]  PROVE ObjInv' /\ obj'.kind = obj.kind
  <2>1. DOMAIN obj' = DOMAIN obj /\ \A x \in DOMAIN obj : x \notin {"hold", "holds"} => obj'[x] = obj[x]
    BY <1>4
  <2>2. /\ obj'.kind = obj.kind /\ obj'.live = obj.live /\ obj'.value = obj.value /\ obj'.owner = obj.owner
        /\ obj'.original_priority = obj.original_priority
    BY <1>2, <2>1
  <2> QED  BY <1>1, <1>2, <2>1, <2>2 DEF ObjInv
<1>5. ASSUME NEW t \in Thread, NEW p \in Prio, NEW h, NEW g,
             obj' = [obj EXCEPT !.owner = t, !.original_priority = p, !.value = 0, !.hold = h, !.holds = g]
      PROVE  ObjInv' /\ obj'.kind = obj.kind
  <2>1. /\ DOMAIN obj' = DOMAIN obj /\ obj'.kind = obj.kind /\ obj'.live = obj.live
        /\ obj'.owner = t /\ obj'.original_priority = p /\ obj'.value = 0
    BY <1>2, <1>5
  <2> QED  BY <1>1, <1>2, <1>3, <2>1 DEF ObjInv
<1>6. CASE obj' = obj
  BY <1>6 DEF ObjInv
<1>7. ASSUME NEW t \in Thread \ {Idle}, NEW time \in TimeOuts, rt_mutex_take(t, time)  PROVE ObjInv' /\ obj'.kind = obj.kind
  <2>1. CASE obj' = [obj EXCEPT !.hold = @ + 1, !.holds[t] = @ + 1]
    <3>1. obj' = [obj EXCEPT !.hold = obj.hold + 1, !.holds = [obj.holds EXCEPT ![t] = @ + 1]]
      BY <2>1
    <3> QED  BY <1>4, <3>1
  <2>2. CASE obj' = [OwnedBy(obj, k, t) EXCEPT !.value = @ - 1, !.holds[t] = 1] /\ obj.value > 0
    <3>1. OwnedBy(obj, k, t).value = obj.value /\ obj.value - 1 = 0 /\ OwnedBy(obj, k, t).holds = obj.holds
      BY <1>2, <2>2 DEF OwnedBy
    <3>2. obj' = [OwnedBy(obj, k, t) EXCEPT !.value = 0, !.holds = [obj.holds EXCEPT ![t] = 1]]
      BY <2>2, <3>1
    <3>3. obj' = [obj EXCEPT !.owner = t, !.original_priority = k.prio[t], !.value = 0,
                             !.hold = obj.hold + 1, !.holds = [obj.holds EXCEPT ![t] = 1]]
      BY <3>2 DEF OwnedBy
    <3> QED  BY <1>3, <1>5, <3>3
  <2> QED  BY <1>6, <1>7, <2>1, <2>2 DEF rt_mutex_take
<1>8. ASSUME NEW t \in Thread \ {Idle}, Locked(t)  PROVE ObjInv' /\ obj'.kind = obj.kind
  <2>1. CASE obj' = [obj EXCEPT !.holds[t] = 1]
    <3>1. obj' = [obj EXCEPT !.hold = obj.hold, !.holds = [obj.holds EXCEPT ![t] = 1]]
      BY <2>1
    <3> QED  BY <1>4, <3>1
  <2> QED  BY <1>6, <1>8, <2>1 DEF Locked
<1>9. ASSUME NEW t \in Thread \ {Idle}, Release(t)  PROVE ObjInv' /\ obj'.kind = obj.kind
  <2> DEFINE R == Restored(k, t)
             o == [obj EXCEPT !.hold = 0, !.holds[t] = 0]
             h == Head(k.queue["receivers"])
  <2>1. obj.owner = t /\ t # None /\ obj.value = 0
    BY <1>2, <1>3, <1>9 DEF Release
  <2>2. /\ DOMAIN o = DOMAIN obj /\ o.kind = obj.kind /\ o.live = obj.live /\ o.value = 0
        /\ o.hold = 0
    BY <1>2, <2>1
  <2>3. CASE NoneWaits("receivers")
    <3>1. obj' = [o EXCEPT !.value = @ + 1, !.owner = None, !.original_priority = Unset]
      BY <1>9, <2>3 DEF Release
    <3> HIDE DEF o
    <3>2. /\ DOMAIN obj' = DOMAIN obj /\ obj'.kind = obj.kind /\ obj'.live = obj.live
          /\ obj'.owner = None /\ obj'.value = 1
      BY <1>2, <2>2, <3>1
    <3> QED  BY <1>1, <1>2, <3>2 DEF ObjInv
  <2>4. CASE ~NoneWaits("receivers")
    <3>1. obj' = OwnedBy(o, R, h)
      BY <1>9, <2>4 DEF Release, HandOver
    <3>2. h \in Thread
      <4>1. k.queue["receivers"] \in Seq(Thread) /\ k.queue["receivers"] # <<>>
        BY <2>4, ListedIs DEF NoneWaits, KInv, LockFree, Queues
      <4> QED  BY <4>1
    <3>3. R.prio \in [Thread -> Prio]
      BY <1>1, <2>1, RestoredIs, ListedIs DEF Prepared
    <3>4. R.prio[h] \in Prio
      BY <3>2, <3>3
    <3> HIDE DEF o, h, R
    <3>5. /\ DOMAIN obj' = DOMAIN obj /\ obj'.kind = obj.kind /\ obj'.live = obj.live
          /\ obj'.owner = h /\ obj'.value = 0 /\ obj'.original_priority = R.prio[h]
      BY <1>2, <2>2, <3>1 DEF OwnedBy
    <3> QED  BY <1>1, <1>2, <1>3, <3>2, <3>4, <3>5 DEF ObjInv
  <2> QED  BY <2>3, <2>4
<1>10. ASSUME NEW t \in Thread \ {Idle}, ReleaseInner(t)  PROVE ObjInv' /\ obj'.kind = obj.kind
  <2>1. obj' = [obj EXCEPT !.hold = obj.hold - 1, !.holds = [obj.holds EXCEPT ![t] = @ - 1]]
    BY <1>10 DEF ReleaseInner
  <2> QED  BY <1>4, <2>1
<1>11. ASSUME NEW t \in Thread \ {Idle}, MutexAgain(t)  PROVE ObjInv' /\ obj'.kind = obj.kind
  BY <1>11 DEF MutexAgain, rt_mutex_init, ObjInv
<1> QED  BY <1>6, <1>7, <1>8, <1>9, <1>10, <1>11 DEF MutexNext, ReleaseRefused

LEMMA ObjectKeeps ==
  ASSUME ~DetachTimed, KInv, MailInv, ObjInv, [ObjectNext]_ipcVars
  PROVE  ObjInv' /\ obj'.kind = obj.kind
<1>1. CASE UNCHANGED obj
  BY <1>1 DEF ObjInv
<1>2. CASE Ending /\ ~UNCHANGED obj
  <2>1. obj' = [obj EXCEPT !.live = FALSE]
    BY <1>2 DEF Ending, Detach, Test, Wake
  <2>2. DOMAIN obj' = DOMAIN obj /\ \A x \in DOMAIN obj : x # "live" => obj'[x] = obj[x]
    BY <2>1
  <2>3. obj'.live = FALSE
    BY <2>1 DEF ObjInv
  <2>4. obj'.kind = obj.kind
    BY <2>2 DEF ObjInv
  <2> QED  BY <2>2, <2>3, <2>4 DEF ObjInv
<1> QED  BY <1>1, <1>2, SemObject, EventObject, MailboxObject, QueueObject, MutexObject
         DEF ObjectNext, Common, ipcVars

LEMMA KernelKeeps ==
  ASSUME ~DetachTimed, KInv, MailInv, ObjInv, [ObjectNext]_ipcVars
  PROVE  KInv'
<1>1. CASE UNCHANGED ipcVars
  BY <1>1, NoneCalled DEF ipcVars
<1> QED  BY <1>1, CommonIs, EndingIs, SemIs, MutexIs, EventIs, MailboxIs, QueueIs DEF ObjectNext

LEMMA ObjectStarts ==
  ASSUME ObjectInit
  PROVE  ObjInv /\ obj.live
<1>1. \/ \E v, flag : obj = rt_sem_init(flag, v)
      \/ \E flag : obj = rt_mutex_init(flag) \/ obj = rt_event_init(flag)
                   \/ obj = rt_mb_init(flag) \/ obj = rt_mq_init(flag)
  BY DEF ObjectInit, SemInit, MutexInit, EventInit, MailboxInit, QueueInit
<1>2. ASSUME NEW flag, obj = rt_mutex_init(flag)  PROVE ObjInv /\ obj.live
  BY <1>2 DEF rt_mutex_init, ObjInv
<1>3. ASSUME {"kind", "live"} \subseteq DOMAIN obj, obj.live = TRUE, obj.kind # "mutex"
      PROVE  ObjInv /\ obj.live
  BY <1>3 DEF ObjInv
<1>4. ASSUME NEW flag, NEW v, \/ obj = rt_sem_init(flag, v) \/ obj = rt_event_init(flag)
                              \/ obj = rt_mb_init(flag) \/ obj = rt_mq_init(flag)
      PROVE  {"kind", "live"} \subseteq DOMAIN obj /\ obj.live = TRUE /\ obj.kind # "mutex"
  <2>1. CASE obj = rt_sem_init(flag, v)
    BY <2>1 DEF rt_sem_init
  <2>2. CASE obj = rt_event_init(flag)
    BY <2>2 DEF rt_event_init
  <2>3. CASE obj = rt_mb_init(flag)
    BY <2>3 DEF rt_mb_init
  <2>4. CASE obj = rt_mq_init(flag)
    BY <2>4 DEF rt_mq_init
  <2> QED  BY <1>4, <2>1, <2>2, <2>3, <2>4
<1> QED  BY <1>1, <1>2, <1>3, <1>4

LEMMA KernelStarts ==
  ASSUME ObjectInit
  PROVE  KInv
<1>1. /\ call = [t \in Thread |-> InUser] /\ due = {} /\ k = Boot(Thread) /\ obj.live
  BY ObjectStarts DEF ObjectInit
<1>2. Thread \in SUBSET Thread /\ Thread # {} /\ IsFiniteSet(Thread)
  BY IPCAssumption, Priorities
<1>3. /\ Lists(k, Thread) /\ k.cur = HighestReady(k) /\ k.cur \in Thread
      /\ k.stat = [t \in Thread |-> IF t \in Thread THEN "ready" ELSE "init"]
      /\ k.lock = 0 /\ k.slice = InitTick /\ k.timer = [t \in Thread |-> 0]
      /\ k.queue = [q \in Queues |-> <<>>] /\ k.defunct = <<>>
  BY <1>1, <1>2, Booted
<1>4. \A t \in Thread : k.stat[t] = "ready" /\ k.timer[t] = 0
  BY <1>3
<1>5. Ready(k) = Thread
  BY <1>4 DEF Ready
<1>6. \A t : ~In(<<>>, t)
  BY DEF In
<1>7. \A q \in Queues : k.queue[q] = <<>>
  BY <1>3
<1>8. Once(<<>>)
  BY DEF Once
<1>9. OnceElsewhere(k) /\ \A t : ~Elsewhere(k, t)
  BY <1>3, <1>6, <1>7, <1>8 DEF OnceElsewhere, Elsewhere
<1>10. LockFree(k)
  BY <1>3, <1>4, <1>5, <1>9, Priorities DEF LockFree, Listed
<1>11. \A t \in Thread : call[t] = InUser /\ call[t].pc = "user" /\ Place(call[t]) = "user"
  BY <1>1 DEF InUser, Place
<1>12. \A t \in Thread : TimeFits(call[t])
  BY <1>11 DEF TimeFits
<1>13. QueuesInv
  BY <1>4, <1>6, <1>7, <1>9 DEF QueuesInv, Queues
<1>14. ClockInv
  BY <1>1, <1>4, <1>12 DEF ClockInv, Ticking
<1>15. FirstInv
  BY <1>3, <1>4 DEF FirstInv
<1>16. EndInv
  BY <1>1, <1>11 DEF EndInv, Ends
<1> QED  BY <1>10, <1>13, <1>14, <1>15, <1>16 DEF KInv

LEMMA AwakeIs ==
  ASSUME KInv, ObjInv
  PROVE  Awake
<1> SUFFICES ASSUME NEW t \in Thread, At(t, "send") \/ At(t, "receive"), k.error[t] = "EOK", ~obj.live
             PROVE  FALSE
  BY DEF Awake
<1>1. Runs(t) /\ call[t].pc \in {"send", "receive"} /\ Place(call[t]) \in {"send", "receive"}
  BY DEF At, Place
<1> QED  BY <1>1, LiveIs

ObjectInv == KInv /\ MailInv /\ ObjInv

LEMMA ObjectInvariance ==
  ASSUME ~DetachTimed
  PROVE  ObjectSpec => []ObjectInv
<1>1. ObjectInit => ObjectInv
  BY KernelStarts, ObjectStarts, MailStarts DEF ObjectInv
<1>2. ObjectInv /\ [ObjectNext]_ipcVars => ObjectInv'
  BY KernelKeeps, ObjectKeeps, StepKeeps, AwakeIs DEF ObjectInv
<1> QED  BY <1>1, <1>2, PTL DEF ObjectSpec
-----------------------------------------------------------------------------
LEMMA WaitPlacesAre ==
  ASSUME KInv, NEW t \in Thread
  PROVE  /\ OtherPlaces(t) # {} <=> Elsewhere(k, t)
         /\ Cardinality(OtherPlaces(t)) <= 1
<1> DEFINE InQueueOf(q) == {<<q, i>> : i \in Positions(k.queue[q], t)}
<1>1. /\ Listed(k) /\ k.defunct = <<>> /\ \A q \in Queues : Once(k.queue[q])
      /\ Elsewhere(k, t) <=> \E q \in Queues : In(k.queue[q], t)
  BY ListedIs DEF KInv, LockFree, Listed
<1>2. Positions(k.defunct, t) = {}
  BY <1>1 DEF Positions
<1>3. \A x : x \in OtherPlaces(t) <=> \E q \in Queues : x \in InQueueOf(q)
  BY <1>2 DEF OtherPlaces
<1>4. \A q \in Queues : InQueueOf(q) = {} <=> ~In(k.queue[q], t)
  <2>1. \A q \in Queues : InQueueOf(q) = {} <=> Positions(k.queue[q], t) = {}
    OBVIOUS
  <2> QED  BY <2>1, NoPlaces
<1>5. CASE ~Elsewhere(k, t)
  <2>1. OtherPlaces(t) = {}
    BY <1>1, <1>3, <1>4, <1>5
  <2> QED  BY <1>5, <2>1, FS_EmptySet
<1>6. CASE Elsewhere(k, t)
  <2>1. PICK q \in Queues : In(k.queue[q], t)
    BY <1>1, <1>6
  <2>2. \A p \in Queues : p # q => ~In(k.queue[p], t)
    BY <2>1 DEF KInv, QueuesInv, Queues
  <2>3. PICK i : Positions(k.queue[q], t) = {i}
    BY <1>1, <2>1, NoPlaces
  <2>4. InQueueOf(q) = {<<q, i>>}
    BY <2>3
  <2>5. \A p \in Queues : p # q => InQueueOf(p) = {}
    BY <1>4, <2>2
  <2> HIDE DEF InQueueOf
  <2>6. OtherPlaces(t) = {<<q, i>>}
    BY <1>3, <2>1, <2>4, <2>5
  <2>7. Cardinality(OtherPlaces(t)) = 1
    BY <2>6, FS_Singleton
  <2> QED  BY <1>6, <2>6, <2>7
<1> QED  BY <1>5, <1>6

LEMMA ReadyPlacesAre ==
  ASSUME KInv, NEW t \in Thread
  PROVE  IF k.stat[t] = "ready"
         THEN \E i \in 1..Len(k.ready[k.prio[t]]) : ReadyPlaces(t) = {<<k.prio[t], i>>}
         ELSE ReadyPlaces(t) = {}
<1>1. /\ Lists(k, Ready(k)) /\ (t \in Ready(k) <=> k.stat[t] = "ready") /\ k.prio[t] \in Prio
  BY ListedIs DEF KInv, LockFree, Listed, Ready
<1>2. CASE k.stat[t] # "ready"
  <2>1. \A p \in Prio : Positions(k.ready[p], t) = {}
    BY <1>1, <1>2, NoPlaces DEF Lists
  <2> QED  BY <1>2, <2>1 DEF ReadyPlaces
<1>3. CASE k.stat[t] = "ready"
  <2>2. \A p \in Prio : Once(k.ready[p]) /\ (In(k.ready[p], t) <=> k.prio[t] = p)
    BY <1>1, <1>3 DEF Lists
  <2>3. PICK i \in 1..Len(k.ready[k.prio[t]]) : Positions(k.ready[k.prio[t]], t) = {i}
    BY <1>1, <2>2, NoPlaces
  <2>4. \A p \in Prio \ {k.prio[t]} : Positions(k.ready[p], t) = {}
    BY <2>2, NoPlaces
  <2>5. ReadyPlaces(t) = {<<k.prio[t], i>>}
    <3>1. ASSUME NEW x  PROVE x \in ReadyPlaces(t) <=> x = <<k.prio[t], i>>
      <4>1. x \in ReadyPlaces(t)
              <=> \E p \in Prio : \E j \in Positions(k.ready[p], t) : x = <<p, j>>
        BY DEF ReadyPlaces
      <4> QED  BY <1>1, <2>3, <2>4, <4>1
    <3> QED  BY <3>1
  <2> QED  BY <1>3, <2>3, <2>5
<1> QED  BY <1>2, <1>3

LEMMA ObjectInvAgrees ==
  ASSUME ObjectInv
  PROVE  ListsAgree
<1>1. KInv /\ Listed(k) /\ k \in KState /\ Lists(k, Ready(k))
  BY ListedIs DEF ObjectInv, KInv, LockFree, Listed
<1>2. KernelTypeOK(TimeOuts \cup {1}, 0)
  <2>1. DOMAIN k = DOMAIN NoneReady
    <3> DEFINE names == {"stat", "prio", "ready", "group", "cur", "lock", "slice", "error",
                         "timer", "queue", "defunct", "owed"}
    <3>1. DOMAIN k = names
      BY <1>1 DEF KState
    <3>2. DOMAIN NoneReady = names
      BY DEF NoneReady
    <3> QED  BY <3>1, <3>2
  <2>2. /\ k.stat \in [Thread -> Stats] /\ k.prio \in [Thread -> Prio] /\ k.ready \in [Prio -> Seq(Thread)]
        /\ k.group \subseteq Prio /\ k.error \in [Thread -> {"EOK", "ETIMEOUT", "ERROR"}]
        /\ k.timer \in [Thread -> Nat] /\ k.queue \in [Queues -> Seq(Thread)] /\ k.defunct \in Seq(Thread)
        /\ k.owed \in BOOLEAN
    BY <1>1 DEF KState
  <2>3. /\ k.cur \in Thread /\ k.lock \in 0..0 /\ due \subseteq Thread
        /\ \A t \in Thread : k.slice[t] \in 1..InitTick[t]
        /\ \A t \in Thread : k.timer[t] > 0 => \E n \in TimeOuts \cup {1} : k.timer[t] <= n
    BY <1>1 DEF KInv, LockFree, ClockInv
  <2> QED  BY <2>1, <2>2, <2>3 DEF KernelTypeOK
<1>3. WaitsInOneList
  <2> SUFFICES ASSUME NEW t \in Thread
               PROVE  /\ InItsList(t)
                      /\ OtherPlaces(t) # {} => /\ k.stat[t] = "suspend" /\ k.error[t] = "EOK"
                                                /\ call[t].pc # "user"
    BY DEF WaitsInOneList
  <2>1. ASSUME OtherPlaces(t) # {}
        PROVE  k.stat[t] = "suspend" /\ k.error[t] = "EOK" /\ call[t].pc # "user"
    <3>1. k.stat[t] = "suspend" /\ k.error[t] = "EOK" /\ Place(call[t]) \in WaitPlaces
      BY <1>1, <2>1, WaitPlacesAre DEF KInv, QueuesInv
    <3> QED  BY <3>1 DEF Place, WaitPlaces
  <2>2. k.stat[t] = "ready" => OtherPlaces(t) = {}
    BY <2>1
  <2>3. InItsList(t)
    BY <1>1, <2>2, ReadyPlacesAre, WaitPlacesAre DEF InItsList
  <2> QED  BY <2>1, <2>3
<1>4. NoneForgotten
  BY <1>1, WaitPlacesAre DEF NoneForgotten, KInv, ClockInv, Ticking
<1>5. HighestRuns
  BY <1>1 DEF HighestRuns, KInv, FirstInv
<1> QED  BY <1>2, <1>3, <1>4, <1>5 DEF ListsAgree

(* Whatever the kind of the object and however its users' calls, time-outs *)
(* and interrupts interleave, the lists, states and timers of the kernel   *)
(* agree and the first ready thread of highest priority runs, as long as   *)
(* no object is detached while a waiter's time-out runs.                   *)
THEOREM WaitingAgrees ==
  ASSUME ~DetachTimed
  PROVE  ObjectSpec => []ListsAgree
<1>1. ObjectInv => ListsAgree
  BY ObjectInvAgrees
<1> QED  BY <1>1, ObjectInvariance, PTL

(* The ring of ipc.c's mailbox with its waiting senders and receivers is a *)
(* bounded queue, for every size of the mailbox and any threads: no letter *)
(* is lost, doubled or overtaken.                                          *)
THEOREM TheMailboxIsAChannel ==
  ASSUME ~DetachTimed
  PROVE  ObjectSpec => MailboxIsChannel
<1>1. ObjectInit => Letterbox!Init
  BY MailStarts
<1>2. ObjectInv /\ [ObjectNext]_ipcVars => [Letterbox!Next]_<<Letters, [t \in Thread |-> MailGot(t)]>>
  BY StepKeeps, AwakeIs DEF ObjectInv, Steps, Gots
<1> QED  BY <1>1, <1>2, ObjectInvariance, PTL DEF ObjectSpec, MailboxIsChannel, Letterbox!Spec

(* A thread that was promised a unit, or the mutex, gets it: the release   *)
(* that woke it has taken it out of the list and left its error clear.     *)
Holds(t) == Place(call[t]) \in {"taken", "locked"}
Awaits(t) == In(k.queue["receivers"], t)
Got(t) == Holds(t) /\ ~Awaits(t) /\ k.error[t] = "EOK"

(* Who is suspended in a take is in the list, however often time-outs and  *)
(* releases take others out of it.                                         *)
StandInv == \A t \in Thread : Holds(t) /\ k.stat[t] = "suspend" => Awaits(t)

(* What a step does to a thread: nothing; it ends a wait with an error; or *)
(* the thread is not in a take.                                            *)
Stays(t) ==
  /\ Place(call'[t]) = Place(call[t]) /\ k'.stat[t] = k.stat[t] /\ k'.error[t] = k.error[t]
  /\ Awaits(t)' <=> Awaits(t)
Fails(t) ==
  /\ Place(call'[t]) = Place(call[t]) /\ k.stat[t] = "suspend"
  /\ k'.stat[t] # "suspend" /\ k'.error[t] # "EOK"
Elsewise(t) == ~Holds(t) /\ ~Holds(t)'

LEMMA StandsKept ==
  ASSUME StandInv, NEW S, \A t \in Thread \ S : Stays(t) \/ Fails(t) \/ Elsewise(t),
         \A t \in Thread : t \in S => (Holds(t)' /\ k'.stat[t] = "suspend" => Awaits(t)')
  PROVE  StandInv' /\ \A t \in Thread \ S : (Got(t)' <=> Got(t)) /\ (Holds(t)' <=> Holds(t))
<1>1. ASSUME NEW t \in Thread, t \notin S
      PROVE  /\ Holds(t)' /\ k'.stat[t] = "suspend" => Awaits(t)'
             /\ (Got(t)' <=> Got(t)) /\ (Holds(t)' <=> Holds(t))
  <2>1. CASE Stays(t)
    BY <2>1 DEF StandInv, Stays, Holds, Got
  <2>2. CASE Fails(t)
    BY <2>2 DEF StandInv, Fails, Holds, Got
  <2>3. CASE Elsewise(t)
    BY <2>3 DEF Elsewise, Got
  <2> QED  BY <1>1, <2>1, <2>2, <2>3
<1> QED  BY <1>1 DEF StandInv

LEMMA StandsAll ==
  ASSUME StandInv, \A t \in Thread : Stays(t) \/ Fails(t) \/ Elsewise(t)
  PROVE  StandInv' /\ \A t \in Thread : (Got(t)' <=> Got(t)) /\ (Holds(t)' <=> Holds(t))
<1>1. \A t \in Thread \ {} : Stays(t) \/ Fails(t) \/ Elsewise(t)
  OBVIOUS
<1>2. \A t \in Thread : t \in {} => (Holds(t)' /\ k'.stat[t] = "suspend" => Awaits(t)')
  OBVIOUS
<1> HIDE DEF StandInv, Stays, Fails, Elsewise, Holds, Awaits, Got
<1>3. StandInv' /\ \A t \in Thread \ {} : (Got(t)' <=> Got(t)) /\ (Holds(t)' <=> Holds(t))
  BY <1>1, <1>2, StandsKept
<1> QED  BY <1>3

LEMMA StandsBut ==
  ASSUME StandInv, NEW h \in Thread, \A t \in Thread \ {h} : Stays(t) \/ Fails(t) \/ Elsewise(t),
         Holds(h)' /\ k'.stat[h] = "suspend" => Awaits(h)'
  PROVE  StandInv' /\ \A t \in Thread \ {h} : (Got(t)' <=> Got(t)) /\ (Holds(t)' <=> Holds(t))
<1>1. \A t \in Thread : t \in {h} => (Holds(t)' /\ k'.stat[t] = "suspend" => Awaits(t)')
  OBVIOUS
<1> QED  BY <1>1, StandsKept

(* The lists of those who wait lose at most one thread; no priority changes. *)
Orders ==
  /\ k'.prio = k.prio
  /\ \/ k'.queue["receivers"] = k.queue["receivers"]
     \/ \E t \in Thread : k'.queue["receivers"] = Without(k.queue["receivers"], t)

LEMMA TickLeaves ==
  ASSUME KInv, MailInv, Tick
  PROVE  /\ k'.stat = k.stat /\ k'.error = k.error /\ k'.queue = k.queue /\ k'.prio = k.prio
         /\ \A t \in Thread : Place(call'[t]) = Place(call[t])
<1> DEFINE L == CountSlice(k)
           g == [u \in Thread |-> IF L.timer[u] > 0 THEN L.timer[u] - 1 ELSE 0]
<1>1. k' = [L EXCEPT !.timer = g] /\ call' = [u \in Thread |-> Aged(call[u])]
  BY DEF Tick
<1>2. /\ Listed(k) /\ k.stat[Idle] = "ready" /\ Idle \in Thread /\ k.cur \in Thread
      /\ \A u \in Thread : k.slice[u] \in 1..InitTick[u]
  BY Priorities DEF KInv, LockFree
<1>3. Lists(k, Ready(k)) /\ OnceElsewhere(k) /\ Ready(k) # {} /\ Ready(k) \in SUBSET Thread
  BY <1>2 DEF Listed, Ready
<1>4. k.stat[k.cur] = "ready" => k.cur \in Ready(k) /\ ~Elsewhere(k, k.cur)
  BY <1>2 DEF KInv, QueuesInv, Ready
<1>5. /\ L \in KState /\ SameElsewhere(L, k) /\ L.stat = k.stat /\ L.prio = k.prio
      /\ L.error = k.error
  BY <1>2, <1>3, <1>4, SliceCounted DEF Lists
<1> HIDE DEF L, g
<1>6. k'.stat = L.stat /\ k'.error = L.error /\ k'.queue = L.queue /\ k'.prio = L.prio
  BY <1>1, <1>5 DEF KState
<1>7. \A u \in Thread : SameCall(call'[u], call[u])
  BY <1>1, AgedIs DEF MailInv, CallsFit, CallFits
<1> QED  BY <1>5, <1>6, <1>7 DEF SameElsewhere, SameCall

(* The kernel's steps promise nothing and take nothing back.               *)
LEMMA CommonStands ==
  ASSUME KInv, MailInv, Common
  PROVE  Orders /\ \A t \in Thread : Stays(t) \/ Fails(t) \/ Elsewise(t)
<1>1. Listed(k) /\ k.stat \in [Thread -> Stats] /\ k.error \in [Thread -> {"EOK", "ETIMEOUT", "ERROR"}]
      /\ k.lock = 0 /\ k.stat[Idle] = "ready" /\ Idle \in Thread /\ "receivers" \in Queues
  BY ListedIs, Priorities DEF KInv, LockFree, Queues
<1>2. CASE Tick
  BY <1>2, TickLeaves DEF Stays, Awaits, Orders
<1>3. ASSUME NEW t \in Thread, Expire(t)  PROVE Orders /\ \A u \in Thread : Stays(u) \/ Fails(u)
  <2>1. k.stat[t] = "suspend" /\ k' = rt_thread_timeout(k, t) /\ UNCHANGED call
    BY <1>3 DEF Expire, KInv, ClockInv, Ticking
  <2>2. Woken(k', k, t) /\ k'.error = [k.error EXCEPT ![t] = "ETIMEOUT"]
    BY <1>1, <2>1, TimeoutIs
  <2>3. \A u \in Thread : /\ k'.stat[u] = IF u = t THEN "ready" ELSE k.stat[u]
                          /\ k'.error[u] = IF u = t THEN "ETIMEOUT" ELSE k.error[u]
    BY <1>1, <2>2 DEF Woken
  <2>4. \A u \in Thread \ {t} : Awaits(u)' <=> Awaits(u)
    <3>1. \A u : In(QueuesWithout(k, t)["receivers"], u) <=> In(k.queue["receivers"], u) /\ u # t
      BY <1>1, QueuesWithoutIs
    <3>2. k'.queue = QueuesWithout(k, t)
      BY <2>2 DEF Woken
    <3> QED  BY <3>1, <3>2 DEF Awaits
  <2>5. ASSUME NEW u \in Thread \ {t}  PROVE Stays(u)
    BY <2>1, <2>3, <2>4 DEF Stays
  <2>6. Fails(t)
    BY <2>1, <2>3 DEF Fails
  <2>7. Orders
    BY <1>1, <2>2 DEF Orders, Woken, QueuesWithout
  <2> QED  BY <2>5, <2>6, <2>7
<1>4. ASSUME NEW t \in Thread, Schedule(t)  PROVE Orders /\ \A u \in Thread : Stays(u)
  <2>1. /\ call[t].pc = "schedule" /\ k' = rt_schedule(k) /\ call' = [call EXCEPT ![t].pc = call[t].then]
    BY <1>4 DEF Schedule, At, Goto
  <2>2. k'.stat = k.stat /\ k'.error = k.error /\ k'.queue = k.queue /\ k'.prio = k.prio
    BY <1>1, <2>1, ScheduledIs
  <2>3. "pc" \in DOMAIN call[t] /\ "then" \in DOMAIN call[t] /\ DOMAIN call = Thread
        /\ call[t].then # "schedule"
    <3>1. CallFits(call[t], obj.kind) /\ DOMAIN call = Thread /\ obj.kind \in Kinds
      BY DEF MailInv, CallsFit, ObjectFits
    <3>2. "schedule" \notin PlacesOf(obj.kind)
      BY <3>1, ObjectsAssumption DEF PlacesOf
    <3> QED  BY <2>1, <3>1, <3>2 DEF CallFits, Place
  <2>4. \A u \in Thread : Place(call'[u]) = Place(call[u])
    BY <2>1, <2>3 DEF Place
  <2> QED  BY <2>2, <2>4 DEF Stays, Awaits, Orders
<1>5. ASSUME NEW t \in Thread, Slept(t)  PROVE Orders /\ \A u \in Thread : Stays(u) \/ Elsewise(u)
  <2>1. /\ call' = [call EXCEPT ![t] = InUser] /\ call[t].pc = "slept"
        /\ k' = IF k.error[t] = "ETIMEOUT" THEN [k EXCEPT !.error[t] = "EOK"] ELSE k
    BY <1>5 DEF Slept, At, Return
  <2>2. DOMAIN call = Thread /\ k \in KState
    BY <1>1, ListedIs DEF MailInv, CallsFit
  <2>3. k'.stat = k.stat /\ k'.queue = k.queue /\ k'.prio = k.prio /\ \A u \in Thread \ {t} : k'.error[u] = k.error[u]
    BY <1>1, <2>1, <2>2 DEF KState
  <2>4. ASSUME NEW u \in Thread \ {t}  PROVE Stays(u)
    BY <2>1, <2>2, <2>3 DEF Stays, Awaits
  <2>5. Elsewise(t)
    BY <2>1, <2>2 DEF Elsewise, Holds, Place, InUser
  <2> QED  BY <2>3, <2>4, <2>5 DEF Orders
<1>6. ASSUME NEW t \in Thread, rt_thread_sleep(t, 1)  PROVE Orders /\ \A u \in Thread : Stays(u) \/ Elsewise(u)
  <2> DEFINE M == rt_thread_suspend(k, t)
  <2>1. /\ Runs(t) /\ call[t].pc = "user" /\ call' = [call EXCEPT ![t] = ScheduleThen("slept")]
        /\ k' = [M EXCEPT !.timer[t] = 1]
    BY <1>6 DEF rt_thread_sleep, At, StartTimer
  <2>2. k.stat[t] = "ready" /\ ~Elsewhere(k, t) /\ Lists(k, Ready(k)) /\ OnceElsewhere(k)
    BY <2>1, RunsIs DEF Listed
  <2>3. /\ M.stat = [k.stat EXCEPT ![t] = "suspend"] /\ SameElsewhere(M, k) /\ M.error = k.error
        /\ M.prio = k.prio /\ Lists(M, Ready(k) \ {t})
    BY <2>2, Suspended
  <2> HIDE DEF M
  <2>4. M \in KState
    BY <2>3 DEF Lists
  <2>5. k'.stat = M.stat /\ k'.error = M.error /\ k'.queue = M.queue /\ k'.prio = M.prio
    BY <2>1, <2>4 DEF KState
  <2>6. DOMAIN call = Thread
    BY DEF MailInv, CallsFit
  <2>7. ASSUME NEW u \in Thread \ {t}  PROVE Stays(u)
    BY <1>1, <2>1, <2>3, <2>5, <2>6 DEF Stays, Awaits, SameElsewhere
  <2>8. Elsewise(t)
    BY <2>1, <2>6 DEF Elsewise, Holds, Place, ScheduleThen
  <2>9. Orders
    BY <2>3, <2>5 DEF Orders, SameElsewhere
  <2> QED  BY <2>7, <2>8, <2>9
<1>7. Sleeper[obj.kind] \subseteq Thread
  BY ObjectsAssumption DEF MailInv, ObjectFits
<1> QED  BY <1>2, <1>3, <1>4, <1>5, <1>6, <1>7 DEF Common, Interrupts

(* In the middle of a take, or outside of the kernel.                      *)
LEMMA StandsAt ==
  ASSUME KInv, StandInv, NEW t \in Thread, Holds(t), Elsewhere(k, t)
  PROVE  Awaits(t)
BY DEF KInv, QueuesInv, StandInv

LEMMA RunnerHas ==
  ASSUME KInv, NEW t \in Thread, Runs(t), call[t].pc # "schedule"
  PROVE  ~Awaits(t) /\ k.stat[t] = "ready" /\ (Got(t) <=> Holds(t) /\ k.error[t] = "EOK")
<1>1. ~Elsewhere(k, t) /\ k.stat[t] = "ready" /\ Listed(k)
  BY RunsIs
<1>2. ~Awaits(t)
  BY <1>1, ListedIs DEF Awaits, Queues
<1> QED  BY <1>1, <1>2 DEF Got

(* A thread starts to wait.                                                *)
LEMMA WaitStands ==
  ASSUME KInv, DOMAIN call = Thread, NEW t \in Thread \ {Idle}, Runs(t), call[t].pc # "schedule",
         NEW L, Prepared(L), NEW time \in Int, k' = Wait(L, "receivers", t, time),
         NEW c, call' = [call EXCEPT ![t] = c]
  PROVE  /\ Awaits(t)' /\ k'.prio = L.prio /\ \A u \in Thread \ {t} : Stays(u)
         /\ k'.queue["receivers"] = InsertAt(k.queue["receivers"], PlaceIn(L, k.queue["receivers"], t), t)
<1>1. k.stat[t] = "ready" /\ ~Elsewhere(k, t) /\ Listed(k) /\ "receivers" \in Queues
  BY RunsIs DEF Queues
<1>2. ~Elsewhere(L, t) /\ L.stat[t] = "ready"
  BY <1>1, ListedIs DEF Prepared
<1>3. Waiter(k', L, "receivers", t, time)
  BY <1>1, <1>2, WaitIs DEF Prepared
<1>4. /\ k.stat \in [Thread -> Stats] /\ k.error \in [Thread -> {"EOK", "ETIMEOUT", "ERROR"}]
      /\ k.queue \in [Queues -> Seq(Thread)]
  BY <1>1, ListedIs
<1>5. /\ k'.stat = [k.stat EXCEPT ![t] = "suspend"] /\ k'.error = [k.error EXCEPT ![t] = "EOK"]
      /\ k'.queue = [k.queue EXCEPT !["receivers"] = InsertAt(@, PlaceIn(L, k.queue["receivers"], t), t)]
      /\ \A x \in Queues : \A u : In(k'.queue[x], u) <=> In(k.queue[x], u) \/ (x = "receivers" /\ u = t)
      /\ k'.prio = L.prio
  BY <1>3 DEF Waiter, Prepared
<1>7. /\ \A u \in Thread \ {t} : k'.stat[u] = k.stat[u] /\ k'.error[u] = k.error[u]
      /\ k'.queue["receivers"] = InsertAt(k.queue["receivers"], PlaceIn(L, k.queue["receivers"], t), t)
  BY <1>1, <1>4, <1>5
<1>8. \A u : In(k'.queue["receivers"], u) <=> In(k.queue["receivers"], u) \/ u = t
  BY <1>1, <1>5
<1>6. \A u \in Thread \ {t} : call'[u] = call[u]
  OBVIOUS
<1> QED  BY <1>5, <1>6, <1>7, <1>8 DEF Stays, Awaits

(* The first of those who wait is given what it waits for.                 *)
LEMMA FirstStands ==
  ASSUME KInv, NEW R, Prepared(R), ~NoneWaits("receivers"),
         NEW L, L = rt_ipc_list_resume(R, "receivers"),
         k' = L \/ k' = rt_schedule(L)
  PROVE  LET h == Head(k.queue["receivers"])
         IN  /\ h \in Thread /\ Awaits(h) /\ ~In(k'.queue["receivers"], h) /\ k'.stat[h] = "ready" /\ k'.error = k.error
             /\ k.error[h] = "EOK" /\ k.stat[h] = "suspend"
             /\ k'.prio = R.prio /\ k'.queue["receivers"] = Without(k.queue["receivers"], h)
             /\ \A u \in Thread \ {h} : k'.stat[u] = k.stat[u] /\ (Awaits(u)' <=> Awaits(u))
<1> DEFINE h == Head(k.queue["receivers"])
<1>1. /\ Listed(k) /\ "receivers" \in Queues /\ k.queue["receivers"] # <<>> /\ k.lock = 0
      /\ k.stat[Idle] = "ready" /\ Idle \in Thread
  BY Priorities DEF KInv, LockFree, Queues, NoneWaits
<1>2. h \in Thread /\ In(k.queue["receivers"], h)
  BY <1>1, ListedIs, HeadIn
<1>3. Elsewhere(k, h) /\ k.stat[h] = "suspend" /\ k.error[h] = "EOK"
  BY <1>1, <1>2, QueuedIs DEF KInv, QueuesInv
<1>4. L = rt_thread_resume(R, h)
  BY DEF rt_ipc_list_resume, Prepared
<1> HIDE DEF h
<1>5. Woken(L, R, h) /\ L.error = k.error
  BY <1>2, <1>3, <1>4, ResumeIs DEF Prepared
<1>6. L.lock = 0 /\ Listed(L) /\ L.stat = [k.stat EXCEPT ![h] = "ready"] /\ L.prio = R.prio
      /\ L.queue = QueuesWithout(R, h) /\ R.queue = k.queue
  BY <1>1, <1>5 DEF Woken, Prepared
<1>7. L.stat[Idle] = "ready"
  BY <1>1, <1>2, <1>6, ListedIs
<1>8. k'.stat = L.stat /\ k'.error = k.error /\ k'.queue = L.queue /\ k'.prio = L.prio
  BY <1>5, <1>6, <1>7, ScheduledIs
<1>9. \A u : In(QueuesWithout(R, h)["receivers"], u) <=> In(k.queue["receivers"], u) /\ u # h
  BY <1>1, <1>6, QueuesWithoutIs DEF Prepared
<1>10. \A u \in Thread : k'.stat[u] = IF u = h THEN "ready" ELSE k.stat[u]
  BY <1>1, <1>2, <1>6, <1>8, ListedIs
<1>11. k'.queue["receivers"] = Without(k.queue["receivers"], h)
  BY <1>1, <1>6, <1>8 DEF QueuesWithout
<1>12. Awaits(h) /\ ~In(k'.queue["receivers"], h) /\ \A u \in Thread \ {h} : Awaits(u)' <=> Awaits(u)
  BY <1>2, <1>6, <1>8, <1>9 DEF Awaits
<1> QED  BY <1>2, <1>3, <1>6, <1>8, <1>10, <1>11, <1>12 DEF h

(* Nobody waits or is woken; the thread that runs goes on.                 *)
LEMMA AloneStands ==
  ASSUME NEW t \in Thread, k'.stat = k.stat, k'.queue = k.queue,
         \A u \in Thread \ {t} : k'.error[u] = k.error[u] /\ call'[u] = call[u]
  PROVE  \A u \in Thread \ {t} : Stays(u)
BY DEF Stays, Awaits

(* The end of an object gives nobody what it waits for.                    *)
LEMMA EndingStands ==
  ASSUME KInv, MailInv, Ending
  PROVE  Orders /\ \A t \in Thread : Stays(t) \/ Fails(t) \/ Elsewise(t)
<1>1. DOMAIN call = Thread /\ \A t \in Thread : "pc" \in DOMAIN call[t]
  BY DEF MailInv, CallsFit, CallFits
<1>2. ASSUME NEW t \in Thread, Detach(t) \/ Test(t)
      PROVE  Orders /\ \A u \in Thread : Stays(u) \/ Elsewise(u)
  <2>1. k' = k /\ call[t].pc \in {"user", "test"}
    BY <1>2 DEF Detach, Test, User, At
  <2>2. PICK c : call' = [call EXCEPT ![t] = c] /\ Place(c) \notin {"taken", "locked"}
    <3>1. CASE Detach(t)
      <4>1. Place([pc |-> "test", q |-> "receivers"]) = "test"
        BY DEF Place
      <4> QED  BY <3>1, <4>1 DEF Detach
    <3>2. CASE Test(t) /\ ~NoneWaits(call[t].q)
      <4>1. Place([call[t] EXCEPT !.pc = "wake"]) = "wake"
        BY <1>1 DEF Place
      <4> QED  BY <3>2, <4>1 DEF Test, Goto
    <3>3. CASE Test(t) /\ NoneWaits(call[t].q) /\ call[t].q = "receivers"
      <4>1. call[t].pc = "test"
        BY <3>3 DEF Test, At
      <4>2. Place([call[t] EXCEPT !.q = "senders"]) = "test"
        BY <1>1, <4>1 DEF Place
      <4> QED  BY <3>3, <4>2 DEF Test
    <3>4. CASE Test(t) /\ NoneWaits(call[t].q) /\ call[t].q # "receivers"
      <4>1. Place(InUser) = "user"
        BY DEF Place, InUser
      <4> QED  BY <3>4, <4>1 DEF Test, Return
    <3> QED  BY <1>2, <3>1, <3>2, <3>3, <3>4
  <2>3. \A u \in Thread \ {t} : Stays(u)
    BY <2>1, <2>2 DEF Stays, Awaits
  <2>4. Elsewise(t)
    BY <1>1, <2>1, <2>2 DEF Elsewise, Holds, Place
  <2> QED  BY <2>1, <2>3, <2>4 DEF Orders
<1>3. ASSUME NEW t \in Thread, Wake(t)
      PROVE  Orders /\ \A u \in Thread : Stays(u) \/ Fails(u) \/ Elsewise(u)
  <2> DEFINE c == [call[t] EXCEPT !.pc = "test"]
  <2>1. /\ Runs(t) /\ call[t].pc = "wake" /\ call' = [call EXCEPT ![t] = c]
    BY <1>3 DEF Wake, At, Goto
  <2>2. Place(c) = "test" /\ Place(call[t]) = "wake"
    BY <1>1, <2>1 DEF Place
  <2> HIDE DEF c
  <2>3. "q" \in DOMAIN call[t] /\ call[t].q \in Queues /\ k.queue[call[t].q] # <<>> /\ Listed(k)
    BY <2>1, <2>2, RunsIs DEF KInv, EndInv, Ends
  <2>4. PICK h \in Thread : h = Head(k.queue[call[t].q]) /\ In(k.queue[call[t].q], h)
    BY <2>3, ListedIs, HeadIn
  <2>5. k.stat[h] = "suspend" /\ Elsewhere(k, h) /\ ~Elsewhere(k, t)
    BY <2>1, <2>3, <2>4, QueuedIs, RunsIs
  <2> DEFINE L == WakeWithError(k, h)
  <2>6. k' = [L EXCEPT !.owed = TRUE]
    BY <1>3, <2>3, <2>4 DEF Wake
  <2>7. Woken(L, k, h) /\ L.error = [k.error EXCEPT ![h] = "ERROR"]
    BY <2>3, <2>5, WakeErrorIs
  <2> HIDE DEF L
  <2>8. k'.stat = L.stat /\ k'.error = L.error /\ k'.queue = L.queue /\ k'.prio = L.prio
    BY <2>6, <2>7, ListedIs DEF Woken, KState
  <2>9. \A u \in Thread : /\ k'.stat[u] = IF u = h THEN "ready" ELSE k.stat[u]
                          /\ k'.error[u] = IF u = h THEN "ERROR" ELSE k.error[u]
    BY <2>3, <2>7, <2>8, ListedIs DEF Woken
  <2>10. k'.queue["receivers"] = Without(k.queue["receivers"], h)
         /\ \A u \in Thread \ {h} : Awaits(u)' <=> Awaits(u)
    <3>1. \A u : In(QueuesWithout(k, h)["receivers"], u) <=> In(k.queue["receivers"], u) /\ u # h
      BY <2>3, QueuesWithoutIs DEF Queues
    <3>2. k'.queue = QueuesWithout(k, h)
      BY <2>7, <2>8 DEF Woken
    <3> QED  BY <3>1, <3>2 DEF Awaits, QueuesWithout, Queues
  <2>11. \A u \in Thread \ {t} : call'[u] = call[u]
    BY <2>1
  <2>12. ASSUME NEW u \in Thread \ {h, t}  PROVE Stays(u)
    BY <2>9, <2>10, <2>11 DEF Stays
  <2>13. h # t => Fails(h)
    BY <2>5, <2>9, <2>11 DEF Fails
  <2>14. Elsewise(t)
    BY <1>1, <2>1, <2>2 DEF Elsewise, Holds
  <2>15. Orders
    BY <2>7, <2>8, <2>10 DEF Orders, Woken
  <2> QED  BY <2>12, <2>13, <2>14, <2>15
<1> QED  BY <1>2, <1>3 DEF Ending

(* The thread that has the mutex knows it, or was promised it and will.    *)
OwnerInv ==
  obj.kind = "mutex" /\ obj.live =>
    /\ obj.holds \in [Thread -> Nat] /\ obj.hold \in Nat /\ (obj.owner = None => obj.hold = 0)
    /\ \A t \in Thread :
         IF t = obj.owner
         THEN \/ obj.holds[t] > 0 /\ obj.hold = obj.holds[t] /\ ~Holds(t)
              \/ obj.holds[t] = 0 /\ obj.hold = 1 /\ Got(t)
         ELSE obj.holds[t] = 0 /\ ~Got(t)

LEMMA OwnerSame ==
  ASSUME OwnerInv, obj' = obj, NEW h \in Thread, h # obj.owner, ~Got(h)',
         \A t \in Thread \ {h} : (Got(t)' <=> Got(t)) /\ (Holds(t)' <=> Holds(t))
  PROVE  OwnerInv'
BY DEF OwnerInv

(* A thread that is in user code, and what it calls of a mutex.            *)
LEMMA MutexUser ==
  ASSUME KInv, MailInv, ObjInv, NEW t \in Thread, User(t), Of("mutex")
  PROVE  /\ obj.live /\ obj.kind = "mutex" /\ Runs(t) /\ call[t].pc # "schedule" /\ DOMAIN call = Thread
         /\ ~Holds(t) /\ ~Got(t) /\ ~Awaits(t) /\ Listed(k)
         /\ {"owner", "value", "original_priority", "hold", "holds", "live"} \subseteq DOMAIN obj
BY RunnerHas, RunsIs DEF User, At, Of, Holds, Place, Got, ObjInv, MailInv, CallsFit

LEMMA TakenOwns ==
  ASSUME KInv, MailInv, ObjInv, StandInv, OwnerInv, NEW t \in Thread \ {Idle}, NEW time \in TimeOuts,
         rt_mutex_take(t, time)
  PROVE  StandInv' /\ OwnerInv'
<1>1. /\ obj.live /\ obj.kind = "mutex" /\ Runs(t) /\ call[t].pc # "schedule" /\ DOMAIN call = Thread
      /\ ~Holds(t) /\ ~Got(t) /\ Listed(k)
      /\ {"owner", "value", "original_priority", "hold", "holds", "live"} \subseteq DOMAIN obj
  BY MutexUser DEF rt_mutex_take
<1>2. /\ obj.holds \in [Thread -> Nat] /\ obj.hold \in Nat /\ (obj.owner = None => obj.hold = 0)
      /\ \A u \in Thread :
           IF u = obj.owner
           THEN \/ obj.holds[u] > 0 /\ obj.hold = obj.holds[u] /\ ~Holds(u)
                \/ obj.holds[u] = 0 /\ obj.hold = 1 /\ Got(u)
           ELSE obj.holds[u] = 0 /\ ~Got(u)
      /\ obj.value \in {0, 1} /\ (obj.owner = None <=> obj.value = 1) /\ None \notin Thread
  BY <1>1, MutexAssumption DEF OwnerInv, ObjInv, None
<1>3. ASSUME k' = [k EXCEPT !.error[t] = "EOK"], UNCHANGED call
      PROVE  StandInv' /\ \A u \in Thread : (Got(u)' <=> Got(u)) /\ (Holds(u)' <=> Holds(u))
  <2>1. k'.stat = k.stat /\ k'.queue = k.queue /\ \A u \in Thread \ {t} : k'.error[u] = k.error[u]
    BY <1>1, <1>3, ListedIs DEF KState
  <2>2. Elsewise(t) /\ \A u \in Thread \ {t} : Stays(u)
    BY <1>1, <1>3, <2>1, AloneStands DEF Elsewise, Holds
  <2> QED  BY <2>2, StandsAll
<1>4. CASE obj.owner = t /\ obj' = [obj EXCEPT !.hold = @ + 1, !.holds[t] = @ + 1]
           /\ k' = [k EXCEPT !.error[t] = "EOK"] /\ UNCHANGED call
  <2>1. obj.holds[t] > 0 /\ obj.hold = obj.holds[t]
    BY <1>1, <1>2, <1>4
  <2>2. /\ obj'.owner = t /\ obj'.hold = obj.hold + 1
        /\ obj'.holds = [obj.holds EXCEPT ![t] = @ + 1]
    BY <1>1, <1>4
  <2>3. /\ obj'.holds \in [Thread -> Nat] /\ obj'.hold \in Nat /\ obj'.holds[t] > 0 /\ obj'.hold = obj'.holds[t]
        /\ \A u \in Thread \ {t} : obj'.holds[u] = 0
    BY <1>2, <1>4, <2>1, <2>2
  <2>4. \A u \in Thread : u # t => ~Got(u)
    BY <1>2, <1>4
  <2> QED  BY <1>1, <1>2, <1>3, <1>4, <2>2, <2>3, <2>4 DEF OwnerInv
<1>5. CASE obj.owner # t /\ obj.value > 0
           /\ obj' = [OwnedBy(obj, k, t) EXCEPT !.value = @ - 1, !.holds[t] = 1]
           /\ k' = [k EXCEPT !.error[t] = "EOK"] /\ UNCHANGED call
  <2>1. obj.owner = None /\ obj.hold = 0 /\ \A u \in Thread : obj.holds[u] = 0 /\ ~Got(u)
    BY <1>2, <1>5
  <2>2. obj'.owner = t /\ obj'.hold = obj.hold + 1 /\ obj'.holds = [obj.holds EXCEPT ![t] = 1]
    BY <1>1, <1>5 DEF OwnedBy
  <2>3. /\ obj'.holds \in [Thread -> Nat] /\ obj'.hold \in Nat /\ obj'.holds[t] > 0 /\ obj'.hold = obj'.holds[t]
        /\ \A u \in Thread \ {t} : obj'.holds[u] = 0
    BY <1>2, <2>1, <2>2
  <2> QED  BY <1>1, <1>2, <1>3, <1>5, <2>1, <2>2, <2>3 DEF OwnerInv
<1>6. CASE /\ obj.owner # t /\ obj.value = 0 /\ time # 0 /\ k.lock = 0
           /\ k' = Wait(Inherit(k, t), "receivers", t, time)
           /\ call' = [call EXCEPT ![t] = ScheduleThen("locked")]
           /\ UNCHANGED obj
  <2> DEFINE c == ScheduleThen("locked")
             L == Inherit(k, t)
  <2>1. obj.owner \in Thread
    BY <1>1, <1>2, <1>6 DEF ObjInv
  <2>2. k.prio[t] \in Prio /\ Prepared(k)
    BY <1>1, ListedIs, PreparedIs
  <2>3. Prepared(L)
    BY <2>1, <2>2, PriorityIs DEF Inherit
  <2>4. time \in Int /\ k' = Wait(L, "receivers", t, time) /\ call' = [call EXCEPT ![t] = c]
    BY <1>6, TimeOutIs
  <2> HIDE DEF c, L
  <2>5. Awaits(t)' /\ \A u \in Thread \ {t} : Stays(u)
    BY <1>1, <2>3, <2>4, WaitStands
  <2>6. StandInv' /\ \A u \in Thread \ {t} : (Got(u)' <=> Got(u)) /\ (Holds(u)' <=> Holds(u))
    BY <2>5, StandsBut
  <2>7. ~Got(t)'
    BY <2>5 DEF Got
  <2> QED  BY <1>6, <2>6, <2>7, OwnerSame
<1> QED  BY <1>4, <1>5, <1>6 DEF rt_mutex_take

LEMMA LockedOwns ==
  ASSUME KInv, MailInv, ObjInv, StandInv, OwnerInv, NEW t \in Thread \ {Idle}, Locked(t)
  PROVE  StandInv' /\ OwnerInv'
<1>1. /\ Runs(t) /\ call[t].pc = "locked" /\ Holds(t) /\ DOMAIN call = Thread /\ obj.kind = "mutex"
      /\ k' = k /\ call' = [call EXCEPT ![t] = InUser]
      /\ {"owner", "value", "original_priority", "hold", "holds", "live"} \subseteq DOMAIN obj
  BY KindAt DEF Locked, At, Return, Holds, Place, ObjInv, MailInv, CallsFit
<1>2. Got(t) <=> k.error[t] = "EOK"
  BY <1>1, RunnerHas
<1>3. ~Holds(t)' /\ ~Got(t)'
  BY <1>1 DEF Holds, Place, InUser, Got
<1>4. \A u \in Thread \ {t} : Stays(u)
  BY <1>1, AloneStands
<1>5. StandInv' /\ \A u \in Thread \ {t} : (Got(u)' <=> Got(u)) /\ (Holds(u)' <=> Holds(u))
  BY <1>3, <1>4, StandsBut
<1>6. CASE ~obj.live
  BY <1>1, <1>5, <1>6 DEF Locked, OwnerInv
<1>7. CASE obj.live /\ k.error[t] = "EOK"
  <2>1. t = obj.owner /\ obj.hold = 1 /\ obj.holds \in [Thread -> Nat]
        /\ \A u \in Thread \ {t} : obj.holds[u] = 0 /\ ~Got(u)
    BY <1>1, <1>2, <1>7 DEF OwnerInv
  <2>2. obj' = [obj EXCEPT !.holds[t] = 1]
    BY <1>7 DEF Locked
  <2>3. obj'.owner = t /\ obj'.hold = 1 /\ obj'.holds = [obj.holds EXCEPT ![t] = 1]
    BY <1>1, <2>1, <2>2
  <2>4. obj'.holds \in [Thread -> Nat] /\ obj'.holds[t] = 1 /\ \A u \in Thread \ {t} : obj'.holds[u] = 0
    BY <2>1, <2>3
  <2>5. obj'.owner # None /\ \A u \in Thread \ {t} : ~Got(u)'
    BY <1>5, <2>1, <2>3, MutexAssumption DEF None
  <2>6. /\ obj'.hold \in Nat /\ obj'.owner # None
        /\ obj'.holds[t] > 0 /\ obj'.hold = obj'.holds[t] /\ ~Holds(t)' /\ obj'.owner = t
        /\ \A u \in Thread \ {t} : obj'.holds[u] = 0 /\ ~Got(u)'
    BY <1>3, <2>3, <2>4, <2>5
  <2>7. OwnerInv'
    BY <2>4, <2>6 DEF OwnerInv
  <2> QED  BY <1>5, <2>7
<1>8. CASE obj.live /\ k.error[t] # "EOK"
  <2>1. t # obj.owner /\ obj' = obj
    BY <1>1, <1>2, <1>8 DEF OwnerInv, Locked
  <2> QED  BY <1>3, <1>5, <2>1, OwnerSame
<1> QED  BY <1>6, <1>7, <1>8

LEMMA ReleaseOwns ==
  ASSUME KInv, MailInv, ObjInv, StandInv, OwnerInv, NEW t \in Thread \ {Idle}, Release(t)
  PROVE  StandInv' /\ OwnerInv'
<1> DEFINE R == Restored(k, t)
           o == [obj EXCEPT !.hold = 0, !.holds[t] = 0]
<1>1. /\ obj.live /\ obj.kind = "mutex" /\ Runs(t) /\ call[t].pc # "schedule" /\ DOMAIN call = Thread
      /\ ~Holds(t) /\ ~Got(t) /\ ~Awaits(t) /\ Listed(k) /\ obj.owner = t
      /\ {"owner", "value", "original_priority", "hold", "holds", "live"} \subseteq DOMAIN obj
  BY MutexUser DEF Release
<1>2. /\ obj.holds \in [Thread -> Nat] /\ None \notin Thread
      /\ \A u \in Thread \ {t} : obj.holds[u] = 0 /\ ~Got(u)
  BY <1>1, MutexAssumption DEF OwnerInv, None
<1>3. Prepared(R)
  BY <1>1, RestoredIs
<1>4. /\ o.hold = 0 /\ o.holds = [obj.holds EXCEPT ![t] = 0] /\ DOMAIN o = DOMAIN obj
  BY <1>1
<1>5. o.holds \in [Thread -> Nat] /\ \A u \in Thread : o.holds[u] = 0
  BY <1>2, <1>4
<1> HIDE DEF o
<1>6. CASE NoneWaits("receivers")
  <2>1. k' = [R EXCEPT !.owed = @ \/ R.prio # k.prio] /\ UNCHANGED call
    BY <1>6 DEF Release
  <2> HIDE DEF R
  <2>2. k'.stat = k.stat /\ k'.queue = k.queue /\ k'.error = k.error
    BY <1>3, <2>1, ListedIs DEF Prepared, KState
  <2>3. \A u \in Thread : Stays(u)
    BY <2>1, <2>2 DEF Stays, Awaits
  <2>4. StandInv' /\ \A u \in Thread : (Got(u)' <=> Got(u)) /\ (Holds(u)' <=> Holds(u))
    BY <2>3, StandsAll
  <2>5. obj' = [o EXCEPT !.value = @ + 1, !.owner = None, !.original_priority = Unset]
    BY <1>6 DEF Release, o
  <2>6. obj'.owner = None /\ obj'.hold = 0 /\ obj'.holds = o.holds
    BY <1>1, <1>4, <2>5
  <2> QED  BY <1>1, <1>2, <1>5, <2>4, <2>6 DEF OwnerInv
<1>7. CASE ~NoneWaits("receivers")
  <2> DEFINE c == ScheduleThen("user")
  <2>1. k' = rt_ipc_list_resume(R, "receivers") /\ call' = [call EXCEPT ![t] = c]
    BY <1>7, IPCAssumption DEF Release, ThenSchedule
  <2>2. Place(c) = "user"
    BY DEF ScheduleThen, Place
  <2> HIDE DEF R, c
  <2>3. PICK h \in Thread : h = Head(k.queue["receivers"])
    BY <1>3, <1>7, <2>1, FirstStands
  <2>4. /\ Awaits(h) /\ ~Awaits(h)' /\ k'.error = k.error /\ k'.stat[h] = "ready"
        /\ k.error[h] = "EOK" /\ k.stat[h] = "suspend"
        /\ \A u \in Thread \ {h} : k'.stat[u] = k.stat[u] /\ (Awaits(u)' <=> Awaits(u))
    BY <1>3, <1>7, <2>1, <2>3, FirstStands DEF Awaits
  <2>5. h # t
    BY <1>1, <2>4
  <2>6. Place(call[h]) \in WaitPlaces \ {"slept"}
    <3>1. Elsewhere(k, h)
      BY <1>1, <2>4, ListedIs DEF Awaits, Queues
    <3> QED  BY <3>1 DEF KInv, QueuesInv
  <2>7. Place(call[h]) = "locked"
    BY <1>1, <2>6, ObjectsAssumption DEF MailInv, CallsFit, CallFits, PlacesOf, WaitPlaces
  <2>8. Place(call'[h]) = "locked" /\ Place(call'[t]) = "user"
    BY <1>1, <2>1, <2>2, <2>5, <2>7
  <2>9. \A u \in Thread \ {h, t} : Stays(u)
    BY <2>1, <2>4 DEF Stays
  <2>10. Elsewise(t)
    BY <1>1, <2>8 DEF Elsewise, Holds
  <2>11. StandInv' /\ \A u \in Thread \ {h} : (Got(u)' <=> Got(u)) /\ (Holds(u)' <=> Holds(u))
    <3>1. \A u \in Thread \ {h} : Stays(u) \/ Fails(u) \/ Elsewise(u)
      BY <2>9, <2>10
    <3> QED  BY <2>4, <3>1, StandsBut
  <2>12. Got(h)'
    BY <2>4, <2>8 DEF Got, Holds
  <2>13. obj' = OwnedBy(o, R, h)
    BY <1>7, <2>3 DEF Release, HandOver, R, o
  <2>14. obj'.owner = h /\ obj'.hold = 1 /\ obj'.holds = o.holds
    BY <1>1, <1>4, <2>13 DEF OwnedBy
  <2> QED  BY <1>1, <1>2, <1>5, <2>11, <2>12, <2>14 DEF OwnerInv
<1> QED  BY <1>6, <1>7

(* Nothing is promised to a thread that is no more than waiting.           *)
LEMMA IdlesGot ==
  ASSUME KInv, StandInv, NEW u \in Thread, Idles(u)
  PROVE  ~Got(u)
<1>1. CASE Place(call[u]) \in {"user", "slept"}
  BY <1>1 DEF Got, Holds
<1>2. CASE Elsewhere(k, u)
  BY <1>2, StandsAt DEF Got
<1> QED  BY <1>1, <1>2, IdlesIs

LEMMA MutexOwns ==
  ASSUME KInv, MailInv, ObjInv, StandInv, OwnerInv, MutexNext
  PROVE  StandInv' /\ OwnerInv'
<1>1. ASSUME NEW t \in Thread \ {Idle}, ReleaseInner(t)  PROVE StandInv' /\ OwnerInv'
  <2>1. /\ obj.live /\ obj.kind = "mutex" /\ ~Holds(t) /\ ~Got(t) /\ obj.owner = t /\ obj.hold > 1
        /\ {"owner", "value", "original_priority", "hold", "holds", "live"} \subseteq DOMAIN obj
        /\ k' = k /\ call' = call
    BY <1>1, MutexUser DEF ReleaseInner, kernelVars
  <2>2. \A u \in Thread : Stays(u)
    BY <2>1 DEF Stays, Awaits
  <2>3. StandInv' /\ \A u \in Thread : (Got(u)' <=> Got(u)) /\ (Holds(u)' <=> Holds(u))
    BY <2>2, StandsAll
  <2>4. /\ obj.holds \in [Thread -> Nat] /\ obj.hold \in Nat /\ obj.hold = obj.holds[t]
        /\ \A u \in Thread \ {t} : obj.holds[u] = 0 /\ ~Got(u)
    BY <2>1 DEF OwnerInv
  <2>5. obj' = [obj EXCEPT !.hold = @ - 1, !.holds[t] = @ - 1]
    BY <1>1 DEF ReleaseInner
  <2>6. obj'.owner = t /\ obj'.hold = obj.hold - 1 /\ obj'.holds = [obj.holds EXCEPT ![t] = @ - 1]
    BY <2>1, <2>5
  <2>7. /\ obj'.holds \in [Thread -> Nat] /\ obj'.hold \in Nat /\ obj'.holds[t] > 0 /\ obj'.hold = obj'.holds[t]
        /\ \A u \in Thread \ {t} : obj'.holds[u] = 0
    BY <2>1, <2>4, <2>6
  <2>8. obj'.owner # None
    BY <2>6, MutexAssumption DEF None
  <2> QED  BY <2>1, <2>3, <2>4, <2>6, <2>7, <2>8 DEF OwnerInv
<1>2. ASSUME NEW t \in Thread \ {Idle}, ReleaseRefused(t)  PROVE StandInv' /\ OwnerInv'
  <2>1. /\ ~Holds(t) /\ ~Got(t) /\ Listed(k) /\ call' = call /\ obj' = obj
        /\ k' = [k EXCEPT !.error[t] = "ERROR"]
    BY <1>2, MutexUser DEF ReleaseRefused
  <2>2. k'.stat = k.stat /\ k'.queue = k.queue /\ \A u \in Thread \ {t} : k'.error[u] = k.error[u]
    BY <2>1, ListedIs DEF KState
  <2>3. Elsewise(t) /\ \A u \in Thread \ {t} : Stays(u)
    BY <2>1, <2>2, AloneStands DEF Elsewise, Holds
  <2>4. StandInv' /\ \A u \in Thread : (Got(u)' <=> Got(u)) /\ (Holds(u)' <=> Holds(u))
    BY <2>3, StandsAll
  <2> QED  BY <2>1, <2>4 DEF OwnerInv
<1>3. ASSUME NEW t \in Thread \ {Idle}, MutexAgain(t)  PROVE StandInv' /\ OwnerInv'
  <2>1. /\ obj.kind = "mutex" /\ k' = k /\ call' = call /\ obj' = rt_mutex_init(obj.flag)
        /\ \A u \in Thread : Idles(u)
    BY <1>3 DEF MutexAgain, kernelVars
  <2>2. \A u \in Thread : Stays(u)
    BY <2>1 DEF Stays, Awaits
  <2>3. StandInv' /\ \A u \in Thread : Got(u)' <=> Got(u)
    BY <2>2, StandsAll
  <2>4. \A u \in Thread : ~Got(u)
    BY <2>1, IdlesGot
  <2>5. obj'.holds = [u \in Thread |-> 0] /\ obj'.hold = 0 /\ obj'.owner = None
    BY <2>1 DEF rt_mutex_init
  <2>6. None \notin Thread
    BY MutexAssumption DEF None
  <2> QED  BY <2>3, <2>4, <2>5, <2>6 DEF OwnerInv
<1> QED  BY <1>1, <1>2, <1>3, TakenOwns, LockedOwns, ReleaseOwns DEF MutexNext

(* The units of a semaphore: there, taken, or promised.                    *)
Promised == {t \in Thread : Got(t)}

SemInv ==
  obj.kind = "sem" =>
    /\ {"flag", "value", "start", "spent"} \subseteq DOMAIN obj
    /\ obj.value \in Nat /\ obj.spent \in Int /\ obj.start \in Nat
    /\ obj.live => obj.value + obj.spent + Cardinality(Promised) = obj.start

LEMMA PromisedIs ==
  IsFiniteSet(Promised) /\ Cardinality(Promised) \in Nat
<1>1. Promised \subseteq Thread
  BY DEF Promised
<1> QED  BY <1>1, IPCAssumption, FS_Subset, FS_CardinalityType

LEMMA PromisedSame ==
  ASSUME \A u \in Thread : Got(u)' <=> Got(u)
  PROVE  Promised' = Promised
BY DEF Promised

LEMMA PromisedMore ==
  ASSUME NEW h \in Thread, ~Got(h), Got(h)', \A u \in Thread \ {h} : Got(u)' <=> Got(u)
  PROVE  Cardinality(Promised') = Cardinality(Promised) + 1
<1>1. Promised' = Promised \cup {h} /\ h \notin Promised
  BY DEF Promised
<1> QED  BY <1>1, PromisedIs, FS_AddElement

LEMMA PromisedLess ==
  ASSUME NEW h \in Thread, Got(h), ~Got(h)', \A u \in Thread \ {h} : Got(u)' <=> Got(u)
  PROVE  Cardinality(Promised') = Cardinality(Promised) - 1
<1>1. Promised' = Promised \ {h} /\ h \in Promised
  BY DEF Promised
<1> QED  BY <1>1, PromisedIs, FS_RemoveElement

(* Promised is what Semaphore calls Granted.                               *)
LEMMA GrantedIs ==
  ASSUME KInv, MailInv, obj.kind = "sem"
  PROVE  Granted("receivers", "taken") = Promised
<1>1. \A t \in Thread : Place(call[t]) # "locked"
  BY KindAt
<1>2. \A t \in Thread : Bound(t, "taken") <=> Holds(t)
  BY <1>1 DEF Bound, Holds, Place
<1> QED  BY <1>2, WaitsIs DEF Granted, Promised, Got, Awaits

LEMMA SemUser ==
  ASSUME KInv, MailInv, NEW t \in Thread, User(t), Of("sem")
  PROVE  /\ obj.live /\ obj.kind = "sem" /\ Runs(t) /\ call[t].pc # "schedule" /\ DOMAIN call = Thread
         /\ ~Holds(t) /\ ~Got(t) /\ ~Awaits(t) /\ Listed(k)
BY RunnerHas, RunsIs DEF User, At, Of, Holds, Place, Got, MailInv, CallsFit

LEMMA SemOwns ==
  ASSUME KInv, MailInv, ObjInv, StandInv, SemInv, SemNext
  PROVE  StandInv' /\ SemInv'
<1>1. /\ {"kind", "live"} \subseteq DOMAIN obj /\ Cardinality(Promised) \in Nat
  BY PromisedIs DEF ObjInv
<1>2. ASSUME obj.kind = "sem"
      PROVE  /\ {"kind", "live", "flag", "value", "start", "spent"} \subseteq DOMAIN obj
             /\ obj.value \in Nat /\ obj.spent \in Int /\ obj.start \in Nat
             /\ obj.live => obj.value + obj.spent + Cardinality(Promised) = obj.start
  BY <1>1, <1>2 DEF SemInv
<1>3. ASSUME \A u \in Thread : Stays(u) \/ Fails(u) \/ Elsewise(u)
      PROVE  StandInv' /\ Promised' = Promised
  BY <1>3, StandsAll, PromisedSame
<1>4. ASSUME NEW t \in Thread \ {Idle}, NEW time \in TimeOuts, rt_sem_take(t, time)
      PROVE  StandInv' /\ SemInv'
  <2>1. /\ obj.live /\ obj.kind = "sem" /\ Runs(t) /\ call[t].pc # "schedule" /\ DOMAIN call = Thread
        /\ ~Holds(t) /\ ~Got(t) /\ Listed(k)
    BY <1>4, SemUser DEF rt_sem_take
  <2>2. CASE obj.value > 0
    <3>1. obj' = Take(obj) /\ k' = k /\ call' = call
      BY <1>4, <2>2 DEF rt_sem_take
    <3>2. StandInv' /\ Promised' = Promised
      <4>1. \A u \in Thread : Stays(u)
        BY <3>1 DEF Stays, Awaits
      <4> QED  BY <1>3, <4>1
    <3>3. /\ DOMAIN obj' = DOMAIN obj /\ obj'.value = obj.value - 1 /\ obj'.spent = obj.spent + 1
          /\ obj'.start = obj.start
      BY <1>2, <2>1, <3>1 DEF Take
    <3> QED  BY <1>1, <1>2, <2>1, <2>2, <3>2, <3>3 DEF SemInv
  <2>3. CASE ~(obj.value > 0)
    <3> DEFINE c == ScheduleThen("taken")
    <3>1. k' = Wait(k, "receivers", t, time) /\ call' = [call EXCEPT ![t] = c] /\ obj' = obj
      BY <1>4, <2>3 DEF rt_sem_take
    <3> HIDE DEF c
    <3>2. Prepared(k) /\ time \in Int
      BY <2>1, PreparedIs, TimeOutIs
    <3>3. Awaits(t)' /\ \A u \in Thread \ {t} : Stays(u)
      BY <2>1, <3>1, <3>2, WaitStands
    <3>4. StandInv' /\ \A u \in Thread \ {t} : Got(u)' <=> Got(u)
      BY <3>3, StandsBut
    <3>5. ~Got(t)'
      BY <3>3 DEF Got
    <3>6. Promised' = Promised
      BY <2>1, <3>4, <3>5, PromisedSame
    <3> QED  BY <3>1, <3>4, <3>6 DEF SemInv
  <2> QED  BY <2>2, <2>3
<1>5. ASSUME NEW t \in Thread \ {Idle}, Taken(t)  PROVE StandInv' /\ SemInv'
  <2>1. /\ Runs(t) /\ call[t].pc = "taken" /\ Holds(t) /\ DOMAIN call = Thread /\ obj.kind = "sem"
        /\ k' = k /\ call' = [call EXCEPT ![t] = InUser]
    BY <1>5, KindAt DEF Taken, At, Return, Holds, Place, MailInv, CallsFit
  <2>2. Got(t) <=> k.error[t] = "EOK"
    BY <2>1, RunnerHas
  <2>3. ~Holds(t)' /\ ~Got(t)'
    BY <2>1 DEF Holds, Place, InUser, Got
  <2>4. \A u \in Thread \ {t} : Stays(u)
    BY <2>1, AloneStands
  <2>5. StandInv' /\ \A u \in Thread \ {t} : Got(u)' <=> Got(u)
    BY <2>3, <2>4, StandsBut
  <2>6. CASE k.error[t] = "EOK"
    <3>1. Cardinality(Promised') = Cardinality(Promised) - 1
      BY <2>2, <2>3, <2>5, <2>6, PromisedLess
    <3>2. obj' = [obj EXCEPT !.spent = @ + 1]
      BY <1>5, <2>6 DEF Taken
    <3>3. /\ DOMAIN obj' = DOMAIN obj /\ obj'.value = obj.value /\ obj'.spent = obj.spent + 1
          /\ obj'.start = obj.start /\ obj'.live = obj.live
      BY <1>2, <2>1, <3>2
    <3> QED  BY <1>1, <1>2, <2>1, <2>5, <3>1, <3>3 DEF SemInv
  <2>7. CASE k.error[t] # "EOK"
    <3>1. Promised' = Promised
      BY <2>2, <2>3, <2>5, <2>7, PromisedSame
    <3>2. obj' = obj
      BY <1>5, <2>7 DEF Taken
    <3> QED  BY <2>5, <3>1, <3>2 DEF SemInv
  <2> QED  BY <2>6, <2>7
<1>6. ASSUME NEW t \in Thread \ {Idle}, NEW v \in SemStart, SemReset(t, v)  PROVE StandInv' /\ SemInv'
  <2>1. /\ obj.live /\ obj.kind = "sem" /\ Runs(t) /\ call[t].pc # "schedule" /\ DOMAIN call = Thread
        /\ ~Holds(t) /\ ~Got(t) /\ Listed(k) /\ v \in Nat /\ "receivers" \in Queues
    BY <1>6, SemUser, SemaphoreAssumption DEF SemReset, Queues
  <2>2. /\ k' = WakeAll(k, "receivers") /\ call' = [call EXCEPT ![t] = ScheduleThen("user")]
        /\ obj' = [obj EXCEPT !.value = v, !.spent = obj.start - v - Cardinality(Promised)]
    BY <1>6, <2>1, GrantedIs DEF SemReset
  <2> DEFINE W == {u \in Thread : In(k.queue["receivers"], u)}
  <2>3. WokenAll(k', k, W) /\ k'.error = [u \in Thread |-> IF u \in W THEN "ERROR" ELSE k.error[u]]
    BY <2>1, <2>2, ResetIs
  <2>4. \A u \in Thread : /\ k'.stat[u] = IF Awaits(u) THEN "ready" ELSE k.stat[u]
                          /\ k'.error[u] = IF Awaits(u) THEN "ERROR" ELSE k.error[u]
                          /\ ~Awaits(u)'
    BY <2>1, <2>3 DEF WokenAll, Awaits
  <2> HIDE DEF W
  <2>5. \A u \in Thread : Awaits(u) => k.stat[u] = "suspend"
    BY <2>1, QueuedIs DEF Awaits
  <2>6. Elsewise(t)
    BY <2>1, <2>2 DEF Elsewise, Holds, Place, ScheduleThen
  <2>7. ASSUME NEW u \in Thread \ {t}  PROVE Stays(u) \/ Fails(u)
    BY <2>2, <2>4, <2>5 DEF Stays, Fails
  <2>8. StandInv' /\ Promised' = Promised
    BY <1>3, <2>6, <2>7
  <2>9. /\ DOMAIN obj' = DOMAIN obj /\ obj'.value = v /\ obj'.start = obj.start
        /\ obj'.spent = obj.start - v - Cardinality(Promised)
    BY <1>2, <2>1, <2>2
  <2> QED  BY <1>1, <1>2, <2>1, <2>8, <2>9 DEF SemInv
<1>7. ASSUME NEW t \in Thread \ {Idle}, SemAgain(t)  PROVE StandInv' /\ SemInv'
  <2>1. /\ obj.kind = "sem" /\ k' = k /\ call' = call /\ \A u \in Thread : Idles(u)
    BY <1>7 DEF SemAgain, kernelVars
  <2>2. PICK v \in SemStart : obj' = rt_sem_init(obj.flag, v)
    BY <1>7 DEF SemAgain
  <2>3. \A u \in Thread : Stays(u)
    BY <2>1 DEF Stays, Awaits
  <2>4. StandInv' /\ Promised' = Promised
    BY <1>3, <2>3
  <2>5. Promised = {}
    BY <2>1, IdlesGot DEF Promised
  <2>6. Cardinality(Promised) = 0
    BY <2>5, FS_EmptySet
  <2>7. /\ {"flag", "value", "start", "spent"} \subseteq DOMAIN obj'
        /\ obj'.value = v /\ obj'.start = v /\ obj'.spent = 0 /\ v \in Nat
    BY <2>2, SemaphoreAssumption DEF rt_sem_init
  <2> QED  BY <2>4, <2>6, <2>7 DEF SemInv
<1>8. ASSUME NEW by \in Callers, rt_sem_release(by)  PROVE StandInv' /\ SemInv'
  <2>1. /\ obj.live /\ obj.kind = "sem" /\ DOMAIN call = Thread /\ CalledBy(by) /\ Listed(k)
    BY <1>8 DEF rt_sem_release, Of, MailInv, CallsFit, KInv, LockFree
  <2>2. CASE NoneWaits("receivers")
    <3>1. obj' = [obj EXCEPT !.value = @ + 1, !.spent = @ - 1] /\ k' = k /\ call' = call
      BY <1>8, <2>2 DEF rt_sem_release
    <3>2. StandInv' /\ Promised' = Promised
      <4>1. \A u \in Thread : Stays(u)
        BY <3>1 DEF Stays, Awaits
      <4> QED  BY <1>3, <4>1
    <3>3. /\ DOMAIN obj' = DOMAIN obj /\ obj'.value = obj.value + 1 /\ obj'.spent = obj.spent - 1
          /\ obj'.start = obj.start
      BY <1>2, <2>1, <3>1
    <3> QED  BY <1>1, <1>2, <2>1, <3>2, <3>3 DEF SemInv
  <2>3. CASE ~NoneWaits("receivers")
    <3> DEFINE L == rt_ipc_list_resume(k, "receivers")
    <3>1. ThenSchedule(L, by) /\ obj' = [obj EXCEPT !.spent = @ - 1]
      BY <1>8, <2>3 DEF rt_sem_release
    <3>2. k' = L \/ k' = rt_schedule(L)
      BY <3>1 DEF ThenSchedule
    <3>3. Prepared(k)
      BY <2>1, PreparedIs
    <3> HIDE DEF L
    <3>4. PICK h \in Thread : h = Head(k.queue["receivers"])
      BY <2>3, <3>2, <3>3, FirstStands DEF L
    <3>5. /\ Awaits(h) /\ ~Awaits(h)' /\ k'.error = k.error /\ k'.stat[h] = "ready"
          /\ k.error[h] = "EOK" /\ k.stat[h] = "suspend"
          /\ \A u \in Thread \ {h} : k'.stat[u] = k.stat[u] /\ (Awaits(u)' <=> Awaits(u))
      BY <2>3, <3>2, <3>3, <3>4, FirstStands DEF Awaits, L
    <3>6. Place(call[h]) = "taken"
      <4>1. Place(call[h]) \in WaitPlaces \ {"slept"}
        <5>1. Elsewhere(k, h)
          BY <2>1, <3>5, ListedIs DEF Awaits, Queues
        <5> QED  BY <5>1 DEF KInv, QueuesInv
      <4> QED  BY <2>1, <4>1, ObjectsAssumption DEF MailInv, CallsFit, CallFits, PlacesOf, WaitPlaces
    <3>7. /\ \A u \in Thread \ {h, by} : call'[u] = call[u]
          /\ Place(call'[h]) = "taken" /\ (by = Handler \/ (by \in Thread \ {h} /\ Elsewise(by)))
      <4>1. CASE by = Handler
        BY <3>1, <3>6, <4>1 DEF ThenSchedule
      <4>2. CASE by # Handler
        <5>1. by \in Thread /\ User(by) /\ call' = [call EXCEPT ![by] = ScheduleThen("user")]
          BY <2>1, <3>1, <4>2 DEF ThenSchedule, CalledBy, Callers
        <5>2. ~Holds(by) /\ ~Awaits(by)
          BY <2>1, <5>1, SemUser DEF Of
        <5>3. h # by
          BY <3>5, <5>2
        <5> QED  BY <2>1, <3>6, <5>1, <5>2, <5>3 DEF Elsewise, Holds, Place, ScheduleThen
      <4> QED  BY <4>1, <4>2
    <3>8. ASSUME NEW u \in Thread \ {h}  PROVE Stays(u) \/ Elsewise(u)
      <4>1. CASE u = by
        BY <3>7, <4>1, IPCAssumption
      <4>2. CASE u # by
        <5>1. call'[u] = call[u]
          BY <3>7, <4>2
        <5> QED  BY <3>5, <5>1 DEF Stays
      <4> QED  BY <4>1, <4>2
    <3>9. StandInv' /\ \A u \in Thread \ {h} : Got(u)' <=> Got(u)
      BY <3>5, <3>8, StandsBut
    <3>10. Got(h)' /\ ~Got(h)
      BY <3>5, <3>7 DEF Got, Holds
    <3>11. Cardinality(Promised') = Cardinality(Promised) + 1
      BY <3>9, <3>10, PromisedMore
    <3>12. /\ DOMAIN obj' = DOMAIN obj /\ obj'.value = obj.value /\ obj'.spent = obj.spent - 1
           /\ obj'.start = obj.start
      BY <1>2, <2>1, <3>1
    <3> QED  BY <1>1, <1>2, <2>1, <3>9, <3>11, <3>12 DEF SemInv
  <2> QED  BY <2>2, <2>3
<1> QED  BY <1>4, <1>5, <1>6, <1>7, <1>8 DEF SemNext

DealsInv == StandInv /\ OwnerInv /\ SemInv

(* Steps that give nothing leave all this alone; and an object of another  *)
(* kind gives neither units nor a mutex.                                   *)
LEMMA DealsSame ==
  ASSUME ObjInv, DealsInv, \A u \in Thread : Stays(u) \/ Fails(u) \/ Elsewise(u),
         obj' = obj \/ obj' = [obj EXCEPT !.live = FALSE]
  PROVE  DealsInv'
<1>1. StandInv' /\ \A u \in Thread : (Got(u)' <=> Got(u)) /\ (Holds(u)' <=> Holds(u))
  BY StandsAll DEF DealsInv
<1>2. Promised' = Promised
  BY <1>1, PromisedSame
<1>3. CASE obj' = obj
  <2>1. OwnerInv'
    BY <1>1, <1>3 DEF DealsInv, OwnerInv
  <2>2. SemInv'
    BY <1>2, <1>3 DEF DealsInv, SemInv
  <2> QED  BY <1>1, <2>1, <2>2 DEF DealsInv
<1>4. CASE obj' = [obj EXCEPT !.live = FALSE]
  <2>1. DOMAIN obj' = DOMAIN obj /\ ~obj'.live /\ \A x \in DOMAIN obj : x # "live" => obj'[x] = obj[x]
    BY <1>4 DEF ObjInv
  <2>2. obj'.kind = obj.kind
    BY <2>1 DEF ObjInv
  <2>3. SemInv'
    BY <2>1, <2>2 DEF DealsInv, SemInv
  <2>4. OwnerInv'
    BY <2>1 DEF OwnerInv
  <2> QED  BY <1>1, <2>3, <2>4 DEF DealsInv
<1> QED  BY <1>3, <1>4

LEMMA OtherDeals ==
  ASSUME MailInv', obj'.kind \notin {"sem", "mutex"}
  PROVE  DealsInv'
<1>1. \A t \in Thread : ~Holds(t)'
  BY ObjectsAssumption DEF MailInv, CallsFit, CallFits, ObjectFits, PlacesOf, Holds
<1> QED  BY <1>1 DEF DealsInv, StandInv, OwnerInv, SemInv

LEMMA DealsKept ==
  ASSUME ~DetachTimed, ObjectInv, DealsInv, [ObjectNext]_ipcVars
  PROVE  DealsInv'
<1>1. KInv /\ MailInv /\ ObjInv /\ MailInv' /\ obj'.kind = obj.kind
  BY ObjectKeeps, StepKeeps, AwakeIs DEF ObjectInv
<1>2. CASE UNCHANGED ipcVars
  <2>1. obj' = obj /\ \A u \in Thread : Stays(u)
    BY <1>2 DEF ipcVars, kernelVars, Stays, Awaits
  <2> QED  BY <1>1, <2>1, DealsSame
<1>3. CASE Common
  <2>1. obj' = obj
    BY <1>3 DEF Common
  <2> QED  BY <1>1, <1>3, <2>1, CommonStands, DealsSame
<1>4. CASE Ending
  <2>1. obj' = obj \/ obj' = [obj EXCEPT !.live = FALSE]
    BY <1>4 DEF Ending, Detach, Test, Wake
  <2> QED  BY <1>1, <1>4, <2>1, EndingStands, DealsSame
<1>5. CASE MutexNext
  <2>1. obj.kind = "mutex"
    BY <1>1, <1>5, KindAt, AtIs
       DEF MutexNext, rt_mutex_take, Locked, Release, ReleaseInner, ReleaseRefused, MutexAgain, Of
  <2>2. StandInv' /\ OwnerInv'
    BY <1>1, <1>5, MutexOwns DEF DealsInv
  <2>3. SemInv'
    BY <1>1, <2>1 DEF SemInv
  <2> QED  BY <2>2, <2>3 DEF DealsInv
<1>6. CASE SemNext
  <2>1. obj.kind = "sem"
    BY <1>1, <1>6, KindAt, AtIs DEF SemNext, rt_sem_take, Taken, SemAgain, SemReset, rt_sem_release, Of
  <2>2. StandInv' /\ SemInv'
    BY <1>1, <1>6, SemOwns DEF DealsInv
  <2>3. OwnerInv'
    BY <1>1, <2>1 DEF OwnerInv
  <2> QED  BY <2>2, <2>3 DEF DealsInv
<1>7. CASE EventNext \/ MailboxNext \/ QueueNext
  <2>1. obj.kind \in {"event", "mailbox", "queue"}
    <3>1. CASE EventNext
      BY <1>1, <3>1, KindAt, AtIs
         DEF EventNext, rt_event_recv, EventReceived, EventAgain, EventReset, rt_event_send, Of
    <3>2. CASE MailboxNext
      BY <1>1, <3>2, KindAt, AtIs
         DEF MailboxNext, rt_mb_recv, rt_mb_send_wait, rt_mb_send, SendAgain, ReceiveAgain,
             MailReceived, MailboxReset, MailboxAgain, Of
    <3>3. CASE QueueNext
      BY <1>1, <3>3, KindAt, AtIs
         DEF QueueNext, rt_mq_recv, rt_mq_send, rt_mq_send_isr, GetAgain, CopyAndLink, CopyOut,
             GiveBack, QueueReset, QueueAgain, Of
    <3> QED  BY <1>7, <3>1, <3>2, <3>3
  <2> QED  BY <1>1, <2>1, OtherDeals
<1> QED  BY <1>2, <1>3, <1>4, <1>5, <1>6, <1>7 DEF ObjectNext

LEMMA DealsStart ==
  ASSUME ObjectInit
  PROVE  DealsInv
<1>1. \A t \in Thread : ~Holds(t) /\ ~Got(t)
  BY DEF ObjectInit, InUser, Holds, Place, Got
<1>2. StandInv
  BY <1>1 DEF StandInv
<1>3. Promised = {}
  BY <1>1 DEF Promised
<1>4. Cardinality(Promised) = 0
  BY <1>3, FS_EmptySet
<1>5. None \notin Thread
  BY MutexAssumption DEF None
<1>6. ASSUME NEW flag, obj = rt_mutex_init(flag)  PROVE OwnerInv /\ SemInv
  <2>1. obj.kind = "mutex" /\ obj.holds = [u \in Thread |-> 0] /\ obj.hold = 0 /\ obj.owner = None
    BY <1>6 DEF rt_mutex_init
  <2> QED  BY <1>1, <1>5, <2>1 DEF OwnerInv, SemInv
<1>7. ASSUME NEW flag, NEW v \in SemStart, obj = rt_sem_init(flag, v)  PROVE OwnerInv /\ SemInv
  <2>1. /\ obj.kind = "sem" /\ obj.value = v /\ obj.start = v /\ obj.spent = 0 /\ v \in Nat
        /\ {"flag", "value", "start", "spent"} \subseteq DOMAIN obj
    BY <1>7, SemaphoreAssumption DEF rt_sem_init
  <2> QED  BY <1>4, <2>1 DEF OwnerInv, SemInv
<1>8. ASSUME NEW flag, obj = rt_event_init(flag) \/ obj = rt_mb_init(flag) \/ obj = rt_mq_init(flag)
      PROVE  OwnerInv /\ SemInv
  <2>1. obj.kind \notin {"sem", "mutex"}
    <3>1. CASE obj = rt_event_init(flag)
      BY <3>1 DEF rt_event_init
    <3>2. CASE obj = rt_mb_init(flag)
      BY <3>2 DEF rt_mb_init
    <3>3. CASE obj = rt_mq_init(flag)
      BY <3>3 DEF rt_mq_init
    <3> QED  BY <1>8, <3>1, <3>2, <3>3
  <2> QED  BY <2>1 DEF OwnerInv, SemInv
<1>9. OwnerInv /\ SemInv
  BY <1>6, <1>7, <1>8 DEF ObjectInit, SemInit, MutexInit, EventInit, MailboxInit, QueueInit
<1> QED  BY <1>2, <1>9 DEF DealsInv

LEMMA DealsInvariance ==
  ASSUME ~DetachTimed
  PROVE  ObjectSpec => [](ObjectInv /\ DealsInv)
<1>1. ObjectInit => DealsInv
  BY DealsStart
<1>2. ObjectInv /\ DealsInv /\ [ObjectNext]_ipcVars => DealsInv'
  BY DealsKept
<1> QED  BY <1>1, <1>2, ObjectInvariance, PTL DEF ObjectSpec

(* Two threads never both believe they have a mutex, and the one the       *)
(* kernel names has it or was woken with it and will notice, whatever      *)
(* time-outs and releases race, for any threads and priorities, as long    *)
(* as no object is detached while a waiter's time-out runs.                *)
THEOREM OneThreadOwns ==
  ASSUME ~DetachTimed
  PROVE  ObjectSpec => []OneOwner
<1>1. ObjectInv /\ DealsInv => OneOwner
  <2> SUFFICES ASSUME ObjectInv, DealsInv, obj.kind = "mutex", obj.live
               PROVE  MutualExclusion /\ OwnerKnows
    BY DEF OneOwner, MutualExclusion, OwnerKnows, Of
  <2>1. /\ obj.holds \in [Thread -> Nat] /\ obj.hold \in Nat
        /\ \A t \in Thread :
             IF t = obj.owner
             THEN \/ obj.holds[t] > 0 /\ obj.hold = obj.holds[t] /\ ~Holds(t)
                  \/ obj.holds[t] = 0 /\ obj.hold = 1 /\ Got(t)
             ELSE obj.holds[t] = 0 /\ ~Got(t)
    BY DEF DealsInv, OwnerInv
  <2>2. MutualExclusion
    BY <2>1 DEF MutualExclusion
  <2>3. ASSUME NEW t \in Thread, Got(t)  PROVE t \in Granted("receivers", "locked")
    <3>1. Place(call[t]) = "locked"
      BY <2>3, KindAt DEF ObjectInv, Got, Holds
    <3> QED  BY <2>3, <3>1, WaitsIs DEF Granted, Got, Awaits, Bound, Place
  <2>4. OwnerKnows
    <3>1. obj.owner = None <=> obj.value = 1
      BY DEF ObjectInv, ObjInv
    <3>2. ASSUME NEW t \in Thread, obj.owner = t
          PROVE  obj.holds[t] > 0 \/ t \in Granted("receivers", "locked")
      BY <2>1, <2>3, <3>2
    <3> QED  BY <3>1, <3>2 DEF OwnerKnows
  <2> QED  BY <2>2, <2>4
<1> QED  BY <1>1, DealsInvariance, PTL

(* Every release of a semaphore lets exactly one take succeed: no unit is  *)
(* lost or dealt out twice when a time-out, a reset or an interrupt's      *)
(* release comes between the wake-up of a thread and its return.           *)
THEOREM SemaphoreConserves ==
  ASSUME ~DetachTimed
  PROVE  ObjectSpec => []SemConserves
<1>1. ObjectInv /\ DealsInv => SemConserves
  BY GrantedIs DEF ObjectInv, DealsInv, SemInv, SemConserves, Of
<1> QED  BY <1>1, DealsInvariance, PTL
-----------------------------------------------------------------------------
(* Waiters in the order of their priorities, which nobody changes while    *)
(* they wait.                                                              *)
InOrder(l) == \A i, j \in 1..Len(l) : i <= j => InitPrio[l[i]] <= InitPrio[l[j]]

LEMMA WithoutInOrder ==
  ASSUME NEW l \in Seq(Thread), NEW t, InOrder(l)
  PROVE  InOrder(Without(l, t))
<1>1. CASE ~\E i \in 1..Len(l) : l[i] = t
  BY <1>1 DEF Without
<1>2. CASE \E i \in 1..Len(l) : l[i] = t
  <2> DEFINE j == CHOOSE i \in 1..Len(l) : l[i] = t
  <2>1. j \in 1..Len(l) /\ Without(l, t) = RemoveAt(l, j)
    BY <1>2 DEF Without
  <2> HIDE DEF j
  <2> DEFINE a == RemoveAt(l, j)
  <2>2. Len(a) = Len(l) - 1 /\ \A i \in 1..Len(l) - 1 : a[i] = IF i < j THEN l[i] ELSE l[i + 1]
    BY <2>1, RemoveAtIs
  <2> HIDE DEF a
  <2>3. ASSUME NEW i \in 1..Len(a), NEW m \in 1..Len(a), i <= m
        PROVE  InitPrio[a[i]] <= InitPrio[a[m]]
    <3> DEFINE From(n) == IF n < j THEN n ELSE n + 1
    <3>1. Len(l) \in Nat
      OBVIOUS
    <3>2. From(i) \in 1..Len(l) /\ From(m) \in 1..Len(l) /\ From(i) <= From(m)
      BY <2>1, <2>2, <2>3, <3>1
    <3>3. a[i] = l[From(i)] /\ a[m] = l[From(m)]
      BY <2>2, <2>3
    <3> HIDE DEF From
    <3> QED  BY <3>2, <3>3 DEF InOrder
  <2>4. InOrder(a)
    BY <2>3 DEF InOrder
  <2> QED  BY <2>1, <2>4 DEF a
<1> QED  BY <1>1, <1>2

LEMMA InsertInOrder ==
  ASSUME NEW l \in Seq(Thread), NEW t \in Thread, NEW L, obj.flag = "PRIO", InOrder(l),
         L.prio[t] = InitPrio[t], \A u \in Thread : In(l, u) => L.prio[u] = InitPrio[u]
  PROVE  InOrder(InsertAt(l, PlaceIn(L, l, t), t))
<1> DEFINE n == Len(l)
           p == PlaceIn(L, l, t)
           r == InsertAt(l, p, t)
           lower == {i \in 1..Len(l) : obj.flag = "PRIO" /\ L.prio[t] < L.prio[l[i]]}
<1>1. /\ n \in Nat /\ p \in 1..n + 1 /\ InitPrio[t] \in Nat
      /\ \A i \in 1..n : l[i] \in Thread /\ InitPrio[l[i]] \in Nat /\ L.prio[l[i]] = InitPrio[l[i]]
  <2>1. \A i \in 1..n : l[i] \in Thread /\ In(l, l[i])
    BY DEF In
  <2>2. n \in Nat /\ p \in 1..n + 1
    BY PlaceIs
  <2>3. \A u \in Thread : InitPrio[u] \in Nat
    BY Priorities
  <2> QED  BY <2>1, <2>2, <2>3
<1>2. Len(r) = n + 1 /\ \A i \in 1..n + 1 : r[i] = IF i < p THEN l[i] ELSE IF i = p THEN t ELSE l[i - 1]
  BY <1>1, InsertAtIs
<1> HIDE DEF r
<1>3. \A i \in 1..n : i \in lower <=> InitPrio[t] < InitPrio[l[i]]
  BY <1>1
<1>4. lower = {} => p = n + 1
  BY DEF PlaceIn
<1>5. lower # {} => p \in lower /\ \A j \in lower : p <= j
  <2> SUFFICES ASSUME lower # {}  PROVE p \in lower /\ \A j \in lower : p <= j
    OBVIOUS
  <2>1. lower \in SUBSET Nat
    OBVIOUS
  <2>2. p = CHOOSE i \in lower : \A j \in lower : i <= j
    BY DEF PlaceIn
  <2> HIDE DEF lower, p
  <2>3. \E i \in lower : \A j \in lower : i <= j
    BY <2>1, Least
  <2> QED  BY <2>2, <2>3
<1> HIDE DEF p
<1>6. ASSUME NEW i \in 1..n
      PROVE  /\ i < p => InitPrio[l[i]] <= InitPrio[t]
             /\ i >= p => InitPrio[t] <= InitPrio[l[i]]
  <2>1. lower \subseteq 1..n
    OBVIOUS
  <2> HIDE DEF lower
  <2>2. CASE lower = {}
    <3>1. ~(InitPrio[t] < InitPrio[l[i]]) /\ p = n + 1
      BY <1>3, <1>4, <2>2
    <3> QED  BY <1>1, <3>1
  <2>3. CASE lower # {}
    <3>1. p \in 1..n /\ InitPrio[t] < InitPrio[l[p]]
      BY <1>3, <1>5, <2>1, <2>3
    <3>2. i < p => i \notin lower
      BY <1>1, <1>5, <2>3
    <3>3. i >= p => InitPrio[l[p]] <= InitPrio[l[i]]
      BY <3>1, <1>1 DEF InOrder
    <3> QED  BY <1>1, <1>3, <3>1, <3>2, <3>3
  <2> QED  BY <2>2, <2>3
<1> HIDE DEF lower
<1>7. ASSUME NEW i \in 1..n + 1, NEW j \in 1..n + 1, i <= j
      PROVE  InitPrio[r[i]] <= InitPrio[r[j]]
  <2>1. \A m \in 1..n + 1 : /\ m < p => m \in 1..n /\ r[m] = l[m]
                            /\ m = p => r[m] = t
                            /\ m > p => m - 1 \in 1..n /\ m - 1 >= p /\ r[m] = l[m - 1]
    BY <1>1, <1>2
  <2>2. CASE i < p /\ j < p
    BY <1>7, <2>1, <2>2 DEF InOrder
  <2>3. CASE i < p /\ j = p
    BY <1>6, <2>1, <2>3
  <2>4. CASE i < p /\ j > p
    <3>1. i \in 1..n /\ j - 1 \in 1..n /\ i <= j - 1
      BY <1>1, <2>1, <2>4
    <3> QED  BY <2>1, <2>4, <3>1 DEF InOrder
  <2>5. CASE i = p /\ j = p
    BY <1>1, <2>1, <2>5
  <2>6. CASE i = p /\ j > p
    BY <1>6, <2>1, <2>6
  <2>7. CASE i > p
    <3>1. i - 1 \in 1..n /\ j - 1 \in 1..n /\ i - 1 <= j - 1 /\ j > p
      BY <1>1, <1>7, <2>1, <2>7
    <3> QED  BY <2>1, <2>7, <3>1 DEF InOrder
  <2> QED  BY <1>1, <1>7, <2>2, <2>3, <2>4, <2>5, <2>6, <2>7
<1>8. InOrder(r)
  BY <1>2, <1>7 DEF InOrder
<1> QED  BY <1>8 DEF r, p

(* The thread that will wake those who wait at the end of the mutex.       *)
Leaving(t) == Ends(t) /\ call[t].q = "receivers"

(* Who does not own the mutex has its own priority; the owner knows its    *)
(* own; and nobody waits for a mutex that is free.                         *)
InheritInv ==
  obj.kind = "mutex" =>
    /\ "flag" \in DOMAIN obj
    /\ ~obj.live => k.queue["receivers"] = <<>> \/ \E t \in Thread : Leaving(t)
    /\ obj.live =>
         /\ \A t \in Thread : t # obj.owner => k.prio[t] = InitPrio[t]
         /\ obj.owner # None => obj.original_priority = InitPrio[obj.owner]
         /\ obj.owner = None => k.queue["receivers"] = <<>>
         /\ obj.flag = "PRIO" => /\ InOrder(k.queue["receivers"])
                                 /\ \A t \in Thread : Awaits(t) => k.prio[obj.owner] <= k.prio[t]

LEMMA OrdersIs ==
  ASSUME KInv, Orders
  PROVE  /\ k'.prio = k.prio /\ \A u \in Thread : Awaits(u)' => Awaits(u)
         /\ InOrder(k.queue["receivers"]) => InOrder(k'.queue["receivers"])
         /\ k.queue["receivers"] = <<>> => k'.queue["receivers"] = <<>>
<1> DEFINE l == k.queue["receivers"]
<1>1. l \in Seq(Thread) /\ Once(l)
  BY ListedIs DEF KInv, LockFree, Queues
<1>2. CASE k'.queue["receivers"] = l
  BY <1>2 DEF Orders, Awaits
<1>3. ASSUME NEW t \in Thread, k'.queue["receivers"] = Without(l, t)
      PROVE  /\ \A u \in Thread : Awaits(u)' => Awaits(u)
             /\ InOrder(l) => InOrder(k'.queue["receivers"])
             /\ l = <<>> => k'.queue["receivers"] = <<>>
  <2>1. \A u : In(Without(l, t), u) <=> In(l, u) /\ u # t
    BY <1>1, WithoutIn
  <2>2. InOrder(l) => InOrder(Without(l, t))
    BY <1>1, WithoutInOrder
  <2>3. l = <<>> => Without(l, t) = <<>>
    BY DEF Without
  <2> QED  BY <1>3, <2>1, <2>2, <2>3 DEF Awaits
<1> QED  BY <1>2, <1>3 DEF Orders

(* A thread that waits does not own the mutex.                             *)
LEMMA WaiterOwnsNot ==
  ASSUME KInv, MailInv, OwnerInv, obj.kind = "mutex", obj.live, NEW t \in Thread, Awaits(t)
  PROVE  t # obj.owner
<1>1. Elsewhere(k, t)
  BY ListedIs DEF Awaits, Queues, KInv, LockFree
<1>2. Place(call[t]) \in WaitPlaces \ {"slept"}
  BY <1>1 DEF KInv, QueuesInv
<1>3. Place(call[t]) = "locked"
  BY <1>2, ObjectsAssumption DEF MailInv, CallsFit, CallFits, PlacesOf, WaitPlaces
<1>4. Holds(t) /\ ~Got(t)
  BY <1>3 DEF Holds, Got
<1> QED  BY <1>4 DEF OwnerInv

LEMMA InheritsMore ==
  ASSUME KInv, MailInv, ObjInv, StandInv, OwnerInv, InheritInv,
         NEW t \in Thread \ {Idle}, NEW time \in TimeOuts, rt_mutex_take(t, time)
  PROVE  InheritInv'
<1>1. /\ obj.live /\ obj.kind = "mutex" /\ Runs(t) /\ call[t].pc # "schedule" /\ DOMAIN call = Thread
      /\ ~Holds(t) /\ ~Got(t) /\ Listed(k)
      /\ {"owner", "value", "original_priority", "hold", "holds", "live", "kind"} \subseteq DOMAIN obj
  BY MutexUser DEF rt_mutex_take, ObjInv
<1>2. /\ "flag" \in DOMAIN obj
      /\ \A u \in Thread : u # obj.owner => k.prio[u] = InitPrio[u]
      /\ obj.owner # None => obj.original_priority = InitPrio[obj.owner]
      /\ obj.owner = None => k.queue["receivers"] = <<>>
      /\ obj.flag = "PRIO" => /\ InOrder(k.queue["receivers"])
                              /\ \A u \in Thread : Awaits(u) => k.prio[obj.owner] <= k.prio[u]
  BY <1>1 DEF InheritInv
<1>3. ASSUME k' = [k EXCEPT !.error[t] = "EOK"]
      PROVE  k'.prio = k.prio /\ k'.queue["receivers"] = k.queue["receivers"]
             /\ \A u \in Thread : Awaits(u)' <=> Awaits(u)
  BY <1>1, <1>3, ListedIs DEF KState, Awaits
<1>4. CASE obj.owner = t /\ obj' = [obj EXCEPT !.hold = @ + 1, !.holds[t] = @ + 1]
           /\ k' = [k EXCEPT !.error[t] = "EOK"]
  <2>1. /\ obj'.live /\ obj'.owner = obj.owner /\ obj'.original_priority = obj.original_priority
        /\ obj'.flag = obj.flag /\ "flag" \in DOMAIN obj'
    BY <1>1, <1>2, <1>4
  <2> QED  BY <1>2, <1>3, <1>4, <2>1 DEF InheritInv
<1>5. CASE obj.owner # t /\ obj.value > 0
           /\ obj' = [OwnedBy(obj, k, t) EXCEPT !.value = @ - 1, !.holds[t] = 1]
           /\ k' = [k EXCEPT !.error[t] = "EOK"]
  <2>1. obj.owner = None /\ k.queue["receivers"] = <<>>
    BY <1>1, <1>2, <1>5 DEF ObjInv
  <2>2. /\ obj'.live /\ obj'.owner = t /\ obj'.original_priority = k.prio[t]
        /\ "flag" \in DOMAIN obj'
    BY <1>1, <1>2, <1>5 DEF OwnedBy
  <2>3. \A u \in Thread : ~In(<<>>, u)
    BY DEF In
  <2>4. InOrder(<<>>)
    BY DEF InOrder
  <2>5. None \notin Thread
    BY MutexAssumption DEF None
  <2>6. /\ \A u \in Thread : k'.prio[u] = InitPrio[u]
        /\ obj'.original_priority = InitPrio[t] /\ obj'.owner # None
    BY <1>2, <1>3, <1>5, <2>1, <2>2, <2>5
  <2>7. \A u \in Thread : ~Awaits(u)'
    BY <1>3, <1>5, <2>1, <2>3 DEF Awaits
  <2> QED  BY <1>3, <1>5, <2>1, <2>2, <2>4, <2>6, <2>7 DEF InheritInv
<1>6. CASE /\ obj.owner # t /\ obj.value = 0 /\ time # 0 /\ k.lock = 0
           /\ k' = Wait(Inherit(k, t), "receivers", t, time)
           /\ call' = [call EXCEPT ![t] = ScheduleThen("locked")]
           /\ UNCHANGED obj
  <2> DEFINE c == ScheduleThen("locked")
             L == Inherit(k, t)
             o == obj.owner
             l == k.queue["receivers"]
  <2>1. o \in Thread /\ o # None
    BY <1>1, <1>6 DEF ObjInv
  <2>2. k.prio \in [Thread -> Prio] /\ Prepared(k) /\ Prio \subseteq Nat
        /\ l \in Seq(Thread)
    BY <1>1, ListedIs, PreparedIs, Priorities DEF Queues
  <2>3. /\ Prepared(L) /\ L.prio = [k.prio EXCEPT ![o] = IF k.prio[t] < k.prio[o] THEN k.prio[t] ELSE k.prio[o]]
    <3>1. CASE k.prio[t] < k.prio[o]
      <4>1. L = ChangePriority(k, o, k.prio[t])
        BY <3>1 DEF Inherit
      <4> HIDE DEF L, o
      <4> QED  BY <2>1, <2>2, <3>1, <4>1, PriorityIs
    <3>2. CASE ~(k.prio[t] < k.prio[o])
      <4>1. L = k
        BY <3>2 DEF Inherit
      <4> HIDE DEF L, o
      <4> QED  BY <2>1, <2>2, <3>2, <4>1
    <3> QED  BY <3>1, <3>2
  <2>4. time \in Int /\ k' = Wait(L, "receivers", t, time) /\ call' = [call EXCEPT ![t] = c] /\ obj' = obj
    BY <1>6, TimeOutIs
  <2> HIDE DEF c, L
  <2>5. /\ Awaits(t)' /\ k'.prio = L.prio /\ \A u \in Thread \ {t} : Stays(u)
        /\ k'.queue["receivers"] = InsertAt(l, PlaceIn(L, l, t), t)
    BY <1>1, <2>3, <2>4, WaitStands
  <2>6. \A u \in Thread : u # o => k'.prio[u] = k.prio[u]
    BY <2>1, <2>2, <2>3, <2>5
  <2>7. k'.prio[o] <= k.prio[o] /\ k'.prio[o] <= k.prio[t]
    <3>1. k.prio[o] \in Nat /\ k.prio[t] \in Nat
      BY <2>1, <2>2
    <3> QED  BY <2>1, <2>2, <2>3, <2>5, <3>1
  <2>8. \A u \in Thread \ {t} : Awaits(u)' <=> Awaits(u)
    BY <2>5 DEF Stays
  <2>9. ASSUME obj.flag = "PRIO"
        PROVE  /\ InOrder(k'.queue["receivers"])
               /\ \A u \in Thread : Awaits(u)' => k'.prio[o] <= k'.prio[u]
    <3>1. \A u \in Thread : Awaits(u) => u # o /\ k.prio[o] <= k.prio[u]
      BY <1>1, <1>2, <2>9, WaiterOwnsNot
    <3>2. \A u \in Thread : In(l, u) => L.prio[u] = InitPrio[u]
      BY <1>2, <2>5, <2>6, <3>1 DEF Awaits
    <3>3. L.prio[t] = InitPrio[t]
      BY <1>2, <1>6, <2>5, <2>6
    <3>4. InOrder(k'.queue["receivers"])
      <4> HIDE DEF l
      <4> QED  BY <1>2, <2>2, <2>5, <2>9, <3>2, <3>3, InsertInOrder DEF l
    <3>5. ASSUME NEW u \in Thread, Awaits(u)'  PROVE k'.prio[o] <= k'.prio[u]
      <4>1. CASE u = t
        BY <1>6, <2>6, <2>7, <4>1
      <4>2. CASE u # t
        <5>1. u # o /\ k.prio[o] <= k.prio[u] /\ k'.prio[u] = k.prio[u]
          BY <2>6, <2>8, <3>1, <3>5, <4>2
        <5>2. k.prio[u] \in Nat /\ k.prio[o] \in Nat /\ k'.prio[o] \in Nat
          <6>1. Prepared(L) => L.prio \in [Thread -> Prio]
            BY ListedIs DEF Prepared
          <6> QED  BY <2>1, <2>2, <2>3, <2>5, <6>1
        <5> QED  BY <2>7, <5>1, <5>2
      <4> QED  BY <4>1, <4>2
    <3> QED  BY <3>4, <3>5
  <2> QED  BY <1>1, <1>2, <2>1, <2>4, <2>6, <2>9 DEF InheritInv
<1> QED  BY <1>4, <1>5, <1>6 DEF rt_mutex_take

LEMMA GivesBack ==
  ASSUME KInv, MailInv, ObjInv, StandInv, OwnerInv, InheritInv, NEW t \in Thread \ {Idle}, Release(t)
  PROVE  InheritInv'
<1> DEFINE R == Restored(k, t)
           o == [obj EXCEPT !.hold = 0, !.holds[t] = 0]
           l == k.queue["receivers"]
<1>1. /\ obj.live /\ obj.kind = "mutex" /\ Runs(t) /\ call[t].pc # "schedule" /\ DOMAIN call = Thread
      /\ Listed(k) /\ obj.owner = t /\ t # None
      /\ {"owner", "value", "original_priority", "hold", "holds", "live", "kind"} \subseteq DOMAIN obj
  <2>1. None \notin Thread
    BY MutexAssumption DEF None
  <2> QED  BY <2>1, MutexUser DEF Release, ObjInv
<1>2. /\ "flag" \in DOMAIN obj
      /\ \A u \in Thread : u # t => k.prio[u] = InitPrio[u]
      /\ obj.original_priority = InitPrio[t]
      /\ obj.flag = "PRIO" => InOrder(l)
  BY <1>1 DEF InheritInv
<1>3. /\ k.prio \in [Thread -> Prio] /\ Prepared(k) /\ InitPrio[t] \in Prio
      /\ l \in Seq(Thread) /\ Once(l)
  BY <1>1, ListedIs, PreparedIs, Priorities DEF Queues
<1>4. Prepared(R) /\ R.prio = [k.prio EXCEPT ![t] = InitPrio[t]]
  <2>1. CASE InitPrio[t] # k.prio[t]
    <3>1. R = ChangePriority(k, t, InitPrio[t])
      BY <1>2, <2>1 DEF Restored
    <3> HIDE DEF R
    <3> QED  BY <1>3, <3>1, PriorityIs
  <2>2. CASE InitPrio[t] = k.prio[t]
    <3>1. R = k
      BY <1>2, <2>2 DEF Restored
    <3> HIDE DEF R
    <3> QED  BY <1>3, <2>2, <3>1
  <2> QED  BY <2>1, <2>2
<1>5. \A u \in Thread : R.prio[u] = InitPrio[u]
  BY <1>2, <1>3, <1>4
<1>6. DOMAIN o = DOMAIN obj /\ o.live = obj.live /\ o.flag = obj.flag
  BY <1>1, <1>2
<1> HIDE DEF o
<1>7. CASE NoneWaits("receivers")
  <2>1. k' = [R EXCEPT !.owed = @ \/ R.prio # k.prio]
    BY <1>7 DEF Release
  <2>2. obj' = [o EXCEPT !.value = @ + 1, !.owner = None, !.original_priority = Unset]
    BY <1>7 DEF Release, o
  <2> HIDE DEF R
  <2>3. k'.prio = R.prio /\ k'.queue = k.queue
    BY <1>4, <2>1, ListedIs DEF Prepared, KState
  <2>4. k'.queue["receivers"] = <<>>
    BY <1>7, <2>3 DEF NoneWaits
  <2>5. obj'.owner = None /\ obj'.live /\ "flag" \in DOMAIN obj'
    BY <1>1, <1>2, <1>6, <2>2
  <2>6. InOrder(<<>>) /\ \A u : ~In(<<>>, u)
    BY DEF InOrder, In
  <2>7. \A u \in Thread : ~Awaits(u)' /\ k'.prio[u] = InitPrio[u]
    BY <1>5, <2>3, <2>4, <2>6 DEF Awaits
  <2> QED  BY <2>4, <2>5, <2>6, <2>7 DEF InheritInv
<1>8. CASE ~NoneWaits("receivers")
  <2>1. k' = rt_ipc_list_resume(R, "receivers")
    BY <1>8, IPCAssumption DEF Release, ThenSchedule
  <2> HIDE DEF R
  <2>2. PICK h \in Thread : h = Head(l)
    BY <1>4, <1>8, <2>1, FirstStands
  <2>3. /\ k'.prio = R.prio /\ k'.queue["receivers"] = Without(l, h)
        /\ \A u \in Thread \ {h} : Awaits(u)' <=> Awaits(u)
        /\ ~Awaits(h)'
    BY <1>4, <1>8, <2>1, <2>2, FirstStands DEF Awaits
  <2>4. obj' = OwnedBy(o, R, h)
    BY <1>8, <2>2 DEF Release, HandOver, R, o
  <2>5. /\ obj'.owner = h /\ obj'.original_priority = InitPrio[h] /\ obj'.live
        /\ obj'.flag = obj.flag /\ "flag" \in DOMAIN obj'
    BY <1>1, <1>2, <1>5, <1>6, <2>4 DEF OwnedBy
  <2>6. \A u \in Thread : k'.prio[u] = InitPrio[u]
    BY <1>5, <2>3
  <2>7. ASSUME obj.flag = "PRIO"
        PROVE  /\ InOrder(k'.queue["receivers"])
               /\ \A u \in Thread : Awaits(u)' => k'.prio[h] <= k'.prio[u]
    <3>1. InOrder(l)
      BY <1>2, <2>7
    <3>2. InOrder(k'.queue["receivers"])
      BY <1>3, <2>3, <3>1, WithoutInOrder
    <3>3. ASSUME NEW u \in Thread, Awaits(u)  PROVE InitPrio[h] <= InitPrio[u]
      <4>1. PICK i \in 1..Len(l) : l[i] = u
        BY <3>3 DEF Awaits, In
      <4>2. l # <<>> /\ 1 \in 1..Len(l) /\ l[1] = h /\ 1 <= i
        BY <1>3, <2>2, <4>1
      <4> QED  BY <3>1, <4>1, <4>2 DEF InOrder
    <3>4. \A u \in Thread : Awaits(u)' => Awaits(u)
      BY <2>3
    <3> QED  BY <2>6, <3>2, <3>3, <3>4
  <2>8. h # None
    BY MutexAssumption DEF None
  <2> QED  BY <2>5, <2>6, <2>7, <2>8 DEF InheritInv
<1> QED  BY <1>7, <1>8

(* What changes neither lists nor priorities nor the owner.                *)
LEMMA InheritSame ==
  ASSUME InheritInv, k'.prio = k.prio, k'.queue = k.queue,
         {"kind", "live", "owner", "original_priority", "flag"} \cap DOMAIN obj \subseteq DOMAIN obj',
         \A x \in {"kind", "live", "owner", "original_priority", "flag"} : obj'[x] = obj[x],
         \A u \in Thread : Leaving(u) => Leaving(u)'
  PROVE  InheritInv'
<1>1. /\ obj'.kind = obj.kind /\ obj'.live = obj.live /\ obj'.owner = obj.owner
      /\ obj'.original_priority = obj.original_priority /\ obj'.flag = obj.flag
      /\ "flag" \in DOMAIN obj => "flag" \in DOMAIN obj'
  OBVIOUS
<1>2. \A u \in Thread : Awaits(u)' <=> Awaits(u)
  BY DEF Awaits
<1> QED  BY <1>1, <1>2 DEF InheritInv

LEMMA MutexInherits ==
  ASSUME KInv, MailInv, ObjInv, StandInv, OwnerInv, InheritInv, MutexNext, obj.kind = "mutex"
  PROVE  InheritInv'
<1>1. /\ {"kind", "live", "owner", "value", "original_priority", "hold", "holds"} \subseteq DOMAIN obj
      /\ "flag" \in DOMAIN obj /\ DOMAIN call = Thread
  BY DEF ObjInv, InheritInv, MailInv, CallsFit
<1>2. ASSUME NEW t \in Thread \ {Idle}, Locked(t)  PROVE InheritInv'
  <2>1. k' = k /\ call' = [call EXCEPT ![t] = InUser] /\ Place(call[t]) = "locked"
    BY <1>2 DEF Locked, At, Return, Place
  <2>2. \A u \in Thread : Leaving(u) => Leaving(u)'
    BY <2>1 DEF Leaving, Ends
  <2>3. obj' = obj \/ obj' = [obj EXCEPT !.holds[t] = 1]
    BY <1>2 DEF Locked
  <2>4. /\ DOMAIN obj' = DOMAIN obj /\ \A x \in {"kind", "live", "owner", "original_priority", "flag"} : obj'[x] = obj[x]
    BY <1>1, <2>3
  <2> QED  BY <2>1, <2>2, <2>4, InheritSame
<1>3. ASSUME NEW t \in Thread \ {Idle}, ReleaseInner(t)  PROVE InheritInv'
  <2>1. k' = k /\ call' = call /\ obj' = [obj EXCEPT !.hold = @ - 1, !.holds[t] = @ - 1]
    BY <1>3 DEF ReleaseInner, kernelVars
  <2>2. \A u \in Thread : Leaving(u) => Leaving(u)'
    BY <2>1 DEF Leaving, Ends
  <2>4. /\ DOMAIN obj' = DOMAIN obj /\ \A x \in {"kind", "live", "owner", "original_priority", "flag"} : obj'[x] = obj[x]
    BY <1>1, <2>1
  <2> QED  BY <2>1, <2>2, <2>4, InheritSame
<1>4. ASSUME NEW t \in Thread \ {Idle}, ReleaseRefused(t)  PROVE InheritInv'
  <2>1. k' = [k EXCEPT !.error[t] = "ERROR"] /\ call' = call /\ obj' = obj
    BY <1>4 DEF ReleaseRefused
  <2>2. \A u \in Thread : Leaving(u) => Leaving(u)'
    BY <2>1 DEF Leaving, Ends
  <2>3. k'.prio = k.prio /\ k'.queue = k.queue
    BY <2>1, ListedIs DEF KState, KInv, LockFree
  <2> QED  BY <2>1, <2>2, <2>3, InheritSame
<1>5. ASSUME NEW t \in Thread \ {Idle}, MutexAgain(t)  PROVE InheritInv'
  <2>1. /\ k' = k /\ obj' = rt_mutex_init(obj.flag) /\ ~obj.live
        /\ \A u \in Thread : Idles(u) /\ k.prio[u] = InitPrio[u]
    BY <1>5 DEF MutexAgain, kernelVars
  <2>2. \A u \in Thread : ~Leaving(u)
    BY <2>1, IdlesIs DEF Leaving, Ends, WaitPlaces
  <2>3. k.queue["receivers"] = <<>>
    BY <2>1, <2>2 DEF InheritInv
  <2>4. obj'.live /\ obj'.owner = None /\ "flag" \in DOMAIN obj'
    BY <2>1 DEF rt_mutex_init
  <2>5. InOrder(<<>>) /\ \A u : ~In(<<>>, u)
    BY DEF InOrder, In
  <2>6. \A u \in Thread : ~Awaits(u)'
    BY <2>1, <2>3, <2>5 DEF Awaits
  <2> QED  BY <2>1, <2>3, <2>4, <2>5, <2>6 DEF InheritInv
<1> QED  BY <1>2, <1>3, <1>4, <1>5, InheritsMore, GivesBack DEF MutexNext

(* The thread that ends the object goes on with it.                        *)
LEMMA CommonLeaves ==
  ASSUME KInv, MailInv, Common, NEW t \in Thread, Leaving(t)
  PROVE  Leaving(t)'
<1>1. DOMAIN call = Thread /\ "pc" \in DOMAIN call[t] /\ "q" \in DOMAIN call[t] /\ obj.kind \in Kinds
  BY DEF MailInv, CallsFit, CallFits, ObjectFits, KInv, EndInv, Leaving
<1>2. CASE Tick
  <2>1. call'[t] = Aged(call[t])
    BY <1>2 DEF Tick
  <2>2. SameCall(call'[t], call[t])
    BY <2>1, AgedIs DEF MailInv, CallsFit, CallFits
  <2> QED  BY <1>1, <2>2 DEF SameCall, Leaving, Ends
<1>3. ASSUME NEW u \in Thread, Expire(u)  PROVE Leaving(t)'
  BY <1>3 DEF Expire, Leaving, Ends
<1>4. ASSUME NEW u \in Thread \ {t}, NEW c, call' = [call EXCEPT ![u] = c]  PROVE Leaving(t)'
  BY <1>4 DEF Leaving, Ends
<1>5. ASSUME NEW u \in Thread, Schedule(u)  PROVE Leaving(t)'
  <2>1. call[u].pc = "schedule" /\ call' = [call EXCEPT ![u].pc = call[u].then]
    BY <1>5 DEF Schedule, At, Goto
  <2>2. CASE u = t
    <3>1. Place(call[t]) = call[t].then /\ call'[t] = [call[t] EXCEPT !.pc = call[t].then]
      BY <1>1, <2>1, <2>2 DEF Place
    <3>2. call'[t].pc = call[t].then /\ call'[t].q = call[t].q
      BY <1>1, <3>1
    <3> QED  BY <3>1, <3>2 DEF Leaving, Ends, Place
  <2>3. CASE u # t
    BY <1>4, <2>1, <2>3
  <2> QED  BY <2>2, <2>3
<1>6. ASSUME NEW u \in Thread, Slept(u)  PROVE Leaving(t)'
  <2>1. u # t
    BY <1>6 DEF Slept, At, Leaving, Ends, Place
  <2> QED  BY <1>4, <1>6, <2>1 DEF Slept, Return
<1>7. ASSUME NEW u \in Thread, rt_thread_sleep(u, 1)  PROVE Leaving(t)'
  <2>1. u # t
    BY <1>7 DEF rt_thread_sleep, At, Leaving, Ends, Place
  <2> QED  BY <1>4, <1>7, <2>1 DEF rt_thread_sleep
<1>8. Sleeper[obj.kind] \subseteq Thread
  BY <1>1, ObjectsAssumption
<1> QED  BY <1>2, <1>3, <1>5, <1>6, <1>7, <1>8 DEF Common, Interrupts

LEMMA CommonInherits ==
  ASSUME KInv, MailInv, InheritInv, Common
  PROVE  InheritInv'
<1>1. /\ k'.prio = k.prio /\ \A u \in Thread : Awaits(u)' => Awaits(u)
      /\ InOrder(k.queue["receivers"]) => InOrder(k'.queue["receivers"])
      /\ k.queue["receivers"] = <<>> => k'.queue["receivers"] = <<>>
  BY CommonStands, OrdersIs
<1>2. \A u \in Thread : Leaving(u) => Leaving(u)'
  BY CommonLeaves
<1>3. obj' = obj
  BY DEF Common
<1> QED  BY <1>1, <1>2, <1>3 DEF InheritInv

LEMMA EndingInherits ==
  ASSUME KInv, MailInv, ObjInv, InheritInv, Ending, obj.kind = "mutex"
  PROVE  InheritInv'
<1>1. k.queue["receivers"] = <<>> => k'.queue["receivers"] = <<>>
  BY EndingStands, OrdersIs
<1>2. DOMAIN call = Thread /\ \A t \in Thread : "pc" \in DOMAIN call[t]
  BY DEF MailInv, CallsFit, CallFits
<1>3. ASSUME NEW t \in Thread, Detach(t)  PROVE InheritInv'
  <2>1. obj' = [obj EXCEPT !.live = FALSE] /\ call' = [call EXCEPT ![t] = [pc |-> "test", q |-> "receivers"]]
    BY <1>3 DEF Detach
  <2>2. ~obj'.live /\ "flag" \in DOMAIN obj'
    BY <2>1 DEF ObjInv, InheritInv
  <2>3. call'[t].pc = "test" /\ call'[t].q = "receivers"
    BY <1>2, <2>1
  <2>4. Leaving(t)'
    BY <2>3 DEF Leaving, Ends, Place
  <2> QED  BY <2>2, <2>4 DEF InheritInv
<1>4. ASSUME NEW t \in Thread, Test(t) \/ Wake(t)  PROVE InheritInv'
  <2>1. obj' = obj /\ (call[t].pc = "test" \/ call[t].pc = "wake")
    BY <1>4 DEF Test, Wake, At
  <2>2. Ends(t) /\ ~obj.live /\ "q" \in DOMAIN call[t]
    BY <2>1 DEF Ends, Place, KInv, EndInv
  <2>3. \A u \in Thread : Leaving(u) => u = t
    BY <2>2 DEF Leaving, KInv, EndInv
  <2>4. k'.queue["receivers"] = <<>> \/ \E u \in Thread : Leaving(u)'
    <3>1. CASE k.queue["receivers"] = <<>>
      BY <1>1, <3>1
    <3>2. CASE k.queue["receivers"] # <<>>
      <4>1. Leaving(t)
        BY <2>2, <2>3, <3>2 DEF InheritInv
      <4>2. call[t].q = "receivers" /\ ~NoneWaits("receivers")
        BY <3>2, <4>1 DEF Leaving, NoneWaits
      <4>3. PICK pc \in {"test", "wake"} : call' = [call EXCEPT ![t].pc = pc]
        <5>1. CASE Test(t)
          BY <4>2, <5>1 DEF Test, Goto
        <5>2. CASE Wake(t)
          BY <5>2 DEF Wake, Goto
        <5> QED  BY <1>4, <5>1, <5>2
      <4>4. call'[t].pc = pc /\ call'[t].q = "receivers"
        BY <1>2, <2>2, <4>2, <4>3
      <4>5. Leaving(t)'
        BY <4>4 DEF Leaving, Ends, Place
      <4> QED  BY <4>5
    <3> QED  BY <3>1, <3>2
  <2> QED  BY <2>1, <2>2, <2>4 DEF InheritInv
<1> QED  BY <1>3, <1>4 DEF Ending

LEMMA InheritKept ==
  ASSUME ~DetachTimed, ObjectInv, DealsInv, InheritInv, [ObjectNext]_ipcVars
  PROVE  InheritInv'
<1>1. KInv /\ MailInv /\ ObjInv /\ StandInv /\ OwnerInv /\ obj'.kind = obj.kind
  BY ObjectKeeps DEF ObjectInv, DealsInv
<1>2. CASE obj.kind # "mutex"
  BY <1>1, <1>2 DEF InheritInv
<1>3. CASE obj.kind = "mutex" /\ UNCHANGED ipcVars
  BY <1>3 DEF ipcVars, kernelVars, InheritInv, Leaving, Ends, Awaits
<1>4. CASE obj.kind = "mutex" /\ ObjectNext
  <2>1. ~(SemNext \/ EventNext \/ MailboxNext \/ QueueNext)
    <3>1. ~SemNext
      BY <1>1, <1>4, KindAt, AtIs DEF SemNext, rt_sem_take, Taken, SemAgain, SemReset, rt_sem_release, Of
    <3>2. ~EventNext
      BY <1>1, <1>4, KindAt, AtIs
         DEF EventNext, rt_event_recv, EventReceived, EventAgain, EventReset, rt_event_send, Of
    <3>3. ~MailboxNext
      BY <1>1, <1>4, KindAt, AtIs
         DEF MailboxNext, rt_mb_recv, rt_mb_send_wait, rt_mb_send, SendAgain, ReceiveAgain,
             MailReceived, MailboxReset, MailboxAgain, Of
    <3>4. ~QueueNext
      BY <1>1, <1>4, KindAt, AtIs
         DEF QueueNext, rt_mq_recv, rt_mq_send, rt_mq_send_isr, GetAgain, CopyAndLink, CopyOut,
             GiveBack, QueueReset, QueueAgain, Of
    <3> QED  BY <3>1, <3>2, <3>3, <3>4
  <2> QED  BY <1>1, <1>4, <2>1, CommonInherits, EndingInherits, MutexInherits DEF ObjectNext
<1> QED  BY <1>2, <1>3, <1>4

LEMMA InheritStarts ==
  ASSUME ObjectInit
  PROVE  InheritInv
<1>1. k.prio = InitPrio /\ k.queue["receivers"] = <<>>
  <2>1. Thread \in SUBSET Thread /\ Thread # {} /\ IsFiniteSet(Thread)
    BY IPCAssumption, Priorities
  <2>2. k.prio = InitPrio /\ k.queue = [q \in Queues |-> <<>>]
    BY <2>1, Booted DEF ObjectInit
  <2> QED  BY <2>2 DEF Queues
<1>2. InOrder(<<>>) /\ \A u \in Thread : ~Awaits(u)
  BY <1>1 DEF InOrder, Awaits, In
<1>3. ASSUME NEW flag, obj = rt_mutex_init(flag)  PROVE InheritInv
  <2>1. obj.live = TRUE /\ obj.owner = None /\ "flag" \in DOMAIN obj
    BY <1>3 DEF rt_mutex_init
  <2> QED  BY <1>1, <1>2, <2>1 DEF InheritInv
<1>4. ASSUME NEW flag, NEW v, obj = rt_sem_init(flag, v)  PROVE InheritInv
  BY <1>4 DEF rt_sem_init, InheritInv
<1>5. ASSUME NEW flag, obj = rt_event_init(flag)  PROVE InheritInv
  BY <1>5 DEF rt_event_init, InheritInv
<1>6. ASSUME NEW flag, obj = rt_mb_init(flag)  PROVE InheritInv
  BY <1>6 DEF rt_mb_init, InheritInv
<1>7. ASSUME NEW flag, obj = rt_mq_init(flag)  PROVE InheritInv
  BY <1>7 DEF rt_mq_init, InheritInv
<1> QED
  BY <1>3, <1>4, <1>5, <1>6, <1>7 DEF ObjectInit, SemInit, MutexInit, EventInit, MailboxInit, QueueInit

(* While threads wait by priority for a mutex, its owner's priority is not *)
(* below theirs; and whoever has released a mutex, or never had it, has    *)
(* its own priority, through nested takes, hand-overs and time-outs.       *)
THEOREM ThePriorityIsInherited ==
  ASSUME ~DetachTimed
  PROVE  ObjectSpec => []Inheritance
<1>1. ObjectInv /\ InheritInv => Inheritance
  <2> SUFFICES ASSUME ObjectInv, InheritInv, obj.kind = "mutex", obj.live
               PROVE  OwnerInherits /\ PriorityRestored
    BY DEF Inheritance, OwnerInherits, PriorityRestored, Of
  <2>1. \A t \in Thread : Waits(t, "receivers") <=> Awaits(t)
    BY WaitsIs DEF Awaits
  <2> QED  BY <2>1 DEF InheritInv, OwnerInherits, PriorityRestored
<1>2. ObjectInit => InheritInv
  BY InheritStarts
<1>3. ObjectInv /\ DealsInv /\ InheritInv /\ [ObjectNext]_ipcVars => InheritInv'
  BY InheritKept
<1> QED  BY <1>1, <1>2, <1>3, DealsInvariance, PTL DEF ObjectSpec
=============================================================================
