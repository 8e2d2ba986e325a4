----------------------------- MODULE Heap_proof -----------------------------
(***************************************************************************)
(* Proofs about the heap, for any size of it, of headers and of requests,  *)
(* and any number of threads.                                              *)
(***************************************************************************)
EXTENDS Heap, FiniteSetTheorems, TLAPS

(* The invariant is put as one of the headers m, so that what the parts of *)
(* rt_malloc, rt_free and rt_realloc do to it can be said one by one.      *)
Header_t == [used : BOOLEAN, next : 0..End, prev : 0..End]
BlocksOf(m) == DOMAIN m \ {End}
Used(m) == {p \in BlocksOf(m) : m[p].used}

Typed(m) ==
  /\ m \in [DOMAIN m -> Header_t] /\ DOMAIN m \subseteq 0..End
  /\ 0 \in DOMAIN m /\ End \in DOMAIN m
  /\ m[0].prev = 0 /\ m[End].next = End /\ m[End].used

(* Tiles, and that the back links of all blocks lead back: plug_holes      *)
(* follows them.                                                           *)
Tiled(m) ==
  /\ \A p \in BlocksOf(m) : m[p].next \in DOMAIN m /\ p + Header < m[p].next
  /\ \A p \in BlocksOf(m), q \in DOMAIN m : ~(p < q /\ q < m[p].next)
  /\ \A p \in BlocksOf(m) : m[p].next # End => m[m[p].next].prev = p
  /\ \A p \in BlocksOf(m) \ {0} : m[p].prev \in BlocksOf(m) /\ m[m[p].prev].next = p

(* No two free blocks are neighbours, but block x may be one of them, on   *)
(* the side that is named.                                                 *)
ApartBut(m, x, y) ==
  \A p \in BlocksOf(m) : ~m[p].used /\ m[p].next # End /\ p # x /\ m[p].next # y
                            => m[m[p].next].used
Apart(m) == ApartBut(m, Null, Null)

FreeOrEnd(m, p) == p \in DOMAIN m /\ (p = End \/ ~m[p].used)

Heap_t(h) == h = [mem |-> h.mem, lfree |-> h.lfree, used_mem |-> h.used_mem]
HeapOK(h) ==
  /\ Heap_t(h) /\ Typed(h.mem) /\ Tiled(h.mem) /\ Apart(h.mem)
  /\ FreeOrEnd(h.mem, h.lfree)

(* The units that the used blocks of m take.                               *)
Taking(m) == UNION {p..m[p].next - 1 : p \in Used(m)}
Counts(h) == h.used_mem = Cardinality(Taking(h.mem))

Given_t == [by : User, size : Requests]
GivenOK(h, g) ==
  /\ g \in [Used(h.mem) -> Given_t]
  /\ \A p \in Used(h.mem) : g[p].size <= DataSize(h.mem, p)

(* A thread in rt_realloc still has the block that it is to leave.         *)
Call_t == [pc : {"user"}] \cup [pc : {"malloc"}, old : Nat, size : Requests]
                          \cup [pc : {"free"}, old : Nat]
CallsOK(g) ==
  /\ call \in [User -> Call_t]
  /\ \A t \in User : call[t].pc # "user" => call[t].old \in DOMAIN g /\ g[call[t].old].by = t

IInv == HeapOK(heap) /\ Counts(heap) /\ GivenOK(heap, given) /\ CallsOK(given)
-----------------------------------------------------------------------------
(* What the code does to the links.                                        *)
Merged(m, p) ==
  LET n == m[p].next
  IN  Forget([m EXCEPT ![p].next = m[n].next, ![m[n].next].prev = p], n)

IsMerged(w, m, p) ==
  LET n == m[p].next
  IN  /\ n \in BlocksOf(m) /\ p < n /\ n < m[n].next
      /\ DOMAIN w = DOMAIN m \ {n} /\ w \in [DOMAIN w -> Header_t]
      /\ \A q \in DOMAIN w :
           /\ w[q].used = m[q].used
           /\ w[q].next = IF q = p THEN m[n].next ELSE m[q].next
           /\ w[q].prev = IF q = m[n].next THEN p ELSE m[q].prev

(* The header of a block that is merged with the one before it.            *)
LEMMA MergedHeaders ==
  ASSUME NEW m, Typed(m), Tiled(m), NEW p \in BlocksOf(m), m[p].next # End
  PROVE  IsMerged(Merged(m, p), m, p)
<1> DEFINE n == m[p].next
           x == m[n].next
           v == [m EXCEPT ![p].next = x, ![x].prev = p]
<1>1. p \in DOMAIN m /\ p # End /\ n \in BlocksOf(m) /\ x \in DOMAIN m
  BY DEF Tiled, BlocksOf
<1>2. p < n /\ n < x
  <2>1. p \in Int /\ n \in Int /\ x \in Int /\ Header \in Nat
    BY <1>1, HeapAssumption DEF Typed, BlocksOf
  <2> QED  BY <1>1, <2>1 DEF Tiled
<1>3. p \in 0..End /\ x \in 0..End
  BY <1>1 DEF Typed
<1>4. v \in [DOMAIN m -> Header_t]
  BY <1>1, <1>3 DEF Typed, Header_t
<1>5. \A q \in DOMAIN m : /\ v[q].used = m[q].used
                          /\ v[q].next = IF q = p THEN x ELSE m[q].next
                          /\ v[q].prev = IF q = x THEN p ELSE m[q].prev
  BY <1>1, <1>2, <1>3 DEF Typed, Header_t
<1>6. Merged(m, p) = [q \in DOMAIN m \ {n} |-> v[q]]
  BY <1>4 DEF Merged, Forget, Restrict
<1> QED  BY <1>1, <1>2, <1>4, <1>5, <1>6 DEF IsMerged

(* Merging leaves a list that tiles the heap.                              *)
LEMMA MergedTiles ==
  ASSUME NEW m, Typed(m), Tiled(m), NEW p \in BlocksOf(m), NEW w, IsMerged(w, m, p)
  PROVE  Typed(w) /\ Tiled(w)
<1> DEFINE n == m[p].next
           x == m[n].next
<1>1. /\ n \in BlocksOf(m) /\ p < n /\ n < x
      /\ DOMAIN w = DOMAIN m \ {n} /\ w \in [DOMAIN w -> Header_t]
      /\ \A q \in DOMAIN w :
           /\ w[q].used = m[q].used
           /\ w[q].next = IF q = p THEN x ELSE m[q].next
           /\ w[q].prev = IF q = x THEN p ELSE m[q].prev
  BY DEF IsMerged
<1>2. /\ DOMAIN m \subseteq 0..End /\ 0 \in DOMAIN m /\ End \in DOMAIN m
      /\ m[0].prev = 0 /\ m[End].next = End /\ m[End].used
      /\ Header \in Nat /\ Size \in Nat /\ p \in DOMAIN m /\ n \in DOMAIN m /\ p # End
  BY <1>1, HeapAssumption DEF Typed, BlocksOf
<1>3. DOMAIN m \subseteq Nat
  BY <1>2
<1>4. x \in DOMAIN m /\ x \in Nat
  BY <1>1, <1>3 DEF Tiled
<1>5. Typed(w)
  BY <1>1, <1>2, <1>3, <1>4 DEF Typed, BlocksOf
<1>6. BlocksOf(w) = BlocksOf(m) \ {n}
  BY <1>1 DEF BlocksOf
<1>7. \A q \in BlocksOf(m) : q # p /\ m[q].next = n => FALSE
  BY <1>1, <1>3 DEF Tiled, BlocksOf
<1>8. \A q \in BlocksOf(w) : w[q].next \in DOMAIN w /\ q + Header < w[q].next
  <2> TAKE q \in BlocksOf(w)
  <2>1. CASE q = p
    BY <1>1, <1>2, <1>3, <1>4, <1>6, <2>1 DEF Tiled, BlocksOf
  <2>2. CASE q # p
    BY <1>1, <1>2, <1>6, <1>7, <2>2 DEF Tiled, BlocksOf
  <2> QED  BY <2>1, <2>2
<1>9. ASSUME NEW q \in BlocksOf(w), NEW r \in DOMAIN w, q < r, r < w[q].next
      PROVE  FALSE
  <2>1. CASE q = p
    BY <1>1, <1>2, <1>3, <1>4, <1>6, <1>9, <2>1 DEF Tiled, BlocksOf
  <2>2. CASE q # p
    BY <1>1, <1>6, <1>9, <2>2 DEF Tiled, BlocksOf
  <2> QED  BY <2>1, <2>2
<1>10. ASSUME NEW q \in BlocksOf(w), w[q].next # End
       PROVE  w[w[q].next].prev = q
  <2>1. CASE q = p
    BY <1>1, <1>8, <1>10, <2>1 DEF BlocksOf
  <2>2. CASE q # p
    <3>1. w[q].next = m[q].next /\ m[q].next \in DOMAIN w /\ q \in BlocksOf(m)
      BY <1>1, <1>6, <1>8, <2>2 DEF BlocksOf
    <3>2. m[q].next # x
      <4>1. q # n
        BY <1>6
      <4>2. SUFFICES ASSUME m[q].next = x  PROVE FALSE
        OBVIOUS
      <4>3. x # End
        BY <1>10, <3>1, <4>2
      <4> QED  BY <1>1, <3>1, <4>1, <4>2, <4>3 DEF Tiled
    <3> QED  BY <1>1, <1>10, <3>1, <3>2 DEF Tiled
  <2> QED  BY <2>1, <2>2
<1>11. ASSUME NEW q \in BlocksOf(w) \ {0}
       PROVE  w[q].prev \in BlocksOf(w) /\ w[w[q].prev].next = q
  <2>1. CASE q = x
    BY <1>1, <1>2, <1>6, <2>1 DEF BlocksOf
  <2>2. CASE q # x
    <3>1. w[q].prev = m[q].prev /\ q \in BlocksOf(m) \ {0}
      BY <1>1, <1>6, <2>2 DEF BlocksOf
    <3>2. m[q].prev \in BlocksOf(m) /\ m[m[q].prev].next = q
      BY <3>1 DEF Tiled
    <3>3. m[q].prev # n /\ m[q].prev # p
      BY <3>2, <2>2, <1>6
    <3> QED  BY <1>1, <1>6, <3>1, <3>2, <3>3 DEF BlocksOf
  <2> QED  BY <2>1, <2>2
<1> QED  BY <1>5, <1>8, <1>9, <1>10, <1>11 DEF Tiled

(* A free block, split off behind the first "size" units of block p.       *)
Cut(m, p, size) ==
  LET rest == p + Header + size
      n == m[p].next
      v == With([m EXCEPT ![p].next = rest], rest, Block(FALSE, n, p))
  IN  IF n = End THEN v ELSE [v EXCEPT ![n].prev = rest]

IsCut(w, m, p, rest) ==
  /\ rest \notin DOMAIN m /\ p < rest - Header /\ rest + Header < m[p].next
  /\ DOMAIN w = DOMAIN m \cup {rest} /\ w \in [DOMAIN w -> Header_t]
  /\ w[rest] = Block(FALSE, m[p].next, p)
  /\ \A q \in DOMAIN m :
       /\ w[q].used = m[q].used
       /\ w[q].next = IF q = p THEN rest ELSE m[q].next
       /\ w[q].prev = IF q = m[p].next /\ q # End THEN rest ELSE m[q].prev

LEMMA SplitHeaders ==
  ASSUME NEW m, Typed(m), Tiled(m), NEW p \in BlocksOf(m), NEW size \in Nat,
         size > 0, size + Header < DataSize(m, p)
  PROVE  IsCut(Cut(m, p, size), m, p, p + Header + size)
<1> DEFINE rest == p + Header + size
           n == m[p].next
           v == With([m EXCEPT ![p].next = rest], rest, Block(FALSE, n, p))
           w == Cut(m, p, size)
<1>1. /\ Header \in Nat /\ Size \in Nat /\ p \in DOMAIN m /\ p # End /\ n \in DOMAIN m
      /\ DOMAIN m \subseteq 0..End
  BY HeapAssumption DEF Typed, Tiled, BlocksOf
<1>2. p \in Nat /\ n \in Nat /\ rest \in Nat /\ End \in Nat /\ n <= End
  BY <1>1 DEF End
<1>3. p < rest - Header /\ rest + Header < n
  BY <1>1, <1>2 DEF DataSize
<1>4. rest \notin DOMAIN m
  BY <1>1, <1>2, <1>3 DEF Tiled
<1>5. rest \in 0..End /\ p \in 0..End /\ n \in 0..End
  BY <1>1, <1>2, <1>3
<1>6. w = IF n = End THEN v ELSE [v EXCEPT ![n].prev = rest]
  BY DEF Cut
<1>7. /\ DOMAIN v = DOMAIN m \cup {rest} /\ v \in [DOMAIN v -> Header_t]
      /\ v[rest] = Block(FALSE, n, p)
      /\ \A q \in DOMAIN m : /\ v[q].used = m[q].used /\ v[q].prev = m[q].prev
                             /\ v[q].next = IF q = p THEN rest ELSE m[q].next
  <2>1. [m EXCEPT ![p].next = rest] \in [DOMAIN m -> Header_t]
    BY <1>1, <1>5 DEF Typed, Header_t
  <2>2. Block(FALSE, n, p) \in Header_t
    BY <1>5 DEF Block, Header_t
  <2>3. \A q \in DOMAIN m : v[q] = [m EXCEPT ![p].next = rest][q]
    BY <1>4 DEF With
  <2>4. DOMAIN v = DOMAIN m \cup {rest} /\ v[rest] = Block(FALSE, n, p)
    BY <1>4 DEF With
  <2>5. v \in [DOMAIN v -> Header_t]
    BY <2>1, <2>2, <2>3, <2>4 DEF With
  <2>6. \A q \in DOMAIN m :
           /\ [m EXCEPT ![p].next = rest][q].used = m[q].used
           /\ [m EXCEPT ![p].next = rest][q].prev = m[q].prev
           /\ [m EXCEPT ![p].next = rest][q].next = IF q = p THEN rest ELSE m[q].next
    BY <1>1 DEF Typed, Header_t
  <2> QED  BY <2>3, <2>4, <2>5, <2>6
<1> HIDE DEF v, w
<1> SUFFICES IsCut(w, m, p, rest)
  BY DEF w
<1> HIDE DEF rest
<1>8. CASE n = End
  BY <1>3, <1>4, <1>6, <1>7, <1>8 DEF IsCut
<1>9. CASE n # End
  <2>1. w = [v EXCEPT ![n].prev = rest] /\ n # rest /\ n \in DOMAIN v
    BY <1>1, <1>4, <1>6, <1>7, <1>9
  <2>2. DOMAIN w = DOMAIN v /\ w \in [DOMAIN v -> Header_t]
    BY <1>5, <1>7, <2>1 DEF Header_t
  <2>3. \A q \in DOMAIN v : /\ w[q].used = v[q].used /\ w[q].next = v[q].next
                            /\ w[q].prev = IF q = n THEN rest ELSE v[q].prev
                            /\ q # n => w[q] = v[q]
    BY <1>7, <2>1 DEF Header_t
  <2> QED  BY <1>3, <1>4, <1>7, <1>9, <2>1, <2>2, <2>3 DEF IsCut
<1> QED  BY <1>8, <1>9

LEMMA SplitTiles ==
  ASSUME NEW m, Typed(m), Tiled(m), NEW p \in BlocksOf(m), NEW w, NEW rest \in Nat,
         IsCut(w, m, p, rest)
  PROVE  Typed(w) /\ Tiled(w)
<1> DEFINE n == m[p].next
<1>1. /\ rest \notin DOMAIN m /\ p < rest - Header /\ rest + Header < n
      /\ DOMAIN w = DOMAIN m \cup {rest} /\ w \in [DOMAIN w -> Header_t]
      /\ w[rest] = Block(FALSE, n, p)
      /\ \A q \in DOMAIN m :
           /\ w[q].used = m[q].used
           /\ w[q].next = IF q = p THEN rest ELSE m[q].next
           /\ w[q].prev = IF q = n /\ q # End THEN rest ELSE m[q].prev
  BY DEF IsCut
<1>2. /\ DOMAIN m \subseteq 0..End /\ 0 \in DOMAIN m /\ End \in DOMAIN m
      /\ m[0].prev = 0 /\ m[End].next = End /\ m[End].used
      /\ Header \in Nat /\ Size \in Nat /\ p \in DOMAIN m /\ n \in DOMAIN m /\ p # End
  BY HeapAssumption DEF Typed, Tiled, BlocksOf
<1>3. DOMAIN m \subseteq Nat /\ p \in Nat /\ n \in Nat /\ rest \in Nat /\ n <= End /\ End \in Nat
  BY <1>2 DEF End
<1>4. w[rest].next = n /\ w[rest].prev = p /\ ~w[rest].used
  BY <1>1 DEF Block
<1>5. Typed(w)
  BY <1>1, <1>2, <1>3 DEF Typed
<1>6. BlocksOf(w) = BlocksOf(m) \cup {rest}
  BY <1>1, <1>2, <1>3 DEF BlocksOf
<1>7. \A q \in BlocksOf(m) : m[q].next = n => q = p
  BY <1>1, <1>2, <1>3 DEF Tiled, BlocksOf
<1>8. ASSUME NEW q \in BlocksOf(w)
      PROVE  w[q].next \in DOMAIN w /\ q + Header < w[q].next
  <2>1. CASE q = rest
    BY <1>1, <1>2, <1>4, <2>1
  <2>2. CASE q = p
    BY <1>1, <1>2, <1>3, <2>2
  <2>3. CASE q # rest /\ q # p
    BY <1>1, <1>6, <2>3 DEF Tiled, BlocksOf
  <2> QED  BY <2>1, <2>2, <2>3
<1>9. ASSUME NEW q \in BlocksOf(w), NEW r \in DOMAIN w, q < r, r < w[q].next
      PROVE  FALSE
  <2>1. CASE q = rest
    <3>1. rest < r /\ r < n
      BY <1>4, <1>9, <2>1
    <3>2. r \in DOMAIN m
      BY <1>1, <1>3, <3>1
    <3>3. p < rest
      BY <1>1, <1>2, <1>3
    <3>4. p < r
      BY <1>3, <3>1, <3>2, <3>3
    <3> QED  BY <3>1, <3>2, <3>4 DEF Tiled
  <2>2. CASE q = p
    BY <1>1, <1>2, <1>3, <1>9, <2>2 DEF Tiled, BlocksOf
  <2>3. CASE q # rest /\ q # p
    <3>1. q \in BlocksOf(m) /\ w[q].next = m[q].next /\ q \in Nat /\ m[q].next \in Nat
      BY <1>1, <1>3, <1>6, <2>3 DEF Tiled, BlocksOf
    <3>2. r = rest
      BY <1>1, <1>9, <3>1 DEF Tiled
    <3>3. ~(q < p /\ p < m[q].next)
      BY <1>2, <3>1 DEF Tiled
    <3>4. ~(p < q /\ q < n)
      BY <1>2, <3>1 DEF Tiled, BlocksOf
    <3> QED  BY <1>1, <1>2, <1>3, <1>9, <2>3, <3>1, <3>2, <3>3, <3>4
  <2> QED  BY <2>1, <2>2, <2>3
<1>10. ASSUME NEW q \in BlocksOf(w), w[q].next # End
       PROVE  w[w[q].next].prev = q
  <2>1. CASE q = rest
    BY <1>1, <1>2, <1>4, <1>10, <2>1
  <2>2. CASE q = p
    BY <1>1, <1>2, <1>4, <2>2
  <2>3. CASE q # rest /\ q # p
    <3>1. q \in BlocksOf(m) /\ w[q].next = m[q].next /\ m[q].next # n /\ m[q].next \in DOMAIN m
      BY <1>1, <1>6, <1>7, <2>3 DEF Tiled, BlocksOf
    <3> QED  BY <1>1, <1>10, <3>1 DEF Tiled
  <2> QED  BY <2>1, <2>2, <2>3
<1>11. ASSUME NEW q \in BlocksOf(w) \ {0}
       PROVE  w[q].prev \in BlocksOf(w) /\ w[w[q].prev].next = q
  <2>1. CASE q = rest
    BY <1>1, <1>2, <1>4, <1>6, <2>1 DEF BlocksOf
  <2>2. CASE q = n /\ n # End
    BY <1>1, <1>2, <1>4, <1>6, <2>2
  <2>3. CASE q # rest /\ q # n
    <3>1. q \in BlocksOf(m) \ {0} /\ w[q].prev = m[q].prev
      BY <1>1, <1>6, <2>3 DEF BlocksOf
    <3>2. m[q].prev \in BlocksOf(m) /\ m[m[q].prev].next = q
      BY <3>1 DEF Tiled
    <3> QED  BY <1>1, <1>6, <2>3, <3>1, <3>2 DEF BlocksOf
  <2> QED  BY <2>1, <2>2, <2>3 DEF BlocksOf
<1> QED  BY <1>5, <1>8, <1>9, <1>10, <1>11 DEF Tiled
-----------------------------------------------------------------------------
(* What plug_holes promises: used blocks stay as they are.                 *)
SameUsed(m, w) ==
  /\ Used(w) = Used(m)
  /\ \A p \in Used(m) : w[p].next = m[p].next

(* Whole, but the free block p may have free neighbours.                   *)
HeapBut(h, p, x, y) ==
  /\ Heap_t(h) /\ Typed(h.mem) /\ Tiled(h.mem)
  /\ p \in BlocksOf(h.mem) /\ ~h.mem[p].used
  /\ ApartBut(h.mem, x, y) /\ FreeOrEnd(h.mem, h.lfree)

LEMMA MergedKeeps ==
  ASSUME NEW m, Typed(m), Tiled(m), NEW p \in BlocksOf(m), NEW w, IsMerged(w, m, p),
         ~m[p].used, ~m[m[p].next].used
  PROVE  SameUsed(m, w)
<1> DEFINE n == m[p].next
<1>1. BlocksOf(w) = BlocksOf(m) \ {n} /\ p \in DOMAIN m
  BY DEF IsMerged, BlocksOf
<1>2. \A q \in BlocksOf(w) : w[q].used = m[q].used /\ (q # p => w[q].next = m[q].next)
  BY DEF IsMerged, BlocksOf
<1> QED  BY <1>1, <1>2 DEF SameUsed, Used

LEMMA Forward ==
  ASSUME NEW h, NEW p, HeapBut(h, p, p, p)
  PROVE  LET k == PlugForward(h, p)
         IN  HeapBut(k, p, Null, p) /\ SameUsed(h.mem, k.mem) /\ k.used_mem = h.used_mem
<1> DEFINE m == h.mem
           n == m[p].next
           k == PlugForward(h, p)
<1>1. /\ Heap_t(h) /\ Typed(m) /\ Tiled(m) /\ p \in BlocksOf(m) /\ ~m[p].used
      /\ ApartBut(m, p, p) /\ FreeOrEnd(m, h.lfree)
  BY DEF HeapBut
<1>2. p \in Nat /\ n \in Nat /\ p < n /\ n \in DOMAIN m
  BY <1>1, HeapAssumption DEF Tiled, Typed, BlocksOf
<1>3. CASE m[n].used \/ n = End
  <2>1. k = h
    BY <1>3 DEF PlugForward
  <2>2. ApartBut(m, Null, p)
    BY <1>1, <1>3 DEF ApartBut
  <2> QED  BY <1>1, <2>1, <2>2 DEF HeapBut, SameUsed
<1>4. CASE ~(m[n].used \/ n = End)
  <2> DEFINE w == Merged(m, p)
  <2>1. /\ Heap_t(k) /\ k.mem = w /\ k.used_mem = h.used_mem
        /\ k.lfree = IF h.lfree = n THEN p ELSE h.lfree
    <3>1. k = [h EXCEPT !.lfree = IF @ = n THEN p ELSE @, !.mem = w]
      BY <1>2, <1>4 DEF PlugForward, Merged
    <3>2. h = [mem |-> h.mem, lfree |-> h.lfree, used_mem |-> h.used_mem]
      BY <1>1 DEF Heap_t
    <3>3. k = [mem |-> w, lfree |-> IF h.lfree = n THEN p ELSE h.lfree, used_mem |-> h.used_mem]
      BY <3>1, <3>2
    <3> QED  BY <3>3 DEF Heap_t
  <2>2. IsMerged(w, m, p)
    BY <1>1, <1>4, MergedHeaders
  <2> HIDE DEF w, k
  <2>3. Typed(w) /\ Tiled(w) /\ SameUsed(m, w)
    BY <1>1, <1>4, <2>2, MergedTiles, MergedKeeps
  <2>4. /\ n \in BlocksOf(m) /\ DOMAIN w = DOMAIN m \ {n}
        /\ \A q \in DOMAIN w : /\ w[q].used = m[q].used
                               /\ w[q].next = IF q = p THEN m[n].next ELSE m[q].next
    BY <2>2 DEF IsMerged
  <2>5. p \in BlocksOf(w) /\ ~w[p].used
    BY <1>1, <1>2, <2>4 DEF BlocksOf
  <2>6. FreeOrEnd(w, k.lfree)
    BY <1>1, <2>1, <2>4, <2>5 DEF FreeOrEnd, BlocksOf
  <2>7. m[n].next # p /\ m[n].next # n /\ m[n].next \in DOMAIN m
    BY <1>1, <1>2, <2>4, HeapAssumption DEF Tiled, Typed, BlocksOf
  <2>8. ASSUME NEW q \in BlocksOf(w), ~w[q].used, w[q].next # End, w[q].next # p
        PROVE  w[w[q].next].used
    <3>1. CASE q = p
      <4>1. m[m[n].next].used
        BY <1>1, <1>2, <1>4, <2>4, <2>5, <2>7, <2>8, <3>1 DEF ApartBut, BlocksOf
      <4> QED  BY <2>4, <2>5, <2>7, <3>1, <4>1 DEF BlocksOf
    <3>2. CASE q # p
      <4>1. q \in BlocksOf(m) /\ ~m[q].used /\ w[q].next = m[q].next
        BY <2>4, <2>8, <3>2 DEF BlocksOf
      <4>2. m[m[q].next].used
        BY <1>1, <2>8, <3>2, <4>1 DEF ApartBut
      <4>3. w[q].next \in DOMAIN w
        BY <2>3, <2>8 DEF Tiled
      <4> QED  BY <2>4, <4>1, <4>2, <4>3
    <3> QED  BY <3>1, <3>2
  <2>9. ApartBut(w, Null, p)
    BY <2>8 DEF ApartBut
  <2> QED  BY <2>1, <2>3, <2>5, <2>6, <2>9 DEF HeapBut, k
<1> QED  BY <1>3, <1>4

LEMMA Backward ==
  ASSUME NEW h, NEW p, HeapBut(h, p, Null, p)
  PROVE  LET k == PlugBackward(h, p)
         IN  HeapOK(k) /\ SameUsed(h.mem, k.mem) /\ k.used_mem = h.used_mem
<1> DEFINE m == h.mem
           q == m[p].prev
           k == PlugBackward(h, p)
<1>1. /\ Heap_t(h) /\ Typed(m) /\ Tiled(m) /\ p \in BlocksOf(m) /\ ~m[p].used
      /\ ApartBut(m, Null, p) /\ FreeOrEnd(m, h.lfree)
  BY DEF HeapBut
<1>2. \A r \in BlocksOf(m) : r # Null /\ m[r].next # Null /\ r \in Nat /\ m[r].next \in Nat
  BY <1>1 DEF Typed, Tiled, BlocksOf, Null
<1>3. \A r \in BlocksOf(m) : m[r].next = p => p # 0 /\ r = q
  BY <1>1, <1>2, HeapAssumption DEF Tiled, BlocksOf
<1>4. CASE q = p \/ m[q].used
  <2>1. k = h
    BY <1>4 DEF PlugBackward
  <2>2. ASSUME NEW r \in BlocksOf(m), ~m[r].used, m[r].next # End
        PROVE  m[m[r].next].used
    <3>1. CASE m[r].next = p
      <4>1. r = q /\ q # p
        BY <1>1, <1>2, <1>3, <2>2, <3>1, HeapAssumption DEF Tiled
      <4> QED  BY <1>4, <2>2, <4>1
    <3>2. CASE m[r].next # p
      BY <1>1, <1>2, <2>2, <3>2 DEF ApartBut
    <3> QED  BY <3>1, <3>2
  <2>3. Apart(m)
    BY <2>2 DEF Apart, ApartBut
  <2> QED  BY <1>1, <2>1, <2>3 DEF HeapOK, SameUsed
<1>5. CASE ~(q = p \/ m[q].used)
  <2> DEFINE w == Merged(m, q)
  <2>1. q \in BlocksOf(m) /\ m[q].next = p
    BY <1>1, <1>5 DEF Tiled, Typed
  <2>2. /\ Heap_t(k) /\ k.mem = w /\ k.used_mem = h.used_mem
        /\ k.lfree = IF h.lfree = p THEN q ELSE h.lfree
    <3>1. k = [h EXCEPT !.lfree = IF @ = p THEN q ELSE @, !.mem = w]
      BY <1>5, <2>1 DEF PlugBackward, Merged
    <3>2. h = [mem |-> h.mem, lfree |-> h.lfree, used_mem |-> h.used_mem]
      BY <1>1 DEF Heap_t
    <3>3. k = [mem |-> w, lfree |-> IF h.lfree = p THEN q ELSE h.lfree, used_mem |-> h.used_mem]
      BY <3>1, <3>2
    <3> QED  BY <3>3 DEF Heap_t
  <2>3. p # End
    BY <1>1 DEF BlocksOf
  <2>4. IsMerged(w, m, q)
    BY <1>1, <2>1, <2>3, MergedHeaders
  <2> HIDE DEF w, k
  <2>5. Typed(w) /\ Tiled(w) /\ SameUsed(m, w)
    BY <1>1, <1>5, <2>1, <2>4, MergedTiles, MergedKeeps
  <2>6. /\ DOMAIN w = DOMAIN m \ {p}
        /\ \A r \in DOMAIN w : /\ w[r].used = m[r].used
                               /\ w[r].next = IF r = q THEN m[p].next ELSE m[r].next
    BY <2>1, <2>4 DEF IsMerged
  <2>7. q \in BlocksOf(w) /\ ~w[q].used
    BY <1>5, <2>1, <2>6 DEF BlocksOf
  <2>8. FreeOrEnd(w, k.lfree)
    BY <1>1, <2>2, <2>6, <2>7 DEF FreeOrEnd, BlocksOf
  <2>9. ASSUME NEW r \in BlocksOf(w), ~w[r].used, w[r].next # End
        PROVE  w[w[r].next].used
    <3>1. w[r].next \in DOMAIN w
      BY <2>5, <2>9 DEF Tiled
    <3>2. CASE r = q
      BY <1>1, <1>2, <2>6, <2>7, <2>9, <3>1, <3>2 DEF ApartBut, BlocksOf
    <3>3. CASE r # q
      <4>1. r \in BlocksOf(m) /\ ~m[r].used /\ w[r].next = m[r].next
        BY <2>6, <2>9, <3>3 DEF BlocksOf
      <4>2. m[m[r].next].used
        BY <1>1, <1>2, <1>3, <2>9, <3>3, <4>1 DEF ApartBut
      <4> QED  BY <2>6, <3>1, <4>1, <4>2
    <3> QED  BY <3>2, <3>3
  <2>10. Apart(w)
    BY <2>9 DEF Apart, ApartBut
  <2> QED  BY <2>2, <2>5, <2>8, <2>10 DEF HeapOK, k
<1> QED  BY <1>4, <1>5

(* plug_holes merges a freed block with its free neighbours, lfree         *)
(* included, and disturbs no used one.                                     *)
LEMMA PlugHoles ==
  ASSUME NEW h, NEW p, HeapBut(h, p, p, p)
  PROVE  LET k == plug_holes(h, p)
         IN  HeapOK(k) /\ SameUsed(h.mem, k.mem) /\ k.used_mem = h.used_mem
<1> DEFINE f == PlugForward(h, p)
           k == PlugBackward(f, p)
<1>1. HeapBut(f, p, Null, p) /\ SameUsed(h.mem, f.mem) /\ f.used_mem = h.used_mem
  BY Forward
<1> HIDE DEF f
<1>2. HeapOK(k) /\ SameUsed(f.mem, k.mem) /\ k.used_mem = f.used_mem
  BY <1>1, Backward
<1> HIDE DEF k
<1>3. SameUsed(h.mem, k.mem)
  BY <1>1, <1>2 DEF SameUsed
<1> QED  BY <1>1, <1>2, <1>3 DEF plug_holes, f, k
-----------------------------------------------------------------------------
(* A set of natural numbers has a least element: rt_malloc finds the first *)
(* block that fits.                                                        *)
LEMMA LowestIsIn ==
  ASSUME NEW S, S \subseteq Nat, S # {}
  PROVE  Min(S) \in S
<1> DEFINE R == OpToRel(<, Nat)
<1>1. \E x \in S : \A y \in S : ~(<<y, x>> \in R)
  <2>1. IsWellFoundedOn(R, Nat)
    BY NatLessThanWellFounded
  <2> HIDE DEF R
  <2> QED  BY <2>1, WFMin
<1>2. PICK x \in S : \A y \in S : ~(<<y, x>> \in R)
  BY <1>1
<1>3. ASSUME NEW y \in S  PROVE x =< y
  <2>1. x \in Nat /\ y \in Nat /\ (y < x => <<y, x>> \in R)
    BY DEF OpToRel
  <2> HIDE DEF R
  <2> QED  BY <1>2, <2>1
<1> QED  BY <1>3 DEF Min

(* Marking a block as used or free leaves the links alone.                 *)
Marked(m, p, on) == [m EXCEPT ![p].used = on]

IsMarked(w, m, p, on) ==
  /\ DOMAIN w = DOMAIN m
  /\ \A q \in DOMAIN m : /\ w[q].next = m[q].next /\ w[q].prev = m[q].prev
                         /\ q # p => w[q].used = m[q].used
  /\ w[p].used = on

LEMMA MarkedTiles ==
  ASSUME NEW m, Typed(m), Tiled(m), NEW p \in BlocksOf(m), NEW on \in BOOLEAN
  PROVE  Typed(Marked(m, p, on)) /\ Tiled(Marked(m, p, on)) /\ IsMarked(Marked(m, p, on), m, p, on)
<1> DEFINE w == Marked(m, p, on)
<1>1. w \in [DOMAIN m -> Header_t] /\ DOMAIN w = DOMAIN m
  BY DEF Typed, Header_t, Marked
<1>2. /\ \A q \in DOMAIN m : /\ w[q].next = m[q].next /\ w[q].prev = m[q].prev
                             /\ q # p => w[q].used = m[q].used
      /\ w[p].used = on /\ p \in DOMAIN m /\ p # End
  BY DEF Typed, Header_t, Marked, BlocksOf
<1> HIDE DEF w
<1>3. Typed(w)
  BY <1>1, <1>2 DEF Typed, BlocksOf
<1>4. BlocksOf(w) = BlocksOf(m)
  BY <1>1 DEF BlocksOf
<1>5. Tiled(w)
  <2>1. \A q \in BlocksOf(m) : q \in DOMAIN m /\ m[q].next \in DOMAIN m
    BY DEF Tiled, BlocksOf
  <2>2. \A q \in BlocksOf(m) \ {0} : m[q].prev \in BlocksOf(m) /\ m[q].prev \in DOMAIN m
    BY DEF Tiled, BlocksOf
  <2> QED  BY <1>1, <1>2, <1>4, <2>1, <2>2 DEF Tiled
<1> QED  BY <1>1, <1>2, <1>3, <1>5 DEF w, IsMarked

(* used_mem counts one block more or less.                                 *)
LEMMA TakingFinite ==
  ASSUME NEW m, Typed(m), Tiled(m)
  PROVE  IsFiniteSet(Taking(m)) /\ Taking(m) \subseteq 0..End - 1 /\ Cardinality(Taking(m)) \in 0..End
<1>1. End \in Nat
  BY HeapAssumption DEF End
<1>2. Taking(m) \subseteq 0..End - 1
  BY <1>1 DEF Taking, Used, Typed, Tiled, BlocksOf
<1>3. IsFiniteSet(0..End - 1) /\ Cardinality(0..End - 1) = End
  BY <1>1, FS_Interval
<1>4. IsFiniteSet(Taking(m)) /\ Cardinality(Taking(m)) <= End
  BY <1>2, <1>3, FS_Subset
<1>5. Cardinality(Taking(m)) \in Nat
  BY <1>4, FS_CardinalityType
<1> QED  BY <1>1, <1>2, <1>4, <1>5

LEMMA OneMore ==
  ASSUME NEW m, NEW w, Typed(w), Tiled(w), NEW p \in Used(w),
         Used(m) = Used(w) \ {p}, \A q \in Used(m) : w[q].next = m[q].next
  PROVE  Cardinality(Taking(w)) = Cardinality(Taking(m)) + (w[p].next - p)
<1> DEFINE I == p..w[p].next - 1
<1>1. /\ p \in BlocksOf(w) /\ p \in DOMAIN w /\ p \in Nat /\ w[p].next \in Nat /\ p < w[p].next
      /\ \A q \in Used(w) : q \in DOMAIN w /\ q \in BlocksOf(w) /\ q \in Nat /\ w[q].next \in Nat
  BY HeapAssumption DEF Used, BlocksOf, Typed, Tiled
<1>2. Taking(w) = Taking(m) \cup I
  <2>1. Taking(m) = UNION {q..w[q].next - 1 : q \in Used(m)}
    BY DEF Taking
  <2> QED  BY <2>1 DEF Taking
<1>3. Taking(m) \cap I = {}
  <2> SUFFICES ASSUME NEW q \in Used(w), q # p, NEW u \in q..w[q].next - 1, u \in I
               PROVE  FALSE
    BY DEF Taking
  <2>1. ~(p < q /\ q < w[p].next) /\ ~(q < p /\ p < w[q].next)
    BY <1>1 DEF Tiled
  <2> QED  BY <1>1, <2>1
<1>4. IsFiniteSet(Taking(m))
  BY <1>2, TakingFinite, FS_Subset
<1>5. IsFiniteSet(I) /\ Cardinality(I) = w[p].next - p
  <2> DEFINE b == w[p].next - 1
  <2>1. p \in Int /\ b \in Int /\ ~(p > b) /\ b - p + 1 = w[p].next - p
    BY <1>1
  <2> HIDE DEF b
  <2>2. IsFiniteSet(p..b) /\ Cardinality(p..b) = IF p > b THEN 0 ELSE b - p + 1
    BY <2>1, FS_Interval
  <2> QED  BY <2>1, <2>2 DEF b
<1> HIDE DEF I
<1>6. Cardinality(Taking(w)) = Cardinality(Taking(m)) + Cardinality(I) - Cardinality(Taking(m) \cap I)
  BY <1>2, <1>4, <1>5, FS_Union
<1>7. Cardinality(Taking(m) \cap I) = 0
  BY <1>3, FS_EmptySet
<1>8. Cardinality(Taking(m)) \in Nat
  BY <1>4, FS_CardinalityType
<1> QED  BY <1>1, <1>5, <1>6, <1>7, <1>8
-----------------------------------------------------------------------------
(* The block that rt_malloc takes is at least as large as was asked for,   *)
(* and free blocks do not become neighbours.                               *)
IsTaken(k, h, p, size) ==
  /\ Heap_t(k) /\ Typed(k.mem) /\ Tiled(k.mem) /\ Apart(k.mem)
  /\ k.lfree = h.lfree /\ (k.lfree = p \/ FreeOrEnd(k.mem, k.lfree))
  /\ p \in Used(k.mem) /\ Used(h.mem) = Used(k.mem) \ {p}
  /\ \A q \in Used(h.mem) : k.mem[q].next = h.mem[q].next
  /\ DataSize(k.mem, p) >= size
  /\ k.used_mem = h.used_mem + (k.mem[p].next - p)

LEMMA TakenKeeps ==
  ASSUME NEW h, HeapOK(h), h.used_mem \in Int, NEW p \in BlocksOf(h.mem), ~h.mem[p].used,
         NEW size \in Nat, size > 0, DataSize(h.mem, p) >= size
  PROVE  IsTaken(Taken(h, p, size), h, p, size)
<1> DEFINE m == h.mem
           k == Taken(h, p, size)
           v == IF DataSize(m, p) >= size + Header + MinSize THEN Cut(m, p, size) ELSE m
           w == Marked(v, p, TRUE)
           rest == p + Header + size
<1>1. /\ h = [mem |-> m, lfree |-> h.lfree, used_mem |-> h.used_mem]
      /\ Typed(m) /\ Tiled(m) /\ Apart(m) /\ FreeOrEnd(m, h.lfree)
  BY DEF HeapOK, Heap_t
<1>2. /\ Header \in Nat \ {0} /\ MinSize \in Nat \ {0} /\ DOMAIN m \subseteq Nat
      /\ p \in DOMAIN m /\ p \in Nat /\ m[p].next \in Nat /\ rest \in Nat
  BY <1>1, HeapAssumption DEF Typed, Tiled, BlocksOf
<1>3. CASE DataSize(m, p) >= size + Header + MinSize
  <2>1. size + Header < DataSize(m, p)
    BY <1>2, <1>3 DEF DataSize
  <2>2. IsCut(Cut(m, p, size), m, p, rest)
    BY <1>1, <2>1, SplitHeaders
  <2>3. Typed(v) /\ Tiled(v) /\ IsCut(v, m, p, rest)
    BY <1>1, <1>2, <1>3, <2>2, SplitTiles
  <2>4. k = [mem |-> w, lfree |-> h.lfree, used_mem |-> h.used_mem + size + Header]
    <3>1. Split(h, p, size) = [h EXCEPT !.mem = v]
      BY <1>3 DEF Split, Cut
    <3>2. k = [Split(h, p, size) EXCEPT !.mem[p].used = TRUE, !.used_mem = @ + size + Header]
      BY <1>3 DEF Taken
    <3> HIDE DEF v, k
    <3>3. [h EXCEPT !.mem = v] = [mem |-> v, lfree |-> h.lfree, used_mem |-> h.used_mem]
      BY <1>1
    <3>4. k = [[mem |-> v, lfree |-> h.lfree, used_mem |-> h.used_mem]
                 EXCEPT !.mem[p].used = TRUE, !.used_mem = @ + size + Header]
      BY <3>1, <3>2, <3>3
    <3> QED  BY <3>4 DEF Marked
  <2> HIDE DEF v, k
  <2>5. p \in BlocksOf(v)
    BY <2>3 DEF IsCut, BlocksOf
  <2>6. Typed(w) /\ Tiled(w) /\ IsMarked(w, v, p, TRUE)
    BY <2>3, <2>5, MarkedTiles
  <2> HIDE DEF w
  <2>7. /\ rest \notin DOMAIN m /\ DOMAIN w = DOMAIN m \cup {rest} /\ rest # End
        /\ w[rest].next = m[p].next /\ ~w[rest].used /\ rest # p /\ p # End
        /\ w[p].used /\ w[p].next = rest
        /\ \A q \in DOMAIN m \ {p} : w[q].next = m[q].next /\ w[q].used = m[q].used
    <3>1. /\ rest \notin DOMAIN m /\ DOMAIN v = DOMAIN m \cup {rest}
          /\ v[rest] = Block(FALSE, m[p].next, p)
          /\ \A q \in DOMAIN m : /\ v[q].used = m[q].used
                                 /\ v[q].next = IF q = p THEN rest ELSE m[q].next
      BY <2>3 DEF IsCut
    <3>2. End \in DOMAIN m /\ p # End
      BY <1>1 DEF Typed, BlocksOf
    <3> HIDE DEF rest
    <3>3. v[rest].next = m[p].next /\ v[rest].used = FALSE
      BY <3>1 DEF Block
    <3> QED  BY <1>2, <2>6, <3>1, <3>2, <3>3 DEF IsMarked
  <2>8. Used(m) = Used(w) \ {p} /\ p \in Used(w) /\ (\A q \in Used(m) : w[q].next = m[q].next)
    BY <1>2, <2>7 DEF Used, BlocksOf
  <2>9. ASSUME NEW q \in BlocksOf(w), ~w[q].used, w[q].next # End
        PROVE  w[w[q].next].used
    <3>1. CASE q = rest
      BY <1>1, <1>2, <2>7, <2>9, <3>1 DEF Apart, ApartBut, Tiled, BlocksOf, Null
    <3>2. CASE q # rest
      <4>1. q \in BlocksOf(m) /\ q # p /\ ~m[q].used /\ w[q].next = m[q].next /\ m[q].next \in DOMAIN m
        BY <1>1, <2>7, <2>9, <3>2 DEF BlocksOf, Tiled
      <4>2. m[m[q].next].used
        BY <1>1, <1>2, <2>9, <4>1 DEF Apart, ApartBut, BlocksOf, Null
      <4> QED  BY <2>7, <4>1, <4>2
    <3> QED  BY <3>1, <3>2
  <2>10. Apart(w)
    BY <2>9 DEF Apart, ApartBut
  <2>11. h.lfree = p \/ FreeOrEnd(w, h.lfree)
    BY <1>1, <2>7 DEF FreeOrEnd
  <2>12. DataSize(w, p) >= size /\ h.used_mem + size + Header = h.used_mem + (w[p].next - p)
    BY <1>2, <2>7 DEF DataSize
  <2>13. Heap_t(k) /\ k.mem = w /\ k.lfree = h.lfree /\ k.used_mem = h.used_mem + size + Header
    BY <2>4 DEF Heap_t
  <2> QED  BY <2>6, <2>8, <2>10, <2>11, <2>12, <2>13 DEF k, IsTaken
<1>4. CASE ~(DataSize(m, p) >= size + Header + MinSize)
  <2>1. k = [mem |-> w, lfree |-> h.lfree, used_mem |-> h.used_mem + m[p].next - p] /\ v = m
    BY <1>1, <1>4 DEF Taken, Marked
  <2> HIDE DEF v, k
  <2>2. Typed(w) /\ Tiled(w) /\ IsMarked(w, m, p, TRUE)
    <3>1. w = Marked(m, p, TRUE)
      BY <2>1
    <3> HIDE DEF w
    <3> QED  BY <1>1, <3>1, MarkedTiles
  <2> HIDE DEF w
  <2>3. Used(m) = Used(w) \ {p} /\ p \in Used(w) /\ (\A q \in Used(m) : w[q].next = m[q].next)
    BY <1>2, <2>2 DEF Used, BlocksOf, IsMarked
  <2>4. ASSUME NEW q \in BlocksOf(w), ~w[q].used, w[q].next # End
        PROVE  w[w[q].next].used
    <3>1. q \in BlocksOf(m) /\ ~m[q].used /\ w[q].next = m[q].next /\ m[q].next \in DOMAIN m
      BY <1>1, <2>2, <2>4 DEF BlocksOf, Tiled, IsMarked
    <3>2. m[m[q].next].used
      BY <1>1, <1>2, <2>4, <3>1 DEF Apart, ApartBut, BlocksOf, Null
    <3> QED  BY <2>2, <3>1, <3>2 DEF IsMarked
  <2>5. Apart(w)
    BY <2>4 DEF Apart, ApartBut
  <2>6. h.lfree = p \/ FreeOrEnd(w, h.lfree)
    BY <1>1, <2>2 DEF FreeOrEnd, IsMarked
  <2>7. DataSize(w, p) >= size /\ h.used_mem + m[p].next - p = h.used_mem + (w[p].next - p)
    BY <1>2, <2>2 DEF DataSize, IsMarked
  <2>8. Heap_t(k) /\ k.mem = w /\ k.lfree = h.lfree /\ k.used_mem = h.used_mem + m[p].next - p
    BY <2>1 DEF Heap_t
  <2> QED  BY <2>2, <2>3, <2>5, <2>6, <2>7, <2>8 DEF k, IsTaken
<1> QED  BY <1>3, <1>4

(* lfree moves on to a free block, or to heap_end.                         *)
LEMMA NextFreeIsFree ==
  ASSUME NEW h, Heap_t(h), Typed(h.mem), NEW p \in BlocksOf(h.mem),
         h.lfree = p \/ FreeOrEnd(h.mem, h.lfree)
  PROVE  LET k == NextFree(h, p)
         IN  /\ Heap_t(k) /\ k.mem = h.mem /\ k.used_mem = h.used_mem
             /\ h.lfree # p \/ h.mem[p].used => FreeOrEnd(k.mem, k.lfree)
<1> DEFINE m == h.mem
           S == {q \in DOMAIN m : p <= q /\ (q = End \/ ~m[q].used)}
           k == NextFree(h, p)
<1>1. S \subseteq Nat /\ End \in S
  BY HeapAssumption DEF Typed, BlocksOf, End
<1>2. Min(S) \in S
  BY <1>1, LowestIsIn
<1>3. CASE p # h.lfree
  BY <1>3 DEF NextFree
<1>4. CASE p = h.lfree
  <2>1. h = [mem |-> h.mem, lfree |-> h.lfree, used_mem |-> h.used_mem]
    BY DEF Heap_t
  <2>2. k = [h EXCEPT !.lfree = Min(S)]
    BY <1>4 DEF NextFree
  <2> HIDE DEF S
  <2>3. k = [mem |-> h.mem, lfree |-> Min(S), used_mem |-> h.used_mem]
    BY <2>1, <2>2
  <2> HIDE DEF k
  <2>4. FreeOrEnd(m, Min(S))
    BY <1>2 DEF FreeOrEnd, S
  <2> QED  BY <2>3, <2>4 DEF Heap_t, k
<1> QED  BY <1>3, <1>4

(* rt_malloc: what was there stays, and the block it returns is free and   *)
(* large enough.                                                           *)
IsAllocated(k, h, p, size) ==
  /\ HeapOK(k) /\ Counts(k)
  /\ p \in Used(k.mem) /\ Used(h.mem) = Used(k.mem) \ {p}
  /\ \A q \in Used(h.mem) : k.mem[q].next = h.mem[q].next
  /\ size <= DataSize(k.mem, p)

LEMMA MallocKeeps ==
  ASSUME HeapOK(heap), Counts(heap), NEW size \in Requests, Finds(size)
  PROVE  IsAllocated(Allocated(size), heap, Found(size), size)
<1> DEFINE m == heap.mem
           z == AtLeast(size)
           p == Found(size)
           h == Taken(heap, p, z)
           k == NextFree(h, p)
<1>1. /\ Typed(m) /\ Tiled(m) /\ Size \in Nat /\ size \in Nat /\ size > 0
      /\ z \in Nat /\ z >= size
  BY HeapAssumption DEF HeapOK, AtLeast
<1>2. p \in Fitting(heap, z)
  <2>1. Fitting(heap, z) \subseteq Nat /\ Fitting(heap, z) # {}
    BY <1>1 DEF Fitting, Finds, Typed
  <2> QED  BY <2>1, LowestIsIn DEF Found
<1> HIDE DEF p, z
<1>3. p \in BlocksOf(m) /\ ~m[p].used /\ DataSize(m, p) >= z
  BY <1>1, <1>2 DEF Fitting, BlocksOf, End, Typed
<1>4. heap.used_mem = Cardinality(Taking(m)) /\ heap.used_mem \in Int
  BY <1>1, TakingFinite DEF Counts
<1>5. /\ Heap_t(h) /\ Typed(h.mem) /\ Tiled(h.mem) /\ Apart(h.mem)
      /\ h.lfree = p \/ FreeOrEnd(h.mem, h.lfree)
      /\ p \in Used(h.mem) /\ Used(m) = Used(h.mem) \ {p}
      /\ \A q \in Used(m) : h.mem[q].next = m[q].next
      /\ DataSize(h.mem, p) >= z
      /\ h.used_mem = heap.used_mem + (h.mem[p].next - p)
  <2>1. z > 0
    BY <1>1 DEF z
  <2>2. IsTaken(h, heap, p, z)
    BY <1>1, <1>3, <1>4, <2>1, TakenKeeps
  <2> HIDE DEF h
  <2> QED  BY <2>2 DEF IsTaken
<1> HIDE DEF h
<1>6. p \in BlocksOf(h.mem) /\ h.mem[p].used
  BY <1>5 DEF Used
<1>7. Heap_t(k) /\ k.mem = h.mem /\ k.used_mem = h.used_mem /\ FreeOrEnd(k.mem, k.lfree)
  BY <1>5, <1>6, NextFreeIsFree
<1> HIDE DEF k
<1>8. HeapOK(k)
  BY <1>5, <1>7 DEF HeapOK
<1>9. Cardinality(Taking(h.mem)) = Cardinality(Taking(m)) + (h.mem[p].next - p)
  BY <1>5, OneMore
<1>10. Counts(k)
  BY <1>4, <1>5, <1>7, <1>9 DEF Counts
<1>11. size <= DataSize(k.mem, p)
  <2>1. DataSize(h.mem, p) \in Int
    BY <1>5, <1>6, HeapAssumption DEF DataSize, Typed, Tiled, BlocksOf
  <2> QED  BY <1>1, <1>5, <1>7, <2>1
<1>12. IsAllocated(k, heap, p, size)
  BY <1>5, <1>7, <1>8, <1>10, <1>11 DEF IsAllocated
<1> QED  BY <1>12 DEF Allocated, k, h, p, z

(* rt_free: the other blocks stay.                                         *)
LEMMA FreeKeeps ==
  ASSUME NEW h, HeapOK(h), Counts(h), NEW p \in Used(h.mem)
  PROVE  LET k == Freed(h, p)
         IN  /\ HeapOK(k) /\ Counts(k) /\ Used(k.mem) = Used(h.mem) \ {p}
             /\ \A q \in Used(k.mem) : k.mem[q].next = h.mem[q].next
<1> DEFINE m == h.mem
           w == Marked(m, p, FALSE)
           l == IF p < h.lfree THEN p ELSE h.lfree
           g == [mem |-> w, lfree |-> l, used_mem |-> h.used_mem - (m[p].next - p)]
           k == plug_holes(g, p)
<1>1. /\ h = [mem |-> m, lfree |-> h.lfree, used_mem |-> h.used_mem]
      /\ Typed(m) /\ Tiled(m) /\ Apart(m) /\ FreeOrEnd(m, h.lfree) /\ p \in BlocksOf(m)
      /\ m[p].used
  BY DEF HeapOK, Heap_t, Used
<1>2. Freed(h, p) = k
  <2> DEFINE u == h.used_mem - (m[p].next - p)
  <2>1. Freed(h, p) = plug_holes([h EXCEPT !.mem = w, !.lfree = l, !.used_mem = u], p)
    BY DEF Freed, Marked
  <2> HIDE DEF w, l, u
  <2> DEFINE a == m
             b == h.lfree
             c == h.used_mem
  <2>2. h = [mem |-> a, lfree |-> b, used_mem |-> c]
    BY <1>1
  <2> HIDE DEF a, b, c
  <2>3. [h EXCEPT !.mem = w, !.lfree = l, !.used_mem = u] = [mem |-> w, lfree |-> l, used_mem |-> u]
    <3>1. [h EXCEPT !.mem = w] = [mem |-> w, lfree |-> b, used_mem |-> c]
      BY <2>2
    <3>2. [[mem |-> w, lfree |-> b, used_mem |-> c] EXCEPT !.lfree = l]
             = [mem |-> w, lfree |-> l, used_mem |-> c]
      OBVIOUS
    <3>3. [[mem |-> w, lfree |-> l, used_mem |-> c] EXCEPT !.used_mem = u]
             = [mem |-> w, lfree |-> l, used_mem |-> u]
      OBVIOUS
    <3> QED  BY <3>1, <3>2, <3>3
  <2> QED  BY <2>1, <2>3 DEF u
<1>3. /\ Typed(w) /\ Tiled(w) /\ DOMAIN w = DOMAIN m /\ ~w[p].used
      /\ \A q \in DOMAIN m : w[q].next = m[q].next /\ (q # p => w[q].used = m[q].used)
  <2>1. Typed(w) /\ Tiled(w) /\ IsMarked(w, m, p, FALSE)
    BY <1>1, MarkedTiles
  <2> QED  BY <2>1 DEF IsMarked
<1> HIDE DEF w
<1>4. g.mem = w /\ g.lfree = l /\ g.used_mem = h.used_mem - (m[p].next - p) /\ Heap_t(g)
  BY DEF Heap_t
<1>5. Used(w) = Used(m) \ {p} /\ BlocksOf(w) = BlocksOf(m)
  BY <1>1, <1>3 DEF Used, BlocksOf
<1>6. HeapBut(g, p, p, p)
  <2>1. ApartBut(w, p, p)
    <3> SUFFICES ASSUME NEW q \in BlocksOf(w), ~w[q].used, w[q].next # End, q # p, w[q].next # p
                 PROVE  w[w[q].next].used
      BY DEF ApartBut
    <3>1. q \in BlocksOf(m) /\ ~m[q].used /\ m[q].next # End /\ m[q].next \in BlocksOf(m)
      BY <1>1, <1>3, <1>5 DEF BlocksOf, Tiled
    <3>2. q # Null /\ m[q].next # Null
      BY <1>1, <3>1 DEF Typed, BlocksOf, Null
    <3>3. m[m[q].next].used
      BY <1>1, <3>1, <3>2 DEF Apart, ApartBut
    <3> QED  BY <1>3, <3>1, <3>3 DEF BlocksOf
  <2>2. FreeOrEnd(w, l)
    BY <1>1, <1>3 DEF FreeOrEnd, BlocksOf
  <2> HIDE DEF g, l
  <2> QED  BY <1>1, <1>3, <1>4, <1>5, <2>1, <2>2 DEF HeapBut, BlocksOf
<1> HIDE DEF g
<1>7. HeapOK(k) /\ SameUsed(g.mem, k.mem) /\ k.used_mem = g.used_mem
  BY <1>6, PlugHoles
<1> HIDE DEF k
<1>8. Used(k.mem) = Used(m) \ {p} /\ \A q \in Used(k.mem) : k.mem[q].next = m[q].next
  <2>1. \A q \in Used(m) : q \in DOMAIN m
    BY DEF Used, BlocksOf
  <2> QED  BY <1>3, <1>4, <1>5, <1>7, <2>1 DEF SameUsed
<1>9. Cardinality(Taking(m)) = Cardinality(Taking(k.mem)) + (m[p].next - p)
  BY <1>1, <1>8, OneMore
<1>10. Cardinality(Taking(k.mem)) \in Int /\ m[p].next - p \in Int
  BY <1>1, <1>7, TakingFinite DEF HeapOK, Typed, Tiled, BlocksOf
<1>11. Counts(k)
  BY <1>4, <1>7, <1>9, <1>10 DEF Counts
<1> QED  BY <1>2, <1>7, <1>8, <1>11

(* rt_realloc that shrinks a block: the others stay, and it holds what is  *)
(* asked for.                                                              *)
LEMMA ShrinkKeeps ==
  ASSUME NEW h, HeapOK(h), Counts(h), NEW p \in Used(h.mem), NEW size \in Nat, size > 0,
         size + Header + MinSize < DataSize(h.mem, p)
  PROVE  LET k == Shrunk(h, p, size)
         IN  /\ HeapOK(k) /\ Counts(k) /\ Used(k.mem) = Used(h.mem)
             /\ \A q \in Used(k.mem) \ {p} : k.mem[q].next = h.mem[q].next
             /\ DataSize(k.mem, p) = size
<1> DEFINE m == h.mem
           w == Cut(m, p, size)
           rest == p + Header + size
           u == h.used_mem - (DataSize(m, p) - size)
           g == [mem |-> w, lfree |-> h.lfree, used_mem |-> u]
           k == plug_holes(g, rest)
           x == Marked(m, p, FALSE)
<1>1. /\ h = [mem |-> m, lfree |-> h.lfree, used_mem |-> h.used_mem]
      /\ Typed(m) /\ Tiled(m) /\ Apart(m) /\ FreeOrEnd(m, h.lfree) /\ p \in BlocksOf(m)
      /\ m[p].used
  BY DEF HeapOK, Heap_t, Used
<1>2. /\ Header \in Nat \ {0} /\ MinSize \in Nat \ {0} /\ DOMAIN m \subseteq Nat
      /\ p \in DOMAIN m /\ p \in Nat /\ p # End /\ m[p].next \in Nat /\ rest \in Nat
      /\ End \in DOMAIN m
  BY <1>1, HeapAssumption DEF Typed, Tiled, BlocksOf
<1>3. Shrunk(h, p, size) = k
  <2>1. Split(h, p, size) = [h EXCEPT !.mem = w]
    BY DEF Split, Cut
  <2>2. Shrunk(h, p, size) = plug_holes([Split(h, p, size) EXCEPT
                               !.used_mem = @ - (DataSize(m, p) - size)], rest)
    BY DEF Shrunk
  <2> DEFINE a == m
             b == h.lfree
             c == h.used_mem
             d == DataSize(m, p) - size
  <2> HIDE DEF w
  <2>3. h = [mem |-> a, lfree |-> b, used_mem |-> c]
    BY <1>1
  <2> HIDE DEF a, b, c, d
  <2>4. [h EXCEPT !.mem = w] = [mem |-> w, lfree |-> b, used_mem |-> c]
    BY <2>3
  <2>5. [[mem |-> w, lfree |-> b, used_mem |-> c] EXCEPT !.used_mem = @ - d]
           = [mem |-> w, lfree |-> b, used_mem |-> c - d]
    OBVIOUS
  <2> QED  BY <2>1, <2>2, <2>4, <2>5 DEF b, c, d
<1>4. IsCut(w, m, p, rest)
  <2>1. size + Header < DataSize(m, p)
    BY <1>2 DEF DataSize
  <2> QED  BY <1>1, <2>1, SplitHeaders
<1>5. Typed(w) /\ Tiled(w)
  BY <1>1, <1>2, <1>4, SplitTiles
<1> HIDE DEF w
<1>6. /\ rest \notin DOMAIN m /\ DOMAIN w = DOMAIN m \cup {rest} /\ rest # End /\ rest # p
      /\ w[rest].next = m[p].next /\ w[rest].used = FALSE /\ w[p].next = rest
      /\ \A q \in DOMAIN m : w[q].used = m[q].used /\ (q # p => w[q].next = m[q].next)
  BY <1>2, <1>4 DEF IsCut, Block
<1> HIDE DEF rest
<1>7. Used(w) = Used(m) /\ BlocksOf(w) = BlocksOf(m) \cup {rest}
  BY <1>6 DEF Used, BlocksOf
<1>8. HeapBut(g, rest, rest, rest)
  <2>1. ASSUME NEW q \in BlocksOf(w), ~w[q].used, w[q].next # End, q # rest, w[q].next # rest
        PROVE  w[w[q].next].used
    <3>1. q \in BlocksOf(m) /\ q # p /\ ~m[q].used /\ w[q].next = m[q].next /\ m[q].next \in DOMAIN m
      BY <1>1, <1>6, <1>7, <2>1 DEF BlocksOf, Tiled
    <3>2. q # Null /\ m[q].next # Null
      BY <1>2, <3>1 DEF BlocksOf, Null
    <3>3. m[m[q].next].used
      BY <1>1, <2>1, <3>1, <3>2 DEF Apart, ApartBut
    <3> QED  BY <1>6, <3>1, <3>3
  <2>2. ApartBut(w, rest, rest)
    BY <2>1 DEF ApartBut
  <2>3. FreeOrEnd(w, h.lfree)
    BY <1>1, <1>6 DEF FreeOrEnd
  <2>4. Heap_t(g) /\ g.mem = w /\ g.lfree = h.lfree
    BY DEF Heap_t
  <2> HIDE DEF g
  <2> QED  BY <1>5, <1>6, <1>7, <2>2, <2>3, <2>4 DEF HeapBut
<1>9. g.mem = w /\ g.used_mem = u
  OBVIOUS
<1> HIDE DEF g
<1>10. HeapOK(k) /\ SameUsed(w, k.mem) /\ k.used_mem = u
  BY <1>8, <1>9, PlugHoles
<1> HIDE DEF k
<1>11. Used(k.mem) = Used(m) /\ \A q \in Used(m) : k.mem[q].next = w[q].next
  BY <1>7, <1>10 DEF SameUsed
<1>12. /\ k.mem[p].next = rest
       /\ \A q \in Used(m) \ {p} : k.mem[q].next = m[q].next
  BY <1>6, <1>11 DEF Used, BlocksOf
<1>13. Used(x) = Used(m) \ {p} /\ \A q \in Used(x) : x[q].next = m[q].next
  <2>1. IsMarked(x, m, p, FALSE)
    BY <1>1, MarkedTiles
  <2> HIDE DEF x
  <2> QED  BY <2>1 DEF IsMarked, Used, BlocksOf
<1> HIDE DEF x
<1>14. Cardinality(Taking(m)) = Cardinality(Taking(x)) + (m[p].next - p)
  BY <1>1, <1>13, OneMore
<1>15. Cardinality(Taking(k.mem)) = Cardinality(Taking(x)) + (rest - p)
  <2>1. Typed(k.mem) /\ Tiled(k.mem)
    BY <1>10 DEF HeapOK
  <2> QED  BY <1>11, <1>12, <1>13, <2>1, OneMore
<1>16. Cardinality(Taking(m)) \in Int /\ Cardinality(Taking(k.mem)) \in Int
  BY <1>1, <1>10, TakingFinite DEF HeapOK
<1>17. DataSize(m, p) - size = m[p].next - rest /\ rest - p = Header + size
  BY <1>2 DEF DataSize, rest
<1>18. Cardinality(Taking(k.mem)) = Cardinality(Taking(m)) - (m[p].next - rest)
  <2>1. Cardinality(Taking(x)) = Cardinality(Taking(m)) - (m[p].next - p)
    <3>1. IsFiniteSet(Taking(x))
      <4>1. Taking(x) \subseteq Taking(m)
        BY <1>13 DEF Taking
      <4> QED  BY <1>1, <4>1, TakingFinite, FS_Subset
    <3>2. Cardinality(Taking(x)) \in Int
      BY <3>1, FS_CardinalityType
    <3> QED  BY <1>2, <1>14, <1>16, <3>2
  <2> QED  BY <1>2, <1>15, <1>16, <2>1
<1>19. Counts(k)
  BY <1>2, <1>10, <1>16, <1>17, <1>18 DEF Counts
<1>20. DataSize(k.mem, p) = size
  BY <1>2, <1>12, <1>17 DEF DataSize
<1> QED  BY <1>3, <1>10, <1>11, <1>12, <1>19, <1>20
-----------------------------------------------------------------------------
(* What the actions do to the history of blocks given.                     *)
Gives(h, k, p, size) ==
  /\ Typed(h.mem) /\ Typed(k.mem)
  /\ p \in Used(k.mem) /\ Used(k.mem) = Used(h.mem) \cup {p} /\ size <= DataSize(k.mem, p)
  /\ \A q \in Used(h.mem) \ {p} : k.mem[q].next = h.mem[q].next

IsGiven(f, g, t, p) ==
  /\ DOMAIN f = DOMAIN g \cup {p} /\ f[p].by = t
  /\ \A q \in DOMAIN g \ {p} : f[q] = g[q]

LEMMA Giving ==
  ASSUME NEW h, NEW k, NEW g, GivenOK(h, g), NEW t \in User, NEW size \in Requests,
         NEW p, Gives(h, k, p, size)
  PROVE  GivenOK(k, Give(g, t, p, size)) /\ IsGiven(Give(g, t, p, size), g, t, p)
<1> DEFINE f == Give(g, t, p, size)
<1>1. DOMAIN g = Used(h.mem) /\ g \in [Used(h.mem) -> Given_t]
  BY DEF GivenOK
<1>2. /\ DOMAIN f = DOMAIN g \cup {p} /\ f[p] = [by |-> t, size |-> size]
      /\ \A q \in DOMAIN g \ {p} : f[q] = g[q]
      /\ f = [q \in DOMAIN g \cup {p} |-> f[q]]
  BY DEF Give, With
<1>3. [by |-> t, size |-> size] \in Given_t
  BY DEF Given_t
<1> HIDE DEF f
<1>4. f \in [Used(k.mem) -> Given_t]
  BY <1>1, <1>2, <1>3 DEF Gives
<1>5. ASSUME NEW q \in Used(k.mem)  PROVE f[q].size <= DataSize(k.mem, q)
  <2>1. CASE q = p
    BY <1>2, <2>1 DEF Gives
  <2>2. CASE q # p
    <3>1. q \in Used(h.mem) /\ g[q].size <= DataSize(h.mem, q)
      BY <2>2 DEF GivenOK, Gives
    <3> QED  BY <1>1, <1>2, <2>2, <3>1 DEF DataSize, Gives
  <2> QED  BY <2>1, <2>2
<1>6. GivenOK(k, f)
  BY <1>4, <1>5 DEF GivenOK
<1>7. IsGiven(f, g, t, p)
  <2>1. f[p].by = t
    BY <1>2
  <2> QED  BY <1>2, <2>1 DEF IsGiven
<1> QED  BY <1>6, <1>7 DEF f

Takes(h, k, p) ==
  /\ Used(k.mem) = Used(h.mem) \ {p}
  /\ \A q \in Used(k.mem) : k.mem[q].next = h.mem[q].next

IsForgotten(f, g, p) == DOMAIN f = DOMAIN g \ {p} /\ \A q \in DOMAIN f : f[q] = g[q]

LEMMA Forgetting ==
  ASSUME NEW h, NEW k, NEW g, GivenOK(h, g), NEW p, Takes(h, k, p)
  PROVE  GivenOK(k, Forget(g, p)) /\ IsForgotten(Forget(g, p), g, p)
BY DEF GivenOK, Forget, Restrict, DataSize, Takes, IsForgotten

THEOREM HeapInvariant == Spec => []IInv
<1>1. Init => IInv
  <2> SUFFICES ASSUME Init  PROVE IInv
    OBVIOUS
  <2> DEFINE m == heap.mem
  <2>1. End \in Nat /\ Header < End /\ End # 0 /\ Header \in Nat
    BY HeapAssumption DEF End
  <2>2. heap = rt_system_heap_init
    BY DEF Init
  <2>3. /\ Heap_t(heap) /\ heap.lfree = 0 /\ heap.used_mem = 0 /\ DOMAIN m = {0, End}
        /\ m = [p \in {0, End} |-> IF p = 0 THEN Block(FALSE, End, 0) ELSE Block(TRUE, End, End)]
    BY <2>2 DEF rt_system_heap_init, Heap_t
  <2>4. m[0] = Block(FALSE, End, 0) /\ m[End] = Block(TRUE, End, End)
    BY <2>1, <2>3
  <2>5. Typed(m)
    BY <2>1, <2>3, <2>4 DEF Typed, Block, Header_t
  <2>6. BlocksOf(m) = {0} /\ m[0].next = End /\ ~m[0].used
    BY <2>1, <2>3, <2>4 DEF BlocksOf, Block
  <2>7. Tiled(m) /\ Apart(m)
    <3>1. Apart(m)
      BY <2>6 DEF Apart, ApartBut
    <3>2. \A q \in DOMAIN m : ~(0 < q /\ q < End)
      BY <2>1, <2>3
    <3> HIDE DEF m
    <3>3. Tiled(m)
      <4>1. BlocksOf(m) = {0} /\ 0 + Header < End /\ End \in DOMAIN m /\ m[0].next = End
        <5>1. 0 + Header = Header
          BY <2>1
        <5>2. End \in DOMAIN m
          BY <2>3
        <5> QED  BY <2>1, <2>6, <5>1, <5>2
      <4>2. \A p \in BlocksOf(m) : p = 0
        BY <4>1
      <4>3. \A p \in BlocksOf(m) : m[p].next \in DOMAIN m /\ p + Header < m[p].next
        BY <4>1, <4>2
      <4>4. \A p \in BlocksOf(m), q \in DOMAIN m : ~(p < q /\ q < m[p].next)
        BY <3>2, <4>1, <4>2
      <4>5. \A p \in BlocksOf(m) : m[p].next = End
        BY <4>1, <4>2
      <4> QED  BY <4>2, <4>3, <4>4, <4>5 DEF Tiled
    <3> QED  BY <3>1, <3>3
  <2>8. Used(m) = {}
    BY <2>6 DEF Used
  <2>9. Counts(heap)
    <3>1. Taking(m) = {}
      BY <2>8 DEF Taking
    <3> QED  BY <2>3, <3>1, FS_EmptySet DEF Counts
  <2>10. GivenOK(heap, given)
    BY <2>8 DEF GivenOK, Init
  <2>11. CallsOK(given)
    BY DEF CallsOK, Call_t, Init, InUser
  <2>12. FreeOrEnd(m, heap.lfree)
    BY <2>3, <2>6 DEF FreeOrEnd
  <2> QED  BY <2>3, <2>5, <2>7, <2>9, <2>10, <2>11, <2>12 DEF IInv, HeapOK
<1>2. IInv /\ [Next]_heapVars => IInv'
  <2> SUFFICES ASSUME IInv, [Next]_heapVars  PROVE IInv'
    OBVIOUS
  <2>1. /\ HeapOK(heap) /\ Counts(heap) /\ GivenOK(heap, given) /\ CallsOK(given)
        /\ Typed(heap.mem) /\ DOMAIN given = Used(heap.mem)
    BY DEF IInv, HeapOK, GivenOK
  <2>2. \A size \in Requests : size \in Nat /\ size > 0
    BY HeapAssumption
  <2>3. \A p \in DOMAIN given : given[p].by \in User /\ given[p].size \in Requests /\ p \in Nat
    BY <2>1, HeapAssumption DEF GivenOK, Given_t, Used, BlocksOf, Typed
  <2>4. \A t \in User : call[t] \in Call_t /\ call \in [User -> Call_t]
    BY <2>1 DEF CallsOK
  <2>5. ASSUME NEW t \in User, NEW size \in Requests, rt_malloc(t, size)
        PROVE  IInv'
    <3> DEFINE p == Found(size)
    <3>1. Finds(size) /\ heap' = Allocated(size) /\ given' = Give(given, t, p, size) /\ call' = call
      BY <2>5 DEF rt_malloc
    <3>2. IsAllocated(heap', heap, p, size)
      BY <2>1, <3>1, MallocKeeps
    <3> HIDE DEF p
    <3>3. /\ HeapOK(heap') /\ Counts(heap') /\ Typed(heap'.mem) /\ p \in Used(heap'.mem)
          /\ Used(heap.mem) = Used(heap'.mem) \ {p} /\ size <= DataSize(heap'.mem, p)
          /\ \A q \in Used(heap.mem) : heap'.mem[q].next = heap.mem[q].next
      BY <3>2 DEF IsAllocated, HeapOK
    <3>4. GivenOK(heap', given') /\ IsGiven(given', given, t, p)
      <4>1. Gives(heap, heap', p, size)
        BY <2>1, <3>3 DEF Gives
      <4> QED  BY <2>1, <3>1, <4>1, Giving
    <3>5. CallsOK(given)'
      BY <2>1, <3>1, <3>3, <3>4 DEF CallsOK, IsGiven
    <3> QED  BY <3>3, <3>4, <3>5 DEF IInv
  <2>6. ASSUME NEW t \in User, NEW p \in DOMAIN given, rt_free(t, p)
        PROVE  IInv'
    <3>1. given[p].by = t /\ call[t].pc = "user" /\ heap' = Freed(heap, p)
          /\ given' = Forget(given, p) /\ call' = call
      BY <2>6 DEF rt_free, Has, Calls
    <3>2. /\ HeapOK(heap') /\ Counts(heap') /\ Used(heap'.mem) = Used(heap.mem) \ {p}
          /\ \A q \in Used(heap'.mem) : heap'.mem[q].next = heap.mem[q].next
      BY <2>1, <3>1, FreeKeeps
    <3>3. GivenOK(heap', given') /\ IsForgotten(given', given, p)
      <4>1. Takes(heap, heap', p)
        BY <3>2 DEF Takes
      <4> QED  BY <2>1, <3>1, <4>1, Forgetting
    <3>4. CallsOK(given)'
      BY <2>1, <3>1, <3>3 DEF CallsOK, IsForgotten
    <3> QED  BY <3>2, <3>3, <3>4 DEF IInv
  <2>7. ASSUME NEW t \in User, NEW size \in Requests, NEW p \in DOMAIN given, rt_realloc(t, p, size)
        PROVE  IInv'
    <3>1. given[p].by = t /\ call[t].pc = "user"
      BY <2>7 DEF rt_realloc, Has, Calls
    <3>2. ASSUME given' = Give(given, t, p, size), call' = call, HeapOK(heap'), Counts(heap'),
                 Used(heap'.mem) = Used(heap.mem), size <= DataSize(heap'.mem, p),
                 \A q \in Used(heap.mem) \ {p} : heap'.mem[q].next = heap.mem[q].next
          PROVE  IInv'
      <4>1. Gives(heap, heap', p, size)
        BY <2>1, <3>2 DEF HeapOK, Gives
      <4>2. GivenOK(heap', given') /\ IsGiven(given', given, t, p)
        BY <2>1, <3>2, <4>1, Giving
      <4>3. CallsOK(given)'
        BY <2>1, <3>1, <3>2, <4>2 DEF CallsOK, IsGiven
      <4> QED  BY <3>2, <4>2, <4>3 DEF IInv
    <3>3. CASE DataSize(heap.mem, p) = size /\ given' = Give(given, t, p, size) /\ UNCHANGED <<heap, call>>
      <4>1. DataSize(heap.mem, p) \in Int
        BY <2>2, <3>3
      <4> QED  BY <2>1, <2>2, <3>2, <3>3
    <3>4. CASE /\ size + Header + MinSize < DataSize(heap.mem, p)
               /\ heap' = Shrunk(heap, p, size) /\ given' = Give(given, t, p, size) /\ UNCHANGED call
      <4>1. /\ HeapOK(heap') /\ Counts(heap') /\ Used(heap'.mem) = Used(heap.mem)
            /\ \A q \in Used(heap'.mem) \ {p} : heap'.mem[q].next = heap.mem[q].next
            /\ DataSize(heap'.mem, p) = size
        BY <2>1, <2>2, <3>4, ShrinkKeeps
      <4> QED  BY <2>2, <3>2, <3>4, <4>1
    <3>5. CASE /\ call' = [call EXCEPT ![t] = [pc |-> "malloc", old |-> p, size |-> size]]
               /\ UNCHANGED <<heap, given>>
      <4>1. [pc |-> "malloc", old |-> p, size |-> size] \in Call_t
        BY <2>3 DEF Call_t
      <4>2. call' \in [User -> Call_t]
        BY <2>4, <3>5, <4>1
      <4>3. \A r \in User : call'[r] = IF r = t THEN [pc |-> "malloc", old |-> p, size |-> size] ELSE call[r]
        BY <2>4, <3>5
      <4>4. CallsOK(given)'
        BY <2>1, <3>1, <3>5, <4>2, <4>3 DEF CallsOK
      <4> QED  BY <2>1, <3>5, <4>4 DEF IInv
    <3> QED  BY <2>7, <3>3, <3>4, <3>5 DEF rt_realloc
  <2>8. ASSUME NEW t \in User, Moves(t)
        PROVE  IInv'
    <3> DEFINE size == call[t].size
               p == Found(size)
               o == call[t].old
    <3>1. call[t].pc = "malloc" /\ size \in Requests /\ o \in DOMAIN given /\ given[o].by = t /\ o \in Nat
      BY <2>1, <2>3, <2>4, <2>8 DEF Moves, Call_t, CallsOK
    <3>2. CASE Finds(size)
      <4>1. /\ heap' = Allocated(size) /\ given' = Give(given, t, p, size)
            /\ call' = [call EXCEPT ![t] = [pc |-> "free", old |-> o]]
        BY <2>8, <3>2 DEF Moves
      <4>2. IsAllocated(heap', heap, p, size)
        BY <2>1, <3>1, <3>2, <4>1, MallocKeeps
      <4> HIDE DEF p, size, o
      <4>3. /\ HeapOK(heap') /\ Counts(heap') /\ Typed(heap'.mem) /\ p \in Used(heap'.mem)
            /\ Used(heap.mem) = Used(heap'.mem) \ {p} /\ size <= DataSize(heap'.mem, p)
            /\ \A q \in Used(heap.mem) : heap'.mem[q].next = heap.mem[q].next
        BY <4>2 DEF IsAllocated, HeapOK
      <4>4. GivenOK(heap', given') /\ IsGiven(given', given, t, p)
        <5>1. Gives(heap, heap', p, size)
          BY <2>1, <4>3 DEF Gives
        <5> QED  BY <2>1, <3>1, <4>1, <5>1, Giving
      <4>5. p \notin DOMAIN given
        BY <2>1, <4>3
      <4>6. [pc |-> "free", old |-> o] \in Call_t
        BY <3>1 DEF Call_t
      <4>7. call' \in [User -> Call_t]
        BY <2>4, <4>1, <4>6
      <4>8. \A r \in User : call'[r] = IF r = t THEN [pc |-> "free", old |-> o] ELSE call[r]
        BY <2>4, <4>1
      <4>9. CallsOK(given)'
        BY <2>1, <3>1, <4>4, <4>5, <4>7, <4>8 DEF CallsOK, IsGiven
      <4> QED  BY <4>3, <4>4, <4>9 DEF IInv
    <3>3. CASE ~Finds(size)
      <4>1. call' = [call EXCEPT ![t] = InUser] /\ UNCHANGED <<heap, given>>
        BY <2>8, <3>3 DEF Moves
      <4>2. call' \in [User -> Call_t]
        BY <2>4, <4>1 DEF Call_t, InUser
      <4>3. \A r \in User : call'[r] = IF r = t THEN InUser ELSE call[r]
        BY <2>4, <4>1
      <4>4. CallsOK(given)'
        BY <2>1, <4>1, <4>2, <4>3 DEF CallsOK, InUser
      <4> QED  BY <2>1, <4>1, <4>4 DEF IInv
    <3> QED  BY <3>2, <3>3
  <2>9. ASSUME NEW t \in User, FreesOld(t)
        PROVE  IInv'
    <3> DEFINE p == call[t].old
    <3>1. call[t].pc = "free" /\ p \in DOMAIN given /\ given[p].by = t
      BY <2>1, <2>9 DEF FreesOld, CallsOK
    <3>2. heap' = Freed(heap, p) /\ given' = Forget(given, p) /\ call' = [call EXCEPT ![t] = InUser]
      BY <2>9 DEF FreesOld
    <3> HIDE DEF p
    <3>3. /\ HeapOK(heap') /\ Counts(heap') /\ Used(heap'.mem) = Used(heap.mem) \ {p}
          /\ \A q \in Used(heap'.mem) : heap'.mem[q].next = heap.mem[q].next
      BY <2>1, <3>1, <3>2, FreeKeeps
    <3>4. GivenOK(heap', given') /\ IsForgotten(given', given, p)
      <4>1. Takes(heap, heap', p)
        BY <3>3 DEF Takes
      <4> QED  BY <2>1, <3>2, <4>1, Forgetting
    <3>5. call' \in [User -> Call_t]
      BY <2>4, <3>2 DEF Call_t, InUser
    <3>6. \A r \in User : call'[r] = IF r = t THEN InUser ELSE call[r]
      BY <2>4, <3>2
    <3>7. CallsOK(given)'
      BY <2>1, <3>1, <3>4, <3>5, <3>6 DEF CallsOK, InUser, IsForgotten
    <3> QED  BY <3>3, <3>4, <3>7 DEF IInv
  <2>10. CASE UNCHANGED heapVars
    <3>1. UNCHANGED <<heap, given, call>>
      BY <2>10 DEF heapVars
    <3>2. CallsOK(given)'
      BY <2>1, <3>1 DEF CallsOK
    <3> QED  BY <2>1, <3>1, <3>2 DEF IInv
  <2> QED  BY <2>5, <2>6, <2>7, <2>8, <2>9, <2>10 DEF Next
<1> QED  BY <1>1, <1>2, PTL DEF Spec

(* The blocks that rt_malloc, rt_realloc and rt_free cut and merge tile    *)
(* the heap, free ones are never neighbours, and lfree names a free block  *)
(* or heap_end (mem.c:344, :373).                                          *)
THEOREM HeapIsWhole == Spec => []WholeList
<1>1. IInv => WholeList
  <2> SUFFICES ASSUME IInv  PROVE WholeList
    OBVIOUS
  <2> DEFINE m == heap.mem
  <2>1. Typed(m) /\ Tiled(m) /\ Apart(m) /\ FreeOrEnd(m, heap.lfree) /\ Counts(heap)
    BY DEF IInv, HeapOK
  <2>2. BlocksOf(m) = Blocks
    BY DEF BlocksOf, Blocks
  <2>3. DOMAIN m \subseteq 0..End /\ {0, End} \subseteq DOMAIN m /\ m[0].prev = 0
    BY <2>1 DEF Typed
  <2>4. ASSUME NEW p \in DOMAIN m
        PROVE  m[p].used \in BOOLEAN /\ m[p].next \in DOMAIN m /\ m[p].prev \in 0..End
    BY <2>1 DEF Typed, Tiled, Header_t, BlocksOf
  <2>5. heap.used_mem \in 0..Size + Header
    BY <2>1, TakingFinite DEF Counts, End
  <2>6. TypeOK
    BY <2>1, <2>3, <2>4, <2>5 DEF TypeOK, FreeOrEnd
  <2>7. Tiles
    BY <2>1, <2>2, <2>3 DEF Tiles, Tiled
  <2>8. NoNeighboursFree
    <3>1. \A p \in Blocks : p # Null /\ m[p].next # Null
      BY <2>3, <2>4 DEF Blocks, Null
    <3> QED  BY <2>1, <2>2, <3>1 DEF NoNeighboursFree, Apart, ApartBut
  <2>9. LfreeIsFree
    BY <2>1, <2>2 DEF LfreeIsFree, FreeOrEnd, BlocksOf
  <2> QED  BY <2>6, <2>7, <2>8, <2>9 DEF WholeList
<1> QED  BY <1>1, HeapInvariant, PTL

(* Every used block belongs to the one thread that it was given to and     *)
(* holds what it asked for, and used_mem counts what the used blocks take, *)
(* in every state of every rt_realloc.                                     *)
THEOREM HeapAndUsersAgree == Spec => []UsersAgree
<1>1. IInv => UsersAgree
  <2> SUFFICES ASSUME IInv  PROVE UsersAgree
    OBVIOUS
  <2>1. Used(heap.mem) = {p \in Blocks : heap.mem[p].used}
    BY DEF Used, BlocksOf, Blocks
  <2>2. BlocksAreGiven
    BY <2>1 DEF IInv, GivenOK, BlocksAreGiven
  <2>3. Taking(heap.mem) = Covered
    BY DEF IInv, GivenOK, Taking, Covered
  <2> QED  BY <2>2, <2>3 DEF IInv, Counts, UsersAgree, UsedCounts
<1> QED  BY <1>1, HeapInvariant, PTL
=============================================================================
