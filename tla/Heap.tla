-------------------------------- MODULE Heap --------------------------------
(***************************************************************************)
(* The heap of RT-Thread (rtthread/src/mem.c): blocks, each behind a       *)
(* header, that tile the memory; a block is the first that fits, its rest  *)
(* is split off, and a freed block is merged with free neighbours.  All    *)
(* sizes and addresses are in units of RT_ALIGN_SIZE.                      *)
(*                                                                         *)
(* The semaphore heap_sem makes each section between its take and its      *)
(* release one step.  rt_realloc has several: other threads come between   *)
(* them.  max_mem, the magic numbers and what blocks contain are left out. *)
(***************************************************************************)
EXTENDS Integers, FiniteSets, Functions, FiniteSetsExt

CONSTANTS
  User,       \* the threads
  Size,       \* mem_size_aligned
  Header,     \* SIZEOF_STRUCT_MEM
  MinSize,    \* MIN_SIZE_ALIGNED
  Requests    \* the sizes that are asked for

ASSUME HeapAssumption ==
  /\ Header \in Nat \ {0} /\ MinSize \in Nat \ {0}
  /\ Size \in Nat /\ MinSize <= Size
  /\ Requests \subseteq Nat \ {0}

VARIABLES
  heap,       \* the headers by address, lfree and used_mem
  given,      \* history: the blocks that users have, with the size they asked for
  call        \* where each user is in rt_realloc

heapVars == <<heap, given, call>>

End == Size + Header          \* heap_end
Null == -1                    \* RT_NULL
InUser == [pc |-> "user"]

Block(used, next, prev) == [used |-> used, next |-> next, prev |-> prev]

rt_system_heap_init ==
  [mem |-> [p \in {0, End} |-> IF p = 0 THEN Block(FALSE, End, 0) ELSE Block(TRUE, End, End)],
   lfree |-> 0, used_mem |-> 0]

(* A header that became part of another block is never read again.         *)
Forget(m, p) == Restrict(m, DOMAIN m \ {p})
With(m, p, b) == [q \in DOMAIN m \cup {p} |-> IF q = p THEN b ELSE m[q]]

DataSize(m, p) == m[p].next - (p + Header)
-----------------------------------------------------------------------------
(* The two halves of plug_holes.                                           *)
PlugForward(h, p) ==
  LET n == h.mem[p].next
  IN  IF p = n \/ h.mem[n].used \/ n = End THEN h
      ELSE [h EXCEPT !.lfree = IF @ = n THEN p ELSE @,
                     !.mem = Forget([@ EXCEPT ![p].next = h.mem[n].next, ![h.mem[n].next].prev = p], n)]

PlugBackward(h, p) ==
  LET q == h.mem[p].prev
  IN  IF q = p \/ h.mem[q].used THEN h
      ELSE [h EXCEPT !.lfree = IF @ = p THEN q ELSE @,
                     !.mem = Forget([@ EXCEPT ![q].next = h.mem[p].next, ![h.mem[p].next].prev = q], p)]

(* Mutant: lfree goes on pointing at a header that was merged. *)
PlugKeepsLfree(h, p) == [PlugBackward(PlugForward(h, p), p) EXCEPT !.lfree = h.lfree]

plug_holes(h, p) == PlugBackward(PlugForward(h, p), p)

(* Mutant: the block behind goes on pointing back at the whole. *)
SplitKeepsPrev(h, p, size) ==
  LET rest == p + Header + size
  IN  [h EXCEPT !.mem = With([h.mem EXCEPT ![p].next = rest], rest, Block(FALSE, h.mem[p].next, p))]

(* A free block is split off behind the first "size" of block p.  The back *)
(* link of heap_end is not set.                                            *)
Split(h, p, size) ==
  LET rest == p + Header + size
      next == h.mem[p].next
      m == With([h.mem EXCEPT ![p].next = rest], rest, Block(FALSE, next, p))
  IN  [h EXCEPT !.mem = IF next = End THEN m ELSE [m EXCEPT ![next].prev = rest]]
-----------------------------------------------------------------------------
(* The addresses of the search in rt_malloc, from lfree on.  The last of   *)
(* them is before Size - size: a block that ends with the heap and fits    *)
(* exactly is not found.                                                   *)
Fitting(h, size) ==
  {p \in DOMAIN h.mem : /\ h.lfree <= p /\ p < Size - size
                        /\ ~h.mem[p].used /\ DataSize(h.mem, p) >= size}

(* Block p is taken for "size".                                            *)
Taken(h, p, size) ==
  IF DataSize(h.mem, p) >= size + Header + MinSize
  THEN [Split(h, p, size) EXCEPT !.mem[p].used = TRUE, !.used_mem = @ + size + Header]
  ELSE [h EXCEPT !.mem[p].used = TRUE, !.used_mem = @ + h.mem[p].next - p]

(* lfree moves on to the next free block, or to heap_end.                  *)
NextFree(h, p) ==
  IF p # h.lfree THEN h
  ELSE [h EXCEPT !.lfree = Min({q \in DOMAIN h.mem : p <= q /\ (q = End \/ ~h.mem[q].used)})]

AtLeast(size) == IF size < MinSize THEN MinSize ELSE size

(* Whether rt_malloc finds a block, and the heap and block it returns.     *)
Finds(size) == size <= Size /\ Fitting(heap, AtLeast(size)) # {}
Found(size) == Min(Fitting(heap, AtLeast(size)))
Allocated(size) == NextFree(Taken(heap, Found(size), AtLeast(size)), Found(size))

Give(g, t, p, size) == With(g, p, [by |-> t, size |-> size])

(* The section of rt_free.                                                 *)
Freed(h, p) ==
  plug_holes([h EXCEPT !.mem[p].used = FALSE, !.lfree = IF p < @ THEN p ELSE @,
                       !.used_mem = @ - (h.mem[p].next - p)], p)

(* A free block is split off the end of a block that shrinks.              *)
Shrunk(h, p, size) ==
  plug_holes([Split(h, p, size) EXCEPT !.used_mem = @ - (DataSize(h.mem, p) - size)], p + Header + size)
-----------------------------------------------------------------------------
Calls(t) == call[t].pc = "user"
Has(t, p) == given[p].by = t /\ Calls(t)

rt_malloc(t, size) ==
  /\ Calls(t) /\ Finds(size)
  /\ heap' = Allocated(size)
  /\ given' = Give(given, t, Found(size), size)
  /\ UNCHANGED call

rt_free(t, p) ==
  /\ Has(t, p)
  /\ heap' = Freed(heap, p)
  /\ given' = Forget(given, p)
  /\ UNCHANGED call

(* The first section of rt_realloc: the size is right, the block shrinks,  *)
(* or another block is needed.                                             *)
rt_realloc(t, p, size) ==
  /\ Has(t, p) /\ size <= Size
  /\ \/ /\ DataSize(heap.mem, p) = size
        /\ given' = Give(given, t, p, size)
        /\ UNCHANGED <<heap, call>>
     \/ /\ size + Header + MinSize < DataSize(heap.mem, p)
        /\ heap' = Shrunk(heap, p, size)
        /\ given' = Give(given, t, p, size)
        /\ UNCHANGED call
     \/ /\ DataSize(heap.mem, p) # size
        /\ size + Header + MinSize >= DataSize(heap.mem, p)
        /\ call' = [call EXCEPT ![t] = [pc |-> "malloc", old |-> p, size |-> size]]
        /\ UNCHANGED <<heap, given>>

(* The second: rt_malloc, which may fail, so that the old block is kept.   *)
Moves(t) ==
  LET size == call[t].size
  IN  /\ call[t].pc = "malloc"
      /\ IF Finds(size)
         THEN /\ heap' = Allocated(size)
              /\ given' = Give(given, t, Found(size), size)
              /\ call' = [call EXCEPT ![t] = [pc |-> "free", old |-> @.old]]
         ELSE call' = [call EXCEPT ![t] = InUser] /\ UNCHANGED <<heap, given>>

(* The third: the contents were copied, the old block is freed.            *)
FreesOld(t) ==
  /\ call[t].pc = "free"
  /\ heap' = Freed(heap, call[t].old)
  /\ given' = Forget(given, call[t].old)
  /\ call' = [call EXCEPT ![t] = InUser]

Init ==
  /\ heap = rt_system_heap_init
  /\ given = [p \in {} |-> 0]
  /\ call = [t \in User |-> InUser]

Next ==
  \E t \in User :
    \/ \E size \in Requests : rt_malloc(t, size) \/ \E p \in DOMAIN given : rt_realloc(t, p, size)
    \/ \E p \in DOMAIN given : rt_free(t, p)
    \/ Moves(t) \/ FreesOld(t)

Spec == Init /\ [][Next]_heapVars
-----------------------------------------------------------------------------
(* Type correctness: links lead from header to header, lfree to one, and   *)
(* used_mem stays within the heap.                                         *)
TypeOK ==
  /\ DOMAIN heap.mem \subseteq 0..End
  /\ \A p \in DOMAIN heap.mem :
       /\ heap.mem[p].used \in BOOLEAN
       /\ heap.mem[p].next \in DOMAIN heap.mem /\ heap.mem[p].prev \in 0..End
  /\ heap.lfree \in DOMAIN heap.mem
  /\ heap.used_mem \in 0..Size + Header

Blocks == DOMAIN heap.mem \ {End}

(* The blocks tile the heap: each ends where the next begins, there is     *)
(* room for the header, and the back links agree.                          *)
Tiles ==
  /\ {0, End} \subseteq DOMAIN heap.mem
  /\ \A p \in Blocks :
       LET n == heap.mem[p].next
       IN  /\ p + Header < n
           /\ \A q \in DOMAIN heap.mem : ~(p < q /\ q < n)
           /\ n # End => heap.mem[n].prev = p
  /\ heap.mem[0].prev = 0

(* Every used block belongs to one call of rt_malloc, and holds what was   *)
(* asked for: no two users share memory and no block is lost.              *)
BlocksAreGiven ==
  /\ {p \in Blocks : heap.mem[p].used} = DOMAIN given
  /\ \A p \in DOMAIN given : given[p].size <= DataSize(heap.mem, p)

(* Two free blocks are never neighbours, as plug_holes promises and        *)
(* rt_malloc relies on (mem.c:344).                                        *)
NoNeighboursFree ==
  \A p \in Blocks : ~heap.mem[p].used /\ heap.mem[p].next # End => heap.mem[heap.mem[p].next].used

(* used_mem counts the units that used blocks take, with their headers.    *)
Covered == UNION {p..heap.mem[p].next - 1 : p \in DOMAIN given}
UsedCounts == heap.used_mem = Cardinality(Covered)

(* The assertion of mem.c:373: lfree is a free block or the end.           *)
LfreeIsFree == heap.lfree = End \/ (heap.lfree \in Blocks /\ ~heap.mem[heap.lfree].used)

(* The list of blocks that rt_malloc, rt_realloc and rt_free cut and merge *)
(* is whole: the assertions of mem.c:344 and 373 hold.                     *)
WholeList == TypeOK /\ Tiles /\ NoNeighboursFree /\ LfreeIsFree

(* The heap and its users agree on what is used, block by block and in     *)
(* sum, also while a rt_realloc has done one of its three parts.           *)
UsersAgree == BlocksAreGiven /\ UsedCounts
=============================================================================
