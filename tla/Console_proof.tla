---------------------------- MODULE Console_proof ----------------------------
(***************************************************************************)
(* Proofs about the console's ring, semaphore and line editor, for a ring, *)
(* a line and a history of any size, and any characters and commands.      *)
(***************************************************************************)
EXTENDS Console, SequenceTheorems, FiniteSetTheorems, TLAPS

(* The indices stay in the ring; a ring marked full has one place between  *)
(* its last byte and its first, so that equal indices mean that it is      *)
(* empty.                                                                  *)
Ring_t ==
  [buffer : [0..bufsz - 1 -> Keys], put_index : 0..bufsz - 1,
   get_index : 0..bufsz - 1, is_full : BOOLEAN]

RingOK ==
  /\ fifo \in Ring_t /\ datar \in Keys
  /\ fifo.is_full => fifo.get_index = Wrapped(fifo.put_index + 1)

(* The interrupt can release rx_sem without a wrap of its 16 bits.         *)
SemOK ==
  /\ rx_sem \in 0..MaxSem
  /\ isr \in {"getc", "indicate"} \/ (isr = "idle" /\ rxne) => rx_sem < MaxSem
  /\ isr \in {"idle", "getc", "indicate", "clear"}

(* A thread that found the ring empty takes rx_sem or waits for it only    *)
(* while the ring is empty, or will be woken, or finds rx_sem available.   *)
WillBeTold == isr \in {"getc", "indicate"}
NoneLeft   == fifo.put_index = fifo.get_index
Warned ==
  /\ thread = "waits" => NoneLeft \/ WillBeTold
  /\ thread = "take"  => NoneLeft \/ WillBeTold \/ rx_sem > 0

IInv == RingOK /\ SemOK /\ Warned

-----------------------------------------------------------------------------
(* At start the ring is empty.                                             *)
LEMMA InitIInv == ASSUME Init PROVE IInv
<1>1. /\ datar = Nul
      /\ fifo = [buffer |-> [i \in 0..bufsz - 1 |-> Nul],
                 put_index |-> 0, get_index |-> 0, is_full |-> FALSE]
      /\ isr = "idle" /\ rx_sem = 0 /\ thread = "read" /\ rxne = FALSE
  BY DEF Init
<1>2. 0 \in 0..bufsz - 1 /\ 0 \in 0..MaxSem /\ 0 < MaxSem
  BY ConsoleAssumption
<1>3. Nul \in Keys
  BY DEF Keys
<1>4. [i \in 0..bufsz - 1 |-> Nul] \in [0..bufsz - 1 -> Keys]
  BY <1>3
<1>5. fifo \in Ring_t /\ ~fifo.is_full
  BY <1>1, <1>2, <1>4 DEF Ring_t
<1>6. RingOK
  BY <1>1, <1>3, <1>5 DEF RingOK
<1>7. SemOK
  BY <1>1, <1>2 DEF SemOK
<1>8. Warned
  BY <1>1 DEF Warned
<1> QED BY <1>6, <1>7, <1>8 DEF IInv

(* What RingOK says of the fields.                                         *)
LEMMA RingFields ==
  ASSUME RingOK
  PROVE  /\ fifo.put_index \in 0..bufsz - 1 /\ fifo.get_index \in 0..bufsz - 1
         /\ fifo.is_full \in BOOLEAN /\ fifo.buffer \in [0..bufsz - 1 -> Keys]
<1> QED BY DEF RingOK, Ring_t

(* A step that leaves the ring alone and puts a character, if any, in the  *)
(* data register.                                                          *)
LEMMA SameRing == ASSUME RingOK, fifo' = fifo, datar' \in Keys PROVE RingOK'
<1> QED BY DEF RingOK, Ring_t

(* The next index is in the ring.                                          *)
LEMMA WrappedInRing ==
  ASSUME NEW i \in 0..bufsz - 1 PROVE Wrapped(i + 1) \in 0..bufsz - 1
<1> QED BY ConsoleAssumption DEF Wrapped

(* A byte that is stored leaves the ring in order: the oldest makes room   *)
(* when it is full.                                                        *)
LEMMA StoredOK ==
  ASSUME RingOK, NEW b \in Keys, fifo' = Stored(fifo, b)
  PROVE  fifo' \in Ring_t /\ (fifo'.is_full => fifo'.get_index = Wrapped(fifo'.put_index + 1))
<1> DEFINE put == Wrapped(fifo.put_index + 1)
<1> DEFINE full == put = fifo.get_index
<1>1. put \in 0..bufsz - 1 /\ Wrapped(fifo.get_index + 1) \in 0..bufsz - 1
  BY WrappedInRing DEF RingOK, Ring_t
<1>2. /\ fifo'.put_index = put
      /\ fifo'.is_full = (fifo.is_full \/ full)
      /\ fifo'.get_index = IF full THEN Wrapped(fifo.get_index + 1) ELSE fifo.get_index
  BY DEF Stored, RingOK, Ring_t
<1>3. fifo' \in Ring_t
  BY <1>1 DEF Stored, RingOK, Ring_t
<1>4. fifo'.is_full => full
  BY <1>2 DEF RingOK
<1> HIDE DEF put, full
<1>5. full => fifo'.get_index = Wrapped(fifo'.put_index + 1)
  BY <1>2 DEF full
<1> QED BY <1>3, <1>4, <1>5

(* The semaphore's 16 bits do not wrap where the model stops.              *)
LEMMA NoWrap ==
  ASSUME rx_sem \in 0..MaxSem, rx_sem < MaxSem PROVE (rx_sem + 1) % 65536 = rx_sem + 1
<1>1. rx_sem + 1 \in Nat /\ rx_sem + 1 < 65536
  BY ConsoleAssumption
<1>2. \A n \in Nat : n < 65536 => n % 65536 = n
  OBVIOUS
<1> QED BY <1>1, <1>2

(* The steps of the interrupt keep the strengthened invariant.             *)
LEMMA IsrInv == ASSUME IInv, Isr PROVE IInv'
<1>0. RingOK /\ SemOK /\ Warned /\ datar \in Keys /\ Nul \in Keys
  BY DEF IInv, RingOK, Keys
<1>1. CASE USART1_IRQHandler
  <2>1. RingOK'
    BY <1>0, <1>1, SameRing DEF USART1_IRQHandler, hardware
  <2> QED BY <1>0, <1>1, <2>1
          DEF USART1_IRQHandler, hardware, IInv, SemOK, Warned, WillBeTold, NoneLeft
<1>2. CASE rt_hw_serial_isr
  <2>1. isr = "getc" /\ isr' \in {"getc", "indicate"} /\ UNCHANGED <<rx_sem, thread>>
    BY <1>2 DEF rt_hw_serial_isr
  <2>2. RingOK'
    <3>1. CASE rxne
      <4>1. fifo' = Stored(fifo, datar) /\ datar' \in Keys
        BY <1>0, <1>2, <3>1 DEF rt_hw_serial_isr, Emptied
      <4> QED BY <1>0, <4>1, StoredOK DEF RingOK, Ring_t
    <3>2. CASE ~rxne
      BY <1>0, <1>2, <3>2, SameRing DEF rt_hw_serial_isr, hardware
    <3> QED BY <3>1, <3>2
  <2> QED BY <1>0, <2>1, <2>2 DEF IInv, SemOK, Warned, WillBeTold
<1>3. CASE finsh_rx_ind
  <2>1. isr = "indicate" /\ isr' = "clear" /\ UNCHANGED <<fifo, hardware>>
    BY <1>3 DEF finsh_rx_ind
  <2>2. rx_sem \in 0..MaxSem /\ rx_sem < MaxSem
    BY <1>0, <2>1 DEF SemOK
  <2>3. ASSUME thread = "waits" PROVE rx_sem' = rx_sem /\ thread' = "read"
    BY <1>3, <2>3 DEF finsh_rx_ind
  <2>4. ASSUME thread # "waits" PROVE rx_sem' = rx_sem + 1 /\ thread' = thread
    <3>1. thread' = thread /\ rx_sem' = (rx_sem + 1) % 65536
      BY <1>3, <2>4 DEF finsh_rx_ind
    <3>2. (rx_sem + 1) % 65536 = rx_sem + 1
      BY <2>2, NoWrap
    <3> QED BY <3>1, <3>2
  <2>5. /\ rx_sem' \in 0..MaxSem
        /\ thread' # "waits"
        /\ thread' = "take" => rx_sem' > 0
    <3>1. rx_sem + 1 \in 0..MaxSem /\ rx_sem + 1 > 0
      BY <2>2, ConsoleAssumption
    <3> QED BY <2>2, <2>3, <2>4, <3>1
  <2>6. RingOK'
    BY <1>0, <2>1, SameRing DEF hardware
  <2>7. SemOK'
    BY <2>1, <2>5 DEF SemOK
  <2>8. Warned'
    BY <2>1, <2>5 DEF Warned
  <2> QED BY <2>6, <2>7, <2>8 DEF IInv
<1>4. CASE USART_ClearITPendingBit
  <2>1. RingOK'
    BY <1>0, <1>4, SameRing DEF USART_ClearITPendingBit, Emptied
  <2> QED BY <1>0, <1>4, <2>1
          DEF USART_ClearITPendingBit, Emptied, IInv, SemOK, Warned, WillBeTold, NoneLeft
<1> QED BY <1>1, <1>2, <1>3, <1>4 DEF Isr

(* So do those of the thread, which runs only while no interrupt does.     *)
LEMMA TshellInv == ASSUME IInv, Tshell PROVE IInv'
<1>0. RingOK /\ SemOK /\ Warned /\ datar \in Keys /\ Nul \in Keys
  BY DEF IInv, RingOK, Keys
<1>1. CASE _serial_int_rx
  <2>1. isr = "idle" /\ UNCHANGED <<hardware, isr, rx_sem>>
    BY <1>1 DEF _serial_int_rx
  <2>2. SemOK'
    BY <1>0, <2>1 DEF SemOK, hardware
  <2>3. CASE NoData(fifo)
    <3>1. fifo' = fifo /\ thread' = "take" /\ NoneLeft
      BY <1>1, <2>3 DEF _serial_int_rx, NoData, NoneLeft
    <3>2. RingOK'
      BY <1>0, <2>1, <3>1, SameRing DEF hardware
    <3> QED BY <2>2, <3>1, <3>2 DEF IInv, Warned, NoneLeft
  <2>4. CASE ~NoData(fifo)
    <3>1. /\ fifo' = [fifo EXCEPT !.buffer[fifo.get_index] = Nul,
                                  !.get_index = Wrapped(@ + 1), !.is_full = FALSE]
          /\ thread' = "run"
      BY <1>1, <2>4 DEF _serial_int_rx
    <3>2. Wrapped(fifo.get_index + 1) \in 0..bufsz - 1
      BY <1>0, RingFields, WrappedInRing
    <3>3. fifo' \in Ring_t /\ fifo'.is_full = FALSE
      BY <1>0, <3>1, <3>2 DEF RingOK, Ring_t
    <3>4. RingOK'
      BY <1>0, <2>1, <3>3 DEF RingOK, Ring_t, hardware
    <3> QED BY <2>2, <3>1, <3>4 DEF IInv, Warned
  <2> QED BY <2>3, <2>4
<1>2. CASE rt_sem_take
  <2>1. isr = "idle" /\ UNCHANGED <<fifo, isr, hardware>>
    BY <1>2 DEF rt_sem_take
  <2>2. RingOK'
    BY <1>0, <2>1, SameRing DEF hardware
  <2>3. SemOK'
    BY <1>0, <1>2, <2>1, ConsoleAssumption DEF rt_sem_take, hardware, SemOK
  <2>4. Warned'
    BY <1>0, <1>2, <2>1 DEF rt_sem_take, SemOK, Warned, WillBeTold, NoneLeft
  <2> QED BY <2>2, <2>3, <2>4 DEF IInv
<1>3. CASE Run
  <2>1. RingOK'
    BY <1>0, <1>3, SameRing DEF Run, hardware
  <2> QED BY <1>0, <1>3, <2>1 DEF Run, ThenRead, hardware, IInv, SemOK, Warned
<1> QED BY <1>1, <1>2, <1>3 DEF Tshell

(* A byte may come at any time.                                            *)
LEMMA ArrivesInv == ASSUME IInv, NEW b \in Keys, Arrives(b) PROVE IInv'
<1>1. /\ UNCHANGED <<fifo, isr, rx_sem, thread>> /\ datar' = b
      /\ isr = "idle" => rx_sem < MaxSem
  BY ConsoleAssumption DEF Arrives, IInv, SemOK
<1>2. RingOK'
  BY <1>1, SameRing DEF IInv
<1> QED BY <1>1, <1>2 DEF IInv, SemOK, Warned, WillBeTold, NoneLeft

(* Every step keeps the strengthened invariant.                            *)
LEMMA StepInv == ASSUME IInv, [Next]_vars PROVE IInv'
<1>1. ASSUME UNCHANGED vars PROVE IInv'
  <2>1. UNCHANGED <<datar, rxne, fifo, isr, rx_sem, thread>>
    BY <1>1 DEF vars, hardware
  <2>2. RingOK'
    BY <2>1, SameRing DEF IInv, RingOK
  <2> QED BY <2>1, <2>2 DEF IInv, SemOK, Warned, WillBeTold, NoneLeft
<1> QED BY <1>1, IsrInv, TshellInv, ArrivesInv DEF Next

(* Equal indices are an empty ring.                                        *)
LEMMA NoneLeftIsEmpty == ASSUME RingOK, NoneLeft PROVE Contents = <<>>
<1>1. Between(fifo) = 0
  <2>1. fifo.put_index - fifo.get_index = 0
    BY RingFields DEF NoneLeft
  <2>2. 0 % bufsz = 0
    BY ConsoleAssumption
  <2> QED BY <2>1, <2>2 DEF Between
<1>2. 1..Between(fifo) = {}
  BY <1>1
<1> QED BY <1>2 DEF Contents

(* For a ring of any size: the shell never waits for rx_sem while there is *)
(* a byte for it in the ring, unless the interrupt is about to release it, *)
(* although it looks into the ring and takes rx_sem in two steps           *)
(* (shell.c:95), and one release may stand for several bytes.              *)
THEOREM NoLostWakeup == Spec => []NeverSleepsOnInput
<1>1. Init => IInv
  BY InitIInv
<1>2. IInv /\ [Next]_vars => IInv'
  BY StepInv
<1>3. IInv => NeverSleepsOnInput
  BY NoneLeftIsEmpty DEF IInv, Warned, WillBeTold, NeverSleepsOnInput
<1> QED BY <1>1, <1>2, <1>3, PTL DEF Spec
-----------------------------------------------------------------------------
(* The ring as a sequence: how many bytes it holds, and where they are.    *)
Count(f) == IF f.put_index >= f.get_index THEN f.put_index - f.get_index
            ELSE f.put_index - f.get_index + bufsz
Slot(f, i) == IF f.get_index + i - 1 < bufsz THEN f.get_index + i - 1
              ELSE f.get_index + i - 1 - bufsz

IsContents(s, f) ==
  /\ s \in Seq(Keys) /\ Len(s) = Count(f)
  /\ \A i \in 1..Count(f) : s[i] = f.buffer[Slot(f, i)]

LEMMA Slots ==
  ASSUME NEW f \in Ring_t
  PROVE  /\ Count(f) \in 0..bufsz - 1
         /\ \A i \in 1..bufsz : Slot(f, i) \in 0..bufsz - 1
         /\ \A i, j \in 1..bufsz : Slot(f, i) = Slot(f, j) => i = j
         /\ Slot(f, Count(f) + 1) = f.put_index /\ Slot(f, 1) = f.get_index
<1>1. /\ f.put_index \in 0..bufsz - 1 /\ f.get_index \in 0..bufsz - 1
      /\ bufsz \in Nat /\ bufsz > 1
  BY ConsoleAssumption DEF Ring_t
<1> QED  BY <1>1 DEF Count, Slot

LEMMA Residue ==
  ASSUME NEW a \in Int, -bufsz < a, a < 2 * bufsz
  PROVE  a % bufsz = IF a < 0 THEN a + bufsz ELSE IF a < bufsz THEN a ELSE a - bufsz
<1>1. bufsz \in Nat /\ bufsz > 1
  BY ConsoleAssumption
<1>2. CASE a < 0
  BY <1>1, <1>2
<1>3. CASE 0 <= a /\ a < bufsz
  BY <1>1, <1>3
<1>4. CASE bufsz <= a
  BY <1>1, <1>4
<1> QED  BY <1>1, <1>2, <1>3, <1>4

ContentsOf(f) == [i \in 1..Between(f) |-> f.buffer[(f.get_index + i - 1) % bufsz]]

LEMMA ContentsAre == ASSUME NEW f \in Ring_t PROVE IsContents(ContentsOf(f), f)
<1> DEFINE n == Count(f)
<1>1. /\ bufsz \in Nat /\ bufsz > 1
      /\ f.put_index \in 0..bufsz - 1 /\ f.get_index \in 0..bufsz - 1
      /\ f.buffer \in [0..bufsz - 1 -> Keys]
  BY ConsoleAssumption DEF Ring_t
<1>2. Between(f) = n
  <2> DEFINE d == f.put_index - f.get_index
  <2>1. d \in Int /\ -bufsz < d /\ d < bufsz /\ d < 2 * bufsz /\ (d >= 0 <=> f.put_index >= f.get_index)
    BY <1>1
  <2>2. n = IF d >= 0 THEN d ELSE d + bufsz
    BY <2>1 DEF Count
  <2>3. Between(f) = d % bufsz
    BY DEF Between
  <2> HIDE DEF d, n
  <2>4. d % bufsz = IF d < 0 THEN d + bufsz ELSE IF d < bufsz THEN d ELSE d - bufsz
    BY <2>1, Residue
  <2> QED  BY <2>1, <2>2, <2>3, <2>4
<1> HIDE DEF n
<1>3. n \in Nat /\ n < bufsz
  BY <1>1, Slots DEF n
<1>4. ASSUME NEW i \in 1..n
      PROVE  (f.get_index + i - 1) % bufsz = Slot(f, i)
  <2> DEFINE a == f.get_index + i - 1
  <2>1. a \in Int /\ 0 <= a /\ -bufsz < a /\ a < 2 * bufsz
    BY <1>1, <1>3
  <2>2. Slot(f, i) = IF a < bufsz THEN a ELSE a - bufsz
    BY <1>1, <2>1 DEF Slot
  <2> HIDE DEF a
  <2>3. a % bufsz = IF a < 0 THEN a + bufsz ELSE IF a < bufsz THEN a ELSE a - bufsz
    BY <2>1, Residue
  <2>4. a % bufsz = Slot(f, i)
    BY <1>1, <2>1, <2>2, <2>3
  <2> QED  BY <2>4 DEF a
<1>5. \A i \in 1..n : f.buffer[Slot(f, i)] \in Keys
  BY <1>1, <1>3, Slots
<1>6. ContentsOf(f) = [i \in 1..n |-> f.buffer[Slot(f, i)]]
  BY <1>2, <1>4 DEF ContentsOf
<1>7. ContentsOf(f) \in [1..n -> Keys]
  BY <1>5, <1>6
<1>8. ContentsOf(f) \in Seq(Keys)
  BY <1>3, <1>7, SeqDef
<1>9. Len(ContentsOf(f)) = n
  BY <1>3, <1>7, <1>8
<1> QED  BY <1>6, <1>8, <1>9 DEF IsContents, n

(* The byte that is read is the oldest, and the others stay.               *)
LEMMA ReadTakes ==
  ASSUME RingOK, RingOK', ~NoData(fifo), NEW b,
         fifo' = [fifo EXCEPT !.buffer[fifo.get_index] = b,
                              !.get_index = Wrapped(@ + 1), !.is_full = FALSE]
  PROVE  /\ Contents # <<>> /\ Head(Contents) = fifo.buffer[fifo.get_index]
         /\ Contents' = Tail(Contents)
<1> DEFINE s == Contents
           t == Contents'
           g == fifo'
<1>1. IsContents(s, fifo) /\ IsContents(t, g)
  <2>1. s = ContentsOf(fifo) /\ t = ContentsOf(fifo')
    BY DEF Contents, ContentsOf, Between
  <2>2. fifo \in Ring_t /\ fifo' \in Ring_t
    BY DEF RingOK
  <2> HIDE DEF s, t
  <2> QED  BY <2>1, <2>2, ContentsAre
<1>2. /\ fifo \in Ring_t /\ g \in Ring_t
      /\ bufsz \in Nat /\ bufsz > 1
      /\ fifo.put_index \in 0..bufsz - 1 /\ fifo.get_index \in 0..bufsz - 1
      /\ fifo.buffer \in [0..bufsz - 1 -> Keys]
  BY RingFields, ConsoleAssumption DEF RingOK
<1>3. /\ g.put_index = fifo.put_index /\ g.get_index = Wrapped(fifo.get_index + 1)
      /\ g.buffer = [fifo.buffer EXCEPT ![fifo.get_index] = b]
  BY <1>2 DEF Ring_t
<1>4. fifo.get_index # fifo.put_index
  BY <1>2 DEF NoData, RingOK, Wrapped
<1> HIDE DEF s, t, g
<1>5. Count(g) = Count(fifo) - 1 /\ Count(fifo) \in 1..bufsz - 1
  BY <1>2, <1>3, <1>4 DEF Count, Wrapped
<1>6. ASSUME NEW i \in 1..Count(g)
      PROVE  /\ Slot(g, i) = Slot(fifo, i + 1) /\ Slot(fifo, i + 1) # fifo.get_index
             /\ Slot(fifo, i + 1) \in 0..bufsz - 1 /\ i + 1 \in 1..Count(fifo)
  <2>1. i \in Nat /\ i >= 1 /\ i + 1 <= bufsz - 1 /\ i + 1 \in 1..Count(fifo)
    BY <1>2, <1>5
  <2>2. Slot(g, i) = Slot(fifo, i + 1)
    BY <1>2, <1>3, <2>1 DEF Slot, Wrapped
  <2>3. Slot(fifo, i + 1) # fifo.get_index /\ Slot(fifo, i + 1) \in 0..bufsz - 1
    BY <1>2, <2>1 DEF Slot
  <2> QED  BY <2>1, <2>2, <2>3
<1>7. \A i \in 1..Count(g) : t[i] = s[i + 1]
  BY <1>1, <1>2, <1>3, <1>6 DEF IsContents
<1>8. s # <<>> /\ s[1] = fifo.buffer[fifo.get_index]
  BY <1>1, <1>2, <1>5, Slots DEF IsContents
<1>9. s \in Seq(Keys) /\ t \in Seq(Keys) /\ Len(s) = Count(fifo) /\ Len(t) = Count(g)
  BY <1>1 DEF IsContents
<1>10. /\ Tail(s) \in Seq(Keys) /\ Len(Tail(s)) = Len(s) - 1
       /\ \A i \in 1..Len(Tail(s)) : Tail(s)[i] = s[i + 1]
  BY <1>8, <1>9, HeadTailProperties
<1>11. t = Tail(s)
  BY <1>5, <1>7, <1>9, <1>10, SeqEqual
<1>12. Head(s) = s[1]
  BY <1>8, <1>9
<1> QED  BY <1>8, <1>11, <1>12 DEF s, t, g

(* The byte that is stored is the newest; it takes the place of the oldest *)
(* when there is none left.                                                *)
LEMMA StorePuts ==
  ASSUME RingOK, RingOK', NEW b \in Keys, fifo' = Stored(fifo, b)
  PROVE  Contents' = IF Len(Contents) < bufsz - 1 THEN Append(Contents, b)
                     ELSE Append(Tail(Contents), b)
<1> DEFINE s == Contents
           t == Contents'
           g == fifo'
           put == Wrapped(fifo.put_index + 1)
           full == put = fifo.get_index
           n == Count(fifo)
<1>1. IsContents(s, fifo) /\ IsContents(t, g)
  <2>1. s = ContentsOf(fifo) /\ t = ContentsOf(fifo')
    BY DEF Contents, ContentsOf, Between
  <2>2. fifo \in Ring_t /\ fifo' \in Ring_t
    BY DEF RingOK
  <2> HIDE DEF s, t
  <2> QED  BY <2>1, <2>2, ContentsAre
<1>2. /\ fifo \in Ring_t /\ g \in Ring_t
      /\ bufsz \in Nat /\ bufsz > 1
      /\ fifo.put_index \in 0..bufsz - 1 /\ fifo.get_index \in 0..bufsz - 1
      /\ fifo.buffer \in [0..bufsz - 1 -> Keys]
  BY RingFields, ConsoleAssumption DEF RingOK
<1>3. /\ g.put_index = put
      /\ g.get_index = IF full THEN Wrapped(fifo.get_index + 1) ELSE fifo.get_index
      /\ g.buffer = [fifo.buffer EXCEPT ![fifo.put_index] = b]
  BY <1>2 DEF Ring_t, Stored
<1> HIDE DEF s, t, g
<1>4. n \in 0..bufsz - 1 /\ (full <=> n = bufsz - 1)
  BY <1>2 DEF Count, Wrapped
<1>5. s \in Seq(Keys) /\ t \in Seq(Keys) /\ Len(s) = n /\ Len(t) = Count(g)
  BY <1>1 DEF IsContents
<1>6. Slot(fifo, n + 1) = fifo.put_index /\ n + 1 \in 1..bufsz
  BY <1>2, <1>4, Slots
<1>7. \A i \in 1..n : Slot(fifo, i) \in 0..bufsz - 1 /\ Slot(fifo, i) # fifo.put_index
  <2> SUFFICES ASSUME NEW i \in 1..n
               PROVE  Slot(fifo, i) \in 0..bufsz - 1 /\ Slot(fifo, i) # fifo.put_index
    OBVIOUS
  <2> HIDE DEF n
  <2>1. i \in 1..bufsz /\ i # n + 1
    BY <1>2, <1>4
  <2> QED  BY <1>2, <1>6, <2>1, Slots
<1>8. \A i \in 1..n : g.buffer[Slot(fifo, i)] = s[i]
  BY <1>1, <1>2, <1>3, <1>7 DEF IsContents
<1>9. g.buffer[fifo.put_index] = b
  BY <1>2, <1>3
<1>10. CASE ~full
  <2>1. Count(g) = n + 1
    BY <1>2, <1>3, <1>10 DEF Count, Wrapped
  <2>2. \A i \in 1..n + 1 : Slot(g, i) = Slot(fifo, i)
    <3>1. g.get_index = fifo.get_index
      BY <1>3, <1>10
    <3> QED  BY <3>1 DEF Slot
  <2> HIDE DEF n, full
  <2>3. \A i \in 1..n + 1 : t[i] = IF i = n + 1 THEN b ELSE s[i]
    BY <1>1, <1>4, <1>6, <1>8, <1>9, <2>1, <2>2 DEF IsContents
  <2>4. /\ Append(s, b) \in Seq(Keys) /\ Len(Append(s, b)) = n + 1
        /\ \A i \in 1..n : Append(s, b)[i] = s[i]
        /\ Append(s, b)[n + 1] = b
    BY <1>5, AppendProperties
  <2>5. \A i \in 1..Len(t) : t[i] = Append(s, b)[i]
    BY <1>4, <1>5, <2>1, <2>3, <2>4
  <2>6. t = Append(s, b)
    BY <1>5, <2>1, <2>4, <2>5, SeqEqual
  <2>7. n < bufsz - 1
    BY <1>2, <1>4, <1>10
  <2> QED  BY <1>5, <2>6, <2>7 DEF s, t
<1>11. CASE full
  <2>1. Count(g) = n /\ n >= 1
    BY <1>2, <1>3, <1>4, <1>11 DEF Count, Wrapped
  <2>2. ASSUME NEW i \in 1..n  PROVE Slot(g, i) = Slot(fifo, i + 1)
    <3>1. i \in Nat /\ i >= 1 /\ i <= bufsz - 1
      BY <1>2, <1>4
    <3>2. g.get_index = Wrapped(fifo.get_index + 1)
      BY <1>3, <1>11
    <3> HIDE DEF n, full
    <3> QED  BY <1>2, <3>1, <3>2 DEF Slot, Wrapped
  <2> HIDE DEF n, full
  <2>3. \A i \in 1..n : t[i] = g.buffer[Slot(fifo, i + 1)]
    BY <1>1, <2>1, <2>2 DEF IsContents
  <2>4. t[n] = b /\ \A i \in 1..n - 1 : t[i] = s[i + 1]
    <3>1. n \in 1..n /\ \A i \in 1..n - 1 : i \in 1..n /\ i + 1 \in 1..n
      BY <1>4, <2>1
    <3> QED  BY <1>6, <1>8, <1>9, <2>3, <3>1
  <2> DEFINE r == Tail(s)
  <2>5. /\ r \in Seq(Keys) /\ Len(r) = n - 1
        /\ \A i \in 1..n - 1 : r[i] = s[i + 1]
    <3>1. s # <<>>
      BY <1>5, <2>1
    <3> QED  BY <1>5, <3>1, HeadTailProperties
  <2> HIDE DEF r
  <2>6. /\ Append(r, b) \in Seq(Keys) /\ Len(Append(r, b)) = (n - 1) + 1
        /\ \A i \in 1..n - 1 : Append(r, b)[i] = r[i]
        /\ Append(r, b)[(n - 1) + 1] = b
    BY <2>5, AppendProperties
  <2>7. (n - 1) + 1 = n /\ \A i \in 1..n : i = n \/ i \in 1..n - 1
    BY <1>4
  <2>8. \A i \in 1..Len(t) : t[i] = Append(r, b)[i]
    BY <1>5, <2>1, <2>4, <2>5, <2>6, <2>7
  <2>9. t = Append(r, b)
    BY <1>5, <2>1, <2>6, <2>7, <2>8, SeqEqual
  <2>10. ~(n < bufsz - 1)
    BY <1>2, <1>4, <1>11
  <2> QED  BY <1>5, <2>9, <2>10 DEF s, t, r
<1> QED  BY <1>10, <1>11

(* The receive FIFO of serial.c, whose indices, wrap-around and is_full are*)
(* set in two functions, is a buffer of the newest bufsz - 1 bytes: they   *)
(* come out in the order they went in, and the oldest make room.           *)
THEOREM RingImplementsRecent == Spec => RingKeepsNewest
<1>1. Init => Ring!Init
  <2> SUFFICES ASSUME Init  PROVE Contents = <<>> /\ ch = Nul
    BY DEF Ring!Init
  <2>1. fifo.put_index = 0 /\ fifo.get_index = 0 /\ RingOK
    BY InitIInv DEF Init, IInv
  <2> QED  BY <2>1, NoneLeftIsEmpty DEF NoneLeft, Init
<1>2. IInv /\ IInv' /\ [Next]_vars => [Ring!Next]_<<Contents, ch>>
  <2> SUFFICES ASSUME IInv, IInv', [Next]_vars
               PROVE  Ring!Next \/ UNCHANGED <<Contents, ch>>
    OBVIOUS
  <2>0. RingOK /\ RingOK' /\ datar \in Keys
    BY DEF IInv, RingOK
  <2>1. CASE fifo' = fifo /\ ch' = ch
    BY <2>1 DEF Contents, Between
  <2>2. CASE rt_hw_serial_isr /\ rxne
    <3>1. fifo' = Stored(fifo, datar) /\ ch' = ch
      BY <2>2 DEF rt_hw_serial_isr
    <3>2. Contents' = IF Len(Contents) < bufsz - 1 THEN Append(Contents, datar)
                      ELSE Append(Tail(Contents), datar)
      BY <2>0, <3>1, StorePuts
    <3>3. Ring!Put(datar)
      BY <3>1, <3>2 DEF Ring!Put
    <3> QED  BY <2>0, <3>3 DEF Ring!Next
  <2>3. CASE _serial_int_rx /\ ~NoData(fifo)
    <3>1. /\ fifo' = [fifo EXCEPT !.buffer[fifo.get_index] = Nul,
                                   !.get_index = Wrapped(@ + 1), !.is_full = FALSE]
          /\ ch' = fifo.buffer[fifo.get_index]
      BY <2>3 DEF _serial_int_rx
    <3>2. /\ Contents # <<>> /\ Head(Contents) = fifo.buffer[fifo.get_index]
          /\ Contents' = Tail(Contents)
      BY <2>0, <2>3, <3>1, ReadTakes
    <3> QED  BY <3>1, <3>2 DEF Ring!Next, Ring!Take
  <2>4. CASE Run
    <3>1. fifo' = fifo /\ ch' = Nul
      BY <2>4 DEF Run
    <3>2. Contents' = Contents
      BY <3>1 DEF Contents, Between
    <3> QED  BY <3>1, <3>2 DEF Ring!Next, Ring!Use
  <2>5. \/ fifo' = fifo /\ ch' = ch
        \/ rt_hw_serial_isr /\ rxne
        \/ _serial_int_rx /\ ~NoData(fifo)
        \/ Run
    BY DEF Next, Isr, Tshell, vars, USART1_IRQHandler, rt_hw_serial_isr, finsh_rx_ind,
           USART_ClearITPendingBit, _serial_int_rx, rt_sem_take, Arrives
  <2> QED  BY <2>1, <2>2, <2>3, <2>4, <2>5
<1>3. Init => IInv
  BY InitIInv
<1>4. IInv /\ [Next]_vars => IInv'
  BY StepInv
<1> QED  BY <1>1, <1>2, <1>3, <1>4, PTL DEF Spec, RingKeepsNewest, Ring!Spec
-----------------------------------------------------------------------------
(* The line editor.  What its fields are; that the characters before the   *)
(* position are there; that a remembered command ends within its array.    *)
Line_t  == [Index -> Text \cup {Nul}]
Ended_t == {l \in Line_t : l[FINSH_CMD_SIZE - 1] = Nul}

Finsh_t ==
  [line : Line_t, line_position : Index, line_curpos : Index,
   stat : {"WAIT_NORMAL", "WAIT_SPEC_KEY", "WAIT_FUNC_KEY"},
   cmd_history : [0..FINSH_HISTORY_LINES - 1 -> Ended_t],
   history_count : 0..FINSH_HISTORY_LINES, current_history : 0..FINSH_HISTORY_LINES]

ShellOK(e) ==
  /\ e \in Finsh_t
  /\ e.line_curpos <= e.line_position /\ e.current_history <= e.history_count
  /\ \A i \in Index : i < e.line_position => e.line[i] # Nul

(* The bytes on their way to the editor are ones that it may come upon: a  *)
(* person who waits for the shell has one on its way, typed with the state *)
(* of the escape sequence as it is.                                        *)
Plain == Text \cup {"esc", "tab", "backspace", "enter"}
Fitting == IF burst THEN Plain ELSE Typed

OnTheWay ==
  /\ burst \in BOOLEAN /\ rxne \in BOOLEAN /\ ch \in Keys
  /\ thread \in {"read", "take", "waits", "run"}
  /\ rxne => datar \in Fitting
  /\ Contents \in Seq(Fitting)
  /\ thread = "run" => ch \in Fitting
  /\ ~burst => /\ rxne => Contents = <<>> /\ thread # "run"
               /\ thread = "run" => Contents = <<>>
               /\ Len(Contents) <= 1

(* The line is in order until Tab overreads it.                            *)
InOrder == overread \/ ShellOK(shell)

LineInv == OnTheWay /\ InOrder
-----------------------------------------------------------------------------
LEMMA Sizes ==
  /\ FINSH_CMD_SIZE \in Nat /\ FINSH_CMD_SIZE > 1 /\ FINSH_HISTORY_LINES \in Nat
  /\ FINSH_HISTORY_LINES > 0 /\ 0 \in Index /\ FINSH_CMD_SIZE - 1 \in Index
  /\ Nul \notin Text
  /\ \A i : i \in Index <=> i \in Nat /\ i < FINSH_CMD_SIZE
BY ShellAssumption DEF Index

(* strlen finds the first Nul, or the end of the array.                    *)
LEMMA Strlen ==
  ASSUME NEW l \in Line_t
  PROVE  /\ strlen(l) \in 0..FINSH_CMD_SIZE
         /\ \A i \in Index : i < strlen(l) => l[i] # Nul
         /\ strlen(l) < FINSH_CMD_SIZE => l[strlen(l)] = Nul
<1> DEFINE before == {i \in Index : \A j \in 0..i : l[j] # Nul}
           ends == {n \in Nat : n = FINSH_CMD_SIZE \/ (n < FINSH_CMD_SIZE /\ l[n] = Nul)}
           R == OpToRel(<, Nat)
<1>1. PICK n \in ends : \A m \in ends : ~(<<m, n>> \in R)
  <2>1. IsWellFoundedOn(R, Nat)
    BY NatLessThanWellFounded
  <2>2. FINSH_CMD_SIZE \in ends /\ ends \subseteq Nat
    BY Sizes
  <2> HIDE DEF R, ends
  <2> QED  BY <2>1, <2>2, WFMin
<1>2. n \in Nat /\ n <= FINSH_CMD_SIZE /\ (n < FINSH_CMD_SIZE => l[n] = Nul)
  BY Sizes
<1>3. \A j \in Index : j < n => l[j] # Nul
  <2> SUFFICES ASSUME NEW j \in Index, j < n, l[j] = Nul  PROVE FALSE
    OBVIOUS
  <2>1. j \in Nat /\ j \in ends /\ <<j, n>> \in R
    BY Sizes, <1>2 DEF OpToRel
  <2> HIDE DEF R, ends
  <2> QED  BY <1>1, <2>1
<1>4. before = 0..n - 1
  <2>1. ASSUME NEW i \in before  PROVE i \in 0..n - 1
    <3>1. i \in Nat /\ i < FINSH_CMD_SIZE
      BY Sizes
    <3>2. CASE n <= i
      <4>1. n \in 0..i /\ l[n] = Nul
        BY <1>2, <3>1, <3>2, Sizes
      <4> QED  BY <4>1
    <3> QED  BY <1>2, <3>1, <3>2
  <2>2. ASSUME NEW i \in 0..n - 1  PROVE i \in before
    <3>1. i \in Index
      BY <1>2, Sizes
    <3>2. \A j \in 0..i : j \in Index /\ j < n
      BY <1>2, Sizes
    <3> QED  BY <1>3, <3>1, <3>2
  <2> QED  BY <2>1, <2>2
<1>5. strlen(l) = n
  <2>1. Cardinality(0..n - 1) = n
    <3>1. 0 \in Int /\ n - 1 \in Int
      BY <1>2
    <3>2. Cardinality(0..n - 1) = IF 0 > n - 1 THEN 0 ELSE (n - 1) - 0 + 1
      BY <3>1, FS_Interval
    <3> QED  BY <1>2, <3>2
  <2> QED  BY <1>4, <2>1 DEF strlen
<1> QED  BY <1>2, <1>3, <1>5

(* In an array with a Nul the string ends there, and strlen stays in it.   *)
LEMMA StrlenInside ==
  ASSUME NEW l \in Line_t, Ends(l)
  PROVE  /\ strlen(l) \in Index /\ strlen(l) \in Nat /\ l[strlen(l)] = Nul
         /\ \A i \in Index : i < strlen(l) => l[i] # Nul
         /\ \A e : Length(e, l) = strlen(l)
<1> DEFINE n == strlen(l)
<1>1. /\ n \in 0..FINSH_CMD_SIZE /\ \A i \in Index : i < n => l[i] # Nul
      /\ n < FINSH_CMD_SIZE => l[n] = Nul
  BY Strlen
<1>2. \A e : Length(e, l) = n
  BY DEF Length
<1> HIDE DEF n
<1>3. PICK i \in Index : l[i] = Nul
  BY DEF Ends
<1>4. n <= i
  BY <1>1, <1>3, Sizes
<1>5. n \in Index /\ n \in Nat /\ n < FINSH_CMD_SIZE
  BY <1>1, <1>4, Sizes
<1> QED  BY <1>1, <1>2, <1>5 DEF n

(* Characters and Nul of another array.                                    *)
LEMMA FirstOfEnds ==
  ASSUME NEW l \in Line_t, NEW n \in Index
  PROVE  FirstOf(l, n) \in Ended_t
BY Sizes DEF Line_t, Ended_t, FirstOf

(* One part of the editor's data after another may be replaced.            *)
SameHistory(f, e) ==
  /\ f.current_history = e.current_history /\ f.history_count = e.history_count
  /\ f.cmd_history = e.cmd_history

SameLine(f, e) ==
  /\ f.line = e.line /\ f.line_position = e.line_position /\ SameHistory(f, e)

Untouched(f, e) == SameLine(f, e) /\ f.line_curpos = e.line_curpos

Rewritten(f, e, l, p, c) ==
  /\ f \in Finsh_t /\ f.line = l /\ f.line_position = p /\ f.line_curpos = c
  /\ SameHistory(f, e)

LEMMA NewLine ==
  ASSUME NEW e \in Finsh_t, NEW l \in Line_t, NEW p \in Index, NEW c \in Index, NEW f,
         f = [e EXCEPT !.line = l, !.line_position = p, !.line_curpos = c]
  PROVE  Rewritten(f, e, l, p, c)
BY DEF Finsh_t, Rewritten, SameHistory

LEMMA NewHistory ==
  ASSUME NEW e \in Finsh_t, NEW m \in [0..FINSH_HISTORY_LINES - 1 -> Ended_t],
         NEW n \in 0..FINSH_HISTORY_LINES
  PROVE  [e EXCEPT !.cmd_history = m, !.history_count = n] \in Finsh_t
BY DEF Finsh_t

LEMMA NewCurrent ==
  ASSUME NEW e \in Finsh_t, NEW n \in 0..FINSH_HISTORY_LINES
  PROVE  LET f == [e EXCEPT !.current_history = n]
         IN  /\ f \in Finsh_t /\ f.current_history = n /\ f.history_count = e.history_count
             /\ f.line = e.line /\ f.line_position = e.line_position
             /\ f.line_curpos = e.line_curpos /\ f.cmd_history = e.cmd_history
BY DEF Finsh_t

(* The line that is entered is the last of the commands; the oldest goes   *)
(* when there is no room.  An empty line is not remembered, and neither is *)
(* one that is the last command again.                                     *)
Again(e) == e.history_count > 0 /\ e.cmd_history[e.history_count - 1] = e.line

WithLine(e, n) ==
  [h \in 0..FINSH_HISTORY_LINES - 1 |->
     IF h = n - 1 THEN FirstOf(e.line, e.line_position)
     ELSE IF e.history_count = FINSH_HISTORY_LINES THEN e.cmd_history[h + 1]
     ELSE e.cmd_history[h]]

Pushed(f, e) ==
  \/ /\ e.line_position = 0 \/ Again(e)
     /\ f.cmd_history = e.cmd_history /\ f.history_count = e.history_count
  \/ /\ e.line_position # 0
     /\ f.history_count = IF e.history_count = FINSH_HISTORY_LINES THEN e.history_count
                          ELSE e.history_count + 1
     /\ f.cmd_history = WithLine(e, f.history_count)

Entered(f, e) ==
  /\ Pushed(f, e) /\ f.current_history = f.history_count
  /\ f.line = Empty /\ f.line_position = 0 /\ f.line_curpos = 0

LEMMA EnterKeeps ==
  ASSUME NEW e, ShellOK(e)
  PROVE  ShellOK(Enter(e)) /\ Entered(Enter(e), e)
<1> DEFINE k == shell_push_history(e)
<1>1. e \in Finsh_t /\ e.line \in Line_t /\ e.line_position \in Index
  BY DEF ShellOK, Finsh_t
<1>2. k \in Finsh_t /\ k.current_history = k.history_count /\ Pushed(k, e)
  <2> DEFINE full == e.history_count >= FINSH_HISTORY_LINES
             count == IF full THEN FINSH_HISTORY_LINES ELSE e.history_count + 1
             moved == [h \in DOMAIN e.cmd_history |->
                  IF full /\ h < count - 1 THEN e.cmd_history[h + 1] ELSE e.cmd_history[h]]
             again == e.history_count > 0 /\ e.cmd_history[e.history_count - 1] = e.line
             last == FirstOf(e.line, e.line_position)
             hist == [moved EXCEPT ![count - 1] = last]
             pushed == [e EXCEPT !.cmd_history = hist, !.history_count = count]
             kept == IF e.line_position = 0 \/ again THEN e ELSE pushed
  <2>1. count \in 1..FINSH_HISTORY_LINES /\ (full => count = FINSH_HISTORY_LINES)
    BY <1>1, Sizes DEF Finsh_t
  <2>2. /\ full <=> e.history_count = FINSH_HISTORY_LINES
        /\ count = IF e.history_count = FINSH_HISTORY_LINES THEN e.history_count
                   ELSE e.history_count + 1
    BY <1>1, Sizes DEF Finsh_t
  <2>3. last \in Ended_t
    BY <1>1, FirstOfEnds
  <2>4. moved \in [0..FINSH_HISTORY_LINES - 1 -> Ended_t]
    <3>1. e.cmd_history \in [0..FINSH_HISTORY_LINES - 1 -> Ended_t]
      BY <1>1 DEF Finsh_t
    <3> HIDE DEF full, count
    <3>2. \A h \in 0..FINSH_HISTORY_LINES - 1 :
            full /\ h < count - 1 => h + 1 \in 0..FINSH_HISTORY_LINES - 1
      BY <2>1, Sizes
    <3> QED  BY <3>1, <3>2
  <2>5. hist = WithLine(e, count)
    <3>1. /\ DOMAIN e.cmd_history = 0..FINSH_HISTORY_LINES - 1
          /\ count - 1 \in 0..FINSH_HISTORY_LINES - 1
      BY <1>1, <2>1, Sizes DEF Finsh_t
    <3>2. ASSUME NEW h \in 0..FINSH_HISTORY_LINES - 1, h # count - 1
          PROVE  h < count - 1 \/ ~full
      <4> HIDE DEF full, count
      <4> QED  BY <2>1, <3>2, Sizes
    <3> HIDE DEF last, count, full
    <3>3. moved = [h \in 0..FINSH_HISTORY_LINES - 1 |->
                    IF full /\ h < count - 1 THEN e.cmd_history[h + 1] ELSE e.cmd_history[h]]
      BY <3>1
    <3> HIDE DEF moved
    <3>4. hist = [h \in 0..FINSH_HISTORY_LINES - 1 |->
                    IF h = count - 1 THEN last ELSE moved[h]]
      BY <3>1, <3>3
    <3>5. \A h \in 0..FINSH_HISTORY_LINES - 1 : h # count - 1 =>
            moved[h] = IF full THEN e.cmd_history[h + 1] ELSE e.cmd_history[h]
      BY <3>2, <3>3
    <3>6. hist = [h \in 0..FINSH_HISTORY_LINES - 1 |->
                    IF h = count - 1 THEN last
                    ELSE IF full THEN e.cmd_history[h + 1] ELSE e.cmd_history[h]]
      <4> HIDE DEF hist
      <4> QED  BY <3>4, <3>5
    <3> QED  BY <2>2, <3>6 DEF WithLine, last
  <2> HIDE DEF last, moved, count, full
  <2>6. hist \in [0..FINSH_HISTORY_LINES - 1 -> Ended_t]
    BY <2>1, <2>3, <2>4, Sizes
  <2> HIDE DEF hist
  <2>7. pushed \in Finsh_t
    <3>1. count \in 0..FINSH_HISTORY_LINES
      BY <2>1
    <3> QED  BY <1>1, <2>6, <3>1, NewHistory
  <2>8. k = [kept EXCEPT !.current_history = kept.history_count]
    BY DEF shell_push_history, full, count, moved, last, hist
  <2>9. /\ again <=> Again(e)
        /\ pushed.history_count = count /\ pushed.cmd_history = hist
    BY <1>1 DEF Again, Finsh_t
  <2> HIDE DEF again, pushed, k
  <2>10. kept \in Finsh_t
    BY <1>1, <2>7
  <2>11. Pushed(kept, e)
    <3>1. CASE e.line_position = 0 \/ again
      BY <2>9, <3>1 DEF Pushed
    <3>2. CASE ~(e.line_position = 0 \/ again)
      <4>1. kept = pushed
        BY <3>2
      <4> HIDE DEF kept
      <4> QED  BY <2>2, <2>5, <2>9, <3>2, <4>1 DEF Pushed
    <3> QED  BY <3>1, <3>2
  <2> HIDE DEF kept
  <2>12. /\ k \in Finsh_t /\ k.current_history = k.history_count
        /\ k.history_count = kept.history_count /\ k.cmd_history = kept.cmd_history
    BY <2>8, <2>10 DEF Finsh_t
  <2> QED  BY <2>11, <2>12 DEF Pushed
<1> HIDE DEF k
<1>3. Enter(e) = [k EXCEPT !.line = Empty, !.line_position = 0, !.line_curpos = 0]
  BY DEF Enter, k
<1>4. Empty \in Line_t
  BY DEF Empty, Line_t
<1> DEFINE f == Enter(e)
<1>5. /\ f \in Finsh_t /\ f.line_position = 0 /\ f.line_curpos = 0
      /\ f.current_history = k.current_history /\ f.history_count = k.history_count
      /\ f.history_count \in 0..FINSH_HISTORY_LINES
      /\ f.line = Empty /\ f.cmd_history = k.cmd_history
  BY <1>2, <1>3, <1>4, Sizes DEF Finsh_t
<1> HIDE DEF f
<1>6. ShellOK(f)
  BY <1>2, <1>5, Sizes DEF ShellOK
<1>7. Entered(f, e)
  BY <1>2, <1>5 DEF Entered, Pushed
<1> QED  BY <1>6, <1>7 DEF f

(* Command h is the line, with the cursor at its end.                      *)
Shown(f, e, h) ==
  /\ f.line = e.cmd_history[h] /\ f.line_position = strlen(f.line)
  /\ f.line_curpos = f.line_position
  /\ f.current_history = h /\ f.history_count = e.history_count
  /\ f.cmd_history = e.cmd_history

LEMMA ShowKeeps ==
  ASSUME NEW e, ShellOK(e), NEW h \in 0..FINSH_HISTORY_LINES - 1, h <= e.history_count
  PROVE  ShellOK(ShowHistory(e, h)) /\ Shown(ShowHistory(e, h), e, h)
<1> DEFINE l == e.cmd_history[h]
           n == strlen(l)
           f == ShowHistory(e, h)
<1>1. e \in Finsh_t /\ l \in Ended_t /\ l \in Line_t /\ l[FINSH_CMD_SIZE - 1] = Nul
  BY DEF ShellOK, Finsh_t, Ended_t
<1> HIDE DEF l
<1>2. /\ n \in Index /\ \A i \in Index : i < n => l[i] # Nul
      /\ Length(e, l) = n
  <2>1. Ends(l)
    BY <1>1, Sizes DEF Ends
  <2> QED  BY <1>1, <2>1, StrlenInside
<1>3. f = [e EXCEPT !.current_history = h, !.line = l, !.line_position = n, !.line_curpos = n]
  <2> HIDE DEF n
  <2> QED  BY <1>2 DEF ShowHistory, l
<1> HIDE DEF n
<1> DEFINE g == [e EXCEPT !.current_history = h]
<1>4. /\ f \in Finsh_t /\ f.line_position = n /\ f.line_curpos = n /\ f.line = l
      /\ f.current_history = h /\ f.history_count = e.history_count
      /\ f.cmd_history = e.cmd_history
  <2>1. h \in 0..FINSH_HISTORY_LINES
    BY Sizes
  <2>2. /\ g \in Finsh_t /\ g.current_history = h /\ g.history_count = e.history_count
        /\ g.cmd_history = e.cmd_history
    BY <1>1, <2>1, NewCurrent
  <2>3. f = [g EXCEPT !.line = l, !.line_position = n, !.line_curpos = n]
    BY <1>3
  <2> HIDE DEF f, g
  <2>4. Rewritten(f, g, l, n, n)
    BY <1>1, <1>2, <2>2, <2>3, NewLine
  <2> QED  BY <2>2, <2>4 DEF Rewritten, SameHistory
<1> HIDE DEF f
<1>5. ShellOK(f)
  BY <1>2, <1>4, Sizes DEF ShellOK
<1>6. Shown(f, e, h)
  BY <1>4 DEF Shown, l, n
<1> QED  BY <1>5, <1>6 DEF f

(* An arrow key moves the cursor, or shows another command.                *)
Moved(f, e) ==
  \/ Untouched(f, e)
  \/ \E h \in {e.current_history - 1, e.current_history + 1, e.history_count - 1}
            \cap 0..e.history_count - 1 : Shown(f, e, h)
  \/ /\ f.line_curpos \in {e.line_curpos - 1, e.line_curpos + 1} \cap 0..e.line_position
     /\ SameLine(f, e)

LEMMA MoveKeeps ==
  ASSUME NEW e, ShellOK(e), NEW key \in Arrows
  PROVE  ShellOK(Arrow(e, key)) /\ Moved(Arrow(e, key), e)
<1>1. /\ e \in Finsh_t /\ e.line_position \in Index /\ e.line_curpos \in Index
      /\ e.history_count \in 0..FINSH_HISTORY_LINES
      /\ e.current_history \in 0..FINSH_HISTORY_LINES
      /\ e.current_history <= e.history_count /\ e.line_curpos <= e.line_position
      /\ e.line_position \in Nat /\ e.line_position < FINSH_CMD_SIZE /\ e.line_curpos \in Nat
  BY Sizes DEF ShellOK, Finsh_t
<1>2. CASE key = "A"
  <2>1. CASE e.current_history > 0
    <3> DEFINE h == e.current_history - 1
    <3>1. /\ h \in 0..FINSH_HISTORY_LINES - 1 /\ h <= e.history_count
          /\ h \in {e.current_history - 1, e.current_history + 1, e.history_count - 1}
          /\ h \in 0..e.history_count - 1
      BY <1>1, <2>1, Sizes
    <3>2. Arrow(e, key) = ShowHistory(e, h)
      BY <1>2, <2>1 DEF Arrow
    <3> HIDE DEF h
    <3> QED  BY <3>1, <3>2, ShowKeeps DEF Moved
  <2>2. CASE ~(e.current_history > 0)
    BY <1>2, <2>2 DEF Arrow, Moved, Untouched, SameLine, SameHistory
  <2> QED  BY <2>1, <2>2
<1>3. CASE key = "B"
  <2>1. Arrow(e, key) = Down(e)
    BY <1>3 DEF Arrow
  <2>2. CASE e.current_history + 1 < e.history_count
    <3> DEFINE h == e.current_history + 1
    <3>1. /\ h \in 0..FINSH_HISTORY_LINES - 1 /\ h <= e.history_count
          /\ h \in {e.current_history - 1, e.current_history + 1, e.history_count - 1}
          /\ h \in 0..e.history_count - 1
      BY <1>1, <2>2, Sizes
    <3>2. Down(e) = ShowHistory(e, h)
      BY <2>2 DEF Down
    <3> HIDE DEF h
    <3> QED  BY <2>1, <3>1, <3>2, ShowKeeps DEF Moved
  <2>3. CASE ~(e.current_history + 1 < e.history_count) /\ e.history_count # 0
    <3> DEFINE h == e.history_count - 1
    <3>1. /\ h \in 0..FINSH_HISTORY_LINES - 1 /\ h <= e.history_count
          /\ h \in {e.current_history - 1, e.current_history + 1, e.history_count - 1}
          /\ h \in 0..e.history_count - 1
      BY <1>1, <2>3, Sizes
    <3>2. Down(e) = ShowHistory(e, h)
      BY <2>3 DEF Down
    <3> HIDE DEF h
    <3> QED  BY <2>1, <3>1, <3>2, ShowKeeps DEF Moved
  <2>4. CASE ~(e.current_history + 1 < e.history_count) /\ e.history_count = 0
    BY <2>1, <2>4 DEF Down, Moved, Untouched, SameLine, SameHistory
  <2> QED  BY <2>2, <2>3, <2>4
<1>4. ASSUME NEW c \in Index, c <= e.line_position,
             c \in {e.line_curpos - 1, e.line_curpos + 1}
      PROVE  /\ ShellOK([e EXCEPT !.line_curpos = c])
             /\ Moved([e EXCEPT !.line_curpos = c], e)
  <2> DEFINE f == [e EXCEPT !.line_curpos = c]
  <2>1. /\ f \in Finsh_t /\ f.line_curpos = c /\ f.line_position = e.line_position
        /\ f.line = e.line /\ SameHistory(f, e)
    BY <1>1 DEF Finsh_t, SameHistory
  <2> HIDE DEF f
  <2>2. ShellOK(f)
    BY <1>4, <2>1 DEF ShellOK, SameHistory
  <2>3. c \in 0..e.line_position
    BY <1>1, <1>4, Sizes
  <2>4. Moved(f, e)
    BY <1>4, <2>1, <2>3 DEF Moved, SameLine
  <2> QED  BY <2>2, <2>4 DEF f
<1>5. CASE key = "C"
  <2>1. CASE e.line_curpos < e.line_position
    <3> DEFINE c == e.line_curpos + 1
    <3>1. c \in Index /\ c <= e.line_position /\ c \in {e.line_curpos - 1, e.line_curpos + 1}
      BY <1>1, <2>1, Sizes
    <3>2. Arrow(e, key) = [e EXCEPT !.line_curpos = c]
      BY <1>5, <2>1 DEF Arrow, Right
    <3> HIDE DEF c
    <3> QED  BY <1>4, <3>1, <3>2
  <2>2. CASE ~(e.line_curpos < e.line_position)
    BY <1>5, <2>2 DEF Arrow, Right, Moved, Untouched, SameLine, SameHistory
  <2> QED  BY <2>1, <2>2
<1>6. CASE key = "D"
  <2>1. CASE e.line_curpos > 0
    <3> DEFINE c == e.line_curpos - 1
    <3>1. c \in Index /\ c <= e.line_position /\ c \in {e.line_curpos - 1, e.line_curpos + 1}
      BY <1>1, <2>1, Sizes
    <3>2. Arrow(e, key) = [e EXCEPT !.line_curpos = c]
      BY <1>6, <2>1 DEF Arrow
    <3> HIDE DEF c
    <3> QED  BY <1>4, <3>1, <3>2
  <2>2. CASE ~(e.line_curpos > 0)
    BY <1>6, <2>2 DEF Arrow, Moved, Untouched, SameLine, SameHistory
  <2> QED  BY <2>1, <2>2
<1> QED  BY <1>2, <1>3, <1>5, <1>6 DEF Arrows

(* The character before the cursor is gone, and those behind it are closer;*)
(* what is behind the line stays.                                          *)
Erased(f, e) ==
  /\ SameHistory(f, e) /\ e.line_curpos > 0
  /\ f.line_position = e.line_position - 1 /\ f.line_curpos = e.line_curpos - 1
  /\ \A i \in 1..f.line_position :
       f.line[i - 1] = IF i < e.line_curpos THEN e.line[i - 1] ELSE e.line[i]
  /\ f.line[f.line_position] = Nul
  /\ \A i \in Index : i >= e.line_position => f.line[i] = e.line[i]

LEMMA BackspaceKeeps ==
  ASSUME NEW e, ShellOK(e)
  PROVE  /\ ShellOK(Backspace(e))
         /\ Backspace(e) = e \/ Erased(Backspace(e), e)
<1>1. CASE e.line_curpos = 0
  BY <1>1 DEF Backspace
<1>2. CASE e.line_curpos # 0
  <2> DEFINE pos == e.line_position - 1
             cur == e.line_curpos - 1
             l == [i \in Index |->
                     IF i = pos THEN Nul
                     ELSE IF i \in cur..pos - 1 THEN e.line[i + 1] ELSE e.line[i]]
             f == Backspace(e)
  <2>1. /\ e \in Finsh_t /\ e.line \in Line_t /\ e.line_position \in Index
        /\ e.line_curpos \in Index /\ e.line_curpos <= e.line_position
        /\ e.current_history <= e.history_count
        /\ \A i \in Index : i < e.line_position => e.line[i] # Nul
    BY DEF ShellOK, Finsh_t
  <2>2. pos \in Index /\ cur \in Index /\ cur <= pos /\ pos \in Nat /\ cur \in Nat
        /\ e.line_position = pos + 1
    BY <1>2, <2>1, Sizes
  <2>3. f = [e EXCEPT !.line = l, !.line_position = pos, !.line_curpos = cur]
    BY <1>2 DEF Backspace
  <2> HIDE DEF pos, cur, f
  <2>4. \A i \in Index : i \in cur..pos - 1 => i + 1 \in Index /\ i + 1 < pos + 1
    BY <2>2, Sizes
  <2>5. l \in Line_t
    BY <2>1, <2>4 DEF Line_t
  <2>6. \A i \in Index : i < pos => l[i] # Nul
    BY <2>1, <2>2, <2>4, Sizes
  <2>7. /\ \A i \in 1..pos : l[i - 1] = IF i < e.line_curpos THEN e.line[i - 1] ELSE e.line[i]
        /\ l[pos] = Nul
        /\ \A i \in Index : i >= pos + 1 => l[i] = e.line[i]
    <3>1. ASSUME NEW i \in 1..pos
          PROVE  l[i - 1] = IF i < e.line_curpos THEN e.line[i - 1] ELSE e.line[i]
      <4>1. /\ i - 1 \in Index /\ i - 1 # pos /\ (i - 1) + 1 = i
            /\ i - 1 \in cur..pos - 1 <=> ~(i < cur + 1)
        BY <2>2, Sizes
      <4>2. e.line_curpos = cur + 1
        BY <2>1, Sizes DEF cur
      <4> QED  BY <4>1, <4>2
    <3>2. ASSUME NEW i \in Index, i >= pos + 1  PROVE l[i] = e.line[i]
      BY <2>2, <3>2, Sizes
    <3> QED  BY <2>2, <3>1, <3>2
  <2> HIDE DEF l
  <2>8. Rewritten(f, e, l, pos, cur)
    BY <2>1, <2>2, <2>3, <2>5, NewLine
  <2>9. ShellOK(f)
    BY <2>1, <2>2, <2>6, <2>8 DEF ShellOK, Rewritten, SameHistory
  <2>10. pos = e.line_position - 1 /\ cur = e.line_curpos - 1 /\ e.line_curpos > 0
    BY <1>2, <2>1, Sizes DEF pos, cur
  <2>11. Erased(f, e)
    BY <2>2, <2>7, <2>8, <2>10 DEF Erased, Rewritten
  <2> QED  BY <2>9, <2>11 DEF f
<1> QED  BY <1>1, <1>2

(* A character is inserted at the cursor, and those behind it move on; one *)
(* that fills the line leaves a character in every place of the array.     *)
Inserted(f, e, c) ==
  /\ SameHistory(f, e)
  /\ \/ /\ e.line_position + 1 < FINSH_CMD_SIZE
        /\ f.line_position = e.line_position + 1 /\ f.line_curpos = e.line_curpos + 1
        /\ \A i \in 1..f.line_position :
             f.line[i - 1] = IF i < e.line_curpos + 1 THEN e.line[i - 1]
                             ELSE IF i = e.line_curpos + 1 THEN c ELSE e.line[i - 2]
        /\ \A i \in Index : i >= f.line_position => f.line[i] = e.line[i]
     \/ /\ e.line_position + 1 = FINSH_CMD_SIZE
        /\ f.line_position = 0 /\ f.line_curpos = 0 /\ ~Ends(f.line)

LEMMA InsertKeeps ==
  ASSUME NEW e, ShellOK(e), NEW c \in Text
  PROVE  ShellOK(Insert(e, c)) /\ Inserted(Insert(e, c), e, c)
<1> DEFINE pos == IF e.line_position >= FINSH_CMD_SIZE THEN 0 ELSE e.line_position
           at == IF e.line_curpos < pos THEN e.line_curpos ELSE pos
           long == pos + 1 >= FINSH_CMD_SIZE
           l == [i \in Index |-> IF i = at THEN c
                                 ELSE IF i \in at + 1..pos THEN e.line[i - 1] ELSE e.line[i]]
           p == IF long THEN 0 ELSE pos + 1
           q == IF long THEN 0 ELSE e.line_curpos + 1
           f == Insert(e, c)
<1>0. e.line_position \in Index /\ pos = e.line_position
  BY Sizes DEF ShellOK, Finsh_t
<1>1. /\ e \in Finsh_t /\ e.line \in Line_t /\ pos \in Index
      /\ e.line_curpos \in Index /\ e.line_curpos <= pos
      /\ e.current_history <= e.history_count
      /\ \A i \in Index : i < pos => e.line[i] # Nul
  <2> HIDE DEF pos
  <2> QED  BY <1>0 DEF ShellOK, Finsh_t
<1>2. pos \in Nat /\ pos < FINSH_CMD_SIZE /\ at \in Nat /\ at <= pos /\ at \in Index
      /\ e.line_curpos \in Nat
  <2> HIDE DEF pos
  <2> QED  BY <1>1, Sizes
<1>3. f = [e EXCEPT !.line = l, !.line_position = p, !.line_curpos = q]
  BY DEF Insert
<1>4. p \in Index /\ q \in Index /\ p \in Nat /\ q \in Nat /\ q <= p /\ p <= pos + 1
  <2> HIDE DEF pos
  <2> QED  BY <1>1, <1>2, Sizes
<1> HIDE DEF at, p, q, f, pos
<1>5. \A i \in Index : i \in at + 1..pos => i - 1 \in Index /\ i - 1 < pos
  BY <1>2, Sizes
<1>6. l \in Line_t
  BY <1>1, <1>5 DEF Line_t
<1>7. \A i \in Index : i < p => l[i] # Nul
  <2> SUFFICES ASSUME NEW i \in Index, i < p  PROVE l[i] # Nul
    OBVIOUS
  <2>1. i \in Nat /\ (i = at \/ i \in at + 1..pos \/ i < at)
    BY <1>2, <1>4, Sizes
  <2>2. CASE i = at
    BY <2>2, Sizes
  <2>3. CASE i # at /\ i \in at + 1..pos
    BY <1>1, <1>5, <2>3
  <2>4. CASE i < at
    BY <1>1, <1>2, <2>1, <2>4
  <2> QED  BY <1>2, <2>1, <2>2, <2>3, <2>4
<1>8. at = e.line_curpos
  BY <1>1, <1>2 DEF at
<1>9. /\ \A i \in 1..pos + 1 :
           i - 1 \in Index => l[i - 1] = IF i < at + 1 THEN e.line[i - 1]
                                       ELSE IF i = at + 1 THEN c ELSE e.line[i - 2]
      /\ \A i \in Index : i >= pos + 1 => l[i] = e.line[i]
      /\ \A i \in Index : i <= pos => l[i] # Nul
  <2>1. ASSUME NEW i \in 1..pos + 1, i - 1 \in Index
        PROVE  l[i - 1] = IF i < at + 1 THEN e.line[i - 1]
                          ELSE IF i = at + 1 THEN c ELSE e.line[i - 2]
    <3>1. /\ i < at + 1 => ~(i - 1 = at) /\ ~(i - 1 \in at + 1..pos)
          /\ i = at + 1 => i - 1 = at
          /\ ~(i < at + 1) /\ i # at + 1 => i - 1 \in at + 1..pos /\ i - 1 # at
          /\ (i - 1) - 1 = i - 2
      BY <1>2
    <3> HIDE DEF pos
    <3> QED  BY <2>1, <3>1
  <2>2. ASSUME NEW i \in Index, i >= pos + 1  PROVE l[i] = e.line[i]
    BY <1>2, <2>2, Sizes
  <2>3. ASSUME NEW i \in Index, i <= pos  PROVE l[i] # Nul
    <3>1. i \in Nat /\ (i = at \/ (i # at /\ i \in at + 1..pos) \/ i < at)
      BY <1>2, <2>3, Sizes
    <3>2. CASE i = at
      BY <3>2, Sizes
    <3>3. CASE i # at /\ i \in at + 1..pos
      BY <1>1, <1>5, <3>3
    <3>4. CASE i < at
      <4>1. l[i] = e.line[i] /\ i < pos
        BY <1>2, <3>1, <3>4
      <4> QED  BY <1>1, <4>1
    <3> QED  BY <3>1, <3>2, <3>3, <3>4
  <2> QED  BY <2>1, <2>2, <2>3
<1> HIDE DEF l
<1>10. Rewritten(f, e, l, p, q)
  BY <1>1, <1>3, <1>4, <1>6, NewLine
<1>11. ShellOK(f)
  BY <1>1, <1>4, <1>7, <1>10 DEF ShellOK, Rewritten, SameHistory
<1>12. Inserted(f, e, c)
  <2>1. SameHistory(f, e) /\ f.line = l /\ f.line_position = p /\ f.line_curpos = q
    BY <1>10 DEF Rewritten
  <2>2. CASE pos + 1 < FINSH_CMD_SIZE
    <3>1. p = pos + 1 /\ q = at + 1
      BY <1>2, <1>8, <2>2, Sizes DEF p, q
    <3>2. \A i \in 1..pos + 1 : i - 1 \in Index
      BY <1>2, Sizes
    <3> QED  BY <1>0, <1>8, <1>9, <2>1, <2>2, <3>1, <3>2 DEF Inserted
  <2>3. CASE ~(pos + 1 < FINSH_CMD_SIZE)
    <3>1. p = 0 /\ q = 0 /\ pos = FINSH_CMD_SIZE - 1 /\ pos + 1 = FINSH_CMD_SIZE
      BY <1>2, <2>3, Sizes DEF p, q
    <3>2. \A i \in Index : i <= pos
      BY <3>1, Sizes
    <3>3. ~Ends(l)
      BY <1>9, <3>2 DEF Ends
    <3> QED  BY <1>0, <2>1, <3>1, <3>3 DEF Inserted
  <2> QED  BY <2>2, <2>3
<1> QED  BY <1>11, <1>12 DEF f

(* What Tab completes the line to is a line, with no Nul but the line's.   *)
LEMMA CompleteType ==
  ASSUME NEW l \in Line_t
  PROVE  /\ msh_auto_complete(l) \in Line_t
         /\ Ends(msh_auto_complete(l)) => Ends(l)
<1> DEFINE fitting == {c \in Commands : IsPrefix(String(l), c)}
           common == {n \in 1..FINSH_CMD_SIZE - 1 : \A c, d \in fitting :
                        n <= Len(c) /\ n <= Len(d) /\ SubSeq(c, 1, n) = SubSeq(d, 1, n)}
           some == CHOOSE c \in fitting : TRUE
           n == Cardinality(common)
           r == [i \in Index |-> IF i < n THEN some[i + 1] ELSE l[i]]
<1>1. CASE l[0] = Nul \/ fitting = {}
  BY <1>1 DEF msh_auto_complete
<1>2. CASE ~(l[0] = Nul \/ fitting = {})
  <2>1. msh_auto_complete(l) = r
    BY <1>2 DEF msh_auto_complete
  <2>2. some \in fitting
    BY <1>2
  <2>3. some \in Seq(Text) /\ Len(some) \in 1..FINSH_CMD_SIZE - 1
    BY <2>2, ShellAssumption
  <2>4. common \subseteq 1..Len(some)
    BY <2>2, <2>3
  <2> HIDE DEF common, some, fitting
  <2>5. IsFiniteSet(1..Len(some)) /\ Cardinality(1..Len(some)) = Len(some)
    <3>1. 1 \in Int /\ Len(some) \in Int /\ ~(1 > Len(some)) /\ Len(some) - 1 + 1 = Len(some)
      BY <2>3
    <3> QED  BY <3>1, FS_Interval
  <2>6. n \in Nat /\ n <= Len(some)
    <3>1. IsFiniteSet(common) /\ Cardinality(common) <= Cardinality(1..Len(some))
      BY <2>4, <2>5, FS_Subset
    <3>2. Cardinality(common) \in Nat
      BY <3>1, FS_CardinalityType
    <3> QED  BY <2>5, <3>1, <3>2
  <2> HIDE DEF n
  <2>7. \A i \in Index : i < n => some[i + 1] \in Text
    <3> SUFFICES ASSUME NEW i \in Index, i < n  PROVE some[i + 1] \in Text
      OBVIOUS
    <3>1. i \in Nat
      BY Sizes
    <3>2. i + 1 \in 1..Len(some)
      BY <2>3, <2>6, <3>1
    <3> QED  BY <2>3, <3>2, ElementOfSeq
  <2>8. r \in Line_t
    BY <2>7 DEF Line_t
  <2>9. ASSUME NEW k \in Index, r[k] = Nul  PROVE l[k] = Nul
    <3>1. r[k] = IF k < n THEN some[k + 1] ELSE l[k]
      OBVIOUS
    <3>2. ~(k < n)
      BY <2>7, <2>9, <3>1, Sizes
    <3> QED  BY <2>9, <3>1, <3>2
  <2>10. Ends(r) => Ends(l)
    BY <2>9 DEF Ends
  <2> QED  BY <2>1, <2>8, <2>10
<1> QED  BY <1>1, <1>2

(* The line becomes what msh_auto_complete makes of it.                    *)
Completed(f, e) ==
  /\ SameHistory(f, e) /\ f.line = msh_auto_complete(e.line) /\ Ends(f.line)
  /\ f.line_position = strlen(f.line) /\ f.line_curpos = f.line_position

LEMMA TabKeeps ==
  ASSUME NEW e, ShellOK(e), Ends(msh_auto_complete(e.line))
  PROVE  ShellOK(Tab(e)) /\ Completed(Tab(e), e)
<1> DEFINE l == msh_auto_complete(e.line)
           n == strlen(l)
           f == Tab(e)
<1>1. /\ e \in Finsh_t /\ e.line \in Line_t /\ e.line_position \in Index
      /\ e.current_history <= e.history_count
  BY DEF ShellOK, Finsh_t
<1>2. l \in Line_t /\ Ends(l)
  BY <1>1, CompleteType
<1>3. f = [e EXCEPT !.line = l, !.line_position = Length(e, l), !.line_curpos = Length(e, l)]
  BY DEF Tab
<1> HIDE DEF l, f
<1>4. /\ n \in Index /\ n \in Nat /\ \A i \in Index : i < n => l[i] # Nul
      /\ f = [e EXCEPT !.line = l, !.line_position = n, !.line_curpos = n]
  BY <1>2, <1>3, StrlenInside
<1> HIDE DEF n
<1>5. Rewritten(f, e, l, n, n)
  BY <1>1, <1>2, <1>4, NewLine
<1>6. Completed(f, e)
  BY <1>2, <1>5 DEF Completed, Rewritten, l, n
<1>7. ShellOK(f)
  BY <1>1, <1>4, <1>5 DEF ShellOK, Rewritten, SameHistory
<1> QED  BY <1>6, <1>7 DEF f

LEMMA StateKeeps ==
  ASSUME NEW e, ShellOK(e), NEW st \in {"WAIT_NORMAL", "WAIT_SPEC_KEY", "WAIT_FUNC_KEY"}
  PROVE  /\ ShellOK([e EXCEPT !.stat = st])
         /\ Untouched([e EXCEPT !.stat = st], e)
<1> DEFINE f == [e EXCEPT !.stat = st]
<1>1. /\ f \in Finsh_t /\ f.line = e.line /\ f.line_position = e.line_position
      /\ f.line_curpos = e.line_curpos /\ f.current_history = e.current_history
      /\ f.history_count = e.history_count /\ f.cmd_history = e.cmd_history
  BY DEF ShellOK, Finsh_t
<1> HIDE DEF f
<1>2. ShellOK(f)
  BY <1>1 DEF ShellOK
<1>3. Untouched(f, e)
  BY <1>1 DEF Untouched, SameLine, SameHistory
<1> QED  BY <1>2, <1>3 DEF f

(* What a turn of finsh_thread_entry does.                                 *)
Turned(f, e, c) ==
  \/ Untouched(f, e) \/ Erased(f, e) \/ Entered(f, e) \/ Moved(f, e)
  \/ c \in Text /\ Inserted(f, e, c)
  \/ Completed(f, e)

(* It does not depend on the state of the escape sequence.                 *)
LEMMA TurnedAlike ==
  ASSUME NEW f, NEW g, NEW e, NEW c, Untouched(g, e), Turned(f, g, c)
  PROVE  Turned(f, e, c)
<1>1. /\ g.line = e.line /\ g.line_position = e.line_position
      /\ g.line_curpos = e.line_curpos /\ g.current_history = e.current_history
      /\ g.history_count = e.history_count /\ g.cmd_history = e.cmd_history
  BY DEF Untouched, SameLine, SameHistory
<1>2. /\ SameHistory(f, g) => SameHistory(f, e)
      /\ SameLine(f, g) => SameLine(f, e)
      /\ Untouched(f, g) => Untouched(f, e)
  BY <1>1 DEF Untouched, SameLine, SameHistory
<1>3. Erased(f, g) => Erased(f, e)
  BY <1>1, <1>2 DEF Erased
<1>4. Entered(f, g) => Entered(f, e)
  <2>1. \A n : WithLine(g, n) = WithLine(e, n)
    BY <1>1 DEF WithLine
  <2>2. Again(g) <=> Again(e)
    BY <1>1 DEF Again
  <2> QED  BY <1>1, <2>1, <2>2 DEF Entered, Pushed
<1>5. Moved(f, g) => Moved(f, e)
  <2>1. \A h : Shown(f, g, h) <=> Shown(f, e, h)
    BY <1>1 DEF Shown
  <2> QED  BY <1>1, <1>2, <2>1 DEF Moved
<1>6. Inserted(f, g, c) => Inserted(f, e, c)
  BY <1>1, <1>2 DEF Inserted
<1>7. Completed(f, g) => Completed(f, e)
  BY <1>1, <1>2 DEF Completed
<1> QED  BY <1>2, <1>3, <1>4, <1>5, <1>6, <1>7 DEF Turned

(* One turn of finsh_thread_entry with a character that may come.          *)
LEMMA TurnKeeps ==
  ASSUME ShellOK(shell), NEW c \in Fitting, burst \in BOOLEAN, ~TabOverreads(shell, c)
  PROVE  /\ ShellOK(finsh_thread_entry(shell, c))
         /\ Turned(finsh_thread_entry(shell, c), shell, c)
<1> DEFINE e == [shell EXCEPT !.stat = "WAIT_NORMAL"]
<1>1. ShellOK(e) /\ Untouched(e, shell) /\ e.line = shell.line
  BY StateKeeps DEF Untouched, SameLine
<1>2. \/ c \in Text \cup {"esc", "tab", "backspace", "enter"}
      \/ c = "[" /\ shell.stat = "WAIT_SPEC_KEY"
      \/ c \in Arrows /\ shell.stat = "WAIT_FUNC_KEY"
  BY DEF Fitting, Typed, Plain
<1>3. CASE c = "esc"
  <2>1. finsh_thread_entry(shell, c) = [shell EXCEPT !.stat = "WAIT_SPEC_KEY"]
    BY <1>3 DEF finsh_thread_entry, Arrows
  <2> QED  BY <2>1, StateKeeps DEF Turned
<1>4. CASE c = "[" /\ shell.stat = "WAIT_SPEC_KEY"
  <2>1. finsh_thread_entry(shell, c) = [shell EXCEPT !.stat = "WAIT_FUNC_KEY"]
    BY <1>4 DEF finsh_thread_entry, Arrows
  <2> QED  BY <2>1, StateKeeps DEF Turned
<1>5. CASE c \in Arrows /\ shell.stat = "WAIT_FUNC_KEY"
  <2>1. finsh_thread_entry(shell, c) = Arrow(e, c)
    BY <1>5 DEF finsh_thread_entry, Arrows
  <2> HIDE DEF e
  <2>2. ShellOK(Arrow(e, c)) /\ Turned(Arrow(e, c), e, c)
    BY <1>1, <1>5, MoveKeeps DEF Turned
  <2> QED  BY <1>1, <2>1, <2>2, TurnedAlike
<1>6. CASE /\ c # "esc" /\ ~(c = "[" /\ shell.stat = "WAIT_SPEC_KEY")
           /\ ~(c \in Arrows /\ shell.stat = "WAIT_FUNC_KEY")
  <2>1. finsh_thread_entry(shell, c) = Edit(e, c)
    BY <1>6 DEF finsh_thread_entry
  <2> HIDE DEF e
  <2>2. CASE c = "tab"
    <3>1. Ends(msh_auto_complete(e.line))
      BY <1>1, <2>2 DEF TabOverreads
    <3>2. Edit(e, c) = Tab(e)
      BY <2>2 DEF Edit, Nul
    <3>3. ShellOK(Tab(e)) /\ Turned(Tab(e), e, c)
      BY <1>1, <3>1, TabKeeps DEF Turned
    <3> QED  BY <1>1, <2>1, <3>2, <3>3, TurnedAlike
  <2>3. CASE c = "backspace"
    <3>1. Edit(e, c) = Backspace(e)
      BY <2>3 DEF Edit, Nul
    <3>2. ShellOK(Backspace(e)) /\ Turned(Backspace(e), e, c)
      BY <1>1, BackspaceKeeps DEF Turned, Untouched, SameLine, SameHistory
    <3> QED  BY <1>1, <2>1, <3>1, <3>2, TurnedAlike
  <2>4. CASE c = "enter"
    <3>1. Edit(e, c) = Enter(e)
      BY <2>4 DEF Edit, Nul
    <3>2. ShellOK(Enter(e)) /\ Turned(Enter(e), e, c)
      BY <1>1, EnterKeeps DEF Turned
    <3> QED  BY <1>1, <2>1, <3>1, <3>2, TurnedAlike
  <2>5. CASE c \in Text
    <3>1. c \notin {Nul, "tab", "backspace", "enter"}
      BY <2>5, ShellAssumption
    <3>2. Edit(e, c) = Insert(e, c)
      BY <3>1 DEF Edit
    <3>3. ShellOK(Insert(e, c)) /\ Turned(Insert(e, c), e, c)
      BY <1>1, <2>5, InsertKeeps DEF Turned
    <3> QED  BY <1>1, <2>1, <3>2, <3>3, TurnedAlike
  <2> QED  BY <1>2, <1>6, <2>2, <2>3, <2>4, <2>5
<1> QED  BY <1>3, <1>4, <1>5, <1>6

(* At start the line is empty, and nothing is on its way.                  *)
LEMMA InitShell == ASSUME Init PROVE ShellOK(shell)
<1>1. /\ shell = [line |-> Empty, line_position |-> 0, line_curpos |-> 0,
                  stat |-> "WAIT_NORMAL",
                  cmd_history |-> [h \in 0..FINSH_HISTORY_LINES - 1 |-> Empty],
                  history_count |-> 0, current_history |-> 0]
  BY DEF Init, finsh_system_init
<1>2. Empty \in Line_t /\ Empty[FINSH_CMD_SIZE - 1] = Nul
  BY Sizes DEF Empty, Line_t
<1>3. 0 \in Index /\ 0 \in 0..FINSH_HISTORY_LINES
  BY Sizes
<1>4. shell \in Finsh_t
  BY <1>1, <1>2, <1>3 DEF Finsh_t, Ended_t
<1>5. \A i \in Index : ~(i < 0)
  BY Sizes
<1> QED  BY <1>1, <1>4, <1>5 DEF ShellOK

LEMMA InitLine == ASSUME Init PROVE LineInv
<1>1. Contents = <<>>
  <2>1. fifo.put_index = 0 /\ fifo.get_index = 0 /\ RingOK
    BY InitIInv DEF Init, IInv
  <2> QED  BY <2>1, NoneLeftIsEmpty DEF NoneLeft
<1>2. burst \in BOOLEAN /\ rxne = FALSE /\ thread = "read" /\ ch \in Keys
  BY DEF Init, Keys
<1>3. OnTheWay
  <2>1. Contents \in Seq(Fitting) /\ Len(Contents) <= 1
    BY <1>1
  <2>2. ~rxne /\ thread # "run" /\ rxne \in BOOLEAN
    BY <1>2
  <2> QED  BY <1>2, <2>1, <2>2, Zenon DEF OnTheWay
<1> QED  BY <1>3, InitShell DEF LineInv, InOrder

(* The line stays in order where the thread does not run.                  *)
LEMMA SameOrder == ASSUME InOrder, UNCHANGED <<shell, overread>> PROVE InOrder'
<1> QED  BY DEF InOrder

(* Where it runs, the line stays in order unless Tab overreads it.         *)
LEMMA RunOrder == ASSUME OnTheWay, InOrder, Run PROVE InOrder'
<1>1. /\ overread' = (overread \/ TabOverreads(shell, ch))
      /\ shell' = finsh_thread_entry(shell, ch) /\ thread = "run"
  BY DEF Run
<1>2. ASSUME ~overread'  PROVE ShellOK(shell')
  <2>1. ~overread /\ ~TabOverreads(shell, ch)
    BY <1>1, <1>2, Zenon
  <2>2. ShellOK(shell)
    BY <2>1, Zenon DEF InOrder
  <2>3. ch \in Fitting /\ burst \in BOOLEAN
    BY <1>1 DEF OnTheWay
  <2> QED  BY <1>1, <2>1, <2>2, <2>3, TurnKeeps
<1> QED  BY <1>2, Zenon DEF InOrder

(* What a byte may be depends on the editor alone.                         *)
LEMMA FitStays ==
  ASSUME UNCHANGED <<burst, shell>>
  PROVE  Fitting' = Fitting
<1> QED  BY DEF Fitting, Typed

(* The bytes in the ring are characters.                                   *)
LEMMA ContentsType ==
  ASSUME RingOK  PROVE Contents \in Seq(Keys) /\ Len(Contents) \in Nat
<1>1. IsContents(ContentsOf(fifo), fifo)
  BY ContentsAre DEF RingOK
<1>2. Contents = ContentsOf(fifo)
  BY DEF Contents, ContentsOf, Between
<1> QED  BY <1>1, <1>2 DEF IsContents

(* While the thread waits and no interrupt is under way the ring is empty. *)
LEMMA WaitsOnEmpty ==
  ASSUME IInv, thread = "waits", isr = "idle"  PROVE Contents = <<>>
<1> QED  BY NoneLeftIsEmpty DEF IInv, Warned, WillBeTold

(* Every step keeps the line in order and what is on its way fitting.      *)
LEMMA StepLine == ASSUME IInv, IInv', LineInv, [Next]_vars PROVE LineInv'
<1>0. /\ RingOK /\ RingOK' /\ datar \in Keys /\ OnTheWay /\ InOrder
      /\ Contents \in Seq(Keys) /\ Len(Contents) \in Nat
  BY ContentsType DEF IInv, RingOK, LineInv
<1>1. ASSUME UNCHANGED <<shell, burst, ch, fifo, overread>>,
             thread' \in {"read", "take", "waits"} \/ thread' = thread,
             rxne' = FALSE \/ (rxne' = rxne /\ datar' = datar)
      PROVE  LineInv'
  <2>1. Contents' = Contents
    BY <1>1 DEF Contents, Between
  <2>2. Fitting' = Fitting
    BY <1>1, FitStays
  <2>3. rxne' \in BOOLEAN /\ (rxne' => rxne /\ datar' = datar)
    <3>1. rxne \in BOOLEAN
      BY <1>0 DEF OnTheWay
    <3>2. CASE rxne' = FALSE
      BY <3>2, Zenon
    <3>3. CASE rxne' = rxne /\ datar' = datar
      BY <3>1, <3>3, Zenon
    <3> QED  BY <1>1, <3>2, <3>3
  <2>4. /\ thread' \in {"read", "take", "waits", "run"}
        /\ thread' = "run" => thread = "run"
    BY <1>0, <1>1 DEF OnTheWay
  <2>5. OnTheWay'
    BY <1>0, <1>1, <2>1, <2>2, <2>3, <2>4, Zenon DEF OnTheWay
  <2> QED  BY <1>0, <1>1, <2>5, SameOrder DEF LineInv
<1>2. CASE rt_hw_serial_isr /\ rxne
  <2>1. /\ fifo' = Stored(fifo, datar) /\ rxne' = FALSE
        /\ UNCHANGED <<shell, burst, thread, ch, overread>>
    BY <1>2 DEF rt_hw_serial_isr, Emptied
  <2>2. Contents' = IF Len(Contents) < bufsz - 1 THEN Append(Contents, datar)
                    ELSE Append(Tail(Contents), datar)
    BY <1>0, <2>1, StorePuts
  <2>3. Fitting' = Fitting
    BY <2>1, FitStays
  <2>4. datar \in Fitting /\ Contents \in Seq(Fitting)
    BY <1>0, <1>2 DEF OnTheWay
  <2>5. bufsz \in Nat /\ bufsz > 1
    BY ConsoleAssumption
  <2>6. Contents' \in Seq(Fitting)
    <3>1. CASE Len(Contents) < bufsz - 1
      BY <2>2, <2>4, <3>1, AppendProperties
    <3>2. CASE ~(Len(Contents) < bufsz - 1)
      <4>1. Contents # <<>>
        BY <2>5, <3>2
      <4>2. Tail(Contents) \in Seq(Fitting)
        BY <2>4, <4>1, HeadTailProperties
      <4> QED  BY <2>2, <2>4, <3>2, <4>2, AppendProperties
    <3> QED  BY <3>1, <3>2
  <2>7. ~burst => Len(Contents') <= 1 /\ thread # "run"
    <3> SUFFICES ASSUME ~burst  PROVE Len(Contents') <= 1 /\ thread # "run"
      OBVIOUS
    <3>1. Contents = <<>> /\ thread # "run"
      BY <1>0, <1>2 DEF OnTheWay
    <3>2. Len(Contents) < bufsz - 1 \/ bufsz = 2
      BY <2>5, <3>1
    <3>3. Contents' = <<datar>> \/ Contents' = Append(Tail(<<>>), datar)
      BY <2>2, <3>1
    <3>4. Contents' = <<datar>>
      BY <2>2, <2>5, <3>1
    <3> QED  BY <3>1, <3>4
  <2>8. OnTheWay'
    BY <1>0, <2>1, <2>3, <2>6, <2>7 DEF OnTheWay
  <2> QED  BY <1>0, <2>1, <2>8, SameOrder DEF LineInv
<1>3. CASE _serial_int_rx /\ ~NoData(fifo)
  <2>1. /\ fifo' = [fifo EXCEPT !.buffer[fifo.get_index] = Nul,
                                !.get_index = Wrapped(@ + 1), !.is_full = FALSE]
        /\ ch' = fifo.buffer[fifo.get_index] /\ thread' = "run" /\ thread = "read"
        /\ UNCHANGED <<shell, burst, rxne, datar, overread>>
    BY <1>3 DEF _serial_int_rx, hardware
  <2>2. /\ Contents # <<>> /\ Head(Contents) = ch' /\ Contents' = Tail(Contents)
    BY <1>0, <1>3, <2>1, ReadTakes
  <2>3. Fitting' = Fitting
    BY <2>1, FitStays
  <2>4. /\ Len(Contents') = Len(Contents) - 1
        /\ \A i \in 1..Len(Contents') : Contents'[i] = Contents[i + 1]
    BY <1>0, <2>2, HeadTailProperties
  <2>5. Len(Contents) >= 1 /\ ch' \in Keys
    BY <1>0, <2>2
  <2>6. ch' \in Fitting /\ Contents' \in Seq(Fitting)
    <3>1. Contents \in Seq(Fitting)
      BY <1>0 DEF OnTheWay
    <3> QED  BY <2>2, <3>1, HeadTailProperties
  <2>8. ~burst => Contents' = <<>> /\ ~rxne
    <3> SUFFICES ASSUME ~burst  PROVE Contents' = <<>> /\ ~rxne
      OBVIOUS
    <3>1. Len(Contents) <= 1 /\ ~rxne
      BY <1>0, <2>2 DEF OnTheWay
    <3>2. Contents' \in Seq(Keys) /\ Len(Contents') = 0
      BY <1>0, <2>2, <2>4, <2>5, <3>1, HeadTailProperties
    <3> QED  BY <3>1, <3>2, EmptySeq
  <2>10. OnTheWay'
    BY <1>0, <2>1, <2>3, <2>5, <2>6, <2>8 DEF OnTheWay
  <2> QED  BY <1>0, <2>1, <2>10, SameOrder DEF LineInv
<1>4. CASE Run
  <2>1. /\ thread = "run" /\ thread' = "read" /\ ch' = Nul
        /\ UNCHANGED <<burst, rxne, datar, fifo>>
    BY <1>4 DEF Run, ThenRead, hardware
  <2>2. InOrder'
    BY <1>0, <1>4, RunOrder
  <2>3. Contents' = Contents
    BY <2>1 DEF Contents, Between
  <2>4. Nul \in Keys
    BY DEF Keys
  <2>5. CASE burst
    <3>1. Fitting' = Fitting
      BY <2>1, <2>5 DEF Fitting
    <3>2. OnTheWay'
      BY <1>0, <2>1, <2>3, <2>4, <2>5, <3>1 DEF OnTheWay
    <3> QED  BY <2>2, <3>2 DEF LineInv
  <2>6. CASE ~burst
    <3>1. ~rxne /\ Contents = <<>>
      BY <1>0, <2>1, <2>6 DEF OnTheWay
    <3>2. OnTheWay'
      BY <1>0, <2>1, <2>3, <2>4, <3>1 DEF OnTheWay
    <3> QED  BY <2>2, <3>2 DEF LineInv
  <2> QED  BY <2>5, <2>6
<1>5. ASSUME NEW b \in Keys, Arrives(b)  PROVE LineInv'
  <2>1. /\ datar' = b /\ rxne' = TRUE
        /\ UNCHANGED <<shell, burst, fifo, thread, ch, overread>>
        /\ IF burst THEN b \in Pasted ELSE b \in Typed /\ thread = "waits" /\ isr = "idle"
    BY <1>5 DEF Arrives
  <2>2. b \in Fitting
    BY <2>1, ConsoleAssumption DEF Fitting, Plain
  <2>3. Contents' = Contents /\ Fitting' = Fitting
    <3>1. Contents' = Contents
      BY <2>1 DEF Contents, Between
    <3> QED  BY <2>1, <3>1, FitStays
  <2>4. ~burst => Contents = <<>> /\ thread = "waits"
    BY <2>1, WaitsOnEmpty
  <2>5. OnTheWay'
    BY <1>0, <2>1, <2>2, <2>3, <2>4 DEF OnTheWay
  <2> QED  BY <1>0, <2>1, <2>5, SameOrder DEF LineInv
<1>6. \/ /\ UNCHANGED <<shell, burst, ch, fifo, overread>>
         /\ thread' \in {"read", "take", "waits"} \/ thread' = thread
         /\ rxne' = FALSE \/ (rxne' = rxne /\ datar' = datar)
      \/ rt_hw_serial_isr /\ rxne
      \/ _serial_int_rx /\ ~NoData(fifo)
      \/ Run
      \/ \E b \in Keys : Arrives(b)
  BY DEF Next, Isr, Tshell, vars, hardware, USART1_IRQHandler, rt_hw_serial_isr, finsh_rx_ind,
         USART_ClearITPendingBit, Emptied, _serial_int_rx, rt_sem_take
<1> QED  BY <1>1, <1>2, <1>3, <1>4, <1>5, <1>6

(* The invariants together are what StaysInLine says, and more.            *)
LEMMA LineImplies == ASSUME IInv, LineInv PROVE StaysInLine
<1> SUFFICES ASSUME ~overread  PROVE TypeOK /\ InLine
  BY Zenon DEF StaysInLine
<1>1. ShellOK(shell) /\ OnTheWay /\ RingOK /\ SemOK
  BY Zenon DEF IInv, LineInv, InOrder
<1>2. /\ shell.line \in Line_t /\ shell.line_position \in Index
      /\ shell.stat \in {"WAIT_NORMAL", "WAIT_SPEC_KEY", "WAIT_FUNC_KEY"}
      /\ shell.history_count \in 0..FINSH_HISTORY_LINES
  BY <1>1 DEF ShellOK, Finsh_t
<1>3. TypeOK
  BY <1>1, <1>2, RingFields DEF TypeOK, OnTheWay, RingOK, SemOK, Line_t
<1>4. shell.line_position \in Nat /\ shell.line_position < FINSH_CMD_SIZE
  BY <1>2, Sizes
<1>5. shell.line_position <= strlen(shell.line)
  <2> DEFINE n == strlen(shell.line)
  <2>1. n \in 0..FINSH_CMD_SIZE /\ (n < FINSH_CMD_SIZE => shell.line[n] = Nul)
    BY <1>2, Strlen
  <2>2. \A i \in Index : i < shell.line_position => shell.line[i] # Nul
    BY <1>1 DEF ShellOK
  <2> HIDE DEF n
  <2>3. ASSUME n < shell.line_position  PROVE FALSE
    <3>1. n \in Index /\ n < FINSH_CMD_SIZE
      BY <1>4, <2>1, <2>3, Sizes
    <3> QED  BY <2>1, <2>2, <2>3, <3>1
  <2>4. n \in Int
    BY <2>1, Sizes
  <2>5. n >= shell.line_position
    BY <1>4, <2>3, <2>4
  <2> QED  BY <1>4, <2>4, <2>5 DEF n
<1>6. /\ shell.line_curpos <= shell.line_position
      /\ shell.current_history <= shell.history_count
  BY <1>1 DEF ShellOK
<1>7. shell.history_count <= FINSH_HISTORY_LINES
  BY <1>2, Sizes
<1> QED  BY <1>3, <1>4, <1>5, <1>6, <1>7 DEF InLine

(* For lines, histories and commands of any size, and any keys at any      *)
(* time: until Tab finds no Nul in the line, no key moves characters       *)
(* outside its array, although Insert, Backspace, Tab and the history set  *)
(* line, position and cursor by hand.                                      *)
THEOREM LineIsSafe == Spec => []StaysInLine
<1>1. Init => IInv /\ LineInv
  BY InitIInv, InitLine
<1>2. IInv /\ LineInv /\ [Next]_vars => IInv' /\ LineInv'
  BY StepInv, StepLine
<1>3. IInv /\ LineInv => StaysInLine
  BY LineImplies
<1> QED  BY <1>1, <1>2, <1>3, PTL DEF Spec
-----------------------------------------------------------------------------
(* The line as a text, and the history as the commands entered.            *)
TextOf(e) == SubSeq(String(e.line), 1, e.line_position)
Known(e)  == [h \in 1..e.history_count |-> String(e.cmd_history[h - 1])]

(* Nothing is left in an array behind its string.                          *)
ArrayEnds(l) == \A i \in Index : i >= strlen(l) => l[i] = Nul

(* What is in the line's array from the position on: nothing, or what a    *)
(* line that was too long has left, to the end of the array.               *)
LineEnds(e) == \A i \in Index : i >= e.line_position => e.line[i] = Nul
Stale(e) ==
  \A i, j \in Index :
    i >= e.line_position /\ j >= i /\ e.line[i] # Nul => e.line[j] # Nul

(* Remembered commands leave nothing behind them; the line does only after *)
(* one that was too long.                                                  *)
Tidy(e) ==
  /\ \A h \in 0..FINSH_HISTORY_LINES - 1 : ArrayEnds(e.cmd_history[h])
  /\ Stale(e)
-----------------------------------------------------------------------------
LEMMA StrlenIs ==
  ASSUME NEW l \in Line_t, NEW n \in 0..FINSH_CMD_SIZE,
         \A i \in Index : i < n => l[i] # Nul,
         n < FINSH_CMD_SIZE => l[n] = Nul
  PROVE  strlen(l) = n
<1> DEFINE m == strlen(l)
<1>1. /\ m \in 0..FINSH_CMD_SIZE /\ \A i \in Index : i < m => l[i] # Nul
      /\ m < FINSH_CMD_SIZE => l[m] = Nul
  BY Strlen
<1> HIDE DEF m
<1>2. CASE m < n
  <2>1. m \in Index /\ m < FINSH_CMD_SIZE
    BY <1>1, <1>2, Sizes
  <2> QED  BY <1>1, <1>2, <2>1
<1>3. CASE n < m
  <2>1. n \in Index /\ n < FINSH_CMD_SIZE
    BY <1>1, <1>3, Sizes
  <2> QED  BY <1>1, <1>3, <2>1
<1>4. m = n
  BY <1>1, <1>2, <1>3, Sizes
<1> QED  BY <1>4 DEF m

LEMMA StringIs ==
  ASSUME NEW l \in Line_t
  PROVE  /\ String(l) \in Seq(Text) /\ Len(String(l)) = strlen(l)
         /\ strlen(l) \in Nat /\ strlen(l) <= FINSH_CMD_SIZE
         /\ \A i \in 1..strlen(l) : String(l)[i] = l[i - 1]
<1> DEFINE n == strlen(l)
<1>1. n \in Nat /\ n <= FINSH_CMD_SIZE /\ \A i \in Index : i < n => l[i] # Nul
  BY Strlen, Sizes
<1>2. String(l) = [i \in 1..n |-> l[i - 1]]
  BY DEF String
<1> HIDE DEF n
<1>3. \A i \in 1..n : i - 1 \in Index /\ i - 1 < n
  BY <1>1, Sizes
<1>4. \A i \in 1..n : l[i - 1] \in Text
  BY <1>1, <1>3, Sizes DEF Line_t
<1>5. String(l) \in [1..n -> Text]
  BY <1>2, <1>4
<1>6. String(l) \in Seq(Text)
  BY <1>1, <1>5, SeqDef
<1>7. Len(String(l)) = n
  BY <1>1, <1>5, <1>6
<1> QED  BY <1>1, <1>2, <1>6, <1>7 DEF n

(* The characters before the position are the text.                        *)
LEMMA TextIs ==
  ASSUME NEW e, ShellOK(e)
  PROVE  /\ TextOf(e) \in Seq(Text) /\ Len(TextOf(e)) = e.line_position
         /\ \A i \in 1..e.line_position : TextOf(e)[i] = e.line[i - 1]
         /\ e.line_position <= strlen(e.line)
<1> DEFINE p == e.line_position
           n == strlen(e.line)
           s == String(e.line)
<1>1. /\ e.line \in Line_t /\ p \in Nat /\ p < FINSH_CMD_SIZE /\ p \in Index
      /\ \A i \in Index : i < p => e.line[i] # Nul
  BY Sizes DEF ShellOK, Finsh_t
<1>2. n \in Nat /\ (n < FINSH_CMD_SIZE => e.line[n] = Nul)
  BY <1>1, Strlen, Sizes
<1>3. s \in Seq(Text) /\ Len(s) = n /\ \A i \in 1..n : s[i] = e.line[i - 1]
  BY <1>1, StringIs
<1> HIDE DEF n, s
<1>4. p <= n
  <2>1. ASSUME n < p  PROVE FALSE
    <3>1. n \in Index /\ n < FINSH_CMD_SIZE
      BY <1>1, <1>2, <2>1, Sizes
    <3> QED  BY <1>1, <1>2, <2>1, <3>1
  <2> QED  BY <1>1, <1>2, <2>1
<1> HIDE DEF p
<1>5. \A i \in 1..p : i \in 1..n /\ s[i] \in Text
  <2>1. \A i \in 1..p : i \in 1..n
    BY <1>1, <1>2, <1>4
  <2> QED  BY <1>3, <2>1, ElementOfSeq
<1>6. /\ SubSeq(s, 1, p) \in Seq(Text)
      /\ Len(SubSeq(s, 1, p)) = IF 1 <= p THEN p - 1 + 1 ELSE 0
      /\ \A i \in 1..p - 1 + 1 : SubSeq(s, 1, p)[i] = s[1 + i - 1]
  BY <1>1, <1>5, SubSeqProperties
<1>7. \A i \in 1..p : i \in 1..p - 1 + 1 /\ 1 + i - 1 = i
  BY <1>1
<1>8. Len(SubSeq(s, 1, p)) = p /\ \A i \in 1..p : SubSeq(s, 1, p)[i] = e.line[i - 1]
  BY <1>1, <1>3, <1>5, <1>6, <1>7
<1>9. TextOf(e) = SubSeq(s, 1, p)
  BY DEF TextOf, s, p
<1> QED  BY <1>4, <1>6, <1>8, <1>9 DEF p, n

(* Where nothing is left behind, the text is the whole string.             *)
LEMMA WholeText ==
  ASSUME NEW e, ShellOK(e)
  PROVE  /\ LineEnds(e) => e.line_position = strlen(e.line)
         /\ e.line_position = strlen(e.line) => TextOf(e) = String(e.line)
<1>1. /\ e.line \in Line_t /\ e.line_position \in Index /\ e.line_position \in Nat
      /\ e.line_position \in 0..FINSH_CMD_SIZE /\ e.line_position < FINSH_CMD_SIZE
      /\ \A i \in Index : i < e.line_position => e.line[i] # Nul
  BY Sizes DEF ShellOK, Finsh_t
<1>2. ASSUME LineEnds(e)  PROVE e.line_position = strlen(e.line)
  <2>1. e.line[e.line_position] = Nul
    BY <1>1, <1>2 DEF LineEnds
  <2>2. strlen(e.line) = e.line_position
    BY <1>1, <2>1, StrlenIs
  <2> QED  BY <2>2
<1>3. ASSUME e.line_position = strlen(e.line)  PROVE TextOf(e) = String(e.line)
  <2>1. String(e.line) \in Seq(Text) /\ Len(String(e.line)) = e.line_position
    BY <1>1, <1>3, StringIs
  <2> QED  BY <2>1, SubSeqFull DEF TextOf
<1> QED  BY <1>2, <1>3

(* A sequence with an element inserted, or removed.                        *)
LEMMA InsertAtIs ==
  ASSUME NEW s \in Seq(Text), NEW k \in 1..Len(s) + 1, NEW c \in Text
  PROVE  /\ InsertAt(s, k, c) \in Seq(Text) /\ Len(InsertAt(s, k, c)) = Len(s) + 1
         /\ \A i \in 1..Len(s) + 1 :
              InsertAt(s, k, c)[i] = IF i < k THEN s[i] ELSE IF i = k THEN c ELSE s[i - 1]
<1> DEFINE n == Len(s)
           a == SubSeq(s, 1, k - 1)
           b == SubSeq(s, k, n)
<1>1. n \in Nat /\ k \in Nat /\ 1 <= k /\ k <= n + 1
  OBVIOUS
<1>2. a \in Seq(Text) /\ Len(a) = k - 1 /\ \A i \in 1..k - 1 : a[i] = s[i]
  BY <1>1
<1>3. b \in Seq(Text) /\ Len(b) = n - k + 1 /\ \A i \in 1..n - k + 1 : b[i] = s[k + i - 1]
  BY <1>1
<1>4. <<c>> \in Seq(Text) /\ Len(<<c>>) = 1 /\ <<c>>[1] = c
  OBVIOUS
<1>5. InsertAt(s, k, c) = (a \o <<c>>) \o b
  BY DEF InsertAt
<1> HIDE DEF a, b, n
<1> DEFINE d == a \o <<c>>
<1>6. /\ d \in Seq(Text) /\ Len(d) = k
      /\ \A i \in 1..k : d[i] = IF i <= k - 1 THEN a[i] ELSE c
  <2>1. /\ d \in Seq(Text) /\ Len(d) = (k - 1) + 1
        /\ \A i \in 1..(k - 1) + 1 : d[i] = IF i <= k - 1 THEN a[i] ELSE <<c>>[i - (k - 1)]
    BY <1>2, <1>4, ConcatProperties
  <2>2. (k - 1) + 1 = k /\ \A i \in 1..k : i <= k - 1 \/ i - (k - 1) = 1
    BY <1>1
  <2> HIDE DEF d
  <2> QED  BY <1>4, <2>1, <2>2
<1> HIDE DEF d
<1>7. /\ d \o b \in Seq(Text) /\ Len(d \o b) = k + (n - k + 1)
      /\ \A i \in 1..k + (n - k + 1) : (d \o b)[i] = IF i <= k THEN d[i] ELSE b[i - k]
  <2>1. d \in Seq(Text) /\ b \in Seq(Text) /\ Len(d) = k /\ Len(b) = n - k + 1
    BY <1>3, <1>6
  <2>2. /\ d \o b \in Seq(Text) /\ Len(d \o b) = Len(d) + Len(b)
        /\ \A i \in 1..Len(d) + Len(b) :
             (d \o b)[i] = IF i <= Len(d) THEN d[i] ELSE b[i - Len(d)]
    BY <2>1, ConcatProperties
  <2> QED  BY <2>1, <2>2
<1>8. k + (n - k + 1) = n + 1
  BY <1>1
<1>9. ASSUME NEW i \in 1..n + 1
      PROVE  (d \o b)[i] = IF i < k THEN s[i] ELSE IF i = k THEN c ELSE s[i - 1]
  <2>1. (d \o b)[i] = IF i <= k THEN d[i] ELSE b[i - k]
    BY <1>7, <1>8
  <2>2. CASE i < k
    BY <1>1, <1>2, <1>6, <2>1, <2>2
  <2>3. CASE i = k
    BY <1>1, <1>6, <2>1, <2>3
  <2>4. CASE i > k
    <3>1. i - k \in 1..n - k + 1 /\ k + (i - k) - 1 = i - 1 /\ ~(i <= k)
      BY <1>1, <2>4
    <3>2. (d \o b)[i] = b[i - k] /\ b[i - k] = s[k + (i - k) - 1]
      BY <1>3, <2>1, <3>1
    <3>3. (d \o b)[i] = s[i - 1]
      BY <3>1, <3>2, Zenon
    <3>4. ~(i < k) /\ i # k
      BY <1>1, <2>4
    <3> QED  BY <3>3, <3>4, Zenon
  <2>5. i < k \/ i = k \/ i > k
    BY <1>1
  <2> QED  BY <2>2, <2>3, <2>4, <2>5, Zenon
<1> QED  BY <1>5, <1>7, <1>8, <1>9 DEF n, d

LEMMA RemoveAtIs ==
  ASSUME NEW S, NEW s \in Seq(S), NEW k \in 1..Len(s)
  PROVE  /\ RemoveAt(s, k) \in Seq(S) /\ Len(RemoveAt(s, k)) = Len(s) - 1
         /\ \A i \in 1..Len(s) - 1 : RemoveAt(s, k)[i] = IF i < k THEN s[i] ELSE s[i + 1]
<1> DEFINE n == Len(s)
           a == SubSeq(s, 1, k - 1)
           b == SubSeq(s, k + 1, n)
<1>1. n \in Nat /\ k \in Nat /\ 1 <= k /\ k <= n
  OBVIOUS
<1>2. a \in Seq(S) /\ Len(a) = k - 1 /\ \A i \in 1..k - 1 : a[i] = s[i]
  BY <1>1
<1>3. b \in Seq(S) /\ Len(b) = n - k /\ \A i \in 1..n - k : b[i] = s[k + i]
  BY <1>1
<1>4. RemoveAt(s, k) = a \o b
  BY DEF RemoveAt
<1> HIDE DEF a, b, n
<1>5. /\ a \o b \in Seq(S) /\ Len(a \o b) = (k - 1) + (n - k)
      /\ \A i \in 1..(k - 1) + (n - k) :
           (a \o b)[i] = IF i <= k - 1 THEN a[i] ELSE b[i - (k - 1)]
  <2>1. a \in Seq(S) /\ b \in Seq(S) /\ Len(a) = k - 1 /\ Len(b) = n - k
    BY <1>2, <1>3
  <2>2. /\ a \o b \in Seq(S) /\ Len(a \o b) = Len(a) + Len(b)
        /\ \A i \in 1..Len(a) + Len(b) :
             (a \o b)[i] = IF i <= Len(a) THEN a[i] ELSE b[i - Len(a)]
    BY <2>1, ConcatProperties
  <2> QED  BY <2>1, <2>2
<1>6. (k - 1) + (n - k) = n - 1
  BY <1>1
<1>7. ASSUME NEW i \in 1..n - 1  PROVE (a \o b)[i] = IF i < k THEN s[i] ELSE s[i + 1]
  <2>1. (a \o b)[i] = IF i <= k - 1 THEN a[i] ELSE b[i - (k - 1)]
    BY <1>5, <1>6
  <2>2. CASE i < k
    BY <1>1, <1>2, <2>1, <2>2
  <2>3. CASE ~(i < k)
    <3>1. i - (k - 1) \in 1..n - k /\ k + (i - (k - 1)) = i + 1 /\ ~(i <= k - 1)
      BY <1>1, <2>3
    <3> QED  BY <1>3, <2>1, <2>3, <3>1
  <2> QED  BY <2>2, <2>3
<1> QED  BY <1>4, <1>5, <1>6, <1>7 DEF n
-----------------------------------------------------------------------------
LEMMA KnownIs ==
  ASSUME NEW e \in Finsh_t
  PROVE  /\ Known(e) \in Seq(Seq(Text)) /\ Len(Known(e)) = e.history_count
         /\ \A h \in 1..e.history_count : Known(e)[h] = String(e.cmd_history[h - 1])
<1>1. /\ e.history_count \in Nat /\ e.history_count <= FINSH_HISTORY_LINES
      /\ \A h \in 0..FINSH_HISTORY_LINES - 1 : e.cmd_history[h] \in Line_t
  BY Sizes DEF Finsh_t, Ended_t
<1>2. \A h \in 1..e.history_count : h - 1 \in 0..FINSH_HISTORY_LINES - 1
  BY <1>1, Sizes
<1>3. \A h \in 1..e.history_count : String(e.cmd_history[h - 1]) \in Seq(Text)
  BY <1>1, <1>2, StringIs
<1>4. Known(e) \in [1..e.history_count -> Seq(Text)]
  BY <1>3 DEF Known
<1>5. Known(e) \in Seq(Seq(Text))
  BY <1>1, <1>4, SeqDef
<1> QED  BY <1>1, <1>4, <1>5 DEF Known

(* Nothing is known of a line but its history.                             *)
LEMMA SameKnown ==
  ASSUME NEW e, NEW f, SameHistory(f, e)
  PROVE  /\ Known(f) = Known(e) /\ f.current_history = e.current_history
         /\ Tidy(e) /\ Stale(f) => Tidy(f)
BY DEF SameHistory, Known, Tidy

(* A line that leaves a character behind it has one in the last place, so  *)
(* that it is not mistaken for a command that is remembered.               *)
LEMMA LastTells ==
  ASSUME NEW e, Stale(e), e.line[FINSH_CMD_SIZE - 1] = Nul  PROVE LineEnds(e)
<1>1. \A i \in Index : FINSH_CMD_SIZE - 1 >= i
  BY Sizes
<1> QED  BY <1>1, Sizes DEF LineEnds, Stale

(* Where the array holds a Nul, the string is what is before the position. *)
LEMMA PositionIs ==
  ASSUME NEW e, ShellOK(e), Stale(e), Ends(e.line)
  PROVE  e.line_position = strlen(e.line)
<1>1. /\ e.line \in Line_t /\ e.line_position \in Index /\ e.line_position \in Nat
      /\ e.line_position \in 0..FINSH_CMD_SIZE
      /\ \A i \in Index : i < e.line_position => e.line[i] # Nul
  BY Sizes DEF ShellOK, Finsh_t
<1>2. PICK k \in Index : e.line[k] = Nul
  BY DEF Ends
<1>3. k >= e.line_position /\ e.line_position >= e.line_position
  BY <1>1, <1>2, Sizes
<1>4. e.line[e.line_position] = Nul
  BY <1>1, <1>2, <1>3 DEF Stale
<1>5. strlen(e.line) = e.line_position
  BY <1>1, <1>4, StrlenIs
<1> QED  BY <1>5

(* Insert puts a character into the text, or gives it up.                  *)
TextTyped(f, e, c) ==
  \/ /\ Len(TextOf(e)) < FINSH_CMD_SIZE - 1
     /\ TextOf(f) = InsertAt(TextOf(e), e.line_curpos + 1, c)
     /\ f.line_curpos = e.line_curpos + 1
  \/ Len(TextOf(e)) = FINSH_CMD_SIZE - 1 /\ TextOf(f) = <<>> /\ f.line_curpos = 0

LEMMA InsertedText ==
  ASSUME NEW e, NEW f, NEW c \in Text, ShellOK(e), ShellOK(f), Inserted(f, e, c)
  PROVE  TextTyped(f, e, c) /\ Known(f) = Known(e) /\ (Tidy(e) => Tidy(f))
<1> DEFINE p == e.line_position
           k == e.line_curpos + 1
           s == TextOf(e)
           t == TextOf(f)
<1>1. /\ p \in Nat /\ p < FINSH_CMD_SIZE /\ k \in Nat /\ 1 <= k /\ k <= p + 1
  BY Sizes DEF ShellOK, Finsh_t
<1>2. s \in Seq(Text) /\ Len(s) = p /\ \A i \in 1..p : s[i] = e.line[i - 1]
  BY TextIs
<1>3. t \in Seq(Text) /\ Len(t) = f.line_position
      /\ \A i \in 1..f.line_position : t[i] = f.line[i - 1]
  BY TextIs
<1>4. CASE p + 1 < FINSH_CMD_SIZE
  <2>1. /\ f.line_position = p + 1 /\ f.line_curpos = k /\ SameHistory(f, e)
        /\ \A i \in 1..f.line_position :
             f.line[i - 1] = IF i < k THEN e.line[i - 1]
                             ELSE IF i = k THEN c ELSE e.line[i - 2]
        /\ \A i \in Index : i >= f.line_position => f.line[i] = e.line[i]
    BY <1>1, <1>4, Sizes DEF Inserted
  <2> HIDE DEF p, k, s, t
  <2>2. k \in 1..Len(s) + 1
    BY <1>1, <1>2
  <2> DEFINE r == InsertAt(s, k, c)
  <2>3. /\ r \in Seq(Text) /\ Len(r) = p + 1
        /\ \A i \in 1..p + 1 : r[i] = IF i < k THEN s[i] ELSE IF i = k THEN c ELSE s[i - 1]
    <3>1. s \in Seq(Text) /\ Len(s) = p
      BY <1>2
    <3>2. /\ r \in Seq(Text) /\ Len(r) = Len(s) + 1
          /\ \A i \in 1..Len(s) + 1 :
               r[i] = IF i < k THEN s[i] ELSE IF i = k THEN c ELSE s[i - 1]
      BY <2>2, <3>1, InsertAtIs
    <3> HIDE DEF r
    <3> QED  BY <3>1, <3>2
  <2> HIDE DEF r
  <2>4. ASSUME NEW i \in 1..p + 1  PROVE t[i] = r[i]
    <3>1. t[i] = IF i < k THEN e.line[i - 1] ELSE IF i = k THEN c ELSE e.line[i - 2]
      BY <1>3, <2>1
    <3>2. CASE i < k
      BY <1>1, <1>2, <2>3, <3>1, <3>2
    <3>3. CASE i = k
      BY <1>1, <2>3, <3>1, <3>3
    <3>4. CASE i > k
      <4>1. i - 1 \in 1..p /\ (i - 1) - 1 = i - 2 /\ ~(i < k) /\ i # k
        BY <1>1, <3>4
      <4>2. s[i - 1] = e.line[i - 2]
        BY <1>2, <4>1
      <4> QED  BY <2>3, <3>1, <4>1, <4>2
    <3>5. i < k \/ i = k \/ i > k
      BY <1>1
    <3> QED  BY <3>2, <3>3, <3>4, <3>5, Zenon
  <2>5. t = r
    BY <1>3, <2>1, <2>3, <2>4, SeqEqual
  <2>6. Len(s) < FINSH_CMD_SIZE - 1
    BY <1>1, <1>2, <1>4, Sizes
  <2>7. TextTyped(f, e, c)
    BY <2>1, <2>5, <2>6 DEF TextTyped, r, s, t, k
  <2>8. ASSUME Tidy(e)  PROVE Stale(f)
    <3>1. \A i, j \in Index : i >= p + 1 /\ j >= i => i >= p /\ j >= p + 1
      BY <1>1, Sizes
    <3>2. Stale(e)
      BY <2>8 DEF Tidy
    <3> QED  BY <2>1, <3>1, <3>2 DEF Stale, p
  <2> QED  BY <2>1, <2>7, <2>8, SameKnown
<1>5. CASE ~(p + 1 < FINSH_CMD_SIZE)
  <2>1. /\ f.line_position = 0 /\ f.line_curpos = 0 /\ SameHistory(f, e)
        /\ Stale(f)
    BY <1>5 DEF Inserted, Stale, Ends
  <2> HIDE DEF p, k, s, t
  <2>2. Len(s) = FINSH_CMD_SIZE - 1
    BY <1>1, <1>2, <1>5, Sizes
  <2>3. t = <<>>
    BY <1>3, <2>1, EmptySeq
  <2>4. TextTyped(f, e, c)
    BY <2>1, <2>2, <2>3 DEF TextTyped, s, t
  <2> QED  BY <2>1, <2>4, SameKnown
<1> QED  BY <1>4, <1>5

(* Backspace removes the character before the cursor.                      *)
LEMMA ErasedText ==
  ASSUME NEW e, NEW f, ShellOK(e), ShellOK(f), Erased(f, e)
  PROVE  /\ TextOf(f) = RemoveAt(TextOf(e), e.line_curpos)
         /\ Known(f) = Known(e) /\ (Tidy(e) => Tidy(f))
<1> DEFINE p == e.line_position
           k == e.line_curpos
           s == TextOf(e)
           t == TextOf(f)
<1>1. /\ p \in Nat /\ p < FINSH_CMD_SIZE /\ k \in Nat /\ 1 <= k /\ k <= p
      /\ p \in Index /\ p - 1 \in Index
  BY Sizes DEF ShellOK, Finsh_t, Erased
<1>2. s \in Seq(Text) /\ Len(s) = p /\ \A i \in 1..p : s[i] = e.line[i - 1]
  BY TextIs
<1>3. t \in Seq(Text) /\ Len(t) = f.line_position
      /\ \A i \in 1..f.line_position : t[i] = f.line[i - 1]
  BY TextIs
<1>4. /\ f.line_position = p - 1 /\ SameHistory(f, e)
      /\ \A i \in 1..f.line_position :
           f.line[i - 1] = IF i < k THEN e.line[i - 1] ELSE e.line[i]
      /\ f.line[p - 1] = Nul
      /\ \A i \in Index : i >= p => f.line[i] = e.line[i]
  BY DEF Erased
<1> HIDE DEF p, k, s, t
<1> DEFINE r == RemoveAt(s, k)
<1>5. /\ r \in Seq(Text) /\ Len(r) = p - 1
      /\ \A i \in 1..p - 1 : r[i] = IF i < k THEN s[i] ELSE s[i + 1]
  <2>1. k \in 1..Len(s)
    BY <1>1, <1>2
  <2> QED  BY <1>2, <2>1, RemoveAtIs
<1> HIDE DEF r
<1>6. ASSUME NEW i \in 1..p - 1  PROVE t[i] = r[i]
  <2>1. t[i] = IF i < k THEN e.line[i - 1] ELSE e.line[i]
    BY <1>3, <1>4
  <2>2. i \in 1..p /\ i + 1 \in 1..p /\ (i + 1) - 1 = i
    BY <1>1
  <2>3. s[i] = e.line[i - 1] /\ s[i + 1] = e.line[i]
    BY <1>2, <2>2
  <2> QED  BY <1>5, <2>1, <2>3
<1>7. t = r
  BY <1>3, <1>4, <1>5, <1>6, SeqEqual
<1>8. ASSUME Tidy(e)  PROVE Stale(f)
  <2>1. \A i, j \in Index : i >= p - 1 /\ j >= i => i = p - 1 \/ (i >= p /\ j >= p)
    BY <1>1, Sizes
  <2>2. Stale(e)
    BY <1>8 DEF Tidy
  <2> QED  BY <1>4, <2>1, <2>2 DEF Stale, p
<1> QED  BY <1>4, <1>7, <1>8, SameKnown DEF r, s, t, k

(* The text is the command shown, with the cursor at its end.              *)
LEMMA ShownText ==
  ASSUME NEW e, NEW f, NEW h \in 0..e.history_count - 1,
         ShellOK(e), ShellOK(f), Shown(f, e, h)
  PROVE  /\ TextOf(f) = Known(e)[h + 1] /\ f.line_curpos = Len(TextOf(f))
         /\ Known(f) = Known(e) /\ (Tidy(e) => Tidy(f))
<1>1. /\ e.history_count \in Nat /\ e.history_count <= FINSH_HISTORY_LINES
      /\ e \in Finsh_t
  BY Sizes DEF ShellOK, Finsh_t
<1>2. h \in 0..FINSH_HISTORY_LINES - 1 /\ h + 1 \in 1..e.history_count /\ (h + 1) - 1 = h
  BY <1>1, Sizes
<1>3. Known(e)[h + 1] = String(e.cmd_history[h])
  BY <1>1, <1>2, KnownIs
<1>4. /\ f.line = e.cmd_history[h] /\ f.line_position = strlen(f.line)
      /\ f.line_curpos = f.line_position
      /\ f.history_count = e.history_count /\ f.cmd_history = e.cmd_history
  BY DEF Shown
<1>5. TextOf(f) = String(f.line) /\ Len(TextOf(f)) = f.line_position
  BY <1>4, WholeText, TextIs
<1>6. Known(f) = Known(e)
  BY <1>4 DEF Known
<1>7. ASSUME Tidy(e)  PROVE Tidy(f)
  <2>1. ArrayEnds(f.line)
    BY <1>2, <1>4, <1>7 DEF Tidy
  <2>2. Stale(f)
    BY <1>4, <2>1 DEF ArrayEnds, Stale
  <2> QED  BY <1>4, <1>7, <2>2 DEF Tidy
<1> QED  BY <1>3, <1>4, <1>5, <1>6, <1>7

(* Tab completes the line to what all commands that start with it have in  *)
(* common; where a Nul is left, it is the end of that, and what is behind  *)
(* it stays.                                                               *)
Completion(l, r) ==
  \/ r = l /\ \A c \in Commands : String(l) = <<>> \/ ~IsPrefix(String(l), c)
  \/ \E c \in Commands : \E i \in Len(String(l))..Len(c) :
       IsPrefix(String(l), c) /\ String(r) = SubSeq(c, 1, i)

LEMMA CompleteIs ==
  ASSUME NEW l \in Line_t, Ends(msh_auto_complete(l)),
         \A i, j \in Index : i >= strlen(l) /\ j >= i /\ l[i] # Nul => l[j] # Nul
  PROVE  /\ Completion(l, msh_auto_complete(l))
         /\ strlen(msh_auto_complete(l)) >= strlen(l)
         /\ \A i \in Index : i >= strlen(msh_auto_complete(l)) =>
                             msh_auto_complete(l)[i] = l[i]
<1> DEFINE s == String(l)
           m == strlen(l)
           fitting == {c \in Commands : IsPrefix(s, c)}
           common == {n \in 1..FINSH_CMD_SIZE - 1 : \A c, d \in fitting :
                        n <= Len(c) /\ n <= Len(d) /\ SubSeq(c, 1, n) = SubSeq(d, 1, n)}
           some == CHOOSE c \in fitting : TRUE
           n == Cardinality(common)
           r == [i \in Index |-> IF i < n THEN some[i + 1] ELSE l[i]]
<1>0. /\ s \in Seq(Text) /\ Len(s) = m /\ m \in Nat
      /\ \A i \in 1..m : s[i] = l[i - 1]
      /\ \A i \in Index : i < m => l[i] # Nul
      /\ \A i, j \in Index : i >= m /\ j >= i /\ l[i] # Nul => l[j] # Nul
  BY StringIs, Strlen
<1>1. CASE l[0] = Nul \/ fitting = {}
  <2>1. msh_auto_complete(l) = l
    BY <1>1 DEF msh_auto_complete
  <2>2. \A c \in Commands : s = <<>> \/ ~IsPrefix(s, c)
    <3>1. CASE l[0] = Nul
      <4> HIDE DEF s, m
      <4>1. ~(0 < m)
        BY <1>0, <3>1, Sizes
      <4>2. s = <<>>
        BY <1>0, <4>1, EmptySeq
      <4> QED  BY <4>2
    <3>2. CASE fitting = {}
      BY <3>2
    <3> QED  BY <1>1, <3>1, <3>2
  <2>3. m >= m
    BY <1>0
  <2> QED  BY <2>1, <2>2, <2>3 DEF Completion
<1>2. CASE ~(l[0] = Nul \/ fitting = {})
  <2>1. msh_auto_complete(l) = r
    BY <1>2 DEF msh_auto_complete
  <2>2. some \in fitting
    BY <1>2
  <2>3. some \in Commands /\ IsPrefix(s, some)
    BY <2>2
  <2>4. some \in Seq(Text) /\ Len(some) \in 1..FINSH_CMD_SIZE - 1
    BY <2>3, ShellAssumption
  <2>5. common \subseteq 1..Len(some)
    BY <2>2, <2>4
  <2>6. 1..m \subseteq common
    <3> SUFFICES ASSUME NEW i \in 1..m  PROVE i \in common
      OBVIOUS
    <3> HIDE DEF s, m
    <3>1. ASSUME NEW c \in fitting
          PROVE  i <= Len(c) /\ SubSeq(c, 1, i) = SubSeq(s, 1, i)
      <4>1. c \in Seq(Text) /\ Len(c) \in Nat
        BY ShellAssumption
      <4>2. m <= Len(c) /\ SubSeq(s, 1, m) = SubSeq(c, 1, m)
        BY <1>0, <3>1 DEF IsPrefix
      <4>3. i \in Nat /\ 1 <= i /\ i <= m /\ m \in 1..Len(s) /\ m \in 1..Len(c)
        BY <1>0, <4>1, <4>2
      <4>4. SubSeq(SubSeq(s, 1, m), 1, i) = SubSeq(s, 1 + 1 - 1, 1 + i - 1)
        BY <1>0, <4>3, SubSeqOfSubSeq
      <4>5. SubSeq(SubSeq(c, 1, m), 1, i) = SubSeq(c, 1 + 1 - 1, 1 + i - 1)
        BY <4>1, <4>3, SubSeqOfSubSeq
      <4>6. 1 + 1 - 1 = 1 /\ 1 + i - 1 = i
        BY <4>3
      <4> QED  BY <1>0, <4>1, <4>2, <4>3, <4>4, <4>5, <4>6
    <3>2. i \in 1..FINSH_CMD_SIZE - 1
      <4>1. i <= Len(some)
        BY <2>2, <3>1
      <4> QED  BY <1>0, <2>4, <4>1, Sizes
    <3> HIDE DEF fitting
    <3> QED  BY <3>1, <3>2
  <2> HIDE DEF common, some, fitting
  <2>7. ASSUME NEW k \in Nat
        PROVE  IsFiniteSet(1..k) /\ Cardinality(1..k) = k
    <3>1. 1 \in Int /\ k \in Int /\ (1 > k => k = 0) /\ (k - 1) + 1 = k
      OBVIOUS
    <3> QED  BY <3>1, FS_Interval
  <2>8. n \in Nat /\ m <= n /\ n <= Len(some)
    <3>1. /\ IsFiniteSet(1..Len(some)) /\ Cardinality(1..Len(some)) = Len(some)
          /\ Cardinality(1..m) = m /\ Len(some) \in Nat
      BY <1>0, <2>4, <2>7
    <3>2. IsFiniteSet(common) /\ Cardinality(common) <= Cardinality(1..Len(some))
      BY <2>5, <3>1, FS_Subset
    <3>3. Cardinality(1..m) <= Cardinality(common)
      BY <2>6, <3>2, FS_Subset
    <3>4. Cardinality(common) \in Nat
      BY <3>2, FS_CardinalityType
    <3> QED  BY <3>1, <3>2, <3>3, <3>4
  <2> HIDE DEF n, m, s
  <2>9. \A i \in Index : r[i] = IF i < n THEN some[i + 1] ELSE l[i]
    OBVIOUS
  <2>10. \A i \in 1..n : i \in 1..Len(some) /\ some[i] \in Text /\ i - 1 \in Index
    <3> SUFFICES ASSUME NEW i \in 1..n
                 PROVE  i \in 1..Len(some) /\ some[i] \in Text /\ i - 1 \in Index
      OBVIOUS
    <3>1. i \in 1..Len(some) /\ i - 1 \in Index
      BY <2>4, <2>8, Sizes
    <3> QED  BY <2>4, <3>1, ElementOfSeq
  <2>11. \A i \in Index : (i < n => r[i] \in Text) /\ (i >= n => r[i] = l[i])
    <3> SUFFICES ASSUME NEW i \in Index
                 PROVE  (i < n => r[i] \in Text) /\ (i >= n => r[i] = l[i])
      OBVIOUS
    <3>1. i \in Nat
      BY Sizes
    <3>2. i < n => i + 1 \in 1..n
      BY <2>8, <3>1
    <3>3. i >= n => ~(i < n)
      BY <2>8, <3>1
    <3> HIDE DEF r
    <3> QED  BY <1>0, <2>9, <2>10, <3>2, <3>3
  <2>12. r \in Line_t
    <3>1. \A i \in Index : r[i] \in Text \cup {Nul}
      <4> HIDE DEF r
      <4>1. \A i \in Index : i < n \/ i >= n
        BY <2>8, Sizes
      <4> QED  BY <2>11, <4>1 DEF Line_t
    <3> QED  BY <3>1 DEF Line_t
  <2> HIDE DEF r
  <2>13. strlen(r) = n
    <3>1. n \in 0..FINSH_CMD_SIZE /\ (n < FINSH_CMD_SIZE => n \in Index)
      BY <2>4, <2>8, Sizes
    <3>2. \A i \in Index : i < n => r[i] # Nul
      BY <2>11, Sizes
    <3>3. PICK k \in Index : r[k] = Nul
      BY <2>1 DEF Ends
    <3>4. n \in Index /\ n >= n /\ n >= m /\ k >= n
      BY <1>0, <2>4, <2>8, <3>2, <3>3, Sizes
    <3>5. r[n] = l[n] /\ r[k] = l[k]
      BY <2>11, <3>4
    <3>6. r[n] = Nul
      BY <1>0, <3>3, <3>4, <3>5
    <3> QED  BY <2>12, <3>1, <3>2, <3>6, StrlenIs
  <2>14. /\ \A i \in Index : i >= strlen(r) => r[i] = l[i]
         /\ strlen(r) >= m
    BY <1>0, <2>8, <2>11, <2>13
  <2>15. String(r) = SubSeq(some, 1, n)
    <3>1. /\ String(r) \in Seq(Text) /\ Len(String(r)) = n
          /\ \A i \in 1..n : String(r)[i] = r[i - 1]
      BY <2>12, <2>13, StringIs
    <3>2. \A i \in 1..n : r[i - 1] = some[i]
      <4> SUFFICES ASSUME NEW i \in 1..n  PROVE r[i - 1] = some[i]
        OBVIOUS
      <4>1. i - 1 \in Index
        BY <2>10
      <4>2. i - 1 < n /\ (i - 1) + 1 = i
        BY <2>8
      <4> QED  BY <2>9, <4>1, <4>2
    <3>3. /\ SubSeq(some, 1, n) \in Seq(Text) /\ Len(SubSeq(some, 1, n)) = n
          /\ \A i \in 1..n : SubSeq(some, 1, n)[i] = some[i]
      BY <2>4, <2>8
    <3> QED  BY <3>1, <3>2, <3>3, SeqEqual
  <2>16. n \in Len(s)..Len(some)
    BY <1>0, <2>4, <2>8
  <2>17. Completion(l, r)
    BY <2>3, <2>15, <2>16 DEF Completion, s
  <2> QED  BY <2>1, <2>14, <2>17 DEF m
<1> QED  BY <1>1, <1>2

LEMMA CompletedText ==
  ASSUME NEW e, NEW f, ShellOK(e), ShellOK(f), Tidy(e), Completed(f, e)
  PROVE  /\ f.line_curpos = Len(TextOf(f)) /\ Known(f) = Known(e)
         /\ \/ /\ TextOf(f) = TextOf(e)
               /\ \A c \in Commands : TextOf(e) = <<>> \/ ~IsPrefix(TextOf(e), c)
            \/ \E c \in Commands : \E i \in Len(TextOf(e))..Len(c) :
                 IsPrefix(TextOf(e), c) /\ TextOf(f) = SubSeq(c, 1, i)
         /\ Tidy(f)
<1>1. e.line \in Line_t /\ f.line_position \in Nat /\ e.line_position \in Nat /\ Stale(e)
  BY Sizes DEF ShellOK, Finsh_t, Tidy
<1>2. /\ f.line = msh_auto_complete(e.line) /\ SameHistory(f, e) /\ Ends(f.line)
      /\ f.line_position = strlen(f.line) /\ f.line_curpos = f.line_position
  BY DEF Completed
<1>3. TextOf(f) = String(f.line) /\ Len(TextOf(f)) = f.line_position
  BY <1>2, WholeText, TextIs
<1>4. e.line_position = strlen(e.line) /\ TextOf(e) = String(e.line)
  <2>1. Ends(e.line)
    BY <1>1, <1>2, CompleteType
  <2> QED  BY <1>1, <2>1, PositionIs, WholeText
<1>5. /\ Completion(e.line, f.line) /\ f.line_position >= e.line_position
      /\ \A i \in Index : i >= f.line_position => f.line[i] = e.line[i]
  <2>1. \A i, j \in Index :
          i >= strlen(e.line) /\ j >= i /\ e.line[i] # Nul => e.line[j] # Nul
    BY <1>1, <1>4 DEF Stale
  <2> QED  BY <1>1, <1>2, <1>4, <2>1, CompleteIs
<1>6. Stale(f)
  <2>1. \A i, j \in Index : i >= f.line_position /\ j >= i
                            => i >= e.line_position /\ j >= f.line_position
    BY <1>1, <1>5, Sizes
  <2> QED  BY <1>1, <1>5, <2>1 DEF Stale
<1>7. Known(f) = Known(e) /\ Tidy(f)
  BY <1>2, <1>6, SameKnown
<1> QED  BY <1>2, <1>3, <1>4, <1>5, <1>7 DEF Completion

(* What is remembered of the line is its text, with nothing behind it.     *)
LEMMA FirstOfText ==
  ASSUME NEW e, ShellOK(e)
  PROVE  /\ String(FirstOf(e.line, e.line_position)) = TextOf(e)
         /\ ArrayEnds(FirstOf(e.line, e.line_position))
<1> DEFINE p == e.line_position
           l == FirstOf(e.line, p)
<1>1. /\ e.line \in Line_t /\ p \in Index /\ p \in Nat /\ p < FINSH_CMD_SIZE
      /\ p \in 0..FINSH_CMD_SIZE
      /\ \A i \in Index : i < p => e.line[i] # Nul
  BY Sizes DEF ShellOK, Finsh_t
<1>2. l \in Line_t /\ \A i \in Index : l[i] = IF i < p THEN e.line[i] ELSE Nul
  BY <1>1, FirstOfEnds DEF Ended_t, FirstOf
<1> HIDE DEF l
<1>3. strlen(l) = p
  <2>1. \A i \in Index : i < p => l[i] # Nul
    BY <1>1, <1>2
  <2>2. l[p] = Nul
    BY <1>1, <1>2
  <2> QED  BY <1>1, <1>2, <2>1, <2>2, StrlenIs
<1>4. ArrayEnds(l)
  <2>1. \A i \in Index : i >= p => ~(i < p)
    BY <1>1, Sizes
  <2> QED  BY <1>2, <1>3, <2>1 DEF ArrayEnds
<1>5. /\ String(l) \in Seq(Text) /\ Len(String(l)) = p
      /\ \A i \in 1..p : String(l)[i] = l[i - 1]
  BY <1>2, <1>3, StringIs
<1>6. /\ TextOf(e) \in Seq(Text) /\ Len(TextOf(e)) = p
      /\ \A i \in 1..p : TextOf(e)[i] = e.line[i - 1]
  BY TextIs
<1> HIDE DEF p
<1>7. \A i \in 1..p : i - 1 \in Index /\ i - 1 < p
  BY <1>1, Sizes
<1>8. \A i \in 1..p : String(l)[i] = TextOf(e)[i]
  BY <1>2, <1>5, <1>6, <1>7
<1>9. String(l) = TextOf(e)
  BY <1>5, <1>6, <1>8, SeqEqual
<1> QED  BY <1>4, <1>9 DEF l, p

(* Enter remembers the text, unless it is empty or the last command again: *)
(* two arrays are equal only when their texts are.                         *)
Remembered(f, e) ==
  \/ /\ TextOf(e) # <<>>
     /\ LET all == Append(Known(e), TextOf(e))
        IN  Known(f) = IF Len(all) > FINSH_HISTORY_LINES THEN Tail(all) ELSE all
  \/ TextOf(e) = <<>> /\ Known(f) = Known(e)
  \/ Known(e) # <<>> /\ Last(Known(e)) = TextOf(e) /\ Known(f) = Known(e)

LEMMA EnteredText ==
  ASSUME NEW e, NEW f, ShellOK(e), ShellOK(f), Tidy(e), Entered(f, e)
  PROVE  /\ TextOf(f) = <<>> /\ f.line_curpos = 0 /\ f.current_history = Len(Known(f))
         /\ Remembered(f, e) /\ Tidy(f)
<1> DEFINE n == e.history_count
           s == Known(e)
           t == Known(f)
           x == TextOf(e)
<1>1. /\ e \in Finsh_t /\ f \in Finsh_t /\ n \in Nat /\ n <= FINSH_HISTORY_LINES
      /\ e.line_position \in Nat
      /\ \A h \in 0..FINSH_HISTORY_LINES - 1 : e.cmd_history[h] \in Ended_t
  BY Sizes DEF ShellOK, Finsh_t
<1>2. /\ f.line = Empty /\ f.line_position = 0 /\ f.line_curpos = 0
      /\ f.current_history = f.history_count /\ Pushed(f, e)
  BY DEF Entered
<1>3. /\ s \in Seq(Seq(Text)) /\ Len(s) = n
      /\ \A h \in 1..n : s[h] = String(e.cmd_history[h - 1])
  BY <1>1, KnownIs
<1>4. /\ t \in Seq(Seq(Text)) /\ Len(t) = f.history_count
      /\ \A h \in 1..f.history_count : t[h] = String(f.cmd_history[h - 1])
  BY <1>1, KnownIs
<1>5. x \in Seq(Text) /\ Len(x) = e.line_position
  BY TextIs
<1>6. TextOf(f) = <<>>
  BY <1>2, TextIs, EmptySeq
<1>7. Stale(f)
  BY <1>2 DEF Stale, Empty
<1>8. CASE /\ e.line_position = 0 \/ Again(e)
           /\ f.cmd_history = e.cmd_history /\ f.history_count = e.history_count
  <2>1. t = s
    BY <1>8 DEF Known
  <2>2. Tidy(f)
    BY <1>7, <1>8 DEF Tidy
  <2>3. ASSUME e.line_position # 0  PROVE s # <<>> /\ Last(s) = x
    <3>1. n > 0 /\ e.cmd_history[n - 1] = e.line
      BY <1>8, <2>3 DEF Again
    <3> HIDE DEF n, s, x
    <3>2. n \in 1..n /\ n - 1 \in 0..FINSH_HISTORY_LINES - 1
      BY <1>1, <3>1, Sizes
    <3>3. s # <<>> /\ s[n] = String(e.line)
      BY <1>3, <3>1, <3>2
    <3>4. e.line[FINSH_CMD_SIZE - 1] = Nul
      BY <1>1, <3>1, <3>2 DEF Ended_t
    <3>5. LineEnds(e)
      BY <3>4, LastTells DEF Tidy
    <3>6. x = String(e.line)
      BY <3>5, WholeText DEF x
    <3> QED  BY <1>3, <3>3, <3>6 DEF Last
  <2>4. e.line_position = 0 => x = <<>>
    BY <1>5, EmptySeq
  <2>5. Remembered(f, e)
    <3> HIDE DEF n
    <3> QED  BY <2>1, <2>3, <2>4 DEF Remembered
  <2> QED  BY <1>2, <1>4, <1>6, <2>2, <2>5
<1>9. CASE /\ e.line_position # 0
           /\ f.history_count = IF e.history_count = FINSH_HISTORY_LINES THEN e.history_count
                                ELSE e.history_count + 1
           /\ f.cmd_history = WithLine(e, f.history_count)
  <2> DEFINE full == n = FINSH_HISTORY_LINES
             k == f.history_count
             l == FirstOf(e.line, e.line_position)
             all == Append(s, x)
             r == IF full THEN Tail(all) ELSE all
  <2>1. String(l) = x /\ ArrayEnds(l)
    BY FirstOfText
  <2>2. /\ k = IF full THEN n ELSE n + 1
        /\ k \in Nat /\ 1 <= k /\ k <= FINSH_HISTORY_LINES
    BY <1>1, <1>9, Sizes
  <2>3. \A h \in 0..FINSH_HISTORY_LINES - 1 :
          f.cmd_history[h] = IF h = k - 1 THEN l
                             ELSE IF full THEN e.cmd_history[h + 1] ELSE e.cmd_history[h]
    BY <1>9 DEF WithLine
  <2>4. x # <<>>
    BY <1>5, <1>9
  <2> HIDE DEF n, s, t, x, l, k
  <2>5. /\ all \in Seq(Seq(Text)) /\ Len(all) = n + 1 /\ all # <<>>
        /\ \A h \in 1..n : all[h] = s[h]
        /\ all[n + 1] = x
    BY <1>3, <1>5, AppendProperties
  <2> HIDE DEF all
  <2>6. full <=> Len(all) > FINSH_HISTORY_LINES
    BY <1>1, <2>5, Sizes
  <2>7. ASSUME NEW h \in 1..k
        PROVE  t[h] = IF h = k THEN x ELSE IF full THEN s[h + 1] ELSE s[h]
    <3>1. t[h] = String(f.cmd_history[h - 1])
      BY <1>4 DEF k
    <3>2. h - 1 \in 0..FINSH_HISTORY_LINES - 1 /\ (h - 1) + 1 = h /\ (h - 1 = k - 1 <=> h = k)
      BY <2>2, Sizes
    <3>3. CASE h = k
      BY <2>1, <2>3, <3>1, <3>2, <3>3
    <3>4. CASE h # k /\ full
      <4>1. f.cmd_history[h - 1] = e.cmd_history[h]
        BY <2>3, <3>2, <3>4
      <4>2. h + 1 \in 1..n /\ (h + 1) - 1 = h
        BY <1>1, <2>2, <3>4
      <4> QED  BY <1>3, <3>1, <3>4, <4>1, <4>2
    <3>5. CASE h # k /\ ~full
      <4>1. f.cmd_history[h - 1] = e.cmd_history[h - 1]
        BY <2>3, <3>2, <3>5
      <4>2. h \in 1..n
        BY <1>1, <2>2, <3>5
      <4> QED  BY <1>3, <3>1, <3>5, <4>1, <4>2
    <3> QED  BY <3>3, <3>4, <3>5
  <2>8. t = r
    <3>1. CASE full
      <4>1. /\ Tail(all) \in Seq(Seq(Text)) /\ Len(Tail(all)) = Len(all) - 1
            /\ \A h \in 1..Len(Tail(all)) : Tail(all)[h] = all[h + 1]
        BY <2>5, HeadTailProperties
      <4>2. Len(Tail(all)) = n /\ k = n
        BY <1>1, <2>2, <2>5, <3>1, <4>1
      <4>3. ASSUME NEW h \in 1..n  PROVE t[h] = Tail(all)[h]
        <5>1. Tail(all)[h] = all[h + 1]
          BY <4>1, <4>2
        <5>2. CASE h = n
          BY <2>5, <2>7, <4>2, <5>1, <5>2
        <5>3. CASE h # n
          <6>1. h + 1 \in 1..n
            BY <1>1, <5>3
          <6> QED  BY <2>5, <2>7, <3>1, <4>2, <5>1, <5>3, <6>1
        <5> QED  BY <5>2, <5>3
      <4>4. t = Tail(all)
        BY <1>4, <4>1, <4>2, <4>3, SeqEqual DEF k
      <4> QED  BY <3>1, <4>4
    <3>2. CASE ~full
      <4>1. k = n + 1
        BY <2>2, <3>2
      <4>2. ASSUME NEW h \in 1..n + 1  PROVE t[h] = all[h]
        <5>1. CASE h = n + 1
          BY <2>5, <2>7, <4>1, <5>1
        <5>2. CASE h # n + 1
          <6>1. h \in 1..n
            BY <1>1, <5>2
          <6> QED  BY <2>5, <2>7, <3>2, <4>1, <5>2, <6>1
        <5> QED  BY <5>1, <5>2
      <4>3. t = all
        BY <1>4, <2>5, <4>1, <4>2, SeqEqual DEF k
      <4> QED  BY <3>2, <4>3
    <3> QED  BY <3>1, <3>2
  <2>9. Remembered(f, e)
    <3> HIDE DEF r
    <3>1. t = IF Len(all) > FINSH_HISTORY_LINES THEN Tail(all) ELSE all
      BY <2>6, <2>8 DEF r
    <3> QED  BY <2>4, <3>1 DEF Remembered, all, s, t, x
  <2>10. Tidy(f)
    <3>1. \A h \in 0..FINSH_HISTORY_LINES - 1 : ArrayEnds(e.cmd_history[h])
      BY DEF Tidy
    <3>2. ASSUME NEW h \in 0..FINSH_HISTORY_LINES - 1  PROVE ArrayEnds(f.cmd_history[h])
      <4>1. CASE h = k - 1
        BY <2>1, <2>3, <4>1
      <4>2. CASE h # k - 1 /\ full
        <5>1. h + 1 \in 0..FINSH_HISTORY_LINES - 1
          BY <2>2, <4>2, Sizes
        <5> QED  BY <2>3, <3>1, <4>2, <5>1
      <4>3. CASE h # k - 1 /\ ~full
        BY <2>3, <3>1, <4>3
      <4> QED  BY <4>1, <4>2, <4>3
    <3> QED  BY <1>7, <3>2 DEF Tidy
  <2> QED  BY <1>2, <1>4, <1>6, <2>9, <2>10 DEF t
<1> QED  BY <1>2, <1>8, <1>9 DEF Pushed
-----------------------------------------------------------------------------
(* A turn of finsh_thread_entry is what Prompt allows, or nothing that is  *)
(* seen at the prompt.                                                     *)
LEMMA TurnEdits ==
  ASSUME ShellOK(shell), ShellOK(shell'), Tidy(shell),
         NEW c, Turned(shell', shell, c)
  PROVE  Tidy(shell') /\ (AtPrompt!Next \/ UNCHANGED AtPrompt!vars)
<1> DEFINE e == shell
           f == shell'
<1>1. CASE Untouched(f, e)
  <2>1. /\ f.line = e.line /\ f.line_position = e.line_position
        /\ f.line_curpos = e.line_curpos /\ f.current_history = e.current_history
        /\ f.history_count = e.history_count /\ f.cmd_history = e.cmd_history
    BY <1>1 DEF Untouched, SameLine, SameHistory
  <2>2. Tidy(f)
    BY <2>1 DEF Tidy, Stale
  <2>3. UNCHANGED AtPrompt!vars
    BY <2>1 DEF AtPrompt!vars
  <2> QED  BY <2>2, <2>3
<1>2. CASE Erased(f, e)
  <2>1. /\ TextOf(f) = RemoveAt(TextOf(e), e.line_curpos)
        /\ Known(f) = Known(e) /\ Tidy(f)
    BY <1>2, ErasedText
  <2>2. /\ e.line_curpos > 0 /\ f.line_curpos = e.line_curpos - 1
        /\ f.current_history = e.current_history
    BY <1>2 DEF Erased, SameHistory
  <2>3. AtPrompt!Erase
    BY <2>1, <2>2 DEF AtPrompt!Erase, AtPrompt!RemoveAt, RemoveAt, TextOf, Known
  <2> QED  BY <2>1, <2>3 DEF AtPrompt!Next
<1>3. CASE Entered(f, e)
  <2>1. /\ TextOf(f) = <<>> /\ f.line_curpos = 0 /\ f.current_history = Len(Known(f))
        /\ Remembered(f, e) /\ Tidy(f)
    BY <1>3, EnteredText
  <2>2. AtPrompt!Enter
    BY <2>1, Zenon DEF AtPrompt!Enter, AtPrompt!Last, Last, Remembered, TextOf, Known
  <2> QED  BY <2>1, <2>2 DEF AtPrompt!Next
<1>4. CASE Moved(f, e)
  <2>1. ASSUME NEW h \in {e.current_history - 1, e.current_history + 1, e.history_count - 1}
                         \cap 0..e.history_count - 1,
               Shown(f, e, h)
        PROVE  Tidy(f) /\ AtPrompt!Next
    <3>1. /\ TextOf(f) = Known(e)[h + 1] /\ f.line_curpos = Len(TextOf(f))
          /\ Known(f) = Known(e) /\ Tidy(f)
      BY <2>1, ShownText
    <3>2. f.current_history = h
      BY <2>1 DEF Shown
    <3>3. Len(Known(e)) = e.history_count
      BY KnownIs DEF ShellOK
    <3>4. AtPrompt!Recall
      BY <3>1, <3>2, <3>3 DEF AtPrompt!Recall, TextOf, Known
    <3> QED  BY <3>1, <3>4 DEF AtPrompt!Next
  <2>2. CASE /\ f.line_curpos \in {e.line_curpos - 1, e.line_curpos + 1} \cap 0..e.line_position
             /\ SameLine(f, e)
    <3>1. /\ f.line = e.line /\ f.line_position = e.line_position
          /\ f.current_history = e.current_history
          /\ f.history_count = e.history_count /\ f.cmd_history = e.cmd_history
      BY <2>2 DEF SameLine, SameHistory
    <3>2. Tidy(f)
      BY <3>1 DEF Tidy, Stale
    <3>3. Len(TextOf(e)) = e.line_position
      BY TextIs
    <3>4. AtPrompt!Move
      BY <2>2, <3>1, <3>3 DEF AtPrompt!Move, TextOf
    <3> QED  BY <3>2, <3>4 DEF AtPrompt!Next
  <2> QED  BY <1>1, <1>4, <2>1, <2>2 DEF Moved
<1>5. CASE c \in Text /\ Inserted(f, e, c)
  <2>1. /\ TextTyped(f, e, c) /\ Known(f) = Known(e) /\ Tidy(f)
        /\ f.current_history = e.current_history
    BY <1>5, InsertedText DEF Inserted, SameHistory
  <2>2. AtPrompt!Type(c) \/ AtPrompt!TypeTooMuch
    BY <2>1 DEF AtPrompt!Type, AtPrompt!TypeTooMuch, AtPrompt!InsertAt, InsertAt,
                TextTyped, TextOf, Known
  <2> QED  BY <1>5, <2>1, <2>2 DEF AtPrompt!Next
<1>6. CASE Completed(f, e)
  <2>1. /\ f.line_curpos = Len(TextOf(f)) /\ Known(f) = Known(e)
        /\ \/ /\ TextOf(f) = TextOf(e)
              /\ \A d \in Commands : TextOf(e) = <<>> \/ ~IsPrefix(TextOf(e), d)
           \/ \E d \in Commands : \E i \in Len(TextOf(e))..Len(d) :
                IsPrefix(TextOf(e), d) /\ TextOf(f) = SubSeq(d, 1, i)
        /\ Tidy(f) /\ f.current_history = e.current_history
    BY <1>6, CompletedText DEF Completed, SameHistory
  <2>2. AtPrompt!Complete \/ AtPrompt!NothingToComplete
    BY <2>1 DEF AtPrompt!Complete, AtPrompt!NothingToComplete, AtPrompt!IsPrefix, IsPrefix,
                TextOf, Known
  <2> QED  BY <2>1, <2>2 DEF AtPrompt!Next
<1> QED  BY <1>1, <1>2, <1>3, <1>4, <1>5, <1>6 DEF Turned

(* At start the text is empty and nothing is remembered.                   *)
LEMMA InitTidy == ASSUME Init PROVE Tidy(shell) /\ AtPrompt!Init
<1>1. /\ shell.line = Empty /\ shell.line_position = 0 /\ shell.line_curpos = 0
      /\ shell.cmd_history = [h \in 0..FINSH_HISTORY_LINES - 1 |-> Empty]
      /\ shell.history_count = 0 /\ shell.current_history = 0
  BY DEF Init, finsh_system_init
<1>2. ArrayEnds(Empty) /\ Stale(shell)
  BY <1>1 DEF ArrayEnds, Stale, Empty
<1>3. Tidy(shell)
  BY <1>1, <1>2 DEF Tidy
<1>4. ShellOK(shell)
  BY InitShell
<1>5. TextOf(shell) = <<>> /\ Known(shell) = <<>>
  <2>1. Len(TextOf(shell)) = 0 /\ TextOf(shell) \in Seq(Text)
    BY <1>1, <1>4, TextIs
  <2>2. Len(Known(shell)) = 0 /\ Known(shell) \in Seq(Seq(Text))
    BY <1>1, <1>4, KnownIs DEF ShellOK
  <2> QED  BY <2>1, <2>2, EmptySeq
<1>6. AtPrompt!Init
  BY <1>1, <1>5 DEF AtPrompt!Init, TextOf, Known
<1> QED  BY <1>3, <1>6

TidySoFar == overread \/ Tidy(shell)

(* What the thread does with a character is one step at the prompt; the    *)
(* interrupt, the ring and the semaphore are not seen there.               *)
LEMMA StepEdits ==
  ASSUME LineInv, overread \/ Tidy(shell), [Next]_vars
  PROVE  overread' \/ (Tidy(shell') /\ (AtPrompt!Next \/ UNCHANGED AtPrompt!vars))
<1>1. CASE shell' = shell /\ overread' = overread
  BY <1>1 DEF AtPrompt!vars
<1>2. CASE Run
  <2> SUFFICES ASSUME ~overread'
               PROVE  Tidy(shell') /\ (AtPrompt!Next \/ UNCHANGED AtPrompt!vars)
    BY Zenon
  <2>1. /\ shell' = finsh_thread_entry(shell, ch) /\ thread = "run"
        /\ overread' = (overread \/ TabOverreads(shell, ch))
    BY <1>2 DEF Run
  <2>2. ~overread /\ ~TabOverreads(shell, ch)
    BY <2>1, Zenon
  <2>3. ch \in Fitting /\ burst \in BOOLEAN /\ ShellOK(shell) /\ Tidy(shell)
    BY <2>1, <2>2, Zenon DEF LineInv, InOrder, OnTheWay
  <2>4. ShellOK(shell') /\ Turned(shell', shell, ch)
    BY <2>1, <2>2, <2>3, TurnKeeps
  <2> QED  BY <2>3, <2>4, TurnEdits
<1> QED  BY <1>1, <1>2
         DEF Next, Isr, Tshell, vars, USART1_IRQHandler, rt_hw_serial_isr, finsh_rx_ind,
             USART_ClearITPendingBit, _serial_int_rx, rt_sem_take, Arrives

(* For a line, a history and commands of any size: the editor's arrays,    *)
(* moved by hand by Insert, Backspace, Tab, Enter and the arrow keys, are a*)
(* text with a cursor and the commands entered before, and each key does to*)
(* them what a person expects of it - until Tab finds no Nul in what a line*)
(* that was too long has left in the array.                                *)
THEOREM EditorImplementsPrompt == Spec => EditsAsExpected
<1>1. Init => IInv /\ LineInv /\ Tidy(shell) /\ AtPrompt!Init
  BY InitIInv, InitLine, InitTidy
<1>2. IInv /\ LineInv /\ [Next]_vars => IInv' /\ LineInv'
  BY StepInv, StepLine
<1>3. LineInv /\ TidySoFar /\ [Next]_vars
      => TidySoFar' /\ [overread' \/ AtPrompt!Next]_(AtPrompt!vars)
  <2> SUFFICES ASSUME LineInv, TidySoFar, [Next]_vars
               PROVE  TidySoFar' /\ [overread' \/ AtPrompt!Next]_(AtPrompt!vars)
    OBVIOUS
  <2>1. overread' \/ (Tidy(shell') /\ (AtPrompt!Next \/ UNCHANGED AtPrompt!vars))
    BY StepEdits, Zenon DEF TidySoFar
  <2> QED  BY <2>1, Zenon DEF TidySoFar
<1>4. Tidy(shell) => TidySoFar
  BY DEF TidySoFar
<1> QED  BY <1>1, <1>2, <1>3, <1>4, PTL DEF Spec, EditsAsExpected
=============================================================================
