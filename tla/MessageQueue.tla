---------------------------- MODULE MessageQueue ----------------------------
(***************************************************************************)
(* Message queues of rtthread/src/ipc.c: messages in a pool of nodes that  *)
(* are linked into the queue or into the list of free nodes.  A sender     *)
(* unlinks a free node, copies its message into it with interrupts enabled *)
(* and links it into the queue; a receiver does the reverse.               *)
(***************************************************************************)
EXTENDS IPC

CONSTANT MaxMsgs      \* max_msgs

ASSUME MessageQueueAssumption == MaxMsgs \in Nat \ {0}

Null == 0             \* RT_NULL
Node == 1..MaxMsgs

rt_mq_init(flag) ==
  [kind |-> "queue", live |-> TRUE, flag |-> flag,
   next |-> [n \in Node |-> n - 1], data |-> [n \in Node |-> NoValue],
   head |-> Null, tail |-> Null, free |-> MaxMsgs, entry |-> 0]

QueueInit == \E flag \in {"FIFO", "PRIO"} : obj = rt_mq_init(flag)

(* The sections of rt_mq_send and rt_mq_urgent.                            *)
Allocate(o) == [o EXCEPT !.free = o.next[o.free]]

Fill(o, n, v, urgent) ==
  [o EXCEPT !.next[n] = IF urgent THEN @ ELSE Null, !.data[n] = v]

Link(o, n) ==
  LET linked == IF o.tail # Null THEN [o EXCEPT !.next[o.tail] = n] ELSE o
  IN  [linked EXCEPT !.tail = n, !.head = IF @ = Null THEN n ELSE @, !.entry = @ + 1]

LinkFirst(o, n) ==
  [o EXCEPT !.next[n] = o.head, !.head = n, !.tail = IF @ = Null THEN n ELSE @, !.entry = @ + 1]

Linked(o, n, urgent) == IF urgent THEN LinkFirst(o, n) ELSE Link(o, n)

(* Mutant: the node is given back before its message is copied. *)
UnlinkReleases(o) ==
  LET u == [o EXCEPT !.head = o.next[o.head], !.tail = IF @ = o.head THEN Null ELSE @, !.entry = @ - 1]
  IN  [u EXCEPT !.next[o.head] = o.free, !.free = o.head]

(* The sections of rt_mq_recv.                                             *)
UnlinkFirst(o) ==
  [o EXCEPT !.head = o.next[o.head], !.tail = IF @ = o.head THEN Null ELSE @, !.entry = @ - 1]

ToFree(o, n) == [o EXCEPT !.next[n] = o.free, !.free = n]

(* rt_mq_send or rt_mq_urgent by a thread.                                 *)
rt_mq_send(t, v, urgent) ==
  /\ User(t) /\ Of("queue") /\ obj.free # Null
  /\ obj' = Allocate(obj)
  /\ call' = [call EXCEPT ![t] = [pc |-> "link", msg |-> obj.free, value |-> v, urgent |-> urgent]]
  /\ UNCHANGED <<k, due>>

(* The node is the sender's alone (NodesApart): that it is filled with      *)
(* interrupts enabled makes no difference to others.                       *)
CopyAndLink(t) ==
  LET c == call[t]
  IN  /\ At(t, "link")
      /\ obj' = Linked(Fill(obj, c.msg, c.value, c.urgent), c.msg, c.urgent)
      /\ k' = WakeOne(k, "receivers")
      /\ call' = [call EXCEPT ![t] = IF NoneWaits("receivers") THEN InUser ELSE ScheduleThen("user")]
      /\ UNCHANGED due

(* The same functions in an interrupt handler.                             *)
rt_mq_send_isr(v, urgent) ==
  LET n == obj.free
  IN  /\ CalledBy(Handler) /\ Of("queue") /\ n # Null
      /\ obj' = Linked(Fill(Allocate(obj), n, v, urgent), n, urgent)
      /\ k' = IF NoneWaits("receivers") THEN k ELSE rt_schedule(WakeOne(k, "receivers"))
      /\ UNCHANGED <<call, due>>

(* The loop of rt_mq_recv.                                                 *)
QueueLoop(t, time) ==
  /\ IF obj.entry > 0
     THEN /\ obj' = UnlinkFirst(obj)
          /\ call' = [call EXCEPT ![t] = [pc |-> "copy", msg |-> obj.head]]
          /\ UNCHANGED k
     ELSE IF time = 0 THEN Return(t) /\ UNCHANGED <<k, obj>>
     ELSE /\ k' = Wait(k, "receivers", t, time)
          /\ call' = [call EXCEPT ![t] = Waiting("get", NoValue, time)]
          /\ UNCHANGED obj
  /\ UNCHANGED due

rt_mq_recv(t, time) == User(t) /\ Of("queue") /\ QueueLoop(t, time)

GetAgain(t) ==
  /\ At(t, "get")
  /\ IF k.error[t] # "EOK" THEN Return(t) /\ UNCHANGED <<k, due, obj>>
     ELSE QueueLoop(t, Left(call[t]))

CopyOut(t) ==
  /\ At(t, "copy")
  /\ call' = [call EXCEPT ![t] = [pc |-> "release", msg |-> @.msg, value |-> obj.data[@.msg]]]
  /\ UNCHANGED <<k, due, obj>>

GiveBack(t) ==
  /\ At(t, "release")
  /\ obj' = ToFree(obj, call[t].msg)
  /\ Return(t)
  /\ UNCHANGED <<k, due>>

(* The nodes of a list from n on, in order.                                *)
ChainFrom(o, n) ==
  LET at[i \in 0..MaxMsgs + 1] == IF i = 0 THEN n ELSE IF at[i - 1] = Null THEN Null ELSE o.next[at[i - 1]]
      ends == {i \in 0..MaxMsgs + 1 : at[i] = Null}
      len  == IF ends = {} THEN MaxMsgs + 1 ELSE CHOOSE i \in ends : \A j \in ends : i <= j
  IN  [i \in 1..len |-> at[i - 1]]

(* RT_IPC_CMD_RESET of rt_mq_control: the messages in the queue are given  *)
(* back, the first first.                                                  *)
QueueReset(t) ==
  LET given == FoldLeft(ToFree, obj, ChainFrom(obj, obj.head))
  IN  /\ User(t) /\ Of("queue")
      /\ k' = WakeAll(k, "receivers")
      /\ obj' = [obj EXCEPT !.next = given.next, !.free = given.free,
                            !.head = Null, !.tail = Null, !.entry = 0]
      /\ call' = [call EXCEPT ![t] = ScheduleThen("user")]
      /\ UNCHANGED due

QueueAgain(t) ==
  /\ User(t) /\ obj.kind = "queue" /\ ~obj.live
  /\ \A u \in Thread : Idles(u)
  /\ obj' = rt_mq_init(obj.flag)
  /\ UNCHANGED kernelVars

QueueNext ==
  \/ \E t \in Thread \ {Idle} :
       \/ \E time \in TimeOuts : rt_mq_recv(t, time)
       \/ CopyAndLink(t) \/ GetAgain(t) \/ CopyOut(t) \/ GiveBack(t)
       \/ QueueReset(t) \/ QueueAgain(t)
  \/ \E v \in Value, urgent \in BOOLEAN :
       rt_mq_send_isr(v, urgent) \/ \E t \in Sender : rt_mq_send(t, v, urgent)
-----------------------------------------------------------------------------
QueueTypeOK ==
  obj.kind = "queue" =>
    /\ obj.next \in [Node -> Node \cup {Null}] /\ obj.data \in [Node -> Value \cup {NoValue}]
    /\ {obj.head, obj.tail, obj.free} \subseteq Node \cup {Null}
    /\ obj.entry \in 0..MaxMsgs

InQueue == ChainFrom(obj, obj.head)
InFree == ChainFrom(obj, obj.free)
HeldBy(t) == IF "msg" \in DOMAIN call[t] THEN {call[t].msg} ELSE {}

(* The messages in the queue, and what a thread has received: from when it *)
(* unlinks the node, though it copies the message later.                   *)
Messages == IF ~Of("queue") THEN <<>> ELSE LET q == InQueue IN [i \in 1..Len(q) |-> obj.data[q[i]]]
MessageGot(t) ==
  IF call[t].pc = "copy" THEN obj.data[call[t].msg]
  ELSE IF call[t].pc = "release" THEN call[t].value ELSE NoValue

(* Every node is in one place: in the queue, among the free, or held by    *)
(* one thread that copies; and the queue's tail and counter agree with its *)
(* chain.                                                                  *)
NodesApart ==
  Of("queue") =>
    LET q == InQueue
        f == InFree
    IN  /\ \A n \in Node : Cardinality({i \in 1..Len(q) : q[i] = n})
                             + Cardinality({i \in 1..Len(f) : f[i] = n})
                             + Cardinality({t \in Thread : n \in HeldBy(t)}) = 1
        /\ obj.entry = Len(q)
        /\ obj.tail = IF q = <<>> THEN Null ELSE q[Len(q)]

(* A thread waits for a message only while for each message there is       *)
(* another thread that was woken for it and has not run yet.               *)
MessageWokenForEach ==
  Of("queue") => NoneWaits("receivers") \/ obj.entry <= Cardinality(Granted("receivers", "get"))
=============================================================================
