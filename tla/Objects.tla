------------------------------- MODULE Objects -------------------------------
(***************************************************************************)
(* An object of rtthread/src/ipc.c, of a kind that ObjectInit chooses, and *)
(* the threads and interrupt handlers that use it, with all calls for that *)
(* kind; and what the kinds promise.                                       *)
(***************************************************************************)
EXTENDS Semaphore, Mutex, Event, Mailbox, MessageQueue

CONSTANTS
  Kinds,        \* the kinds of objects
  Flags         \* for each kind, the orders threads may wait in

ASSUME ObjectsAssumption ==
  /\ Kinds \subseteq {"sem", "mutex", "event", "mailbox", "queue"}
  /\ Sender \subseteq Thread
  /\ \A kind \in Kinds : Sleeper[kind] \subseteq Thread \ {Idle}

ObjectInit ==
  /\ SemInit \/ MutexInit \/ EventInit \/ MailboxInit \/ QueueInit
  /\ obj.kind \in Kinds /\ obj.flag \in Flags[obj.kind]
  /\ k = Boot(Thread)
  /\ call = [t \in Thread |-> InUser]
  /\ due = {}

ObjectNext ==
  \/ Common \/ Ending
  \/ SemNext \/ MutexNext \/ EventNext \/ MailboxNext \/ QueueNext

ObjectSpec == ObjectInit /\ [][ObjectNext]_ipcVars

(* Type correctness of the object in use, of whatever kind.                *)
ObjectTypeOK == SemTypeOK /\ MutexTypeOK /\ EventTypeOK /\ MailboxTypeOK /\ QueueTypeOK

(* Whatever resumes a thread, be it a release, a time-out or a reset, the  *)
(* kernel's lists, states and timers agree, and the first ready thread of  *)
(* highest priority runs once ipc.c has returned.                          *)
ListsAgree ==
  KernelTypeOK(TimeOuts \cup {1}, 0) /\ WaitsInOneList /\ NoneForgotten /\ HighestRuns

(* No wake-up is lost: a thread waits only for what is not there, or what  *)
(* another thread was woken for that has not run yet; whatever the kind.   *)
NoneWaitsInVain ==
  SemNoneWaitsInVain /\ EventNoneWaitsInVain /\ MailWokenForEach /\ MessageWokenForEach

(* What an object deals out is neither lost nor dealt out twice: the units *)
(* of a semaphore, the nodes of a message queue; and the object's data has *)
(* its type.                                                               *)
NothingLost == ObjectTypeOK /\ SemConserves /\ NodesApart

(* One thread at most has the mutex, and it is the one the kernel names.   *)
OneOwner == MutualExclusion /\ OwnerKnows

(* The owner's priority is raised for its waiters and given back.          *)
Inheritance == OwnerInherits /\ PriorityRestored

(* The ring of ipc.c's mailbox, with its two offsets and its lists of      *)
(* waiting threads, is a bounded queue: a thread that rt_mb_recv lets go   *)
(* on has the oldest value sent.                                           *)
Letterbox == INSTANCE Channel WITH
  Receiver <- Thread, Ahead <- {}, Capacity <- MailSize, Nothing <- NoValue,
  chan <- Letters, got <- [t \in Thread |-> MailGot(t)]

(* The mailbox implements Channel: nothing is lost, doubled or overtaken.  *)
MailboxIsChannel == Letterbox!Spec

(* The linked nodes of ipc.c's message queue, filled and read with         *)
(* interrupts enabled, are a bounded queue whose urgent messages go in     *)
(* front.                                                                  *)
Post == INSTANCE Channel WITH
  Receiver <- Thread, Ahead <- Value, Capacity <- MaxMsgs, Nothing <- NoValue,
  chan <- Messages, got <- [t \in Thread |-> MessageGot(t)]

(* The message queue implements Channel.                                   *)
QueueIsChannel == Post!Spec
==============================================================================
