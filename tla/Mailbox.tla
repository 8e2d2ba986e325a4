------------------------------- MODULE Mailbox -------------------------------
(***************************************************************************)
(* Mailboxes of rtthread/src/ipc.c: a ring of values with a list of        *)
(* receivers that wait for a value and a list of senders that wait for a   *)
(* free place.  Whoever is woken looks at the ring again, as another       *)
(* thread may have been faster, and waits for the rest of its time.        *)
(***************************************************************************)
EXTENDS IPC

CONSTANT MailSize     \* the size of the mailbox

ASSUME MailboxAssumption == MailSize \in Nat \ {0}

rt_mb_init(flag) ==
  [kind |-> "mailbox", live |-> TRUE, flag |-> flag,
   msg_pool |-> [i \in 0..MailSize - 1 |-> NoValue],
   in_offset |-> 0, out_offset |-> 0, entry |-> 0]

MailboxInit == \E flag \in {"FIFO", "PRIO"} : obj = rt_mb_init(flag)

NextOffset(i) == IF i + 1 >= MailSize THEN 0 ELSE i + 1

PutMail(o, v) ==
  [o EXCEPT !.msg_pool[o.in_offset] = v, !.in_offset = NextOffset(@), !.entry = @ + 1]

TakeMail(o) == [o EXCEPT !.out_offset = NextOffset(@), !.entry = @ - 1]

(* The loop of rt_mb_send_wait from where interrupts are disabled, with    *)
(* "time" left.                                                            *)
SendLoop(t, v, time) ==
  /\ IF obj.entry < MailSize
     THEN /\ obj' = PutMail(obj, v)
          /\ k' = WakeOne(k, "receivers")
          /\ call' = [call EXCEPT ![t] = IF NoneWaits("receivers") THEN InUser ELSE ScheduleThen("user")]
     ELSE IF time = 0 THEN Return(t) /\ UNCHANGED <<k, obj>>
     ELSE /\ k' = Wait(k, "senders", t, time)
          /\ call' = [call EXCEPT ![t] = Waiting("send", v, time)]
          /\ UNCHANGED obj
  /\ UNCHANGED due

(* Mutant: a thread that was woken takes what it finds at once. *)
ReceiveUnchecked(t, time) ==
  /\ IF obj.entry > 0 \/ call[t].pc = "receive"
     THEN /\ obj' = TakeMail(obj)
          /\ k' = WakeOne(k, "senders")
          /\ call' = [call EXCEPT ![t] =
               [pc |-> IF NoneWaits("senders") THEN "mail" ELSE "schedule", then |-> "mail",
                value |-> obj.msg_pool[obj.out_offset]]]
     ELSE IF time = 0 THEN Return(t) /\ UNCHANGED <<k, obj>>
     ELSE /\ k' = Wait(k, "receivers", t, time)
          /\ call' = [call EXCEPT ![t] = Waiting("receive", NoValue, time)]
          /\ UNCHANGED obj
  /\ UNCHANGED due

(* The loop of rt_mb_recv.                                                 *)
ReceiveLoop(t, time) ==
  /\ IF obj.entry > 0
     THEN /\ obj' = TakeMail(obj)
          /\ k' = WakeOne(k, "senders")
          /\ call' = [call EXCEPT ![t] =
               [pc |-> IF NoneWaits("senders") THEN "mail" ELSE "schedule", then |-> "mail",
                value |-> obj.msg_pool[obj.out_offset]]]
     ELSE IF time = 0 THEN Return(t) /\ UNCHANGED <<k, obj>>
     ELSE /\ k' = Wait(k, "receivers", t, time)
          /\ call' = [call EXCEPT ![t] = Waiting("receive", NoValue, time)]
          /\ UNCHANGED obj
  /\ UNCHANGED due

rt_mb_send_wait(t, v, time) == User(t) /\ Of("mailbox") /\ SendLoop(t, v, time)
rt_mb_recv(t, time) == User(t) /\ Of("mailbox") /\ ReceiveLoop(t, time)

(* The thread runs again: an error ends the call.                          *)
SendAgain(t) ==
  /\ At(t, "send")
  /\ IF k.error[t] # "EOK" THEN Return(t) /\ UNCHANGED <<k, due, obj>>
     ELSE SendLoop(t, call[t].value, Left(call[t]))

ReceiveAgain(t) ==
  /\ At(t, "receive")
  /\ IF k.error[t] # "EOK" THEN Return(t) /\ UNCHANGED <<k, due, obj>>
     ELSE ReceiveLoop(t, Left(call[t]))

(* rt_mb_recv returns with the value.                                      *)
MailReceived(t) == At(t, "mail") /\ Return(t) /\ UNCHANGED <<k, due, obj>>

(* rt_mb_send in an interrupt handler.                                     *)
rt_mb_send ==
  /\ CalledBy(Handler) /\ Of("mailbox") /\ obj.entry < MailSize
  /\ \E v \in Value : obj' = PutMail(obj, v)
  /\ k' = IF NoneWaits("receivers") THEN k ELSE rt_schedule(WakeOne(k, "receivers"))
  /\ UNCHANGED <<call, due>>

(* RT_IPC_CMD_RESET of rt_mb_control.                                      *)
MailboxReset(t) ==
  /\ User(t) /\ Of("mailbox")
  /\ k' = WakeAll(WakeAll(k, "receivers"), "senders")
  /\ obj' = [obj EXCEPT !.entry = 0, !.in_offset = 0, !.out_offset = 0]
  /\ call' = [call EXCEPT ![t] = ScheduleThen("user")]
  /\ UNCHANGED due

MailboxAgain(t) ==
  /\ User(t) /\ obj.kind = "mailbox" /\ ~obj.live
  /\ \A u \in Thread : Idles(u)
  /\ obj' = rt_mb_init(obj.flag)
  /\ UNCHANGED kernelVars

MailboxNext ==
  \/ \E t \in Thread \ {Idle} :
       \/ \E time \in TimeOuts : rt_mb_recv(t, time)
       \/ SendAgain(t) \/ ReceiveAgain(t) \/ MailReceived(t)
       \/ MailboxReset(t) \/ MailboxAgain(t)
  \/ \E t \in Sender, v \in Value, time \in TimeOuts : rt_mb_send_wait(t, v, time)
  \/ rt_mb_send
-----------------------------------------------------------------------------
MailboxTypeOK ==
  obj.kind = "mailbox" =>
    /\ obj.msg_pool \in [0..MailSize - 1 -> Value \cup {NoValue}]
    /\ obj.in_offset \in 0..MailSize - 1 /\ obj.out_offset \in 0..MailSize - 1
    /\ obj.entry \in 0..MailSize

(* The letters in the ring, and what a thread has received.                *)
Letters ==
  IF ~Of("mailbox") THEN <<>>
  ELSE [i \in 1..obj.entry |-> obj.msg_pool[(obj.out_offset + i - 1) % MailSize]]

MailGot(t) == IF Bound(t, "mail") THEN call[t].value ELSE NoValue

(* A thread waits for a letter, or for a place, only while for each there  *)
(* is another thread that was woken for it and has not run yet.            *)
MailWokenForEach ==
  Of("mailbox") =>
    /\ NoneWaits("receivers") \/ obj.entry <= Cardinality(Granted("receivers", "receive"))
    /\ NoneWaits("senders") \/ MailSize - obj.entry <= Cardinality(Granted("senders", "send"))
=============================================================================
