---------------------- MODULE DriverTransactionProofs ----------------------
(***************************************************************************)
(* Machine-checked proofs about DriverTransaction, for every network,      *)
(* every set of messages and every limit: the types, then the safety       *)
(* invariants, and then where the message objects are: none is lost, none  *)
(* is in two places, and what becomes of them is what MsgDelivery promises *)
(* the callers of SendMsg.                                                 *)
(***************************************************************************)
EXTENDS DriverTransaction, SequenceLemmas, FiniteSetTheorems

(***************************************************************************)
(* Types.                                                                  *)
(***************************************************************************)
-----------------------------------------------------------------------------
(* What messages are built from.                                            *)

(* The messages that are created are well formed. *)
LEMMA NewMsgType ==
    ASSUME TypeOK, NEW m \in Msg
    PROVE  NewMsg(m) \in MsgObj /\ IdAfter(m) \in CallbackId
<1>1. Cardinality({o \in Msg : fate[o] # "unsent"}) \in Nat
  BY MessagesAssumption, FS_Subset, FS_CardinalityType
<1>2. nextCallbackId \in 10..255
  BY DEF TypeOK, CallbackId
<1> QED
  BY <1>1, <1>2, LimitsAssumption
  DEF NewMsg, MsgObj, IdAfter, NextId, CallbackId

(* Msg::UpdateCallbackId gives back a message object. *)
LEMMA UpdateCallbackIdType ==
    ASSUME TypeOK, NEW x \in MsgObj
    PROVE  /\ UpdateCallbackId(x) \in MsgObj
           /\ UpdateCallbackId(x).id = x.id
           /\ UpdateCallbackId(x).attempts = x.attempts
           /\ UpdateCallbackId(x).maxAttempts = x.maxAttempts
  BY DEF TypeOK, MsgObj, UpdateCallbackId

(* s_nextCallbackId stays within 10..255 after a message took its id. *)
LEMMA IdAfterType ==
    ASSUME TypeOK, NEW m \in Msg
    PROVE  IdAfter(m) \in CallbackId
  BY DEF TypeOK, IdAfter, NextId, CallbackId

(* Transaction states that the handlers put together. *)
LEMMA NoTxnType ==
    ASSUME NEW t \in Txn
    PROVE  NoTxn \in Txn /\ ForgetCurrent(t) \in Txn /\ NoNonceReportSent(t) \in Txn
<1>1. NoTxn \in Txn
  BY LimitsAssumption DEF Txn, NoTxn, Reply
<1>2. ForgetCurrent(t) \in Txn
  BY <1>1 DEF Txn, ForgetCurrent
<1>3. NoNonceReportSent(t) \in Txn
  <2>1. 0 \in 0..MAX_MAX_TRIES
    BY LimitsAssumption
  <2> QED
    BY <2>1 DEF Txn, NoNonceReportSent
<1> QED
  BY <1>1, <1>2, <1>3

-----------------------------------------------------------------------------
(* What the helpers that change state leave well typed.                    *)

(* Driver::SendMsg's push_back keeps queues and events well typed. *)
LEMMA PushBackType ==
    ASSUME TypeOK, NEW q \in Queue, NEW x \in MsgObj, PushBack(q, x)
    PROVE  /\ msgQueue' \in [Queue -> Seq(MsgObj)]
           /\ queueEvent' \in [Queue -> BOOLEAN]
  BY AppendProperties DEF TypeOK, PushBack

(* Resetting the event of an emptied queue keeps the events Booleans. *)
LEMMA ResetIfEmptyType ==
    ASSUME TypeOK, NEW q \in Queue, NEW s
    PROVE  ResetIfEmpty(q, s) \in [Queue -> BOOLEAN]
  BY DEF TypeOK, ResetIfEmpty

(* WakeUp::QueueMsg keeps the wake-up queues sequences of messages. *)
LEMMA QueueMsgType ==
    ASSUME TypeOK, NEW n \in Sleeper, NEW x \in MsgObj, QueueMsg(n, x)
    PROVE  pending' \in [Sleeper -> Seq(MsgObj)]
<1> DEFINE new == [x EXCEPT !.attempts = 0]
<1>1. new \in MsgObj
  BY LimitsAssumption DEF MsgObj
<1>2. pending \in [Sleeper -> Seq(MsgObj)] /\ pending[n] \in Seq(MsgObj)
  BY DEF TypeOK
<1> HIDE DEF new
<1>3. CASE Duplicate(n, x) = {}
  <2>1. pending' = [pending EXCEPT ![n] = Append(pending[n], new)]
    BY <1>3 DEF QueueMsg, new
  <2> QED
    BY <2>1, <1>1, <1>2, AppendProperties
<1>4. CASE Duplicate(n, x) # {}
  <2>1. PICK i \in Duplicate(n, x) :
              pending' = [pending EXCEPT ![n] = Append(RemoveAt(pending[n], i), new)]
    BY <1>4 DEF QueueMsg, new
  <2>2. i \in 1..Len(pending[n])
    BY <1>2, LenProperties DEF Duplicate
  <2>3. RemoveAt(pending[n], i) \in Seq(MsgObj)
    BY <1>2, <2>2, RemoveAtType
  <2> QED
    BY <2>1, <2>3, <1>1, <1>2, AppendProperties
<1> QED
  BY <1>3, <1>4

(* The two ways in which a step records what became of messages. *)
LEMMA FateTypes ==
    ASSUME TypeOK, NEW x \in MsgObj, NEW f \in Fate, NEW n, NEW g \in [Msg -> Fate]
    PROVE  /\ Settle(x, f) \in [Msg -> Fate]
           /\ FateAfterQueueMsg(n, x, g) \in [Msg -> Fate]
  BY DEF TypeOK, Settle, FateAfterQueueMsg, Fate

(* Driver::RemoveCurrentMsg leaves a well typed transaction. *)
LEMMA RemoveCurrentMsgType ==
    ASSUME TypeOK, NEW t \in Txn, NEW f \in Fate, RemoveCurrentMsg(t, f)
    PROVE  txn' \in Txn /\ fate' \in [Msg -> Fate]
<1>1. t.msg # NoMsg => t.msg \in MsgObj
  BY DEF Txn
<1>2. fate \in [Msg -> Fate]
  BY DEF TypeOK
<1> QED
  BY <1>1, <1>2, NoTxnType, FateTypes DEF RemoveCurrentMsg

(* The tail of ProcessMsg (handleCallback) leaves a well typed transaction. *)
LEMMA HandleCallbackType ==
    ASSUME TypeOK, NEW t \in Txn, NEW func, NEW cb, NEW n, NEW expectedClass,
           HandleCallback(t, func, cb, n, expectedClass)
    PROVE  txn' \in Txn /\ fate' \in [Msg -> Fate]
<1>1. AfterReply(t, func, cb, n, expectedClass) \in Txn
  BY DEF AfterReply, Txn, Reply
<1>2. fate \in [Msg -> Fate] /\ "completed" \in Fate
  BY DEF TypeOK, Fate
<1> QED
  BY <1>1, <1>2, RemoveCurrentMsgType DEF HandleCallback

-----------------------------------------------------------------------------
(* WriteMsg, by its three outcomes.                                        *)

(* A message is only written while its limit is not reached, so that the   *)
(* attempt that is counted stays within MAX_MAX_TRIES.                     *)
LEMMA WriteMsgType ==
    ASSUME TypeOK, NEW t \in Txn, t.msg \in MsgObj, WriteMsg(t)
    PROVE  /\ txn' \in Txn
           /\ driver' = driver \/ driver' = [driver EXCEPT !.pc = "Exited"]
           /\ line' \subseteq Frame
           /\ fate' \in [Msg -> Fate]
           /\ nextCallbackId' \in CallbackId
<1> DEFINE x == t.msg
           m == t.msg.id
<1>1. /\ x.attempts \in 0..MAX_MAX_TRIES /\ x.maxAttempts \in 0..MAX_MAX_TRIES
      /\ t.nonceReportSentAttempt \in 0..MAX_MAX_TRIES
      /\ m \in Msg /\ x.cb \in CallbackId \cup {0}
      /\ t.nonceReportSent \in Node \cup {NoNode}
  BY DEF Txn, MsgObj
<1>2. Target[m] \in Node \cup {Controller}
  BY <1>1, MessagesAssumption
<1>3. /\ fate \in [Msg -> Fate] /\ line \subseteq Frame /\ nextCallbackId \in CallbackId
  BY DEF TypeOK
<1>4. CASE WriteMsgGivesUp(t)
  BY <1>3, <1>4, NoTxnType, FateTypes DEF WriteMsg, WriteMsgDrop, Fate
<1>5. CASE ~WriteMsgGivesUp(t) /\ t.nonceReportSent # NoNode
  <2>1. WriteMsgNonceReport(t)
    BY <1>5 DEF WriteMsg
  <2>2. t.nonceReportSentAttempt + 1 \in 0..MAX_MAX_TRIES
    BY <1>1, <1>5, LimitsAssumption DEF WriteMsgGivesUp, LimitReached
  <2>3. [t EXCEPT !.nonceReportSentAttempt = @ + 1] \in Txn
    BY <2>2 DEF Txn
  <2>4. NonceReportFrame(t.nonceReportSent) \in Frame
    BY <1>1, <1>5 DEF NonceReportFrame, Frame, FrameFunc, NonceReportId
  <2> QED
    BY <1>3, <2>1, <2>3, <2>4 DEF WriteMsgNonceReport
<1>6. CASE ~WriteMsgGivesUp(t) /\ t.nonceReportSent = NoNode
  <2> DEFINE upd == IF x.attempts # 0 THEN UpdateCallbackId(x) ELSE x
             new == Attempted(upd)
  <2>1. WriteMsgSend(t)
    BY <1>6 DEF WriteMsg
  <2>2. x.attempts + 1 \in 0..MAX_MAX_TRIES
    BY <1>1, <1>6, LimitsAssumption DEF WriteMsgGivesUp, LimitReached
  <2>3. upd \in MsgObj /\ upd.id = m /\ upd.attempts = x.attempts
    BY UpdateCallbackIdType
  <2> HIDE DEF upd
  <2>4. new \in MsgObj /\ new.id = m
    BY <2>2, <2>3 DEF MsgObj, Attempted
  <2>5. new.cb \in CallbackId \cup {0}
    BY <2>4 DEF MsgObj
  <2> HIDE DEF new
  <2>6. txn' = [t EXCEPT !.msg = new, !.cb = new.cb, !.reply = ExpectedReply(m),
                         !.node = Target[m], !.ack = TRUE]
    BY <2>1 DEF WriteMsgSend, upd, new
  <2>7. ExpectedReply(m) \in Reply
    BY <1>1, MessagesAssumption DEF ExpectedReply, Reply, MsgKind
  <2>8. txn' \in Txn
    BY <2>4, <2>5, <2>6, <2>7, <1>2 DEF Txn
  <2>9. OwnFrame(new) \in Frame
    BY <2>4, <2>5, <1>2 DEF OwnFrame, Frame, FrameFunc, CallbackId
  <2>10. NonceGetFrame(Target[m]) \in Frame
    BY <1>2 DEF NonceGetFrame, Frame, FrameFunc, NonceGetId
  <2>11. nextCallbackId' \in CallbackId
    BY <1>1, <1>3, <2>1, IdAfterType DEF WriteMsgSend
  <2>12. /\ fate' = fate
         /\ \/ line' = line \cup {NonceGetFrame(Target[m])} /\ driver' = driver
            \/ line' = line \cup {OwnFrame(new)} /\ driver' = driver
            \/ driver' = [driver EXCEPT !.pc = "Exited"] /\ line' = line
    BY <2>1 DEF WriteMsgSend, upd, new
  <2> QED
    BY <1>3, <2>8, <2>9, <2>10, <2>11, <2>12
<1> QED
  BY <1>4, <1>5, <1>6

-----------------------------------------------------------------------------
(***************************************************************************)
(* Type correctness, one lemma per kind of step.                           *)
(***************************************************************************)
LEMMA InitTypeOK == Init => TypeOK
<1> SUFFICES ASSUME Init PROVE TypeOK
  OBVIOUS
<1>1. /\ msgQueue \in [Queue -> Seq(MsgObj)]
      /\ queueEvent \in [Queue -> BOOLEAN]
      /\ pending \in [Sleeper -> Seq(MsgObj)]
  BY DEF Init
<1>2. txn \in Txn
  BY LimitsAssumption DEF Init, Txn, NoTxn, Reply
<1>3. /\ awake \in [Sleeper -> BOOLEAN] /\ nmiTimers \in [Sleeper -> Nat]
      /\ nodeAlive \in [Node -> BOOLEAN] /\ errors \in [Node -> 0..ErrorLimit]
      /\ nextCallbackId \in CallbackId /\ line \subseteq Frame /\ air \subseteq Frame
      /\ fate \in [Msg -> Fate] /\ wakeUps \in 0..MaxWakeUps
      /\ nonceReports \in 0..MaxNonceReports
  BY LimitsAssumption DEF Init, CallbackId, Fate
<1>4. /\ driver = [pc |-> "Loop", node |-> NoNode]
      /\ call = [t \in Thread |-> [pc |-> "idle", msg |-> NoMsg]]
  BY DEF Init, Loop
<1> QED
  BY <1>1, <1>2, <1>3, <1>4 DEF TypeOK

(* Requests: SendMsg up to m_nodeMutex, on whatever thread. *)
LEMMA SendMsgTypeOK ==
    ASSUME TypeOK, NEW m \in Msg, NEW t \in Thread, SendMsg(t, m),
           nmiTimers' \in [Sleeper -> Nat]
    PROVE  TypeOK'
<1>1. NewMsg(m) \in MsgObj /\ NewMsg(m).id = m /\ nextCallbackId' \in CallbackId
  BY NewMsgType DEF SendMsg, NewMsg
<1>2. fate' \in [Msg -> Fate]
  BY DEF SendMsg, TypeOK, Fate
<1>3. /\ call' \in [Thread -> [pc : {"idle", "lock", "park", "push"},
                                 msg : MsgObj \cup {NoMsg}]]
      /\ \A u \in Thread : call'[u].pc # "idle" => call'[u].msg \in MsgObj
      /\ \A u \in Thread : call'[u].pc = "park" => Target[call'[u].msg.id] \in Sleeper
  BY <1>1 DEF SendMsg, TypeOK
<1> QED
  BY <1>1, <1>2, <1>3 DEF SendMsg, TypeOK

(* Creating a message, on any thread, preserves TypeOK. *)
LEMMA RequestTypeOK ==
    ASSUME TypeOK, Request
    PROVE  TypeOK'
<1> PICK m \in Msg : \/ \E t \in Thread : AppSendMsg(t, m)
                     \/ TimerFires(m)
                     \/ WatcherSendMsg(m)
  BY DEF Request
<1>1. ASSUME NEW t \in Thread, AppSendMsg(t, m) PROVE TypeOK'
  BY <1>1, SendMsgTypeOK DEF AppSendMsg, TypeOK
<1>2. CASE TimerFires(m)
  <2>1. Target[m] \in Sleeper /\ nmiTimers[Target[m]] - 1 \in Nat
    BY <1>2, MessagesAssumption DEF TimerFires, TypeOK
  <2>2. nmiTimers' \in [Sleeper -> Nat]
    BY <1>2, <2>1 DEF TimerFires, TypeOK
  <2> QED
    BY <1>2, <2>2, SendMsgTypeOK, ThreadsAssumption DEF TimerFires
<1>3. CASE WatcherSendMsg(m)
  <2>1. NewMsg(m) \in MsgObj /\ nextCallbackId' \in CallbackId
    BY <1>3, NewMsgType DEF WatcherSendMsg
  <2>2. [fate EXCEPT ![m] = "live"] \in [Msg -> Fate]
    BY DEF TypeOK, Fate
  <2>3. CASE Asleep(Target[m])
    <3>1. /\ QueueMsg(Target[m], NewMsg(m))
          /\ fate' = FateAfterQueueMsg(Target[m], NewMsg(m), [fate EXCEPT ![m] = "live"])
          /\ UNCHANGED <<msgQueue, queueEvent>>
      BY <1>3, <2>3 DEF WatcherSendMsg
    <3>2. pending' \in [Sleeper -> Seq(MsgObj)]
      BY <2>1, <2>3, <3>1, QueueMsgType DEF Asleep
    <3>3. fate' \in [Msg -> Fate]
      BY <2>2, <3>1 DEF FateAfterQueueMsg, Fate
    <3> QED
      BY <1>3, <2>1, <3>1, <3>2, <3>3 DEF WatcherSendMsg, TypeOK
  <2>4. CASE ~Asleep(Target[m])
    <3>1. /\ PushBack(QueueOf[m], NewMsg(m))
          /\ fate' = [fate EXCEPT ![m] = "live"]
          /\ UNCHANGED pending
      BY <1>3, <2>4 DEF WatcherSendMsg
    <3>2. QueueOf[m] \in Queue
      BY MessagesAssumption DEF Queue
    <3>3. /\ msgQueue' \in [Queue -> Seq(MsgObj)]
          /\ queueEvent' \in [Queue -> BOOLEAN]
      BY <2>1, <3>1, <3>2, PushBackType
    <3> QED
      BY <1>3, <2>1, <2>2, <3>1, <3>3 DEF WatcherSendMsg, TypeOK
  <2> QED
    BY <2>3, <2>4
<1> QED
  BY <1>1, <1>2, <1>3

(* What SendMsg does once it has m_nodeMutex preserves TypeOK. *)
LEMMA ThreadStepTypeOK ==
    ASSUME TypeOK, NEW t \in Thread, ThreadStep(t)
    PROVE  TypeOK'
<1>1. /\ \A u \in Thread : call[u].pc # "idle" => call[u].msg \in MsgObj
      /\ \A u \in Thread : call[u].pc = "park" => Target[call[u].msg.id] \in Sleeper
  BY DEF TypeOK
<1> DEFINE idle == [call EXCEPT ![t] = [pc |-> "idle", msg |-> NoMsg]]
<1>2. /\ idle \in [Thread -> [pc : {"idle", "lock", "park", "push"},
                                msg : MsgObj \cup {NoMsg}]]
      /\ \A u \in Thread : idle[u].pc # "idle" => idle[u].msg \in MsgObj
      /\ \A u \in Thread : idle[u].pc = "park" => Target[idle[u].msg.id] \in Sleeper
  BY DEF TypeOK
<1>3. CASE SendMsgPark(t)
  <2>1. pending' \in [Sleeper -> Seq(MsgObj)] /\ fate' \in [Msg -> Fate]
    BY <1>1, <1>3, QueueMsgType DEF SendMsgPark, FateAfterQueueMsg, Fate, TypeOK
  <2> QED
    BY <1>2, <1>3, <2>1 DEF SendMsgPark, TypeOK
<1>4. CASE SendMsgPush(t)
  <2>1. call[t].msg \in MsgObj /\ QueueOf[call[t].msg.id] \in Queue
    BY <1>1, <1>4, MessagesAssumption DEF SendMsgPush, MsgObj, Queue
  <2>2. /\ msgQueue' \in [Queue -> Seq(MsgObj)]
        /\ queueEvent' \in [Queue -> BOOLEAN]
    BY <1>4, <2>1, PushBackType DEF SendMsgPush
  <2> QED
    BY <1>2, <1>4, <2>2 DEF SendMsgPush, TypeOK
<1>5. CASE SendMsgLocked(t)
  <2> DEFINE pc == IF Asleep(Target[call[t].msg.id]) THEN "park" ELSE "push"
  <2>1. /\ pc \in {"park", "push"}
        /\ pc = "park" => Target[call[t].msg.id] \in Sleeper
    BY DEF Asleep
  <2> HIDE DEF pc
  <2>2. /\ call' = [call EXCEPT ![t].pc = pc]
        /\ call[t].pc = "lock"
    BY <1>5 DEF SendMsgLocked, pc
  <2>3. /\ call' \in [Thread -> [pc : {"idle", "lock", "park", "push"},
                                   msg : MsgObj \cup {NoMsg}]]
        /\ \A u \in Thread : call'[u].pc # "idle" => call'[u].msg \in MsgObj
        /\ \A u \in Thread : call'[u].pc = "park" => Target[call'[u].msg.id] \in Sleeper
    BY <1>1, <2>1, <2>2 DEF TypeOK
  <2> QED
    BY <1>5, <2>3 DEF SendMsgLocked, TypeOK
<1> QED
  BY <1>3, <1>4, <1>5 DEF ThreadStep

(* An element of a queue is a message, and a queue may lose its first one.  *)
LEMMA QueueContents ==
    ASSUME TypeOK, NEW q \in Queue
    PROVE  /\ msgQueue[q] \in Seq(MsgObj)
           /\ msgQueue[q] # <<>> => /\ Head(msgQueue[q]) \in MsgObj
                                    /\ Tail(msgQueue[q]) \in Seq(MsgObj)
           /\ \A i \in DOMAIN msgQueue[q] :
                 /\ i \in 1..Len(msgQueue[q])
                 /\ msgQueue[q][i] \in MsgObj
                 /\ RemoveAt(msgQueue[q], i) \in Seq(MsgObj)
<1>1. msgQueue[q] \in Seq(MsgObj)
  BY DEF TypeOK
<1>2. DOMAIN msgQueue[q] = 1..Len(msgQueue[q])
  BY <1>1, LenProperties
<1> QED
  BY <1>1, <1>2, HeadTailProperties, ElementOfSeq, RemoveAtType

(* The driver thread returning or crashing preserves TypeOK. *)
LEMMA DriverExits ==
    ASSUME TypeOK, driver.pc = "Loop",
           driver' = driver \/ driver' = [driver EXCEPT !.pc = "Exited"]
    PROVE  /\ driver' \in [pc : {"Loop", "Moving", "Draining", "Drained", "Exited", "Crashed"},
                           node : Node \cup {NoNode}]
           /\ driver'.pc \notin {"Moving", "Draining", "Drained"}
  BY DEF TypeOK

(* A timeout of DriverThreadProc, with its retry or drop, preserves TypeOK. *)
LEMMA WaitTimeoutTypeOK ==
    ASSUME TypeOK, WaitTimeout
    PROVE  TypeOK'
<1>1. txn \in Txn
  BY DEF TypeOK
<1>2. CASE txn.msg = NoMsg
  <2>1. txn' \in Txn /\ UNCHANGED <<driver, nextCallbackId, line, fate>>
    BY <1>1, <1>2, NoTxnType DEF WaitTimeout, WriteNoMsg
  <2> QED
    BY <2>1 DEF WaitTimeout, TypeOK
<1>3. CASE txn.msg # NoMsg
  <2>1. txn.msg \in MsgObj /\ WriteMsg(txn)
    BY <1>1, <1>3 DEF WaitTimeout, Txn
  <2>2. /\ txn' \in Txn /\ line' \subseteq Frame /\ fate' \in [Msg -> Fate]
        /\ nextCallbackId' \in CallbackId
        /\ driver' = driver \/ driver' = [driver EXCEPT !.pc = "Exited"]
    BY <1>1, <2>1, WriteMsgType
  <2>3. driver.pc = "Loop"
    BY DEF WaitTimeout, AtLoop
  <2> QED
    BY <2>2, <2>3, DriverExits DEF WaitTimeout, TypeOK
<1> QED
  BY <1>2, <1>3

(* WriteNextMsg preserves TypeOK. *)
LEMMA WriteNextMsgTypeOK ==
    ASSUME TypeOK, NEW q \in Queue, WriteNextMsg(q)
    PROVE  TypeOK'
<1> DEFINE x == Head(msgQueue[q])
           t == [txn EXCEPT !.msg = x]
<1>1. x \in MsgObj /\ Tail(msgQueue[q]) \in Seq(MsgObj) /\ msgQueue[q] \in Seq(MsgObj)
  BY QueueContents DEF WriteNextMsg
<1>2. t \in Txn /\ t.msg \in MsgObj
  BY <1>1 DEF TypeOK, Txn
<1>3. WriteMsg(t)
  BY DEF WriteNextMsg
<1> HIDE DEF t
<1>4. /\ txn' \in Txn /\ line' \subseteq Frame /\ fate' \in [Msg -> Fate]
      /\ nextCallbackId' \in CallbackId
      /\ driver' = driver \/ driver' = [driver EXCEPT !.pc = "Exited"]
  BY <1>2, <1>3, WriteMsgType
<1>5. LeftInQueue(q) \in Seq(MsgObj)
  BY <1>1 DEF LeftInQueue
<1>6. msgQueue' \in [Queue -> Seq(MsgObj)] /\ queueEvent' \in [Queue -> BOOLEAN]
  BY <1>5, ResetIfEmptyType DEF WriteNextMsg, TypeOK
<1>7. driver.pc = "Loop"
  BY DEF WriteNextMsg, AtLoop
<1> QED
  BY <1>4, <1>6, <1>7, DriverExits DEF WriteNextMsg, TypeOK

(* WakeUp::SendPending and what follows it. *)
LEMMA WakeUpStepsTypeOK ==
    ASSUME TypeOK,
           \/ SendPending \/ SendPendingDone \/ SendToSleepLater
           \/ \E m \in Msg : SendToSleepNow(m)
    PROVE  TypeOK'
<1>1. driver.pc \in {"Moving", "Draining", "Drained"} => driver.node \in Sleeper
  BY DEF TypeOK
<1>2. MsgQueue_WakeUp \in Queue
  BY DEF Queue, MsgQueue_WakeUp
<1>3. CASE SendPending
  <2> DEFINE n == driver.node
  <2>1. n \in Sleeper /\ pending[n] \in Seq(MsgObj) /\ pending[n] # <<>>
    BY <1>1, <1>3 DEF SendPending, TypeOK
  <2>2. Head(pending[n]) \in MsgObj /\ Tail(pending[n]) \in Seq(MsgObj)
    BY <2>1, HeadTailProperties
  <2>3. msgQueue' \in [Queue -> Seq(MsgObj)] /\ queueEvent' \in [Queue -> BOOLEAN]
    BY <1>2, <1>3, <2>2, PushBackType DEF SendPending
  <2>4. pending' \in [Sleeper -> Seq(MsgObj)]
    BY <1>3, <2>2 DEF SendPending, TypeOK
  <2> QED
    BY <1>3, <2>3, <2>4 DEF SendPending, TypeOK
<1>4. CASE SendPendingDone
  BY <1>1, <1>4 DEF SendPendingDone, TypeOK
<1>5. CASE SendToSleepLater
  <2>1. driver' = [pc |-> "Loop", node |-> NoNode] /\ nmiTimers' \in [Sleeper -> Nat]
    BY <1>1, <1>5 DEF SendToSleepLater, Loop, TypeOK
  <2> QED
    BY <1>5, <2>1 DEF SendToSleepLater, TypeOK
<1>6. ASSUME NEW m \in Msg, SendToSleepNow(m) PROVE TypeOK'
  <2>1. NewMsg(m) \in MsgObj /\ nextCallbackId' \in CallbackId
    BY <1>6, NewMsgType DEF SendToSleepNow
  <2>2. msgQueue' \in [Queue -> Seq(MsgObj)] /\ queueEvent' \in [Queue -> BOOLEAN]
    BY <1>2, <1>6, <2>1, PushBackType DEF SendToSleepNow
  <2>3. fate' \in [Msg -> Fate]
    BY <1>6 DEF SendToSleepNow, TypeOK, Fate
  <2>4. driver' = [pc |-> "Loop", node |-> NoNode]
    BY <1>6 DEF SendToSleepNow, Loop
  <2> QED
    BY <1>6, <2>1, <2>2, <2>3, <2>4 DEF SendToSleepNow, TypeOK
<1> QED
  BY <1>3, <1>4, <1>5, <1>6

(* MoveMessagesToWakeUpQueue. *)
LEMMA MoveOrDeleteType ==
    ASSUME TypeOK, NEW n \in Sleeper, NEW x \in MsgObj, MoveOrDelete(n, x)
    PROVE  pending' \in [Sleeper -> Seq(MsgObj)] /\ fate' \in [Msg -> Fate]
<1>1. pending \in [Sleeper -> Seq(MsgObj)] /\ fate \in [Msg -> Fate] /\ "discarded" \in Fate
  BY DEF TypeOK, Fate
<1>2. CASE Moved(x)
  BY <1>1, <1>2, QueueMsgType DEF MoveOrDelete, FateAfterQueueMsg, Fate
<1>3. CASE ~Moved(x)
  BY <1>1, <1>3, FateTypes DEF MoveOrDelete
<1> QED
  BY <1>2, <1>3

(* The steps of MoveMessagesToWakeUpQueue preserve TypeOK. *)
LEMMA MoveStepsTypeOK ==
    ASSUME TypeOK,
           \/ MoveCurrentMsg \/ MoveDone
           \/ \E q \in Queue : \E i \in DOMAIN msgQueue[q] : MoveQueuedMsg(q, i)
    PROVE  TypeOK'
<1>1. driver.pc = "Moving" => driver.node \in Sleeper
  BY DEF TypeOK
<1>2. CASE MoveCurrentMsg
  <2>1. driver.node \in Sleeper /\ txn.msg \in MsgObj /\ txn \in Txn
    BY <1>1, <1>2 DEF MoveCurrentMsg, CurrentIsFor, TypeOK, Txn
  <2>2. pending' \in [Sleeper -> Seq(MsgObj)] /\ fate' \in [Msg -> Fate] /\ txn' \in Txn
    BY <1>2, <2>1, MoveOrDeleteType, NoTxnType DEF MoveCurrentMsg
  <2> QED
    BY <1>2, <2>2 DEF MoveCurrentMsg, TypeOK
<1>3. CASE MoveDone
  <2>1. driver' = [pc |-> "Loop", node |-> NoNode]
    BY <1>3 DEF MoveDone, Loop
  <2> QED
    BY <1>3, <2>1 DEF MoveDone, TypeOK
<1>4. ASSUME NEW q \in Queue, NEW i \in DOMAIN msgQueue[q], MoveQueuedMsg(q, i)
      PROVE  TypeOK'
  <2>1. msgQueue[q][i] \in MsgObj /\ RemoveAt(msgQueue[q], i) \in Seq(MsgObj)
    BY QueueContents
  <2>2. driver.node \in Sleeper
    BY <1>1, <1>4 DEF MoveQueuedMsg
  <2>3. pending' \in [Sleeper -> Seq(MsgObj)] /\ fate' \in [Msg -> Fate]
    BY <1>4, <2>1, <2>2, MoveOrDeleteType DEF MoveQueuedMsg
  <2>4. msgQueue' \in [Queue -> Seq(MsgObj)] /\ queueEvent' \in [Queue -> BOOLEAN]
    BY <1>4, <2>1, ResetIfEmptyType DEF MoveQueuedMsg, TypeOK
  <2> QED
    BY <1>4, <2>3, <2>4 DEF MoveQueuedMsg, TypeOK
<1> QED
  BY <1>2, <1>3, <1>4

(* The one-byte answers to a frame. *)
LEMMA AnswerTypeOK ==
    ASSUME TypeOK, NEW f \in line,
           ReadACK(f) \/ ReadCAN(f) \/ ReadNAK(f) \/ LoseACK(f)
    PROVE  TypeOK'
<1>1. /\ txn \in Txn /\ line \ {f} \subseteq Frame /\ air \cup {f} \subseteq Frame
      /\ air \subseteq Frame /\ fate \in [Msg -> Fate]
  BY DEF TypeOK
<1>2. /\ [txn EXCEPT !.ack = FALSE] \in Txn
      /\ txn.msg # NoMsg => [txn EXCEPT !.msg = SetMaxSendAttempts(txn.msg)] \in Txn
  <2>1. ASSUME txn.msg # NoMsg PROVE SetMaxSendAttempts(txn.msg) \in MsgObj
    <3>1. txn.msg \in MsgObj
      BY <1>1, <2>1 DEF Txn
    <3>2. /\ txn.msg.maxAttempts \in 0..MAX_MAX_TRIES
          /\ txn.msg.maxAttempts + 1 < MAX_MAX_TRIES
             => txn.msg.maxAttempts + 1 \in 0..MAX_MAX_TRIES
      BY <3>1, LimitsAssumption DEF MsgObj
    <3> QED
      BY <3>1, <3>2 DEF SetMaxSendAttempts, MsgObj
  <2> QED
    BY <1>1, <2>1 DEF Txn
<1>3. CASE ReadACK(f)
  <2>1. txn' \in Txn /\ fate' \in [Msg -> Fate]
    BY <1>1, <1>2, <1>3, RemoveCurrentMsgType DEF ReadACK, Fate
  <2>2. line' \subseteq Frame /\ air' \subseteq Frame
    BY <1>1, <1>3 DEF ReadACK
  <2> QED
    BY <1>3, <2>1, <2>2 DEF ReadACK, TypeOK
<1>4. CASE ReadCAN(f)
  <2>1. txn' \in Txn /\ line' \subseteq Frame
    BY <1>1, <1>2, <1>4 DEF ReadCAN
  <2> QED
    BY <1>4, <2>1 DEF ReadCAN, TypeOK
<1>5. CASE ReadNAK(f)
  <2>1. txn' \in Txn /\ line' \subseteq Frame
    BY <1>1, <1>2, <1>5 DEF ReadNAK
  <2>2. \/ driver' = driver
        \/ driver' = [driver EXCEPT !.pc = "Crashed"]
    BY <1>5 DEF ReadNAK
  <2> QED
    BY <1>5, <2>1, <2>2 DEF ReadNAK, TypeOK
<1>6. CASE LoseACK(f)
  <2>1. line' \subseteq Frame /\ air' \subseteq Frame
    BY <1>1, <1>6 DEF LoseACK
  <2> QED
    BY <1>6, <2>1 DEF LoseACK, TypeOK
<1> QED
  BY <1>3, <1>4, <1>5, <1>6

(* Counting errors keeps m_errors within its limit. *)
LEMMA NodeStateTypes ==
    ASSUME TypeOK, NEW n \in Node
    PROVE  /\ CountError(n) => /\ errors' \in [Node -> 0..ErrorLimit]
                               /\ nodeAlive' \in [Node -> BOOLEAN]
           /\ Revive(n) => /\ errors' \in [Node -> 0..ErrorLimit]
                           /\ nodeAlive' \in [Node -> BOOLEAN]
           /\ HeardFrom(n) => /\ errors' \in [Node -> 0..ErrorLimit]
                              /\ nodeAlive' \in [Node -> BOOLEAN]
<1>1. /\ errors \in [Node -> 0..ErrorLimit] /\ nodeAlive \in [Node -> BOOLEAN]
      /\ ErrorLimit \in Nat /\ 0 \in 0..ErrorLimit
  BY LimitsAssumption DEF TypeOK
<1>2. ASSUME CountError(n)
      PROVE  errors' \in [Node -> 0..ErrorLimit] /\ nodeAlive' \in [Node -> BOOLEAN]
  <2> DEFINE e == IF errors[n] < ErrorLimit THEN errors[n] + 1 ELSE ErrorLimit
  <2>1. e \in 0..ErrorLimit
    BY <1>1
  <2>2. (e < ErrorLimit) \in BOOLEAN
    BY <2>1
  <2>3. /\ errors' = [errors EXCEPT ![n] = e]
        /\ nodeAlive' = [nodeAlive EXCEPT ![n] = nodeAlive[n] /\ e < ErrorLimit]
    BY <1>2 DEF CountError
  <2> HIDE DEF e
  <2> QED
    BY <1>1, <2>1, <2>2, <2>3
<1>3. ASSUME Revive(n)
      PROVE  errors' \in [Node -> 0..ErrorLimit] /\ nodeAlive' \in [Node -> BOOLEAN]
  BY <1>1, <1>3 DEF Revive
<1>4. ASSUME HeardFrom(n)
      PROVE  errors' \in [Node -> 0..ErrorLimit] /\ nodeAlive' \in [Node -> BOOLEAN]
  BY <1>1, <1>4 DEF HeardFrom
<1> QED
  BY <1>2, <1>3, <1>4

(* The frames that answer a message. *)
LEMMA ReceiveResponseTypeOK ==
    ASSUME TypeOK, NEW f \in air, ReceiveResponse(f)
    PROVE  TypeOK'
<1>1. txn \in Txn /\ air' \subseteq Frame
  BY DEF TypeOK, ReceiveResponse
<1>2. txn' \in Txn /\ fate' \in [Msg -> Fate]
  BY <1>1, HandleCallbackType DEF ReceiveResponse
<1> QED
  BY <1>1, <1>2 DEF ReceiveResponse, TypeOK

(* HandleSendDataRequest, with HandleErrorResponse, preserves TypeOK. *)
LEMMA ReceiveCallbackTypeOK ==
    ASSUME TypeOK, NEW f \in air, ReceiveCallback(f)
    PROVE  TypeOK'
<1>1. /\ txn \in Txn /\ air' \subseteq Frame /\ awake \in [Sleeper -> BOOLEAN]
      /\ errors \in [Node -> 0..ErrorLimit] /\ nodeAlive \in [Node -> BOOLEAN]
      /\ fate \in [Msg -> Fate]
  BY DEF TypeOK, ReceiveCallback
<1>2. driver.pc = "Loop"
  BY DEF ReceiveCallback, AtLoop
<1> DEFINE n == CurrentNode
           Typed == /\ txn' \in Txn /\ fate' \in [Msg -> Fate]
                    /\ errors' \in [Node -> 0..ErrorLimit]
                    /\ nodeAlive' \in [Node -> BOOLEAN]
                    /\ awake' \in [Sleeper -> BOOLEAN]
                    /\ \/ driver' = driver
                       \/ n \in Sleeper /\ driver' = [pc |-> "Moving", node |-> n]
<1>3. ASSUME CallbackOK(f) PROVE Typed
  <2>1. HandleCallback(txn, "SendData", f.cb, NoNode, FALSE) /\ UNCHANGED driver
    BY <1>3 DEF CallbackOK
  <2>2. txn' \in Txn /\ fate' \in [Msg -> Fate]
    BY <1>1, <2>1, HandleCallbackType
  <2>3. awake' \in [Sleeper -> BOOLEAN]
    BY <1>1, <1>3 DEF CallbackOK
  <2>4. errors' \in [Node -> 0..ErrorLimit] /\ nodeAlive' \in [Node -> BOOLEAN]
    <3>1. CASE Accepted(f) /\ n \in Node
      BY <1>3, <3>1, NodeStateTypes DEF CallbackOK
    <3>2. CASE ~(Accepted(f) /\ n \in Node)
      BY <1>1, <1>3, <3>2 DEF CallbackOK
    <3> QED
      BY <3>1, <3>2
  <2> QED
    BY <2>1, <2>2, <2>3, <2>4
<1>4. ASSUME CallbackNoAck(f) PROVE Typed
  <2>1. CASE Accepted(f) /\ n \in Sleeper
    BY <1>1, <1>4, <2>1 DEF CallbackNoAck
  <2>2. CASE ~(Accepted(f) /\ n \in Sleeper)
    <3>1. HandleCallback(txn, "SendData", f.cb, NoNode, FALSE) /\ UNCHANGED <<awake, driver>>
      BY <1>4, <2>2 DEF CallbackNoAck
    <3>2. txn' \in Txn /\ fate' \in [Msg -> Fate]
      BY <1>1, <3>1, HandleCallbackType
    <3>3. errors' \in [Node -> 0..ErrorLimit] /\ nodeAlive' \in [Node -> BOOLEAN]
      <4>1. CASE Accepted(f) /\ n \in Node
        BY <1>4, <2>2, <4>1, NodeStateTypes DEF CallbackNoAck
      <4>2. CASE ~(Accepted(f) /\ n \in Node)
        BY <1>1, <1>4, <2>2, <4>2 DEF CallbackNoAck
      <4> QED
        BY <4>1, <4>2
    <3> QED
      BY <1>1, <3>1, <3>2, <3>3
  <2> QED
    BY <2>1, <2>2
<1>5. ASSUME CallbackFail(f) PROVE Typed
  <2>1. HandleCallback(txn, "SendData", f.cb, NoNode, FALSE) /\ UNCHANGED <<awake, driver>>
    BY <1>5 DEF CallbackFail
  <2>2. txn' \in Txn /\ fate' \in [Msg -> Fate]
    BY <1>1, <2>1, HandleCallbackType
  <2>3. errors' \in [Node -> 0..ErrorLimit] /\ nodeAlive' \in [Node -> BOOLEAN]
    <3>1. CASE Accepted(f) /\ n \in Node
      BY <1>5, <3>1, NodeStateTypes DEF CallbackFail
    <3>2. CASE ~(Accepted(f) /\ n \in Node)
      BY <1>1, <1>5, <3>2 DEF CallbackFail
    <3> QED
      BY <3>1, <3>2
  <2> QED
    BY <1>1, <2>1, <2>2, <2>3
<1>6. Typed
  BY <1>3, <1>4, <1>5 DEF ReceiveCallback
<1> HIDE DEF n
<1>7. /\ driver' \in [pc : {"Loop", "Moving", "Draining", "Drained", "Exited", "Crashed"},
                      node : Node \cup {NoNode}]
      /\ driver'.pc \in {"Moving", "Draining", "Drained"} => driver'.node \in Sleeper
  BY <1>6, NodesAssumption DEF TypeOK
<1> QED
  BY <1>1, <1>6, <1>7 DEF ReceiveCallback, TypeOK

(* A report handled by HandleApplicationCommandHandlerRequest preserves TypeOK. *)
LEMMA ReceiveReportTypeOK ==
    ASSUME TypeOK, NEW n \in Node, NEW c, NEW s, ReceiveReport(n, c, s)
    PROVE  TypeOK'
<1>1. txn' \in Txn /\ fate' \in [Msg -> Fate]
  BY HandleCallbackType DEF ReceiveReport, TypeOK
<1>2. errors' \in [Node -> 0..ErrorLimit] /\ nodeAlive' \in [Node -> BOOLEAN]
  BY NodeStateTypes DEF ReceiveReport
<1> QED
  BY <1>1, <1>2 DEF ReceiveReport, TypeOK

(* A wake-up notification preserves TypeOK. *)
LEMMA ReceiveWakeUpNotificationTypeOK ==
    ASSUME TypeOK, NEW n \in Sleeper, ReceiveWakeUpNotification(n)
    PROVE  TypeOK'
<1>1. n \in Node
  BY NodesAssumption
<1>2. errors' \in [Node -> 0..ErrorLimit] /\ nodeAlive' \in [Node -> BOOLEAN]
  BY <1>1, NodeStateTypes DEF ReceiveWakeUpNotification
<1>3. wakeUps' \in 0..MaxWakeUps
  BY LimitsAssumption DEF ReceiveWakeUpNotification, TypeOK
<1>4. awake' \in [Sleeper -> BOOLEAN]
  BY DEF ReceiveWakeUpNotification, TypeOK
<1>5. driver' = [pc |-> "Draining", node |-> n]
  BY DEF ReceiveWakeUpNotification
<1> QED
  BY <1>1, <1>2, <1>3, <1>4, <1>5 DEF ReceiveWakeUpNotification, TypeOK

(* Security frames that concern the message in progress. *)
LEMMA ReceiveNonceReportTypeOK ==
    ASSUME TypeOK, ReceiveNonceReport
    PROVE  TypeOK'
<1> DEFINE new == UpdateCallbackId(txn.msg)
<1>1. txn \in Txn /\ txn.msg \in MsgObj /\ txn.msg.id \in Msg
  BY DEF TypeOK, ReceiveNonceReport, Txn, MsgObj
<1>2. new \in MsgObj /\ new.id = txn.msg.id
  BY <1>1, UpdateCallbackIdType
<1>3. new.cb \in CallbackId \cup {0} /\ Target[new.id] \in Node \cup {Controller}
  BY <1>1, <1>2, MessagesAssumption DEF MsgObj
<1>4. nextCallbackId' \in CallbackId
  BY <1>1, IdAfterType DEF ReceiveNonceReport
<1> HIDE DEF new
<1>5. /\ txn' = [txn EXCEPT !.msg = new, !.cb = new.cb]
      /\ line' = line \cup {OwnFrame(new)}
  BY DEF ReceiveNonceReport, new
<1>6. txn' \in Txn
  BY <1>1, <1>2, <1>3, <1>5 DEF Txn
<1>7. OwnFrame(new) \in Frame
  BY <1>3 DEF OwnFrame, Frame, FrameFunc, CallbackId
<1>8. nonceReports' \in 0..MaxNonceReports
  BY LimitsAssumption DEF ReceiveNonceReport, TypeOK
<1> QED
  BY <1>4, <1>5, <1>6, <1>7, <1>8 DEF ReceiveNonceReport, TypeOK

(* SendNonceKey writes a frame. *)
LEMMA NonceReportFrameType ==
    ASSUME NEW n \in NonceNode
    PROVE  n \in Node /\ NonceReportFrame(n) \in Frame
  BY NodesAssumption DEF NonceReportFrame, Frame, FrameFunc, NonceReportId

(* Security frames that concern the nonces this driver sent. *)
LEMMA NonceStepsTypeOK ==
    ASSUME TypeOK, NEW n \in NonceNode,
           ReceiveNonceGet(n) \/ ReceiveUndecryptable(n)
    PROVE  TypeOK'
<1>1. n \in Node /\ NonceReportFrame(n) \in Frame
  BY NonceReportFrameType
<1>2. txn \in Txn /\ line \subseteq Frame /\ "discarded" \in Fate
  BY DEF TypeOK, Fate
<1>3. CASE ReceiveNonceGet(n)
  <2>1. txn' \in Txn
    BY <1>1, <1>2, <1>3 DEF ReceiveNonceGet, Txn
  <2>2. line' \subseteq Frame
    BY <1>1, <1>2, <1>3 DEF ReceiveNonceGet
  <2> QED
    BY <1>3, <2>1, <2>2 DEF ReceiveNonceGet, TypeOK
<1>4. CASE ReceiveUndecryptable(n)
  <2>1. txn' \in Txn /\ fate' \in [Msg -> Fate]
    BY <1>2, <1>4, RemoveCurrentMsgType DEF ReceiveUndecryptable
  <2>2. line' \subseteq Frame
    BY <1>1, <1>2, <1>4 DEF ReceiveUndecryptable
  <2> QED
    BY <1>4, <2>1, <2>2 DEF ReceiveUndecryptable, TypeOK
<1> QED
  BY <1>3, <1>4

(* An encapsulated frame with an unknown nonce preserves TypeOK. *)
LEMMA ReceiveUnknownNonceTypeOK ==
    ASSUME TypeOK, ReceiveUnknownNonce
    PROVE  TypeOK'
<1>1. txn' \in Txn
  BY NoTxnType DEF ReceiveUnknownNonce, TypeOK
<1> QED
  BY <1>1 DEF ReceiveUnknownNonce, TypeOK

(* A decrypted report preserves TypeOK. *)
LEMMA EncryptedReportTypeOK ==
    ASSUME TypeOK, NEW n \in NonceNode, NEW c, NEW s,
           ReceiveEncrypted(n, c, s) \/ ReceiveEncryptedNonceGet(n, c, s)
    PROVE  TypeOK'
<1>1. n \in Node /\ NonceReportFrame(n) \in Frame
  BY NonceReportFrameType
<1>2. txn \in Txn /\ line \subseteq Frame
  BY DEF TypeOK
<1> DEFINE t == NoNonceReportSent(txn)
<1>3. t \in Txn
  BY <1>2, NoTxnType
<1> HIDE DEF t
<1>4. [t EXCEPT !.nonceReportSent = n] \in Txn
  BY <1>1, <1>3 DEF Txn
<1>5. errors' \in [Node -> 0..ErrorLimit] /\ nodeAlive' \in [Node -> BOOLEAN]
  BY <1>1, NodeStateTypes DEF ReceiveEncrypted, ReceiveEncryptedNonceGet
<1>6. CASE ReceiveEncrypted(n, c, s)
  <2>1. txn' \in Txn /\ fate' \in [Msg -> Fate]
    BY <1>3, <1>6, HandleCallbackType DEF ReceiveEncrypted, t
  <2> QED
    BY <1>5, <1>6, <2>1 DEF ReceiveEncrypted, TypeOK
<1>7. CASE ReceiveEncryptedNonceGet(n, c, s)
  <2>1. HandleCallback([t EXCEPT !.nonceReportSent = n], "AppCommand", s, n, c)
    BY <1>7 DEF ReceiveEncryptedNonceGet, t
  <2>2. txn' \in Txn /\ fate' \in [Msg -> Fate]
    BY <1>4, <2>1, HandleCallbackType
  <2>3. line' \subseteq Frame
    BY <1>1, <1>2, <1>7 DEF ReceiveEncryptedNonceGet
  <2> QED
    BY <1>5, <1>7, <2>2, <2>3 DEF ReceiveEncryptedNonceGet, TypeOK
<1> QED
  BY <1>6, <1>7

(* Every step that starts with bytes from the controller preserves TypeOK. *)
LEMMA ReceiveStepTypeOK ==
    ASSUME TypeOK, ReceiveStep
    PROVE  TypeOK'
  BY AnswerTypeOK, ReceiveResponseTypeOK, ReceiveCallbackTypeOK, ReceiveReportTypeOK,
     ReceiveWakeUpNotificationTypeOK, ReceiveNonceReportTypeOK, NonceStepsTypeOK,
     ReceiveUnknownNonceTypeOK, EncryptedReportTypeOK
  DEF ReceiveStep

(* TypeOK is inductive. *)
LEMMA NextTypeOK ==
    ASSUME TypeOK, [Next]_vars
    PROVE  TypeOK'
<1>1. ASSUME Request PROVE TypeOK'
  BY <1>1, RequestTypeOK
<1>2. ASSUME NEW t \in Thread, ThreadStep(t) PROVE TypeOK'
  BY <1>2, ThreadStepTypeOK
<1>3. ASSUME DriverStep PROVE TypeOK'
  BY <1>3, WaitTimeoutTypeOK, WriteNextMsgTypeOK, WakeUpStepsTypeOK, MoveStepsTypeOK
  DEF DriverStep
<1>4. ASSUME ReceiveStep PROVE TypeOK'
  BY <1>4, ReceiveStepTypeOK
<1>5. ASSUME UNCHANGED vars PROVE TypeOK'
  BY <1>5 DEF vars, TypeOK
<1> QED
  BY <1>1, <1>2, <1>3, <1>4, <1>5 DEF Next

(***************************************************************************)
(* Every state the driver reaches is well typed, whatever the nodes, the   *)
(* messages and the limits: no attempt counter passes MAX_MAX_TRIES (which *)
(* WriteMsg and SetMaxSendAttempts keep between them), callback ids stay   *)
(* in 10..255, and only nodes with a wake-up class are moved or drained.   *)
(***************************************************************************)
THEOREM TypeCorrect == Spec => []TypeOK
<1>1. Init => TypeOK
  BY InitTypeOK
<1>2. TypeOK /\ [Next]_vars => TypeOK'
  BY NextTypeOK
<1> QED
  BY <1>1, <1>2, PTL DEF Spec

(***************************************************************************)
(* Safety.                                                                 *)
(***************************************************************************)
-----------------------------------------------------------------------------
(* Queue events.                                                           *)

(* m_msgQueue[q].push_back, m_queueEvent[q]->Set() under m_sendMutex. *)
LEMMA PushBackEvents ==
    ASSUME TypeOK, EventsMatchQueues, NEW q \in Queue, NEW x \in MsgObj, PushBack(q, x)
    PROVE  EventsMatchQueues'
<1>1. msgQueue \in [Queue -> Seq(MsgObj)] /\ queueEvent \in [Queue -> BOOLEAN]
  BY DEF TypeOK
<1>2. Append(msgQueue[q], x) # <<>>
  BY <1>1, AppendProperties, EmptySeq
<1> QED
  BY <1>1, <1>2 DEF PushBack, EventsMatchQueues

(* A message taken out of a queue, and the event reset with the last one. *)
LEMMA TakenEvents ==
    ASSUME TypeOK, EventsMatchQueues, NEW q \in Queue, NEW s, msgQueue[q] # <<>>,
           msgQueue' = [msgQueue EXCEPT ![q] = s], queueEvent' = ResetIfEmpty(q, s)
    PROVE  EventsMatchQueues'
<1>1. msgQueue \in [Queue -> Seq(MsgObj)] /\ queueEvent \in [Queue -> BOOLEAN]
  BY DEF TypeOK
<1>2. queueEvent[q]
  BY DEF EventsMatchQueues
<1>3. msgQueue'[q] = s /\ queueEvent'[q] = (s # <<>>)
  BY <1>1, <1>2 DEF ResetIfEmpty
<1>4. ASSUME NEW p \in Queue, p # q
      PROVE  msgQueue'[p] = msgQueue[p] /\ queueEvent'[p] = queueEvent[p]
  BY <1>1, <1>4 DEF ResetIfEmpty
<1> QED
  BY <1>3, <1>4 DEF EventsMatchQueues

(* Each step keeps a queue's event set exactly while the queue holds something. *)
LEMMA NextEvents ==
    ASSUME TypeOK, EventsMatchQueues, [Next]_vars
    PROVE  EventsMatchQueues'
<1>1. ASSUME UNCHANGED <<msgQueue, queueEvent>> PROVE EventsMatchQueues'
  BY <1>1 DEF EventsMatchQueues
<1>2. ASSUME Request PROVE EventsMatchQueues'
  <2> PICK m \in Msg : \/ \E t \in Thread : AppSendMsg(t, m)
                       \/ TimerFires(m)
                       \/ WatcherSendMsg(m)
    BY <1>2 DEF Request
  <2>1. ASSUME NEW t \in Thread, SendMsg(t, m) PROVE EventsMatchQueues'
    BY <2>1, <1>1 DEF SendMsg
  <2>2. CASE WatcherSendMsg(m) /\ ~Asleep(Target[m])
    BY <2>2, PushBackEvents, NewMsgType, MessagesAssumption DEF WatcherSendMsg, Queue
  <2>3. CASE WatcherSendMsg(m) /\ Asleep(Target[m])
    BY <2>3, <1>1 DEF WatcherSendMsg
  <2> QED
    BY <2>1, <2>2, <2>3, ThreadsAssumption DEF AppSendMsg, TimerFires
<1>3. ASSUME NEW t \in Thread, ThreadStep(t) PROVE EventsMatchQueues'
  <2>1. CASE SendMsgPark(t)
    BY <2>1, <1>1 DEF SendMsgPark
  <2>2. CASE SendMsgPush(t)
    <3>1. call[t].msg \in MsgObj /\ QueueOf[call[t].msg.id] \in Queue
      BY <2>2, MessagesAssumption DEF SendMsgPush, TypeOK, MsgObj, Queue
    <3> QED
      BY <2>2, <3>1, PushBackEvents DEF SendMsgPush
  <2>3. CASE SendMsgLocked(t)
    BY <2>3, <1>1 DEF SendMsgLocked
  <2> QED
    BY <1>3, <2>1, <2>2, <2>3 DEF ThreadStep
<1>4. ASSUME DriverStep PROVE EventsMatchQueues'
  <2>1. ASSUME WaitTimeout \/ SendPendingDone \/ SendToSleepLater \/ MoveCurrentMsg \/ MoveDone
        PROVE  UNCHANGED <<msgQueue, queueEvent>>
    BY <2>1 DEF WaitTimeout, SendPendingDone, SendToSleepLater, MoveCurrentMsg, MoveDone
  <2>2. ASSUME NEW q \in Queue, WriteNextMsg(q) PROVE EventsMatchQueues'
    BY <2>2, TakenEvents DEF WriteNextMsg
  <2>3. MsgQueue_WakeUp \in Queue
    BY DEF Queue, MsgQueue_WakeUp
  <2>4. CASE SendPending
    <3>1. pending[driver.node] \in Seq(MsgObj) /\ pending[driver.node] # <<>>
      BY <2>4 DEF SendPending, TypeOK
    <3>2. Head(pending[driver.node]) \in MsgObj
      BY <3>1, HeadTailProperties
    <3> QED
      BY <2>3, <2>4, <3>2, PushBackEvents DEF SendPending
  <2>5. ASSUME NEW m \in Msg, SendToSleepNow(m) PROVE EventsMatchQueues'
    BY <2>3, <2>5, PushBackEvents, NewMsgType DEF SendToSleepNow
  <2>6. ASSUME NEW q \in Queue, NEW i \in DOMAIN msgQueue[q], MoveQueuedMsg(q, i)
        PROVE  EventsMatchQueues'
    <3>1. i \in 1..Len(msgQueue[q]) /\ msgQueue[q] \in Seq(MsgObj)
      BY QueueContents
    <3>2. msgQueue[q] # <<>>
      BY <3>1, EmptySeq
    <3> QED
      BY <2>6, <3>2, TakenEvents DEF MoveQueuedMsg
  <2> QED
    BY <1>1, <1>4, <2>1, <2>2, <2>4, <2>5, <2>6 DEF DriverStep
<1>5. ASSUME ReceiveStep PROVE EventsMatchQueues'
  <2>1. UNCHANGED <<msgQueue, queueEvent>>
    BY <1>5
    DEF ReceiveStep, ReadACK, ReadCAN, ReadNAK, LoseACK, ReceiveResponse, ReceiveCallback,
        ReceiveReport, ReceiveWakeUpNotification, ReceiveNonceReport, ReceiveUnknownNonce,
        ReceiveNonceGet, ReceiveUndecryptable, ReceiveEncrypted, ReceiveEncryptedNonceGet
  <2> QED
    BY <1>1, <2>1
<1>6. ASSUME UNCHANGED vars PROVE EventsMatchQueues'
  BY <1>1, <1>6 DEF vars
<1> QED
  BY <1>2, <1>3, <1>4, <1>5, <1>6 DEF Next

(***************************************************************************)
(* A queue's event is set exactly while the queue holds a message: every   *)
(* place of SendMsg, SendPending, WriteNextMsg and                         *)
(* MoveMessagesToWakeUpQueue that changes a queue keeps its event right,   *)
(* so the driver thread neither sleeps beside a message nor takes the      *)
(* front of an empty list.                                                 *)
(***************************************************************************)
THEOREM EventsCorrect == Spec => []EventsMatchQueues
<1>1. Init => EventsMatchQueues
  BY DEF Init, EventsMatchQueues
<1>2. TypeOK /\ EventsMatchQueues /\ [Next]_vars => EventsMatchQueues'
  BY NextEvents
<1> QED
  BY <1>1, <1>2, TypeCorrect, PTL DEF Spec

-----------------------------------------------------------------------------
(***************************************************************************)
(* What the driver waits for.  The invariant is about the whole group of   *)
(* m_currentMsg and m_expected...: Expects(t) ties each of them to the     *)
(* message in t, and says that a driver that waits for nothing names no    *)
(* node either, so that the next message taken by WriteNextMsg starts      *)
(* clean even when a nonce report is written in its place.                 *)
(***************************************************************************)
Busy(t) == t.ack \/ t.cb # 0 \/ t.reply # "None"

Expects(t) ==
    /\ ~Busy(t) => t.node = NoNode
    /\ t.msg = NoMsg => ~Busy(t)
    /\ t.msg # NoMsg => /\ t.cb \in {0, t.msg.cb}
                        /\ t.reply \in {"None", ExpectedReply(t.msg.id)}
                        /\ t.node \in {NoNode, Target[t.msg.id]}

(* Without nonce reports a message in progress always waits for something. *)
Engaged(t) ==
    NonceNode = {} => t.nonceReportSent = NoNode /\ (t.msg # NoMsg => Busy(t))

TxnInv == Expects(txn) /\ Engaged(txn)

(* Nothing is in progress and nothing awaited after RemoveCurrentMsg. *)
LEMMA NoTxnInv ==
    ASSUME NEW t
    PROVE  /\ Expects(NoTxn) /\ Engaged(NoTxn)
           /\ Expects(ForgetCurrent(t))
           /\ t.nonceReportSent = NoNode => Engaged(ForgetCurrent(t))
           /\ NonceNode # {} => Engaged(ForgetCurrent(t))
  BY DEF NoTxn, ForgetCurrent, Expects, Engaged, Busy

(* WriteMsg: the new expectations are those of the message that is written. *)
LEMMA WriteMsgInv ==
    ASSUME TypeOK, NEW t \in Txn, t.msg \in MsgObj, Expects(t),
           NonceNode = {} => t.nonceReportSent = NoNode, WriteMsg(t)
    PROVE  TxnInv'
<1>1. t.msg # NoMsg
  BY NoMsgAssumption
<1>2. CASE WriteMsgGivesUp(t)
  BY <1>2, NoTxnInv DEF WriteMsg, WriteMsgDrop, TxnInv
<1>3. CASE ~WriteMsgGivesUp(t) /\ t.nonceReportSent # NoNode
  <2>1. txn' = [t EXCEPT !.nonceReportSentAttempt = @ + 1]
    BY <1>3 DEF WriteMsg, WriteMsgNonceReport
  <2>2. /\ txn'.msg = t.msg /\ txn'.cb = t.cb /\ txn'.reply = t.reply
        /\ txn'.node = t.node /\ txn'.ack = t.ack
    BY <2>1 DEF Txn
  <2> QED
    BY <1>3, <2>2 DEF TxnInv, Expects, Engaged, Busy
<1>4. CASE ~WriteMsgGivesUp(t) /\ t.nonceReportSent = NoNode
  <2> DEFINE upd == IF t.msg.attempts # 0 THEN UpdateCallbackId(t.msg) ELSE t.msg
             new == Attempted(upd)
  <2>1. upd \in MsgObj /\ upd.id = t.msg.id /\ upd.attempts = t.msg.attempts
    BY UpdateCallbackIdType
  <2> HIDE DEF upd
  <2>2. new.id = t.msg.id /\ new.cb = upd.cb
    BY <2>1 DEF Attempted, MsgObj
  <2> HIDE DEF new
  <2>3. txn' = [t EXCEPT !.msg = new, !.cb = new.cb, !.reply = ExpectedReply(t.msg.id),
                         !.node = Target[t.msg.id], !.ack = TRUE]
    BY <1>4 DEF WriteMsg, WriteMsgSend, upd, new
  <2>4. /\ txn'.msg = new /\ txn'.cb = new.cb /\ txn'.ack = TRUE
        /\ txn'.reply = ExpectedReply(t.msg.id) /\ txn'.node = Target[t.msg.id]
        /\ txn'.nonceReportSent = NoNode
    BY <1>4, <2>3 DEF Txn
  <2>5. new # NoMsg
    <3>1. t.msg.attempts + 1 \in 0..MAX_MAX_TRIES
      BY <1>4, LimitsAssumption DEF WriteMsgGivesUp, LimitReached, MsgObj
    <3>2. new \in MsgObj
      BY <2>1, <3>1 DEF MsgObj, Attempted, new
    <3> QED
      BY <3>2, NoMsgAssumption
  <2> QED
    BY <2>2, <2>4, <2>5 DEF TxnInv, Expects, Engaged, Busy
<1> QED
  BY <1>2, <1>3, <1>4

(* The callback handling clears an expectation, or ends the transaction. *)
LEMMA HandleCallbackInv ==
    ASSUME NEW t \in Txn, Expects(t), Engaged(t),
           NEW func, NEW cb, NEW n, NEW expectedClass,
           HandleCallback(t, func, cb, n, expectedClass)
    PROVE  TxnInv'
<1> DEFINE r == AfterReply(t, func, cb, n, expectedClass)
<1>1. CASE txn' = t
  BY <1>1 DEF TxnInv
<1>2. CASE txn' = NoTxn
  BY <1>2, NoTxnInv DEF TxnInv
<1>3. CASE /\ ~(t.cb = 0 /\ t.reply = "None")
           /\ ~(r.cb = 0 /\ r.reply = "None")
           /\ txn' = r
  <2>1. t.msg # NoMsg
    BY <1>3 DEF Expects, Busy
  <2>2. /\ r.msg = t.msg /\ r.cb \in {0, t.cb} /\ r.reply \in {"None", t.reply}
        /\ r.node \in {NoNode, t.node} /\ r.nonceReportSent = t.nonceReportSent
    BY DEF AfterReply, Txn
  <2>3. Busy(r)
    BY <1>3 DEF Busy
  <2> HIDE DEF r
  <2> QED
    BY <1>3, <2>1, <2>2, <2>3 DEF TxnInv, Expects, Engaged
<1> QED
  BY <1>1, <1>2, <1>3 DEF HandleCallback, RemoveCurrentMsg

(* ReadCAN, ReadNAK and ReceiveNonceReport replace the message object, not  *)
(* what it is.                                                             *)
LEMMA SetMaxSendAttemptsSame ==
    ASSUME NEW x \in MsgObj
    PROVE  /\ SetMaxSendAttempts(x) \in MsgObj
           /\ SetMaxSendAttempts(x).id = x.id /\ SetMaxSendAttempts(x).cb = x.cb
           /\ SetMaxSendAttempts(x).attempts = x.attempts
<1>1. /\ x.maxAttempts \in 0..MAX_MAX_TRIES
      /\ x.maxAttempts + 1 < MAX_MAX_TRIES => x.maxAttempts + 1 \in 0..MAX_MAX_TRIES
  BY LimitsAssumption DEF MsgObj
<1> QED
  BY <1>1 DEF SetMaxSendAttempts, MsgObj

(* A CAN or NAK, which retries the current message, keeps TxnInv. *)
LEMMA RetryRaisedInv ==
    ASSUME TypeOK, TxnInv, txn.msg # NoMsg,
           txn' = [txn EXCEPT !.msg = SetMaxSendAttempts(txn.msg)]
    PROVE  TxnInv'
<1> DEFINE y == SetMaxSendAttempts(txn.msg)
<1>1. txn \in Txn /\ txn.msg \in MsgObj
  BY DEF TypeOK, Txn
<1>2. y \in MsgObj /\ y.id = txn.msg.id /\ y.cb = txn.msg.cb
  BY <1>1, SetMaxSendAttemptsSame
<1> HIDE DEF y
<1>3. txn' = [txn EXCEPT !.msg = y]
  BY DEF y
<1>4. /\ txn'.msg = y /\ txn'.cb = txn.cb /\ txn'.reply = txn.reply
      /\ txn'.node = txn.node /\ txn'.ack = txn.ack
      /\ txn'.nonceReportSent = txn.nonceReportSent
  BY <1>1, <1>3 DEF Txn
<1>5. y # NoMsg
  BY <1>2, NoMsgAssumption
<1> QED
  BY <1>2, <1>4, <1>5 DEF TxnInv, Expects, Engaged, Busy

(* The ACK ends a transaction that awaits nothing else, and only that one.  *)
LEMMA ReadACKInv ==
    ASSUME TypeOK, TxnInv, NEW f \in line, ReadACK(f)
    PROVE  TxnInv'
<1>1. txn \in Txn
  BY DEF TypeOK
<1>2. CASE AckCompletes
  BY <1>2, NoTxnInv DEF ReadACK, RemoveCurrentMsg, TxnInv
<1>3. CASE ~AckCompletes
  <2>1. txn' = [txn EXCEPT !.ack = FALSE]
    BY <1>3 DEF ReadACK
  <2>2. /\ txn'.msg = txn.msg /\ txn'.cb = txn.cb /\ txn'.reply = txn.reply
        /\ txn'.node = txn.node /\ txn'.ack = FALSE
        /\ txn'.nonceReportSent = txn.nonceReportSent
    BY <1>1, <2>1 DEF Txn
  <2>3. txn.msg # NoMsg => txn.cb # 0 \/ txn.reply # "None"
    BY <1>3 DEF AckCompletes
  <2> QED
    BY <2>2, <2>3 DEF TxnInv, Expects, Engaged, Busy
<1> QED
  BY <1>2, <1>3

(* SecurityCmd_NonceReport: a new id, expected from now on. *)
LEMMA ReceiveNonceReportInv ==
    ASSUME TypeOK, TxnInv, ReceiveNonceReport
    PROVE  TxnInv'
<1> DEFINE new == UpdateCallbackId(txn.msg)
<1>1. txn \in Txn /\ txn.msg \in MsgObj /\ txn.msg # NoMsg /\ NonceNode # {}
  BY DEF TypeOK, ReceiveNonceReport, Txn
<1>2. new \in MsgObj /\ new.id = txn.msg.id
  BY <1>1, UpdateCallbackIdType
<1> HIDE DEF new
<1>3. txn' = [txn EXCEPT !.msg = new, !.cb = new.cb]
  BY DEF ReceiveNonceReport, new
<1>4. /\ txn'.msg = new /\ txn'.cb = new.cb /\ txn'.reply = txn.reply
      /\ txn'.node = txn.node /\ txn'.ack = txn.ack
  BY <1>1, <1>3 DEF Txn
<1>5. new # NoMsg
  BY <1>2, NoMsgAssumption
<1>6. ASSUME ~Busy(txn') PROVE txn'.node = NoNode
  <2>1. txn.cb # 0 => txn.msg.cb # 0
    BY <1>1 DEF TxnInv, Expects
  <2>2. txn.msg.cb # 0 => new.cb # 0
    <3>1. nextCallbackId # 0
      <4>1. nextCallbackId \in CallbackId
        BY DEF TypeOK
      <4> QED
        BY <4>1 DEF CallbackId
    <3>2. new.cb \in {txn.msg.cb, nextCallbackId}
      BY <1>1 DEF new, UpdateCallbackId, MsgObj
    <3> QED
      BY <3>1, <3>2
  <2>3. ~Busy(txn)
    BY <1>4, <1>6, <2>1, <2>2 DEF Busy
  <2> QED
    BY <1>4, <2>3 DEF TxnInv, Expects
<1> QED
  BY <1>1, <1>2, <1>4, <1>5, <1>6 DEF TxnInv, Expects, Engaged

(* A handler that only touches the record of the nonce report. *)
LEMMA SameExpectations ==
    ASSUME NEW t \in Txn, NEW u \in Txn, Expects(t), Engaged(t),
           u.msg = t.msg, u.cb = t.cb, u.reply = t.reply, u.node = t.node, u.ack = t.ack,
           NonceNode = {} => u.nonceReportSent = NoNode
    PROVE  Expects(u) /\ Engaged(u)
  BY DEF Expects, Engaged, Busy

(* The driver thread's own steps keep TxnInv. *)
LEMMA DriverStepTxnInv ==
    ASSUME TypeOK, TxnInv, DriverStep
    PROVE  TxnInv'
<1>1. txn \in Txn
  BY DEF TypeOK
<1>2. CASE WaitTimeout
  <2>1. CASE txn.msg = NoMsg
    BY <1>2, <2>1, NoTxnInv DEF WaitTimeout, WriteNoMsg, TxnInv, Engaged
  <2>2. CASE txn.msg # NoMsg
    <3>1. txn.msg \in MsgObj /\ WriteMsg(txn)
      BY <1>1, <1>2, <2>2 DEF WaitTimeout, Txn
    <3> QED
      BY <1>1, <3>1, WriteMsgInv DEF TxnInv, Engaged
  <2> QED
    BY <2>1, <2>2
<1>3. ASSUME NEW q \in Queue, WriteNextMsg(q) PROVE TxnInv'
  <2> DEFINE t == [txn EXCEPT !.msg = Head(msgQueue[q])]
  <2>1. Head(msgQueue[q]) \in MsgObj
    BY <1>3, QueueContents DEF WriteNextMsg
  <2>2. t \in Txn /\ t.msg \in MsgObj /\ t.nonceReportSent = txn.nonceReportSent
    BY <1>1, <2>1 DEF Txn
  <2>3. t.cb = 0 /\ t.reply = "None" /\ ~t.ack /\ t.node = NoNode
    BY <1>1, <1>3 DEF WriteNextMsg, Waiting, TxnInv, Expects, Busy, Txn
  <2>4. WriteMsg(t)
    BY <1>3 DEF WriteNextMsg
  <2> HIDE DEF t
  <2>5. Expects(t)
    BY <2>3 DEF Expects, Busy
  <2> QED
    BY <2>2, <2>4, <2>5, WriteMsgInv DEF TxnInv, Engaged
<1>4. CASE MoveCurrentMsg
  BY <1>4, NoTxnInv DEF MoveCurrentMsg, TxnInv, Engaged
<1>5. ASSUME UNCHANGED txn PROVE TxnInv'
  BY <1>5 DEF TxnInv
<1>6. ASSUME \/ SendPending \/ SendPendingDone \/ SendToSleepLater \/ MoveDone
             \/ \E m \in Msg : SendToSleepNow(m)
             \/ \E q \in Queue : \E i \in DOMAIN msgQueue[q] : MoveQueuedMsg(q, i)
      PROVE  UNCHANGED txn
  BY <1>6 DEF SendPending, SendPendingDone, SendToSleepLater, MoveDone, SendToSleepNow,
              MoveQueuedMsg
<1> QED
  BY <1>2, <1>3, <1>4, <1>5, <1>6 DEF DriverStep

(* Every step that starts with bytes from the controller keeps TxnInv. *)
LEMMA ReceiveStepTxnInv ==
    ASSUME TypeOK, TxnInv, ReceiveStep
    PROVE  TxnInv'
<1>1. txn \in Txn
  BY DEF TypeOK
<1>2. ASSUME UNCHANGED txn PROVE TxnInv'
  BY <1>2 DEF TxnInv
<1>3. ASSUME NEW f \in line, ReadACK(f) \/ ReadCAN(f) \/ ReadNAK(f) \/ LoseACK(f)
      PROVE  TxnInv'
  BY <1>2, <1>3, ReadACKInv, RetryRaisedInv DEF ReadCAN, ReadNAK, LoseACK
<1>4. ASSUME NEW f \in air, ReceiveResponse(f) \/ ReceiveCallback(f) PROVE TxnInv'
  BY <1>1, <1>2, <1>4, HandleCallbackInv
  DEF ReceiveResponse, ReceiveCallback, CallbackOK, CallbackNoAck, CallbackFail, TxnInv
<1>5. ASSUME NEW n \in Node, NEW c, NEW s, ReceiveReport(n, c, s) PROVE TxnInv'
  BY <1>1, <1>5, HandleCallbackInv DEF ReceiveReport, TxnInv
<1>6. ASSUME NEW n \in Sleeper, ReceiveWakeUpNotification(n) PROVE TxnInv'
  BY <1>2, <1>6 DEF ReceiveWakeUpNotification
<1>7. ASSUME NEW n \in NonceNode, ReceiveNonceGet(n) \/ ReceiveUndecryptable(n)
      PROVE  TxnInv'
  <2>1. CASE ReceiveNonceGet(n)
    <3>1. txn' = [txn EXCEPT !.nonceReportSent = n]
      BY <2>1 DEF ReceiveNonceGet
    <3>2. /\ txn'.msg = txn.msg /\ txn'.cb = txn.cb /\ txn'.reply = txn.reply
          /\ txn'.node = txn.node /\ txn'.ack = txn.ack
      BY <1>1, <3>1 DEF Txn
    <3> QED
      BY <3>2 DEF TxnInv, Expects, Engaged, Busy
  <2>2. CASE ReceiveUndecryptable(n)
    BY <2>2, NoTxnInv DEF ReceiveUndecryptable, RemoveCurrentMsg, TxnInv
  <2> QED
    BY <1>7, <2>1, <2>2
<1>8. CASE ReceiveNonceReport
  BY <1>8, ReceiveNonceReportInv
<1> DEFINE t == NoNonceReportSent(txn)
<1>9. t \in Txn /\ Expects(t) /\ Engaged(t)
  <2>1. t \in Txn
    BY <1>1, NoTxnType
  <2>2. /\ t.msg = txn.msg /\ t.cb = txn.cb /\ t.reply = txn.reply /\ t.node = txn.node
        /\ t.ack = txn.ack /\ t.nonceReportSent = NoNode
    BY <1>1 DEF Txn, NoNonceReportSent
  <2> HIDE DEF t
  <2> QED
    BY <1>1, <2>1, <2>2, SameExpectations DEF TxnInv
<1> HIDE DEF t
<1>10. CASE ReceiveUnknownNonce
  BY <1>9, <1>10 DEF ReceiveUnknownNonce, TxnInv, t
<1>11. ASSUME NEW n \in NonceNode, NEW c, NEW s,
              ReceiveEncrypted(n, c, s) \/ ReceiveEncryptedNonceGet(n, c, s)
       PROVE  TxnInv'
  <2> DEFINE u == [t EXCEPT !.nonceReportSent = n]
  <2>1. u \in Txn /\ Expects(u) /\ Engaged(u)
    <3>1. n \in Node
      BY NodesAssumption
    <3>2. /\ u \in Txn /\ u.msg = t.msg /\ u.cb = t.cb /\ u.reply = t.reply
          /\ u.node = t.node /\ u.ack = t.ack
      BY <1>9, <3>1 DEF Txn
    <3> HIDE DEF u
    <3> QED
      BY <1>9, <3>2, SameExpectations
  <2>2. \/ HandleCallback(t, "AppCommand", s, n, c)
        \/ HandleCallback(u, "AppCommand", s, n, c)
    BY <1>11 DEF ReceiveEncrypted, ReceiveEncryptedNonceGet, t
  <2> HIDE DEF u
  <2> QED
    BY <1>9, <2>1, <2>2, HandleCallbackInv
<1> QED
  BY <1>3, <1>4, <1>5, <1>6, <1>7, <1>8, <1>10, <1>11 DEF ReceiveStep

(* TxnInv is inductive relative to TypeOK. *)
LEMMA NextTxnInv ==
    ASSUME TypeOK, TxnInv, [Next]_vars
    PROVE  TxnInv'
<1>1. ASSUME UNCHANGED txn PROVE TxnInv'
  BY <1>1 DEF TxnInv
<1>2. ASSUME Request PROVE UNCHANGED txn
  BY <1>2 DEF Request, AppSendMsg, TimerFires, WatcherSendMsg, SendMsg
<1>3. ASSUME NEW t \in Thread, ThreadStep(t) PROVE UNCHANGED txn
  BY <1>3 DEF ThreadStep, SendMsgLocked, SendMsgPark, SendMsgPush
<1>4. ASSUME UNCHANGED vars PROVE UNCHANGED txn
  BY <1>4 DEF vars
<1> QED
  BY <1>1, <1>2, <1>3, <1>4, DriverStepTxnInv, ReceiveStepTxnInv DEF Next

(* TxnInv holds in every reachable state. *)
LEMMA TxnInvCorrect == Spec => []TxnInv
<1>1. Init => TxnInv
  BY NoTxnInv DEF Init, TxnInv
<1>2. TypeOK /\ TxnInv /\ [Next]_vars => TxnInv'
  BY NextTxnInv
<1> QED
  BY <1>1, <1>2, TypeCorrect, PTL DEF Spec

(***************************************************************************)
(* m_expectedCallbackId, m_expectedReply and m_expectedNodeId always belong *)
(* to m_currentMsg: ACKs, callbacks, reports, nonces, retries and moves to *)
(* a wake-up queue, in any order, never leave one of them behind from      *)
(* another message, nor anything expected when there is no message.        *)
(***************************************************************************)
THEOREM ExpectationsCorrect == Spec => []ExpectationsOfCurrent
<1>1. TxnInv => ExpectationsOfCurrent
  BY DEF TxnInv, Expects, Busy, ExpectationsOfCurrent, Waiting
<1> QED
  BY <1>1, TxnInvCorrect, PTL

(***************************************************************************)
(* In a network without the Security class, a message in progress always   *)
(* waits for something, so WriteNextMsg, which assigns m_currentMsg         *)
(* without looking at it, never loses one.                                 *)
(***************************************************************************)
THEOREM CurrentNeverOverwritten == Spec => []NeverOverwritten
<1>1. TxnInv => NeverOverwritten
  BY DEF TxnInv, Engaged, Busy, NeverOverwritten, Waiting
<1> QED
  BY <1>1, TxnInvCorrect, PTL

-----------------------------------------------------------------------------
(***************************************************************************)
(* Attempts.  A message may be written from the current slot, wait in a    *)
(* send queue, be parked, or be in the hands of a thread: wherever it is,  *)
(* its attempts are within its limit, and the limit below MAX_MAX_TRIES.   *)
(***************************************************************************)
Limited == {x \in MsgObj : WithinLimit(x)}

AttemptsInv ==
    /\ txn.msg \in Limited \cup {NoMsg}
    /\ msgQueue \in [Queue -> Seq(Limited)]
    /\ pending \in [Sleeper -> Seq(Limited)]
    /\ \A t \in Thread : call[t].pc # "idle" => call[t].msg \in Limited

(* A message just finalized is within its limit. *)
LEMMA NewMsgLimited ==
    ASSUME TypeOK, NEW m \in Msg
    PROVE  NewMsg(m) \in Limited
<1>1. NewMsg(m) \in MsgObj
  BY NewMsgType
<1>2. NewMsg(m).attempts = 0 /\ NewMsg(m).maxAttempts = MAX_TRIES
  BY DEF NewMsg
<1> QED
  BY <1>1, <1>2, LimitsAssumption DEF Limited, WithinLimit

(* The limit is compared before the attempt is counted. *)
LEMMA WriteMsgLimited ==
    ASSUME TypeOK, NEW t \in Txn, t.msg \in Limited, WriteMsg(t)
    PROVE  txn'.msg \in Limited \cup {NoMsg}
<1>1. CASE WriteMsgGivesUp(t)
  BY <1>1 DEF WriteMsg, WriteMsgDrop, NoTxn
<1>2. CASE ~WriteMsgGivesUp(t) /\ t.nonceReportSent # NoNode
  BY <1>2 DEF WriteMsg, WriteMsgNonceReport, Txn
<1>3. CASE ~WriteMsgGivesUp(t) /\ t.nonceReportSent = NoNode
  <2> DEFINE x   == t.msg
             upd == IF x.attempts # 0 THEN UpdateCallbackId(x) ELSE x
             new == Attempted(upd)
  <2>1. /\ x \in MsgObj /\ x.attempts \in Nat /\ x.maxAttempts \in Nat
        /\ x.attempts < x.maxAttempts /\ x.maxAttempts < MAX_MAX_TRIES
    BY <1>3, LimitsAssumption DEF WriteMsgGivesUp, LimitReached, Limited, WithinLimit, MsgObj
  <2>2. upd \in MsgObj /\ upd.attempts = x.attempts /\ upd.maxAttempts = x.maxAttempts
    BY <2>1, UpdateCallbackIdType
  <2> HIDE DEF upd, x
  <2>3. x.attempts + 1 \in 0..MAX_MAX_TRIES /\ x.attempts + 1 <= x.maxAttempts
    BY <2>1, LimitsAssumption
  <2>4. /\ new \in MsgObj
        /\ new.attempts = x.attempts + 1 /\ new.maxAttempts = x.maxAttempts
    BY <2>2, <2>3 DEF MsgObj, Attempted
  <2>5. new \in Limited
    BY <2>1, <2>3, <2>4 DEF Limited, WithinLimit
  <2> HIDE DEF new
  <2>6. txn' = [t EXCEPT !.msg = new, !.cb = new.cb, !.reply = ExpectedReply(t.msg.id),
                         !.node = Target[t.msg.id], !.ack = TRUE]
    BY <1>3 DEF WriteMsg, WriteMsgSend, upd, new, x
  <2>7. txn'.msg = new
    BY <2>6 DEF Txn
  <2> QED
    BY <2>5, <2>7
<1> QED
  BY <1>1, <1>2, <1>3

(* A parked message starts over, with the limit it had reached. *)
LEMMA QueueMsgLimited ==
    ASSUME TypeOK, pending \in [Sleeper -> Seq(Limited)],
           NEW n \in Sleeper, NEW x \in Limited, QueueMsg(n, x)
    PROVE  pending' \in [Sleeper -> Seq(Limited)]
<1> DEFINE new == [x EXCEPT !.attempts = 0]
<1>1. new \in Limited
  <2>1. x \in MsgObj /\ x.maxAttempts \in 0..MAX_MAX_TRIES /\ x.maxAttempts < MAX_MAX_TRIES
    BY DEF Limited, WithinLimit, MsgObj
  <2>2. new \in MsgObj
    <3>1. x \in MsgObj /\ 0 \in 0..MAX_MAX_TRIES
      BY <2>1, LimitsAssumption
    <3> QED
      BY <3>1 DEF MsgObj
  <2>3. new.attempts = 0 /\ new.maxAttempts = x.maxAttempts
    BY <2>1 DEF MsgObj
  <2>4. 0 <= x.maxAttempts
    BY <2>1, LimitsAssumption
  <2> HIDE DEF new
  <2> QED
    BY <2>1, <2>2, <2>3, <2>4 DEF Limited, WithinLimit
<1> HIDE DEF new
<1>2. CASE Duplicate(n, x) = {}
  <2>1. pending' = [pending EXCEPT ![n] = Append(pending[n], new)]
    BY <1>2 DEF QueueMsg, new
  <2> QED
    BY <2>1, <1>1, AppendProperties
<1>3. CASE Duplicate(n, x) # {}
  <2>1. PICK i \in Duplicate(n, x) :
              pending' = [pending EXCEPT ![n] = Append(RemoveAt(pending[n], i), new)]
    BY <1>3 DEF QueueMsg, new
  <2>2. i \in 1..Len(pending[n])
    BY LenProperties DEF Duplicate
  <2>3. RemoveAt(pending[n], i) \in Seq(Limited)
    BY <2>2, RemoveAtType
  <2> QED
    BY <2>1, <2>3, <1>1, AppendProperties
<1> QED
  BY <1>2, <1>3

(* push_back of a message within its limit keeps the queues so. *)
LEMMA PushBackLimited ==
    ASSUME TypeOK, AttemptsInv, NEW q \in Queue, NEW x \in Limited, PushBack(q, x)
    PROVE  msgQueue' \in [Queue -> Seq(Limited)]
  BY AppendProperties DEF AttemptsInv, PushBack

(* SendMsg, on whatever thread, keeps every message within its limit. *)
LEMMA ThreadsLimited ==
    ASSUME TypeOK, AttemptsInv, Request \/ \E t \in Thread : ThreadStep(t)
    PROVE  AttemptsInv'
<1>1. ASSUME NEW m \in Msg, NEW t \in Thread, SendMsg(t, m) PROVE AttemptsInv'
  <2>1. \A u \in Thread : call'[u].pc # "idle" => call'[u].msg \in Limited
    BY <1>1, NewMsgLimited DEF SendMsg, AttemptsInv, TypeOK
  <2> QED
    BY <1>1, <2>1 DEF SendMsg, AttemptsInv
<1>2. ASSUME NEW m \in Msg, WatcherSendMsg(m) PROVE AttemptsInv'
  <2>1. CASE Asleep(Target[m])
    <3>1. pending' \in [Sleeper -> Seq(Limited)]
      BY <1>2, <2>1, NewMsgLimited, QueueMsgLimited
      DEF WatcherSendMsg, Asleep, AttemptsInv
    <3> QED
      BY <1>2, <2>1, <3>1 DEF WatcherSendMsg, AttemptsInv
  <2>2. CASE ~Asleep(Target[m])
    <3>1. QueueOf[m] \in Queue
      BY MessagesAssumption DEF Queue
    <3>2. msgQueue' \in [Queue -> Seq(Limited)]
      BY <1>2, <2>2, <3>1, NewMsgLimited, PushBackLimited DEF WatcherSendMsg
    <3> QED
      BY <1>2, <2>2, <3>2 DEF WatcherSendMsg, AttemptsInv
  <2> QED
    BY <2>1, <2>2
<1>3. ASSUME NEW t \in Thread, ThreadStep(t) PROVE AttemptsInv'
  <2>1. \A u \in Thread : [call EXCEPT ![t] = [pc |-> "idle", msg |-> NoMsg]][u].pc # "idle"
                => [call EXCEPT ![t] = [pc |-> "idle", msg |-> NoMsg]][u].msg \in Limited
    BY DEF AttemptsInv, TypeOK
  <2>2. CASE SendMsgPark(t)
    <3>1. call[t].msg \in Limited /\ Target[call[t].msg.id] \in Sleeper
      BY <2>2 DEF SendMsgPark, AttemptsInv, TypeOK
    <3>2. pending' \in [Sleeper -> Seq(Limited)]
      BY <2>2, <3>1, QueueMsgLimited DEF SendMsgPark, AttemptsInv
    <3> QED
      BY <2>1, <2>2, <3>2 DEF SendMsgPark, AttemptsInv
  <2>3. CASE SendMsgPush(t)
    <3>1. call[t].msg \in Limited /\ QueueOf[call[t].msg.id] \in Queue
      BY <2>3, MessagesAssumption DEF SendMsgPush, AttemptsInv, Limited, MsgObj, Queue
    <3>2. msgQueue' \in [Queue -> Seq(Limited)]
      BY <2>3, <3>1, PushBackLimited DEF SendMsgPush
    <3> QED
      BY <2>1, <2>3, <3>2 DEF SendMsgPush, AttemptsInv
  <2>4. CASE SendMsgLocked(t)
    <3>1. \A u \in Thread : call'[u].pc # "idle" => call'[u].msg \in Limited
      BY <2>4 DEF SendMsgLocked, AttemptsInv, TypeOK
    <3> QED
      BY <2>4, <3>1 DEF SendMsgLocked, AttemptsInv
  <2> QED
    BY <1>3, <2>2, <2>3, <2>4 DEF ThreadStep
<1> QED
  BY <1>1, <1>2, <1>3, ThreadsAssumption DEF Request, AppSendMsg, TimerFires

(* Moving a message to a wake-up queue keeps the parked ones within their limit. *)
LEMMA MoveOrDeleteLimited ==
    ASSUME TypeOK, AttemptsInv, NEW n \in Sleeper, NEW x \in Limited, MoveOrDelete(n, x)
    PROVE  pending' \in [Sleeper -> Seq(Limited)]
  BY QueueMsgLimited DEF MoveOrDelete, AttemptsInv

(* The driver thread's own steps keep every message within its limit. *)
LEMMA DriverStepLimited ==
    ASSUME TypeOK, AttemptsInv, DriverStep
    PROVE  AttemptsInv'
<1>1. txn \in Txn /\ (driver.pc \in {"Moving", "Draining", "Drained"} => driver.node \in Sleeper)
  BY DEF TypeOK
<1>2. MsgQueue_WakeUp \in Queue
  BY DEF Queue, MsgQueue_WakeUp
<1>3. CASE WaitTimeout
  <2>1. txn'.msg \in Limited \cup {NoMsg}
    BY <1>1, <1>3, WriteMsgLimited
    DEF WaitTimeout, WriteNoMsg, ForgetCurrent, NoTxn, AttemptsInv
  <2> QED
    BY <1>3, <2>1 DEF WaitTimeout, AttemptsInv
<1>4. ASSUME NEW q \in Queue, WriteNextMsg(q) PROVE AttemptsInv'
  <2> DEFINE t == [txn EXCEPT !.msg = Head(msgQueue[q])]
  <2>1. /\ msgQueue[q] \in Seq(Limited) /\ msgQueue[q] # <<>>
        /\ Head(msgQueue[q]) \in Limited /\ Tail(msgQueue[q]) \in Seq(Limited)
    BY <1>4, HeadTailProperties DEF WriteNextMsg, AttemptsInv
  <2>2. t \in Txn /\ t.msg \in Limited
    BY <1>1, <2>1 DEF Txn, Limited
  <2>3. WriteMsg(t)
    BY <1>4 DEF WriteNextMsg
  <2> HIDE DEF t
  <2>4. txn'.msg \in Limited \cup {NoMsg}
    BY <2>2, <2>3, WriteMsgLimited
  <2>5. msgQueue' \in [Queue -> Seq(Limited)]
    BY <1>4, <2>1 DEF WriteNextMsg, LeftInQueue, AttemptsInv
  <2> QED
    BY <1>4, <2>4, <2>5 DEF WriteNextMsg, AttemptsInv
<1>5. CASE SendPending
  <2> DEFINE n == driver.node
  <2>1. n \in Sleeper /\ pending[n] \in Seq(Limited) /\ pending[n] # <<>>
    BY <1>1, <1>5 DEF SendPending, AttemptsInv
  <2>2. Head(pending[n]) \in Limited /\ Tail(pending[n]) \in Seq(Limited)
    BY <2>1, HeadTailProperties
  <2>3. msgQueue' \in [Queue -> Seq(Limited)]
    BY <1>2, <1>5, <2>2, PushBackLimited DEF SendPending
  <2>4. pending' \in [Sleeper -> Seq(Limited)]
    BY <1>5, <2>2 DEF SendPending, AttemptsInv
  <2> QED
    BY <1>5, <2>3, <2>4 DEF SendPending, AttemptsInv
<1>6. ASSUME NEW m \in Msg, SendToSleepNow(m) PROVE AttemptsInv'
  <2>1. msgQueue' \in [Queue -> Seq(Limited)]
    BY <1>2, <1>6, NewMsgLimited, PushBackLimited DEF SendToSleepNow
  <2> QED
    BY <1>6, <2>1 DEF SendToSleepNow, AttemptsInv
<1>7. CASE MoveCurrentMsg
  <2>1. txn.msg \in Limited /\ driver.node \in Sleeper
    BY <1>1, <1>7 DEF MoveCurrentMsg, CurrentIsFor, AttemptsInv
  <2>2. pending' \in [Sleeper -> Seq(Limited)]
    BY <1>7, <2>1, MoveOrDeleteLimited DEF MoveCurrentMsg
  <2>3. txn'.msg = NoMsg
    BY <1>7 DEF MoveCurrentMsg, ForgetCurrent, NoTxn
  <2> QED
    BY <1>7, <2>2, <2>3 DEF MoveCurrentMsg, AttemptsInv
<1>8. ASSUME NEW q \in Queue, NEW i \in DOMAIN msgQueue[q], MoveQueuedMsg(q, i)
      PROVE  AttemptsInv'
  <2>1. msgQueue[q] \in Seq(Limited)
    BY DEF AttemptsInv
  <2>2. i \in 1..Len(msgQueue[q])
    BY <2>1, LenProperties
  <2>3. msgQueue[q][i] \in Limited /\ RemoveAt(msgQueue[q], i) \in Seq(Limited)
    BY <2>1, <2>2, ElementOfSeq, RemoveAtType
  <2>4. driver.node \in Sleeper
    BY <1>1, <1>8 DEF MoveQueuedMsg
  <2>5. pending' \in [Sleeper -> Seq(Limited)]
    BY <1>8, <2>3, <2>4, MoveOrDeleteLimited DEF MoveQueuedMsg
  <2>6. msgQueue' \in [Queue -> Seq(Limited)]
    BY <1>8, <2>3 DEF MoveQueuedMsg, AttemptsInv
  <2> QED
    BY <1>8, <2>5, <2>6 DEF MoveQueuedMsg, AttemptsInv
<1>9. ASSUME SendPendingDone \/ SendToSleepLater \/ MoveDone PROVE AttemptsInv'
  BY <1>9 DEF SendPendingDone, SendToSleepLater, MoveDone, AttemptsInv
<1> QED
  BY <1>3, <1>4, <1>5, <1>6, <1>7, <1>8, <1>9 DEF DriverStep

(* CAN and NAK raise a limit by one, and only below MAX_MAX_TRIES. *)
LEMMA RaisedLimited ==
    ASSUME NEW x \in Limited
    PROVE  SetMaxSendAttempts(x) \in Limited
<1>1. /\ x \in MsgObj /\ x.attempts \in Nat /\ x.maxAttempts \in 0..MAX_MAX_TRIES
      /\ x.attempts <= x.maxAttempts /\ x.maxAttempts < MAX_MAX_TRIES
  BY LimitsAssumption DEF Limited, WithinLimit, MsgObj
<1> DEFINE y == [x EXCEPT !.maxAttempts = x.maxAttempts + 1]
<1>2. ASSUME x.maxAttempts + 1 < MAX_MAX_TRIES PROVE y \in Limited
  <2>1. x.maxAttempts + 1 \in 0..MAX_MAX_TRIES /\ x.attempts <= x.maxAttempts + 1
    BY <1>1, <1>2, LimitsAssumption
  <2>2. y \in MsgObj
    BY <1>1, <2>1 DEF MsgObj
  <2>3. y.attempts = x.attempts /\ y.maxAttempts = x.maxAttempts + 1
    BY <1>1 DEF MsgObj
  <2> HIDE DEF y
  <2> QED
    BY <1>2, <2>1, <2>2, <2>3 DEF Limited, WithinLimit
<1> QED
  BY <1>2 DEF SetMaxSendAttempts

(* The tail of ProcessMsg keeps the current message within its limit. *)
LEMMA HandleCallbackLimited ==
    ASSUME NEW t \in Txn, t.msg \in Limited \cup {NoMsg}, NEW func, NEW cb, NEW n, NEW c,
           HandleCallback(t, func, cb, n, c)
    PROVE  txn'.msg \in Limited \cup {NoMsg}
<1>1. AfterReply(t, func, cb, n, c).msg = t.msg
  BY DEF AfterReply, Txn
<1> QED
  BY <1>1 DEF HandleCallback, RemoveCurrentMsg, NoTxn

(* Every step that starts with bytes from the controller keeps the limits. *)
LEMMA ReceiveStepLimited ==
    ASSUME TypeOK, AttemptsInv, ReceiveStep
    PROVE  AttemptsInv'
<1>1. txn \in Txn
  BY DEF TypeOK
<1> DEFINE inProgress == txn'.msg \in Limited \cup {NoMsg}
<1>2. ASSUME NEW f \in line, ReadACK(f) \/ ReadCAN(f) \/ ReadNAK(f) \/ LoseACK(f)
      PROVE  inProgress
  <2>1. CASE ReadACK(f)
    BY <1>1, <2>1 DEF ReadACK, RemoveCurrentMsg, NoTxn, AttemptsInv, Txn
  <2>2. CASE ReadCAN(f) \/ ReadNAK(f)
    <3>1. CASE UNCHANGED txn
      BY <3>1 DEF AttemptsInv
    <3>2. CASE txn.msg # NoMsg /\ txn' = [txn EXCEPT !.msg = SetMaxSendAttempts(txn.msg)]
      <4>1. txn'.msg = SetMaxSendAttempts(txn.msg)
        BY <1>1, <3>2 DEF Txn
      <4> QED
        BY <3>2, <4>1, RaisedLimited DEF AttemptsInv
    <3> QED
      BY <2>2, <3>1, <3>2 DEF ReadCAN, ReadNAK
  <2>3. CASE LoseACK(f)
    BY <2>3 DEF LoseACK, AttemptsInv
  <2> QED
    BY <1>2, <2>1, <2>2, <2>3
<1>3. ASSUME NEW f \in air, ReceiveResponse(f) \/ ReceiveCallback(f) PROVE inProgress
  BY <1>1, <1>3, HandleCallbackLimited
  DEF ReceiveResponse, ReceiveCallback, CallbackOK, CallbackNoAck, CallbackFail, AttemptsInv
<1>4. ASSUME NEW n \in Node, NEW c, NEW s, ReceiveReport(n, c, s) PROVE inProgress
  BY <1>1, <1>4, HandleCallbackLimited DEF ReceiveReport, AttemptsInv
<1>5. ASSUME NEW n \in Sleeper, ReceiveWakeUpNotification(n) PROVE inProgress
  BY <1>5 DEF ReceiveWakeUpNotification, AttemptsInv
<1>6. ASSUME NEW n \in NonceNode, ReceiveNonceGet(n) \/ ReceiveUndecryptable(n)
      PROVE  inProgress
  BY <1>1, <1>6
  DEF ReceiveNonceGet, ReceiveUndecryptable, RemoveCurrentMsg, NoTxn, AttemptsInv, Txn
<1>7. ASSUME ReceiveNonceReport PROVE inProgress
  <2> DEFINE new == UpdateCallbackId(txn.msg)
  <2>1. txn.msg \in Limited
    BY <1>7 DEF ReceiveNonceReport, AttemptsInv
  <2>2. new \in Limited
    BY <2>1, UpdateCallbackIdType DEF Limited, WithinLimit
  <2> HIDE DEF new
  <2>3. txn' = [txn EXCEPT !.msg = new, !.cb = new.cb]
    BY <1>7 DEF ReceiveNonceReport, new
  <2> QED
    BY <1>1, <2>2, <2>3 DEF Txn
<1> DEFINE t == NoNonceReportSent(txn)
<1>8. t \in Txn /\ t.msg \in Limited \cup {NoMsg}
  <2>1. t.msg = txn.msg
    BY <1>1 DEF NoNonceReportSent, Txn
  <2> HIDE DEF t
  <2> QED
    BY <1>1, <2>1, NoTxnType DEF AttemptsInv, t
<1> HIDE DEF t
<1>9. ASSUME ReceiveUnknownNonce PROVE inProgress
  BY <1>8, <1>9 DEF ReceiveUnknownNonce, t
<1>10. ASSUME NEW n \in NonceNode, NEW c, NEW s,
              ReceiveEncrypted(n, c, s) \/ ReceiveEncryptedNonceGet(n, c, s)
       PROVE  inProgress
  <2> DEFINE u == [t EXCEPT !.nonceReportSent = n]
  <2>1. u \in Txn /\ u.msg = t.msg
    BY <1>8, NodesAssumption DEF Txn
  <2>2. \/ HandleCallback(t, "AppCommand", s, n, c)
        \/ HandleCallback(u, "AppCommand", s, n, c)
    BY <1>10 DEF ReceiveEncrypted, ReceiveEncryptedNonceGet, t
  <2> HIDE DEF u
  <2> QED
    BY <1>8, <2>1, <2>2, HandleCallbackLimited
<1>11. inProgress
  BY <1>2, <1>3, <1>4, <1>5, <1>6, <1>7, <1>9, <1>10 DEF ReceiveStep
<1>12. UNCHANGED <<msgQueue, pending, call>>
  BY DEF ReceiveStep, ReadACK, ReadCAN, ReadNAK, LoseACK, ReceiveResponse, ReceiveCallback,
         ReceiveReport, ReceiveWakeUpNotification, ReceiveNonceReport, ReceiveUnknownNonce,
         ReceiveNonceGet, ReceiveUndecryptable, ReceiveEncrypted, ReceiveEncryptedNonceGet
<1> QED
  BY <1>11, <1>12 DEF AttemptsInv

(***************************************************************************)
(* No message is attempted more often than its limit, which starts at      *)
(* MAX_TRIES and which CAN and NAK raise but never up to MAX_MAX_TRIES: so *)
(* every run of retries in WriteMsg ends, however the controller answers.  *)
(***************************************************************************)
THEOREM AttemptsCorrect == Spec => []AttemptsBounded
<1>1. Init => AttemptsInv
  BY DEF Init, NoTxn, AttemptsInv
<1>2. ASSUME TypeOK, AttemptsInv, [Next]_vars PROVE AttemptsInv'
  <2>1. ASSUME UNCHANGED vars PROVE AttemptsInv'
    BY <1>2, <2>1 DEF vars, AttemptsInv
  <2>2. ASSUME Next PROVE AttemptsInv'
    BY <1>2, <2>2, ThreadsLimited, DriverStepLimited, ReceiveStepLimited DEF Next
  <2> QED
    BY <1>2, <2>1, <2>2
<1>3. ASSUME AttemptsInv PROVE AttemptsBounded
  <2>1. txn.msg # NoMsg => WithinLimit(txn.msg)
    BY <1>3 DEF AttemptsInv, Limited
  <2>2. ASSUME NEW q \in Queue, NEW i \in DOMAIN msgQueue[q]
        PROVE  WithinLimit(msgQueue[q][i])
    <3>1. msgQueue[q] \in Seq(Limited)
      BY <1>3 DEF AttemptsInv
    <3>2. msgQueue[q][i] \in Limited
      BY <3>1, LenProperties, ElementOfSeq
    <3> QED
      BY <3>2 DEF Limited
  <2> QED
    BY <2>1, <2>2 DEF AttemptsBounded
<1> QED
  BY <1>1, <1>2, <1>3, TypeCorrect, PTL DEF Spec

-----------------------------------------------------------------------------
(***************************************************************************)
(* Parked messages.  Apart(s, n) says of a wake-up queue s of node n what  *)
(* ParkedDistinct says of all of them.                                     *)
(***************************************************************************)
Apart(s, n) ==
    \A i, j \in DOMAIN s : /\ Target[s[i].id] = n
                           /\ SameContent(s[i], s[j]) => i = j

(* Appending a message no parked one equals keeps a queue free of equal messages. *)
LEMMA AppendApart ==
    ASSUME NEW n, NEW s \in Seq(MsgObj), Apart(s, n), NEW x \in MsgObj, Target[x.id] = n,
           \A i \in DOMAIN s : ~SameContent(s[i], x)
    PROVE  Apart(Append(s, x), n)
<1> DEFINE r == Append(s, x)
<1>1. Len(s) \in Nat /\ DOMAIN s = 1..Len(s)
  BY LenProperties
<1>2. /\ r \in Seq(MsgObj) /\ Len(r) = Len(s) + 1 /\ DOMAIN r = 1..(Len(s) + 1)
      /\ r[Len(s) + 1] = x /\ \A i \in 1..Len(s) : r[i] = s[i]
  <2>1. /\ r \in Seq(MsgObj) /\ Len(r) = Len(s) + 1
        /\ \A i \in 1..Len(s) : r[i] = s[i] /\ r[Len(s) + 1] = x
    BY <1>1, AppendProperties
  <2>2. r[Len(s) + 1] = x
    BY AppendProperties
  <2> HIDE DEF r
  <2> QED
    BY <2>1, <2>2, LenProperties
<1> HIDE DEF r
<1> SUFFICES ASSUME NEW i \in 1..(Len(s) + 1), NEW j \in 1..(Len(s) + 1)
             PROVE  Target[r[i].id] = n /\ (SameContent(r[i], r[j]) => i = j)
  BY <1>2 DEF Apart, r
<1>3. CASE i \in 1..Len(s) /\ j \in 1..Len(s)
  BY <1>1, <1>2, <1>3 DEF Apart
<1>4. CASE i = Len(s) + 1 /\ j \in 1..Len(s)
  BY <1>1, <1>2, <1>4 DEF SameContent
<1>5. CASE i \in 1..Len(s) /\ j = Len(s) + 1
  BY <1>1, <1>2, <1>5 DEF SameContent, Apart
<1>6. CASE i = Len(s) + 1 /\ j = Len(s) + 1
  BY <1>2, <1>6
<1> QED
  BY <1>1, <1>3, <1>4, <1>5, <1>6

(* Removing one message keeps a queue free of equal messages. *)
LEMMA RemoveAtApart ==
    ASSUME NEW n, NEW s \in Seq(MsgObj), Apart(s, n), NEW i \in 1..Len(s)
    PROVE  /\ Apart(RemoveAt(s, i), n)
           /\ \A j \in DOMAIN RemoveAt(s, i) : ~SameContent(RemoveAt(s, i)[j], s[i])
<1> DEFINE r == RemoveAt(s, i)
<1>1. Len(s) \in Nat /\ DOMAIN s = 1..Len(s)
  BY LenProperties
<1>2. /\ r \in Seq(MsgObj) /\ Len(r) = Len(s) - 1
      /\ \A j \in 1..(Len(s) - 1) : r[j] = IF j < i THEN s[j] ELSE s[j + 1]
  BY RemoveAtType
<1> HIDE DEF r
<1>3. DOMAIN r = 1..(Len(s) - 1)
  BY <1>2, LenProperties
<1>4. ASSUME NEW j \in 1..(Len(s) - 1), NEW k \in 1..(Len(s) - 1)
      PROVE  Target[r[j].id] = n /\ (SameContent(r[j], r[k]) => j = k)
  <2> DEFINE jj == IF j < i THEN j ELSE j + 1
             kk == IF k < i THEN k ELSE k + 1
  <2>1. jj \in 1..Len(s) /\ kk \in 1..Len(s) /\ (jj = kk => j = k)
    BY <1>1
  <2>2. r[j] = s[jj] /\ r[k] = s[kk]
    BY <1>2
  <2> HIDE DEF jj, kk
  <2> QED
    BY <1>1, <2>1, <2>2 DEF Apart
<1>5. ASSUME NEW j \in 1..(Len(s) - 1) PROVE ~SameContent(r[j], s[i])
  <2> DEFINE jj == IF j < i THEN j ELSE j + 1
  <2>1. jj \in 1..Len(s) /\ jj # i
    BY <1>1
  <2>2. r[j] = s[jj]
    BY <1>2
  <2> HIDE DEF jj
  <2> QED
    BY <1>1, <2>1, <2>2 DEF Apart
<1> QED
  BY <1>3, <1>4, <1>5 DEF Apart, r

(* Taking the front message keeps a queue free of equal messages. *)
LEMMA TailApart ==
    ASSUME NEW n, NEW s \in Seq(MsgObj), Apart(s, n), s # <<>>
    PROVE  Apart(Tail(s), n)
<1>1. Len(s) \in Nat /\ DOMAIN s = 1..Len(s)
  BY LenProperties
<1>2. /\ Tail(s) \in Seq(MsgObj) /\ Len(Tail(s)) = Len(s) - 1
      /\ \A i \in 1..Len(Tail(s)) : Tail(s)[i] = s[i + 1]
  BY HeadTailProperties
<1>3. DOMAIN Tail(s) = 1..(Len(s) - 1)
  BY <1>2, LenProperties
<1> QED
  BY <1>1, <1>2, <1>3 DEF Apart

(* WakeUp::QueueMsg: what is equal to the new message goes, the new one comes. *)
LEMMA QueueMsgApart ==
    ASSUME TypeOK, ParkedDistinct, NEW n \in Sleeper, NEW x \in MsgObj, Target[x.id] = n,
           QueueMsg(n, x)
    PROVE  ParkedDistinct'
<1> DEFINE s   == pending[n]
           new == [x EXCEPT !.attempts = 0]
<1>1. s \in Seq(MsgObj) /\ pending \in [Sleeper -> Seq(MsgObj)] /\ DOMAIN s = 1..Len(s)
  BY LenProperties DEF TypeOK
<1>2. new \in MsgObj /\ new.id = x.id
  <2>1. 0 \in 0..MAX_MAX_TRIES
    BY LimitsAssumption
  <2> QED
    BY <2>1 DEF MsgObj
<1>3. Apart(s, n)
  BY DEF ParkedDistinct, Apart
<1>4. Duplicate(n, x) = {i \in DOMAIN s : SameContent(s[i], new)}
  BY <1>2 DEF Duplicate, SameContent
<1> HIDE DEF new
<1>5. ASSUME NEW r, Apart(r, n), pending' = [pending EXCEPT ![n] = r]
      PROVE  ParkedDistinct'
  BY <1>1, <1>5 DEF ParkedDistinct, Apart, SameContent
<1>6. CASE Duplicate(n, x) = {}
  <2>1. pending' = [pending EXCEPT ![n] = Append(s, new)]
    BY <1>6 DEF QueueMsg, new
  <2>2. Apart(Append(s, new), n)
    BY <1>1, <1>2, <1>3, <1>4, <1>6, AppendApart
  <2> QED
    BY <1>5, <2>1, <2>2
<1>7. CASE Duplicate(n, x) # {}
  <2>1. PICK i \in Duplicate(n, x) :
              pending' = [pending EXCEPT ![n] = Append(RemoveAt(s, i), new)]
    BY <1>7 DEF QueueMsg, new
  <2>2. i \in 1..Len(s) /\ SameContent(s[i], new)
    BY <1>1, <1>4
  <2> DEFINE r == RemoveAt(s, i)
  <2>3. /\ r \in Seq(MsgObj) /\ Apart(r, n)
        /\ \A j \in DOMAIN r : ~SameContent(r[j], s[i])
    BY <1>1, <1>3, <2>2, RemoveAtType, RemoveAtApart
  <2> HIDE DEF r
  <2>4. \A j \in DOMAIN r : ~SameContent(r[j], new)
    BY <2>2, <2>3 DEF SameContent
  <2>5. Apart(Append(r, new), n)
    BY <1>2, <2>3, <2>4, AppendApart
  <2> QED
    BY <1>5, <2>1, <2>5 DEF r
<1> QED
  BY <1>6, <1>7

(* Each step keeps every wake-up queue free of equal messages. *)
LEMMA NextApart ==
    ASSUME TypeOK, ParkedDistinct, [Next]_vars
    PROVE  ParkedDistinct'
<1>1. ASSUME UNCHANGED pending PROVE ParkedDistinct'
  BY <1>1 DEF ParkedDistinct, SameContent
<1>2. ASSUME NEW m \in Msg, NEW t \in Thread, SendMsg(t, m) PROVE UNCHANGED pending
  BY <1>2 DEF SendMsg
<1>3. ASSUME NEW m \in Msg, WatcherSendMsg(m) PROVE ParkedDistinct'
  <2>1. NewMsg(m) \in MsgObj /\ NewMsg(m).id = m
    BY NewMsgType DEF NewMsg
  <2> QED
    BY <1>1, <1>3, <2>1, QueueMsgApart DEF WatcherSendMsg, Asleep
<1>4. ASSUME NEW t \in Thread, ThreadStep(t) PROVE ParkedDistinct'
  <2>1. CASE SendMsgPark(t)
    <3>1. call[t].msg \in MsgObj /\ Target[call[t].msg.id] \in Sleeper
      BY <2>1 DEF SendMsgPark, TypeOK
    <3> QED
      BY <2>1, <3>1, QueueMsgApart DEF SendMsgPark
  <2>2. CASE SendMsgPush(t)
    BY <1>1, <2>2 DEF SendMsgPush
  <2>3. CASE SendMsgLocked(t)
    BY <1>1, <2>3 DEF SendMsgLocked
  <2> QED
    BY <1>4, <2>1, <2>2, <2>3 DEF ThreadStep
<1>5. ASSUME NEW n \in Sleeper, NEW x \in MsgObj, Target[x.id] = n, MoveOrDelete(n, x)
      PROVE  ParkedDistinct'
  BY <1>1, <1>5, QueueMsgApart DEF MoveOrDelete
<1>6. driver.pc \in {"Moving", "Draining"} => driver.node \in Sleeper
  BY DEF TypeOK
<1>7. ASSUME DriverStep PROVE ParkedDistinct'
  <2>1. CASE SendPending
    <3> DEFINE n == driver.node
    <3>1. n \in Sleeper /\ pending[n] \in Seq(MsgObj) /\ pending[n] # <<>>
      BY <1>6, <2>1 DEF SendPending, TypeOK
    <3>2. Apart(Tail(pending[n]), n)
      <4>1. Apart(pending[n], n)
        BY <3>1 DEF ParkedDistinct, Apart
      <4> QED
        BY <3>1, <4>1, TailApart
    <3>3. pending' = [pending EXCEPT ![n] = Tail(pending[n])]
      BY <2>1 DEF SendPending
    <3> QED
      BY <3>1, <3>2, <3>3 DEF TypeOK, ParkedDistinct, Apart, SameContent
  <2>2. CASE MoveCurrentMsg
    <3>1. driver.node \in Sleeper /\ txn.msg \in MsgObj /\ Target[txn.msg.id] = driver.node
      BY <1>6, <2>2 DEF MoveCurrentMsg, CurrentIsFor, TypeOK, Txn
    <3> QED
      BY <1>5, <2>2, <3>1 DEF MoveCurrentMsg
  <2>3. ASSUME NEW q \in Queue, NEW i \in DOMAIN msgQueue[q], MoveQueuedMsg(q, i)
        PROVE  ParkedDistinct'
    <3>1. driver.node \in Sleeper /\ Target[msgQueue[q][i].id] = driver.node
      BY <1>6, <2>3 DEF MoveQueuedMsg, QueuedFor
    <3>2. msgQueue[q][i] \in MsgObj
      BY QueueContents
    <3> QED
      BY <1>5, <2>3, <3>1, <3>2 DEF MoveQueuedMsg
  <2>4. ASSUME \/ WaitTimeout \/ SendPendingDone \/ SendToSleepLater \/ MoveDone
               \/ \E m \in Msg : SendToSleepNow(m)
               \/ \E q \in Queue : WriteNextMsg(q)
        PROVE  UNCHANGED pending
    BY <2>4 DEF WaitTimeout, SendPendingDone, SendToSleepLater, MoveDone, SendToSleepNow,
                WriteNextMsg
  <2> QED
    BY <1>1, <1>7, <2>1, <2>2, <2>3, <2>4 DEF DriverStep
<1>8. ASSUME ReceiveStep PROVE UNCHANGED pending
  BY <1>8
  DEF ReceiveStep, ReadACK, ReadCAN, ReadNAK, LoseACK, ReceiveResponse, ReceiveCallback,
      ReceiveReport, ReceiveWakeUpNotification, ReceiveNonceReport, ReceiveUnknownNonce,
      ReceiveNonceGet, ReceiveUndecryptable, ReceiveEncrypted, ReceiveEncryptedNonceGet
<1>9. ASSUME Request PROVE ParkedDistinct'
  BY <1>1, <1>2, <1>3, <1>9, ThreadsAssumption DEF Request, AppSendMsg, TimerFires
<1>10. ASSUME UNCHANGED vars PROVE UNCHANGED pending
  BY <1>10 DEF vars
<1> QED
  BY <1>1, <1>4, <1>7, <1>8, <1>9, <1>10 DEF Next

(***************************************************************************)
(* No wake-up queue ever holds two equal messages, whichever of SendMsg    *)
(* and MoveMessagesToWakeUpQueue put them there and in whatever order the  *)
(* threads do it, so a device that seldom wakes up is not sent the same    *)
(* command over and over; and it holds only messages for its own node.     *)
(***************************************************************************)
THEOREM ParkedCorrect == Spec => []ParkedDistinct
<1>1. Init => ParkedDistinct
  BY DEF Init, ParkedDistinct
<1>2. TypeOK /\ ParkedDistinct /\ [Next]_vars => ParkedDistinct'
  BY NextApart
<1> QED
  BY <1>1, <1>2, TypeCorrect, PTL DEF Spec

(***************************************************************************)
(* Delivery.                                                               *)
(***************************************************************************)
-----------------------------------------------------------------------------
(* The places a message can be in, and what each kind of step does to them. *)
OnceQueued(m) ==
    /\ \A q \in Queue : Once(msgQueue[q], m)
    /\ \A q, p \in Queue : In(msgQueue[q], m) /\ In(msgQueue[p], m) => q = p

Calls(t, m)   == call[t].pc # "idle" /\ call[t].msg.id = m
OnceCalled(m) == \A t, u \in Thread : Calls(t, m) /\ Calls(u, m) => t = u

(* SendMsg pushes a message on a send queue. *)
LEMMA PushBackPlaces ==
    ASSUME TypeOK, NEW q \in Queue, NEW x \in MsgObj, PushBack(q, x), NEW m
    PROVE  /\ InQueues(m)' <=> InQueues(m) \/ x.id = m
           /\ OnceQueued(m) /\ (x.id = m => ~InQueues(m)) => OnceQueued(m)'
<1>1. msgQueue \in [Queue -> Seq(MsgObj)]
  BY DEF TypeOK
<1> DEFINE s == Append(msgQueue[q], x)
<1>2. msgQueue'[q] = s /\ \A p \in Queue : p # q => msgQueue'[p] = msgQueue[p]
  BY <1>1 DEF PushBack
<1>3. /\ In(s, m) <=> In(msgQueue[q], m) \/ x.id = m
      /\ Once(msgQueue[q], m) /\ (x.id = m => ~In(msgQueue[q], m)) => Once(s, m)
  BY <1>1, AppendHolds
<1> HIDE DEF s
<1>4. InQueues(m) <=> \E p \in Queue : In(msgQueue[p], m)
  BY DEF InQueues, In
<1>5. InQueues(m)' <=> \E p \in Queue : In(msgQueue'[p], m)
  BY DEF InQueues, In
<1>6. InQueues(m)' <=> InQueues(m) \/ x.id = m
  BY <1>2, <1>3, <1>4, <1>5
<1>7. ASSUME OnceQueued(m), x.id = m => ~InQueues(m) PROVE OnceQueued(m)'
  <2>1. \A p \in Queue : Once(msgQueue'[p], m)
    BY <1>2, <1>3, <1>4, <1>7 DEF OnceQueued
  <2>2. \A p, r \in Queue : In(msgQueue'[p], m) /\ In(msgQueue'[r], m) => p = r
    BY <1>2, <1>3, <1>4, <1>7 DEF OnceQueued
  <2> QED
    BY <2>1, <2>2 DEF OnceQueued, Once, In
<1> QED
  BY <1>6, <1>7

(* A message object is taken out of a send queue, of which s is left. *)
LEMMA TakenPlaces ==
    ASSUME TypeOK, NEW q \in Queue, NEW y, NEW s, NEW m,
           msgQueue' = [msgQueue EXCEPT ![q] = s],
           In(msgQueue[q], m) <=> y = m \/ In(s, m),
           Once(msgQueue[q], m) => Once(s, m) /\ (y = m => ~In(s, m))
    PROVE  /\ InQueues(m) <=> y = m \/ InQueues(m)'
           /\ OnceQueued(m) => OnceQueued(m)' /\ (y = m => ~InQueues(m)')
<1>1. msgQueue'[q] = s /\ \A p \in Queue : p # q => msgQueue'[p] = msgQueue[p]
  BY DEF TypeOK
<1>2. InQueues(m) <=> \E p \in Queue : In(msgQueue[p], m)
  BY DEF InQueues, In
<1>3. InQueues(m)' <=> \E p \in Queue : In(msgQueue'[p], m)
  BY DEF InQueues, In
<1>4. InQueues(m) <=> y = m \/ InQueues(m)'
  BY <1>1, <1>2, <1>3
<1>5. ASSUME OnceQueued(m) PROVE OnceQueued(m)' /\ (y = m => ~InQueues(m)')
  <2>1. \A p \in Queue : Once(msgQueue'[p], m)
    BY <1>1, <1>5 DEF OnceQueued
  <2>2. \A p, r \in Queue : In(msgQueue'[p], m) /\ In(msgQueue'[r], m) => p = r
    BY <1>1, <1>5 DEF OnceQueued
  <2>3. y = m => ~InQueues(m)'
    BY <1>1, <1>3, <1>5 DEF OnceQueued
  <2> QED
    BY <2>1, <2>2, <2>3 DEF OnceQueued, Once, In
<1> QED
  BY <1>4, <1>5

(* What WakeUp::QueueMsg(n, x) deletes, apart from an older copy of x itself. *)
Superseded(n, x, m) == m # x.id /\ \E i \in Duplicate(n, x) : pending[n][i].id = m

(* WakeUp::QueueMsg parks x and unparks what it supersedes, nothing else. *)
LEMMA QueueMsgPlaces ==
    ASSUME TypeOK, ParkedDistinct, NEW n \in Sleeper, NEW x \in MsgObj, QueueMsg(n, x), NEW m
    PROVE  Parked(m)' <=> m = x.id \/ (Parked(m) /\ ~Superseded(n, x, m))
<1> DEFINE s   == pending[n]
           new == [x EXCEPT !.attempts = 0]
<1>1. s \in Seq(MsgObj) /\ pending \in [Sleeper -> Seq(MsgObj)] /\ DOMAIN s = 1..Len(s)
  BY LenProperties DEF TypeOK
<1>2. new \in MsgObj /\ new.id = x.id
  <2>1. 0 \in 0..MAX_MAX_TRIES
    BY LimitsAssumption
  <2> QED
    BY <2>1 DEF MsgObj
<1> HIDE DEF new
<1>3. Parked(m) <=> \E k \in Sleeper : In(pending[k], m)
  BY DEF Parked, In
<1>4. Parked(m)' <=> \E k \in Sleeper : In(pending'[k], m)
  BY DEF Parked, In
<1>5. ASSUME NEW k \in Sleeper, In(pending[k], m), In(pending[n], m) PROVE k = n
  BY <1>5 DEF ParkedDistinct, In
<1>6. ASSUME NEW r, pending' = [pending EXCEPT ![n] = Append(r, new)], r \in Seq(MsgObj)
      PROVE  Parked(m)' <=> \/ m = x.id \/ In(r, m)
                            \/ \E k \in Sleeper \ {n} : In(pending[k], m)
  <2>1. In(Append(r, new), m) <=> In(r, m) \/ m = x.id
    BY <1>2, <1>6, AppendHolds
  <2>2. /\ pending'[n] = Append(r, new)
        /\ \A k \in Sleeper : k # n => pending'[k] = pending[k]
    BY <1>1, <1>6
  <2> QED
    BY <1>4, <2>1, <2>2
<1>7. CASE Duplicate(n, x) = {}
  <2>1. pending' = [pending EXCEPT ![n] = Append(s, new)]
    BY <1>7 DEF QueueMsg, new
  <2>2. ~Superseded(n, x, m)
    BY <1>7 DEF Superseded
  <2> QED
    BY <1>1, <1>3, <1>6, <2>1, <2>2
<1>8. CASE Duplicate(n, x) # {}
  <2>1. PICK i \in Duplicate(n, x) :
              pending' = [pending EXCEPT ![n] = Append(RemoveAt(s, i), new)]
    BY <1>8 DEF QueueMsg, new
  <2>2. i \in 1..Len(s) /\ SameContent(s[i], x)
    BY <1>1 DEF Duplicate
  <2>3. \A j \in Duplicate(n, x) : j = i
    <3> SUFFICES ASSUME NEW j \in Duplicate(n, x) PROVE j = i
      OBVIOUS
    <3>1. j \in DOMAIN s /\ SameContent(s[j], s[i])
      BY <2>2 DEF Duplicate, SameContent
    <3> QED
      BY <1>1, <2>2, <3>1 DEF ParkedDistinct
  <2> DEFINE r == RemoveAt(s, i)
  <2>4. Once(s, m)
    BY DEF ParkedDistinct, SameContent, Once
  <2>5. /\ r \in Seq(MsgObj)
        /\ In(s, m) <=> s[i].id = m \/ In(r, m)
        /\ s[i].id = m => ~In(r, m)
    BY <1>1, <2>2, <2>4, RemoveAtType, RemoveAtHolds
  <2>6. Superseded(n, x, m) <=> m # x.id /\ s[i].id = m
    BY <2>3 DEF Superseded
  <2> HIDE DEF r
  <2>7. Parked(m)' <=> \/ m = x.id \/ In(r, m)
                       \/ \E k \in Sleeper \ {n} : In(pending[k], m)
    BY <1>6, <2>1, <2>5 DEF r
  <2> QED
    BY <1>3, <1>5, <2>5, <2>6, <2>7
<1> QED
  BY <1>7, <1>8

(* WakeUp::SendPending takes the front message out of the wake-up queue. *)
LEMMA DrainedPlaces ==
    ASSUME TypeOK, ParkedDistinct, NEW n \in Sleeper, pending[n] # <<>>, NEW m,
           pending' = [pending EXCEPT ![n] = Tail(@)]
    PROVE  /\ Parked(m) <=> Head(pending[n]).id = m \/ Parked(m)'
           /\ Head(pending[n]).id = m => ~Parked(m)'
<1> DEFINE s == pending[n]
<1>1. s \in Seq(MsgObj) /\ pending \in [Sleeper -> Seq(MsgObj)]
  BY DEF TypeOK
<1>2. Once(s, m)
  BY DEF ParkedDistinct, SameContent, Once
<1>3. In(s, m) <=> Head(s).id = m \/ In(Tail(s), m)
  BY <1>1, TailHolds
<1>4. Head(s).id = m => ~In(Tail(s), m)
  BY <1>1, <1>2, TailHolds
<1>5. pending'[n] = Tail(s) /\ \A k \in Sleeper : k # n => pending'[k] = pending[k]
  BY <1>1
<1>6. ASSUME NEW k \in Sleeper, In(pending[k], m), In(pending[n], m) PROVE k = n
  BY <1>6 DEF ParkedDistinct, In
<1>7. Parked(m) <=> \E k \in Sleeper : In(pending[k], m)
  BY DEF Parked, In
<1>8. Parked(m)' <=> \E k \in Sleeper : In(pending'[k], m)
  BY DEF Parked, In
<1> QED
  BY <1>3, <1>4, <1>5, <1>6, <1>7, <1>8

(* Driver::SendMsg begins on a thread. *)
LEMMA CallStartsPlaces ==
    ASSUME TypeOK, NEW t \in Thread, NEW x \in MsgObj, NEW m, call[t].pc = "idle",
           call' = [call EXCEPT ![t] = [pc |-> "lock", msg |-> x]]
    PROVE  /\ InCall(m)' <=> InCall(m) \/ x.id = m
           /\ OnceCalled(m) /\ (x.id = m => ~InCall(m)) => OnceCalled(m)'
<1>1. call'[t] = [pc |-> "lock", msg |-> x] /\ \A u \in Thread : u # t => call'[u] = call[u]
  BY DEF TypeOK
<1>2. call'[t].pc # "idle" /\ call'[t].msg.id = x.id
  BY <1>1
<1> QED
  BY <1>1, <1>2 DEF InCall, OnceCalled, Calls

(* Driver::SendMsg returns. *)
LEMMA CallEndsPlaces ==
    ASSUME TypeOK, NEW t \in Thread, NEW m, call[t].pc # "idle",
           call' = [call EXCEPT ![t] = [pc |-> "idle", msg |-> NoMsg]]
    PROVE  /\ InCall(m) <=> InCall(m)' \/ call[t].msg.id = m
           /\ OnceCalled(m) => OnceCalled(m)' /\ (call[t].msg.id = m => ~InCall(m)')
<1>1. /\ call'[t] = [pc |-> "idle", msg |-> NoMsg]
      /\ \A u \in Thread : u # t => call'[u] = call[u]
  BY DEF TypeOK
<1>2. call'[t].pc = "idle"
  BY <1>1
<1>3. InCall(m) <=> InCall(m)' \/ call[t].msg.id = m
  BY <1>1, <1>2 DEF InCall
<1>4. ASSUME OnceCalled(m) PROVE OnceCalled(m)' /\ (call[t].msg.id = m => ~InCall(m)')
  <2>1. \A u \in Thread : Calls(u, m)' => u # t /\ Calls(u, m)
    BY <1>1, <1>2 DEF Calls
  <2>2. InCall(m)' => \E u \in Thread : Calls(u, m)'
    BY DEF InCall, Calls
  <2>3. call[t].msg.id = m => Calls(t, m)
    BY DEF Calls
  <2> QED
    BY <1>4, <2>1, <2>2, <2>3 DEF OnceCalled
<1> QED
  BY <1>3, <1>4

-----------------------------------------------------------------------------
(***************************************************************************)
(* No message is lost.  With NoMsgLost alone the step of WriteNextMsg that *)
(* overwrites m_currentMsg could lose a message, so the invariant says     *)
(* when it cannot: a live message that is nowhere but in m_currentMsg is   *)
(* one the driver waits for something about.                               *)
(***************************************************************************)
Elsewhere(m) == InQueues(m) \/ Parked(m) \/ InCall(m)
Kept(m)      == Elsewhere(m) \/ (Current(m) /\ Waiting)
LostInv      == \A m \in Msg : fate[m] = "live" => Kept(m)

(* A message in progress stays so, awaited if it was, or is done with; no   *)
(* other becomes so.                                                       *)
StaysCurrent(m) ==
    \/ /\ Current(m)' <=> Current(m)
       /\ fate'[m] = fate[m]
       /\ Current(m) /\ Waiting => Waiting'
    \/ Current(m) /\ ~Current(m)' /\ fate'[m] \notin {"unsent", "live"}

(* RemoveCurrentMsg settles the message it removes. *)
LEMMA RemovedStays ==
    ASSUME TypeOK, NEW t \in Txn, t.msg = txn.msg, NEW f \in Fate \ {"unsent", "live"},
           RemoveCurrentMsg(t, f), NEW m \in Msg
    PROVE  StaysCurrent(m)
<1>1. txn.msg # NoMsg => txn.msg.id \in Msg
  BY DEF TypeOK, Txn, MsgObj
<1> QED
  BY <1>1 DEF RemoveCurrentMsg, NoTxn, Settle, StaysCurrent, Current, TypeOK

(* The callback handling either still waits for something or completes. *)
LEMMA HandledStays ==
    ASSUME TypeOK, NEW t \in Txn, t.msg = txn.msg, Busy(t) <=> Busy(txn),
           NEW func, NEW cb, NEW n, NEW c, HandleCallback(t, func, cb, n, c), NEW m \in Msg
    PROVE  StaysCurrent(m)
<1> DEFINE r == AfterReply(t, func, cb, n, c)
<1>1. CASE txn' = t /\ UNCHANGED fate
  BY <1>1 DEF StaysCurrent, Current, Waiting, Busy
<1>2. CASE RemoveCurrentMsg(t, "completed")
  BY <1>2, RemovedStays DEF Fate
<1>3. CASE ~(r.cb = 0 /\ r.reply = "None") /\ txn' = r /\ UNCHANGED fate
  <2>1. r.msg = t.msg
    BY DEF AfterReply, Txn
  <2> HIDE DEF r
  <2> QED
    BY <1>3, <2>1 DEF StaysCurrent, Current, Waiting
<1> QED
  BY <1>1, <1>2, <1>3 DEF HandleCallback

(* WriteMsg sends the message, or the nonce report in its place, or drops it. *)
LEMMA WriteMsgKeeps ==
    ASSUME TypeOK, NEW t \in Txn, t.msg \in MsgObj, WriteMsg(t), NEW m \in Msg
    PROVE  /\ m # t.msg.id => fate'[m] = fate[m] /\ ~Current(m)'
           /\ m = t.msg.id =>
                \/ /\ Current(m)' /\ fate'[m] = fate[m]
                   /\ Busy(t) \/ t.nonceReportSent = NoNode => Waiting'
                \/ ~Current(m)' /\ fate'[m] = "dropped"
<1>1. t.msg.id \in Msg /\ fate \in [Msg -> Fate]
  BY DEF MsgObj, TypeOK
<1>2. CASE WriteMsgGivesUp(t)
  BY <1>1, <1>2 DEF WriteMsg, WriteMsgDrop, NoTxn, Settle, Current
<1>3. CASE ~WriteMsgGivesUp(t) /\ t.nonceReportSent # NoNode
  <2>1. txn' = [t EXCEPT !.nonceReportSentAttempt = @ + 1] /\ fate' = fate
    BY <1>3 DEF WriteMsg, WriteMsgNonceReport
  <2>2. txn'.msg = t.msg /\ txn'.cb = t.cb /\ txn'.reply = t.reply /\ txn'.ack = t.ack
    BY <2>1 DEF Txn
  <2>3. t.msg # NoMsg
    BY NoMsgAssumption
  <2> QED
    BY <1>3, <2>1, <2>2, <2>3 DEF Current, Waiting, Busy
<1>4. CASE ~WriteMsgGivesUp(t) /\ t.nonceReportSent = NoNode
  <2> DEFINE upd == IF t.msg.attempts # 0 THEN UpdateCallbackId(t.msg) ELSE t.msg
             new == Attempted(upd)
  <2>1. upd \in MsgObj /\ upd.id = t.msg.id /\ upd.attempts = t.msg.attempts
    BY UpdateCallbackIdType
  <2>2. t.msg.attempts + 1 \in 0..MAX_MAX_TRIES
    BY <1>4, LimitsAssumption DEF WriteMsgGivesUp, LimitReached, MsgObj
  <2> HIDE DEF upd
  <2>3. new \in MsgObj /\ new.id = t.msg.id
    BY <2>1, <2>2 DEF Attempted, MsgObj
  <2> HIDE DEF new
  <2>4. /\ txn' = [t EXCEPT !.msg = new, !.cb = new.cb, !.reply = ExpectedReply(t.msg.id),
                            !.node = Target[t.msg.id], !.ack = TRUE]
        /\ fate' = fate
    BY <1>4 DEF WriteMsg, WriteMsgSend, upd, new
  <2>5. txn'.msg = new /\ txn'.ack = TRUE
    BY <2>4 DEF Txn
  <2>6. new # NoMsg
    BY <2>3, NoMsgAssumption
  <2> QED
    BY <2>3, <2>4, <2>5, <2>6 DEF Current, Waiting
<1> QED
  BY <1>2, <1>3, <1>4

(* FateAfterQueueMsg settles what QueueMsg deletes. *)
LEMMA SupersededFate ==
    ASSUME TypeOK, NEW n, NEW x, NEW f, NEW m \in Msg, FateAfterQueueMsg(n, x, f)[m] = "live"
    PROVE  f[m] = "live" /\ ~Superseded(n, x, m)
  BY DEF FateAfterQueueMsg, Superseded

(* WakeUp::QueueMsg loses nothing that stays live. *)
LEMMA QueueMsgKeeps ==
    ASSUME TypeOK, ParkedDistinct, NEW n \in Sleeper, NEW x \in MsgObj, QueueMsg(n, x),
           NEW f, fate' = FateAfterQueueMsg(n, x, f), NEW m \in Msg, fate'[m] = "live"
    PROVE  f[m] = "live" /\ (Parked(m) \/ m = x.id => Parked(m)')
  BY SupersededFate, QueueMsgPlaces

(* The driver loses nothing it moves to a wake-up queue or deletes. *)
LEMMA MoveOrDeleteKeeps ==
    ASSUME TypeOK, ParkedDistinct, NEW n \in Sleeper, NEW x \in MsgObj, MoveOrDelete(n, x),
           NEW m \in Msg, fate'[m] = "live"
    PROVE  fate[m] = "live" /\ (Parked(m) \/ m = x.id => Parked(m)')
<1>1. CASE Moved(x)
  BY <1>1, QueueMsgKeeps DEF MoveOrDelete
<1>2. CASE ~Moved(x)
  <2>1. Parked(m) => Parked(m)'
    BY <1>2 DEF MoveOrDelete, Parked
  <2>2. x.id \in Msg /\ fate \in [Msg -> Fate]
    BY DEF MsgObj, TypeOK
  <2> QED
    BY <1>2, <2>1, <2>2 DEF MoveOrDelete, Settle
<1> QED
  BY <1>1, <1>2

(* A step that is only about the message in progress. *)
LEMMA TxnStepKeeps ==
    ASSUME LostInv, UNCHANGED <<msgQueue, pending, call>>, \A m \in Msg : StaysCurrent(m)
    PROVE  LostInv'
<1> SUFFICES ASSUME NEW m \in Msg, fate'[m] = "live" PROVE Kept(m)'
  BY DEF LostInv
<1>1. Elsewhere(m) => Elsewhere(m)'
  BY DEF Elsewhere, InQueues, Parked, InCall
<1> QED
  BY <1>1 DEF LostInv, Kept, StaysCurrent

(* SendMsg is given a message that is then in its hands. *)
LEMMA RequestKeeps ==
    ASSUME TypeOK, ParkedDistinct, LostInv, Request
    PROVE  LostInv'
<1> PICK o \in Msg : \/ \E t \in Thread : AppSendMsg(t, o)
                     \/ TimerFires(o)
                     \/ WatcherSendMsg(o)
  BY DEF Request
<1>1. NewMsg(o) \in MsgObj /\ NewMsg(o).id = o
  BY NewMsgType DEF NewMsg
<1>2. fate \in [Msg -> Fate]
  BY DEF TypeOK
<1>3. ASSUME NEW t \in Thread, SendMsg(t, o) PROVE LostInv'
  <2> SUFFICES ASSUME NEW m \in Msg, fate'[m] = "live" PROVE Kept(m)'
    BY DEF LostInv
  <2>1. InCall(m)' <=> InCall(m) \/ m = o
    BY <1>1, <1>3, CallStartsPlaces DEF SendMsg
  <2>2. m # o => fate[m] = "live"
    BY <1>2, <1>3 DEF SendMsg
  <2>3. UNCHANGED <<InQueues(m), Parked(m), Current(m), Waiting>>
    BY <1>3 DEF SendMsg, InQueues, Parked, Current, Waiting
  <2> QED
    BY <2>1, <2>2, <2>3 DEF LostInv, Kept, Elsewhere
<1>4. CASE WatcherSendMsg(o)
  <2> SUFFICES ASSUME NEW m \in Msg, fate'[m] = "live" PROVE Kept(m)'
    BY DEF LostInv
  <2>1. UNCHANGED <<InCall(m), Current(m), Waiting>>
    BY <1>4 DEF WatcherSendMsg, InCall, Current, Waiting
  <2>2. CASE Asleep(Target[o])
    <3>1. [fate EXCEPT ![o] = "live"][m] = "live" /\ (Parked(m) \/ m = o => Parked(m)')
      BY <1>1, <1>4, <2>2, QueueMsgKeeps DEF WatcherSendMsg, Asleep
    <3>2. UNCHANGED InQueues(m)
      BY <1>4, <2>2 DEF WatcherSendMsg, InQueues
    <3> QED
      BY <1>2, <2>1, <3>1, <3>2 DEF LostInv, Kept, Elsewhere
  <2>3. CASE ~Asleep(Target[o])
    <3>1. InQueues(m)' <=> InQueues(m) \/ m = o
      BY <1>1, <1>4, <2>3, PushBackPlaces, MessagesAssumption DEF WatcherSendMsg, Queue
    <3>2. UNCHANGED Parked(m) /\ (m # o => fate[m] = "live")
      BY <1>2, <1>4, <2>3 DEF WatcherSendMsg, Parked
    <3> QED
      BY <2>1, <3>1, <3>2 DEF LostInv, Kept, Elsewhere
  <2> QED
    BY <2>2, <2>3
<1> QED
  BY <1>3, <1>4, ThreadsAssumption DEF AppSendMsg, TimerFires

(* SendMsg on its thread parks the message, or puts it on a send queue. *)
LEMMA ThreadStepKeeps ==
    ASSUME TypeOK, ParkedDistinct, LostInv, NEW t \in Thread, ThreadStep(t)
    PROVE  LostInv'
<1> SUFFICES ASSUME NEW m \in Msg, fate'[m] = "live" PROVE Kept(m)'
  BY DEF LostInv
<1> DEFINE x == call[t].msg
<1>1. CASE SendMsgLocked(t)
  <2>1. \A u \in Thread : call'[u].pc # "idle" <=> call[u].pc # "idle"
    BY <1>1 DEF SendMsgLocked, TypeOK
  <2>2. \A u \in Thread : call'[u].msg = call[u].msg
    BY <1>1 DEF SendMsgLocked, TypeOK
  <2>3. UNCHANGED InCall(m)
    BY <2>1, <2>2 DEF InCall
  <2>4. UNCHANGED <<InQueues(m), Parked(m), Current(m), Waiting, fate>>
    BY <1>1 DEF SendMsgLocked, InQueues, Parked, Current, Waiting
  <2> QED
    BY <2>3, <2>4 DEF LostInv, Kept, Elsewhere
<1>2. CASE SendMsgPark(t)
  <2>1. x \in MsgObj /\ Target[x.id] \in Sleeper
    BY <1>2 DEF SendMsgPark, TypeOK
  <2>2. fate[m] = "live" /\ (Parked(m) \/ m = x.id => Parked(m)')
    BY <1>2, <2>1, QueueMsgKeeps DEF SendMsgPark
  <2>3. InCall(m) <=> InCall(m)' \/ x.id = m
    BY <1>2, CallEndsPlaces DEF SendMsgPark
  <2>4. UNCHANGED <<InQueues(m), Current(m), Waiting>>
    BY <1>2 DEF SendMsgPark, InQueues, Current, Waiting
  <2> QED
    BY <2>2, <2>3, <2>4 DEF LostInv, Kept, Elsewhere
<1>3. CASE SendMsgPush(t)
  <2>1. x \in MsgObj /\ QueueOf[x.id] \in Queue
    BY <1>3, MessagesAssumption DEF SendMsgPush, TypeOK, MsgObj, Queue
  <2>2. InQueues(m)' <=> InQueues(m) \/ x.id = m
    BY <1>3, <2>1, PushBackPlaces DEF SendMsgPush
  <2>3. InCall(m) <=> InCall(m)' \/ x.id = m
    BY <1>3, CallEndsPlaces DEF SendMsgPush
  <2>4. UNCHANGED <<Parked(m), Current(m), Waiting, fate>>
    BY <1>3 DEF SendMsgPush, Parked, Current, Waiting
  <2> QED
    BY <2>2, <2>3, <2>4 DEF LostInv, Kept, Elsewhere
<1> QED
  BY <1>1, <1>2, <1>3 DEF ThreadStep

(* A wait that times out repeats the message in progress or drops it. *)
LEMMA WaitTimeoutStays ==
    ASSUME TypeOK, WaitTimeout, NEW m \in Msg
    PROVE  StaysCurrent(m)
<1>1. txn \in Txn
  BY DEF TypeOK
<1>2. CASE txn.msg = NoMsg
  <2>1. txn'.msg = NoMsg /\ UNCHANGED fate
    BY <1>2 DEF WaitTimeout, WriteNoMsg, ForgetCurrent, NoTxn
  <2> QED
    BY <1>2, <2>1 DEF StaysCurrent, Current
<1>3. CASE txn.msg # NoMsg
  <2>1. txn.msg \in MsgObj /\ WriteMsg(txn) /\ Busy(txn)
    BY <1>1, <1>3 DEF WaitTimeout, Waiting, Busy, Txn
  <2>2. Current(m) <=> m = txn.msg.id
    BY <1>3 DEF Current
  <2> QED
    BY <1>1, <2>1, <2>2, WriteMsgKeeps DEF StaysCurrent
<1> QED
  BY <1>2, <1>3

(* What the driver thread sends, drains, moves or deletes. *)
LEMMA DriverStepKeeps ==
    ASSUME TypeOK, ParkedDistinct, LostInv, DriverStep
    PROVE  LostInv'
<1>1. txn \in Txn
  BY DEF TypeOK
<1>2. CASE WaitTimeout
  BY <1>2, WaitTimeoutStays, TxnStepKeeps DEF WaitTimeout
<1>3. ASSUME NEW q \in Queue, WriteNextMsg(q) PROVE LostInv'
  <2> SUFFICES ASSUME NEW m \in Msg, fate'[m] = "live" PROVE Kept(m)'
    BY DEF LostInv
  <2> DEFINE x == Head(msgQueue[q])
             t == [txn EXCEPT !.msg = x]
  <2>1. msgQueue[q] \in Seq(MsgObj) /\ msgQueue[q] # <<>> /\ x \in MsgObj
    BY <1>3, QueueContents DEF WriteNextMsg
  <2>2. t \in Txn /\ t.msg = x /\ t.nonceReportSent = txn.nonceReportSent
    BY <1>1, <2>1 DEF Txn
  <2>3. WriteMsg(t)
    BY <1>3 DEF WriteNextMsg
  <2> HIDE DEF t
  <2>4. /\ fate[m] = "live"
        /\ m = x.id => Current(m)' /\ (txn.nonceReportSent = NoNode => Waiting')
    BY <2>1, <2>2, <2>3, WriteMsgKeeps
  <2>5. ~Waiting /\ UNCHANGED <<Parked(m), InCall(m)>>
    BY <1>3 DEF WriteNextMsg, Parked, InCall
  <2>6. Elsewhere(m)
    BY <2>4, <2>5 DEF LostInv, Kept
  <2>7. CASE txn.nonceReportSent # NoNode
    <3>1. msgQueue' = [msgQueue EXCEPT ![q] = msgQueue[q]]
      BY <1>3, <2>7 DEF WriteNextMsg, LeftInQueue
    <3>2. msgQueue' = msgQueue
      BY <3>1 DEF TypeOK
    <3> QED
      BY <2>5, <2>6, <3>2 DEF Kept, Elsewhere, InQueues
  <2>8. CASE txn.nonceReportSent = NoNode
    <3>1. msgQueue' = [msgQueue EXCEPT ![q] = Tail(msgQueue[q])]
      BY <1>3, <2>8 DEF WriteNextMsg, LeftInQueue
    <3>2. /\ In(msgQueue[q], m) <=> x.id = m \/ In(Tail(msgQueue[q]), m)
          /\ Once(msgQueue[q], m) => /\ Once(Tail(msgQueue[q]), m)
                                     /\ x.id = m => ~In(Tail(msgQueue[q]), m)
      BY <2>1, TailHolds
    <3>3. InQueues(m) <=> x.id = m \/ InQueues(m)'
      BY <3>1, <3>2, TakenPlaces
    <3> QED
      BY <2>4, <2>5, <2>6, <2>8, <3>3 DEF Kept, Elsewhere
  <2> QED
    BY <2>7, <2>8
<1>4. driver.pc \in {"Moving", "Draining"} => driver.node \in Sleeper
  BY DEF TypeOK
<1>5. MsgQueue_WakeUp \in Queue
  BY DEF Queue, MsgQueue_WakeUp
<1>6. CASE SendPending
  <2> SUFFICES ASSUME NEW m \in Msg, fate'[m] = "live" PROVE Kept(m)'
    BY DEF LostInv
  <2> DEFINE n == driver.node
             x == Head(pending[n])
  <2>1. n \in Sleeper /\ pending[n] \in Seq(MsgObj) /\ pending[n] # <<>>
    BY <1>4, <1>6 DEF SendPending, TypeOK
  <2>2. x \in MsgObj
    BY <2>1, HeadTailProperties
  <2>3. InQueues(m)' <=> InQueues(m) \/ x.id = m
    BY <1>5, <1>6, <2>2, PushBackPlaces DEF SendPending
  <2>4. Parked(m) <=> x.id = m \/ Parked(m)'
    BY <1>6, <2>1, DrainedPlaces DEF SendPending
  <2>5. UNCHANGED <<InCall(m), Current(m), Waiting, fate>>
    BY <1>6 DEF SendPending, InCall, Current, Waiting
  <2> QED
    BY <2>3, <2>4, <2>5 DEF LostInv, Kept, Elsewhere
<1>7. ASSUME NEW o \in Msg, SendToSleepNow(o) PROVE LostInv'
  <2> SUFFICES ASSUME NEW m \in Msg, fate'[m] = "live" PROVE Kept(m)'
    BY DEF LostInv
  <2>1. NewMsg(o) \in MsgObj /\ NewMsg(o).id = o
    BY NewMsgType DEF NewMsg
  <2>2. InQueues(m)' <=> InQueues(m) \/ o = m
    BY <1>5, <1>7, <2>1, PushBackPlaces DEF SendToSleepNow
  <2>3. m # o => fate[m] = "live"
    BY <1>7 DEF SendToSleepNow, TypeOK
  <2>4. UNCHANGED <<Parked(m), InCall(m), Current(m), Waiting>>
    BY <1>7 DEF SendToSleepNow, Parked, InCall, Current, Waiting
  <2> QED
    BY <2>2, <2>3, <2>4 DEF LostInv, Kept, Elsewhere
<1>8. CASE MoveCurrentMsg
  <2> SUFFICES ASSUME NEW m \in Msg, fate'[m] = "live" PROVE Kept(m)'
    BY DEF LostInv
  <2>1. driver.node \in Sleeper /\ txn.msg \in MsgObj
    BY <1>1, <1>4, <1>8 DEF MoveCurrentMsg, CurrentIsFor, Txn
  <2>2. fate[m] = "live" /\ (Parked(m) \/ m = txn.msg.id => Parked(m)')
    BY <1>8, <2>1, MoveOrDeleteKeeps DEF MoveCurrentMsg
  <2>3. UNCHANGED <<InQueues(m), InCall(m)>>
    BY <1>8 DEF MoveCurrentMsg, InQueues, InCall
  <2>4. Current(m) => Parked(m)'
    BY <2>2 DEF Current
  <2> QED
    BY <2>2, <2>3, <2>4 DEF LostInv, Kept, Elsewhere
<1>9. ASSUME NEW q \in Queue, NEW i \in DOMAIN msgQueue[q], MoveQueuedMsg(q, i)
      PROVE  LostInv'
  <2> SUFFICES ASSUME NEW m \in Msg, fate'[m] = "live" PROVE Kept(m)'
    BY DEF LostInv
  <2> DEFINE s == msgQueue[q]
             x == s[i]
  <2>1. driver.node \in Sleeper
    BY <1>4, <1>9 DEF MoveQueuedMsg
  <2>2. s \in Seq(MsgObj) /\ i \in 1..Len(s) /\ x \in MsgObj
    BY QueueContents
  <2>3. fate[m] = "live" /\ (Parked(m) \/ m = x.id => Parked(m)')
    BY <1>9, <2>1, <2>2, MoveOrDeleteKeeps DEF MoveQueuedMsg
  <2>4. InQueues(m) <=> x.id = m \/ InQueues(m)'
    <3>1. /\ In(s, m) <=> x.id = m \/ In(RemoveAt(s, i), m)
          /\ Once(s, m) => /\ Once(RemoveAt(s, i), m)
                           /\ x.id = m => ~In(RemoveAt(s, i), m)
      BY <2>2, RemoveAtHolds
    <3>2. msgQueue' = [msgQueue EXCEPT ![q] = RemoveAt(s, i)]
      BY <1>9 DEF MoveQueuedMsg
    <3> QED
      BY <3>1, <3>2, TakenPlaces
  <2>5. UNCHANGED <<InCall(m), Current(m), Waiting>>
    BY <1>9 DEF MoveQueuedMsg, InCall, Current, Waiting
  <2> QED
    BY <2>3, <2>4, <2>5 DEF LostInv, Kept, Elsewhere
<1>10. CASE SendPendingDone \/ SendToSleepLater \/ MoveDone
  <2>1. UNCHANGED <<msgQueue, pending, call, txn, fate>>
    BY <1>10 DEF SendPendingDone, SendToSleepLater, MoveDone
  <2> QED
    BY <2>1, TxnStepKeeps DEF StaysCurrent, Current, Waiting
<1> QED
  BY <1>2, <1>3, <1>6, <1>7, <1>8, <1>9, <1>10 DEF DriverStep

(* The bytes of a frame's answer: only an awaited message is completed.    *)
LEMMA AnswerStays ==
    ASSUME TypeOK, NEW f \in line, ReadACK(f) \/ ReadCAN(f) \/ ReadNAK(f) \/ LoseACK(f),
           NEW m \in Msg
    PROVE  StaysCurrent(m)
<1>1. txn \in Txn
  BY DEF TypeOK
<1>2. CASE ReadACK(f)
  <2>1. CASE AckCompletes
    BY <1>1, <1>2, <2>1, RemovedStays DEF ReadACK, Fate
  <2>2. CASE ~AckCompletes
    <3>1. txn' = [txn EXCEPT !.ack = FALSE] /\ UNCHANGED fate
      BY <1>2, <2>2 DEF ReadACK
    <3>2. txn'.msg = txn.msg /\ txn'.cb = txn.cb /\ txn'.reply = txn.reply
      BY <1>1, <3>1 DEF Txn
    <3> QED
      BY <2>2, <3>1, <3>2 DEF AckCompletes, StaysCurrent, Current, Waiting
  <2> QED
    BY <2>1, <2>2
<1>3. CASE ReadCAN(f) \/ ReadNAK(f)
  <2>1. UNCHANGED fate
    BY <1>3 DEF ReadCAN, ReadNAK
  <2>2. CASE UNCHANGED txn
    BY <2>1, <2>2 DEF StaysCurrent, Current, Waiting
  <2>3. CASE txn.msg # NoMsg /\ txn' = [txn EXCEPT !.msg = SetMaxSendAttempts(txn.msg)]
    <3> DEFINE y == SetMaxSendAttempts(txn.msg)
    <3>1. y \in MsgObj /\ y.id = txn.msg.id
      BY <1>1, <2>3, SetMaxSendAttemptsSame DEF Txn
    <3>2. txn'.msg = y /\ txn'.cb = txn.cb /\ txn'.reply = txn.reply /\ txn'.ack = txn.ack
      BY <1>1, <2>3 DEF Txn
    <3> HIDE DEF y
    <3>3. y # NoMsg
      BY <3>1, NoMsgAssumption
    <3>4. Current(m)' <=> Current(m)
      BY <2>3, <3>1, <3>2, <3>3 DEF Current
    <3> QED
      BY <2>1, <3>2, <3>4 DEF StaysCurrent, Waiting
  <2> QED
    BY <1>3, <2>2, <2>3 DEF ReadCAN, ReadNAK
<1>4. CASE LoseACK(f)
  BY <1>4 DEF LoseACK, StaysCurrent, Current, Waiting
<1> QED
  BY <1>2, <1>3, <1>4

(* A nonce report gives the message another id, and it is still awaited.   *)
LEMMA NonceReportStays ==
    ASSUME TypeOK, TxnInv, ReceiveNonceReport, NEW m \in Msg
    PROVE  StaysCurrent(m)
<1> DEFINE new == UpdateCallbackId(txn.msg)
<1>1. txn \in Txn /\ txn.msg \in MsgObj /\ txn.msg # NoMsg
  BY DEF TypeOK, ReceiveNonceReport, Txn
<1>2. new \in MsgObj /\ new.id = txn.msg.id
  BY <1>1, UpdateCallbackIdType
<1>3. new.cb \in {txn.msg.cb, nextCallbackId} /\ nextCallbackId # 0
  <2>1. nextCallbackId \in CallbackId
    BY DEF TypeOK
  <2>2. nextCallbackId # 0
    BY <2>1 DEF CallbackId
  <2> QED
    BY <1>1, <2>2 DEF UpdateCallbackId, MsgObj
<1> HIDE DEF new
<1>4. txn' = [txn EXCEPT !.msg = new, !.cb = new.cb] /\ UNCHANGED fate
  BY DEF ReceiveNonceReport, new
<1>5. txn'.msg = new /\ txn'.cb = new.cb /\ txn'.reply = txn.reply /\ txn'.ack = txn.ack
  BY <1>1, <1>4 DEF Txn
<1>6. txn.cb # 0 => new.cb # 0
  BY <1>1, <1>3 DEF TxnInv, Expects
<1>7. new # NoMsg
  BY <1>2, NoMsgAssumption
<1>8. Current(m)' <=> Current(m)
  BY <1>1, <1>2, <1>5, <1>7 DEF Current
<1> QED
  BY <1>4, <1>5, <1>6, <1>8 DEF StaysCurrent, Waiting

(* Forgetting a nonce report that was sent changes nothing that is awaited. *)
LEMMA NonceForgotten ==
    ASSUME NEW t \in Txn, NEW n \in Node \cup {NoNode}
    PROVE  LET u == NoNonceReportSent(t)
               v == [u EXCEPT !.nonceReportSent = n]
               w == [t EXCEPT !.nonceReportSent = n]
           IN  /\ u \in Txn /\ v \in Txn /\ w \in Txn
               /\ u.msg = t.msg /\ v.msg = t.msg /\ w.msg = t.msg
               /\ Busy(u) <=> Busy(t)
               /\ Busy(v) <=> Busy(t)
               /\ Busy(w) <=> Busy(t)
<1> DEFINE u == NoNonceReportSent(t)
<1>1. u \in Txn /\ u.msg = t.msg /\ u.ack = t.ack /\ u.cb = t.cb /\ u.reply = t.reply
  BY NoTxnType DEF NoNonceReportSent, Txn
<1> HIDE DEF u
<1> DEFINE v == [u EXCEPT !.nonceReportSent = n]
           w == [t EXCEPT !.nonceReportSent = n]
<1>2. v \in Txn /\ v.msg = u.msg /\ v.ack = u.ack /\ v.cb = u.cb /\ v.reply = u.reply
  BY <1>1 DEF Txn
<1>3. w \in Txn /\ w.msg = t.msg /\ w.ack = t.ack /\ w.cb = t.cb /\ w.reply = t.reply
  BY DEF Txn
<1> HIDE DEF v, w
<1>4. /\ u \in Txn /\ v \in Txn /\ w \in Txn
      /\ u.msg = t.msg /\ v.msg = t.msg /\ w.msg = t.msg
      /\ Busy(u) <=> Busy(t)
      /\ Busy(v) <=> Busy(t)
      /\ Busy(w) <=> Busy(t)
  BY <1>1, <1>2, <1>3 DEF Busy
<1> QED
  BY <1>4 DEF u, v, w

(* Whatever arrives from the controller, the message in progress stays so   *)
(* or is done with.                                                        *)
LEMMA ReceiveStays ==
    ASSUME TypeOK, TxnInv, ReceiveStep, NEW m \in Msg
    PROVE  StaysCurrent(m)
<1>1. txn \in Txn /\ (Waiting <=> Busy(txn))
  BY DEF TypeOK, Waiting, Busy
<1>2. ASSUME UNCHANGED <<txn, fate>> PROVE StaysCurrent(m)
  BY <1>2 DEF StaysCurrent, Current, Waiting
<1>3. ASSUME NEW f \in line, ReadACK(f) \/ ReadCAN(f) \/ ReadNAK(f) \/ LoseACK(f)
      PROVE  StaysCurrent(m)
  BY <1>3, AnswerStays
<1>4. ASSUME NEW f \in air, ReceiveResponse(f) \/ ReceiveCallback(f) PROVE StaysCurrent(m)
  BY <1>1, <1>2, <1>4, HandledStays
  DEF ReceiveResponse, ReceiveCallback, CallbackOK, CallbackNoAck, CallbackFail
<1>5. ASSUME NEW n \in Node, NEW c, NEW s, ReceiveReport(n, c, s) PROVE StaysCurrent(m)
  BY <1>1, <1>5, HandledStays DEF ReceiveReport
<1>6. ASSUME NEW n \in Sleeper, ReceiveWakeUpNotification(n) PROVE StaysCurrent(m)
  BY <1>2, <1>6 DEF ReceiveWakeUpNotification
<1>7. ASSUME ReceiveNonceReport PROVE StaysCurrent(m)
  BY <1>7, NonceReportStays
<1>8. ASSUME NEW t \in Txn, t.msg = txn.msg, Busy(t) <=> Busy(txn), txn' = t, UNCHANGED fate
      PROVE  StaysCurrent(m)
  BY <1>8 DEF StaysCurrent, Current, Waiting, Busy
<1>9. ASSUME ReceiveUnknownNonce PROVE StaysCurrent(m)
  BY <1>1, <1>8, <1>9, NonceForgotten DEF ReceiveUnknownNonce
<1>10. ASSUME NEW n \in NonceNode, ReceiveNonceGet(n) PROVE StaysCurrent(m)
  BY <1>1, <1>8, <1>10, NonceForgotten, NodesAssumption DEF ReceiveNonceGet
<1>11. ASSUME NEW n \in NonceNode, ReceiveUndecryptable(n) PROVE StaysCurrent(m)
  BY <1>1, <1>11, RemovedStays DEF ReceiveUndecryptable, Fate
<1>12. ASSUME NEW n \in NonceNode, NEW c, NEW s,
              ReceiveEncrypted(n, c, s) \/ ReceiveEncryptedNonceGet(n, c, s)
       PROVE  StaysCurrent(m)
  <2>1. n \in Node \cup {NoNode}
    BY NodesAssumption
  <2> DEFINE u == NoNonceReportSent(txn)
             v == [u EXCEPT !.nonceReportSent = n]
  <2>2. /\ u \in Txn /\ u.msg = txn.msg /\ (Busy(u) <=> Busy(txn))
        /\ v \in Txn /\ v.msg = txn.msg /\ (Busy(v) <=> Busy(txn))
    BY <1>1, <2>1, NonceForgotten
  <2>3. \/ HandleCallback(u, "AppCommand", s, n, c)
        \/ HandleCallback(v, "AppCommand", s, n, c)
    BY <1>12 DEF ReceiveEncrypted, ReceiveEncryptedNonceGet
  <2> HIDE DEF u, v
  <2> QED
    BY <2>2, <2>3, HandledStays
<1> QED
  BY <1>3, <1>4, <1>5, <1>6, <1>7, <1>9, <1>10, <1>11, <1>12 DEF ReceiveStep

(***************************************************************************)
(* The driver never forgets a message it accepted, whatever the            *)
(* controller, the radio and the other threads do and with any number of   *)
(* nonce reports: until it is completed, dropped, superseded or deleted it *)
(* is in a queue, in progress or in the hands of the thread that sends it. *)
(***************************************************************************)
THEOREM NoMsgLostCorrect == Spec => []NoMsgLost
<1>1. Init => LostInv
  BY DEF Init, LostInv
<1>2. ASSUME TypeOK, ParkedDistinct, TxnInv, LostInv, [Next]_vars PROVE LostInv'
  <2>1. CASE ReceiveStep
    <3>1. UNCHANGED <<msgQueue, pending, call>>
      BY <2>1
      DEF ReceiveStep, ReadACK, ReadCAN, ReadNAK, LoseACK, ReceiveResponse, ReceiveCallback,
          ReceiveReport, ReceiveWakeUpNotification, ReceiveNonceReport, ReceiveUnknownNonce,
          ReceiveNonceGet, ReceiveUndecryptable, ReceiveEncrypted, ReceiveEncryptedNonceGet
    <3> QED
      BY <1>2, <2>1, <3>1, ReceiveStays, TxnStepKeeps
  <2>2. CASE UNCHANGED vars
    BY <1>2, <2>2, TxnStepKeeps DEF vars, StaysCurrent, Current, Waiting
  <2> QED
    BY <1>2, <2>1, <2>2, RequestKeeps, ThreadStepKeeps, DriverStepKeeps DEF Next
<1>3. LostInv => NoMsgLost
  BY DEF LostInv, Kept, Elsewhere, NoMsgLost
<1> QED
  BY <1>1, <1>2, <1>3, TypeCorrect, ParkedCorrect, TxnInvCorrect, PTL DEF Spec

-----------------------------------------------------------------------------
(***************************************************************************)
(* One place.  Where no node uses nonces, a message object that is neither *)
(* the only one of its kind nor live would be sent or freed twice.  The    *)
(* invariant counts without numbers: at most one place of each sort, no    *)
(* two sorts, and none for a message that is not live.                     *)
(***************************************************************************)
OnePlace(m) ==
    /\ OnceQueued(m) /\ OnceCalled(m)
    /\ InQueues(m) => ~Parked(m) /\ ~Current(m) /\ ~InCall(m)
    /\ Parked(m) => ~Current(m) /\ ~InCall(m)
    /\ Current(m) => ~InCall(m)
    /\ InQueues(m) \/ Parked(m) \/ Current(m) \/ InCall(m) => fate[m] = "live"

PlaceInv == \A m \in AppMsg : OnePlace(m)

(* A step that is only about the message in progress. *)
LEMMA TxnStepPlaced ==
    ASSUME PlaceInv, UNCHANGED <<msgQueue, pending, call>>, \A m \in Msg : StaysCurrent(m)
    PROVE  PlaceInv'
<1> SUFFICES ASSUME NEW m \in AppMsg PROVE OnePlace(m)'
  BY DEF PlaceInv, AppMsg
<1>1. OnePlace(m) /\ StaysCurrent(m)
  BY DEF PlaceInv, AppMsg
<1>2. UNCHANGED <<InQueues(m), Parked(m), InCall(m)>>
  BY DEF InQueues, Parked, InCall
<1>3. OnceQueued(m)' /\ OnceCalled(m)'
  BY <1>1 DEF OnePlace, OnceQueued, OnceCalled, Once, In, Calls
<1> QED
  BY <1>1, <1>2, <1>3 DEF OnePlace, StaysCurrent

(* WakeUp::QueueMsg on a message that is nowhere else any more. *)
LEMMA QueueMsgPlaced ==
    ASSUME TypeOK, ParkedDistinct, NEW n \in Sleeper, NEW x \in MsgObj, QueueMsg(n, x),
           NEW m \in Msg, NEW f \in [Msg -> Fate], fate' = FateAfterQueueMsg(n, x, f)
    PROVE  /\ Parked(m)' <=> m = x.id \/ (Parked(m) /\ ~Superseded(n, x, m))
           /\ Superseded(n, x, m) => Parked(m) /\ fate'[m] = "superseded"
           /\ ~Superseded(n, x, m) => fate'[m] = f[m]
<1>1. Superseded(n, x, m) => Parked(m)
  BY DEF Superseded, Duplicate, Parked
<1>2. Superseded(n, x, m) => fate'[m] = "superseded"
  BY DEF Superseded, FateAfterQueueMsg
<1>3. ~Superseded(n, x, m) => fate'[m] = f[m]
  BY DEF Superseded, FateAfterQueueMsg
<1> QED
  BY <1>1, <1>2, <1>3, QueueMsgPlaces

(* MoveMessagesToWakeUpQueue parks a message or deletes it. *)
LEMMA MoveOrDeletePlaced ==
    ASSUME TypeOK, ParkedDistinct, NEW n \in Sleeper, NEW x \in MsgObj, MoveOrDelete(n, x),
           NEW m \in Msg
    PROVE  \/ /\ Moved(x)
              /\ Parked(m)' <=> m = x.id \/ (Parked(m) /\ ~Superseded(n, x, m))
              /\ Superseded(n, x, m) => Parked(m) /\ fate'[m] = "superseded"
              /\ ~Superseded(n, x, m) => fate'[m] = fate[m]
           \/ /\ ~Moved(x)
              /\ Parked(m)' <=> Parked(m)
              /\ fate'[m] = IF m = x.id THEN "discarded" ELSE fate[m]
<1>1. CASE Moved(x)
  BY <1>1, QueueMsgPlaced DEF MoveOrDelete, TypeOK
<1>2. CASE ~Moved(x)
  <2>1. Parked(m)' <=> Parked(m)
    BY <1>2 DEF MoveOrDelete, Parked
  <2>2. x.id \in Msg /\ fate \in [Msg -> Fate]
    BY DEF MsgObj, TypeOK
  <2> QED
    BY <1>2, <2>1, <2>2 DEF MoveOrDelete, Settle
<1> QED
  BY <1>1, <1>2

(* A new message is in one place. *)
LEMMA RequestPlaced ==
    ASSUME TypeOK, ParkedDistinct, PlaceInv, Request
    PROVE  PlaceInv'
<1> PICK o \in Msg : \/ \E t \in Thread : AppSendMsg(t, o)
                     \/ TimerFires(o)
                     \/ WatcherSendMsg(o)
  BY DEF Request
<1> SUFFICES ASSUME NEW m \in AppMsg PROVE OnePlace(m)'
  BY DEF PlaceInv, AppMsg
<1>1. NewMsg(o) \in MsgObj /\ NewMsg(o).id = o
  BY NewMsgType DEF NewMsg
<1>2. /\ fate \in [Msg -> Fate] /\ [fate EXCEPT ![o] = "live"] \in [Msg -> Fate]
      /\ OnePlace(m) /\ m \in Msg
  BY DEF TypeOK, Fate, PlaceInv, AppMsg
<1>3. (\E t \in Thread : AppSendMsg(t, o)) \/ WatcherSendMsg(o) => fate[o] = "unsent"
  BY DEF AppSendMsg, WatcherSendMsg
<1>4. TimerFires(o) => m # o
  BY DEF TimerFires, AppMsg, IsNoMoreInformation
<1>5. ASSUME NEW t \in Thread, SendMsg(t, o), fate[o] = "unsent" \/ m # o
      PROVE  OnePlace(m)'
  <2>1. /\ InCall(m)' <=> InCall(m) \/ m = o
        /\ OnceCalled(m) /\ (o = m => ~InCall(m)) => OnceCalled(m)'
    BY <1>1, <1>5, CallStartsPlaces DEF SendMsg
  <2>2. fate'[m] = IF m = o THEN "live" ELSE fate[m]
    BY <1>2, <1>5 DEF SendMsg
  <2>3. UNCHANGED <<InQueues(m), Parked(m), Current(m), OnceQueued(m)>>
    BY <1>5 DEF SendMsg, InQueues, Parked, Current, OnceQueued, Once, In
  <2> QED
    BY <1>2, <1>5, <2>1, <2>2, <2>3 DEF OnePlace
<1>6. CASE WatcherSendMsg(o)
  <2>1. UNCHANGED <<InCall(m), Current(m), OnceCalled(m)>>
    BY <1>6 DEF WatcherSendMsg, InCall, Current, OnceCalled, Calls
  <2>2. CASE Asleep(Target[o])
    <3> DEFINE n == Target[o]
               x == NewMsg(o)
    <3>1. /\ Parked(m)' <=> m = o \/ (Parked(m) /\ ~Superseded(n, x, m))
          /\ Superseded(n, x, m) => Parked(m) /\ fate'[m] = "superseded"
          /\ ~Superseded(n, x, m) => fate'[m] = [fate EXCEPT ![o] = "live"][m]
      BY <1>1, <1>2, <1>6, <2>2, QueueMsgPlaced DEF WatcherSendMsg, Asleep
    <3>2. UNCHANGED <<InQueues(m), OnceQueued(m)>>
      BY <1>6, <2>2 DEF WatcherSendMsg, InQueues, OnceQueued, Once, In
    <3>3. Superseded(n, x, m) => m # o
      BY <1>1 DEF Superseded
    <3> HIDE DEF n, x
    <3> QED
      BY <1>2, <1>3, <1>6, <2>1, <3>1, <3>2, <3>3 DEF OnePlace
  <2>3. CASE ~Asleep(Target[o])
    <3>1. /\ InQueues(m)' <=> InQueues(m) \/ m = o
          /\ OnceQueued(m) /\ (o = m => ~InQueues(m)) => OnceQueued(m)'
      BY <1>1, <1>6, <2>3, PushBackPlaces, MessagesAssumption DEF WatcherSendMsg, Queue
    <3>2. UNCHANGED Parked(m) /\ fate'[m] = IF m = o THEN "live" ELSE fate[m]
      BY <1>2, <1>6, <2>3 DEF WatcherSendMsg, Parked
    <3> QED
      BY <1>2, <1>3, <1>6, <2>1, <3>1, <3>2 DEF OnePlace
  <2> QED
    BY <2>2, <2>3
<1> QED
  BY <1>3, <1>4, <1>5, <1>6, ThreadsAssumption DEF AppSendMsg, TimerFires

(* SendMsg hands its message on; it does not keep it. *)
LEMMA ThreadStepPlaced ==
    ASSUME TypeOK, ParkedDistinct, PlaceInv, NEW t \in Thread, ThreadStep(t)
    PROVE  PlaceInv'
<1> SUFFICES ASSUME NEW m \in AppMsg PROVE OnePlace(m)'
  BY DEF PlaceInv, AppMsg
<1> DEFINE x == call[t].msg
<1>1. fate \in [Msg -> Fate] /\ OnePlace(m) /\ m \in Msg
  BY DEF TypeOK, PlaceInv, AppMsg
<1>2. CASE SendMsgLocked(t)
  <2>1. \A u \in Thread : call'[u].pc # "idle" <=> call[u].pc # "idle"
    BY <1>2 DEF SendMsgLocked, TypeOK
  <2>2. \A u \in Thread : call'[u].msg = call[u].msg
    BY <1>2 DEF SendMsgLocked, TypeOK
  <2>3. UNCHANGED <<InCall(m), OnceCalled(m)>>
    BY <2>1, <2>2 DEF InCall, OnceCalled, Calls
  <2>4. UNCHANGED <<InQueues(m), Parked(m), Current(m), OnceQueued(m), fate>>
    BY <1>2 DEF SendMsgLocked, InQueues, Parked, Current, OnceQueued, Once, In
  <2> QED
    BY <1>1, <2>3, <2>4 DEF OnePlace
<1>3. CASE SendMsgPark(t)
  <2> DEFINE n == Target[x.id]
  <2>1. x \in MsgObj /\ Target[x.id] \in Sleeper
    BY <1>3 DEF SendMsgPark, TypeOK
  <2>2. /\ Parked(m)' <=> m = x.id \/ (Parked(m) /\ ~Superseded(n, x, m))
        /\ Superseded(n, x, m) => Parked(m) /\ fate'[m] = "superseded"
        /\ ~Superseded(n, x, m) => fate'[m] = fate[m]
    BY <1>1, <1>3, <2>1, QueueMsgPlaced DEF SendMsgPark
  <2>3. /\ InCall(m) <=> InCall(m)' \/ x.id = m
        /\ OnceCalled(m) => OnceCalled(m)' /\ (x.id = m => ~InCall(m)')
    BY <1>3, CallEndsPlaces DEF SendMsgPark
  <2>4. UNCHANGED <<InQueues(m), Current(m), OnceQueued(m)>>
    BY <1>3 DEF SendMsgPark, InQueues, Current, OnceQueued, Once, In
  <2> HIDE DEF n, x
  <2> QED
    BY <1>1, <2>2, <2>3, <2>4 DEF OnePlace
<1>4. CASE SendMsgPush(t)
  <2>1. x \in MsgObj /\ QueueOf[x.id] \in Queue
    BY <1>4, MessagesAssumption DEF SendMsgPush, TypeOK, MsgObj, Queue
  <2>2. /\ InQueues(m)' <=> InQueues(m) \/ x.id = m
        /\ OnceQueued(m) /\ (x.id = m => ~InQueues(m)) => OnceQueued(m)'
    BY <1>4, <2>1, PushBackPlaces DEF SendMsgPush
  <2>3. /\ InCall(m) <=> InCall(m)' \/ x.id = m
        /\ OnceCalled(m) => OnceCalled(m)' /\ (x.id = m => ~InCall(m)')
    BY <1>4, CallEndsPlaces DEF SendMsgPush
  <2>4. UNCHANGED <<Parked(m), Current(m), fate>>
    BY <1>4 DEF SendMsgPush, Parked, Current
  <2> HIDE DEF x
  <2> QED
    BY <1>1, <2>2, <2>3, <2>4 DEF OnePlace
<1> QED
  BY <1>2, <1>3, <1>4 DEF ThreadStep

(***************************************************************************)
(* WriteNextMsg without nonces: the driver, which waits for nothing, has   *)
(* no message in progress, and what it takes leaves its queue.             *)
(***************************************************************************)
LEMMA WriteNextMsgPlaces ==
    ASSUME TypeOK, TxnInv, NonceNode = {}, NEW q \in Queue, WriteNextMsg(q), NEW m \in Msg
    PROVE  LET x == Head(msgQueue[q])
           IN  /\ x \in MsgObj
               /\ \A o \in Msg : ~Current(o)
               /\ InQueues(m) <=> x.id = m \/ InQueues(m)'
               /\ OnceQueued(m) => OnceQueued(m)' /\ (x.id = m => ~InQueues(m)')
               /\ m # x.id => fate'[m] = fate[m] /\ ~Current(m)'
               /\ m = x.id => \/ Current(m)' /\ fate'[m] = fate[m]
                              \/ ~Current(m)' /\ fate'[m] = "dropped"
<1> DEFINE x == Head(msgQueue[q])
           t == [txn EXCEPT !.msg = x]
<1>1. txn \in Txn
  BY DEF TypeOK
<1>2. msgQueue[q] \in Seq(MsgObj) /\ msgQueue[q] # <<>> /\ x \in MsgObj
  BY QueueContents DEF WriteNextMsg
<1>3. ~Busy(txn)
  BY DEF WriteNextMsg, Waiting, Busy
<1>4. txn.msg = NoMsg /\ txn.nonceReportSent = NoNode
  BY <1>3 DEF TxnInv, Engaged
<1>5. \A o \in Msg : ~Current(o)
  BY <1>4 DEF Current
<1>6. t \in Txn /\ t.msg = x
  BY <1>1, <1>2 DEF Txn
<1>7. WriteMsg(t)
  BY DEF WriteNextMsg
<1> HIDE DEF t
<1>8. /\ m # x.id => fate'[m] = fate[m] /\ ~Current(m)'
      /\ m = x.id => \/ Current(m)' /\ fate'[m] = fate[m]
                     \/ ~Current(m)' /\ fate'[m] = "dropped"
  BY <1>2, <1>6, <1>7, WriteMsgKeeps
<1>9. msgQueue' = [msgQueue EXCEPT ![q] = Tail(msgQueue[q])]
  BY <1>4 DEF WriteNextMsg, LeftInQueue
<1>10. /\ In(msgQueue[q], m) <=> x.id = m \/ In(Tail(msgQueue[q]), m)
       /\ Once(msgQueue[q], m) => /\ Once(Tail(msgQueue[q]), m)
                                  /\ x.id = m => ~In(Tail(msgQueue[q]), m)
  BY <1>2, TailHolds
<1>11. /\ InQueues(m) <=> x.id = m \/ InQueues(m)'
       /\ OnceQueued(m) => OnceQueued(m)' /\ (x.id = m => ~InQueues(m)')
  BY <1>9, <1>10, TakenPlaces
<1> QED
  BY <1>2, <1>5, <1>8, <1>11

(* MoveQueuedMsg takes a message out of the middle of a queue. *)
LEMMA MoveQueuedMsgPlaces ==
    ASSUME TypeOK, NEW q \in Queue, NEW i \in DOMAIN msgQueue[q], MoveQueuedMsg(q, i),
           NEW m \in Msg
    PROVE  LET x == msgQueue[q][i]
           IN  /\ driver.node \in Sleeper /\ x \in MsgObj /\ Target[x.id] = driver.node
               /\ InQueues(m) <=> x.id = m \/ InQueues(m)'
               /\ OnceQueued(m) => OnceQueued(m)' /\ (x.id = m => ~InQueues(m)')
<1> DEFINE s == msgQueue[q]
           x == s[i]
<1>1. driver.node \in Sleeper /\ Target[x.id] = driver.node
  BY DEF MoveQueuedMsg, QueuedFor, TypeOK
<1>2. s \in Seq(MsgObj) /\ i \in 1..Len(s) /\ x \in MsgObj
  BY QueueContents
<1>3. /\ In(s, m) <=> x.id = m \/ In(RemoveAt(s, i), m)
      /\ Once(s, m) => /\ Once(RemoveAt(s, i), m)
                       /\ x.id = m => ~In(RemoveAt(s, i), m)
  BY <1>2, RemoveAtHolds
<1>4. msgQueue' = [msgQueue EXCEPT ![q] = RemoveAt(s, i)]
  BY DEF MoveQueuedMsg
<1>5. /\ InQueues(m) <=> x.id = m \/ InQueues(m)'
      /\ OnceQueued(m) => OnceQueued(m)' /\ (x.id = m => ~InQueues(m)')
  BY <1>3, <1>4, TakenPlaces
<1> QED
  BY <1>1, <1>2, <1>5

(* SendPending moves the front of a wake-up queue to a send queue. *)
LEMMA SendPendingPlaces ==
    ASSUME TypeOK, ParkedDistinct, SendPending, NEW m \in Msg
    PROVE  LET x == Head(pending[driver.node])
           IN  /\ x \in MsgObj /\ Parked(x.id)
               /\ InQueues(m)' <=> InQueues(m) \/ x.id = m
               /\ OnceQueued(m) /\ (x.id = m => ~InQueues(m)) => OnceQueued(m)'
               /\ Parked(m) <=> x.id = m \/ Parked(m)'
               /\ x.id = m => ~Parked(m)'
<1> DEFINE n == driver.node
           x == Head(pending[n])
<1>1. n \in Sleeper /\ pending[n] \in Seq(MsgObj) /\ pending[n] # <<>>
  BY DEF SendPending, TypeOK
<1>2. x \in MsgObj
  BY <1>1, HeadTailProperties
<1>3. MsgQueue_WakeUp \in Queue
  BY DEF Queue, MsgQueue_WakeUp
<1>4. /\ InQueues(m)' <=> InQueues(m) \/ x.id = m
      /\ OnceQueued(m) /\ (x.id = m => ~InQueues(m)) => OnceQueued(m)'
  BY <1>2, <1>3, PushBackPlaces DEF SendPending
<1>5. /\ Parked(m) <=> x.id = m \/ Parked(m)'
      /\ x.id = m => ~Parked(m)'
  BY <1>1, DrainedPlaces DEF SendPending
<1>6. Parked(x.id)
  BY <1>1, DrainedPlaces DEF SendPending
<1> QED
  BY <1>2, <1>4, <1>5, <1>6

(* The driver thread's steps keep every message in one place. *)
LEMMA DriverStepPlaced ==
    ASSUME TypeOK, ParkedDistinct, TxnInv, NonceNode = {}, PlaceInv, DriverStep
    PROVE  PlaceInv'
<1>1. CASE WaitTimeout
  BY <1>1, WaitTimeoutStays, TxnStepPlaced DEF WaitTimeout
<1>2. CASE SendPendingDone \/ SendToSleepLater \/ MoveDone
  <2>1. UNCHANGED <<msgQueue, pending, call, txn, fate>>
    BY <1>2 DEF SendPendingDone, SendToSleepLater, MoveDone
  <2> QED
    BY <2>1, TxnStepPlaced DEF StaysCurrent, Current, Waiting
<1> SUFFICES ASSUME NEW m \in AppMsg,
                    ~ (WaitTimeout \/ SendPendingDone \/ SendToSleepLater \/ MoveDone)
             PROVE  OnePlace(m)'
  BY <1>1, <1>2 DEF PlaceInv, AppMsg
<1>3. OnePlace(m) /\ m \in Msg
  BY DEF PlaceInv, AppMsg
<1>4. ASSUME NEW q \in Queue, WriteNextMsg(q) PROVE OnePlace(m)'
  <2> DEFINE x == Head(msgQueue[q])
  <2>1. /\ ~Current(m)
        /\ InQueues(m) <=> x.id = m \/ InQueues(m)'
        /\ OnceQueued(m) => OnceQueued(m)' /\ (x.id = m => ~InQueues(m)')
        /\ m # x.id => fate'[m] = fate[m] /\ ~Current(m)'
        /\ m = x.id => \/ Current(m)' /\ fate'[m] = fate[m]
                       \/ ~Current(m)' /\ fate'[m] = "dropped"
    BY <1>3, <1>4, WriteNextMsgPlaces
  <2>2. UNCHANGED <<Parked(m), InCall(m), OnceCalled(m)>>
    BY <1>4 DEF WriteNextMsg, Parked, InCall, OnceCalled, Calls
  <2> HIDE DEF x
  <2> QED
    BY <1>3, <2>1, <2>2 DEF OnePlace
<1>5. CASE SendPending
  <2> DEFINE x == Head(pending[driver.node])
  <2>1. /\ InQueues(m)' <=> InQueues(m) \/ x.id = m
        /\ OnceQueued(m) /\ (x.id = m => ~InQueues(m)) => OnceQueued(m)'
        /\ Parked(m) <=> x.id = m \/ Parked(m)'
        /\ x.id = m => ~Parked(m)'
    BY <1>3, <1>5, SendPendingPlaces
  <2>2. UNCHANGED <<Current(m), InCall(m), OnceCalled(m), fate>>
    BY <1>5 DEF SendPending, Current, InCall, OnceCalled, Calls
  <2> HIDE DEF x
  <2> QED
    BY <1>3, <2>1, <2>2 DEF OnePlace
<1>6. ASSUME NEW o \in Msg, SendToSleepNow(o) PROVE OnePlace(m)'
  <2>1. NewMsg(o) \in MsgObj /\ NewMsg(o).id = o /\ MsgQueue_WakeUp \in Queue
    BY NewMsgType DEF NewMsg, Queue, MsgQueue_WakeUp
  <2>2. m # o
    BY <1>6 DEF SendToSleepNow, AppMsg, IsNoMoreInformation
  <2>3. /\ InQueues(m)' <=> InQueues(m)
        /\ OnceQueued(m) => OnceQueued(m)'
    BY <1>6, <2>1, <2>2, PushBackPlaces DEF SendToSleepNow
  <2>4. UNCHANGED <<Parked(m), InCall(m), Current(m), OnceCalled(m)>> /\ fate'[m] = fate[m]
    BY <1>6, <2>2 DEF SendToSleepNow, Parked, InCall, Current, OnceCalled, Calls, TypeOK
  <2> QED
    BY <1>3, <2>3, <2>4 DEF OnePlace
<1>7. driver.pc = "Moving" => driver.node \in Sleeper
  BY DEF TypeOK
<1>8. CASE MoveCurrentMsg
  <2> DEFINE n == driver.node
             x == txn.msg
  <2>1. n \in Sleeper /\ x \in MsgObj /\ (Current(m) <=> m = x.id)
    BY <1>7, <1>8 DEF MoveCurrentMsg, CurrentIsFor, Current, Txn, TypeOK
  <2>2. ~Current(m)'
    BY <1>8 DEF MoveCurrentMsg, ForgetCurrent, NoTxn, Current
  <2>3. \/ /\ Parked(m)' <=> m = x.id \/ (Parked(m) /\ ~Superseded(n, x, m))
           /\ Superseded(n, x, m) => Parked(m) /\ fate'[m] = "superseded"
           /\ ~Superseded(n, x, m) => fate'[m] = fate[m]
        \/ /\ Parked(m)' <=> Parked(m)
           /\ fate'[m] = IF m = x.id THEN "discarded" ELSE fate[m]
    BY <1>3, <1>8, <2>1, MoveOrDeletePlaced DEF MoveCurrentMsg
  <2>4. UNCHANGED <<InQueues(m), OnceQueued(m), InCall(m), OnceCalled(m)>>
    BY <1>8 DEF MoveCurrentMsg, InQueues, OnceQueued, Once, In, InCall, OnceCalled, Calls
  <2> HIDE DEF n, x
  <2> QED
    BY <1>3, <2>1, <2>2, <2>3, <2>4 DEF OnePlace
<1>9. ASSUME NEW q \in Queue, NEW i \in DOMAIN msgQueue[q], MoveQueuedMsg(q, i)
      PROVE  OnePlace(m)'
  <2> DEFINE n == driver.node
             x == msgQueue[q][i]
  <2>1. /\ n \in Sleeper /\ x \in MsgObj
        /\ InQueues(m) <=> x.id = m \/ InQueues(m)'
        /\ OnceQueued(m) => OnceQueued(m)' /\ (x.id = m => ~InQueues(m)')
    BY <1>3, <1>9, MoveQueuedMsgPlaces
  <2>2. \/ /\ Parked(m)' <=> m = x.id \/ (Parked(m) /\ ~Superseded(n, x, m))
           /\ Superseded(n, x, m) => Parked(m) /\ fate'[m] = "superseded"
           /\ ~Superseded(n, x, m) => fate'[m] = fate[m]
        \/ /\ Parked(m)' <=> Parked(m)
           /\ fate'[m] = IF m = x.id THEN "discarded" ELSE fate[m]
    BY <1>3, <1>9, <2>1, MoveOrDeletePlaced DEF MoveQueuedMsg
  <2>3. UNCHANGED <<Current(m), InCall(m), OnceCalled(m)>>
    BY <1>9 DEF MoveQueuedMsg, Current, InCall, OnceCalled, Calls
  <2> HIDE DEF n, x
  <2> QED
    BY <1>3, <2>1, <2>2, <2>3 DEF OnePlace
<1> QED
  BY <1>4, <1>5, <1>6, <1>8, <1>9 DEF DriverStep

(* What Places collects, one disjunct for each sort of place. *)
LEMMA PlacesAre ==
    ASSUME NEW m
    PROVE  /\ \A p \in Places(m) :
                 \/ \E t \in Thread : Calls(t, m) /\ p = <<"call", t, 0>>
                 \/ Current(m) /\ p = <<"current", 0, 0>>
                 \/ \E q \in Queue : \E i \in DOMAIN msgQueue[q] :
                       msgQueue[q][i].id = m /\ p = <<"queue", q, i>>
                 \/ \E n \in Sleeper : \E i \in DOMAIN pending[n] :
                       pending[n][i].id = m /\ p = <<"parked", n, i>>
           /\ Places(m) = {} <=> ~InQueues(m) /\ ~Parked(m) /\ ~Current(m) /\ ~InCall(m)
<1> DEFINE callers == {<<"call", t, 0>> : t \in {u \in Thread : call[u].pc # "idle"
                                                               /\ call[u].msg.id = m}}
           current == IF Current(m) THEN {<<"current", 0, 0>>} ELSE {}
           queued  == UNION {{<<"queue", q, i>> :
                              i \in {j \in DOMAIN msgQueue[q] : msgQueue[q][j].id = m}}
                             : q \in Queue}
           parked  == UNION {{<<"parked", n, i>> :
                              i \in {j \in DOMAIN pending[n] : pending[n][j].id = m}}
                             : n \in Sleeper}
<1>1. Places(m) = callers \cup current \cup queued \cup parked
  BY DEF Places
<1>2. /\ \A p \in callers : \E t \in Thread : Calls(t, m) /\ p = <<"call", t, 0>>
      /\ callers = {} <=> ~InCall(m)
  <2>1. ASSUME NEW p \in callers
        PROVE  \E t \in Thread : Calls(t, m) /\ p = <<"call", t, 0>>
    BY DEF Calls
  <2>2. ASSUME NEW t \in Thread, Calls(t, m) PROVE <<"call", t, 0>> \in callers
    BY <2>2 DEF Calls
  <2>3. InCall(m) <=> \E t \in Thread : Calls(t, m)
    BY DEF InCall, Calls
  <2> HIDE DEF callers
  <2>4. callers = {} => ~InCall(m)
    BY <2>2, <2>3
  <2> QED
    BY <2>1, <2>3, <2>4
<1>3. /\ \A p \in current : Current(m) /\ p = <<"current", 0, 0>>
      /\ current = {} <=> ~Current(m)
  OBVIOUS
<1>4. /\ \A p \in queued : \E q \in Queue : \E i \in DOMAIN msgQueue[q] :
            msgQueue[q][i].id = m /\ p = <<"queue", q, i>>
      /\ queued = {} <=> ~InQueues(m)
  <2>1. ASSUME NEW p \in queued
        PROVE  \E q \in Queue : \E i \in DOMAIN msgQueue[q] :
                   msgQueue[q][i].id = m /\ p = <<"queue", q, i>>
    OBVIOUS
  <2>2. ASSUME NEW q \in Queue, NEW i \in DOMAIN msgQueue[q], msgQueue[q][i].id = m
        PROVE  <<"queue", q, i>> \in queued
    BY <2>2
  <2> HIDE DEF queued
  <2>3. queued = {} => ~InQueues(m)
    BY <2>2 DEF InQueues
  <2>4. ~InQueues(m) => queued = {}
    BY <2>1 DEF InQueues
  <2> QED
    BY <2>1, <2>3, <2>4
<1>5. /\ \A p \in parked : \E n \in Sleeper : \E i \in DOMAIN pending[n] :
            pending[n][i].id = m /\ p = <<"parked", n, i>>
      /\ parked = {} <=> ~Parked(m)
  <2>1. ASSUME NEW p \in parked
        PROVE  \E n \in Sleeper : \E i \in DOMAIN pending[n] :
                   pending[n][i].id = m /\ p = <<"parked", n, i>>
    OBVIOUS
  <2>2. ASSUME NEW n \in Sleeper, NEW i \in DOMAIN pending[n], pending[n][i].id = m
        PROVE  <<"parked", n, i>> \in parked
    BY <2>2
  <2> HIDE DEF parked
  <2>3. parked = {} => ~Parked(m)
    BY <2>2 DEF Parked
  <2>4. ~Parked(m) => parked = {}
    BY <2>1 DEF Parked
  <2> QED
    BY <2>1, <2>3, <2>4
<1> HIDE DEF callers, current, queued, parked
<1> QED
  BY <1>1, <1>2, <1>3, <1>4, <1>5

(* OnePlace, and wake-up queues without equal messages, leave one place at most. *)
LEMMA AtMostOnePlace ==
    ASSUME ParkedDistinct, NEW m, OnePlace(m), NEW p \in Places(m), NEW r \in Places(m)
    PROVE  p = r
<1>1. ASSUME NEW t \in Thread, NEW u \in Thread, Calls(t, m), Calls(u, m) PROVE t = u
  BY <1>1 DEF OnePlace, OnceCalled
<1>2. ASSUME NEW q \in Queue, NEW i \in DOMAIN msgQueue[q], msgQueue[q][i].id = m,
             NEW o \in Queue, NEW j \in DOMAIN msgQueue[o], msgQueue[o][j].id = m
      PROVE  q = o /\ i = j
  BY <1>2 DEF OnePlace, OnceQueued, Once, In
<1>3. ASSUME NEW n \in Sleeper, NEW i \in DOMAIN pending[n], pending[n][i].id = m,
             NEW k \in Sleeper, NEW j \in DOMAIN pending[k], pending[k][j].id = m
      PROVE  n = k /\ i = j
  <2>1. n = k
    BY <1>3 DEF ParkedDistinct
  <2> QED
    BY <1>3, <2>1 DEF ParkedDistinct, SameContent
<1>4. /\ (\E t \in Thread : Calls(t, m)) <=> InCall(m)
      /\ (\E q \in Queue : \E i \in DOMAIN msgQueue[q] : msgQueue[q][i].id = m) <=> InQueues(m)
      /\ (\E n \in Sleeper : \E i \in DOMAIN pending[n] : pending[n][i].id = m) <=> Parked(m)
  BY DEF Calls, InCall, InQueues, Parked
<1>5. CASE InCall(m)
  <2>1. ~Current(m) /\ ~InQueues(m) /\ ~Parked(m)
    BY <1>5 DEF OnePlace
  <2> QED
    BY <1>1, <1>4, <2>1, PlacesAre
<1>6. CASE Current(m)
  <2>1. ~InCall(m) /\ ~InQueues(m) /\ ~Parked(m)
    BY <1>6 DEF OnePlace
  <2> QED
    BY <1>4, <2>1, PlacesAre
<1>7. CASE InQueues(m)
  <2>1. ~InCall(m) /\ ~Current(m) /\ ~Parked(m)
    BY <1>7 DEF OnePlace
  <2> QED
    BY <1>2, <1>4, <2>1, PlacesAre
<1>8. CASE Parked(m)
  <2>1. ~InCall(m) /\ ~Current(m) /\ ~InQueues(m)
    BY <1>8 DEF OnePlace
  <2> QED
    BY <1>3, <1>4, <2>1, PlacesAre
<1> QED
  BY <1>5, <1>6, <1>7, <1>8, PlacesAre

(* Only nonce reports make WriteNextMsg copy a message. *)
PlacedInv == NonceNode = {} => PlaceInv

(* PlaceInv holds in every reachable state of a network without nonces. *)
LEMMA PlacedInvCorrect == Spec => []PlacedInv
<1>1. Init => PlaceInv
  BY DEF Init, NoTxn, PlaceInv, OnePlace, OnceQueued, OnceCalled, Once, In, Calls,
         InQueues, Parked, Current, InCall
<1>2. ASSUME TypeOK, ParkedDistinct, TxnInv, NonceNode = {}, PlaceInv, [Next]_vars
      PROVE  PlaceInv'
  <2>1. CASE ReceiveStep
    <3>1. UNCHANGED <<msgQueue, pending, call>>
      BY <2>1
      DEF ReceiveStep, ReadACK, ReadCAN, ReadNAK, LoseACK, ReceiveResponse, ReceiveCallback,
          ReceiveReport, ReceiveWakeUpNotification, ReceiveNonceReport, ReceiveUnknownNonce,
          ReceiveNonceGet, ReceiveUndecryptable, ReceiveEncrypted, ReceiveEncryptedNonceGet
    <3> QED
      BY <1>2, <2>1, <3>1, ReceiveStays, TxnStepPlaced
  <2>2. CASE UNCHANGED vars
    BY <1>2, <2>2, TxnStepPlaced DEF vars, StaysCurrent, Current, Waiting
  <2> QED
    BY <1>2, <2>1, <2>2, RequestPlaced, ThreadStepPlaced, DriverStepPlaced DEF Next
<1>3. Init => PlacedInv
  BY <1>1 DEF PlacedInv
<1>4. TypeOK /\ ParkedDistinct /\ TxnInv /\ PlacedInv /\ [Next]_vars => PlacedInv'
  BY <1>2 DEF PlacedInv
<1> QED
  BY <1>3, <1>4, TypeCorrect, ParkedCorrect, TxnInvCorrect, PTL DEF Spec

(***************************************************************************)
(* Where no node uses nonces, an application's message is in exactly one   *)
(* place as long as it is live and nowhere afterwards, so WriteNextMsg,    *)
(* MoveMessagesToWakeUpQueue, SendPending and the threads in SendMsg       *)
(* between them neither duplicate a message nor use one that was deleted.  *)
(***************************************************************************)
THEOREM ExactlyOnePlaceCorrect == Spec => []ExactlyOnePlace
<1>1. ASSUME ParkedDistinct, NoMsgLost, PlacedInv PROVE ExactlyOnePlace
  <2> SUFFICES ASSUME NEW m \in Msg, NonceNode = {}, Kind[m] # "NMI"
               PROVE  Cardinality(Places(m)) = IF fate[m] = "live" THEN 1 ELSE 0
    BY DEF ExactlyOnePlace
  <2>1. OnePlace(m)
    BY <1>1 DEF PlacedInv, PlaceInv, AppMsg, IsNoMoreInformation
  <2>2. Places(m) # {} <=> fate[m] = "live"
    BY <1>1, <2>1, PlacesAre DEF OnePlace, NoMsgLost
  <2>3. CASE fate[m] = "live"
    <3>1. PICK p \in Places(m) : TRUE
      BY <2>2, <2>3
    <3>2. Places(m) = {p}
      BY <1>1, <2>1, <3>1, AtMostOnePlace
    <3> QED
      BY <2>3, <3>2, FS_Singleton
  <2>4. CASE fate[m] # "live"
    BY <2>2, <2>4, FS_EmptySet
  <2> QED
    BY <2>3, <2>4
<1> QED
  BY <1>1, ParkedCorrect, NoMsgLostCorrect, PlacedInvCorrect, PTL

-----------------------------------------------------------------------------
(***************************************************************************)
(* The refinement.  Where(m) is what DeliveryStatus shows of the message m *)
(* to the caller of SendMsg; each step of the driver changes it as a step  *)
(* of MsgDelivery does, or not at all.                                     *)
(***************************************************************************)
Where(m) ==
    IF fate[m] = "unsent" THEN "unsent"
    ELSE IF Current(m) THEN "inProgress"
    ELSE IF Parked(m) THEN "parked"
    ELSE IF InQueues(m) \/ InCall(m) THEN "waiting"
    ELSE "gone"

(* DeliveryStatus is Where for the application's messages. *)
LEMMA StatusIsWhere == DeliveryStatus = [m \in AppMsg |-> Where(m)]
  BY DEF DeliveryStatus, Where

(* A message in one place has one status. *)
LEMMA WhereIs ==
    ASSUME NEW m, OnePlace(m)
    PROVE  /\ Where(m) = "unsent" <=> fate[m] = "unsent"
           /\ Where(m) = "inProgress" <=> Current(m)
           /\ Where(m) = "parked" <=> Parked(m)
           /\ Where(m) = "waiting" <=> InQueues(m) \/ InCall(m)
           /\ Where(m) = "gone" <=> fate[m] # "unsent" /\ ~Current(m) /\ ~Parked(m)
                                    /\ ~InQueues(m) /\ ~InCall(m)
  BY DEF OnePlace, Where

(* Nothing an application can see has happened. *)
LEMMA NothingDelivered ==
    ASSUME \A m \in AppMsg : Where(m)' = Where(m)
    PROVE  UNCHANGED DeliveryStatus
<1>1. DeliveryStatus = [m \in AppMsg |-> Where(m)]
  BY StatusIsWhere
<1>2. DeliveryStatus' = [m \in AppMsg |-> Where(m)']
  BY DEF DeliveryStatus, Where
<1> QED
  BY <1>1, <1>2

(* One message changes its status. *)
LEMMA OneDelivered ==
    ASSUME NEW o \in AppMsg, NEW v, Where(o)' = v,
           \A m \in AppMsg : m # o => Where(m)' = Where(m)
    PROVE  /\ DeliveryStatus[o] = Where(o)
           /\ DeliveryStatus' = [DeliveryStatus EXCEPT ![o] = v]
<1>1. DeliveryStatus = [m \in AppMsg |-> Where(m)]
  BY StatusIsWhere
<1>2. DeliveryStatus' = [m \in AppMsg |-> Where(m)']
  BY DEF DeliveryStatus, Where
<1> QED
  BY <1>1, <1>2

(* What is assumed of a state and its successor in the step simulation. *)
StepInv == TypeOK /\ ParkedDistinct /\ TxnInv /\ PlaceInv /\ NonceNode = {}

(* A step about the message in progress finishes it, or shows nothing. *)
LEMMA TxnStepDelivers ==
    ASSUME StepInv, PlaceInv', UNCHANGED <<msgQueue, pending, call>>,
           \A m \in Msg : StaysCurrent(m)
    PROVE  [Delivery!Next]_DeliveryStatus
<1>1. ASSUME NEW m \in AppMsg PROVE OnePlace(m) /\ OnePlace(m)' /\ StaysCurrent(m)
  BY DEF StepInv, PlaceInv, AppMsg
<1>2. ASSUME NEW m \in AppMsg
      PROVE  UNCHANGED <<InQueues(m), Parked(m), InCall(m)>>
  BY DEF InQueues, Parked, InCall
<1>3. ASSUME NEW m \in AppMsg, Current(m)' <=> Current(m), fate'[m] = fate[m]
      PROVE  Where(m)' = Where(m)
  BY <1>2, <1>3 DEF Where
<1>4. ASSUME NEW o \in AppMsg, Current(o), ~Current(o)', fate'[o] \notin {"unsent", "live"}
      PROVE  Delivery!Next
  <2>1. Where(o) = "inProgress"
    BY <1>1, <1>4, WhereIs
  <2>2. Where(o)' = "gone"
    BY <1>1, <1>4 DEF Where, OnePlace
  <2>3. ASSUME NEW m \in AppMsg, m # o PROVE Where(m)' = Where(m)
    <3>1. ~Current(m)
      BY <1>4, <2>3 DEF Current
    <3> QED
      BY <1>1, <1>3, <3>1 DEF StaysCurrent
  <2>4. /\ DeliveryStatus[o] = "inProgress"
        /\ DeliveryStatus' = [DeliveryStatus EXCEPT ![o] = "gone"]
    BY <2>1, <2>2, <2>3, OneDelivered
  <2>5. Delivery!Finish(o)
    BY <2>4 DEF Delivery!Finish
  <2> QED
    BY <2>5 DEF Delivery!Next
<1>5. CASE \A m \in AppMsg : (Current(m)' <=> Current(m)) /\ fate'[m] = fate[m]
  BY <1>3, <1>5, NothingDelivered
<1> QED
  BY <1>1, <1>4, <1>5 DEF StaysCurrent

(* QueueMsg parks an application's message in the place of an equal one. *)
LEMMA ParkDelivers ==
    ASSUME StepInv, PlaceInv', NEW n \in Sleeper, NEW x \in MsgObj, Target[x.id] = n,
           QueueMsg(n, x), NEW f \in [Msg -> Fate], fate' = FateAfterQueueMsg(n, x, f),
           x.id \in AppMsg => f[x.id] = "live",
           \A m \in AppMsg : m # x.id => /\ f[m] = fate[m]
                                         /\ InQueues(m)' <=> InQueues(m)
                                         /\ Current(m)' <=> Current(m)
                                         /\ InCall(m)' <=> InCall(m),
           x.id \in AppMsg => Where(x.id) \in {"unsent", "waiting", "inProgress"}
    PROVE  [Delivery!Next]_DeliveryStatus
<1>1. ASSUME NEW m \in AppMsg
      PROVE  /\ m \in Msg /\ OnePlace(m) /\ OnePlace(m)'
             /\ Parked(m)' <=> m = x.id \/ (Parked(m) /\ ~Superseded(n, x, m))
             /\ Superseded(n, x, m) => Parked(m) /\ fate'[m] = "superseded"
             /\ ~Superseded(n, x, m) => fate'[m] = f[m]
  <2>1. m \in Msg /\ OnePlace(m) /\ OnePlace(m)'
    BY DEF StepInv, PlaceInv, AppMsg
  <2> QED
    BY <2>1, QueueMsgPlaced DEF StepInv
<1>2. ASSUME NEW m \in AppMsg, m # x.id, ~Superseded(n, x, m)
      PROVE  Where(m)' = Where(m)
  BY <1>1, <1>2 DEF Where
<1>3. ASSUME NEW m \in AppMsg, m # x.id, Superseded(n, x, m)
      PROVE  Where(m) = "parked" /\ Where(m)' = "gone"
  <2>1. Where(m) = "parked"
    BY <1>1, <1>3, WhereIs
  <2>2. Where(m)' = "gone"
    BY <1>1, <1>3 DEF Where, OnePlace
  <2> QED
    BY <2>1, <2>2
<1>4. ASSUME NEW m \in Msg, Superseded(n, x, m)
      PROVE  /\ Kind[m] = Kind[x.id] /\ Target[m] = n
             /\ \A o \in Msg : Superseded(n, x, o) => o = m
  <2>1. PICK i \in DOMAIN pending[n] : SameContent(pending[n][i], x) /\ pending[n][i].id = m
    BY <1>4 DEF Superseded, Duplicate
  <2>2. Kind[m] = Kind[x.id] /\ Target[m] = n
    BY <2>1, MessagesAssumption DEF SameContent, MsgObj
  <2>3. ASSUME NEW o \in Msg, Superseded(n, x, o) PROVE o = m
    <3>1. PICK j \in DOMAIN pending[n] : SameContent(pending[n][j], x) /\ pending[n][j].id = o
      BY <2>3 DEF Superseded, Duplicate
    <3>2. SameContent(pending[n][i], pending[n][j])
      BY <2>1, <3>1 DEF SameContent
    <3>3. i = j
      BY <3>2 DEF StepInv, ParkedDistinct
    <3> QED
      BY <2>1, <3>1, <3>3
  <2> QED
    BY <2>2, <2>3
<1>5. CASE x.id \notin AppMsg
  <2>1. Kind[x.id] = "NMI"
    BY <1>5 DEF AppMsg, IsNoMoreInformation, MsgObj
  <2>2. ASSUME NEW m \in AppMsg PROVE Where(m)' = Where(m)
    <3>1. ~Superseded(n, x, m)
      BY <1>4, <2>1 DEF AppMsg, IsNoMoreInformation
    <3> QED
      BY <1>2, <1>5, <3>1
  <2> QED
    BY <2>2, NothingDelivered
<1>6. CASE x.id \in AppMsg
  <2> DEFINE o == x.id
             sup == {m \in AppMsg : Superseded(n, x, m)}
             sleepy == {m \in AppMsg : Target[m] \in Sleeper}
  <2>1. Where(o)' = "parked" /\ ~Superseded(n, x, o)
    <3>1. ~Superseded(n, x, o)
      BY DEF Superseded
    <3>2. Parked(o)'
      BY <1>1, <1>6
    <3>3. Where(o)' = "parked"
      BY <1>1, <1>6, <3>2 DEF Where, OnePlace
    <3> QED
      BY <3>1, <3>3
  <2>2. DeliveryStatus = [m \in AppMsg |-> Where(m)]
    BY StatusIsWhere
  <2>3. DeliveryStatus' = [m \in AppMsg |-> Where(m)']
    BY DEF DeliveryStatus, Where
  <2>4. DeliveryStatus' = [m \in AppMsg |-> IF m = o THEN "parked"
                                            ELSE IF m \in sup THEN "gone"
                                            ELSE DeliveryStatus[m]]
    BY <1>2, <1>3, <2>1, <2>2, <2>3
  <2>5. o \in sleepy
    BY <1>6
  <2>6. sup \subseteq {m \in sleepy : DeliveryStatus[m] = "parked"}
    BY <1>3, <1>4, <2>1, <2>2 DEF AppMsg
  <2>7. \A m, p \in sup : m = p
    BY <1>4 DEF AppMsg
  <2>8. DeliveryStatus[o] \in {"unsent", "waiting", "inProgress"}
    BY <1>6, <2>2
  <2> HIDE DEF sup
  <2>9. Delivery!Park(o, sup)
    BY <2>4, <2>5, <2>6, <2>7, <2>8 DEF Delivery!Park
  <2>10. sup \in SUBSET sleepy
    BY <2>6
  <2> QED
    BY <1>6, <2>9, <2>10 DEF Delivery!Next
<1> QED
  BY <1>5, <1>6

(* MoveMessagesToWakeUpQueue parks a message or finishes with it. *)
LEMMA MoveDelivers ==
    ASSUME StepInv, PlaceInv', NEW n \in Sleeper, NEW x \in MsgObj, Target[x.id] = n,
           MoveOrDelete(n, x),
           x.id \in AppMsg => Where(x.id) \in {"waiting", "inProgress"},
           \A m \in AppMsg : m # x.id => /\ InQueues(m)' <=> InQueues(m)
                                         /\ Current(m)' <=> Current(m)
                                         /\ InCall(m)' <=> InCall(m),
           x.id \in AppMsg => ~InQueues(x.id)' /\ ~Current(x.id)' /\ ~InCall(x.id)'
    PROVE  [Delivery!Next]_DeliveryStatus
<1>1. fate \in [Msg -> Fate] /\ x.id \in Msg
  BY DEF StepInv, TypeOK, MsgObj
<1>2. x.id \in AppMsg => fate[x.id] = "live"
  BY DEF StepInv, PlaceInv, OnePlace, Where
<1>3. CASE Moved(x)
  BY <1>1, <1>2, <1>3, ParkDelivers DEF MoveOrDelete
<1>4. CASE ~Moved(x)
  <2>1. ASSUME NEW m \in AppMsg
        PROVE  Parked(m)' <=> Parked(m)
    BY <1>4 DEF MoveOrDelete, Parked
  <2>2. ASSUME NEW m \in AppMsg
        PROVE  fate'[m] = IF m = x.id THEN "discarded" ELSE fate[m]
    BY <1>1, <1>4 DEF MoveOrDelete, Settle, AppMsg
  <2>3. ASSUME NEW m \in AppMsg, m # x.id PROVE Where(m)' = Where(m)
    BY <2>1, <2>2, <2>3 DEF Where
  <2>4. CASE x.id \in AppMsg
    <3>1. Where(x.id)' = "gone"
      <4>1. fate'[x.id] = "discarded" /\ OnePlace(x.id)'
        BY <2>2, <2>4 DEF PlaceInv
      <4> QED
        BY <4>1 DEF Where, OnePlace
    <3>2. /\ DeliveryStatus[x.id] = Where(x.id)
          /\ DeliveryStatus' = [DeliveryStatus EXCEPT ![x.id] = "gone"]
      BY <2>3, <2>4, <3>1, OneDelivered
    <3>3. Delivery!Finish(x.id)
      BY <2>4, <3>2 DEF Delivery!Finish
    <3> QED
      BY <2>4, <3>3 DEF Delivery!Next
  <2>5. CASE x.id \notin AppMsg
    BY <2>3, <2>5, NothingDelivered
  <2> QED
    BY <2>4, <2>5
<1> QED
  BY <1>3, <1>4

(* SendMsg accepts a message, or parks it at once. *)
LEMMA RequestDelivers ==
    ASSUME StepInv, PlaceInv', Request
    PROVE  [Delivery!Next]_DeliveryStatus
<1> PICK o \in Msg : \/ \E t \in Thread : AppSendMsg(t, o)
                     \/ TimerFires(o)
                     \/ WatcherSendMsg(o)
  BY DEF Request
<1>1. NewMsg(o) \in MsgObj /\ NewMsg(o).id = o
  BY NewMsgType DEF NewMsg, StepInv
<1>2. fate \in [Msg -> Fate] /\ [fate EXCEPT ![o] = "live"] \in [Msg -> Fate]
  BY DEF StepInv, TypeOK, Fate
<1>3. ASSUME NEW m \in AppMsg PROVE m \in Msg /\ OnePlace(m) /\ OnePlace(m)'
  BY DEF StepInv, PlaceInv, AppMsg
<1>4. ASSUME o \in AppMsg, fate[o] = "unsent", Where(o)' = "waiting",
             \A m \in AppMsg : m # o => Where(m)' = Where(m)
      PROVE  Delivery!Next
  <2>1. /\ DeliveryStatus[o] = "unsent"
        /\ DeliveryStatus' = [DeliveryStatus EXCEPT ![o] = "waiting"]
    BY <1>4, OneDelivered DEF Where
  <2>2. Delivery!Accept(o)
    BY <2>1 DEF Delivery!Accept
  <2> QED
    BY <1>4, <2>2 DEF Delivery!Next
<1>5. ASSUME NEW t \in Thread, SendMsg(t, o), NEW m \in AppMsg
      PROVE  /\ m # o => Where(m)' = Where(m)
             /\ m = o => InCall(m)'
  <2>1. InCall(m)' <=> InCall(m) \/ o = m
    BY <1>1, <1>5, CallStartsPlaces DEF SendMsg, StepInv
  <2>2. UNCHANGED <<InQueues(m), Parked(m), Current(m)>>
    BY <1>5 DEF SendMsg, InQueues, Parked, Current
  <2>3. m # o => fate'[m] = fate[m]
    BY <1>2, <1>3, <1>5 DEF SendMsg
  <2> QED
    BY <2>1, <2>2, <2>3 DEF Where
<1>6. ASSUME NEW t \in Thread, AppSendMsg(t, o) PROVE Delivery!Next
  <2>1. o \in AppMsg /\ fate[o] = "unsent" /\ SendMsg(t, o)
    BY <1>6 DEF AppSendMsg, AppMsg, IsNoMoreInformation
  <2>2. Where(o)' = "waiting"
    <3>1. InCall(o)' /\ OnePlace(o)'
      BY <1>3, <1>5, <2>1
    <3> QED
      BY <3>1 DEF Where, OnePlace
  <2> QED
    BY <1>4, <1>5, <2>1, <2>2
<1>7. CASE TimerFires(o)
  <2>1. o \notin AppMsg /\ SendMsg(TimerThread, o) /\ TimerThread \in Thread
    BY <1>7, ThreadsAssumption DEF TimerFires, AppMsg, IsNoMoreInformation
  <2> QED
    BY <1>5, <2>1, NothingDelivered
<1>8. CASE WatcherSendMsg(o)
  <2>1. o \in AppMsg /\ fate[o] = "unsent"
    BY <1>8 DEF WatcherSendMsg, AppMsg, IsNoMoreInformation
  <2>2. ASSUME NEW m \in AppMsg
        PROVE  /\ InCall(m)' <=> InCall(m)
               /\ Current(m)' <=> Current(m)
    BY <1>8 DEF WatcherSendMsg, InCall, Current
  <2>3. CASE Asleep(Target[o])
    <3> DEFINE n == Target[o]
               x == NewMsg(o)
               f == [fate EXCEPT ![o] = "live"]
    <3>1. n \in Sleeper /\ QueueMsg(n, x) /\ fate' = FateAfterQueueMsg(n, x, f)
      BY <1>8, <2>3 DEF WatcherSendMsg, Asleep
    <3>2. x \in MsgObj /\ x.id = o /\ Target[x.id] = n /\ f \in [Msg -> Fate]
      BY <1>1, <1>2
    <3>3. ASSUME NEW m \in AppMsg, m # x.id
          PROVE  /\ f[m] = fate[m]
                 /\ InQueues(m)' <=> InQueues(m)
                 /\ Current(m)' <=> Current(m)
                 /\ InCall(m)' <=> InCall(m)
      <4>1. InQueues(m)' <=> InQueues(m)
        BY <1>8, <2>3 DEF WatcherSendMsg, InQueues
      <4>2. f[m] = fate[m]
        BY <1>2, <1>3, <3>2, <3>3
      <4> QED
        BY <2>2, <4>1, <4>2
    <3>4. f[x.id] = "live" /\ Where(x.id) = "unsent"
      BY <1>2, <2>1, <3>2 DEF Where
    <3> HIDE DEF n, x, f
    <3> QED
      BY <3>1, <3>2, <3>3, <3>4, ParkDelivers
  <2>4. CASE ~Asleep(Target[o])
    <3>1. ASSUME NEW m \in AppMsg PROVE InQueues(m)' <=> InQueues(m) \/ o = m
      BY <1>1, <1>8, <2>4, PushBackPlaces, MessagesAssumption DEF WatcherSendMsg, Queue, StepInv
    <3>2. ASSUME NEW m \in AppMsg
          PROVE  (Parked(m)' <=> Parked(m)) /\ (m # o => fate'[m] = fate[m])
      BY <1>2, <1>3, <1>8, <2>4 DEF WatcherSendMsg, Parked
    <3>3. ASSUME NEW m \in AppMsg, m # o PROVE Where(m)' = Where(m)
      BY <2>2, <3>1, <3>2, <3>3 DEF Where
    <3>4. Where(o)' = "waiting"
      <4>1. InQueues(o)' /\ OnePlace(o)'
        BY <1>3, <2>1, <3>1
      <4> QED
        BY <4>1 DEF Where, OnePlace
    <3> QED
      BY <1>4, <2>1, <3>3, <3>4
  <2> QED
    BY <2>3, <2>4
<1> QED
  BY <1>6, <1>7, <1>8

(* The rest of SendMsg parks the message or shows nothing. *)
LEMMA ThreadStepDelivers ==
    ASSUME StepInv, PlaceInv', NEW t \in Thread, ThreadStep(t)
    PROVE  [Delivery!Next]_DeliveryStatus
<1> DEFINE x == call[t].msg
<1>1. ASSUME NEW m \in AppMsg PROVE m \in Msg /\ OnePlace(m) /\ OnePlace(m)'
  BY DEF StepInv, PlaceInv, AppMsg
<1>2. CASE SendMsgLocked(t)
  <2>1. \A u \in Thread : call'[u].pc # "idle" <=> call[u].pc # "idle"
    BY <1>2 DEF SendMsgLocked, TypeOK, StepInv
  <2>2. \A u \in Thread : call'[u].msg = call[u].msg
    BY <1>2 DEF SendMsgLocked, TypeOK, StepInv
  <2>3. ASSUME NEW m \in AppMsg PROVE Where(m)' = Where(m)
    <3>1. InCall(m)' <=> InCall(m)
      BY <2>1, <2>2 DEF InCall
    <3>2. UNCHANGED <<InQueues(m), Parked(m), Current(m), fate>>
      BY <1>2 DEF SendMsgLocked, InQueues, Parked, Current
    <3> QED
      BY <3>1, <3>2 DEF Where
  <2> QED
    BY <2>3, NothingDelivered
<1>3. CASE SendMsgPark(t)
  <2>1. /\ x \in MsgObj /\ Target[x.id] \in Sleeper /\ fate \in [Msg -> Fate]
        /\ QueueMsg(Target[x.id], x) /\ fate' = FateAfterQueueMsg(Target[x.id], x, fate)
    BY <1>3 DEF SendMsgPark, TypeOK, StepInv
  <2>2. ASSUME NEW m \in AppMsg
        PROVE  /\ InCall(m) <=> InCall(m)' \/ x.id = m
               /\ InQueues(m)' <=> InQueues(m)
               /\ Current(m)' <=> Current(m)
    <3>1. InCall(m) <=> InCall(m)' \/ x.id = m
      BY <1>3, CallEndsPlaces DEF SendMsgPark, StepInv
    <3> QED
      BY <1>3, <3>1 DEF SendMsgPark, InQueues, Current
  <2>3. x.id \in AppMsg => fate[x.id] = "live" /\ Where(x.id) = "waiting"
    BY <1>1, <2>2, WhereIs DEF OnePlace
  <2> HIDE DEF x
  <2> QED
    BY <2>1, <2>2, <2>3, ParkDelivers
<1>4. CASE SendMsgPush(t)
  <2>1. x \in MsgObj /\ QueueOf[x.id] \in Queue
    BY <1>4, MessagesAssumption DEF SendMsgPush, TypeOK, MsgObj, Queue, StepInv
  <2>2. ASSUME NEW m \in AppMsg PROVE Where(m)' = Where(m)
    <3>1. InQueues(m)' <=> InQueues(m) \/ x.id = m
      BY <1>4, <2>1, PushBackPlaces DEF SendMsgPush, StepInv
    <3>2. InCall(m) <=> InCall(m)' \/ x.id = m
      BY <1>4, CallEndsPlaces DEF SendMsgPush, StepInv
    <3>3. UNCHANGED <<Parked(m), Current(m), fate>>
      BY <1>4 DEF SendMsgPush, Parked, Current
    <3> HIDE DEF x
    <3> QED
      BY <3>1, <3>2, <3>3 DEF Where
  <2> QED
    BY <2>2, NothingDelivered
<1> QED
  BY <1>2, <1>3, <1>4 DEF ThreadStep

(* WriteNextMsg starts a message, or drops it, when none is in progress. *)
LEMMA WriteNextMsgDelivers ==
    ASSUME StepInv, PlaceInv', NEW q \in Queue, WriteNextMsg(q)
    PROVE  [Delivery!Next]_DeliveryStatus
<1> DEFINE x == Head(msgQueue[q])
<1>0. PICK o : o = x.id
  OBVIOUS
<1>1. ASSUME NEW m \in AppMsg
      PROVE  /\ m \in Msg /\ OnePlace(m) /\ OnePlace(m)'
             /\ ~Current(m)
             /\ InQueues(m) <=> o = m \/ InQueues(m)'
             /\ m # o => fate'[m] = fate[m] /\ ~Current(m)'
             /\ m = o => \/ Current(m)' /\ fate'[m] = fate[m]
                         \/ ~Current(m)' /\ fate'[m] = "dropped"
             /\ UNCHANGED <<Parked(m), InCall(m)>>
  <2>1. m \in Msg /\ OnePlace(m) /\ OnePlace(m)'
    BY DEF StepInv, PlaceInv, AppMsg
  <2>2. UNCHANGED <<Parked(m), InCall(m)>>
    BY DEF WriteNextMsg, Parked, InCall
  <2>3. /\ ~Current(m)
        /\ InQueues(m) <=> x.id = m \/ InQueues(m)'
        /\ m # x.id => fate'[m] = fate[m] /\ ~Current(m)'
        /\ m = x.id => \/ Current(m)' /\ fate'[m] = fate[m]
                       \/ ~Current(m)' /\ fate'[m] = "dropped"
    BY <2>1, WriteNextMsgPlaces DEF StepInv
  <2> HIDE DEF x
  <2> QED
    BY <1>0, <2>1, <2>2, <2>3
<1> HIDE DEF x
<1>2. ASSUME NEW m \in AppMsg, m # o PROVE Where(m)' = Where(m)
  BY <1>1, <1>2 DEF Where
<1>3. CASE o \in AppMsg
  <2>1. Where(o) = "waiting"
    BY <1>1, <1>3, WhereIs
  <2>2. Where(o)' \in {"inProgress", "gone"}
    <3>1. CASE Current(o)'
      BY <1>1, <1>3, <3>1 DEF Where, OnePlace
    <3>2. CASE fate'[o] = "dropped"
      BY <1>1, <1>3, <3>2 DEF Where, OnePlace
    <3> QED
      BY <1>1, <1>3, <3>1, <3>2
  <2>3. /\ DeliveryStatus[o] = Where(o)
        /\ DeliveryStatus' = [DeliveryStatus EXCEPT ![o] = Where(o)']
    BY <1>2, <1>3, OneDelivered
  <2>4. Delivery!Idle
    <3>1. ASSUME NEW m \in AppMsg PROVE Where(m) # "inProgress"
      BY <1>1, WhereIs
    <3> QED
      BY <3>1, StatusIsWhere DEF Delivery!Idle
  <2>5. Delivery!Start(o) \/ Delivery!Finish(o)
    BY <2>1, <2>2, <2>3, <2>4 DEF Delivery!Start, Delivery!Finish
  <2> QED
    BY <1>3, <2>5 DEF Delivery!Next
<1> QED
  BY <1>2, <1>3, NothingDelivered

(* SendPending puts one parked message back into the queues. *)
LEMMA SendPendingDelivers ==
    ASSUME StepInv, PlaceInv', SendPending
    PROVE  [Delivery!Next]_DeliveryStatus
<1> DEFINE x == Head(pending[driver.node])
<1>0. PICK o : o = x.id
  OBVIOUS
<1>1. ASSUME NEW m \in AppMsg
      PROVE  /\ m \in Msg /\ OnePlace(m) /\ OnePlace(m)'
             /\ InQueues(m)' <=> InQueues(m) \/ o = m
             /\ Parked(m) <=> o = m \/ Parked(m)'
             /\ UNCHANGED <<Current(m), InCall(m), fate>>
  <2>1. m \in Msg /\ OnePlace(m) /\ OnePlace(m)'
    BY DEF StepInv, PlaceInv, AppMsg
  <2>2. UNCHANGED <<Current(m), InCall(m), fate>>
    BY DEF SendPending, Current, InCall
  <2> QED
    BY <1>0, <2>1, <2>2, SendPendingPlaces DEF StepInv
<1> HIDE DEF x
<1>2. ASSUME NEW m \in AppMsg, m # o PROVE Where(m)' = Where(m)
  BY <1>1, <1>2 DEF Where
<1>3. CASE o \in AppMsg
  <2>1. Where(o) = "parked"
    BY <1>1, <1>3, WhereIs
  <2>2. Where(o)' = "waiting"
    BY <1>1, <1>3 DEF Where, OnePlace
  <2>3. /\ DeliveryStatus[o] = Where(o)
        /\ DeliveryStatus' = [DeliveryStatus EXCEPT ![o] = "waiting"]
    BY <1>2, <1>3, <2>2, OneDelivered
  <2>4. Delivery!WakeUp(o)
    BY <2>1, <2>3 DEF Delivery!WakeUp
  <2> QED
    BY <1>3, <2>4 DEF Delivery!Next
<1> QED
  BY <1>2, <1>3, NothingDelivered

(* MoveMessagesToWakeUpQueue, about the message in progress or a queued one. *)
LEMMA MoveStepDelivers ==
    ASSUME StepInv, PlaceInv',
           MoveCurrentMsg \/ \E q \in Queue : \E i \in DOMAIN msgQueue[q] : MoveQueuedMsg(q, i)
    PROVE  [Delivery!Next]_DeliveryStatus
<1>1. ASSUME NEW m \in AppMsg PROVE m \in Msg /\ OnePlace(m) /\ OnePlace(m)'
  BY DEF StepInv, PlaceInv, AppMsg
<1>2. CASE MoveCurrentMsg
  <2> DEFINE n == driver.node
             x == txn.msg
  <2>1. n \in Sleeper /\ x \in MsgObj /\ Target[x.id] = n /\ MoveOrDelete(n, x)
    BY <1>2 DEF MoveCurrentMsg, CurrentIsFor, Txn, TypeOK, StepInv
  <2>2. ASSUME NEW m \in AppMsg
        PROVE  (Current(m) <=> m = x.id) /\ ~Current(m)'
    BY <1>2 DEF MoveCurrentMsg, CurrentIsFor, ForgetCurrent, NoTxn, Current
  <2>3. ASSUME NEW m \in AppMsg
        PROVE  (InQueues(m)' <=> InQueues(m)) /\ (InCall(m)' <=> InCall(m))
    BY <1>2 DEF MoveCurrentMsg, InQueues, InCall
  <2> HIDE DEF n, x
  <2>4. x.id \in AppMsg => Where(x.id) = "inProgress" /\ ~InQueues(x.id) /\ ~InCall(x.id)
    BY <1>1, <2>2, WhereIs DEF OnePlace
  <2> QED
    BY <2>1, <2>2, <2>3, <2>4, MoveDelivers
<1>3. ASSUME NEW q \in Queue, NEW i \in DOMAIN msgQueue[q], MoveQueuedMsg(q, i)
      PROVE  [Delivery!Next]_DeliveryStatus
  <2> DEFINE n == driver.node
             x == msgQueue[q][i]
  <2>1. n \in Sleeper /\ x \in MsgObj /\ Target[x.id] = n /\ MoveOrDelete(n, x)
    <3>1. MoveOrDelete(n, x)
      BY <1>3 DEF MoveQueuedMsg
    <3>2. Msg # {}
      <4>1. x \in MsgObj
        BY QueueContents DEF StepInv
      <4> QED
        BY <4>1 DEF MsgObj
    <3> QED
      BY <1>3, <3>1, <3>2, MoveQueuedMsgPlaces DEF StepInv
  <2>2. ASSUME NEW m \in AppMsg
        PROVE  /\ InQueues(m) <=> x.id = m \/ InQueues(m)'
               /\ x.id = m => ~InQueues(m)'
    BY <1>1, <1>3, MoveQueuedMsgPlaces DEF OnePlace, StepInv
  <2>3. ASSUME NEW m \in AppMsg
        PROVE  (Current(m)' <=> Current(m)) /\ (InCall(m)' <=> InCall(m))
    BY <1>3 DEF MoveQueuedMsg, Current, InCall
  <2> HIDE DEF n, x
  <2>4. x.id \in AppMsg => Where(x.id) = "waiting" /\ ~Current(x.id) /\ ~InCall(x.id)
    BY <1>1, <2>2, WhereIs DEF OnePlace
  <2> QED
    BY <2>1, <2>2, <2>3, <2>4, MoveDelivers
<1> QED
  BY <1>2, <1>3

(* The driver thread's own steps. *)
LEMMA DriverStepDelivers ==
    ASSUME StepInv, PlaceInv', DriverStep
    PROVE  [Delivery!Next]_DeliveryStatus
<1>1. CASE WaitTimeout
  BY <1>1, WaitTimeoutStays, TxnStepDelivers DEF WaitTimeout, StepInv
<1>2. CASE SendPendingDone \/ SendToSleepLater \/ MoveDone
  <2>1. UNCHANGED <<msgQueue, pending, call, txn, fate>>
    BY <1>2 DEF SendPendingDone, SendToSleepLater, MoveDone
  <2> QED
    BY <2>1, TxnStepDelivers DEF StaysCurrent, Current, Waiting
<1>3. ASSUME NEW o \in Msg, SendToSleepNow(o) PROVE UNCHANGED DeliveryStatus
  <2>1. NewMsg(o) \in MsgObj /\ NewMsg(o).id = o /\ MsgQueue_WakeUp \in Queue
    BY NewMsgType DEF NewMsg, Queue, MsgQueue_WakeUp, StepInv
  <2>2. ASSUME NEW m \in AppMsg PROVE Where(m)' = Where(m)
    <3>1. m # o /\ m \in Msg
      BY <1>3 DEF SendToSleepNow, AppMsg, IsNoMoreInformation
    <3>2. InQueues(m)' <=> InQueues(m)
      BY <1>3, <2>1, <3>1, PushBackPlaces DEF SendToSleepNow, StepInv
    <3>3. UNCHANGED <<Parked(m), InCall(m), Current(m)>> /\ fate'[m] = fate[m]
      BY <1>3, <3>1 DEF SendToSleepNow, Parked, InCall, Current, TypeOK, StepInv
    <3> QED
      BY <3>2, <3>3 DEF Where
  <2> QED
    BY <2>2, NothingDelivered
<1> QED
  BY <1>1, <1>2, <1>3, WriteNextMsgDelivers, SendPendingDelivers, MoveStepDelivers
  DEF DriverStep

(***************************************************************************)
(* Where no node uses nonces, the transaction engine does with the         *)
(* application's messages what MsgDelivery promises: one is in progress at *)
(* a time, each leaves the driver once, and what happens to it on the way  *)
(* - queues, locks, retries, moves between the send queues and the wake-up *)
(* queues - shows only as waiting, in progress or parked.                  *)
(***************************************************************************)
THEOREM DeliveryImplemented ==
    ASSUME NonceNode = {}
    PROVE  Spec => ImplementsDelivery
<1>1. Init => Delivery!Init
  <2> SUFFICES ASSUME Init PROVE Delivery!Init
    OBVIOUS
  <2>1. ASSUME NEW m \in AppMsg PROVE Where(m) = "unsent"
    BY DEF Init, Where, AppMsg
  <2> QED
    BY <2>1, StatusIsWhere DEF Delivery!Init
<1>2. ASSUME StepInv, PlaceInv', [Next]_vars
      PROVE  [Delivery!Next]_DeliveryStatus
  <2>1. CASE ReceiveStep
    <3>1. UNCHANGED <<msgQueue, pending, call>>
      BY <2>1
      DEF ReceiveStep, ReadACK, ReadCAN, ReadNAK, LoseACK, ReceiveResponse, ReceiveCallback,
          ReceiveReport, ReceiveWakeUpNotification, ReceiveNonceReport, ReceiveUnknownNonce,
          ReceiveNonceGet, ReceiveUndecryptable, ReceiveEncrypted, ReceiveEncryptedNonceGet
    <3> QED
      BY <1>2, <2>1, <3>1, ReceiveStays, TxnStepDelivers DEF StepInv
  <2>2. CASE UNCHANGED vars
    BY <1>2, <2>2, TxnStepDelivers DEF vars, StaysCurrent, Current, Waiting
  <2> QED
    BY <1>2, <2>1, <2>2, RequestDelivers, ThreadStepDelivers, DriverStepDelivers DEF Next
<1>3. TypeOK /\ ParkedDistinct /\ TxnInv /\ PlacedInv => StepInv
  BY DEF StepInv, PlacedInv
<1>4. PlacedInv' => PlaceInv'
  BY DEF PlacedInv
<1> QED
  BY <1>1, <1>2, <1>3, <1>4, TypeCorrect, ParkedCorrect, TxnInvCorrect, PlacedInvCorrect, PTL
  DEF Spec, ImplementsDelivery, Delivery!Spec
=============================================================================
