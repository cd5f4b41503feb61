------------------------- MODULE DriverTransaction -------------------------
(***************************************************************************)
(* The transaction engine of OpenZWave's Driver: the send queues, the one  *)
(* message in progress (m_currentMsg) with what it still waits for, the    *)
(* frames exchanged with the serial controller, retries and drops, dead    *)
(* nodes, and the wake-up queues in which messages for sleeping nodes are  *)
(* parked (src/cpp/src/Driver.cpp, Msg.cpp, command_classes/WakeUp.cpp).   *)
(*                                                                         *)
(* Regime: the network has been interviewed (every node is at              *)
(* QueryStage_Complete) and no controller command is in progress           *)
(* (m_currentControllerCommand = NULL), so every queue item is a           *)
(* MsgQueueCmd_SendMsg and a queue is a sequence of messages.              *)
(*                                                                         *)
(* A definition marked "mutant" is the variant with a plausible bug of the *)
(* definition that follows it; nothing uses it but the mutation runs.      *)
(*                                                                         *)
(* Locks are not variables: who holds one follows from the program         *)
(* counters, and the guards below name the lock they wait for.             *)
(***************************************************************************)
EXTENDS Integers, FiniteSets, SequencesExt

CONSTANTS
    Node,               \* the nodes of the network
    Sleeper,            \* those that do not listen and have the WakeUp class
    ImmediateSleep,     \* sleepers whose compat flag WAKEUP_DELAYNMI is 0
    NonceNode,          \* nodes that speak the Security command class
    Controller,         \* target 0xff: the serial controller itself
    Msg,                \* the messages that are ever created
    Target,             \* Msg -> Node or Controller
    Kind,               \* Msg -> MsgKind
    Content,            \* Msg -> payload: equal messages have equal content
    QueueOf,            \* Msg -> send queue its creator asks for
    Encrypted,          \* messages flagged by setEncrypted
    Thread,             \* threads other than the driver thread
    TimerThread,        \* the one of them that runs timer callbacks
    DriverThread,       \* the thread of DriverThreadProc
    Caller,             \* Msg -> thread that calls SendMsg for it
    NoMsg, NoNode,      \* NULL, and node id 0
    MAX_TRIES, MAX_MAX_TRIES,
    ErrorLimit,         \* errors in a row after which a node is dead
    InitialCallbackId,  \* s_nextCallbackId when the run starts
    MaxWakeUps,         \* bound on wake-up notifications in a behaviour
    MaxNonceReports,    \* bound on nonce reports in a behaviour
    Failures            \* outcomes of the environment the run explores

MsgKind == {"Set", "Get", "NoOp", "NMI", "Function", "Command"}

ASSUME NodesAssumption ==
    /\ Sleeper \subseteq Node
    /\ ImmediateSleep \subseteq Sleeper
    /\ NonceNode \subseteq Node
    /\ Controller \notin Node
    /\ NoNode \notin Node
    /\ NoNode # Controller

ASSUME MessagesAssumption ==
    /\ IsFiniteSet(Msg)
    /\ Target \in [Msg -> Node \cup {Controller}]
    /\ Kind \in [Msg -> MsgKind]
    /\ QueueOf \in [Msg -> 0..6]
    /\ Encrypted \subseteq Msg
    /\ \A m \in Encrypted : Target[m] \in NonceNode
    /\ \A m \in Msg : Kind[m] = "NMI" => Target[m] \in Sleeper
    /\ \A m, o \in Msg :
          Content[m] = Content[o] => Kind[m] = Kind[o] /\ Target[m] = Target[o]

ASSUME ThreadsAssumption ==
    /\ TimerThread \in Thread
    /\ DriverThread \notin Thread
    /\ Caller \in [Msg -> Thread \cup {DriverThread}]

ASSUME LimitsAssumption ==
    /\ MAX_TRIES \in Nat /\ MAX_MAX_TRIES \in Nat
    /\ 0 < MAX_TRIES /\ MAX_TRIES < MAX_MAX_TRIES
    /\ ErrorLimit \in Nat \ {0}
    /\ InitialCallbackId \in 10..255
    /\ MaxWakeUps \in Nat /\ MaxNonceReports \in Nat

(***************************************************************************)
(* Driver::MsgQueue, in the order in which the driver thread serves them.  *)
(***************************************************************************)
Queue == 0..6
MsgQueue_Command    == 0
MsgQueue_NoOp       == 1
MsgQueue_Controller == 2
MsgQueue_WakeUp     == 3
MsgQueue_Send       == 4
MsgQueue_Query      == 5
MsgQueue_Poll       == 6

(***************************************************************************)
(* A message object carries its callback id (0 when it asks for none) and  *)
(* the two attempt counters; what never changes is a constant of its id.   *)
(***************************************************************************)
CallbackId == 10..255
MsgObj == [id : Msg, cb : CallbackId \cup {0},
           attempts : 0..MAX_MAX_TRIES, maxAttempts : 0..MAX_MAX_TRIES]

(* NULL is no message. *)
ASSUME NoMsgAssumption == NoMsg \notin MsgObj

bCallbackRequired(m) == Kind[m] \in {"Set", "Get", "NoOp", "NMI"}
IsNoOperation(m)     == Kind[m] = "NoOp"
IsNoMoreInformation(m) == Kind[m] = "NMI"

(***************************************************************************)
(* The function whose arrival completes a message: its own function for a  *)
(* SEND_DATA without report and for controller functions, an application   *)
(* command for a Get, nothing for a bare command.                          *)
(***************************************************************************)
Reply == {"None", "SendData", "AppCommand", "Function"}
ExpectedReply(m) ==
    CASE Kind[m] \in {"Set", "NoOp", "NMI"} -> "SendData"
      [] Kind[m] = "Get"                    -> "AppCommand"
      [] Kind[m] = "Function"               -> "Function"
      [] OTHER                              -> "None"

(***************************************************************************)
(* Frames written to the controller.  Callback 2 is a nonce request and 1  *)
(* a nonce report; the others carry the id of their message.               *)
(***************************************************************************)
NonceReportId == 1
NonceGetId    == 2
FrameFunc == {"SendData", "Function", "Command"}
Frame == [func : FrameFunc, cb : 0..255, node : Node \cup {Controller}]

VARIABLES
    msgQueue,       \* m_msgQueue
    queueEvent,     \* m_queueEvent
    txn,            \* m_currentMsg, m_expected..., m_waitingForAck, m_nonceReportSent...
    driver,         \* where the driver thread is
    call,           \* per thread: the SendMsg call it is in
    awake,          \* WakeUp::m_awake
    pending,        \* WakeUp::m_pendingQueue
    nmiTimers,      \* armed timers that will call SendNoMoreInfo
    nodeAlive,      \* Node::m_nodeAlive
    errors,         \* Node::m_errors
    nextCallbackId, \* Msg::s_nextCallbackId
    line,           \* frames written, not yet acknowledged by the controller
    air,            \* frames the controller accepted and has not answered
    fate,           \* history: what became of a message
    wakeUps, nonceReports  \* environment steps so far, for the bounds

vars == <<msgQueue, queueEvent, txn, driver, call, awake, pending, nmiTimers,
          nodeAlive, errors, nextCallbackId, line, air, fate, wakeUps,
          nonceReports>>

Txn == [msg : MsgObj \cup {NoMsg}, cb : CallbackId \cup {0}, reply : Reply,
        node : Node \cup {Controller, NoNode}, ack : BOOLEAN,
        nonceReportSent : Node \cup {NoNode},
        nonceReportSentAttempt : 0..MAX_MAX_TRIES]

Fate == {"unsent", "live", "completed", "dropped", "superseded", "discarded"}

TypeOK ==
    /\ msgQueue \in [Queue -> Seq(MsgObj)]
    /\ queueEvent \in [Queue -> BOOLEAN]
    /\ txn \in Txn
    /\ driver \in [pc : {"Loop", "Moving", "Draining", "Drained", "Exited", "Crashed"},
                   node : Node \cup {NoNode}]
    /\ driver.pc \in {"Moving", "Draining", "Drained"} => driver.node \in Sleeper
    /\ call \in [Thread -> [pc : {"idle", "lock", "park", "push"}, msg : MsgObj \cup {NoMsg}]]
    /\ \A t \in Thread : call[t].pc # "idle" => call[t].msg \in MsgObj
    /\ \A t \in Thread : call[t].pc = "park" => Target[call[t].msg.id] \in Sleeper
    /\ awake \in [Sleeper -> BOOLEAN]
    /\ pending \in [Sleeper -> Seq(MsgObj)]
    /\ nmiTimers \in [Sleeper -> Nat]
    /\ nodeAlive \in [Node -> BOOLEAN]
    /\ errors \in [Node -> 0..ErrorLimit]
    /\ nextCallbackId \in CallbackId
    /\ line \subseteq Frame
    /\ air \subseteq Frame
    /\ fate \in [Msg -> Fate]
    /\ wakeUps \in 0..MaxWakeUps
    /\ nonceReports \in 0..MaxNonceReports

-----------------------------------------------------------------------------
(***************************************************************************)
(* Lock holders.  SendMsg keeps m_nodeMutex while it parks a message; the  *)
(* driver keeps m_sendMutex while it moves messages to a wake-up queue and *)
(* WakeUp::m_mutex while it drains one; the timer thread keeps its mutex   *)
(* during a callback.                                                      *)
(***************************************************************************)
NodeMutexFree     == \A t \in Thread : call[t].pc # "park"
SendMutexFree     == driver.pc # "Moving"
WakeUpMutexFree(n) == ~ (driver.pc = "Draining" /\ driver.node = n)
TimerMutexFree    == call[TimerThread].pc = "idle"

Loop == [pc |-> "Loop", node |-> NoNode]
AtLoop == driver.pc = "Loop"

(* No message in progress, and nothing expected (RemoveCurrentMsg). *)
NoTxn == [msg |-> NoMsg, cb |-> 0, reply |-> "None", node |-> NoNode, ack |-> FALSE,
          nonceReportSent |-> NoNode, nonceReportSentAttempt |-> 0]

(* Mutant: the expectations are reset, the message pointer is not. *)
ForgetExpectedOnly(t) ==
    [t EXCEPT !.cb = 0, !.reply = "None", !.node = NoNode, !.ack = FALSE]

(* The same in WriteMsg and in MoveMessagesToWakeUpQueue: a nonce report    *)
(* that was sent stays unanswered.                                         *)
ForgetCurrent(t) ==
    [NoTxn EXCEPT !.nonceReportSent = t.nonceReportSent,
                  !.nonceReportSentAttempt = t.nonceReportSentAttempt]

WaitingNotForReply == txn.ack \/ txn.cb # 0  \* mutant
Waiting == txn.ack \/ txn.cb # 0 \/ txn.reply # "None"

(* The message's own callback id sequence: 255 is followed by 10. *)
NextId(c) == IF c = 255 THEN 10 ELSE c + 1

Asleep(n) == n \in Sleeper /\ ~awake[n]

(* A new message after Msg::Finalize. *)
NewMsg(m) ==
    [id |-> m, cb |-> IF bCallbackRequired(m) THEN nextCallbackId ELSE 0,
     attempts |-> 0, maxAttempts |-> MAX_TRIES]

IdAfter(m) == IF bCallbackRequired(m) THEN NextId(nextCallbackId) ELSE nextCallbackId

(* Msg::UpdateCallbackId on a message object. *)
UpdateCallbackId(x) ==
    IF bCallbackRequired(x.id) THEN [x EXCEPT !.cb = nextCallbackId] ELSE x

SameContent(x, y) == Content[x.id] = Content[y.id]

Settle(x, f) == [fate EXCEPT ![x.id] = f]

NeverReset(q, s) == queueEvent  \* mutant

(* if (m_msgQueue[q].empty()) m_queueEvent[q]->Reset(), s being what is left. *)
ResetIfEmpty(q, s) == IF s = <<>> THEN [queueEvent EXCEPT ![q] = FALSE] ELSE queueEvent

PushBack(q, x) ==
    /\ msgQueue' = [msgQueue EXCEPT ![q] = Append(@, x)]
    /\ queueEvent' = [queueEvent EXCEPT ![q] = TRUE]

(***************************************************************************)
(* WakeUp::QueueMsg: an equal message already parked is deleted, the new   *)
(* one goes to the end with its attempts reset.  The loop of the code      *)
(* deletes every equal message; a parked queue never holds two, since each *)
(* of its messages came through here (ParkedDistinct below).               *)
(***************************************************************************)
SameObject(n, x) == {i \in DOMAIN pending[n] : pending[n][i].id = x.id}  \* mutant
Duplicate(n, x) == {i \in DOMAIN pending[n] : SameContent(pending[n][i], x)}
QueueMsg(n, x) ==
    LET new == [x EXCEPT !.attempts = 0]
        dup == Duplicate(n, x)
    IN  IF dup = {}
        THEN pending' = [pending EXCEPT ![n] = Append(@, new)]
        ELSE \E i \in dup :
                pending' = [pending EXCEPT ![n] = Append(RemoveAt(@, i), new)]

FateAfterQueueMsg(n, x, f) ==
    [m \in Msg |-> IF /\ m # x.id
                      /\ \E i \in Duplicate(n, x) : pending[n][i].id = m
                   THEN "superseded" ELSE f[m]]
-----------------------------------------------------------------------------
(***************************************************************************)
(* Driver::SendMsg on another thread: the message is finalized without a   *)
(* lock, and under m_nodeMutex it is decided where it goes; parking it     *)
(* still happens under that lock, pushing it on a send queue only after    *)
(* the lock was released.  Finalize is taken as one step (see the README   *)
(* on s_nextCallbackId).                                                   *)
(***************************************************************************)
SendMsg(t, m) ==
    /\ Caller[m] = t
    /\ call[t].pc = "idle"
    /\ call' = [call EXCEPT ![t] = [pc |-> "lock", msg |-> NewMsg(m)]]
    /\ nextCallbackId' = IdAfter(m)
    /\ fate' = [fate EXCEPT ![m] = "live"]
    /\ UNCHANGED <<msgQueue, queueEvent, txn, driver, awake, pending, nodeAlive,
                   errors, line, air, wakeUps, nonceReports>>

(* An application thread asks for a message to be sent. *)
AppSendMsg(t, m) ==
    /\ Kind[m] # "NMI"
    /\ fate[m] = "unsent"
    /\ SendMsg(t, m)
    /\ UNCHANGED nmiTimers

(* A timer armed by SendPending expires: SendNoMoreInfo on the timer thread. *)
TimerFires(m) ==
    /\ Kind[m] = "NMI"
    /\ nmiTimers[Target[m]] > 0
    /\ nmiTimers' = [nmiTimers EXCEPT ![Target[m]] = @ - 1]
    /\ SendMsg(TimerThread, m)

SendMsgLocked(t) ==
    /\ call[t].pc = "lock"
    /\ NodeMutexFree
    /\ call' = [call EXCEPT ![t].pc =
                  IF Asleep(Target[call[t].msg.id]) THEN "park" ELSE "push"]
    /\ UNCHANGED <<msgQueue, queueEvent, txn, driver, awake, pending, nmiTimers, nodeAlive,
                   errors, nextCallbackId, line, air, fate, wakeUps, nonceReports>>

SendMsgPark(t) ==
    LET x == call[t].msg
        n == Target[x.id]
    IN  /\ call[t].pc = "park"
        /\ WakeUpMutexFree(n)
        /\ QueueMsg(n, x)
        /\ fate' = FateAfterQueueMsg(n, x, fate)
        /\ call' = [call EXCEPT ![t] = [pc |-> "idle", msg |-> NoMsg]]
        /\ UNCHANGED <<msgQueue, queueEvent, txn, driver, awake, nmiTimers, nodeAlive,
                       errors, nextCallbackId, line, air, wakeUps, nonceReports>>

SendMsgPush(t) ==
    LET x == call[t].msg
    IN  /\ call[t].pc = "push"
        /\ SendMutexFree
        /\ PushBack(QueueOf[x.id], x)
        /\ call' = [call EXCEPT ![t] = [pc |-> "idle", msg |-> NoMsg]]
        /\ UNCHANGED <<txn, driver, awake, pending, nmiTimers, nodeAlive, errors,
                       nextCallbackId, line, air, fate, wakeUps, nonceReports>>

(***************************************************************************)
(* Driver::SendMsg called on the driver thread, from an application's      *)
(* notification callback (NotifyWatchers): nothing of the driver           *)
(* interleaves with it.                                                    *)
(***************************************************************************)
WatcherSendMsg(m) ==
    /\ Caller[m] = DriverThread
    /\ Kind[m] # "NMI"
    /\ fate[m] = "unsent"
    /\ AtLoop /\ NodeMutexFree
    /\ nextCallbackId' = IdAfter(m)
    /\ IF Asleep(Target[m])
       THEN /\ QueueMsg(Target[m], NewMsg(m))
            /\ fate' = FateAfterQueueMsg(Target[m], NewMsg(m), [fate EXCEPT ![m] = "live"])
            /\ UNCHANGED <<msgQueue, queueEvent>>
       ELSE /\ PushBack(QueueOf[m], NewMsg(m))
            /\ fate' = [fate EXCEPT ![m] = "live"]
            /\ UNCHANGED pending
    /\ UNCHANGED <<txn, driver, call, awake, nmiTimers, nodeAlive, errors, line, air,
                   wakeUps, nonceReports>>

-----------------------------------------------------------------------------
(***************************************************************************)
(* Driver::WriteMsg, entered with the transaction t.  An unanswered nonce  *)
(* report takes the place of the message: its own attempt counter is       *)
(* compared with the message's limit, and it is written again.  An         *)
(* encrypted message is not written itself, a nonce request is.            *)
(*   The attempt that finds the limit reached, or the node dead, removes   *)
(* the message.  A write that reports no bytes stops the driver thread.    *)
(*   m_noncerecvd is never set here: setNonce and clearNonce happen in one *)
(* handler (NonceReport below).                                            *)
(***************************************************************************)
LimitPassed(attempts, x)  == attempts > x.maxAttempts  \* mutant
LimitIgnored(attempts, x) == FALSE                     \* mutant
LimitReached(attempts, x) == attempts >= x.maxAttempts

WriteMsgGivesUp(t) ==
    LET resend   == t.nonceReportSent # NoNode
        attempts == IF resend THEN t.nonceReportSentAttempt ELSE t.msg.attempts
        node     == IF resend THEN t.nonceReportSent ELSE Target[t.msg.id]
    IN  \/ LimitReached(attempts, t.msg)
        \/ node \in Node /\ ~nodeAlive[node] /\ ~IsNoOperation(t.msg.id)

OwnFrame(x) ==
    [func |-> IF bCallbackRequired(x.id) THEN "SendData"
              ELSE IF Kind[x.id] = "Function" THEN "Function" ELSE "Command",
     cb |-> x.cb, node |-> Target[x.id]]
NonceGetFrame(n)    == [func |-> "SendData", cb |-> NonceGetId, node |-> n]
NonceReportFrame(n) == [func |-> "SendData", cb |-> NonceReportId, node |-> n]

WriteMsgDrop(t) ==
    /\ txn' = NoTxn
    /\ fate' = Settle(t.msg, "dropped")
    /\ UNCHANGED <<driver, nextCallbackId, line>>

WriteMsgNonceReport(t) ==
    /\ txn' = [t EXCEPT !.nonceReportSentAttempt = @ + 1]
    /\ line' = line \cup {NonceReportFrame(t.nonceReportSent)}
    /\ UNCHANGED <<driver, nextCallbackId, fate>>

NotCounted(x) == x  \* mutant
Attempted(x) == [x EXCEPT !.attempts = @ + 1]

WriteMsgSend(t) ==
    LET again == t.msg.attempts # 0
        upd   == IF again THEN UpdateCallbackId(t.msg) ELSE t.msg
        new   == Attempted(upd)
        m     == t.msg.id
    IN  /\ nextCallbackId' = IF again THEN IdAfter(m) ELSE nextCallbackId
        /\ txn' = [t EXCEPT !.msg = new, !.cb = new.cb, !.reply = ExpectedReply(m),
                            !.node = Target[m], !.ack = TRUE]
        /\ IF m \in Encrypted
           THEN line' = line \cup {NonceGetFrame(Target[m])} /\ UNCHANGED driver
           ELSE \/ line' = line \cup {OwnFrame(new)} /\ UNCHANGED driver
                \/ /\ "Port" \in Failures
                   /\ driver' = [driver EXCEPT !.pc = "Exited"]
                   /\ UNCHANGED line
        /\ UNCHANGED fate

WriteMsg(t) ==
    IF WriteMsgGivesUp(t) THEN WriteMsgDrop(t)
    ELSE IF t.nonceReportSent # NoNode THEN WriteMsgNonceReport(t)
    ELSE WriteMsgSend(t)

(* WriteMsg with no message in progress forgets what was expected. *)
WriteNoMsg ==
    /\ txn' = ForgetCurrent(txn)
    /\ UNCHANGED <<driver, nextCallbackId, line, fate>>

(***************************************************************************)
(* DriverThreadProc, Wait::Multiple returned -1: nothing came in time.     *)
(***************************************************************************)
WaitTimeout ==
    /\ AtLoop /\ Waiting
    /\ NodeMutexFree
    /\ IF txn.msg = NoMsg THEN WriteNoMsg ELSE WriteMsg(txn)
    /\ UNCHANGED <<msgQueue, queueEvent, call, awake, pending, nmiTimers, nodeAlive,
                   errors, air, wakeUps, nonceReports>>

(***************************************************************************)
(* Driver::WriteNextMsg, on the first queue whose event is set, and only   *)
(* while the driver waits for nothing.  With a nonce report unanswered the *)
(* popped message is copied back to the front of its queue.                *)
(***************************************************************************)
AlwaysPopped(q) == Tail(msgQueue[q])  \* mutant
LeftInQueue(q) ==
    IF txn.nonceReportSent # NoNode THEN msgQueue[q] ELSE Tail(msgQueue[q])

WriteNextMsg(q) ==
    LET x == Head(msgQueue[q])
    IN  /\ AtLoop /\ ~Waiting
        /\ NodeMutexFree
        /\ queueEvent[q] /\ \A p \in Queue : p < q => ~queueEvent[p]
        /\ msgQueue[q] # <<>>
        /\ msgQueue' = [msgQueue EXCEPT ![q] = LeftInQueue(q)]
        /\ queueEvent' = ResetIfEmpty(q, LeftInQueue(q))
        /\ WriteMsg([txn EXCEPT !.msg = x])
        /\ UNCHANGED <<call, awake, pending, nmiTimers, nodeAlive, errors, air, wakeUps,
                       nonceReports>>

-----------------------------------------------------------------------------
(***************************************************************************)
(* Driver::ReadMsg on the one-byte answers to a frame.  CAN and NAK allow  *)
(* one attempt more, up to the limit; the resend itself happens when the   *)
(* wait times out.  NAK dereferences m_currentMsg without looking.         *)
(***************************************************************************)
(* Mutants: only the message, or only the expectations are reset. *)
RemoveMsgOnly(t, f) ==
    /\ txn' = [t EXCEPT !.msg = NoMsg]
    /\ fate' = IF t.msg = NoMsg THEN fate ELSE Settle(t.msg, f)
RemoveExpectedOnly(t, f) ==
    /\ txn' = ForgetExpectedOnly(t)
    /\ fate' = IF t.msg = NoMsg THEN fate ELSE Settle(t.msg, f)

RemoveCurrentMsg(t, f) ==
    /\ txn' = NoTxn
    /\ fate' = IF t.msg = NoMsg THEN fate ELSE Settle(t.msg, f)

AckCompletes == txn.msg # NoMsg /\ txn.cb = 0 /\ txn.reply = "None"

ReadACK(f) ==
    /\ AtLoop /\ f \in line
    /\ line' = line \ {f}
    /\ air' = IF f.func = "Command" THEN air ELSE air \cup {f}
    /\ IF AckCompletes
       THEN RemoveCurrentMsg(txn, "completed")
       ELSE txn' = [txn EXCEPT !.ack = FALSE] /\ UNCHANGED fate
    /\ UNCHANGED <<msgQueue, queueEvent, driver, call, awake, pending, nmiTimers, nodeAlive,
                   errors, nextCallbackId, wakeUps, nonceReports>>

RaiseWithoutLimit(x) == [x EXCEPT !.maxAttempts = @ + 1]  \* mutant
RaiseToLimit(x) ==                                        \* mutant
    IF x.maxAttempts < MAX_MAX_TRIES THEN [x EXCEPT !.maxAttempts = @ + 1] ELSE x

SetMaxSendAttempts(x) ==
    IF x.maxAttempts + 1 < MAX_MAX_TRIES THEN [x EXCEPT !.maxAttempts = @ + 1] ELSE x

ReadCAN(f) ==
    /\ "CAN" \in Failures
    /\ AtLoop /\ f \in line
    /\ line' = line \ {f}
    /\ txn' = IF txn.msg = NoMsg THEN txn
              ELSE [txn EXCEPT !.msg = SetMaxSendAttempts(txn.msg)]
    /\ UNCHANGED <<msgQueue, queueEvent, driver, call, awake, pending, nmiTimers, nodeAlive,
                   errors, nextCallbackId, air, fate, wakeUps, nonceReports>>

ReadNAK(f) ==
    /\ "NAK" \in Failures
    /\ AtLoop /\ f \in line
    /\ line' = line \ {f}
    /\ IF txn.msg = NoMsg
       THEN driver' = [driver EXCEPT !.pc = "Crashed"] /\ UNCHANGED txn
       ELSE txn' = [txn EXCEPT !.msg = SetMaxSendAttempts(txn.msg)] /\ UNCHANGED driver
    /\ UNCHANGED <<msgQueue, queueEvent, call, awake, pending, nmiTimers, nodeAlive,
                   errors, nextCallbackId, air, fate, wakeUps, nonceReports>>

(* The acknowledgement is lost on the line: the controller has the frame. *)
LoseACK(f) ==
    /\ "LostACK" \in Failures
    /\ f \in line
    /\ line' = line \ {f}
    /\ air' = IF f.func = "Command" THEN air ELSE air \cup {f}
    /\ UNCHANGED <<msgQueue, queueEvent, txn, driver, call, awake, pending, nmiTimers,
                   nodeAlive, errors, nextCallbackId, fate, wakeUps, nonceReports>>

-----------------------------------------------------------------------------
(***************************************************************************)
(* The generic callback handling at the end of Driver::ProcessMsg, for a   *)
(* frame of function func from node n, whose third byte, cb, is taken for  *)
(* a callback id whatever it means in that frame.  An application command  *)
(* is only taken as the reply once the callback has arrived, and if its    *)
(* class is the expected one; other replies whatever node they name.       *)
(***************************************************************************)
AfterReply(t, func, cb, n, expectedClass) ==
    LET left == IF t.cb = cb THEN 0 ELSE t.cb
        isReply == /\ t.reply = func
                   /\ func = "AppCommand" => left = 0 /\ expectedClass /\ t.node = n
    IN  IF ~isReply THEN [t EXCEPT !.cb = left]
        ELSE [t EXCEPT !.cb = left, !.reply = "None", !.node = NoNode,
                       !.ack = @ /\ func # "AppCommand"]

HandleCallback(t, func, cb, n, expectedClass) ==
    IF \/ t.cb = 0 /\ t.reply = "None"
       \/ t.cb # 0 /\ t.cb # cb /\ cb \in {NonceReportId, NonceGetId}
    THEN txn' = t /\ UNCHANGED fate
    ELSE LET r == AfterReply(t, func, cb, n, expectedClass)
         IN  IF r.cb = 0 /\ r.reply = "None"
             THEN RemoveCurrentMsg(t, "completed")
             ELSE txn' = r /\ UNCHANGED fate

(* The response to a controller function that is still outstanding. *)
ReceiveResponse(f) ==
    /\ AtLoop /\ f \in air /\ f.func = "Function"
    /\ air' = air \ {f}
    /\ \E data \in {0, NonceReportId, txn.cb} :
          HandleCallback(txn, "Function", data, f.node, FALSE)
    /\ UNCHANGED <<msgQueue, queueEvent, driver, call, awake, pending, nmiTimers, nodeAlive,
                   errors, nextCallbackId, line, wakeUps, nonceReports>>

(***************************************************************************)
(* HandleSendDataRequest.  The frame names no node: what it says is held   *)
(* against the node of the current message.  A callback is refused only    *)
(* when its id is above 10 and not the expected one.                       *)
(***************************************************************************)
AcceptedAlways(f) == TRUE  \* mutant
Accepted(f) == ~ (f.cb > 10 /\ f.cb # txn.cb)
CurrentNode == IF txn.msg = NoMsg THEN NoNode ELSE Target[txn.msg.id]

(* ++m_errors; at the limit the node is presumed dead (SetNodeAlive(false)). *)
CountError(n) ==
    LET e == IF errors[n] < ErrorLimit THEN errors[n] + 1 ELSE ErrorLimit
    IN  /\ errors' = [errors EXCEPT ![n] = e]
        /\ nodeAlive' = [nodeAlive EXCEPT ![n] = @ /\ e < ErrorLimit]

(* SetNodeAlive(true), called for a dead node only. *)
Revive(n) ==
    IF nodeAlive[n] THEN UNCHANGED <<nodeAlive, errors>>
    ELSE /\ nodeAlive' = [nodeAlive EXCEPT ![n] = TRUE]
         /\ errors' = [errors EXCEPT ![n] = 0]

CallbackOK(f) ==
    LET n == CurrentNode
    IN  /\ IF Accepted(f) /\ n \in Node
           THEN /\ Revive(n)
                /\ awake' = IF IsNoMoreInformation(txn.msg.id)
                            THEN [awake EXCEPT ![n] = FALSE] ELSE awake
           ELSE UNCHANGED <<nodeAlive, errors, awake>>
        /\ HandleCallback(txn, "SendData", f.cb, NoNode, FALSE)
        /\ UNCHANGED driver

(* TRANSMIT_COMPLETE_NO_ACK: a sleeper is asleep, its messages are moved. *)
CallbackNoAck(f) ==
    /\ "NoAck" \in Failures
    /\ LET n == CurrentNode
       IN  IF Accepted(f) /\ n \in Sleeper
           THEN /\ awake' = [awake EXCEPT ![n] = FALSE]
                /\ driver' = [pc |-> "Moving", node |-> n]
                /\ UNCHANGED <<txn, fate, nodeAlive, errors>>
           ELSE /\ IF Accepted(f) /\ n \in Node THEN CountError(n)
                   ELSE UNCHANGED <<nodeAlive, errors>>
                /\ HandleCallback(txn, "SendData", f.cb, NoNode, FALSE)
                /\ UNCHANGED <<awake, driver>>

(* Any other failure counts as an error of the node, sleeper or not. *)
CallbackFail(f) ==
    /\ "Fail" \in Failures
    /\ LET n == CurrentNode
       IN  IF Accepted(f) /\ n \in Node THEN CountError(n)
           ELSE UNCHANGED <<nodeAlive, errors>>
    /\ HandleCallback(txn, "SendData", f.cb, NoNode, FALSE)
    /\ UNCHANGED <<awake, driver>>

ReceiveCallback(f) ==
    /\ AtLoop /\ f \in air /\ f.func = "SendData"
    /\ air' = air \ {f}
    /\ CallbackOK(f) \/ CallbackNoAck(f) \/ CallbackFail(f)
    /\ UNCHANGED <<msgQueue, queueEvent, call, pending, nmiTimers, nextCallbackId, line,
                   wakeUps, nonceReports>>

(***************************************************************************)
(* HandleApplicationCommandHandlerRequest: any node may report at any      *)
(* time, asked or not.  What the command class does with the report is not *)
(* modelled, WakeUp's notification apart.  The receive status stands where *)
(* other frames have a callback id: RECEIVE_STATUS_ROUTED_BUSY is 1.       *)
(***************************************************************************)
ReceiveStatus == {0, 1}

HeardFrom(n) ==
    /\ errors' = [errors EXCEPT ![n] = 0]
    /\ nodeAlive' = [nodeAlive EXCEPT ![n] = TRUE]

ReceiveReport(n, expectedClass, status) ==
    /\ AtLoop
    /\ HeardFrom(n)
    /\ HandleCallback(txn, "AppCommand", status, n, expectedClass)
    /\ UNCHANGED <<msgQueue, queueEvent, driver, call, awake, pending, nmiTimers,
                   nextCallbackId, line, air, wakeUps, nonceReports>>

(* WakeUpCmd_Notification: SetAwake(true), which goes on to SendPending. *)
ReceiveWakeUpNotification(n) ==
    /\ AtLoop /\ wakeUps < MaxWakeUps
    /\ wakeUps' = wakeUps + 1
    /\ HeardFrom(n)
    /\ awake' = [awake EXCEPT ![n] = TRUE]
    /\ driver' = [pc |-> "Draining", node |-> n]
    /\ UNCHANGED <<msgQueue, queueEvent, txn, call, pending, nmiTimers, nextCallbackId,
                   line, air, fate, nonceReports>>

(***************************************************************************)
(* WakeUp::SendPending, one SendMsg per parked message in their order.     *)
(* The node is awake, so each goes to the wake-up send queue; SendMsg      *)
(* waits for m_nodeMutex while WakeUp::m_mutex is held.                    *)
(***************************************************************************)
SendPending ==
    LET n == driver.node
    IN  /\ driver.pc = "Draining"
        /\ pending[n] # <<>>
        /\ NodeMutexFree
        /\ PushBack(MsgQueue_WakeUp, Head(pending[n]))
        /\ pending' = [pending EXCEPT ![n] = Tail(@)]
        /\ UNCHANGED <<txn, driver, call, awake, nmiTimers, nodeAlive, errors, nextCallbackId,
                       line, air, fate, wakeUps, nonceReports>>

SendPendingDone ==
    /\ driver.pc = "Draining"
    /\ pending[driver.node] = <<>>
    /\ driver' = [driver EXCEPT !.pc = "Drained"]
    /\ UNCHANGED <<msgQueue, queueEvent, txn, call, awake, pending, nmiTimers, nodeAlive,
                   errors, nextCallbackId, line, air, fate, wakeUps, nonceReports>>

(***************************************************************************)
(* The end of SendPending: the node may go back to sleep, now or when the  *)
(* delay timer expires.  All queries are complete in this regime.          *)
(***************************************************************************)
SendToSleepNow(m) ==
    /\ driver.pc = "Drained" /\ driver.node \in ImmediateSleep
    /\ Kind[m] = "NMI" /\ Target[m] = driver.node
    /\ NodeMutexFree
    /\ nextCallbackId' = IdAfter(m)
    /\ PushBack(MsgQueue_WakeUp, NewMsg(m))
    /\ fate' = [fate EXCEPT ![m] = "live"]
    /\ driver' = Loop
    /\ UNCHANGED <<txn, call, awake, pending, nmiTimers, nodeAlive, errors, line, air,
                   wakeUps, nonceReports>>

SendToSleepLater ==
    /\ driver.pc = "Drained" /\ driver.node \notin ImmediateSleep
    /\ TimerMutexFree
    /\ nmiTimers' = [nmiTimers EXCEPT ![driver.node] = @ + 1]
    /\ driver' = Loop
    /\ UNCHANGED <<msgQueue, queueEvent, txn, call, awake, pending, nodeAlive, errors,
                   nextCallbackId, line, air, fate, wakeUps, nonceReports>>

-----------------------------------------------------------------------------
(***************************************************************************)
(* Driver::MoveMessagesToWakeUpQueue, under m_sendMutex: the current       *)
(* message first, then the queues in their order, one message per step     *)
(* (other threads may park messages in between).  "No more information"    *)
(* and NoOperation messages are deleted, not moved.                        *)
(***************************************************************************)
Moved(x) == ~IsNoMoreInformation(x.id) /\ ~IsNoOperation(x.id)

MoveOrDelete(n, x) ==
    IF Moved(x)
    THEN QueueMsg(n, x) /\ fate' = FateAfterQueueMsg(n, x, fate)
    ELSE fate' = Settle(x, "discarded") /\ UNCHANGED pending

CurrentIsFor(n) == txn.msg # NoMsg /\ Target[txn.msg.id] = n
QueuedFor(n, q) == {i \in DOMAIN msgQueue[q] : Target[msgQueue[q][i].id] = n}

MoveCurrentMsg ==
    /\ driver.pc = "Moving" /\ CurrentIsFor(driver.node)
    /\ MoveOrDelete(driver.node, txn.msg)
    /\ txn' = ForgetCurrent(txn)
    /\ UNCHANGED <<msgQueue, queueEvent, driver, call, awake, nmiTimers, nodeAlive, errors,
                   nextCallbackId, line, air, wakeUps, nonceReports>>

MoveQueuedMsg(q, i) ==
    LET n == driver.node
    IN  /\ driver.pc = "Moving" /\ ~CurrentIsFor(n)
        /\ \A p \in Queue : p < q => QueuedFor(n, p) = {}
        /\ i \in QueuedFor(n, q) /\ \A j \in QueuedFor(n, q) : i <= j
        /\ MoveOrDelete(n, msgQueue[q][i])
        /\ msgQueue' = [msgQueue EXCEPT ![q] = RemoveAt(@, i)]
        /\ queueEvent' = ResetIfEmpty(q, RemoveAt(msgQueue[q], i))
        /\ UNCHANGED <<txn, driver, call, awake, nmiTimers, nodeAlive, errors,
                       nextCallbackId, line, air, wakeUps, nonceReports>>

MoveDone ==
    /\ driver.pc = "Moving" /\ ~CurrentIsFor(driver.node)
    /\ \A q \in Queue : QueuedFor(driver.node, q) = {}
    /\ driver' = Loop
    /\ UNCHANGED <<msgQueue, queueEvent, txn, call, awake, pending, nmiTimers, nodeAlive,
                   errors, nextCallbackId, line, air, fate, wakeUps, nonceReports>>

-----------------------------------------------------------------------------
(***************************************************************************)
(* Security frames, handled at the top of ProcessMsg.                      *)
(* SecurityCmd_NonceReport: the current message gets the nonce and a new   *)
(* callback id and is written (SendEncryptedMessage), whatever node the    *)
(* report is from and whether or not the message is an encrypted one.      *)
(***************************************************************************)
ReceiveNonceReport ==
    LET new == UpdateCallbackId(txn.msg)
    IN  /\ AtLoop /\ txn.msg # NoMsg
        /\ NonceNode # {} /\ nonceReports < MaxNonceReports
        /\ nonceReports' = nonceReports + 1
        /\ nextCallbackId' = IdAfter(txn.msg.id)
        /\ txn' = [txn EXCEPT !.msg = new, !.cb = new.cb]
        /\ line' = line \cup {OwnFrame(new)}
        /\ UNCHANGED <<msgQueue, queueEvent, driver, call, awake, pending, nmiTimers,
                       nodeAlive, errors, air, fate, wakeUps>>

(* SecurityCmd_NonceGet: SendNonceKey writes a report at once. *)
ReceiveNonceGet(n) ==
    /\ AtLoop /\ NodeMutexFree
    /\ txn' = [txn EXCEPT !.nonceReportSent = n]
    /\ line' = line \cup {NonceReportFrame(n)}
    /\ UNCHANGED <<msgQueue, queueEvent, driver, call, awake, pending, nmiTimers, nodeAlive,
                   errors, nextCallbackId, air, fate, wakeUps, nonceReports>>

NoNonceReportSent(t) == [t EXCEPT !.nonceReportSent = NoNode, !.nonceReportSentAttempt = 0]

(* SecurityCmd_MessageEncap, decrypted: a report, with no nonce outstanding. *)
ReceiveEncrypted(n, expectedClass, status) ==
    /\ AtLoop /\ NodeMutexFree
    /\ HeardFrom(n)
    /\ HandleCallback(NoNonceReportSent(txn), "AppCommand", status, n, expectedClass)
    /\ UNCHANGED <<msgQueue, queueEvent, driver, call, awake, pending, nmiTimers,
                   nextCallbackId, line, air, wakeUps, nonceReports>>

(* SecurityCmd_MessageEncapNonceGet: decrypted as well, and a new nonce is sent. *)
ReceiveEncryptedNonceGet(n, expectedClass, status) ==
    /\ AtLoop /\ NodeMutexFree
    /\ HeardFrom(n)
    /\ line' = line \cup {NonceReportFrame(n)}
    /\ HandleCallback([NoNonceReportSent(txn) EXCEPT !.nonceReportSent = n],
                      "AppCommand", status, n, expectedClass)
    /\ UNCHANGED <<msgQueue, queueEvent, driver, call, awake, pending, nmiTimers,
                   nextCallbackId, air, wakeUps, nonceReports>>

(* The nonce it names is not among the last eight generated for the node. *)
ReceiveUnknownNonce ==
    /\ AtLoop /\ NodeMutexFree
    /\ NonceNode # {}
    /\ txn' = NoNonceReportSent(txn)
    /\ UNCHANGED <<msgQueue, queueEvent, driver, call, awake, pending, nmiTimers, nodeAlive,
                   errors, nextCallbackId, line, air, fate, wakeUps, nonceReports>>

(***************************************************************************)
(* It fails to decrypt: the current message, whosever it is, is removed,   *)
(* after a nonce report if the node asked for one.                         *)
(***************************************************************************)
ReceiveUndecryptable(n) ==
    /\ "BadEncap" \in Failures
    /\ AtLoop /\ NodeMutexFree
    /\ line' \in {line, line \cup {NonceReportFrame(n)}}
    /\ RemoveCurrentMsg(txn, "discarded")
    /\ UNCHANGED <<msgQueue, queueEvent, driver, call, awake, pending, nmiTimers, nodeAlive,
                   errors, nextCallbackId, air, wakeUps, nonceReports>>

-----------------------------------------------------------------------------
Init ==
    /\ msgQueue = [q \in Queue |-> <<>>]
    /\ queueEvent = [q \in Queue |-> FALSE]
    /\ txn = NoTxn
    /\ driver = Loop
    /\ call = [t \in Thread |-> [pc |-> "idle", msg |-> NoMsg]]
    /\ awake \in [Sleeper -> BOOLEAN]
    /\ pending = [n \in Sleeper |-> <<>>]
    /\ nmiTimers = [n \in Sleeper |-> 0]
    /\ nodeAlive = [n \in Node |-> TRUE]
    /\ errors = [n \in Node |-> 0]
    /\ nextCallbackId = InitialCallbackId
    /\ line = {} /\ air = {}
    /\ fate = [m \in Msg |-> "unsent"]
    /\ wakeUps = 0 /\ nonceReports = 0

(* Steps of the threads that are not the driver thread. *)
ThreadStep(t) == SendMsgLocked(t) \/ SendMsgPark(t) \/ SendMsgPush(t)

(* Steps the driver thread takes by itself, or when a wait times out. *)
DriverStep ==
    \/ WaitTimeout
    \/ \E q \in Queue : WriteNextMsg(q)
    \/ SendPending \/ SendPendingDone \/ SendToSleepLater
    \/ \E m \in Msg : SendToSleepNow(m)
    \/ MoveCurrentMsg \/ MoveDone
    \/ \E q \in Queue : \E i \in DOMAIN msgQueue[q] : MoveQueuedMsg(q, i)

(* Steps that start with a byte or a frame from the controller. *)
ReceiveStep ==
    \/ \E f \in line : ReadACK(f) \/ ReadCAN(f) \/ ReadNAK(f) \/ LoseACK(f)
    \/ \E f \in air : ReceiveResponse(f) \/ ReceiveCallback(f)
    \/ \E n \in Node, c \in BOOLEAN, s \in ReceiveStatus : ReceiveReport(n, c, s)
    \/ \E n \in Sleeper : ReceiveWakeUpNotification(n)
    \/ ReceiveNonceReport \/ ReceiveUnknownNonce
    \/ \E n \in NonceNode : ReceiveNonceGet(n) \/ ReceiveUndecryptable(n)
    \/ \E n \in NonceNode, c \in BOOLEAN, s \in ReceiveStatus :
            ReceiveEncrypted(n, c, s) \/ ReceiveEncryptedNonceGet(n, c, s)

(* Messages created by the application and by the timers. *)
Request ==
    \E m \in Msg : \/ \E t \in Thread : AppSendMsg(t, m)
                   \/ TimerFires(m)
                   \/ WatcherSendMsg(m)

Next == \/ Request
        \/ \E t \in Thread : ThreadStep(t)
        \/ DriverStep
        \/ ReceiveStep

Spec == Init /\ [][Next]_vars

(***************************************************************************)
(* The driver thread runs, so does every thread inside SendMsg, and a wait *)
(* that nothing ends times out.  Nothing is assumed of the controller, the *)
(* radio or the application.                                               *)
(***************************************************************************)
Fairness == WF_vars(DriverStep) /\ \A t \in Thread : WF_vars(ThreadStep(t))

FairSpec == Spec /\ Fairness

-----------------------------------------------------------------------------
(* Where message objects are. *)
Current(m)  == txn.msg # NoMsg /\ txn.msg.id = m
InCall(m)   == \E t \in Thread : call[t].pc # "idle" /\ call[t].msg.id = m
Parked(m)   == \E n \in Sleeper : \E i \in DOMAIN pending[n] : pending[n][i].id = m
InQueues(m) == \E q \in Queue : \E i \in DOMAIN msgQueue[q] : msgQueue[q][i].id = m

(* The same as a set of places, to count them. *)
Places(m) ==
    {<<"call", t, 0>> : t \in {u \in Thread : call[u].pc # "idle" /\ call[u].msg.id = m}}
    \cup (IF Current(m) THEN {<<"current", 0, 0>>} ELSE {})
    \cup (UNION {{<<"queue", q, i>> : i \in {j \in DOMAIN msgQueue[q] : msgQueue[q][j].id = m}}
                 : q \in Queue})
    \cup (UNION {{<<"parked", n, i>> : i \in {j \in DOMAIN pending[n] : pending[n][j].id = m}}
                 : n \in Sleeper})

DriverRuns == driver.pc \notin {"Exited", "Crashed"}

(***************************************************************************)
(* The driver never forgets a message it accepted: a message that was not  *)
(* completed, dropped, superseded by an equal one or deleted is in some    *)
(* queue, in progress, or in the hands of the thread that sends it.        *)
(* WriteNextMsg, MoveMessagesToWakeUpQueue and SendPending all move        *)
(* messages between places that other threads use.                         *)
(***************************************************************************)
NoMsgLost ==
    \A m \in Msg : fate[m] = "live" => InQueues(m) \/ Parked(m) \/ Current(m) \/ InCall(m)

(***************************************************************************)
(* Without nonce reports (which make WriteNextMsg copy a message), an      *)
(* application's message is in exactly one place as long as it is live and *)
(* nowhere afterwards: it is neither sent twice nor freed twice.           *)
(***************************************************************************)
ExactlyOnePlace ==
    \A m \in Msg : (NonceNode = {} /\ Kind[m] # "NMI")
        => Cardinality(Places(m)) = IF fate[m] = "live" THEN 1 ELSE 0

(***************************************************************************)
(* What the driver waits for is what the message in progress asked for     *)
(* with its last attempt: m_expectedCallbackId, m_expectedReply and        *)
(* m_expectedNodeId are never left over from an earlier message, and       *)
(* nothing is awaited when there is no message.                            *)
(***************************************************************************)
ExpectationsOfCurrent ==
    IF txn.msg = NoMsg
    THEN ~Waiting
    ELSE /\ txn.cb \in {0, txn.msg.cb}
         /\ txn.reply \in {"None", ExpectedReply(txn.msg.id)}
         /\ txn.node \in {NoNode, Target[txn.msg.id]}

(***************************************************************************)
(* Without nonce reports the driver never sits on a message for which it   *)
(* waits for nothing: WriteNextMsg would overwrite m_currentMsg.           *)
(***************************************************************************)
NeverOverwritten == NonceNode = {} /\ txn.msg # NoMsg => Waiting

(***************************************************************************)
(* A queue's event is set exactly while the queue holds something: no      *)
(* message waits in a queue the driver thread is not woken for, and        *)
(* WriteNextMsg never takes the front of an empty list.                    *)
(***************************************************************************)
EventsMatchQueues == \A q \in Queue : queueEvent[q] <=> msgQueue[q] # <<>>

(***************************************************************************)
(* MAX_MAX_TRIES: no message is attempted more often than its limit, which *)
(* CAN and NAK raise but never up to MAX_MAX_TRIES.                        *)
(***************************************************************************)
WithinLimit(x) == x.attempts <= x.maxAttempts /\ x.maxAttempts < MAX_MAX_TRIES
AttemptsBounded ==
    /\ txn.msg # NoMsg => WithinLimit(txn.msg)
    /\ \A q \in Queue : \A i \in DOMAIN msgQueue[q] : WithinLimit(msgQueue[q][i])

(***************************************************************************)
(* The comment in QueueMsg: duplicates do not build up in the queue of a   *)
(* device that does not wake up very often.  And a wake-up queue holds     *)
(* nothing but messages of its own node.                                   *)
(***************************************************************************)
ParkedDistinct ==
    \A n \in Sleeper : \A i, j \in DOMAIN pending[n] :
        /\ Target[pending[n][i].id] = n
        /\ SameContent(pending[n][i], pending[n][j]) => i = j

(* A callback puts node n to sleep or counts an error against it. *)
Blamed(n) ==
    \/ n \in Sleeper /\ awake[n] /\ ~awake'[n]
    \/ errors'[n] > errors[n]

(***************************************************************************)
(* A node is put to sleep, or an error counted against it, only by the     *)
(* failed or completed transmission of a frame to that very node, or by a  *)
(* callback whose id HandleSendDataRequest does not compare, which are     *)
(* those up to 10 (Driver.cpp:3083): 10 is the first id Msg::Finalize      *)
(* gives after 255, and a late callback of that message is taken for one   *)
(* of the message in progress.                                             *)
(***************************************************************************)
BlamesOwnNode ==
    [][ \A n \in Node : Blamed(n) =>
            \E f \in air \ air' : f.node = n \/ f.cb <= 10 ]_vars

(***************************************************************************)
(* The refinement: what becomes of the application's messages is what      *)
(* MsgDelivery allows.  Nonce reports are left out, since with them        *)
(* WriteNextMsg does transmit a message twice.                             *)
(***************************************************************************)
AppMsg == {m \in Msg : ~IsNoMoreInformation(m)}

DeliveryStatus ==
    [m \in AppMsg |->
        IF fate[m] = "unsent" THEN "unsent"
        ELSE IF Current(m) THEN "inProgress"
        ELSE IF Parked(m) THEN "parked"
        ELSE IF InQueues(m) \/ InCall(m) THEN "waiting"
        ELSE "gone"]

Delivery == INSTANCE MsgDelivery
                WITH Msg <- AppMsg, Sleepy <- {m \in AppMsg : Target[m] \in Sleeper},
                     status <- DeliveryStatus

(* The transaction engine implements MsgDelivery. *)
ImplementsDelivery == Delivery!Spec

(***************************************************************************)
(* Driver and caller wait for each other: SendPending keeps WakeUp::m_mutex *)
(* and needs m_nodeMutex, SendMsg keeps that one and needs the first.      *)
(***************************************************************************)
LockedUp ==
    /\ driver.pc = "Draining" /\ pending[driver.node] # <<>>
    /\ \E t \in Thread : call[t].pc = "park" /\ Target[call[t].msg.id] = driver.node

(***************************************************************************)
(* Every accepted message is eventually done with, or parked for a node    *)
(* that sleeps, as long as the driver thread lives and is not locked up:   *)
(* each wait times out, each attempt counts, and that lock order is the    *)
(* only one in which threads wait for each other.                          *)
(***************************************************************************)
Settles ==
    \A m \in Msg : fate[m] = "live" /\ ~Parked(m)
                   ~> (fate[m] # "live" \/ Parked(m) \/ ~DriverRuns \/ LockedUp)

(* Driver::SendMsg returns to its caller. *)
SendMsgReturns ==
    \A t \in Thread : call[t].pc # "idle" ~> (call[t].pc = "idle" \/ ~DriverRuns)
=============================================================================
