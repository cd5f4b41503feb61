----------------------------- MODULE NodeQuery ------------------------------
(***************************************************************************)
(* The interview of the nodes (src/cpp/src/Node.cpp, AdvanceQueries): a    *)
(* node is queried stage by stage; the requests of a stage are queued and  *)
(* after them, on the query queue, a marker that advances the node when    *)
(* the driver thread reaches it. The driver thread changes the stage on    *)
(* markers, answers, errors, wake-ups and frames from the node, without a  *)
(* lock; an application thread changes it under m_nodeMutex.               *)
(*                                                                         *)
(* A thread has a list of things it still has to do in the call it is in,  *)
(* thread[t].todo; a step takes the first of them. m_nodeMutex is held by  *)
(* an application for its whole call and by the driver thread only inside  *)
(* one step, which waits until the application is through.                 *)
(*                                                                         *)
(* One request stands for all requests of a stage. The transaction below   *)
(* it is that of DriverTransaction: here a message in progress is answered,*)
(* not acknowledged, or given up after its last attempt.                   *)
(*                                                                         *)
(* A definition marked "mutant" is the variant with a plausible bug of the *)
(* definition that follows it; nothing uses it but the mutation runs.      *)
(***************************************************************************)
EXTENDS Lists, SequencesExt, FiniteSetsExt

CONSTANTS
    Node,           \* node ids in use
    Sleeper,        \* nodes that neither listen nor are FLiRS devices
    Cached,         \* nodes read from the cache file
    Controller,     \* the node of the controller itself, or Null
    Work,           \* Node -> the optional stages in which it has something to ask
    Driver, App,    \* the driver thread, and an application thread
    Null,           \* a null pointer
    ErrorLimit,     \* errors after which a node is presumed dead: 3 in the code
    MaxUpsets       \* bound on lost answers, frames nobody asked for, and calls

\* Node::QueryStage.
None == 0
ProtocolInfo == 1
Probe == 2
WakeUp == 3
NodeInfo == 4
NodePlusInfo == 5
SecurityReport == 6
Versions == 7
ManufacturerSpecific1 == 8
Instances == 9
ManufacturerSpecific2 == 10
Static == 11
CacheLoad == 12
Associations == 13
Neighbors == 14
Session == 15
Dynamic == 16
Configuration == 17
Complete == 18
Stage == None..Complete

Optional == {NodePlusInfo, SecurityReport, Versions, ManufacturerSpecific1, Instances,
             ManufacturerSpecific2, Static, Associations, Session, Dynamic, Configuration}
NotForController == {Probe, NodeInfo, CacheLoad}
ProbeStages == {Probe, CacheLoad}       \* their request is a NoOperation
Thread == {Driver, App}

VARIABLES
    drv,        \* the driver and its nodes
    thread,     \* what each thread has still to do in its call
    upsets,     \* counter for the bound
    removals,   \* some node was removed
    overlapped, \* nodes that died while the application was advancing them
    twice       \* nodes asked again while the marker of the stage was still to come

vars == <<drv, thread, upsets, removals, overlapped, twice>>

\* m_msgQueue, in order of priority; the queues the interview does not use are left out.
QueueName == <<"Command", "NoOp", "WakeUp", "Send", "Query">>
Queues == Range(QueueName)
QueueOf(s) ==
    CASE s \in {SecurityReport, Neighbors} -> "Command"
      [] s \in ProbeStages -> "NoOp"
      [] s = WakeUp -> "WakeUp"
      [] s \in {Associations, Dynamic} -> "Send"
      [] OTHER -> "Query"

Item == [kind : {"request", "marker", "sleep"}, node : Node, stage : Stage, retry : BOOLEAN]
Request(n, s) == [kind |-> "request", node |-> n, stage |-> s, retry |-> FALSE]
Marker(n, s) == [kind |-> "marker", node |-> n, stage |-> s, retry |-> FALSE]
NoMoreInformation(n) == [kind |-> "sleep", node |-> n, stage |-> Complete, retry |-> FALSE]
Same(x, y) == x.kind = y.kind /\ x.node = y.node /\ x.stage = y.stage

NodeRec == [stage : Stage, pending : BOOLEAN, configuration : BOOLEAN, retries : Nat,
            alive : BOOLEAN, errors : Nat, info : BOOLEAN, nif : BOOLEAN,
            awake : BOOLEAN, poll : BOOLEAN, parked : Seq(Item)]
NewNode == [stage |-> None, pending |-> FALSE, configuration |-> FALSE, retries |-> 0,
            alive |-> TRUE, errors |-> 0, info |-> FALSE, nif |-> FALSE,
            awake |-> TRUE, poll |-> FALSE, parked |-> <<>>]
\* What ReadXML makes of a node whose interview had ended.
ReadNode == [NewNode EXCEPT !.stage = Session, !.info = TRUE, !.nif = TRUE]

ASSUME QueryConstants ==
    /\ IsFiniteSet(Node) /\ Sleeper \subseteq Node /\ Cached \subseteq Node
    /\ Work \in [Node -> SUBSET Optional]
    /\ Driver # App /\ Null \notin Node \cup NodeRec \cup Item
    /\ ErrorLimit \in Nat \ {0} /\ MaxUpsets \in Nat

Exists(d, n) == d.node[n] # Null
\* It has the WakeUp command class.
CanSleep(d, n) == n \in Sleeper /\ Exists(d, n) /\ d.node[n].info
Asleep(d, n) == CanSleep(d, n) /\ ~d.node[n].awake

(***************************************************************************)
(* The queues.                                                             *)
(***************************************************************************)
QueueMsg(d, item) ==
    [d EXCEPT !.node[item.node].parked =
        Append(Sublist(@, {k \in DOMAIN @ : ~Same(@[k], item)}), item)]

SendMsg(d, q, item) ==
    IF Asleep(d, item.node) THEN QueueMsg(d, item)
    ELSE [d EXCEPT !.queue[q] = Append(@, item)]

\* mutant: a marker does not wait for the node
MarkAtOnce(d, n, s) == [d EXCEPT !.queue["Query"] = Append(@, Marker(n, s))]
SendQueryStageComplete(d, n, s) == SendMsg(d, "Query", Marker(n, s))

RetryQueryStageComplete(d, n, s) ==
    LET Marks == {k \in DOMAIN d.queue["Query"] : Same(d.queue["Query"][k], Marker(n, s))} IN
    IF Marks = {} THEN d ELSE [d EXCEPT !.queue["Query"][Min(Marks)].retry = TRUE]

OfKind(list, kinds) == Sublist(list, {k \in DOMAIN list : list[k].kind \in kinds})
Remade(n, markers) == [k \in DOMAIN markers |-> Marker(n, markers[k].stage)]

\* What was parked is sent again; a node with nothing left to ask is sent to sleep by a timer.
SendPending(d, n) ==
    LET node == d.node[n] IN
    [d EXCEPT !.node[n] = [node EXCEPT !.awake = TRUE, !.parked = <<>>],
              !.queue["WakeUp"] = @ \o OfKind(node.parked, {"request", "sleep"}),
              !.queue["Query"] = @ \o Remade(n, OfKind(node.parked, {"marker"})),
              !.timers = IF node.stage = Complete THEN @ \cup {n} ELSE @]

\* mutant: only messages are removed
RemoveMessages(d, n) ==
    [d EXCEPT !.queue = [q \in Queues |->
            Sublist(@[q], {k \in DOMAIN @[q] : @[q][k].node # n \/ @[q][k].kind = "marker"})],
              !.msg = IF @ # Null /\ @.node = n THEN Null ELSE @]
\* As ~Node calls it.
RemoveQueues(d, n) ==
    [d EXCEPT !.queue = [q \in Queues |->
                            Sublist(@[q], {k \in DOMAIN @[q] : @[q][k].node # n})],
              !.msg = IF @ # Null /\ @.node = n THEN Null ELSE @]
DeleteNode(d, n) == [RemoveQueues(d, n) EXCEPT !.node[n] = Null, !.timers = @ \ {n}]

(***************************************************************************)
(* Whether all nodes were queried.                                         *)
(***************************************************************************)
Unfinished(d) == {n \in Node : Exists(d, n) /\ d.node[n].stage # Complete /\ d.node[n].alive}
\* mutant: dead nodes are waited for
CheckWithDead(d) ==
    LET left == {n \in Node : Exists(d, n) /\ d.node[n].stage # Complete} IN
    IF left = {} THEN [d EXCEPT !.allQueried = TRUE, !.awakeQueried = TRUE] ELSE d
CheckCompletedNodeQueries(d) ==
    IF Unfinished(d) = {} THEN [d EXCEPT !.allQueried = TRUE, !.awakeQueried = TRUE]
    ELSE IF \A n \in Unfinished(d) : CanSleep(d, n) THEN [d EXCEPT !.awakeQueried = TRUE]
    ELSE d

\* What QueueMsg makes of a list queued item by item.
LastOfEach(list) ==
    Sublist(list, {k \in DOMAIN list : ~\E l \in DOMAIN list : l > k /\ Same(list[k], list[l])})
IsPing(item) == item.kind = "request" /\ item.stage \in ProbeStages
ToBeSaved(item) == item.kind # "sleep" /\ ~IsPing(item)

\* The node is marked asleep and all that is queued for it parked, but for pings.
MoveMessagesToWakeUpQueue(d, n) ==
    LET all == (IF d.msg # Null THEN <<d.msg>> ELSE <<>>) \o d.queue["Command"]
                  \o d.queue["NoOp"] \o d.queue["WakeUp"] \o d.queue["Send"] \o d.queue["Query"]
        moved == Sublist(all, {k \in DOMAIN all : all[k].node = n /\ ToBeSaved(all[k])})
    IN [RemoveQueues(d, n) EXCEPT
            !.node[n] = [d.node[n] EXCEPT !.awake = FALSE, !.parked = LastOfEach(@ \o moved)]]

(***************************************************************************)
(* The stages.                                                             *)
(***************************************************************************)
HasWork(d, n, s) ==
    LET node == d.node[n] IN
    /\ n = Controller => s \notin NotForController
    /\ CASE s = ProtocolInfo -> ~node.info
         [] s = WakeUp -> CanSleep(d, n)
         [] s = NodeInfo -> ~node.nif
         [] s = CacheLoad -> node.stage = CacheLoad
         [] s = Configuration -> node.configuration /\ s \in Work[n]
         [] s \in {Probe, Neighbors, Complete} -> TRUE
         [] OTHER -> s \in Work[n]

\* The stage at which the loop of AdvanceQueries comes to rest.
NextStage(d, n) == Min({s \in Stage : s >= d.node[n].stage /\ HasWork(d, n, s)})

\* The loop up to the next stage with work, and the requests of that stage.
RunStage(d, n) ==
    LET s == NextStage(d, n)
        node == d.node[n]
        there == [d EXCEPT !.node[n] =
                    [node EXCEPT !.stage = s, !.configuration = @ /\ s < Configuration,
                                 !.retries = IF s = node.stage THEN @ ELSE 0]]
    IN IF s = Complete
       THEN CheckCompletedNodeQueries(IF CanSleep(d, n) THEN SendPending(there, n) ELSE there)
       ELSE SendMsg([there EXCEPT !.node[n].pending = TRUE], QueueOf(s), Request(n, s))

QueryStageComplete(d, n, s) ==
    IF d.node[n].stage # s \/ s = Complete THEN d
    ELSE [d EXCEPT !.node[n] =
            [d.node[n] EXCEPT !.pending = FALSE, !.retries = 0,
                              !.stage = IF @ + 1 = CacheLoad THEN @ + 2 ELSE @ + 1]]

QueryStageRetry(d, n, s, attempts) ==
    LET tried == d.node[n].retries + 1
        skipped == tried >= attempts /\ s \notin ProbeStages
        retried == [d EXCEPT !.node[n] =
                      [d.node[n] EXCEPT !.pending = FALSE,
                                        !.retries = IF tried >= attempts THEN 0 ELSE tried,
                                        !.stage = IF skipped THEN @ + 1 ELSE @]]
    IN IF d.node[n].stage # s THEN d
       ELSE RetryQueryStageComplete(retried, n, retried.node[n].stage)

\* mutant: a stage that is asked for again stays pending
LowerStage(d, n, s) == [d EXCEPT !.node[n].stage = Min({@, s})]
SetStage(d, n, s) ==
    IF s >= d.node[n].stage THEN d
    ELSE [d EXCEPT !.node[n] =
            [d.node[n] EXCEPT !.stage = s, !.pending = FALSE,
                              !.configuration = @ \/ s = Configuration]]

Revived(d, n) ==
    [d EXCEPT !.node[n] =
        [d.node[n] EXCEPT !.alive = TRUE, !.errors = 0,
                          !.retries = IF d.node[n].stage = Complete THEN @ ELSE 0]]

(***************************************************************************)
(* Threads: what is left to do of the call they are in.                    *)
(***************************************************************************)
Idle(t) == thread[t].todo = <<>>
At(t, op) == ~Idle(t) /\ Head(thread[t].todo).op = op
Subject(t) == Head(thread[t].todo).node
Do(op, n) == [op |-> op, node |-> n, stage |-> None]
Set(n, s) == [op |-> "set", node |-> n, stage |-> s]
Advance(n) == Do("test", n)
\* m_nodeMutex is free, or the thread's own.
MayLock(t) == t = App \/ Idle(App)

\* The step becomes the named ones; a new round of AdvanceQueries has done no work yet.
Goes(t, ops, work) ==
    thread' = [thread EXCEPT ![t] = [todo |-> ops \o Tail(@.todo), addQSC |-> work]]
Starts(t, ops) == thread' = [thread EXCEPT ![t] = [todo |-> ops, addQSC |-> FALSE]]

\* State from a value computed once.
Becomes(d) == \E next \in {d} : drv' = next

Uncounted == UNCHANGED <<upsets, removals>>
Upset == upsets < MaxUpsets /\ upsets' = upsets + 1
Unnoted == UNCHANGED <<overlapped, twice>>

\* The markers of a node, wherever they wait.
Marks(n) == {m \in Range(drv.queue["Query"]) \cup Range(drv.node[n].parked) :
                m.kind = "marker" /\ m.node = n}

(***************************************************************************)
(* Steps of a call.                                                        *)
(***************************************************************************)
\* SetQueryStage, before it advances the node.
SetQueryStage(t) ==
    /\ At(t, "set")
    /\ Becomes(SetStage(drv, Subject(t), Head(thread[t].todo).stage))
    /\ Goes(t, <<Advance(Subject(t))>>, FALSE)
    /\ Unnoted /\ Uncounted

\* The condition of AdvanceQueries' loop, and at its end the one for the marker.
TestLoop(t) ==
    /\ At(t, "test")
    /\ LET n == Subject(t)
           node == drv.node[n]
       IN IF node.alive /\ ~node.pending THEN Goes(t, <<Do("act", n)>>, thread[t].addQSC)
          ELSE IF thread[t].addQSC THEN Goes(t, <<Do("mark", n)>>, TRUE)
          ELSE Goes(t, <<>>, FALSE)
    /\ UNCHANGED drv /\ Unnoted /\ Uncounted

ActOnStage(t) ==
    /\ At(t, "act") /\ MayLock(t)
    /\ LET n == Subject(t) IN
       /\ Becomes(RunStage(drv, n))
       /\ IF NextStage(drv, n) = Complete THEN Goes(t, <<>>, FALSE)
          ELSE Goes(t, <<Advance(n)>>, TRUE)
       /\ twice' = IF \E m \in Marks(n) : m.stage = NextStage(drv, n) THEN twice \cup {n} ELSE twice
    /\ UNCHANGED overlapped /\ Uncounted

AddMarker(t) ==
    /\ At(t, "mark") /\ MayLock(t)
    /\ LET n == Subject(t) IN
       Becomes(IF drv.node[n].alive THEN SendQueryStageComplete(drv, n, drv.node[n].stage)
               ELSE drv)
    /\ Goes(t, <<>>, FALSE)
    /\ Unnoted /\ Uncounted

\* The end of UpdateNodeInfo's first part.
NodeInfoKept ==
    /\ At(Driver, "nif")
    /\ Becomes([drv EXCEPT !.node[Subject(Driver)].nif = TRUE])
    /\ Goes(Driver, <<>>, FALSE)
    /\ Unnoted /\ Uncounted

\* mutant: what was parked stays parked
AwakeOnly ==
    /\ At(Driver, "awake")
    /\ LET n == Subject(Driver) IN
       /\ Becomes(IF CanSleep(drv, n) THEN [drv EXCEPT !.node[n].awake = TRUE] ELSE drv)
       /\ Goes(Driver, <<>>, FALSE)
    /\ Unnoted /\ Uncounted
SetAwake ==
    /\ At(Driver, "awake")
    /\ LET n == Subject(Driver) IN
       IF ~CanSleep(drv, n) THEN UNCHANGED drv /\ Goes(Driver, <<>>, FALSE)
       ELSE /\ Becomes([drv EXCEPT !.node[n].awake = TRUE])
            /\ Goes(Driver, (IF drv.node[n].poll THEN <<Set(n, Dynamic)>> ELSE <<>>)
                               \o <<Do("pending", n)>>, FALSE)
    /\ Unnoted /\ Uncounted

SendAllPending ==
    /\ At(Driver, "pending") /\ MayLock(Driver)
    /\ LET n == Subject(Driver) IN
       Becomes(SendPending([drv EXCEPT !.node[n].poll = FALSE], n))
    /\ Goes(Driver, <<>>, FALSE)
    /\ Unnoted /\ Uncounted

CheckCompleted ==
    /\ At(Driver, "check") /\ MayLock(Driver)
    /\ Becomes(CheckCompletedNodeQueries(drv))
    /\ Goes(Driver, <<>>, FALSE)
    /\ Unnoted /\ Uncounted

(***************************************************************************)
(* The driver thread: the next item of the queues, and what became of the  *)
(* message in progress.                                                    *)
(***************************************************************************)
IsNodeInfoRequest == drv.msg # Null /\ drv.msg.kind = "request" /\ drv.msg.stage = NodeInfo
\* Functions the controller answers itself.
IsLocal == drv.msg.kind = "request" /\ drv.msg.stage \in {ProtocolInfo, Neighbors}
Waiting == {i \in DOMAIN QueueName : drv.queue[QueueName[i]] # <<>>}

WriteNextMsg ==
    /\ Idle(Driver) /\ drv.msg = Null /\ Waiting # {}
    /\ LET q == QueueName[Min(Waiting)]
           item == Head(drv.queue[q])
           n == item.node
           popped == [drv EXCEPT !.queue[q] = Tail(@)]
       IN IF item.kind = "marker"
          THEN /\ Becomes(IF item.retry THEN popped ELSE QueryStageComplete(popped, n, item.stage))
               /\ Starts(Driver, <<Advance(n)>>)
          ELSE /\ MayLock(Driver)
               /\ Becomes(IF drv.node[n].alive \/ IsPing(item) THEN [popped EXCEPT !.msg = item]
                          ELSE popped)
               /\ UNCHANGED thread
    /\ Unnoted /\ Uncounted

\* SetNodeAlive, of a node that was presumed dead.
Hears(d, n) == IF d.node[n].alive THEN d ELSE Revived(d, n)
AfterHearing(n) ==
    IF drv.node[n].alive \/ drv.node[n].stage = Complete THEN <<>> ELSE <<Advance(n)>>

\* The node, or the controller in its place, did what was asked.
AnswerReceived ==
    /\ Idle(Driver) /\ drv.msg # Null /\ ~IsNodeInfoRequest
    /\ LET n == drv.msg.node
           over == [drv EXCEPT !.msg = Null]
       IN IF IsLocal
          THEN /\ Becomes([over EXCEPT !.node[n].info = @ \/ drv.msg.stage = ProtocolInfo])
               /\ UNCHANGED thread
          ELSE /\ Becomes(Hears([over EXCEPT !.node[n].awake = @ /\ drv.msg.kind # "sleep"], n))
               /\ Starts(Driver, AfterHearing(n))
    /\ Unnoted /\ Uncounted

\* SetNodeAlive(false) while the application is advancing the node.
Overlaps(n) == overlapped' = IF ~Idle(App) /\ Subject(App) = n THEN overlapped \cup {n}
                             ELSE overlapped
CheckUnless(stage, n) == IF stage = Complete THEN <<>> ELSE <<Do("check", n)>>

\* HandleErrorResponse, and the retry of a ping; other requests are sent again.
NotAcknowledged ==
    /\ Idle(Driver) /\ drv.msg # Null /\ ~IsNodeInfoRequest /\ ~IsLocal
    /\ Upset
    /\ LET n == drv.msg.node
           node == drv.node[n]
           dies == node.errors + 1 >= ErrorLimit
           failed == [drv EXCEPT !.node[n] = [node EXCEPT !.errors = @ + 1, !.alive = @ /\ ~dies],
                                 !.msg = IF IsPing(@) THEN Null ELSE @]
       IN IF CanSleep(drv, n)
          THEN /\ Becomes(MoveMessagesToWakeUpQueue(drv, n))
               /\ Starts(Driver, <<Do("check", n)>>)
               /\ UNCHANGED overlapped
          ELSE /\ Becomes(IF IsPing(drv.msg) /\ node.stage \in ProbeStages
                          THEN QueryStageRetry(failed, n, node.stage, 3) ELSE failed)
               /\ IF dies THEN Starts(Driver, CheckUnless(node.stage, n)) /\ Overlaps(n)
                  ELSE UNCHANGED <<thread, overlapped>>
    /\ UNCHANGED <<removals, twice>>

\* WriteMsg, after the last attempt or because the node is presumed dead.
GiveUp ==
    /\ Idle(Driver) /\ MayLock(Driver) /\ drv.msg # Null
    /\ LET lost == drv.node[drv.msg.node].alive \/ IsPing(drv.msg) IN
       IF lost THEN Upset ELSE UNCHANGED upsets
    /\ Becomes([drv EXCEPT !.msg = Null])
    /\ UNCHANGED <<thread, removals, overlapped, twice>>

NodeInfoRequestFailed ==
    /\ Idle(Driver) /\ IsNodeInfoRequest
    /\ Upset
    /\ LET n == drv.msg.node
           retried == QueryStageRetry(drv, n, NodeInfo, 2)
       IN IF CanSleep(drv, n)
          THEN /\ Becomes(MoveMessagesToWakeUpQueue(retried, n))
               /\ Starts(Driver, <<Do("check", n)>>)
          ELSE Becomes([retried EXCEPT !.msg = Null]) /\ UNCHANGED thread
    /\ UNCHANGED <<removals, overlapped, twice>>

(***************************************************************************)
(* Frames nobody asked for, but for the first kind.                        *)
(***************************************************************************)
HasStaticRequests(n) == Work[n] \cap {Versions, Instances} # {}
NodeInfoReceived(n) ==
    /\ Idle(Driver) /\ Exists(drv, n)
    /\ LET answers == IsNodeInfoRequest /\ drv.msg.node = n
           rest == IF drv.node[n].nif THEN <<Set(n, Dynamic)>>
                   ELSE (IF HasStaticRequests(n) THEN <<Set(n, ManufacturerSpecific2)>> ELSE <<>>)
                        \o <<Do("nif", n)>>
       IN /\ IF answers THEN UNCHANGED upsets ELSE Upset
          /\ Becomes(Hears([drv EXCEPT !.msg = IF answers THEN Null ELSE @], n))
          /\ Starts(Driver, AfterHearing(n) \o rest \o <<Do("awake", n)>>)
    /\ UNCHANGED <<removals, overlapped, twice>>

AwaitsWakeUp(n) ==
    Asleep(drv, n) /\ \E k \in DOMAIN drv.node[n].parked : drv.node[n].parked[k].kind # "sleep"
WakeUpReceived(n) ==
    /\ Idle(Driver) /\ CanSleep(drv, n)
    /\ IF AwaitsWakeUp(n) THEN UNCHANGED upsets ELSE Upset
    /\ Becomes(Hears(drv, n))
    /\ Starts(Driver, AfterHearing(n) \o <<Do("awake", n)>>)
    /\ UNCHANGED <<removals, overlapped, twice>>

\* The controller's answer to HasNodeFailed.
FailedNodeReported(n, failed) ==
    /\ Idle(Driver) /\ Exists(drv, n) /\ Upset
    /\ LET stage == drv.node[n].stage IN
       IF failed
       THEN /\ Becomes([drv EXCEPT !.node[n].alive = FALSE])
            /\ Starts(Driver, CheckUnless(stage, n)) /\ Overlaps(n)
       ELSE /\ Becomes(Revived(drv, n))
            /\ Starts(Driver, IF stage = Complete THEN <<>> ELSE <<Advance(n)>>)
            /\ UNCHANGED overlapped
    /\ UNCHANGED <<removals, twice>>

InitNode(t, n) ==
    /\ Idle(t) /\ MayLock(t)
    /\ \A u \in Thread \ {t} : \A x \in Range(thread[u].todo) : x.node # n
    /\ Becomes([(IF Exists(drv, n) THEN DeleteNode(drv, n) ELSE drv) EXCEPT !.node[n] = NewNode])
    /\ Starts(t, <<Set(n, ProtocolInfo)>>)
    /\ overlapped' = overlapped \ {n} /\ twice' = twice \ {n}
    /\ UNCHANGED removals

NodeRemoved(n) ==
    /\ Idle(Driver) /\ MayLock(Driver) /\ Exists(drv, n) /\ Upset
    /\ Becomes(DeleteNode(drv, n))
    /\ removals' = TRUE
    /\ overlapped' = overlapped \ {n} /\ twice' = twice \ {n}
    /\ UNCHANGED thread

(***************************************************************************)
(* Other threads: the poll thread, the timer thread, the application.      *)
(***************************************************************************)
SetPollRequired(n) ==
    /\ Idle(App) /\ Asleep(drv, n) /\ Upset
    /\ Becomes([drv EXCEPT !.node[n].poll = TRUE])
    /\ UNCHANGED <<thread, removals, overlapped, twice>>

SendNoMoreInfo(n) ==
    /\ Idle(App) /\ n \in drv.timers
    /\ Becomes(SendMsg([drv EXCEPT !.timers = @ \ {n}], "WakeUp", NoMoreInformation(n)))
    /\ UNCHANGED thread /\ Unnoted /\ Uncounted

\* RequestNodeState, RequestNodeDynamic and RequestAllConfigParams of the Manager.
RequestState(n, s) ==
    /\ Idle(App) /\ Exists(drv, n) /\ Upset
    /\ Starts(App, <<Set(n, s)>>)
    /\ UNCHANGED <<drv, removals, overlapped, twice>>

RefreshNodeInfo(n) == InitNode(App, n) /\ Upset
NewIdAssigned(n) == InitNode(Driver, n) /\ Upset

(***************************************************************************)
(* HandleSerialAPIGetInitDataResponse creates the nodes or finds them in   *)
(* the cache, and starts the interview of each.                            *)
(***************************************************************************)
InitData(order) ==
    [k \in DOMAIN order |-> Set(order[k], IF order[k] \in Cached THEN CacheLoad ELSE ProtocolInfo)]
Init ==
    /\ drv = [node |-> [n \in Node |-> IF n \in Cached THEN ReadNode ELSE NewNode],
              queue |-> [q \in Queues |-> <<>>], msg |-> Null, timers |-> {},
              awakeQueried |-> FALSE, allQueried |-> FALSE]
    /\ thread = [t \in Thread |-> [addQSC |-> FALSE,
                   todo |-> IF t = Driver THEN InitData(SetToSeq(Node)) ELSE <<>>]]
    /\ upsets = 0 /\ removals = FALSE /\ overlapped = {} /\ twice = {}

ThreadStep(t) == SetQueryStage(t) \/ TestLoop(t) \/ ActOnStage(t) \/ AddMarker(t)
CallStep == NodeInfoKept \/ SetAwake \/ SendAllPending \/ CheckCompleted
MessageEnds ==
    \/ AnswerReceived \/ NotAcknowledged \/ GiveUp \/ NodeInfoRequestFailed
    \/ IsNodeInfoRequest /\ NodeInfoReceived(drv.msg.node)

Next ==
    \/ \E t \in Thread : ThreadStep(t)
    \/ CallStep \/ WriteNextMsg \/ MessageEnds
    \/ \E n \in Node :
        \/ NodeInfoReceived(n) \/ WakeUpReceived(n) \/ NodeRemoved(n) \/ SetPollRequired(n)
        \/ \E failed \in BOOLEAN : FailedNodeReported(n, failed)
        \/ NewIdAssigned(n) \/ SendNoMoreInfo(n) \/ RefreshNodeInfo(n)
        \/ \E s \in {Associations, Dynamic, Configuration} : RequestState(n, s)

Spec == Init /\ [][Next]_vars

(***************************************************************************)
(* Properties.                                                             *)
(***************************************************************************)
Ops == {"set", "test", "act", "mark", "nif", "awake", "pending", "check"}
Step == [op : Ops, node : Node, stage : Stage]
Call == [todo : Seq(Step), addQSC : BOOLEAN]
DriverRec == [node : [Node -> NodeRec \cup {Null}], queue : [Queues -> Seq(Item)],
              msg : Item \cup {Null}, timers : SUBSET Node,
              awakeQueried : BOOLEAN, allQueried : BOOLEAN]

\* What is queued is for a node that exists, and what is parked for the node it is parked in.
OfNodesOnly(d) ==
    /\ \A q \in Queues : \A x \in Range(d.queue[q]) : Exists(d, x.node)
    /\ d.msg # Null => Exists(d, d.msg.node)
    /\ \A n \in d.timers : Exists(d, n)
    /\ \A n \in Node : Exists(d, n) => \A x \in Range(d.node[n].parked) : x.node = n

\* Everything keeps its type, and what is queued or to be done is for a node that exists.
TypeOK ==
    /\ drv \in DriverRec /\ OfNodesOnly(drv)
    /\ thread \in [Thread -> Call]
    /\ \A t \in Thread : \A x \in Range(thread[t].todo) : Exists(drv, x.node)
    /\ upsets \in 0..MaxUpsets
    /\ removals \in BOOLEAN /\ overlapped \subseteq Node /\ twice \subseteq Node

Advancing(n) == \E t \in Thread : \E x \in Range(thread[t].todo) : x.node = n
(***************************************************************************)
(* Nobody looks after a node but its marker: one that is alive and not     *)
(* through has a marker that will advance it, or a thread is in it; and a  *)
(* stage that is pending ends only with the marker of that stage. A node   *)
(* presumed dead while the application was advancing it has lost both.     *)
(***************************************************************************)
AlwaysResumes ==
    \A n \in Unfinished(drv) \ overlapped :
        \/ Advancing(n)
        \/ \E m \in Marks(n) : drv.node[n].pending => m.stage = drv.node[n].stage

(***************************************************************************)
(* Node::AdvanceQueries: the marker makes "this advance method" called     *)
(* again "once this stage has completed": all requests of the stage come   *)
(* out of the queues before it, also when they went through the wake-up    *)
(* queue of a sleeping node.                                               *)
(***************************************************************************)
OfStage(x, n, kind) == x.node = n /\ x.kind = kind /\ x.stage = drv.node[n].stage
OutOfOrder(n) ==
        LET query == drv.queue["Query"]
            parked == drv.node[n].parked
        IN \E k \in DOMAIN query :
             /\ OfStage(query[k], n, "marker") /\ ~query[k].retry
             /\ \/ \E j \in DOMAIN query : j > k /\ OfStage(query[j], n, "request")
                \/ Idle(Driver) /\ \E j \in DOMAIN parked : OfStage(parked[j], n, "request")
MarkersLast == \A n \in Node \ twice : ~(Exists(drv, n) /\ OutOfOrder(n))

(***************************************************************************)
(* The driver thread goes on, every message is answered some day or given  *)
(* up, and a sleeping node wakes up for what is parked.                    *)
(***************************************************************************)
Fairness ==
    /\ \A t \in Thread : WF_vars(ThreadStep(t))
    /\ WF_vars(CallStep) /\ WF_vars(WriteNextMsg) /\ WF_vars(MessageEnds)
    /\ \A n \in Node : WF_vars(AwaitsWakeUp(n) /\ WakeUpReceived(n))
FairSpec == Spec /\ Fairness

\* Every interview comes to its end, or the node is presumed dead or gone.
InterviewEnds == \A n \in Node : n \in Unfinished(drv) ~> n \notin Unfinished(drv) \ overlapped

\* When no node is left to query the application is told, unless the last one was removed.
AllQueriedAnnounced == Unfinished(drv) = {} ~> drv.allQueried \/ Unfinished(drv) # {} \/ removals
=============================================================================
