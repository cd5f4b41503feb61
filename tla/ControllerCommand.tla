------------------------- MODULE ControllerCommand --------------------------
(***************************************************************************)
(* The controller commands of OpenZWave's Driver: long running requests to *)
(* the controller itself (adding and removing devices, return routes,      *)
(* failed nodes), one at a time, each reported to a callback and each      *)
(* driven on by whatever frames the controller sends                       *)
(* (src/cpp/src/Driver.cpp).                                               *)
(*                                                                         *)
(* A handler calls several functions that change the same state, so the    *)
(* state of the driver is one record, drv, and each function of the driver *)
(* an operator from records to records. A ControllerCommandItem is an      *)
(* object with an identity: m_currentControllerCommand, the controller     *)
(* queue and the wake-up queues hold pointers to it.                       *)
(*                                                                         *)
(* The transaction below a command is what DriverTransaction models; here  *)
(* it is the message in progress, which the controller answers or the      *)
(* driver gives up. Buttons of a bridge controller are left out.           *)
(*                                                                         *)
(* A definition marked "mutant" is the variant with a plausible bug of the *)
(* definition that follows it; nothing uses it but the mutation runs.      *)
(***************************************************************************)
EXTENDS Lists, SequencesExt

CONSTANTS
    Command,            \* the commands an application or the driver begins
    Kind,               \* Command -> ControllerCommandKind
    ArgNode,            \* Command -> the node it names, or Broadcast
    Callback,           \* Command -> the callback it was begun with
    ResetCommand,       \* commands the driver begins for a node that was reset
    Item,               \* addresses of ControllerCommandItem objects
    Node,               \* node ids in use
    InitialNodes,       \* nodes known at the start
    Sleeper,            \* nodes that do not listen and have the WakeUp class
    Joining,            \* nodes the controller may report as being added
    Leaving,            \* nodes it may report as being removed
    Primary, SUC,       \* IsPrimaryController, IsStaticUpdateController
    Cancellers,         \* application threads that cancel
    Null,               \* the null pointer
    Broadcast,          \* 0xff, the target of a message for the controller
    MaxBegun,           \* bound on the commands applications begin
    MaxFrames,          \* bound on the frames from the controller
    MaxSleeps           \* bound on the nodes falling asleep

LearnKinds == {"AddDevice", "ReplicationSend", "CreateNewPrimary", "TransferPrimaryRole"}
NodeKinds == {"RequestNodeNeighborUpdate", "AssignReturnRoute",
              "DeleteAllReturnRoutes", "SendNodeInformation"}
CannotCancel == NodeKinds \cup {"RequestNetworkUpdate", "RemoveFailedNode",
                                "HasNodeFailed", "ReplaceFailedNode"}
ControllerCommandKind ==
    LearnKinds \cup CannotCancel \cup {"RemoveDevice", "ReceiveConfiguration"}

State == {"Normal", "Starting", "Cancel", "Error", "Waiting", "Sleeping", "InProgress",
          "Completed", "Failed", "NodeOK", "NodeFailed"}
\* What a callback was last told. Overtaken: the command is over, but what it is told is
\* a status that came after its end and is not an end.
Ending == {"Ended", "Overtaken"}
Told == {"Nothing", "Progress"} \cup Ending
\* States that end a command; the others only tell how it goes.
Final == {"Error", "Cancel", "Failed", "Sleeping", "NodeFailed", "NodeOK", "Completed"}

\* The function of the controller a command calls; two kinds share one.
Func(k) == IF k = "ReplicationSend" THEN "AddDevice" ELSE k
Funcs == ControllerCommandKind \ {"ReplicationSend"}
\* Those that a RESPONSE frame answers with a handler of its own.
Responding == {"RequestNetworkUpdate", "AssignReturnRoute", "DeleteAllReturnRoutes",
               "RemoveFailedNode", "ReplaceFailedNode"}

ASSUME CommandConstants ==
    /\ Kind \in [Command -> ControllerCommandKind]
    /\ ArgNode \in [Command -> Node \cup {Broadcast}]
    /\ \A c \in Command : Kind[c] \in NodeKinds => ArgNode[c] \in Node
    /\ ResetCommand \subseteq {c \in Command : Kind[c] = "RemoveFailedNode"}
    /\ InitialNodes \subseteq Node /\ Sleeper \subseteq Node
    /\ Joining \subseteq Node /\ Leaving \subseteq Node
    /\ Primary \in BOOLEAN /\ SUC \in BOOLEAN
    /\ Null \notin Item \cup Node /\ Broadcast \notin Node /\ Broadcast # Null
    /\ MaxBegun \in Nat /\ MaxFrames \in Nat /\ MaxSleeps \in Nat

VARIABLES
    drv,        \* the driver: see Driver below
    chip,       \* per function, how far the controller is with it (0: not at all)
    begun,      \* commands that were begun
    told,       \* per command, the state it was last reported in
    cancel,     \* per thread, where it is in CancelControllerCommand
    frames, sleeps, \* counters for the bounds
    undefined   \* the program left the behaviour C++ defines

vars == <<drv, chip, begun, told, cancel, frames, sleeps, undefined>>

\* A state that ends the command has marked it as done.
Cci == {item \in [of : Command, state : State, changed : BOOLEAN, done : BOOLEAN,
                  node : Node \cup {Null, Broadcast}, added : BOOLEAN] :
           item.state \in Final => item.done}
Msg == [func : Funcs \cup {"GetVersion", "GetRoutingInfo"}, op : {"start", "stop"},
        node : Node \cup {Null, Broadcast}, callback : BOOLEAN, reply : BOOLEAN]
ASSUME NullIsNoItem == Null \notin Cci
NoMsg == [func |-> "none", op |-> "none", node |-> Null, callback |-> FALSE,
          reply |-> FALSE]

Driver == [
    obj : [Item -> Cci \cup {Null}],    \* the objects that exist
    queue : Seq(Item),                  \* m_msgQueue[MsgQueue_Controller]
    event : BOOLEAN,                    \* its event
    current : Item \cup {Null},         \* m_currentControllerCommand
    telling : BOOLEAN,                  \* WriteNextMsg is in the last callback
    sendQueue : Seq(Msg),               \* m_msgQueue[MsgQueue_Command]
    msg : Msg \cup {NoMsg},             \* m_currentMsg, as long as it is waited for
    parked : [Node -> Seq(Item)],       \* controller items of the wake-up queues
    awake : [Node -> BOOLEAN],          \* m_awake of the WakeUp classes
    nodes : SUBSET Node]                \* ids whose m_nodes[] is not NULL

\* What is left of a list when the elements in the set gone are erased.
Without(list, gone) == Sublist(list, {k \in DOMAIN list : list[k] \notin gone})

NewItem(c) == [of |-> c, state |-> "Normal", changed |-> FALSE, done |-> FALSE,
               node |-> ArgNode[c], added |-> FALSE]
Message(f, op, n, callback, reply) ==
    [func |-> f, op |-> op, node |-> n, callback |-> callback, reply |-> reply]

Free(d) == {i \in Item : d.obj[i] = Null}
NewAddress(d) == CHOOSE i \in Free(d) : TRUE
Running(d) == d.current # Null
Current(d) == d.obj[d.current]

(***************************************************************************)
(* Functions of the driver.                                                *)
(***************************************************************************)
Entered(item, s) ==
    [item EXCEPT !.state = s, !.changed = TRUE, !.done = @ \/ s \in Final]
\* mutant: the event is left to whoever queues the next command
UpdateWithoutEvent(d, s) ==
    IF ~Running(d) \/ Current(d).state = s THEN d
    ELSE [d EXCEPT !.obj[d.current] = Entered(@, s)]
\* A state that ends the command also wakes the driver thread up to report it.
UpdateControllerState(d, s) ==
    IF ~Running(d) \/ Current(d).state = s THEN d
    ELSE [d EXCEPT !.obj[d.current] = Entered(@, s),
                   !.event = @ \/ s \in Final]

\* BeginControllerCommand: a new object at the end of the queue.
Begun(d, i, c) ==
    [d EXCEPT !.obj[i] = NewItem(c), !.queue = Append(@, i), !.event = TRUE]

\* MsgQueueItem::operator==: the same kind of command with the same callback.
EqualItems(d, i, j) ==
    /\ Kind[d.obj[i].of] = Kind[d.obj[j].of]
    /\ Callback[d.obj[i].of] = Callback[d.obj[j].of]

\* WakeUp::QueueMsg, of one item after the other: it deletes an equal item and adds the
\* new one at the end. Of equal ones the last is left.
Replaced(d, n, items) ==
    LET all == d.parked[n] \o items IN
    {all[k] : k \in {k \in DOMAIN all : \E j \in DOMAIN items :
                 k < Len(d.parked[n]) + j /\ EqualItems(d, items[j], all[k])}}
\* mutant: the equal item is deleted and stays on the queue
QueueMsgsKeeping(d, n, items) ==
    [d EXCEPT !.parked[n] = @ \o items,
              !.obj = [i \in Item |-> IF i \in Replaced(d, n, items) THEN Null ELSE d.obj[i]]]
QueueMsgs(d, n, items) ==
    [d EXCEPT !.parked[n] = Without(@ \o items, Replaced(d, n, items)),
              !.obj = [i \in Item |-> IF i \in Replaced(d, n, items) THEN Null ELSE d.obj[i]]]

Asleep(d, n) == n \in d.nodes \cap Sleeper /\ ~d.awake[n]

\* SendMsg on the command queue. A message to a sleeping node is dropped when a
\* command is in progress: a copy of the command takes its place.
SendMsg(d, m) ==
    IF ~Asleep(d, m.node) THEN [d EXCEPT !.sendQueue = Append(@, m)]
    ELSE IF ~Running(d) THEN d
    ELSE LET i == NewAddress(d) IN
         QueueMsgs(UpdateControllerState([d EXCEPT !.obj[i] = Current(d)], "Sleeping"),
                   m.node, <<i>>)

AddNodeStop(d, f) ==
    IF Running(d) THEN SendMsg(d, Message(f, "stop", Broadcast, FALSE, TRUE)) ELSE d

RemoveCurrentMsg(d) == [d EXCEPT !.msg = NoMsg]

\* The event of a queue that is empty is reset.
EventAfter(d, q) == d.event /\ q # <<>>

\* mutant: RemoveQueues deletes the command in progress as well
EveryItemOf(d, which) == {i \in Range(d.queue) : d.obj[i].node \in which}
\* RemoveQueues keeps the command in progress.
OtherItemsOf(d, which) == {i \in Range(d.queue) : d.obj[i].node \in which /\ i # d.current}
MessagesFor(d, which) == {m \in Range(d.sendQueue) : m.node \in which}

\* delete m_nodes[n] of some nodes: ~Node and ~WakeUp take everything of a node off the
\* queues.
DeleteNodes(d, dying) ==
    LET which == dying \cap d.nodes
        gone == OtherItemsOf(d, which)
        left == Without(d.queue, gone) IN
    IF which = {} THEN d
    ELSE [d EXCEPT !.nodes = @ \ which,
                   !.msg = IF d.msg.node \in which THEN NoMsg ELSE @,
                   !.sendQueue = Without(@, MessagesFor(d, which)),
                   !.queue = left,
                   !.event = EventAfter(d, left),
                   !.obj = [i \in Item |->
                              IF i \in gone \cup UNION {Range(d.parked[n]) : n \in which}
                              THEN Null ELSE d.obj[i]],
                   !.parked = [n \in Node |-> IF n \in which THEN <<>> ELSE d.parked[n]],
                   !.awake = [n \in Node |-> n \in which \/ d.awake[n]]]
DeleteNode(d, n) == DeleteNodes(d, {n})

\* A node that is known already is replaced.
InitNode(d, n) == [DeleteNode(d, n) EXCEPT !.nodes = @ \cup {n}]

\* All nodes are deleted, and the controller is asked for its version.
InitAllNodes(d) ==
    SendMsg(DeleteNodes(d, Node), Message("GetVersion", "start", Broadcast, FALSE, TRUE))

(***************************************************************************)
(* MoveMessagesToWakeUpQueue: the node does not answer. Its commands move  *)
(* to its wake-up queue; a copy of the command in progress goes back to    *)
(* the controller queue, where it is only reported and deleted.            *)
(***************************************************************************)
MoveControllerItems(d, n) ==
    LET Of(here) == {i \in Range(d.queue) : (d.obj[i].node = n) = here}
        left == Without(d.queue, Of(TRUE)) IN
    QueueMsgs([d EXCEPT !.queue = left, !.event = EventAfter(d, left)],
              n, Without(d.queue, Of(FALSE)))

\* What follows the use of a pointer that is null or to a deleted object.
Crash(d) == [d EXCEPT !.current = Null, !.queue = <<Null>>]
Crashed(d) == d.queue = <<Null>>

\* The command in progress may just have been deleted: QueueMsg did that, when an
\* equal one of the node was behind it on the queue.
PutCopyBack(d) ==
    IF ~Running(d) THEN d
    ELSE IF Current(d) = Null THEN Crash(d)
    ELSE LET s == UpdateControllerState(d, "Sleeping")
             i == NewAddress(s) IN
         [s EXCEPT !.obj[i] = Current(s), !.queue = Append(@, i), !.current = i,
                   !.event = TRUE]

MoveMessagesToWakeUpQueue(d, n) ==
    IF n \notin d.nodes \cap Sleeper THEN d
    ELSE LET asleep == [d EXCEPT !.awake[n] = FALSE,
                                 !.msg = IF Running(d) \/ @.node = n THEN NoMsg ELSE @,
                                 !.sendQueue = Without(@, MessagesFor(d, {n}))] IN
         PutCopyBack(MoveControllerItems(asleep, n))

\* HandleErrorResponse; only two of its callers have the node's messages moved.
HandleErrorResponse(d, error, sleepCheck) ==
    IF error # "NO_ACK" \/ d.msg = NoMsg \/ d.msg.node \notin d.nodes \cap Sleeper THEN d
    ELSE IF sleepCheck THEN MoveMessagesToWakeUpQueue(d, d.msg.node)
         ELSE [d EXCEPT !.awake[d.msg.node] = FALSE]

(***************************************************************************)
(* DoControllerCommand: refuse the command or send the first message.      *)
(***************************************************************************)
Refused(k) ==
    \/ k \in {"AddDevice", "RemoveDevice", "TransferPrimaryRole",
              "RequestNodeNeighborUpdate", "ReplicationSend"} /\ ~Primary
    \/ k = "CreateNewPrimary" /\ (Primary \/ ~SUC)
    \/ k = "RequestNetworkUpdate" /\ ~SUC

DoControllerCommand(d) ==
    LET k == Kind[Current(d).of]
        started == UpdateControllerState(d, "Starting") IN
    IF Refused(k) THEN UpdateControllerState(started, "Error")
    ELSE SendMsg(started,
                 Message(Func(k), "start",
                         IF k \in NodeKinds THEN Current(d).node ELSE Broadcast,
                         k # "HasNodeFailed", TRUE))

(***************************************************************************)
(* The handlers of frames from the controller.                             *)
(***************************************************************************)
StateNow(d) == IF Running(d) THEN Current(d).state ELSE "Normal"

\* The node that was added is interviewed, if there is one.
AddedNode(d) == IF Current(d).node \in Node THEN InitNode(d, Current(d).node) ELSE d

CommonAddNodeStatusRequestHandler(d, f, status, n) ==
    CASE status = "READY" ->
            IF ~Running(d) THEN Crash(d)
            ELSE UpdateControllerState([d EXCEPT !.obj[d.current].added = FALSE], "Waiting")
      [] status = "FOUND" -> UpdateControllerState(d, "InProgress")
      [] status = "SLAVE" ->
            IF ~Running(d) THEN Crash(d)
            ELSE [d EXCEPT !.obj[d.current].added = FALSE, !.obj[d.current].node = n]
      [] status = "CONTROLLER" ->
            IF ~Running(d) THEN d
            ELSE [d EXCEPT !.obj[d.current].added = TRUE, !.obj[d.current].node = n]
      [] status = "PROTOCOL_DONE" -> AddNodeStop(d, f)
      [] status = "DONE" ->
            IF StateNow(d) = "Failed" \/ ~Running(d)
            THEN UpdateControllerState(d, "Completed")
            ELSE LET a == AddedNode(d) IN
                 UpdateControllerState(IF f # "AddDevice" /\ Current(d).added
                                       THEN InitAllNodes(a) ELSE a, "Completed")
      [] status = "FAILED" ->
            UpdateControllerState(AddNodeStop(RemoveCurrentMsg(d), f), "Failed")

\* A node the controller removed is deleted, once.
RemovedNode(d, n) ==
    LET c == Current(d).node
        e == IF c = Null THEN [d EXCEPT !.obj[d.current].node = n] ELSE d IN
    IF Current(e).node \in Node THEN DeleteNode(e, Current(e).node) ELSE e

HandleRemoveNodeFromNetworkRequest(d, status, n) ==
    IF ~Running(d) THEN d
    ELSE CASE status = "READY" ->
                UpdateControllerState([d EXCEPT !.obj[d.current].node = Null], "Waiting")
           [] status = "FOUND" -> UpdateControllerState(d, "InProgress")
           [] status = "SLAVE" -> 
                IF n = Null THEN UpdateControllerState(d, "Failed")
                ELSE [d EXCEPT !.obj[d.current].node = n]
           [] status = "CONTROLLER" -> [d EXCEPT !.obj[d.current].node = n]
           [] status = "PROTOCOL_DONE" -> d
           [] status = "DONE" ->
                IF Current(d).done THEN d
                ELSE RemovedNode(UpdateControllerState(d, "Completed"), n)
           [] status = "FAILED" -> UpdateControllerState(d, "Failed")

EndLearnMode(d) == SendMsg(d, Message("ReceiveConfiguration", "stop", Broadcast, FALSE, FALSE))

HandleSetLearnModeRequest(d, status) ==
    IF ~Running(d) THEN d
    ELSE CASE status = "STARTED" -> UpdateControllerState(d, "Waiting")
           [] status = "DONE" ->
                UpdateControllerState(InitAllNodes(EndLearnMode(d)), "Completed")
           [] status = "FAILED" ->
                UpdateControllerState(InitAllNodes(EndLearnMode(d)), "Failed")
           [] status = "DELETED" -> UpdateControllerState(EndLearnMode(d), "Failed")

HandleRemoveFailedNodeRequest(d, status) ==
    IF ~Running(d) THEN Crash(d)
    ELSE CASE status = "OK" -> UpdateControllerState(d, "NodeOK")
           [] status = "REMOVED" ->
                UpdateControllerState(IF Current(d).node \in Node
                                      THEN DeleteNode(d, Current(d).node) ELSE d, "Completed")
           [] status = "FAILED" -> UpdateControllerState(d, "Failed")

HandleReplaceFailedNodeRequest(d, status) ==
    CASE status = "OK" -> UpdateControllerState(d, "NodeOK")
      [] status = "STARTED" -> UpdateControllerState(d, "Waiting")
      [] status = "DONE" ->
            UpdateControllerState(IF Running(d) THEN AddedNode(d) ELSE d, "Completed")
      [] status = "FAILED" -> UpdateControllerState(d, "Failed")

\* RequestNodeNeighbors; an unknown status takes the command back to Normal.
HandleNodeNeighborUpdateRequest(d, status) ==
    CASE status = "STARTED" -> UpdateControllerState(d, "InProgress")
      [] status = "DONE" ->
            UpdateControllerState(
                IF Running(d)
                THEN SendMsg(d, Message("GetRoutingInfo", "start", Current(d).node, FALSE, TRUE))
                ELSE d, "Completed")
      [] status = "FAILED" -> UpdateControllerState(d, "Failed")
      [] status = "OTHER" -> UpdateControllerState(d, "Normal")

\* HandleAssignReturnRouteRequest, and its two siblings.
HandleTransmitted(d, status, sleepCheck) ==
    IF ~Running(d) THEN d
    ELSE IF status = "OK" THEN UpdateControllerState(d, "Completed")
    ELSE UpdateControllerState(HandleErrorResponse(d, status, sleepCheck), "Failed")

\* The statuses of a function, in the order the controller gives them.
Rank(f) ==
    CASE f \in LearnKinds \cup {"RemoveDevice"} ->
            [s \in {"READY", "FOUND", "SLAVE", "CONTROLLER", "PROTOCOL_DONE", "DONE",
                    "FAILED"} |->
                CASE s = "READY" -> 2 [] s = "FOUND" -> 3 [] s \in {"SLAVE", "CONTROLLER"} -> 4
                  [] s = "PROTOCOL_DONE" -> 5 [] OTHER -> 6]
      [] f = "ReceiveConfiguration" ->
            [s \in {"STARTED", "DONE", "FAILED", "DELETED"} |-> IF s = "STARTED" THEN 2 ELSE 6]
      [] f = "RemoveFailedNode" -> [s \in {"OK", "REMOVED", "FAILED"} |-> 6]
      [] f = "ReplaceFailedNode" ->
            [s \in {"OK", "STARTED", "DONE", "FAILED"} |-> IF s = "STARTED" THEN 2 ELSE 6]
      [] f = "RequestNodeNeighborUpdate" ->
            [s \in {"STARTED", "DONE", "FAILED", "OTHER"} |-> IF s = "STARTED" THEN 2 ELSE 6]
      [] f \in {"AssignReturnRoute", "DeleteAllReturnRoutes", "SendNodeInformation"} ->
            [s \in {"OK", "NO_ACK", "FAIL"} |-> 6]
      [] f = "RequestNetworkUpdate" -> [s \in {"DONE", "FAILED"} |-> 6]
      [] OTHER -> [s \in {} |-> 0]

Handled(d, f, status, n) ==
    CASE f \in LearnKinds -> CommonAddNodeStatusRequestHandler(d, f, status, n)
      [] f = "RemoveDevice" -> HandleRemoveNodeFromNetworkRequest(d, status, n)
      [] f = "ReceiveConfiguration" -> HandleSetLearnModeRequest(d, status)
      [] f = "RemoveFailedNode" -> HandleRemoveFailedNodeRequest(d, status)
      [] f = "ReplaceFailedNode" -> HandleReplaceFailedNodeRequest(d, status)
      [] f = "RequestNodeNeighborUpdate" -> HandleNodeNeighborUpdateRequest(d, status)
      [] f = "SendNodeInformation" -> HandleTransmitted(d, status, FALSE)
      [] f \in {"AssignReturnRoute", "DeleteAllReturnRoutes"} ->
            HandleTransmitted(d, status, TRUE)
      [] f = "RequestNetworkUpdate" ->
            UpdateControllerState(d, IF status = "DONE" THEN "Completed" ELSE "Failed")

\* ProcessMsg, after the handler: the message in progress was answered, if the
\* frame carries its callback id (hit) or its function is the reply it waits for.
HandleCallback(d, f, hit) ==
    IF d.msg.func = f /\ d.msg.reply /\ (d.msg.callback => hit)
    THEN RemoveCurrentMsg(d) ELSE d

(***************************************************************************)
(* Steps. The driver thread takes them one at a time; while it is in the   *)
(* last callback of a command (telling), only other threads go on.         *)
(***************************************************************************)
Init ==
    /\ drv = [obj |-> [i \in Item |-> Null], queue |-> <<>>, event |-> FALSE,
              current |-> Null, telling |-> FALSE, sendQueue |-> <<>>, msg |-> NoMsg,
              parked |-> [n \in Node |-> <<>>], awake |-> [n \in Node |-> TRUE],
              nodes |-> InitialNodes]
    /\ chip = [f \in Funcs |-> 0]
    /\ begun = {}
    /\ told = [c \in Command |-> "Nothing"]
    /\ cancel = [t \in Cancellers |-> "idle"]
    /\ frames = 0 /\ sleeps = 0
    /\ undefined = FALSE

Becomes(next) == \E d \in {next} :
    /\ drv' = IF Crashed(d) THEN drv ELSE d
    /\ undefined' = Crashed(d)

DriverThread == ~undefined /\ ~drv.telling
RoomForCopy == Free(drv) # {}

\* Manager::BeginControllerCommand, on any thread.
BeginControllerCommand(c) ==
    /\ ~undefined /\ RoomForCopy
    /\ c \notin begun \cup ResetCommand /\ Cardinality(begun) < MaxBegun
    /\ begun' = begun \cup {c}
    /\ Becomes(Begun(drv, NewAddress(drv), c))
    /\ UNCHANGED <<chip, told, cancel, frames, sleeps>>

(***************************************************************************)
(* DriverThreadProc waits for frames only, as long as a message is waited  *)
(* for, and looks at the command queue before the controller queue.        *)
(***************************************************************************)
Idle == DriverThread /\ drv.msg = NoMsg

WriteCommandMsg ==
    /\ Idle /\ drv.sendQueue # <<>>
    /\ Becomes([drv EXCEPT !.msg = Head(drv.sendQueue), !.sendQueue = Tail(@)])
    /\ UNCHANGED <<chip, begun, told, cancel, frames, sleeps>>

ControllerTurn == Idle /\ drv.sendQueue = <<>> /\ drv.event

\* WriteNextMsg looks at the front of the queue, which Cancel may have left empty.
NothingQueued ==
    /\ ControllerTurn /\ drv.queue = <<>>
    /\ Becomes(Crash(drv))
    /\ UNCHANGED <<chip, begun, told, cancel, frames, sleeps>>

\* The front of the queue becomes the current command and stays there.
Taken == [drv EXCEPT !.current = Head(drv.queue)]

\* What the callback is told, as far as the properties tell it apart.
Outcome(item) == IF item.state \in Final THEN "Ended"
                 ELSE IF item.done THEN "Overtaken" ELSE "Progress"
Report(d) == told' = [told EXCEPT ![Current(d).of] = Outcome(Current(d))]

\* mutant: a change of the state is reported before the end is noticed
OverAndTold(i) == i.done /\ ~i.changed
Over(i) == i.done

StartCommand ==
    /\ ControllerTurn /\ drv.queue # <<>> /\ RoomForCopy
    /\ ~Over(Current(Taken)) /\ Current(Taken).state = "Normal"
    /\ Becomes(DoControllerCommand(Taken))
    /\ UNCHANGED <<chip, begun, told, cancel, frames, sleeps>>

ReportProgress ==
    /\ ControllerTurn /\ drv.queue # <<>>
    /\ ~Over(Current(Taken)) /\ Current(Taken).state # "Normal" /\ Current(Taken).changed
    /\ Report(Taken)
    /\ Becomes([Taken EXCEPT !.obj[Taken.current].changed = FALSE])
    /\ UNCHANGED <<chip, begun, cancel, frames, sleeps>>

NothingToDo ==
    /\ ControllerTurn /\ drv.queue # <<>>
    /\ ~Over(Current(Taken)) /\ Current(Taken).state # "Normal" /\ ~Current(Taken).changed
    /\ Becomes([Taken EXCEPT !.event = FALSE])
    /\ UNCHANGED <<chip, begun, told, cancel, frames, sleeps>>

\* The command is over: off the queue, the last callback, and then it is deleted.
ReportEnd ==
    /\ ControllerTurn /\ drv.queue # <<>>
    /\ Over(Current(Taken))
    /\ Report(Taken)
    /\ Becomes([Taken EXCEPT !.queue = Tail(@), !.event = EventAfter(drv, Tail(drv.queue)),
                             !.telling = TRUE])
    /\ UNCHANGED <<chip, begun, cancel, frames, sleeps>>

DeleteCommand ==
    /\ ~undefined /\ drv.telling
    /\ Becomes([drv EXCEPT !.obj[drv.current] = Null, !.current = Null, !.telling = FALSE])
    /\ UNCHANGED <<chip, begun, told, cancel, frames, sleeps>>

WriteNextMsg ==
    WriteCommandMsg \/ NothingQueued \/ StartCommand \/ ReportProgress \/ NothingToDo
    \/ ReportEnd \/ DeleteCommand

\* mutant: a message is given up without a word to the command it was for
GivenUpSilently(d) == RemoveCurrentMsg(d)
GivenUp(d) == RemoveCurrentMsg(UpdateControllerState(d, "Error"))

\* The last attempt of the message in progress was not answered.
WriteMsgGivesUp ==
    /\ DriverThread /\ drv.msg # NoMsg
    /\ Becomes(GivenUp(drv))
    /\ UNCHANGED <<chip, begun, told, cancel, frames, sleeps>>

\* A message that waits for nothing but its ACK; the End Learn Mode.
AckCompletes ==
    /\ DriverThread /\ drv.msg # NoMsg /\ ~drv.msg.callback /\ ~drv.msg.reply
    /\ Becomes(RemoveCurrentMsg(drv))
    /\ UNCHANGED <<chip, begun, told, cancel, frames, sleeps>>

(***************************************************************************)
(* The controller. It hears any attempt of the message in progress; it     *)
(* answers a started function in the order of the statuses, any of which   *)
(* may be missing, and a stop with DONE.                                   *)
(***************************************************************************)
ChipHears ==
    /\ DriverThread /\ drv.msg # NoMsg /\ drv.msg.func \in Funcs
    /\ chip' = [chip EXCEPT ![drv.msg.func] = IF drv.msg.op = "start" THEN 1 ELSE 6]
    /\ chip' # chip
    /\ UNCHANGED <<drv, begun, told, cancel, frames, sleeps, undefined>>

FrameArrives == DriverThread /\ RoomForCopy /\ frames < MaxFrames /\ frames' = frames + 1

\* The node a status is about.
About(f, status) ==
    IF status \in {"SLAVE", "CONTROLLER"} \/ (f = "RemoveDevice" /\ status = "DONE")
    THEN IF f = "RemoveDevice" THEN Leaving \cup {Null} ELSE Joining
    ELSE {Null}

ProcessRequest(f) ==
    /\ FrameArrives
    /\ \E status \in DOMAIN Rank(f) :
          LET r == Rank(f)[status] IN
          /\ chip[f] \in 1..r
          /\ chip' = [chip EXCEPT ![f] = IF r = 6 THEN 0 ELSE r + 1]
          /\ \E n \in About(f, status), hit \in BOOLEAN :
                Becomes(HandleCallback(Handled(drv, f, status, n), f, hit))
    /\ UNCHANGED <<begun, told, cancel, sleeps>>

\* A failed response ends the transaction, whichever it is.
ProcessResponse(f) ==
    /\ FrameArrives
    /\ f \in Responding /\ chip[f] = 1
    /\ \/ /\ chip' = [chip EXCEPT ![f] = 2]
          /\ Becomes(UpdateControllerState(drv, "InProgress"))
       \/ /\ chip' = [chip EXCEPT ![f] = 0]
          /\ Becomes(RemoveCurrentMsg(UpdateControllerState(drv, "Failed")))
    /\ UNCHANGED <<begun, told, cancel, sleeps>>

\* HandleIsFailedNodeResponse: a failed node that was reset is to be removed.
ProcessIsFailedNode ==
    /\ FrameArrives
    /\ chip["HasNodeFailed"] = 1
    /\ chip' = [chip EXCEPT !["HasNodeFailed"] = 0]
    /\ LET answered == HandleCallback(drv, "HasNodeFailed", FALSE) IN
       \/ /\ \E state \in {"NodeOK", "NodeFailed"} :
                Becomes(UpdateControllerState(answered, state))
          /\ UNCHANGED begun
       \/ \E c \in ResetCommand \ begun :
             /\ begun' = begun \cup {c}
             /\ ArgNode[c] \in drv.nodes
             /\ Running(drv) => Current(drv).node = ArgNode[c]
             /\ Becomes(UpdateControllerState(Begun(answered, NewAddress(drv), c),
                                              "Completed"))
    /\ UNCHANGED <<told, cancel, sleeps>>

\* The reply to a message whose contents do not matter here.
ProcessOtherReply ==
    /\ DriverThread /\ drv.msg.func \in {"GetVersion", "GetRoutingInfo"}
    /\ Becomes(RemoveCurrentMsg(drv))
    /\ UNCHANGED <<chip, begun, told, cancel, frames, sleeps>>

\* HandleApplicationUpdateRequest, UPDATE_STATE_NODE_INFO_REQ_FAILED: it names no node.
NodeInfoRequestFailed ==
    /\ FrameArrives
    /\ drv.msg # NoMsg /\ drv.msg.node \in drv.nodes \cap Sleeper
    /\ Becomes(MoveMessagesToWakeUpQueue(drv, drv.msg.node))
    /\ UNCHANGED <<chip, begun, told, cancel, sleeps>>

\* Any other message for a sleeping node, sent by the application.
MessageForSleeper(n) ==
    /\ FrameArrives
    /\ Asleep(drv, n) /\ Running(drv)
    /\ Becomes(SendMsg(drv, Message("GetRoutingInfo", "start", n, FALSE, TRUE)))
    /\ UNCHANGED <<chip, begun, told, cancel, sleeps>>

NodeSleeps(n) ==
    /\ DriverThread /\ sleeps < MaxSleeps
    /\ n \in drv.nodes \cap Sleeper /\ drv.awake[n]
    /\ sleeps' = sleeps + 1
    /\ Becomes([drv EXCEPT !.awake[n] = FALSE])
    /\ UNCHANGED <<chip, begun, told, cancel, frames>>

\* SetAwake(true) and SendPending: the parked commands begin anew, in order.
Rebegin(d, n) ==
    [d EXCEPT !.awake[n] = TRUE, !.parked[n] = <<>>,
              !.queue = @ \o d.parked[n],
              !.event = @ \/ d.parked[n] # <<>>,
              !.obj = [i \in Item |-> IF i \in Range(d.parked[n])
                                      THEN [NewItem(d.obj[i].of) EXCEPT !.node = d.obj[i].node]
                                      ELSE d.obj[i]]]
NodeWakes(n) ==
    /\ DriverThread /\ Asleep(drv, n)
    /\ Becomes(Rebegin(drv, n))
    /\ UNCHANGED <<chip, begun, told, cancel, frames, sleeps>>

(***************************************************************************)
(* CancelControllerCommand, on an application thread and without a lock:   *)
(* the pointer is tested, used to choose what to stop, and used again.     *)
(***************************************************************************)
CancelTests(t) ==
    /\ ~undefined /\ cancel[t] = "idle" /\ Running(drv)
    /\ cancel' = [cancel EXCEPT ![t] = "stop"]
    /\ UNCHANGED <<drv, chip, begun, told, frames, sleeps, undefined>>

\* There is no node to interview or to delete any more.
NodeForgotten(d) == [d EXCEPT !.obj[d.current].node = Broadcast]

Stopped(d) ==
    LET k == Kind[Current(d).of] IN
    CASE k \in {"AddDevice", "RemoveDevice", "ReplicationSend"} ->
            AddNodeStop(NodeForgotten(d), Func(k))
      [] k \in {"CreateNewPrimary", "TransferPrimaryRole"} ->
            SendMsg(d, Message(k, "stop", Broadcast, TRUE, TRUE))
      [] k = "ReceiveConfiguration" -> EndLearnMode(d)
      [] OTHER -> d

CancelStops(t) ==
    /\ ~undefined /\ cancel[t] = "stop"
    /\ cancel' = [cancel EXCEPT ![t] =
                     IF Running(drv) /\ Kind[Current(drv).of] \notin CannotCancel
                     THEN "update" ELSE "idle"]
    /\ Becomes(IF Running(drv) THEN Stopped(drv) ELSE Crash(drv))
    /\ UNCHANGED <<chip, begun, told, frames, sleeps>>

CancelUpdates(t) ==
    /\ ~undefined /\ cancel[t] = "update"
    /\ cancel' = [cancel EXCEPT ![t] = "done"]
    /\ Becomes(UpdateControllerState(drv, "Cancel"))
    /\ UNCHANGED <<chip, begun, told, frames, sleeps>>

Controller ==
    \/ ChipHears \/ ProcessIsFailedNode \/ ProcessOtherReply \/ NodeInfoRequestFailed
    \/ \E f \in Funcs : ProcessRequest(f) \/ ProcessResponse(f)

Next ==
    \/ \E c \in Command : BeginControllerCommand(c)
    \/ WriteNextMsg \/ WriteMsgGivesUp \/ AckCompletes
    \/ Controller
    \/ \E n \in Node : MessageForSleeper(n) \/ NodeSleeps(n) \/ NodeWakes(n)
    \/ \E t \in Cancellers : CancelTests(t) \/ CancelStops(t) \/ CancelUpdates(t)

Spec == Init /\ [][Next]_vars

(***************************************************************************)
(* Properties.                                                             *)
(***************************************************************************)
\* The items some queue points to.
Everywhere(d) == Range(d.queue) \cup UNION {Range(d.parked[n]) : n \in Node}

\* Everything keeps its type, and the driver's pointers point to objects that exist.
TypeOK ==
    /\ drv.obj \in [Item -> Cci \cup {Null}]
    /\ drv.queue \in Seq(Item) /\ drv.event \in BOOLEAN
    /\ drv.current \in Item \cup {Null} /\ drv.telling \in BOOLEAN
    /\ \A i \in Everywhere(drv) : drv.obj[i] # Null
    /\ Running(drv) => Current(drv) # Null
    /\ drv.sendQueue \in Seq(Msg) /\ drv.msg \in Msg \cup {NoMsg}
    /\ drv.parked \in [Node -> Seq(Item)] /\ drv.awake \in [Node -> BOOLEAN]
    /\ drv.nodes \subseteq Node
    /\ chip \in [Funcs -> 0..6]
    /\ begun \subseteq Command
    /\ told \in [Command -> Told]
    /\ cancel \in [Cancellers -> {"idle", "stop", "update", "done"}]
    /\ frames \in 0..MaxFrames /\ sleeps \in 0..MaxSleeps
    /\ undefined \in BOOLEAN

Reported == IF drv.telling THEN {drv.current} ELSE {}

(***************************************************************************)
(* Every ControllerCommandItem is on exactly one queue, once, except the   *)
(* one that is in its last callback: none leaks, none is deleted while a   *)
(* queue points to it. The command in progress is the front of the         *)
(* controller queue, or was put behind the others to be cleaned up.        *)
(***************************************************************************)
OneOwner ==
    /\ {i \in Item : drv.obj[i] # Null} = Everywhere(drv) \cup Reported
    /\ Reported \cap Everywhere(drv) = {}
    /\ IsInjective(drv.queue)
    /\ \A n \in Node : IsInjective(drv.parked[n])
    /\ \A n \in Node : Range(drv.queue) \cap Range(drv.parked[n]) = {}
    /\ \A m, n \in Node : m # n => Range(drv.parked[m]) \cap Range(drv.parked[n]) = {}
    /\ Running(drv) /\ ~drv.telling => drv.current \in Range(drv.queue)

(***************************************************************************)
(* The driver thread never sleeps on a command that is over and not yet    *)
(* reported, or not yet begun: the event of its queue is set and reset in  *)
(* six places.                                                             *)
(***************************************************************************)
DoneIsSignalled ==
    drv.queue # <<>> =>
        LET front == drv.obj[Head(drv.queue)] IN
        front.done \/ (front.state = "Normal" /\ ~front.changed) => drv.event

Open(c) == \E i \in Item \ Reported : drv.obj[i] # Null /\ drv.obj[i].of = c
Life == [c \in Command |-> IF c \notin begun THEN "idle" ELSE IF Open(c) THEN "open" ELSE "over"]

(***************************************************************************)
(* What an application is promised: see CommandReports.                    *)
(***************************************************************************)
Reports == INSTANCE CommandReports WITH life <- Life
ReportsOnce == Reports!Spec

(***************************************************************************)
(* Every command that was begun is over some day and the next one gets its *)
(* turn, unless the controller falls silent in the middle of a command     *)
(* that goes on by several statuses: the first of them ends the            *)
(* transaction, and from there on no timeout runs. A neighbour update with *)
(* a status the handler does not know is left in the same way. A message   *)
(* that is not answered at all ends its command.                           *)
(***************************************************************************)
Fairness ==
    /\ WF_vars(WriteNextMsg) /\ WF_vars(WriteMsgGivesUp) /\ WF_vars(AckCompletes)
    /\ \A n \in Node : WF_vars(NodeWakes(n))
FairSpec == Spec /\ Fairness
NothingAwaited ==
    drv.msg = NoMsg /\ drv.sendQueue = <<>> /\ ~drv.event /\ ~drv.telling
LeftByController ==
    /\ Running(drv) /\ NothingAwaited
    /\ LET k == Kind[Current(drv).of] IN
       /\ k \in LearnKinds \cup {"RemoveDevice", "ReceiveConfiguration", "ReplaceFailedNode",
                              "RequestNodeNeighborUpdate"}
       /\ chip[Func(k)] \in 2..6 \/ (k = "RequestNodeNeighborUpdate" /\ chip[k] = 0)
CommandsEnd ==
    \/ <>[]LeftByController
    \/ \A c \in Command : c \in begun ~> Life[c] = "over" \/ undefined
=============================================================================
