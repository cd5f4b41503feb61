------------------------------ MODULE PollList ------------------------------
(***************************************************************************)
(* The poll list of OpenZWave's Driver: the values whose state is asked    *)
(* for regularly, the poll thread that serves them, the application        *)
(* threads that change the list, and the driver thread that removes nodes  *)
(* and values (src/cpp/src/Driver.cpp, Node.cpp, WakeUp.cpp).              *)
(*                                                                         *)
(* m_pollMutex and m_nodeMutex are recursive; each is a variable that      *)
(* holds its owner. Code that takes m_nodeMutex and releases it before     *)
(* another thread could tell is one step, guarded by CanLockNodes.         *)
(*                                                                         *)
(* Time is left out: the poll interval and the sleeps of the poll thread   *)
(* may last any time. So is the exit of the poll thread.                   *)
(*                                                                         *)
(* A definition marked "mutant" is the variant with a plausible bug of the *)
(* definition that follows it; nothing uses it but the mutation runs.      *)
(***************************************************************************)
EXTENDS Integers, SequencesExt, FiniteSets

CONSTANTS
    Node,               \* node ids in use
    Value,              \* value ids
    NodeOf,             \* Value -> Node
    Sleeper,            \* nodes that do not listen and have the WakeUp class
    App,                \* application threads
    Driver,             \* the thread of DriverThreadProc
    PollThread,         \* the thread of PollThreadProc
    NoThread,
    NoValue, NoNode,
    Restored,           \* the list as ReadCache restores it: a sequence of values
    CounterMod,         \* uint8 wraps at 256; runs use a smaller modulus
    Intensities,        \* intensities the applications ask for
    AppOps,             \* calls the applications make
    Pinned,             \* values no application disables and no node removes
    Traffic,            \* whether other messages keep the send queues busy
    MaxDeletes,         \* bound on the nodes deleted in a behaviour
    MaxRemovals         \* bound on the values removed on their own

PollOp == {"EnablePoll", "DisablePoll", "isPolled", "SetPollIntensity"}
Threads == App \cup {Driver}

ASSUME PollConstants ==
    /\ NodeOf \in [Value -> Node]
    /\ Sleeper \subseteq Node
    /\ Driver \notin App /\ PollThread \notin Threads /\ NoThread \notin Threads
    /\ PollThread # NoThread
    /\ NoValue \notin Value /\ NoNode \notin Node
    /\ Restored \in Seq(Value)
    /\ \A j, k \in DOMAIN Restored : Restored[j] = Restored[k] => j = k
    /\ CounterMod \in Nat /\ CounterMod > 1
    /\ Intensities \subseteq 0..(CounterMod - 1)
    /\ AppOps \subseteq PollOp
    /\ Pinned \subseteq Value
    /\ Traffic \in BOOLEAN
    /\ MaxDeletes \in Nat /\ MaxRemovals \in Nat

VARIABLES
    pollMutex,          \* owner of m_pollMutex
    leaked,             \* its owner returned without unlocking it: it never will
    nodeMutex,          \* owner of m_nodeMutex
    pollList,           \* m_pollList
    intensity,          \* m_pollIntensity of each value
    present,            \* values in the value store of their node
    nodes,              \* ids whose m_nodes[] is not NULL
    awakeNodesQueried,  \* m_awakeNodesQueried
    call,               \* per thread, the call it is in and where
    poll,               \* where the poll thread is, and its copy pe of an entry
    dtor,               \* ~Node on the driver thread: the node, the values to visit
    awake, pollRequired,\* m_awake and m_pollRequired of the sleepers' WakeUp
    waking,             \* the sleeper in SetAwake(true), after m_awake was set
    busy,               \* a message is queued or in progress
    undefined,          \* the program left the behaviour C++ defines
    deletes, removals   \* counters for the bounds

lists == <<pollList, intensity>>
store == <<present, nodes>>
wakeUp == <<awake, pollRequired, waking>>
counters == <<deletes, removals>>
locks == <<pollMutex, leaked, nodeMutex>>
vars == <<locks, lists, store, awakeNodesQueried, call, poll, dtor, wakeUp, busy,
          undefined, counters>>

Entry == [id : Value, counter : 0..(CounterMod - 1)]
NoEntry == [id |-> NoValue, counter |-> 0]
NoCall == [pc |-> "idle", op |-> "none", id |-> NoValue, intensity |-> 0, polled |-> FALSE]

Listed(v) == \E k \in DOMAIN pollList : pollList[k].id = v
\* The entry of v, of which there is one (OneEntryEach).
ListedAt(v) == CHOOSE k \in DOMAIN pollList : pollList[k].id = v

\* mutant: m_pollMutex is not taken
PollsNotLocked(t) == TRUE
CanLockPolls(t) == pollMutex \in {NoThread, t}
CanLockNodes(t) == nodeMutex \in {NoThread, t}
UnlockPolls == pollMutex' = IF leaked THEN pollMutex ELSE NoThread

\* delete m_nodes[i] has freed the values, and m_nodes[i] still points to the node.
Freed(v) == dtor.pc = "free" /\ NodeOf[v] = dtor.node

(***************************************************************************)
(* Calls. A thread waits for m_pollMutex ("lock"); isPolled and            *)
(* SetPollIntensity then look the value up without m_nodeMutex ("value");  *)
(* all but SetPollIntensity then wait for m_nodeMutex ("nodes").           *)
(***************************************************************************)
Begin(t, op, v, i) ==
    call' = [call EXCEPT ![t] =
                [pc |-> "lock", op |-> op, id |-> v, intensity |-> i, polled |-> FALSE]]

\* Manager::EnablePoll and its three siblings, called by an application.
AppCall(t) ==
    /\ t \in App
    /\ call[t].pc = "idle"
    /\ \E op \in AppOps, v \in Value, i \in Intensities :
          /\ op = "DisablePoll" => v \notin Pinned
          /\ op \in {"DisablePoll", "isPolled"} => i = CHOOSE j \in Intensities : TRUE
          /\ Begin(t, op, v, i)
    /\ UNCHANGED <<locks, lists, store, awakeNodesQueried, poll, dtor, wakeUp, busy,
                   undefined, counters>>

LockPolls(t) ==
    /\ call[t].pc = "lock"
    /\ CanLockPolls(t)
    /\ pollMutex' = t
    /\ call' = [call EXCEPT ![t].pc =
                   IF call[t].op \in {"EnablePoll", "DisablePoll"} THEN "nodes" ELSE "value"]
    /\ UNCHANGED <<leaked, nodeMutex, lists, store, awakeNodesQueried, poll, dtor,
                   wakeUp, busy, undefined, counters>>

\* EnablePoll looks for the value in the whole list before it adds an entry.
InPollList(v) == Listed(v)

\* EnablePoll with m_nodeMutex: a value that is listed already keeps its counter.
EnablePoll(t) ==
    LET v == call[t].id  i == call[t].intensity IN
    /\ call[t].pc = "nodes" /\ call[t].op = "EnablePoll"
    /\ CanLockNodes(t)
    /\ IF v \in present
       THEN /\ intensity' = [intensity EXCEPT ![v] = i]
            /\ pollList' = IF InPollList(v) THEN pollList
                           ELSE Append(pollList, [id |-> v, counter |-> i])
       ELSE UNCHANGED lists
    /\ UnlockPolls
    /\ call' = [call EXCEPT ![t] = NoCall]
    /\ UNCHANGED <<leaked, nodeMutex, store, awakeNodesQueried, poll, dtor, wakeUp,
                   busy, undefined, counters>>

\* DisablePoll with m_nodeMutex. When the value itself is gone, the loop goes on
\* with the iterator of the entry it has erased.
DisablePoll(t) ==
    LET v == call[t].id IN
    /\ call[t].pc = "nodes" /\ call[t].op = "DisablePoll"
    /\ CanLockNodes(t)
    /\ IF NodeOf[v] \in nodes /\ Listed(v)
       THEN /\ pollList' = RemoveAt(pollList, ListedAt(v))
            /\ intensity' = IF v \in present THEN [intensity EXCEPT ![v] = 0] ELSE intensity
            /\ undefined' = (v \notin present)
       ELSE UNCHANGED <<lists, undefined>>
    /\ UnlockPolls
    /\ call' = [call EXCEPT ![t] = NoCall]
    /\ dtor' = IF t = Driver THEN [dtor EXCEPT !.todo = @ \ {v}] ELSE dtor
    /\ UNCHANGED <<leaked, nodeMutex, store, awakeNodesQueried, poll, wakeUp, busy, counters>>

\* isPolled looks the value up with m_pollMutex only.
isPolled_Value(t) ==
    /\ call[t].pc = "value" /\ call[t].op = "isPolled"
    /\ call' = [call EXCEPT ![t].pc = "nodes",
                            ![t].polled = call[t].id \in present /\ intensity[call[t].id] # 0]
    /\ undefined' = Freed(call[t].id)
    /\ UNCHANGED <<locks, lists, store, awakeNodesQueried, poll, dtor, wakeUp, busy, counters>>

\* isPolled then compares with the list; ~Node calls DisablePoll if it agrees.
isPolled_List(t) ==
    LET v == call[t].id
        answer == NodeOf[v] \in nodes /\ Listed(v) /\ call[t].polled IN
    /\ call[t].pc = "nodes" /\ call[t].op = "isPolled"
    /\ CanLockNodes(t)
    /\ UnlockPolls
    /\ IF t = Driver /\ answer
       THEN Begin(t, "DisablePoll", v, 0) /\ UNCHANGED dtor
       ELSE /\ call' = [call EXCEPT ![t] = NoCall]
            /\ dtor' = IF t = Driver THEN [dtor EXCEPT !.todo = @ \ {v}] ELSE dtor
    /\ UNCHANGED <<leaked, nodeMutex, lists, store, awakeNodesQueried, poll, wakeUp,
                   busy, undefined, counters>>

\* SetPollIntensity looks the value up with m_pollMutex only, and returns with the
\* mutex locked when there is none.
SetPollIntensity(t) ==
    LET v == call[t].id IN
    /\ call[t].pc = "value" /\ call[t].op = "SetPollIntensity"
    /\ IF v \in present
       THEN /\ intensity' = [intensity EXCEPT ![v] = call[t].intensity]
            /\ UnlockPolls /\ UNCHANGED leaked
       ELSE leaked' = TRUE /\ UNCHANGED <<pollMutex, intensity>>
    /\ undefined' = Freed(v)
    /\ call' = [call EXCEPT ![t] = NoCall]
    /\ UNCHANGED <<nodeMutex, pollList, store, awakeNodesQueried, poll, dtor, wakeUp,
                   busy, counters>>

Call(t) ==
    \/ LockPolls(t)
    \/ EnablePoll(t)
    \/ DisablePoll(t)
    \/ isPolled_Value(t)
    \/ isPolled_List(t)
    \/ SetPollIntensity(t)

(***************************************************************************)
(* The poll thread. It tests the list without a lock ("check"), takes the  *)
(* front entry under m_pollMutex ("pop"), puts it back ("reload") and asks *)
(* for the value ("request") with m_nodeMutex too, marks a sleeper in      *)
(* between ("mark"), and waits until nothing is queued ("wait").           *)
(***************************************************************************)
\* mutant: the entry is not pushed back
PassedNotPushed(list) == Tail(list)
\* mutant: the counter does not wrap
Decrement(c) == c - 1
\* m_pollCounter-- on a uint8
Decremented(c) == (c + CounterMod - 1) % CounterMod
\* The list after its front entry was not due.
Passed(list) == Append(Tail(list), [Head(list) EXCEPT !.counter = Decremented(@)])
\* mutant: push_front instead of push_back
PutInFront(list, e) == <<e>> \o list
PutBack(list, e) == Append(list, e)

At(pc) == poll' = [poll EXCEPT !.pc = pc]

PollCheck ==
    /\ poll.pc = "check"
    /\ awakeNodesQueried /\ pollList # <<>>
    /\ At("pop")
    /\ UNCHANGED <<locks, lists, store, awakeNodesQueried, call, dtor, wakeUp, busy,
                   undefined, counters>>

\* pop_front, and push_back of an entry whose turn it is not.
PollPop ==
    LET pe == Head(pollList) IN
    /\ poll.pc = "pop"
    /\ CanLockPolls(PollThread)
    /\ \/ /\ pollList = <<>>
          /\ undefined' = TRUE
          /\ UNCHANGED <<pollMutex, pollList, poll>>
       \/ /\ pollList # <<>>
          /\ pe.counter # 1
          /\ pollList' = Passed(pollList)
          /\ UnlockPolls
          /\ At("check")
          /\ UNCHANGED undefined
       \/ /\ pollList # <<>>
          /\ pe.counter = 1
          /\ pollList' = Tail(pollList)
          /\ pollMutex' = PollThread
          /\ poll' = [pc |-> "reload", entry |-> pe]
          /\ UNCHANGED undefined
    /\ UNCHANGED <<leaked, nodeMutex, intensity, store, awakeNodesQueried, call, dtor,
                   wakeUp, busy, counters>>

\* push_back with a full counter; an entry whose value is gone is dropped, and the
\* loop continues with m_pollMutex locked.
PollReload ==
    LET v == poll.entry.id IN
    /\ poll.pc = "reload"
    /\ CanLockNodes(PollThread)
    /\ IF v \in present
       THEN /\ pollList' = PutBack(pollList, [id |-> v, counter |-> intensity[v]])
            /\ At("request") /\ UNCHANGED leaked
       ELSE /\ leaked' = TRUE
            /\ poll' = [pc |-> "check", entry |-> NoEntry]
            /\ UNCHANGED pollList
    /\ UNCHANGED <<pollMutex, nodeMutex, intensity, store, awakeNodesQueried, call, dtor,
                   wakeUp, busy, undefined, counters>>

\* Ask for the value, or, with m_nodeMutex held, go on to mark its sleeping node.
PollRequest ==
    LET n == NodeOf[poll.entry.id] IN
    /\ poll.pc = "request"
    /\ CanLockNodes(PollThread)
    /\ IF n \in nodes /\ n \in Sleeper /\ ~awake[n]
       THEN nodeMutex' = PollThread /\ At("mark") /\ UNCHANGED <<pollMutex, busy>>
       ELSE /\ busy' = (busy \/ n \in nodes)
            /\ UnlockPolls /\ At("wait") /\ UNCHANGED nodeMutex
    /\ UNCHANGED <<leaked, lists, store, awakeNodesQueried, call, dtor, wakeUp,
                   undefined, counters>>

PollMark ==
    /\ poll.pc = "mark"
    /\ pollRequired' = [pollRequired EXCEPT ![NodeOf[poll.entry.id]] = TRUE]
    /\ nodeMutex' = NoThread
    /\ UnlockPolls
    /\ At("wait")
    /\ UNCHANGED <<leaked, lists, store, awakeNodesQueried, call, dtor, awake, waking,
                   busy, undefined, counters>>

PollWait ==
    /\ poll.pc = "wait"
    /\ ~busy
    /\ poll' = [pc |-> "check", entry |-> NoEntry]
    /\ UNCHANGED <<locks, lists, store, awakeNodesQueried, call, dtor, wakeUp, busy,
                   undefined, counters>>

PollProc == PollCheck \/ PollPop \/ PollReload \/ PollRequest \/ PollMark \/ PollWait

(***************************************************************************)
(* The driver thread, between two of its steps.                            *)
(***************************************************************************)
DriverIdle == dtor.pc = "none" /\ waking = NoNode

\* CheckCompletedNodeQueries: all nodes that are awake have been interviewed.
CheckCompletedNodeQueries ==
    /\ DriverIdle
    /\ ~awakeNodesQueried
    /\ awakeNodesQueried' = TRUE
    /\ UNCHANGED <<locks, lists, store, call, poll, dtor, wakeUp, busy, undefined, counters>>

\* The queues empty and the transaction ends; other threads may fill them again.
QueuesEmpty ==
    /\ DriverIdle
    /\ busy
    /\ busy' = FALSE
    /\ UNCHANGED <<locks, lists, store, awakeNodesQueried, call, poll, dtor, wakeUp,
                   undefined, counters>>

OtherTraffic ==
    /\ Traffic
    /\ ~busy
    /\ busy' = TRUE
    /\ UNCHANGED <<locks, lists, store, awakeNodesQueried, call, poll, dtor, wakeUp,
                   undefined, counters>>

\* mutant: SetAwake looks at m_pollRequired only when m_awake changes
WakingOnChange(n) == waking' = IF awake[n] THEN NoNode ELSE n
\* SetAwake goes on to look at m_pollRequired whatever m_awake was.
GoesOnToPoll(n) == waking' = n

\* WakeUp::SetAwake, which runs without m_nodeMutex: m_awake is set first.
NodeWakes(n) ==
    /\ DriverIdle
    /\ n \in nodes \cap Sleeper
    /\ awake' = [awake EXCEPT ![n] = TRUE]
    /\ GoesOnToPoll(n)
    /\ UNCHANGED <<locks, lists, store, awakeNodesQueried, call, poll, dtor,
                   pollRequired, busy, undefined, counters>>

\* SetQueryStage(Dynamic) asks for the dynamic values of a node marked for polling.
PollWokenNode ==
    /\ waking # NoNode
    /\ busy' = (busy \/ pollRequired[waking])
    /\ pollRequired' = [pollRequired EXCEPT ![waking] = FALSE]
    /\ waking' = NoNode
    /\ UNCHANGED <<locks, lists, store, awakeNodesQueried, call, poll, dtor, awake,
                   undefined, counters>>

NodeSleeps(n) ==
    /\ DriverIdle
    /\ n \in nodes \cap Sleeper
    /\ awake[n]
    /\ awake' = [awake EXCEPT ![n] = FALSE]
    /\ UNCHANGED <<locks, lists, store, awakeNodesQueried, call, poll, dtor,
                   pollRequired, waking, busy, undefined, counters>>

\* A report makes a command class remove a value; no lock is taken.
RemoveValue(v) ==
    /\ DriverIdle
    /\ v \in present \ Pinned
    /\ removals < MaxRemovals
    /\ present' = present \ {v}
    /\ intensity' = [intensity EXCEPT ![v] = 0]
    /\ removals' = removals + 1
    /\ UNCHANGED <<locks, pollList, nodes, awakeNodesQueried, call, poll, dtor, wakeUp,
                   busy, undefined, deletes>>

\* A value created anew is not polled.
CreateValue(v) ==
    /\ DriverIdle
    /\ NodeOf[v] \in nodes
    /\ v \notin present
    /\ present' = present \cup {v}
    /\ UNCHANGED <<locks, lists, nodes, awakeNodesQueried, call, poll, dtor, wakeUp,
                   busy, undefined, counters>>

\* mutant: the node is deleted without m_nodeMutex
NodesNotLocked == UNCHANGED nodeMutex
LockNodes == CanLockNodes(Driver) /\ nodeMutex' = Driver

\* delete m_nodes[n], under m_nodeMutex.
DeleteNode(n) ==
    /\ DriverIdle
    /\ n \in nodes
    /\ \A v \in Pinned : NodeOf[v] # n
    /\ deletes < MaxDeletes
    /\ LockNodes
    /\ dtor' = [pc |-> "visit", node |-> n, todo |-> {v \in present : NodeOf[v] = n}]
    /\ deletes' = deletes + 1
    /\ UNCHANGED <<pollMutex, leaked, lists, store, awakeNodesQueried, call, poll, wakeUp,
                   busy, undefined, removals>>

\* ~Node asks isPolled of its values, one after the other.
VisitValue ==
    /\ dtor.pc = "visit"
    /\ call[Driver].pc = "idle"
    /\ \E v \in dtor.todo : Begin(Driver, "isPolled", v, 0)
    /\ UNCHANGED <<locks, lists, store, awakeNodesQueried, poll, dtor, wakeUp, busy,
                   undefined, counters>>

\* delete m_values
FreeValues ==
    /\ dtor.pc = "visit"
    /\ dtor.todo = {}
    /\ present' = {v \in present : NodeOf[v] # dtor.node}
    /\ dtor' = [dtor EXCEPT !.pc = "free"]
    /\ UNCHANGED <<locks, lists, nodes, awakeNodesQueried, call, poll, wakeUp, busy,
                   undefined, counters>>

\* m_nodes[n] = NULL, and InitNode's new Node in its place where a node is replaced.
ReplaceNode ==
    /\ dtor.pc = "free"
    /\ nodes' \in {nodes, nodes \ {dtor.node}}
    /\ intensity' = [v \in Value |-> IF NodeOf[v] = dtor.node THEN 0 ELSE intensity[v]]
    /\ awake' = [n \in Sleeper |-> n = dtor.node \/ awake[n]]
    /\ pollRequired' = [n \in Sleeper |-> n # dtor.node /\ pollRequired[n]]
    /\ nodeMutex' = NoThread
    /\ dtor' = [pc |-> "none", node |-> NoNode, todo |-> {}]
    /\ UNCHANGED <<pollMutex, leaked, pollList, present, awakeNodesQueried, call, poll,
                   waking, busy, undefined, counters>>

DriverStep ==
    \/ CheckCompletedNodeQueries \/ QueuesEmpty \/ PollWokenNode
    \/ VisitValue \/ FreeValues \/ ReplaceNode
    \/ \E n \in Node : NodeWakes(n) \/ NodeSleeps(n) \/ DeleteNode(n)
    \/ \E v \in Value : RemoveValue(v) \/ CreateValue(v)

(***************************************************************************)
(* The specification. ReadCache restores the values whose saved intensity  *)
(* is not zero. Nothing is said of what a program does after undefined     *)
(* behaviour: the model stops there.                                       *)
(***************************************************************************)
Init ==
    /\ pollMutex = NoThread /\ nodeMutex = NoThread /\ leaked = FALSE
    /\ pollList = [k \in DOMAIN Restored |-> [id |-> Restored[k], counter |-> 1]]
    /\ intensity = [v \in Value |-> IF v \in ToSet(Restored) THEN 1 ELSE 0]
    /\ present = Value /\ nodes = Node
    /\ awakeNodesQueried = FALSE
    /\ call = [t \in Threads |-> NoCall]
    /\ poll = [pc |-> "check", entry |-> NoEntry]
    /\ dtor = [pc |-> "none", node |-> NoNode, todo |-> {}]
    /\ awake = [n \in Sleeper |-> TRUE]
    /\ pollRequired = [n \in Sleeper |-> FALSE]
    /\ waking = NoNode
    /\ busy = FALSE /\ undefined = FALSE
    /\ deletes = 0 /\ removals = 0

Next ==
    /\ ~undefined
    /\ \/ \E t \in Threads : AppCall(t) \/ Call(t)
       \/ PollProc
       \/ DriverStep
       \/ OtherTraffic

\* Every thread keeps running; a mutex that is released again and again is granted
\* in the end; the queues drain between other events of the driver thread; and a
\* sleeping node wakes up at its interval.
Fairness ==
    /\ \A t \in Threads : SF_vars(~undefined /\ Call(t))
    /\ WF_vars(~undefined /\ (PollCheck \/ PollMark))
    /\ SF_vars(~undefined /\ (PollPop \/ PollReload \/ PollRequest))
    /\ SF_vars(~undefined /\ PollWait)
    /\ WF_vars(~undefined /\ (PollWokenNode \/ VisitValue \/ FreeValues \/ ReplaceNode))
    /\ SF_vars(~undefined /\ QueuesEmpty)
    /\ SF_vars(~undefined /\ CheckCompletedNodeQueries)
    /\ \A n \in Sleeper : SF_vars(~undefined /\ NodeWakes(n))

Spec == Init /\ [][Next]_vars
FairSpec == Spec /\ Fairness

-----------------------------------------------------------------------------
\* Every variable has its type.
TypeOK ==
    /\ pollMutex \in Threads \cup {PollThread, NoThread}
    /\ nodeMutex \in {Driver, PollThread, NoThread}
    /\ leaked \in BOOLEAN
    /\ pollList \in Seq(Entry)
    /\ intensity \in [Value -> 0..(CounterMod - 1)]
    /\ present \subseteq Value /\ nodes \subseteq Node
    /\ awakeNodesQueried \in BOOLEAN
    /\ call \in [Threads -> [pc : {"idle", "lock", "value", "nodes"},
                             op : PollOp \cup {"none"}, id : Value \cup {NoValue},
                             intensity : 0..(CounterMod - 1), polled : BOOLEAN]]
    /\ poll \in [pc : {"check", "pop", "reload", "request", "mark", "wait"},
                 entry : Entry \cup {NoEntry}]
    /\ dtor \in [pc : {"none", "visit", "free"}, node : Node \cup {NoNode},
                 todo : SUBSET Value]
    /\ awake \in [Sleeper -> BOOLEAN] /\ pollRequired \in [Sleeper -> BOOLEAN]
    /\ waking \in Sleeper \cup {NoNode}
    /\ busy \in BOOLEAN /\ undefined \in BOOLEAN
    /\ deletes \in 0..MaxDeletes /\ removals \in 0..MaxRemovals

\* The entry the poll thread has taken out of the list and not yet put back.
InHand(v) == poll.pc = "reload" /\ poll.entry.id = v

\* A value has one entry, in the list or in the hand of the poll thread, whatever
\* threads enable it while the poll thread turns the list over (EnablePoll's search,
\* PollThreadProc's pop_front and push_back).
OneEntryEach ==
    /\ \A j, k \in DOMAIN pollList : pollList[j].id = pollList[k].id => j = k
    /\ \A v \in Value : InHand(v) => ~Listed(v)

\* An entry only disappears by DisablePoll of its value, or because the value is
\* gone: no race of the poll thread with the calls loses one.
EntriesKept ==
    [][\A v \in Value :
          (Listed(v) \/ InHand(v)) /\ ~(Listed(v)' \/ InHand(v)') =>
             \/ v \notin present
             \/ \E t \in Threads :
                   call[t].pc = "nodes" /\ call[t].op = "DisablePoll" /\ call[t].id = v]_vars

\* ~Node has removed its values from the poll list when it frees them, so that the
\* poll thread never looks for a value of a deleted node (Node.cpp:129, "Remove the
\* values from the poll list"). It holds as long as no intensity is zero and no value
\* went on its own: ~Node passes over a value whose intensity is zero, and a value
\* that is created again has none while its old entry is still listed.
NoOrphanEntry ==
    dtor.pc = "free" /\ removals = 0 =>
       \A v \in Value : NodeOf[v] = dtor.node => ~Listed(v) /\ ~InHand(v)

\* A call, or a turn of the poll thread, that has taken m_pollMutex leaves it free,
\* on every path and whatever it waited for inside. The exception are the two paths
\* that keep it for ever, SetPollIntensity and the poll thread when their value is gone
\* (Driver.cpp:4254, 4311); after them no call gets any further.
Inside(t) == call[t].pc \in {"value", "nodes"}
InTurn == poll.pc \in {"reload", "request", "mark"}
PollMutexReleased ==
    [][/\ \A t \in Threads : Inside(t) /\ ~Inside(t)' =>
             pollMutex' = NoThread \/ leaked \/ call[t].id \notin present
       /\ InTurn /\ ~InTurn' =>
             pollMutex' = NoThread \/ leaked \/ poll.entry.id \notin present]_vars

\* No call returns with m_pollMutex locked, and the poll thread finds an entry when it
\* takes one, though it tests the list before it has the lock and SetPollIntensity
\* looks a value up while others are disabled. It holds where no value or node goes
\* away and some value stays enabled (Driver.cpp:4254, 4285).
StaysDefined == ~undefined /\ ~leaked

\* The poll thread has asked for a value, or marked its sleeping node.
Served(v) == poll.pc = "wait" /\ poll.entry.id = v
\* A value that is enabled for good is served again and again, whatever the other
\* threads enable, disable or set: the list is turned over for ever.
ServedForEver == \A v \in Pinned : []<>Served(v)

\* A sleeping node that is marked gets its poll at a wake-up, even when it woke
\* between the poll thread's look at m_awake and the mark.
MarkedIsPolled == \A n \in Sleeper : pollRequired[n] ~> ~pollRequired[n]
=============================================================================
