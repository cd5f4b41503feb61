--------------------------- MODULE NodeQueryProofs ---------------------------
(***************************************************************************)
(* Machine-checked proofs about NodeQuery, for any nodes, any work to ask  *)
(* for and any bounds: nothing is queued or left to do for a node that is  *)
(* gone, an unfinished interview always has somebody who will go on with   *)
(* it, and the marker of a stage comes after the requests of the stage.    *)
(*                                                                         *)
(* Sound is what holds of the driver between its functions. The lemmas     *)
(* about the functions say of which nodes they keep the state and the      *)
(* markers (Kept); the invariants follow node by node.                     *)
(***************************************************************************)
EXTENDS NodeQuery, SequenceLemmas, FiniteSetTheorems

-----------------------------------------------------------------------------
(* Types.                                                                    *)
Sound(d) == d \in DriverRec /\ OfNodesOnly(d)

LEMMA QueueNames ==
    /\ DOMAIN QueueName = 1..5
    /\ Queues = {"Command", "NoOp", "WakeUp", "Send", "Query"}
    /\ \A i \in DOMAIN QueueName : QueueName[i] \in Queues
<1>1. DOMAIN QueueName = 1..5
  BY DEF QueueName
<1>2. /\ QueueName[1] = "Command" /\ QueueName[2] = "NoOp" /\ QueueName[3] = "WakeUp"
      /\ QueueName[4] = "Send" /\ QueueName[5] = "Query"
  BY DEF QueueName
<1>3. \A i \in 1..5 : i = 1 \/ i = 2 \/ i = 3 \/ i = 4 \/ i = 5
  OBVIOUS
<1> HIDE DEF QueueName
<1>4. Queues = {QueueName[i] : i \in 1..5}
  BY <1>1 DEF Queues, Range
<1>5. 1 \in 1..5 /\ 2 \in 1..5 /\ 3 \in 1..5 /\ 4 \in 1..5 /\ 5 \in 1..5
  OBVIOUS
<1>6. ASSUME NEW x \in Queues PROVE x \in {"Command", "NoOp", "WakeUp", "Send", "Query"}
  BY <1>2, <1>3, <1>4, <1>6
<1>7. {"Command", "NoOp", "WakeUp", "Send", "Query"} \subseteq Queues
  BY <1>2, <1>4, <1>5
<1> QED
  BY <1>1, <1>4, <1>6, <1>7

LEMMA StageNames ==
    /\ Stage = 0..18
    /\ Optional \subseteq Stage /\ ProbeStages \subseteq Stage
    /\ {None, ProtocolInfo, WakeUp, NodeInfo, CacheLoad, Neighbors, Complete} \subseteq Stage
BY DEF Stage, Optional, ProbeStages, None, ProtocolInfo, Probe, WakeUp, NodeInfo, NodePlusInfo,
       SecurityReport, Versions, ManufacturerSpecific1, Instances, ManufacturerSpecific2, Static,
       CacheLoad, Associations, Neighbors, Session, Dynamic, Configuration, Complete

LEMMA QueueOfType ==
    ASSUME NEW s \in Stage
    PROVE  QueueOf(s) \in Queues
BY QueueNames DEF QueueOf

LEMMA NewNodeType == NewNode \in NodeRec /\ ReadNode \in NodeRec /\ NewNode.parked = <<>>
<1>1. <<>> \in Seq(Item) /\ None \in Stage /\ Session \in Stage
  BY StageNames DEF Optional
<1>2. NewNode \in NodeRec
  BY <1>1 DEF NewNode, NodeRec
<1> QED
  BY <1>1, <1>2 DEF ReadNode, NodeRec, NewNode

LEMMA ItemTypes ==
    ASSUME NEW n \in Node, NEW s \in Stage
    PROVE  /\ Request(n, s) \in Item /\ Request(n, s).node = n /\ Request(n, s).kind = "request"
           /\ Request(n, s).stage = s
           /\ Marker(n, s) \in Item /\ Marker(n, s).node = n /\ Marker(n, s).kind = "marker"
           /\ Marker(n, s).stage = s /\ ~Marker(n, s).retry
           /\ NoMoreInformation(n) \in Item /\ NoMoreInformation(n).node = n
           /\ NoMoreInformation(n).kind = "sleep"
BY StageNames DEF Request, Marker, NoMoreInformation, Item

LEMMA StepTypes ==
    ASSUME NEW n \in Node, NEW s \in Stage, NEW op \in Ops
    PROVE  /\ Do(op, n) \in Step /\ Do(op, n).node = n /\ Do(op, n).op = op
           /\ Set(n, s) \in Step /\ Set(n, s).node = n /\ Set(n, s).op = "set"
           /\ Set(n, s).stage = s
           /\ Advance(n) \in Step /\ Advance(n).node = n /\ Advance(n).op = "test"
BY StageNames DEF Do, Set, Advance, Step, Ops

LEMMA InRange ==
    ASSUME NEW S, NEW s \in Seq(S)
    PROVE  /\ \A x \in Range(s) : x \in S
           /\ \A k \in DOMAIN s : s[k] \in Range(s) /\ s[k] \in S
           /\ Range(<<>>) = {} /\ (s # <<>> => Head(s) \in Range(s))
<1>1. DOMAIN s = 1..Len(s) /\ Len(s) \in Nat
  BY LenProperties
<1>2. Range(<<>>) = {}
  BY DEF Range
<1>3. s # <<>> => Head(s) \in Range(s)
  BY TakeFirst
<1> QED
  BY <1>1, <1>2, <1>3 DEF Range

(* What is queued or parked. *)
LEMMA ItemsOf ==
    ASSUME NEW d, Sound(d)
    PROVE  /\ \A q \in Queues : /\ d.queue[q] \in Seq(Item)
                                /\ \A x \in Range(d.queue[q]) :
                                      x \in Item /\ x.node \in Node /\ Exists(d, x.node)
           /\ d.msg # Null => d.msg \in Item /\ d.msg.node \in Node /\ Exists(d, d.msg.node)
           /\ \A n \in Node : Exists(d, n) =>
                 /\ d.node[n] \in NodeRec /\ d.node[n].parked \in Seq(Item)
                 /\ \A x \in Range(d.node[n].parked) : x \in Item /\ x.node = n
<1>1. \A x \in Item : x.node \in Node
  BY DEF Item
<1>2. ASSUME NEW q \in Queues
      PROVE  /\ d.queue[q] \in Seq(Item)
             /\ \A x \in Range(d.queue[q]) : x \in Item /\ x.node \in Node /\ Exists(d, x.node)
  <2>1. d.queue[q] \in Seq(Item)
    BY DEF Sound, DriverRec
  <2>2. \A x \in Range(d.queue[q]) : x \in Item
    BY <2>1, InRange
  <2> QED
    BY <1>1, <2>1, <2>2 DEF Sound, OfNodesOnly
<1>3. d.msg # Null => d.msg \in Item /\ d.msg.node \in Node /\ Exists(d, d.msg.node)
  BY <1>1 DEF Sound, DriverRec, OfNodesOnly
<1>4. ASSUME NEW n \in Node, Exists(d, n)
      PROVE  /\ d.node[n] \in NodeRec /\ d.node[n].parked \in Seq(Item)
             /\ \A x \in Range(d.node[n].parked) : x \in Item /\ x.node = n
  <2>1. d.node[n] \in NodeRec
    BY <1>4 DEF Sound, DriverRec, Exists
  <2>2. d.node[n].parked \in Seq(Item)
    BY <2>1 DEF NodeRec
  <2>3. \A x \in Range(d.node[n].parked) : x \in Item
    BY <2>2, InRange
  <2> QED
    BY <1>4, <2>1, <2>2, <2>3 DEF Sound, OfNodesOnly
<1> QED
  BY <1>2, <1>3, <1>4

(* The driver after a change of one node, of one queue, of the rest. *)
PutNode(d, n, r) == [d EXCEPT !.node = [d.node EXCEPT ![n] = r]]
MayPutNode(d, n, r) ==
    Sound(d) /\ Exists(d, n) /\ r \in NodeRec /\ \A x \in Range(r.parked) : x.node = n
PutQueue(d, q, s) == [d EXCEPT !.queue = [d.queue EXCEPT ![q] = s]]
MayPutQueue(d, q, s) == Sound(d) /\ s \in Seq(Item) /\ \A x \in Range(s) : Exists(d, x.node)

NodePut(d, e, n, r) ==
    /\ Sound(e)
    /\ e.queue = d.queue /\ e.msg = d.msg /\ e.timers = d.timers
    /\ e.node[n] = r /\ \A m \in Node : m # n => e.node[m] = d.node[m]
    /\ \A m \in Node : Exists(e, m) <=> Exists(d, m)
QueuePut(d, e, q, s) ==
    /\ Sound(e)
    /\ e.node = d.node /\ e.msg = d.msg /\ e.timers = d.timers
    /\ e.queue[q] = s /\ \A p \in Queues : p # q => e.queue[p] = d.queue[p]

LEMMA NodeBecomes ==
    ASSUME NEW d, NEW n \in Node, NEW r, MayPutNode(d, n, r)
    PROVE  NodePut(d, PutNode(d, n, r), n, r)
<1> DEFINE e == PutNode(d, n, r)
<1> USE DEF MayPutNode
<1>1. /\ e \in DriverRec
      /\ e.queue = d.queue /\ e.msg = d.msg /\ e.timers = d.timers
      /\ e.node = [d.node EXCEPT ![n] = r] /\ d.node \in [Node -> NodeRec \cup {Null}]
  BY DEF Sound, DriverRec, PutNode
<1>2. e.node[n] = r /\ \A m \in Node : m # n => e.node[m] = d.node[m]
  BY <1>1
<1>3. r # Null
  BY QueryConstants
<1>4. \A m \in Node : Exists(e, m) <=> Exists(d, m)
  BY <1>2, <1>3 DEF Exists
<1>5. \A q \in Queues : \A x \in Range(d.queue[q]) : x.node \in Node
  BY ItemsOf
<1>6. /\ d.msg # Null => d.msg.node \in Node
      /\ d.timers \subseteq Node
  BY ItemsOf DEF Sound, DriverRec
<1>7. OfNodesOnly(e)
  BY <1>1, <1>2, <1>4, <1>5, <1>6 DEF Sound, OfNodesOnly
<1> QED
  BY <1>1, <1>2, <1>4, <1>7 DEF Sound, NodePut

LEMMA QueueBecomes ==
    ASSUME NEW d, NEW q \in Queues, NEW s, MayPutQueue(d, q, s)
    PROVE  QueuePut(d, PutQueue(d, q, s), q, s)
<1> DEFINE e == PutQueue(d, q, s)
<1> USE DEF MayPutQueue
<1>1. /\ e \in DriverRec
      /\ e.node = d.node /\ e.msg = d.msg /\ e.timers = d.timers
      /\ e.queue = [d.queue EXCEPT ![q] = s] /\ d.queue \in [Queues -> Seq(Item)]
  BY DEF Sound, DriverRec, PutQueue
<1>2. e.queue[q] = s /\ \A p \in Queues : p # q => e.queue[p] = d.queue[p]
  BY <1>1
<1>3. \A m : Exists(e, m) <=> Exists(d, m)
  BY <1>1 DEF Exists
<1>4. OfNodesOnly(e)
  BY <1>1, <1>2, <1>3 DEF Sound, OfNodesOnly
<1> QED
  BY <1>1, <1>2, <1>3, <1>4 DEF Sound, QueuePut

LEMMA RestBecomes ==
    ASSUME NEW d, Sound(d), NEW e \in DriverRec, e.node = d.node, e.queue = d.queue,
           e.msg # Null => Exists(d, e.msg.node), \A m \in e.timers : Exists(d, m)
    PROVE  Sound(e) /\ \A m : Exists(e, m) <=> Exists(d, m)
BY DEF Sound, OfNodesOnly, Exists

-----------------------------------------------------------------------------
(* The markers of a node, by their stages: all of them, and those that will *)
(* end their stage when they are reached. A marker that is parked is made   *)
(* anew when the node wakes up.                                             *)
Queued(d) == Range(d.queue["Query"])
Parked(d, n) == Range(d.node[n].parked)
IsMarker(x, n) == x.kind = "marker" /\ x.node = n
Marked(d, n) == {x.stage : x \in {y \in Queued(d) \cup Parked(d, n) : IsMarker(y, n)}}
Fresh(d, n) ==
    {x.stage : x \in {y \in Queued(d) : IsMarker(y, n) /\ ~y.retry}
                     \cup {y \in Parked(d, n) : IsMarker(y, n)}}

(* What most functions leave alone of a node. *)
NodeKept(d, e, n) ==
    /\ Exists(e, n) <=> Exists(d, n)
    /\ Exists(d, n) =>
          /\ e.node[n].stage = d.node[n].stage /\ e.node[n].alive = d.node[n].alive
          /\ e.node[n].pending = d.node[n].pending
          /\ Marked(d, n) \subseteq Marked(e, n) /\ Fresh(d, n) \subseteq Fresh(e, n)
Kept(d, e) == \A n \in Node : NodeKept(d, e, n)

LEMMA KeptTwice ==
    ASSUME NEW d, NEW e, NEW f, NEW n, NodeKept(d, e, n), NodeKept(e, f, n)
    PROVE  NodeKept(d, f, n)
BY DEF NodeKept

(* Markers stay when each has a successor that is as good. *)
Succeeds(e, n, x, y) ==
    /\ IsMarker(y, n) /\ y.stage = x.stage
    /\ y \in Parked(e, n) \/ (y \in Queued(e) /\ ~y.retry)

LEMMA MarkersStay ==
    ASSUME NEW d, NEW e, NEW n,
           \A x \in Queued(d) : IsMarker(x, n) => x \in Queued(e) \/ \E y : Succeeds(e, n, x, y),
           \A x \in Parked(d, n) : IsMarker(x, n) => \E y : Succeeds(e, n, x, y)
    PROVE  Marked(d, n) \subseteq Marked(e, n) /\ Fresh(d, n) \subseteq Fresh(e, n)
<1>1. ASSUME NEW x, NEW y, Succeeds(e, n, x, y)
      PROVE  x.stage \in Marked(e, n) /\ x.stage \in Fresh(e, n)
  BY <1>1 DEF Succeeds, Marked, Fresh
<1>2. ASSUME NEW x \in Queued(e), IsMarker(x, n)
      PROVE  x.stage \in Marked(e, n) /\ (~x.retry => x.stage \in Fresh(e, n))
  BY <1>2 DEF Marked, Fresh
<1>3. ASSUME NEW s \in Marked(d, n) PROVE s \in Marked(e, n)
  <2>1. PICK x \in Queued(d) \cup Parked(d, n) : IsMarker(x, n) /\ x.stage = s
    BY <1>3 DEF Marked
  <2> QED
    BY <1>1, <1>2, <2>1
<1>4. ASSUME NEW s \in Fresh(d, n) PROVE s \in Fresh(e, n)
  <2>1. CASE \E x \in Queued(d) : IsMarker(x, n) /\ ~x.retry /\ x.stage = s
    BY <1>1, <1>2, <2>1
  <2>2. CASE \E x \in Parked(d, n) : IsMarker(x, n) /\ x.stage = s
    BY <1>1, <2>2
  <2> QED
    BY <1>4, <2>1, <2>2 DEF Fresh
<1> QED
  BY <1>3, <1>4

LEMMA SublistOf ==
    ASSUME NEW S, NEW list \in Seq(S), NEW kept, kept \subseteq DOMAIN list, NEW G,
           \A k \in DOMAIN list : k \in kept <=> list[k] \in G
    PROVE  Sublist(list, kept) \in Seq(S) /\ Range(Sublist(list, kept)) = Range(list) \cap G
<1>1. /\ Sublist(list, kept) \in Seq(S)
      /\ Range(Sublist(list, kept)) = {list[k] : k \in kept}
  BY SublistRange
<1>2. {list[k] : k \in kept} = Range(list) \cap G
  BY DEF Range
<1> QED
  BY <1>1, <1>2

-----------------------------------------------------------------------------
(* The queues.                                                               *)
LEMMA QueueMsgKeeps ==
    ASSUME NEW d, Sound(d), NEW item \in Item, Exists(d, item.node),
           NEW e, e = QueueMsg(d, item)
    PROVE  /\ Sound(e) /\ Kept(d, e)
           /\ e.queue = d.queue /\ e.msg = d.msg
           /\ e.node[item.node] = [d.node[item.node] EXCEPT !.parked = e.node[item.node].parked]
           /\ \A m \in Node : m # item.node => e.node[m] = d.node[m]
           /\ Parked(e, item.node) = {x \in Parked(d, item.node) : ~Same(x, item)} \cup {item}
<1> DEFINE n == item.node
           p == d.node[n].parked
           kept == {k \in DOMAIN p : ~Same(p[k], item)}
           G == {x \in Item : ~Same(x, item)}
           left == Append(Sublist(p, kept), item)
           r == [d.node[n] EXCEPT !.parked = left]
<1>1. /\ n \in Node /\ d.node[n] \in NodeRec /\ p \in Seq(Item)
      /\ \A x \in Range(p) : x \in Item /\ x.node = n
  BY ItemsOf DEF Item
<1>2. e = PutNode(d, n, r)
  BY <1>1 DEF QueueMsg, PutNode, Sound, DriverRec
<1>3. \A k \in DOMAIN p : k \in kept <=> p[k] \in G
  BY <1>1, InRange
<1>4. kept \subseteq DOMAIN p
  OBVIOUS
<1> HIDE DEF kept, p, G
<1>5. Sublist(p, kept) \in Seq(Item) /\ Range(Sublist(p, kept)) = Range(p) \cap G
  BY <1>1, <1>3, <1>4, SublistOf
<1>6. left \in Seq(Item) /\ Range(left) = (Range(p) \cap G) \cup {item}
  BY <1>5, AppendOne
<1> HIDE DEF left
<1>7. r \in NodeRec /\ r.parked = left
  BY <1>1, <1>6 DEF NodeRec
<1>8. MayPutNode(d, n, r)
  BY <1>1, <1>6, <1>7 DEF MayPutNode
<1> HIDE DEF r
<1>9. /\ Sound(e)
      /\ e.queue = d.queue /\ e.msg = d.msg /\ e.timers = d.timers
      /\ e.node[n] = r /\ \A m \in Node : m # n => e.node[m] = d.node[m]
      /\ \A m \in Node : Exists(e, m) <=> Exists(d, m)
  BY <1>1, <1>2, <1>8, NodeBecomes DEF NodePut
<1>10. Parked(e, n) = {x \in Parked(d, n) : ~Same(x, item)} \cup {item}
  BY <1>1, <1>6, <1>7, <1>9 DEF Parked, p, G
<1>11. r = [d.node[n] EXCEPT !.parked = r.parked]
  BY <1>1, <1>7 DEF r
<1>12. ASSUME NEW m \in Node PROVE NodeKept(d, e, m)
  <2>1. ASSUME Exists(d, m)
        PROVE  /\ e.node[m].stage = d.node[m].stage /\ e.node[m].alive = d.node[m].alive
               /\ e.node[m].pending = d.node[m].pending
    <3>1. r.stage = d.node[n].stage /\ r.alive = d.node[n].alive /\ r.pending = d.node[n].pending
      BY <1>1 DEF r, NodeRec
    <3> QED
      BY <1>9, <3>1
  <2>2. ASSUME NEW x \in Parked(d, m), IsMarker(x, m) PROVE \E y : Succeeds(e, m, x, y)
    <3>1. CASE m = n
      BY <1>10, <2>2, <3>1 DEF IsMarker, Same, Succeeds
    <3>2. CASE m # n
      BY <1>9, <2>2, <3>2 DEF Parked, Succeeds
    <3> QED
      BY <3>1, <3>2
  <2>3. \A x \in Queued(d) : x \in Queued(e)
    BY <1>9 DEF Queued
  <2>4. Marked(d, m) \subseteq Marked(e, m) /\ Fresh(d, m) \subseteq Fresh(e, m)
    BY <2>2, <2>3, MarkersStay
  <2> QED
    BY <1>9, <2>1, <2>4 DEF NodeKept
<1> QED
  BY <1>9, <1>10, <1>11, <1>12 DEF Kept

(* Nothing is lost when a queue grows. *)
LEMMA QueueGrows ==
    ASSUME NEW d, NEW q \in Queues, NEW s, MayPutQueue(d, q, s),
           \A x \in Range(d.queue[q]) : x \in Range(s)
    PROVE  QueuePut(d, PutQueue(d, q, s), q, s) /\ Kept(d, PutQueue(d, q, s))
<1> DEFINE e == PutQueue(d, q, s)
<1>1. QueuePut(d, e, q, s)
  BY QueueBecomes
<1> HIDE DEF e
<1>2. \A m : Exists(e, m) <=> Exists(d, m)
  BY <1>1 DEF QueuePut, Exists
<1>3. \A x \in Queued(d) : x \in Queued(e)
  BY <1>1, QueueNames DEF QueuePut, Queued
<1>4. ASSUME NEW m \in Node PROVE NodeKept(d, e, m)
  <2>1. \A x \in Parked(d, m) : IsMarker(x, m) => \E y : Succeeds(e, m, x, y)
    BY <1>1 DEF QueuePut, Parked, Succeeds
  <2>2. Marked(d, m) \subseteq Marked(e, m) /\ Fresh(d, m) \subseteq Fresh(e, m)
    BY <1>3, <2>1, MarkersStay
  <2> QED
    BY <1>1, <1>2, <2>2 DEF NodeKept, QueuePut
<1> QED
  BY <1>1, <1>4 DEF Kept, e

(* A message or a marker is queued, or parked if the node sleeps. *)
Sent(d, e, q, item, n) ==
    /\ Sound(e) /\ Kept(d, e) /\ e.msg = d.msg
    /\ q = "Query" /\ item.kind = "marker" /\ ~item.retry => item.stage \in Fresh(e, n)
    /\ Asleep(d, n) =>
          /\ e.queue = d.queue
          /\ e.node[n] = [d.node[n] EXCEPT !.parked = e.node[n].parked]
          /\ \A m \in Node : m # n => e.node[m] = d.node[m]
          /\ Parked(e, n) = {x \in Parked(d, n) : ~Same(x, item)} \cup {item}
    /\ ~Asleep(d, n) =>
          /\ e.node = d.node /\ e.queue[q] = Append(d.queue[q], item)
          /\ \A p \in Queues : p # q => e.queue[p] = d.queue[p]

LEMMA SendMsgKeeps ==
    ASSUME NEW d, Sound(d), NEW q \in Queues, NEW item \in Item,
           NEW n \in Node, n = item.node, Exists(d, n)
    PROVE  Sent(d, SendMsg(d, q, item), q, item, n)
<1> DEFINE e == SendMsg(d, q, item)
<1>1. CASE Asleep(d, n)
  <2>1. e = QueueMsg(d, item)
    BY <1>1 DEF SendMsg
  <2>2. /\ Sound(e) /\ Kept(d, e)
        /\ e.queue = d.queue /\ e.msg = d.msg
        /\ e.node[n] = [d.node[n] EXCEPT !.parked = e.node[n].parked]
        /\ \A m \in Node : m # n => e.node[m] = d.node[m]
        /\ Parked(e, n) = {x \in Parked(d, n) : ~Same(x, item)} \cup {item}
    <3> HIDE DEF e
    <3> QED
      BY <2>1, QueueMsgKeeps
  <2>3. item.kind = "marker" => item.stage \in Fresh(e, n)
    BY <2>2 DEF Fresh, IsMarker
  <2> QED
    BY <1>1, <2>2, <2>3 DEF Sent
<1>2. CASE ~Asleep(d, n)
  <2> DEFINE s == Append(d.queue[q], item)
  <2>1. e = PutQueue(d, q, s)
    BY <1>2 DEF SendMsg, PutQueue
  <2>2. /\ d.queue[q] \in Seq(Item)
        /\ \A x \in Range(d.queue[q]) : Exists(d, x.node)
    BY ItemsOf
  <2>3. s \in Seq(Item) /\ Range(s) = Range(d.queue[q]) \cup {item}
    BY <2>2, AppendOne
  <2> HIDE DEF s
  <2>4. MayPutQueue(d, q, s)
    BY <2>2, <2>3 DEF MayPutQueue
  <2>5. QueuePut(d, e, q, s) /\ Kept(d, e)
    <3>1. \A x \in Range(d.queue[q]) : x \in Range(s)
      BY <2>3
    <3> QED
      BY <2>1, <2>4, <3>1, QueueGrows
  <2>6. q = "Query" /\ item.kind = "marker" /\ ~item.retry => item.stage \in Fresh(e, n)
    BY <2>3, <2>5 DEF QueuePut, Fresh, IsMarker, Queued
  <2> QED
    BY <1>2, <2>5, <2>6 DEF QueuePut, s, Sent
<1> QED
  BY <1>1, <1>2

(* Kept looks at the nodes and the queries only. *)
LEMMA SameKept ==
    ASSUME NEW d, NEW e, e.node = d.node, e.queue = d.queue
    PROVE  Kept(d, e)
BY DEF Kept, NodeKept, Exists, Marked, Fresh, Queued, Parked

LEMMA CheckKeeps ==
    ASSUME NEW d, Sound(d), NEW e, e = CheckCompletedNodeQueries(d)
    PROVE  /\ Sound(e) /\ Kept(d, e)
           /\ e.node = d.node /\ e.queue = d.queue /\ e.msg = d.msg /\ e.timers = d.timers
<1>1. /\ e \in DriverRec
      /\ e.node = d.node /\ e.queue = d.queue /\ e.msg = d.msg /\ e.timers = d.timers
  <2>1. d \in DriverRec
    BY DEF Sound
  <2>2. \/ e = d
        \/ e = [d EXCEPT !.allQueried = TRUE, !.awakeQueried = TRUE]
        \/ e = [d EXCEPT !.awakeQueried = TRUE]
    BY DEF CheckCompletedNodeQueries
  <2> QED
    BY <2>1, <2>2 DEF DriverRec
<1>2. Sound(e)
  BY <1>1, RestBecomes DEF Sound, OfNodesOnly
<1> QED
  BY <1>1, <1>2, SameKept

(* What RemoveQueues leaves. *)
NotOf(list, n) == Sublist(list, {k \in DOMAIN list : list[k].node # n})
QueuesRemoved(d, e, n) ==
    /\ Sound(e) /\ e.node = d.node /\ e.timers = d.timers
    /\ e.msg # Null => e.msg = d.msg /\ e.msg.node # n
    /\ \A q \in Queues : /\ e.queue[q] = NotOf(d.queue[q], n)
                        /\ Range(e.queue[q]) = {x \in Range(d.queue[q]) : x.node # n}
    /\ \A m \in Node : m # n => NodeKept(d, e, m)

LEMMA RemoveQueuesKeeps ==
    ASSUME NEW d, Sound(d), NEW n \in Node
    PROVE  QueuesRemoved(d, RemoveQueues(d, n), n)
<1> DEFINE e == RemoveQueues(d, n)
           left(q) == NotOf(d.queue[q], n)
<1>1. /\ e.node = d.node /\ e.timers = d.timers
      /\ e.queue = [q \in Queues |-> left(q)]
      /\ e.msg = IF d.msg # Null /\ d.msg.node = n THEN Null ELSE d.msg
      /\ d \in DriverRec
  BY DEF RemoveQueues, NotOf, Sound, DriverRec
<1>2. ASSUME NEW q \in Queues
      PROVE  left(q) \in Seq(Item) /\ Range(left(q)) = {x \in Range(d.queue[q]) : x.node # n}
  <2> DEFINE list == d.queue[q]
             kept == {k \in DOMAIN list : list[k].node # n}
             G == {x \in Item : x.node # n}
  <2>1. list \in Seq(Item) /\ \A x \in Range(list) : x \in Item
    BY ItemsOf
  <2>2. \A k \in DOMAIN list : k \in kept <=> list[k] \in G
    BY <2>1, InRange
  <2>3. kept \subseteq DOMAIN list
    OBVIOUS
  <2>4. left(q) = Sublist(list, kept)
    BY DEF NotOf
  <2> HIDE DEF kept, list, left, G
  <2>5. Sublist(list, kept) \in Seq(Item) /\ Range(Sublist(list, kept)) = Range(list) \cap G
    BY <2>1, <2>2, <2>3, SublistOf
  <2> QED
    BY <2>1, <2>4, <2>5 DEF list, G
<1> HIDE DEF left
<1>3. /\ e \in DriverRec
      /\ \A q \in Queues : e.queue[q] = left(q)
  <2>1. [q \in Queues |-> left(q)] \in [Queues -> Seq(Item)]
    BY <1>2
  <2>2. e.msg \in Item \cup {Null}
    BY <1>1 DEF DriverRec
  <2>3. e = [[d EXCEPT !.queue = e.queue] EXCEPT !.msg = e.msg]
    BY <1>1 DEF RemoveQueues, NotOf, DriverRec
  <2>4. e \in DriverRec
    BY <1>1, <2>1, <2>2, <2>3 DEF DriverRec
  <2>5. \A q \in Queues : e.queue[q] = left(q)
    BY <1>1
  <2> QED
    BY <2>4, <2>5
<1>4. \A m : Exists(e, m) <=> Exists(d, m)
  BY <1>1 DEF Exists
<1>5. Sound(e)
  <2>1. \A q \in Queues : \A x \in Range(e.queue[q]) : Exists(e, x.node)
    BY <1>2, <1>3, <1>4, ItemsOf
  <2> QED
    BY <1>1, <1>3, <1>4, <2>1 DEF Sound, OfNodesOnly
<1>6. e.msg # Null => e.msg = d.msg /\ e.msg.node # n
  BY <1>1
<1>7. ASSUME NEW m \in Node, m # n PROVE NodeKept(d, e, m)
  <2>1. \A x \in Queued(d) : IsMarker(x, m) => x \in Queued(e) \/ \E y : Succeeds(e, m, x, y)
    BY <1>2, <1>3, <1>7, QueueNames DEF Queued, IsMarker
  <2>2. \A x \in Parked(d, m) : IsMarker(x, m) => \E y : Succeeds(e, m, x, y)
    BY <1>1 DEF Parked, Succeeds
  <2>3. Marked(d, m) \subseteq Marked(e, m) /\ Fresh(d, m) \subseteq Fresh(e, m)
    BY <2>1, <2>2, MarkersStay
  <2> QED
    BY <1>1, <1>4, <2>3 DEF NodeKept
<1> QED
  BY <1>1, <1>2, <1>3, <1>5, <1>6, <1>7 DEF left, QueuesRemoved

LEMMA DeleteKeeps ==
    ASSUME NEW d, Sound(d), NEW n \in Node, NEW e, e = DeleteNode(d, n)
    PROVE  /\ Sound(e) /\ ~Exists(e, n)
           /\ \A q \in Queues :
                 /\ e.queue[q] = NotOf(d.queue[q], n)
                 /\ Range(e.queue[q]) = {x \in Range(d.queue[q]) : x.node # n}
           /\ \A m \in Node : m # n => e.node[m] = d.node[m] /\ NodeKept(d, e, m)
<1> DEFINE f == RemoveQueues(d, n)
           nodes == [f.node EXCEPT ![n] = Null]
           due == f.timers \ {n}
<1>0. f = RemoveQueues(d, n) /\ e = [[f EXCEPT !.node = nodes] EXCEPT !.timers = due]
  BY DEF DeleteNode
<1> HIDE DEF f
<1>1. /\ Sound(f) /\ f.node = d.node /\ f.timers = d.timers
      /\ f.msg # Null => f.msg.node # n
      /\ \A q \in Queues :
            /\ f.queue[q] = NotOf(d.queue[q], n)
            /\ Range(f.queue[q]) = {x \in Range(d.queue[q]) : x.node # n}
      /\ \A m \in Node : m # n => NodeKept(d, f, m)
  BY <1>0, RemoveQueuesKeeps DEF QueuesRemoved
<1>2. /\ f \in DriverRec /\ f.node \in [Node -> NodeRec \cup {Null}] /\ f.timers \subseteq Node
      /\ nodes \in [Node -> NodeRec \cup {Null}] /\ due \in SUBSET Node
  BY <1>1 DEF Sound, DriverRec
<1>3. /\ e \in DriverRec
      /\ e.node = [f.node EXCEPT ![n] = Null] /\ e.timers = f.timers \ {n}
      /\ e.queue = f.queue /\ e.msg = f.msg
  <2> HIDE DEF nodes, due
  <2>1. /\ e \in DriverRec
        /\ e.node = nodes /\ e.timers = due /\ e.queue = f.queue /\ e.msg = f.msg
    BY <1>0, <1>2 DEF DriverRec
  <2> QED
    BY <2>1 DEF nodes, due
<1>4. /\ ~Exists(e, n)
      /\ \A m \in Node : m # n => e.node[m] = f.node[m] /\ (Exists(e, m) <=> Exists(f, m))
  BY <1>2, <1>3 DEF Exists
<1>5. OfNodesOnly(e)
  <2>1. \A q \in Queues : \A x \in Range(e.queue[q]) : Exists(e, x.node)
    <3>1. \A q \in Queues : \A x \in Range(f.queue[q]) :
             x.node \in Node /\ Exists(f, x.node) /\ x.node # n
      BY <1>1, ItemsOf
    <3> QED
      BY <1>3, <1>4, <3>1
  <2>2. e.msg # Null => Exists(e, e.msg.node)
    BY <1>1, <1>3, <1>4, ItemsOf
  <2>3. \A m \in e.timers : Exists(e, m)
    BY <1>1, <1>2, <1>3, <1>4 DEF Sound, OfNodesOnly
  <2>4. \A m \in Node : Exists(e, m) => \A x \in Range(e.node[m].parked) : x.node = m
    BY <1>1, <1>4 DEF Sound, OfNodesOnly
  <2> QED
    BY <2>1, <2>2, <2>3, <2>4 DEF OfNodesOnly
<1>6. ASSUME NEW m \in Node, m # n PROVE NodeKept(d, e, m)
  <2>1. Queued(e) = Queued(f) /\ e.node[m] = f.node[m]
    BY <1>3, <1>4, <1>6 DEF Queued
  <2>2. NodeKept(f, e, m)
    BY <1>4, <1>6, <2>1 DEF NodeKept, Marked, Fresh, Parked
  <2> QED
    BY <1>1, <1>6, <2>2, KeptTwice
<1> QED
  BY <1>1, <1>3, <1>4, <1>5, <1>6 DEF Sound

(* What SendPending makes of the parked markers. *)
LEMMA RemadeFacts ==
    ASSUME NEW n \in Node, NEW list \in Seq(Item)
    PROVE  /\ Remade(n, list) \in Seq(Item)
           /\ \A x \in Range(Remade(n, list)) :
                 IsMarker(x, n) /\ ~x.retry /\ \E y \in Range(list) : y.stage = x.stage
           /\ \A y \in Range(list) :
                 \E x \in Range(Remade(n, list)) : IsMarker(x, n) /\ ~x.retry /\ x.stage = y.stage
<1>1. Len(list) \in Nat /\ DOMAIN list = 1..Len(list)
  BY LenProperties
<1>2. ASSUME NEW k \in DOMAIN list
      PROVE  /\ Marker(n, list[k].stage) \in Item /\ Marker(n, list[k].stage).stage = list[k].stage
             /\ IsMarker(Marker(n, list[k].stage), n) /\ ~Marker(n, list[k].stage).retry
             /\ list[k] \in Range(list)
  <2>1. list[k] \in Item /\ list[k] \in Range(list)
    BY InRange
  <2>2. list[k].stage \in Stage
    BY <2>1 DEF Item
  <2> QED
    BY <2>1, <2>2, ItemTypes DEF IsMarker
<1>3. Remade(n, list) \in [1..Len(list) -> Item]
  BY <1>1, <1>2 DEF Remade
<1>4. Remade(n, list) \in Seq(Item) /\ DOMAIN Remade(n, list) = DOMAIN list
  BY <1>1, <1>3, SeqDef
<1>5. \A k \in DOMAIN list : Remade(n, list)[k] = Marker(n, list[k].stage)
  BY DEF Remade
<1> HIDE DEF Remade
<1> QED
  BY <1>2, <1>4, <1>5 DEF Range

Released(d, e, n) ==
    /\ Sound(e) /\ Kept(d, e) /\ e.msg = d.msg
    /\ e.node[n] = [d.node[n] EXCEPT !.awake = TRUE, !.parked = <<>>]
    /\ \A m \in Node : m # n => e.node[m] = d.node[m]
    /\ \E list \in Seq(Item) : /\ e.queue["Query"] = d.queue["Query"] \o list
                               /\ \A x \in Range(list) : IsMarker(x, n)

LEMMA SendPendingKeeps ==
    ASSUME NEW d, Sound(d), NEW n \in Node, Exists(d, n)
    PROVE  Released(d, SendPending(d, n), n)
<1> DEFINE e == SendPending(d, n)
           p == d.node[n].parked
           ofKind(kinds) == OfKind(p, kinds)
           others == ofKind({"request", "sleep"})
           markers == ofKind({"marker"})
           w == d.queue["WakeUp"] \o others
           again == Remade(n, markers)
           q == d.queue["Query"] \o again
           d1 == PutQueue(d, "WakeUp", w)
           d2 == PutQueue(d1, "Query", q)
           r == [d.node[n] EXCEPT !.awake = TRUE, !.parked = <<>>]
           d3 == PutNode(d2, n, r)
           due == IF d.node[n].stage = Complete THEN d.timers \cup {n} ELSE d.timers
<1>1. /\ d.node[n] \in NodeRec /\ p \in Seq(Item)
      /\ \A x \in Range(p) : x \in Item /\ x.node = n
      /\ \A k \in Queues : d.queue[k] \in Seq(Item)
                           /\ \A x \in Range(d.queue[k]) : Exists(d, x.node)
  BY ItemsOf
<1>2. e = [d3 EXCEPT !.timers = due]
  <2> DEFINE nodes == [d.node EXCEPT ![n] = r]
             queues == [[d.queue EXCEPT !["WakeUp"] = w] EXCEPT !["Query"] = q]
  <2>1. d.queue["Query"] = [d.queue EXCEPT !["WakeUp"] = w]["Query"]
    BY QueueNames DEF Sound, DriverRec
  <2> HIDE DEF others, again
  <2>2. e = [[[[d EXCEPT !.node = nodes] EXCEPT !.queue = [@ EXCEPT !["WakeUp"] = w]]
              EXCEPT !.queue = [@ EXCEPT !["Query"] = q]] EXCEPT !.timers = due]
    BY DEF SendPending, others, again
  <2> HIDE DEF w, q, r, due, nodes
  <2>3. e = [[[d EXCEPT !.node = nodes] EXCEPT !.queue = queues] EXCEPT !.timers = due]
    BY <2>2 DEF Sound, DriverRec
  <2> HIDE DEF queues
  <2>4. [d3 EXCEPT !.timers = due]
        = [[[d EXCEPT !.node = nodes] EXCEPT !.queue = queues] EXCEPT !.timers = due]
    BY DEF PutNode, PutQueue, Sound, DriverRec, nodes, queues
  <2> QED
    BY <2>3, <2>4
<1> HIDE DEF e
<1>3. ASSUME NEW kinds
      PROVE  ofKind(kinds) \in Seq(Item) /\ Range(ofKind(kinds)) = {x \in Range(p) : x.kind \in kinds}
  <2> DEFINE kept == {k \in DOMAIN p : p[k].kind \in kinds}
             G == {x \in Item : x.kind \in kinds}
  <2>1. \A k \in DOMAIN p : k \in kept <=> p[k] \in G
    BY <1>1, InRange
  <2>2. kept \subseteq DOMAIN p /\ ofKind(kinds) = Sublist(p, kept)
    BY DEF OfKind
  <2> HIDE DEF kept, p, ofKind, G
  <2>3. Sublist(p, kept) \in Seq(Item) /\ Range(Sublist(p, kept)) = Range(p) \cap G
    BY <1>1, <2>1, <2>2, SublistOf
  <2> QED
    BY <1>1, <2>2, <2>3 DEF G
<1>4. /\ others \in Seq(Item) /\ markers \in Seq(Item)
      /\ Range(others) = {x \in Range(p) : x.kind \in {"request", "sleep"}}
      /\ Range(markers) = {x \in Range(p) : x.kind \in {"marker"}}
  BY <1>3
<1> HIDE DEF others, markers, ofKind
<1>5. /\ again \in Seq(Item)
      /\ \A x \in Range(again) : IsMarker(x, n) /\ ~x.retry
      /\ \A y \in Range(markers) : \E x \in Range(again) :
            IsMarker(x, n) /\ ~x.retry /\ x.stage = y.stage
  BY <1>4, RemadeFacts
<1> HIDE DEF again
<1>6. /\ w \in Seq(Item) /\ Range(w) = Range(d.queue["WakeUp"]) \cup Range(others)
      /\ q \in Seq(Item) /\ Range(q) = Range(d.queue["Query"]) \cup Range(again)
  BY <1>1, <1>4, <1>5, JoinTwo, QueueNames
<1> HIDE DEF w, q
<1>7. QueuePut(d, d1, "WakeUp", w)
  <2>1. MayPutQueue(d, "WakeUp", w)
    BY <1>1, <1>4, <1>6, QueueNames DEF MayPutQueue
  <2> QED
    BY <2>1, QueueBecomes, QueueNames
<1> HIDE DEF d1
<1>8. QueuePut(d1, d2, "Query", q)
  <2>1. MayPutQueue(d1, "Query", q)
    BY <1>1, <1>5, <1>6, <1>7, QueueNames DEF MayPutQueue, QueuePut, Exists, IsMarker
  <2> QED
    BY <2>1, QueueBecomes, QueueNames
<1> HIDE DEF d2
<1>9. NodePut(d2, d3, n, r)
  <2>1. r \in NodeRec /\ r.parked = <<>>
    <3>1. <<>> \in Seq(Item)
      OBVIOUS
    <3> QED
      BY <1>1, <3>1 DEF NodeRec
  <2>2. Range(<<>>) = {}
    BY DEF Range
  <2>3. MayPutNode(d2, n, r)
    BY <1>7, <1>8, <2>1, <2>2 DEF MayPutNode, QueuePut, Exists
  <2> HIDE DEF r
  <2> QED
    BY <2>3, NodeBecomes
<1> HIDE DEF d3
<1>10. /\ Sound(d3) /\ d3.msg = d.msg /\ d3.timers = d.timers /\ d3.queue = d2.queue
       /\ d3.node[n] = r /\ \A m \in Node : m # n => d3.node[m] = d.node[m]
       /\ \A m \in Node : Exists(d3, m) <=> Exists(d, m)
       /\ d2.queue["Query"] = q
  BY <1>7, <1>8, <1>9 DEF QueuePut, NodePut, Exists
<1>11. /\ e \in DriverRec /\ e.node = d3.node /\ e.queue = d3.queue /\ e.msg = d3.msg
       /\ e.timers = due
  <2>1. due \subseteq Node
    BY DEF Sound, DriverRec
  <2> HIDE DEF due
  <2> QED
    BY <1>2, <1>10, <2>1 DEF Sound, DriverRec
<1>12. Sound(e)
  <2>1. \A m \in e.timers : Exists(d3, m)
    BY <1>10, <1>11 DEF Sound, OfNodesOnly, DriverRec
  <2>2. e.msg # Null => Exists(d3, e.msg.node)
    BY <1>10, <1>11 DEF Sound, OfNodesOnly
  <2> QED
    BY <1>10, <1>11, <2>1, <2>2, RestBecomes
<1>13. ASSUME NEW m \in Node PROVE NodeKept(d, e, m)
  <2>1. Queued(e) = Range(q)
    BY <1>10, <1>11 DEF Queued
  <2>2. \A x \in Queued(d) : IsMarker(x, m) => x \in Queued(e) \/ \E y : Succeeds(e, m, x, y)
    BY <1>6, <2>1 DEF Queued
  <2>3. ASSUME NEW x \in Parked(d, m), IsMarker(x, m) PROVE \E y : Succeeds(e, m, x, y)
    <3>1. CASE m = n
      <4>1. x \in Range(markers)
        BY <1>4, <2>3, <3>1 DEF Parked, IsMarker
      <4>2. PICK y \in Range(again) : IsMarker(y, n) /\ ~y.retry /\ y.stage = x.stage
        BY <1>5, <4>1
      <4>3. Succeeds(e, m, x, y)
        BY <1>6, <2>1, <3>1, <4>2 DEF Succeeds
      <4> QED
        BY <4>3
    <3>2. CASE m # n
      BY <1>10, <1>11, <2>3, <3>2 DEF Parked, Succeeds
    <3> QED
      BY <3>1, <3>2
  <2>4. Marked(d, m) \subseteq Marked(e, m) /\ Fresh(d, m) \subseteq Fresh(e, m)
    BY <2>2, <2>3, MarkersStay
  <2>5. Exists(e, m) <=> Exists(d, m)
    BY <1>10, <1>11 DEF Exists
  <2>6. /\ r.stage = d.node[n].stage /\ r.alive = d.node[n].alive
        /\ r.pending = d.node[n].pending
    BY <1>1 DEF NodeRec
  <2> QED
    BY <1>10, <1>11, <2>4, <2>5, <2>6 DEF NodeKept
<1>14. /\ e.queue["Query"] = d.queue["Query"] \o again
       /\ again \in Seq(Item) /\ \A x \in Range(again) : IsMarker(x, n)
  BY <1>5, <1>10, <1>11 DEF q
<1> HIDE DEF r
<1>15. e.node[n] = r /\ e.msg = d.msg /\ \A m \in Node : m # n => e.node[m] = d.node[m]
  BY <1>10, <1>11
<1> QED
  BY <1>12, <1>13, <1>14, <1>15 DEF Kept, r, e, Released

-----------------------------------------------------------------------------
(* What is parked again when the node goes back to sleep.                    *)
LEMMA LastOfEachKeeps ==
    ASSUME NEW list \in Seq(Item)
    PROVE  /\ LastOfEach(list) \in Seq(Item)
           /\ \A x \in Range(LastOfEach(list)) : x \in Range(list)
           /\ \A x \in Range(list) : \E y \in Range(LastOfEach(list)) : Same(x, y)
<1> DEFINE later(k) == {l \in DOMAIN list : l > k /\ Same(list[k], list[l])}
           kept == {k \in DOMAIN list : ~\E l \in DOMAIN list : l > k /\ Same(list[k], list[l])}
<1>1. Len(list) \in Nat /\ DOMAIN list = 1..Len(list)
  BY LenProperties
<1>2. kept \subseteq DOMAIN list /\ LastOfEach(list) = Sublist(list, kept)
  BY DEF LastOfEach
<1>3. /\ Sublist(list, kept) \in Seq(Item)
      /\ Range(Sublist(list, kept)) = {list[k] : k \in kept}
  <2> HIDE DEF kept
  <2> QED
    BY <1>2, SublistRange
<1>4. ASSUME NEW k \in DOMAIN list PROVE \E l \in kept : Same(list[k], list[l])
  <2> DEFINE T == {Len(list) - l : l \in {j \in DOMAIN list : Same(list[k], list[j])}}
  <2>1. T \subseteq Nat
    BY <1>1
  <2>2. Len(list) - k \in T
    BY DEF Same
  <2>3. PICK m \in T : \A i \in T : m <= i
    <3> HIDE DEF T
    <3> QED
      BY <2>1, <2>2, SmallestExists
  <2>4. PICK l \in DOMAIN list : Same(list[k], list[l]) /\ m = Len(list) - l
    BY <2>3
  <2>5. ASSUME NEW j \in DOMAIN list, j > l, Same(list[l], list[j]) PROVE FALSE
    <3>1. Same(list[k], list[j])
      BY <2>4, <2>5 DEF Same
    <3>2. Len(list) - j \in T
      BY <3>1
    <3>3. m <= Len(list) - j
      BY <2>3, <3>2
    <3> QED
      BY <1>1, <2>4, <2>5, <3>3
  <2> QED
    BY <2>4, <2>5
<1>5. \A k \in kept : list[k] \in Range(list)
  BY DEF Range
<1>6. ASSUME NEW x \in Range(list) PROVE \E l \in kept : Same(x, list[l])
  BY <1>4 DEF Range
<1> HIDE DEF kept
<1> QED
  BY <1>2, <1>3, <1>5, <1>6

(* All that is queued for a node, in the order of the queues. *)
All(d) == (IF d.msg # Null THEN <<d.msg>> ELSE <<>>) \o d.queue["Command"]
             \o d.queue["NoOp"] \o d.queue["WakeUp"] \o d.queue["Send"] \o d.queue["Query"]
Saved(d, n) == Sublist(All(d), {k \in DOMAIN All(d) : All(d)[k].node = n /\ ToBeSaved(All(d)[k])})

LEMMA AllFacts ==
    ASSUME NEW d, Sound(d)
    PROVE  All(d) \in Seq(Item) /\ \A x \in Queued(d) : x \in Range(All(d))
<1> DEFINE first == IF d.msg # Null THEN <<d.msg>> ELSE <<>>
           a == first \o d.queue["Command"]
           b == a \o d.queue["NoOp"]
           c == b \o d.queue["WakeUp"]
           f == c \o d.queue["Send"]
           g == f \o d.queue["Query"]
<1>1. \A q \in Queues : d.queue[q] \in Seq(Item)
  BY ItemsOf
<1>2. first \in Seq(Item)
  BY ItemsOf
<1>3. All(d) = g
  BY DEF All
<1> HIDE DEF first
<1>4. a \in Seq(Item)
  BY <1>1, <1>2, QueueNames, JoinTwo
<1> HIDE DEF a
<1>5. b \in Seq(Item)
  BY <1>1, <1>4, QueueNames, JoinTwo
<1> HIDE DEF b
<1>6. c \in Seq(Item)
  BY <1>1, <1>5, QueueNames, JoinTwo
<1> HIDE DEF c
<1>7. f \in Seq(Item)
  BY <1>1, <1>6, QueueNames, JoinTwo
<1> HIDE DEF f
<1>8. g \in Seq(Item) /\ Range(g) = Range(f) \cup Range(d.queue["Query"])
  BY <1>1, <1>7, QueueNames, JoinTwo
<1> HIDE DEF g
<1> QED
  BY <1>3, <1>8 DEF Queued

LEMMA SavedFacts ==
    ASSUME NEW d, Sound(d), NEW n \in Node
    PROVE  /\ Saved(d, n) \in Seq(Item)
           /\ \A x \in Range(Saved(d, n)) : x.node = n
           /\ \A x \in Queued(d) : IsMarker(x, n) => x \in Range(Saved(d, n))
<1> DEFINE list == All(d)
           kept == {k \in DOMAIN list : list[k].node = n /\ ToBeSaved(list[k])}
           G == {x \in Item : x.node = n /\ ToBeSaved(x)}
<1>1. list \in Seq(Item) /\ \A x \in Queued(d) : x \in Range(list)
  BY AllFacts
<1>2. Saved(d, n) = Sublist(list, kept)
  BY DEF Saved
<1> HIDE DEF list
<1>3. \A k \in DOMAIN list : k \in kept <=> list[k] \in G
  BY <1>1, InRange
<1>4. kept \subseteq DOMAIN list
  OBVIOUS
<1> HIDE DEF kept, G
<1>5. Sublist(list, kept) \in Seq(Item) /\ Range(Sublist(list, kept)) = Range(list) \cap G
  BY <1>1, <1>3, <1>4, SublistOf
<1>6. \A x \in Queued(d) : IsMarker(x, n) => x \in Range(list) \cap G
  <2>1. \A x \in Range(list) : x \in Item
    BY <1>1, InRange
  <2> QED
    BY <1>1, <2>1 DEF G, IsMarker, ToBeSaved, IsPing
<1>7. \A x \in G : x.node = n
  BY DEF G
<1> QED
  BY <1>2, <1>5, <1>6, <1>7

Moved(d, e, n) ==
    /\ Sound(e) /\ Kept(d, e)
    /\ e.node[n] \in NodeRec
    /\ e.node[n] = [d.node[n] EXCEPT !.awake = FALSE, !.parked = e.node[n].parked]
    /\ \A m \in Node : m # n => e.node[m] = d.node[m]
    /\ \A q \in Queues : e.queue[q] = NotOf(d.queue[q], n)
    /\ Range(e.queue["Query"]) = {x \in Range(d.queue["Query"]) : x.node # n}

LEMMA MoveKeeps ==
    ASSUME NEW d, Sound(d), NEW n \in Node, Exists(d, n)
    PROVE  Moved(d, MoveMessagesToWakeUpQueue(d, n), n)
<1> DEFINE e == MoveMessagesToWakeUpQueue(d, n)
           f == RemoveQueues(d, n)
           list == d.node[n].parked \o Saved(d, n)
           last == LastOfEach(list)
           r == [d.node[n] EXCEPT !.awake = FALSE, !.parked = last]
<1>1. f.node = d.node
  BY DEF RemoveQueues, Sound, DriverRec
<1>2. QueuesRemoved(d, f, n)
  BY RemoveQueuesKeeps
<1>3. e = PutNode(f, n, r)
  <2>1. e = [f EXCEPT !.node = [f.node EXCEPT ![n] = r]]
    BY DEF MoveMessagesToWakeUpQueue, Saved, All
  <2> QED
    BY <2>1 DEF PutNode
<1>4. /\ d.node[n] \in NodeRec /\ d.node[n].parked \in Seq(Item)
      /\ \A x \in Range(d.node[n].parked) : x \in Item /\ x.node = n
  BY ItemsOf
<1>5. /\ Saved(d, n) \in Seq(Item) /\ \A x \in Range(Saved(d, n)) : x.node = n
      /\ \A x \in Queued(d) : IsMarker(x, n) => x \in Range(Saved(d, n))
  BY SavedFacts
<1>6. list \in Seq(Item) /\ Range(list) = Range(d.node[n].parked) \cup Range(Saved(d, n))
  BY <1>4, <1>5, JoinTwo
<1> HIDE DEF list, f
<1>7. /\ last \in Seq(Item)
      /\ \A x \in Range(last) : x \in Range(list)
      /\ \A x \in Range(list) : \E y \in Range(last) : Same(x, y)
  BY <1>6, LastOfEachKeeps
<1> HIDE DEF last
<1>8. r \in NodeRec /\ r.parked = last
  BY <1>4, <1>7 DEF NodeRec
<1>9. r.stage = d.node[n].stage /\ r.alive = d.node[n].alive /\ r.pending = d.node[n].pending
  BY <1>4 DEF NodeRec
<1>10. r = [d.node[n] EXCEPT !.awake = FALSE, !.parked = r.parked]
  BY <1>8
<1> HIDE DEF r
<1>11. MayPutNode(f, n, r)
  BY <1>1, <1>2, <1>4, <1>5, <1>6, <1>7, <1>8 DEF MayPutNode, QueuesRemoved, Exists
<1>12. NodePut(f, e, n, r)
  BY <1>3, <1>11, NodeBecomes
<1> HIDE DEF e
<1>13. /\ Sound(e) /\ e.queue = f.queue /\ e.node[n] = r
       /\ \A m \in Node : m # n => e.node[m] = d.node[m]
       /\ \A m \in Node : Exists(e, m) <=> Exists(d, m)
  BY <1>1, <1>12 DEF NodePut, Exists
<1>14. /\ \A q \in Queues : e.queue[q] = NotOf(d.queue[q], n)
       /\ Range(e.queue["Query"]) = {x \in Range(d.queue["Query"]) : x.node # n}
  BY <1>2, <1>13, QueueNames DEF QueuesRemoved
<1>15. ASSUME NEW m \in Node PROVE NodeKept(d, e, m)
  <2>1. ASSUME NEW x \in Queued(d) \cup Parked(d, m), IsMarker(x, m)
        PROVE  (x \in Queued(e) /\ m # n) \/ \E y : Succeeds(e, m, x, y)
    <3>1. CASE m = n
      <4>1. x \in Range(list)
        BY <1>5, <1>6, <2>1, <3>1 DEF Parked
      <4>2. PICK y \in Range(last) : Same(x, y)
        BY <1>7, <4>1
      <4>3. Succeeds(e, m, x, y)
        BY <1>8, <1>13, <2>1, <3>1, <4>2 DEF Succeeds, Same, IsMarker, Parked
      <4> QED
        BY <4>3
    <3>2. CASE m # n /\ x \in Queued(d)
      BY <1>14, <2>1, <3>2 DEF Queued, IsMarker
    <3>3. CASE m # n /\ x \in Parked(d, m)
      BY <1>13, <2>1, <3>3 DEF Parked, Succeeds
    <3> QED
      BY <2>1, <3>1, <3>2, <3>3
  <2>2. \A x \in Parked(d, m) : IsMarker(x, m) => \E y : Succeeds(e, m, x, y)
    <3>1. ASSUME NEW x \in Parked(d, m), m # n, IsMarker(x, m) PROVE Succeeds(e, m, x, x)
      BY <1>13, <3>1 DEF Parked, Succeeds
    <3> QED
      BY <2>1, <3>1
  <2>3. \A x \in Queued(d) : IsMarker(x, m) => x \in Queued(e) \/ \E y : Succeeds(e, m, x, y)
    BY <2>1
  <2>4. Marked(d, m) \subseteq Marked(e, m) /\ Fresh(d, m) \subseteq Fresh(e, m)
    BY <2>2, <2>3, MarkersStay
  <2> QED
    BY <1>9, <1>13, <2>4 DEF NodeKept
<1> QED
  BY <1>8, <1>10, <1>13, <1>14, <1>15 DEF Kept, Moved, e

-----------------------------------------------------------------------------
(* The stages.                                                               *)
SameButRetry(s, t, n) ==
    /\ DOMAIN t = DOMAIN s
    /\ \A k \in DOMAIN s : Same(s[k], t[k]) /\ (s[k].node # n => t[k] = s[k])

LEMMA SmallestChosen ==
    ASSUME NEW T, T \subseteq Nat, T # {}
    PROVE  Min(T) \in T /\ \A k \in T : Min(T) <= k
<1>1. \E m \in T : \A k \in T : m <= k
  BY SmallestExists
<1> QED
  BY <1>1 DEF Min

LEMMA RetryMarker ==
    ASSUME NEW d, Sound(d), NEW n \in Node, NEW s \in Stage,
           NEW e, e = RetryQueryStageComplete(d, n, s)
    PROVE  /\ Sound(e) /\ e.node = d.node /\ e.msg = d.msg
           /\ SameButRetry(d.queue["Query"], e.queue["Query"], n)
           /\ \A m \in Node : Marked(d, m) \subseteq Marked(e, m)
           /\ \A m \in Node : m # n => NodeKept(d, e, m)
<1> DEFINE q == d.queue["Query"]
           T == {k \in DOMAIN q : Same(q[k], Marker(n, s))}
           i == Min(T)
           x == [q[i] EXCEPT !.retry = TRUE]
           t == [q EXCEPT ![i] = x]
<1>1. CASE T = {}
  <2>1. e = d
    BY <1>1 DEF RetryQueryStageComplete
  <2>2. SameButRetry(q, q, n)
    BY DEF SameButRetry, Same
  <2> QED
    BY <2>1, <2>2, SameKept DEF Kept
<1>2. CASE T # {}
  <2>1. /\ q \in Seq(Item) /\ DOMAIN q = 1..Len(q) /\ Len(q) \in Nat
        /\ \A k \in DOMAIN q : q[k] \in Item /\ q[k] \in Range(q)
        /\ \A y \in Range(q) : Exists(d, y.node)
    BY ItemsOf, InRange, QueueNames, LenProperties
  <2>2. e = PutQueue(d, "Query", t)
    BY <1>2, <2>1 DEF RetryQueryStageComplete, PutQueue
  <2>3. T \subseteq Nat
    BY <2>1
  <2>4. i \in DOMAIN q /\ Same(q[i], Marker(n, s))
    <3>1. i \in T
      <4> HIDE DEF T
      <4> QED
        BY <1>2, <2>3, SmallestChosen
    <3> QED
      BY <3>1
  <2> HIDE DEF T, i, q
  <2>5. x \in Item /\ Same(q[i], x) /\ q[i].node = n
    <3>1. q[i] \in Item
      BY <2>1, <2>4
    <3>2. x \in Item /\ x.kind = q[i].kind /\ x.node = q[i].node /\ x.stage = q[i].stage
      BY <3>1 DEF Item
    <3>3. q[i].node = Marker(n, s).node
      BY <2>4 DEF Same
    <3> QED
      BY <3>2, <3>3, ItemTypes DEF Same
  <2> HIDE DEF x
  <2>6. /\ DOMAIN t = DOMAIN q /\ t[i] = x
        /\ \A k \in DOMAIN q : k # i => t[k] = q[k]
    BY <2>1, <2>4
  <2>7. t \in [1..Len(q) -> Item]
    BY <2>1, <2>5
  <2>8. t \in Seq(Item)
    BY <2>1, <2>7, SeqDef
  <2> HIDE DEF t
  <2>9. SameButRetry(q, t, n)
    BY <2>5, <2>6 DEF SameButRetry, Same
  <2>10. ASSUME NEW y \in Range(t) PROVE \E k \in DOMAIN q : y = t[k] /\ y.node = q[k].node
    BY <2>9 DEF Range, SameButRetry, Same
  <2>11. MayPutQueue(d, "Query", t)
    BY <2>1, <2>8, <2>10 DEF MayPutQueue
  <2>12. QueuePut(d, e, "Query", t)
    BY <2>2, <2>11, QueueBecomes, QueueNames
  <2>13. e.node = d.node /\ e.msg = d.msg /\ e.queue["Query"] = t /\ Sound(e)
    BY <2>12 DEF QueuePut
  <2>14. ASSUME NEW m \in Node, NEW y \in Queued(d), IsMarker(y, m)
         PROVE  \E z \in Queued(e) : IsMarker(z, m) /\ z.stage = y.stage /\ (m # n => z = y)
    <3>1. PICK k \in DOMAIN q : q[k] = y
      BY <2>14 DEF Queued, Range, q
    <3>2. t[k] \in Queued(e)
      BY <2>6, <2>13 DEF Queued, Range
    <3> QED
      BY <2>9, <2>14, <3>1, <3>2 DEF SameButRetry, Same, IsMarker
  <2>15. \A m \in Node : Parked(e, m) = Parked(d, m)
    BY <2>13 DEF Parked
  <2>16. ASSUME NEW m \in Node PROVE Marked(d, m) \subseteq Marked(e, m)
    BY <2>14, <2>15 DEF Marked
  <2>17. ASSUME NEW m \in Node, m # n PROVE NodeKept(d, e, m)
    <3>1. Fresh(d, m) \subseteq Fresh(e, m)
      BY <2>14, <2>15, <2>17 DEF Fresh
    <3> QED
      BY <2>13, <2>16, <3>1 DEF NodeKept, Exists
  <2> QED
    BY <2>9, <2>13, <2>16, <2>17 DEF q
<1> QED
  BY <1>1, <1>2

(* A change of one node that leaves what is parked alone. *)
MayChange(d, n, r) == Sound(d) /\ Exists(d, n) /\ r \in NodeRec /\ r.parked = d.node[n].parked
Changed(d, e, n, r) ==
    /\ NodePut(d, e, n, r)
    /\ \A m \in Node : Marked(e, m) = Marked(d, m) /\ Fresh(e, m) = Fresh(d, m)
    /\ \A m \in Node : m # n => NodeKept(d, e, m)
    /\ r.stage = d.node[n].stage /\ r.alive = d.node[n].alive /\ r.pending = d.node[n].pending
          => NodeKept(d, e, n)

LEMMA NodeChanges ==
    ASSUME NEW d, NEW n \in Node, NEW r, MayChange(d, n, r)
    PROVE  Changed(d, PutNode(d, n, r), n, r)
<1> DEFINE e == PutNode(d, n, r)
<1>1. MayPutNode(d, n, r)
  <2>1. \A x \in Range(d.node[n].parked) : x.node = n
    BY ItemsOf DEF MayChange
  <2> QED
    BY <2>1 DEF MayPutNode, MayChange
<1>2. NodePut(d, e, n, r)
  BY <1>1, NodeBecomes
<1> HIDE DEF e
<1>3. Queued(e) = Queued(d) /\ \A m \in Node : Parked(e, m) = Parked(d, m)
  BY <1>2 DEF NodePut, Queued, Parked, MayChange
<1>4. \A m \in Node : Marked(e, m) = Marked(d, m) /\ Fresh(e, m) = Fresh(d, m)
  BY <1>3 DEF Marked, Fresh
<1> QED
  BY <1>2, <1>4 DEF NodePut, NodeKept, Changed, e

(* A change of the stage of a node, or of whether it is alive. *)
Turned(d, e, n) ==
    /\ Sound(e) /\ e.msg = d.msg /\ Exists(e, n)
    /\ SameButRetry(d.queue["Query"], e.queue["Query"], n)
    /\ \A m \in Node : Marked(d, m) \subseteq Marked(e, m)
    /\ \A m \in Node : m # n => NodeKept(d, e, m) /\ e.node[m] = d.node[m]
    /\ e.node[n].parked = d.node[n].parked /\ e.node[n].awake = d.node[n].awake
    /\ e.node[n].info = d.node[n].info

LEMMA TurnsOver ==
    ASSUME NEW d, NEW n \in Node, NEW r, MayChange(d, n, r),
           r.awake = d.node[n].awake, r.info = d.node[n].info
    PROVE  Turned(d, PutNode(d, n, r), n) /\ Changed(d, PutNode(d, n, r), n, r)
<1>1. Changed(d, PutNode(d, n, r), n, r)
  BY NodeChanges
<1>2. SameButRetry(d.queue["Query"], d.queue["Query"], n)
  BY DEF SameButRetry, Same
<1> QED
  BY <1>1, <1>2 DEF Changed, NodePut, Turned, MayChange

(* What changes of the node itself. *)
Completed(d, e, n, s) ==
    /\ Turned(d, e, n)
    /\ e.node[n].alive = d.node[n].alive
    /\ \A m \in Node : Fresh(e, m) = Fresh(d, m)
    /\ \/ e = d /\ (d.node[n].stage # s \/ s = Complete)
       \/ d.node[n].stage = s /\ ~e.node[n].pending

LEMMA StageCompletes ==
    ASSUME NEW d, Sound(d), NEW n \in Node, Exists(d, n), NEW s \in Stage
    PROVE  Completed(d, QueryStageComplete(d, n, s), n, s)
<1> DEFINE e == QueryStageComplete(d, n, s)
           node == d.node[n]
           next == IF node.stage + 1 = CacheLoad THEN node.stage + 2 ELSE node.stage + 1
           r == [node EXCEPT !.pending = FALSE, !.retries = 0, !.stage = next]
<1>1. node \in NodeRec /\ node.stage \in Stage
  BY ItemsOf DEF NodeRec
<1>2. CASE node.stage # s \/ s = Complete
  <2>1. e = d
    BY <1>2 DEF QueryStageComplete
  <2>2. SameButRetry(d.queue["Query"], d.queue["Query"], n)
    BY DEF SameButRetry, Same
  <2>3. \A m \in Node : NodeKept(d, d, m)
    BY DEF NodeKept
  <2> QED
    BY <1>2, <2>1, <2>2, <2>3 DEF Completed, Turned
<1>3. CASE node.stage = s /\ s # Complete
  <2>1. e = PutNode(d, n, r)
    BY <1>3 DEF QueryStageComplete, PutNode
  <2>2. next \in Stage
    BY <1>1, <1>3 DEF Stage, Complete, CacheLoad, None
  <2> HIDE DEF next
  <2>3. /\ r \in NodeRec /\ r.parked = node.parked /\ ~r.pending
        /\ r.awake = node.awake /\ r.info = node.info /\ r.alive = node.alive
    BY <1>1, <2>2 DEF NodeRec
  <2> HIDE DEF r
  <2>4. MayChange(d, n, r)
    BY <2>3 DEF MayChange
  <2>5. Turned(d, e, n) /\ Changed(d, e, n, r)
    BY <2>1, <2>3, <2>4, TurnsOver
  <2> QED
    BY <1>3, <2>3, <2>5 DEF Completed, Changed, NodePut
<1> QED
  BY <1>2, <1>3

StageIsSet(d, e, n) ==
    /\ Turned(d, e, n)
    /\ e.node[n].alive = d.node[n].alive
    /\ \A m \in Node : Fresh(e, m) = Fresh(d, m)
    /\ e = d \/ ~e.node[n].pending

LEMMA SetStageFacts ==
    ASSUME NEW d, Sound(d), NEW n \in Node, Exists(d, n), NEW s \in Stage
    PROVE  StageIsSet(d, SetStage(d, n, s), n)
<1> DEFINE e == SetStage(d, n, s)
           node == d.node[n]
           r == [node EXCEPT !.stage = s, !.pending = FALSE,
                             !.configuration = node.configuration \/ s = Configuration]
<1>1. node \in NodeRec
  BY ItemsOf
<1>2. CASE s >= node.stage
  <2>1. e = d
    BY <1>2 DEF SetStage
  <2>2. SameButRetry(d.queue["Query"], d.queue["Query"], n)
    BY DEF SameButRetry, Same
  <2>3. \A m \in Node : NodeKept(d, d, m)
    BY DEF NodeKept
  <2> QED
    BY <2>1, <2>2, <2>3 DEF StageIsSet, Turned
<1>3. CASE ~(s >= node.stage)
  <2>1. e = PutNode(d, n, r)
    BY <1>3 DEF SetStage, PutNode
  <2>2. (node.configuration \/ s = Configuration) \in BOOLEAN
    OBVIOUS
  <2>3. /\ r \in NodeRec /\ r.parked = node.parked /\ ~r.pending
        /\ r.awake = node.awake /\ r.info = node.info /\ r.alive = node.alive
    BY <1>1, <2>2 DEF NodeRec
  <2> HIDE DEF r
  <2>4. MayChange(d, n, r)
    BY <2>3 DEF MayChange
  <2>5. Turned(d, e, n) /\ Changed(d, e, n, r)
    BY <2>1, <2>3, <2>4, TurnsOver
  <2> QED
    BY <2>3, <2>5 DEF StageIsSet, Changed, NodePut
<1> QED
  BY <1>2, <1>3

(* A node that was presumed dead is alive again, and nothing else of it changed. *)
Heard(d, e, n) ==
    /\ Turned(d, e, n)
    /\ e.node[n].alive
    /\ e.node[n].stage = d.node[n].stage /\ e.node[n].pending = d.node[n].pending
    /\ \A m \in Node : Fresh(e, m) = Fresh(d, m) /\ (d.node[n].alive => NodeKept(d, e, m))

LEMMA RevivedFacts ==
    ASSUME NEW d, Sound(d), NEW n \in Node, Exists(d, n)
    PROVE  Heard(d, Revived(d, n), n) /\ Heard(d, Hears(d, n), n)
<1> DEFINE e == Revived(d, n)
           node == d.node[n]
           tries == IF node.stage = Complete THEN node.retries ELSE 0
           r == [node EXCEPT !.alive = TRUE, !.errors = 0, !.retries = tries]
<1>1. node \in NodeRec
  BY ItemsOf
<1>2. e = PutNode(d, n, r)
  BY DEF Revived, PutNode
<1>3. tries \in Nat
  BY <1>1 DEF NodeRec
<1> HIDE DEF tries
<1>4. /\ r \in NodeRec /\ r.parked = node.parked /\ r.alive
      /\ r.awake = node.awake /\ r.info = node.info
      /\ r.stage = node.stage /\ r.pending = node.pending
  BY <1>1, <1>3 DEF NodeRec
<1> HIDE DEF r
<1>5. MayChange(d, n, r)
  BY <1>4 DEF MayChange
<1>6. Turned(d, e, n) /\ Changed(d, e, n, r)
  BY <1>2, <1>4, <1>5, TurnsOver
<1>7. node.alive => r.alive = node.alive
  BY <1>1, <1>4 DEF NodeRec
<1> HIDE DEF e
<1>8. Heard(d, e, n)
  BY <1>4, <1>6, <1>7 DEF Heard, Changed, NodePut
<1>9. CASE node.alive
  <2>1. SameButRetry(d.queue["Query"], d.queue["Query"], n)
    BY DEF SameButRetry, Same
  <2>2. \A m \in Node : NodeKept(d, d, m)
    BY DEF NodeKept
  <2>3. Heard(d, d, n)
    BY <1>9, <2>1, <2>2 DEF Heard, Turned
  <2> QED
    BY <1>8, <1>9, <2>3 DEF Hears, e
<1> QED
  BY <1>8, <1>9 DEF Hears, e

StageRetried(d, e, n, s) ==
    /\ Turned(d, e, n)
    /\ e.node[n].alive = d.node[n].alive
    /\ e = d \/ (d.node[n].stage = s /\ ~e.node[n].pending)

LEMMA StageRetries ==
    ASSUME NEW d, Sound(d), NEW n \in Node, Exists(d, n), NEW s \in Stage \ {Complete},
           NEW attempts \in Nat
    PROVE  StageRetried(d, QueryStageRetry(d, n, s, attempts), n, s)
<1> DEFINE e == QueryStageRetry(d, n, s, attempts)
           node == d.node[n]
           tried == node.retries + 1
           tries == IF tried >= attempts THEN 0 ELSE tried
           next == IF tried >= attempts /\ s \notin ProbeStages THEN node.stage + 1 ELSE node.stage
           r == [node EXCEPT !.pending = FALSE, !.retries = tries, !.stage = next]
           f == PutNode(d, n, r)
<1>1. node \in NodeRec /\ node.stage \in Stage /\ node.retries \in Nat
  BY ItemsOf DEF NodeRec
<1>2. CASE node.stage # s
  <2>1. e = d
    BY <1>2 DEF QueryStageRetry
  <2>2. SameButRetry(d.queue["Query"], d.queue["Query"], n)
    BY DEF SameButRetry, Same
  <2>3. \A m \in Node : NodeKept(d, d, m)
    BY DEF NodeKept
  <2> QED
    BY <2>1, <2>2, <2>3 DEF StageRetried, Turned
<1>3. CASE node.stage = s
  <2>1. e = RetryQueryStageComplete(f, n, f.node[n].stage)
    BY <1>3 DEF QueryStageRetry, PutNode
  <2>2. next \in Stage /\ tries \in Nat
    BY <1>1, <1>3 DEF Stage, Complete, None
  <2> HIDE DEF next, tries
  <2>3. /\ r \in NodeRec /\ r.parked = node.parked /\ ~r.pending
        /\ r.awake = node.awake /\ r.info = node.info /\ r.alive = node.alive
        /\ r.stage \in Stage
    BY <1>1, <2>2 DEF NodeRec
  <2> HIDE DEF r
  <2>4. MayChange(d, n, r)
    BY <2>3 DEF MayChange
  <2>5. Turned(d, f, n) /\ Changed(d, f, n, r)
    BY <2>3, <2>4, TurnsOver
  <2> HIDE DEF f, e
  <2>6. /\ Sound(f) /\ f.node[n] = r /\ f.msg = d.msg /\ f.node[n].stage \in Stage
        /\ f.queue = d.queue
        /\ \A m \in Node : Marked(f, m) = Marked(d, m)
        /\ \A m \in Node : m # n => NodeKept(d, f, m) /\ f.node[m] = d.node[m]
        /\ Exists(f, n)
    BY <2>3, <2>5 DEF Changed, NodePut, Turned
  <2>7. /\ Sound(e) /\ e.node = f.node /\ e.msg = f.msg
        /\ SameButRetry(f.queue["Query"], e.queue["Query"], n)
        /\ \A m \in Node : Marked(f, m) \subseteq Marked(e, m)
        /\ \A m \in Node : m # n => NodeKept(f, e, m)
    BY <2>1, <2>6, RetryMarker
  <2>8. \A m \in Node : m # n => NodeKept(d, e, m)
    BY <2>6, <2>7, KeptTwice
  <2>9. Turned(d, e, n)
    BY <2>3, <2>6, <2>7, <2>8 DEF Turned, Exists
  <2> QED
    BY <1>3, <2>3, <2>6, <2>7, <2>9 DEF StageRetried, e
<1> QED
  BY <1>2, <1>3

LEMMA NextStageType ==
    ASSUME NEW d, Sound(d), NEW n \in Node, Exists(d, n)
    PROVE  NextStage(d, n) \in Stage
<1> DEFINE T == {s \in Stage : s >= d.node[n].stage /\ HasWork(d, n, s)}
<1>1. d.node[n].stage \in Stage
  BY ItemsOf DEF NodeRec
<1>2. HasWork(d, n, Complete) /\ Complete \in Stage
  BY DEF HasWork, NotForController, Stage, None, ProtocolInfo, Probe, WakeUp, NodeInfo, CacheLoad,
         Configuration, Neighbors, Complete
<1>3. Complete \in T
  BY <1>1, <1>2 DEF Stage, Complete, None
<1>4. T \subseteq Nat
  BY DEF Stage, None, Complete
<1> HIDE DEF T
<1>5. Min(T) \in T
  BY <1>3, <1>4, SmallestChosen
<1> QED
  BY <1>5 DEF NextStage, T

(* The loop of AdvanceQueries has come to a stage with something to do. *)
Ran(d, e, n, s) ==
    /\ Sound(e) /\ Exists(e, n)
    /\ \A m \in Node : m # n => NodeKept(d, e, m) /\ e.node[m] = d.node[m]
    /\ e.node[n].stage = s /\ e.node[n].alive = d.node[n].alive
    /\ e.node[n].info = d.node[n].info
    /\ s # Complete => e.node[n].pending
SleeperRan(d, e, n) ==
    /\ e.node[n].parked = <<>>
    /\ \E list \in Seq(Item) : /\ e.queue["Query"] = d.queue["Query"] \o list
                               /\ \A x \in Range(list) : IsMarker(x, n)
ListenerRan(d, e, n) ==
    /\ e.node[n].parked = d.node[n].parked /\ e.node[n].awake = d.node[n].awake
    /\ e.queue["Query"] = d.queue["Query"]
SleeperAsks(d, e, n, s) ==
    /\ e.node[n].awake = d.node[n].awake /\ e.queue["Query"] = d.queue["Query"]
    /\ \A x \in Parked(e, n) : x \in Parked(d, n) \/ x = Request(n, s)
ListenerAsks(d, e, n, s) ==
    /\ e.node[n].parked = d.node[n].parked /\ e.node[n].awake = d.node[n].awake
    /\ \/ e.queue["Query"] = d.queue["Query"]
       \/ e.queue["Query"] = Append(d.queue["Query"], Request(n, s))

LEMMA RunsTo ==
    ASSUME NEW d, Sound(d), NEW n \in Node, Exists(d, n), NEW s \in Stage, s = NextStage(d, n)
    PROVE  /\ Ran(d, RunStage(d, n), n, s)
           /\ s = Complete /\ CanSleep(d, n) => SleeperRan(d, RunStage(d, n), n)
           /\ s = Complete /\ ~CanSleep(d, n) => ListenerRan(d, RunStage(d, n), n)
           /\ s # Complete /\ Asleep(d, n) => SleeperAsks(d, RunStage(d, n), n, s)
           /\ s # Complete /\ ~Asleep(d, n) => ListenerAsks(d, RunStage(d, n), n, s)
<1> DEFINE e == RunStage(d, n)
           node == d.node[n]
           tries == IF s = node.stage THEN node.retries ELSE 0
           r == [node EXCEPT !.stage = s,
                             !.configuration = node.configuration /\ s < Configuration,
                             !.retries = tries]
           p == [r EXCEPT !.pending = TRUE]
           there == PutNode(d, n, r)
           asking == PutNode(d, n, p)
<1>1. node \in NodeRec /\ node.retries \in Nat
  BY ItemsOf DEF NodeRec
<1>2. /\ e = IF s = Complete
             THEN CheckCompletedNodeQueries(IF CanSleep(d, n) THEN SendPending(there, n) ELSE there)
             ELSE SendMsg([there EXCEPT !.node[n].pending = TRUE], QueueOf(s), Request(n, s))
  BY DEF RunStage, PutNode
<1>3. tries \in Nat /\ (node.configuration /\ s < Configuration) \in BOOLEAN
  BY <1>1
<1> HIDE DEF e, tries
<1>4. /\ r \in NodeRec /\ r.parked = node.parked /\ r.stage = s
      /\ r.awake = node.awake /\ r.info = node.info /\ r.alive = node.alive
  BY <1>1, <1>3 DEF NodeRec
<1>5. [there EXCEPT !.node[n].pending = TRUE] = asking
  <2> HIDE DEF r
  <2> QED
    BY <1>4 DEF PutNode, Sound, DriverRec
<1> HIDE DEF r
<1>6. /\ p \in NodeRec /\ p.parked = node.parked /\ p.stage = s /\ p.pending
      /\ p.awake = node.awake /\ p.info = node.info /\ p.alive = node.alive
  BY <1>4 DEF NodeRec
<1> HIDE DEF p
<1>7. Turned(d, there, n) /\ Changed(d, there, n, r)
  <2>1. MayChange(d, n, r)
    BY <1>4 DEF MayChange
  <2> QED
    BY <1>4, <2>1, TurnsOver
<1>8. Turned(d, asking, n) /\ Changed(d, asking, n, p)
  <2>1. MayChange(d, n, p)
    BY <1>6 DEF MayChange
  <2> QED
    BY <1>6, <2>1, TurnsOver
<1> HIDE DEF there, asking
<1>9. CASE s = Complete
  <2> DEFINE f == IF CanSleep(d, n) THEN SendPending(there, n) ELSE there
  <2>1. e = CheckCompletedNodeQueries(f)
    BY <1>2, <1>9
  <2>2. /\ Sound(there) /\ Exists(there, n) /\ there.node[n] = r /\ there.queue = d.queue
        /\ \A m \in Node : m # n => NodeKept(d, there, m) /\ there.node[m] = d.node[m]
    BY <1>7 DEF Turned, Changed, NodePut
  <2>3. /\ Sound(f) /\ Kept(there, f)
        /\ \A m \in Node : m # n => f.node[m] = there.node[m]
        /\ f.node[n] = IF CanSleep(d, n) THEN [r EXCEPT !.awake = TRUE, !.parked = <<>>] ELSE r
        /\ CanSleep(d, n) =>
              \E list \in Seq(Item) : /\ f.queue["Query"] = there.queue["Query"] \o list
                                      /\ \A x \in Range(list) : IsMarker(x, n)
        /\ ~CanSleep(d, n) => f = there
    <3>1. CASE CanSleep(d, n)
      <4>1. f = SendPending(there, n)
        BY <3>1
      <4> HIDE DEF f
      <4>2. Released(there, f, n)
        BY <2>2, <4>1, SendPendingKeeps
      <4> QED
        BY <2>2, <3>1, <4>2 DEF Released
    <3>2. CASE ~CanSleep(d, n)
      BY <2>2, <3>2, SameKept
    <3> QED
      BY <3>1, <3>2
  <2> HIDE DEF f
  <2>4. /\ Sound(e) /\ Kept(f, e) /\ e.node = f.node /\ e.queue = f.queue
    BY <2>1, <2>3, CheckKeeps
  <2>5. /\ e.node[n].stage = s /\ e.node[n].alive = node.alive /\ e.node[n].info = node.info
        /\ CanSleep(d, n) => e.node[n].parked = <<>>
        /\ ~CanSleep(d, n) => e.node[n].parked = node.parked /\ e.node[n].awake = node.awake
    BY <1>4, <2>3, <2>4 DEF NodeRec
  <2>6. ASSUME NEW m \in Node, m # n PROVE NodeKept(d, e, m) /\ e.node[m] = d.node[m]
    <3>1. NodeKept(d, there, m) /\ NodeKept(there, f, m) /\ NodeKept(f, e, m)
      BY <2>2, <2>3, <2>4, <2>6 DEF Kept
    <3>2. NodeKept(d, f, m)
      BY <3>1, KeptTwice
    <3>3. NodeKept(d, e, m)
      BY <3>1, <3>2, KeptTwice
    <3> QED
      BY <2>2, <2>3, <2>4, <2>6, <3>3
  <2>7. Exists(e, n)
    BY <2>2, <2>3, <2>4 DEF Kept, NodeKept
  <2>8. Ran(d, e, n, s)
    BY <1>9, <2>4, <2>5, <2>6, <2>7 DEF Ran
  <2> QED
    BY <1>9, <2>2, <2>3, <2>4, <2>5, <2>8 DEF SleeperRan, ListenerRan, e
<1>10. CASE s # Complete
  <2> DEFINE q == QueueOf(s)
             item == Request(n, s)
  <2>1. e = SendMsg(asking, q, item)
    BY <1>2, <1>5, <1>10
  <2>2. /\ q \in Queues /\ item \in Item /\ n = item.node
    BY ItemTypes, QueueOfType
  <2>3. /\ Sound(asking) /\ Exists(asking, n) /\ asking.node[n] = p /\ asking.queue = d.queue
        /\ \A m \in Node : m # n => NodeKept(d, asking, m) /\ asking.node[m] = d.node[m]
    BY <1>8 DEF Turned, Changed, NodePut
  <2>4. Asleep(asking, n) <=> Asleep(d, n)
    BY <1>6, <2>3 DEF Asleep, CanSleep
  <2> HIDE DEF q, item
  <2>5. /\ Sound(e) /\ Kept(asking, e)
        /\ Asleep(d, n) =>
                 /\ e.queue = d.queue
                 /\ e.node[n] = [p EXCEPT !.parked = e.node[n].parked]
                 /\ \A m \in Node : m # n => e.node[m] = d.node[m]
                 /\ Parked(e, n) = {x \in Parked(asking, n) : ~Same(x, item)} \cup {item}
        /\ ~Asleep(d, n) =>
                 /\ e.node = asking.node /\ e.queue[q] = Append(d.queue[q], item)
                 /\ \A k \in Queues : k # q => e.queue[k] = d.queue[k]
    <3>1. Sent(asking, e, q, item, n)
      BY <2>1, <2>2, <2>3, SendMsgKeeps
    <3> QED
      BY <2>3, <2>4, <3>1 DEF Sent
  <2>6. ASSUME NEW m \in Node, m # n PROVE NodeKept(d, e, m) /\ e.node[m] = d.node[m]
    <3>1. NodeKept(d, asking, m) /\ NodeKept(asking, e, m)
      BY <2>3, <2>5, <2>6 DEF Kept
    <3>2. NodeKept(d, e, m)
      BY <3>1, KeptTwice
    <3> QED
      BY <2>3, <2>5, <2>6, <3>2
  <2>7. Exists(e, n)
    BY <2>3, <2>5 DEF Kept, NodeKept
  <2>8. /\ e.node[n].stage = s /\ e.node[n].alive = node.alive /\ e.node[n].info = node.info
        /\ e.node[n].pending /\ e.node[n].awake = node.awake
    <3>1. CASE Asleep(d, n)
      BY <1>6, <2>5, <3>1 DEF NodeRec
    <3>2. CASE ~Asleep(d, n)
      BY <1>6, <2>3, <2>5, <3>2
    <3> QED
      BY <3>1, <3>2
  <2>9. Ran(d, e, n, s)
    BY <2>5, <2>6, <2>7, <2>8 DEF Ran
  <2>10. Asleep(d, n) => SleeperAsks(d, e, n, s)
    BY <1>6, <2>3, <2>5, <2>8 DEF SleeperAsks, Parked, item
  <2>11. ~Asleep(d, n) => ListenerAsks(d, e, n, s)
    BY <1>6, <2>3, <2>5, <2>8, QueueNames DEF ListenerAsks, item
  <2> QED
    BY <1>10, <2>9, <2>10, <2>11 DEF e
<1> QED
  BY <1>9, <1>10

-----------------------------------------------------------------------------
(* The calls of the threads. Only the first thing a thread has to do can be  *)
(* the work on a stage or the marker after it (Plain); a node presumed dead  *)
(* is in no call that has begun to work on it.                               *)
Later == {"set", "test", "nif", "awake", "pending", "check"}
PlainCall(c) == \A x \in Range(Tail(c.todo)) : c.todo # <<>> => x.op \in Later
CaresIn(c, m) == \E x \in Range(c.todo) : x.node = m /\ x.op \in {"set", "test", "act", "mark"}
MarkingIn(c, m) ==
    /\ c.todo # <<>> /\ Head(c.todo).node = m
    /\ Head(c.todo).op \in {"test", "act", "mark"} /\ c.addQSC
BegunIn(c, m) ==
    /\ c.todo # <<>> /\ Head(c.todo).node = m
    /\ Head(c.todo).op \in {"act", "mark"} \/ (Head(c.todo).op = "test" /\ c.addQSC)

NodeInv(d, th, m) ==
    Exists(d, m) =>
        /\ ~d.node[m].alive => \A t \in Thread : ~BegunIn(th[t], m)
        /\ d.node[m].stage # Complete =>
              /\ d.node[m].alive /\ ~d.node[m].pending =>
                    Marked(d, m) # {} \/ \E t \in Thread : CaresIn(th[t], m)
              /\ d.node[m].pending =>
                    d.node[m].stage \in Fresh(d, m) \/ \E t \in Thread : MarkingIn(th[t], m)

(* What a call keeps for a node that it does not look at. *)
CallKept(c, b, m) ==
    /\ CaresIn(c, m) => CaresIn(b, m)
    /\ MarkingIn(c, m) => MarkingIn(b, m)
    /\ BegunIn(b, m) => BegunIn(c, m)

LEMMA NodeInvKept ==
    ASSUME NEW d, NEW e, NEW m, NodeKept(d, e, m), NEW th, NEW ti, NodeInv(d, th, m),
           \A t \in Thread : CallKept(th[t], ti[t], m)
    PROVE  NodeInv(e, ti, m)
<1> SUFFICES ASSUME Exists(e, m) PROVE NodeInv(e, ti, m)
  BY DEF NodeInv
<1>1. /\ Exists(d, m)
      /\ e.node[m].stage = d.node[m].stage /\ e.node[m].alive = d.node[m].alive
      /\ e.node[m].pending = d.node[m].pending
      /\ Marked(d, m) \subseteq Marked(e, m) /\ Fresh(d, m) \subseteq Fresh(e, m)
  BY DEF NodeKept
<1>2. ~d.node[m].alive => \A t \in Thread : ~BegunIn(ti[t], m)
  BY <1>1 DEF NodeInv, CallKept
<1>3. (\E t \in Thread : CaresIn(th[t], m)) => \E t \in Thread : CaresIn(ti[t], m)
  BY DEF CallKept
<1>4. (\E t \in Thread : MarkingIn(th[t], m)) => \E t \in Thread : MarkingIn(ti[t], m)
  BY DEF CallKept
<1> QED
  BY <1>1, <1>2, <1>3, <1>4 DEF NodeInv

LEMMA SameCall ==
    ASSUME NEW c, NEW m
    PROVE  CallKept(c, c, m)
BY DEF CallKept

(* A call with nothing in it but things to begin with. *)
LEMMA PlainStarts ==
    ASSUME NEW ops \in Seq(Step), \A x \in Range(ops) : x.op \in Later,
           NEW c, c = [todo |-> ops, addQSC |-> FALSE]
    PROVE  c \in Call /\ PlainCall(c) /\ \A m : ~BegunIn(c, m)
<1>1. c.todo = ops /\ c.addQSC = FALSE /\ c \in Call
  BY DEF Call
<1>2. ops # <<>> => Head(ops) \in Range(ops) /\ \A x \in Range(Tail(ops)) : x \in Range(ops)
  BY TakeFirst
<1>3. PlainCall(c)
  BY <1>1, <1>2 DEF PlainCall
<1>4. \A m : ~BegunIn(c, m)
  BY <1>1, <1>2 DEF BegunIn, Later
<1> QED
  BY <1>1, <1>3, <1>4

(* The first step of a call, for node n, becomes the steps ops. *)
MayBecome(c, ops, work, n) ==
    /\ c \in Call /\ c.todo # <<>> /\ PlainCall(c) /\ Head(c.todo).node = n
    /\ ops \in Seq(Step) /\ work \in BOOLEAN
    /\ \A x \in Range(ops) : x.node = n
    /\ \/ work = FALSE /\ \A x \in Range(ops) : x.op \in Later
       \/ \E x \in Step : ops = <<x>>

Rest(c, ops, work) == [todo |-> ops \o Tail(c.todo), addQSC |-> work]
Became(c, b, ops, work, n) ==
    /\ b \in Call /\ PlainCall(b) /\ b.addQSC = work
    /\ \A m : m # n => CallKept(c, b, m)
    /\ Range(b.todo) = Range(ops) \cup Range(Tail(c.todo))
    /\ Range(b.todo) \subseteq Range(ops) \cup Range(c.todo)
    /\ work = FALSE /\ (\A x \in Range(ops) : x.op \in Later) => \A m : ~BegunIn(b, m)
    /\ ops # <<>> => b.todo # <<>> /\ Head(b.todo) = Head(ops) /\ Head(ops) \in Range(ops)

LEMMA CallBecomes ==
    ASSUME NEW c, NEW ops, NEW work, NEW n, MayBecome(c, ops, work, n)
    PROVE  Became(c, Rest(c, ops, work), ops, work, n)
<1> USE DEF MayBecome
<1> DEFINE b == Rest(c, ops, work)
           tail == Tail(c.todo)
           first == Head(c.todo)
<1>1. /\ c.todo \in Seq(Step) /\ tail \in Seq(Step) /\ ops \in Seq(Step)
      /\ Range(c.todo) = Range(tail) \cup {first}
  BY TakeFirst DEF Call
<1>2. \A x \in Range(tail) : x.op \in Later
  BY DEF PlainCall
<1>3. first.node = n
  OBVIOUS
<1> HIDE DEF tail, first
<1>4. /\ b.todo = ops \o tail /\ b.addQSC = work
      /\ b.todo \in Seq(Step) /\ Range(b.todo) = Range(ops) \cup Range(tail)
      /\ ops # <<>> => b.todo # <<>> /\ Head(b.todo) = Head(ops) /\ Head(ops) \in Range(ops)
  <2>1. b.todo = ops \o tail /\ b.addQSC = work
    BY DEF tail, Rest
  <2>2. ops \o tail \in Seq(Step) /\ Range(ops \o tail) = Range(ops) \cup Range(tail)
        /\ (ops # <<>> => ops \o tail # <<>> /\ Head(ops \o tail) = Head(ops))
    BY <1>1, JoinTwo
  <2>3. ops # <<>> => Head(ops) \in Range(ops)
    BY <1>1, TakeFirst
  <2> QED
    BY <2>1, <2>2, <2>3
<1>5. b \in Call
  BY <1>4 DEF Call, tail, Rest
<1> HIDE DEF b
<1>6. ops = <<>> => b.todo = tail
  BY <1>1, <1>4, EmptySeq
<1>7. b.todo # <<>> =>
        /\ Head(b.todo) \in Range(b.todo)
        /\ \A x \in Range(Tail(b.todo)) : x \in Range(b.todo)
  <2> DEFINE s == b.todo
  <2>1. s \in Seq(Step)
    BY <1>4
  <2> HIDE DEF s
  <2>2. s # <<>> => Head(s) \in Range(s) /\ Range(s) = Range(Tail(s)) \cup {Head(s)}
    BY <2>1, TakeFirst
  <2> QED
    BY <2>2 DEF s
<1>8. CASE work = FALSE /\ \A x \in Range(ops) : x.op \in Later
  <2>1. \A x \in Range(b.todo) : x.op \in Later
    BY <1>2, <1>4, <1>8
  <2>2. PlainCall(b)
    BY <1>7, <2>1 DEF PlainCall
  <2>3. \A m : ~BegunIn(b, m)
    BY <1>4, <1>7, <1>8, <2>1 DEF BegunIn, Later
  <2>4. ASSUME NEW m, m # n PROVE CallKept(c, b, m)
    <3>1. CaresIn(c, m) => CaresIn(b, m)
      BY <1>1, <1>3, <1>4, <2>4 DEF CaresIn
    <3>2. ~MarkingIn(c, m)
      BY <1>3, <2>4 DEF MarkingIn, first
    <3> QED
      BY <2>3, <3>1, <3>2 DEF CallKept
  <2> QED
    BY <1>1, <1>4, <1>5, <2>2, <2>3, <2>4 DEF tail, b, Became
<1>9. CASE \E x \in Step : ops = <<x>>
  <2>1. PICK x \in Step : ops = <<x>>
    BY <1>9
  <2>2. ops # <<>> /\ Head(ops) = x /\ x \in Range(ops) /\ x.node = n
    <3>1. ops # <<>> /\ Head(ops) = x
      BY <2>1
    <3> QED
      BY <1>4, <3>1
  <2>3. Tail(b.todo) = tail
    BY <1>1, <1>4, <2>1
  <2>4. PlainCall(b)
    BY <1>2, <2>3 DEF PlainCall
  <2>5. ASSUME NEW m, m # n PROVE CallKept(c, b, m)
    <3>1. CaresIn(c, m) => CaresIn(b, m)
      BY <1>1, <1>3, <1>4, <2>5 DEF CaresIn
    <3>2. ~MarkingIn(c, m)
      BY <1>3, <2>5 DEF MarkingIn, first
    <3>3. ~BegunIn(b, m)
      BY <1>4, <2>2, <2>5 DEF BegunIn
    <3> QED
      BY <3>1, <3>2, <3>3 DEF CallKept
  <2>6. (\A y \in Range(ops) : y.op \in Later) /\ work = FALSE => \A m : ~BegunIn(b, m)
    BY <1>4, <2>2 DEF BegunIn, Later
  <2> QED
    BY <1>1, <1>4, <1>5, <2>4, <2>5, <2>6 DEF tail, b, Became
<1> QED
  BY <1>8, <1>9

-----------------------------------------------------------------------------
(* The invariant: what is queued is for nodes that exist, and every node     *)
(* with an interview under way is looked after.                              *)
Inv ==
    /\ TypeOK
    /\ \A t \in Thread : PlainCall(thread[t])
    /\ \A m \in Node \ overlapped : NodeInv(drv, thread, m)

ThreadsKept(n) ==
    /\ thread' \in [Thread -> Call]
    /\ \A t \in Thread :
          /\ PlainCall(thread'[t])
          /\ \A m \in Node : m # n => CallKept(thread[t], thread'[t], m)
          /\ \A x \in Range(thread'[t].todo) : x.node = n \/ x \in Range(thread[t].todo)
Counted ==
    /\ upsets' \in 0..MaxUpsets /\ removals' \in BOOLEAN
    /\ overlapped' \subseteq Node /\ twice' \subseteq Node

LEMMA StepKeeps ==
    ASSUME Inv, NEW n \in Node, Sound(drv'), Exists(drv', n),
           \A m \in Node : m # n => NodeKept(drv, drv', m),
           ThreadsKept(n), Counted,
           \A m \in Node : m # n /\ m \in overlapped => m \in overlapped',
           n \notin overlapped' => NodeInv(drv', thread', n)
    PROVE  Inv'
<1>1. ASSUME NEW t \in Thread, NEW x \in Range(thread'[t].todo) PROVE Exists(drv', x.node)
  <2>1. CASE x.node = n
    BY <2>1
  <2>2. CASE x.node # n
    <3>1. x \in Range(thread[t].todo)
      BY <1>1, <2>2 DEF ThreadsKept
    <3>2. Exists(drv, x.node)
      BY <3>1 DEF Inv, TypeOK
    <3>3. thread[t].todo \in Seq(Step)
      BY DEF Inv, TypeOK, Call
    <3>4. x \in Step
      BY <3>1, <3>3, InRange
    <3> QED
      BY <2>2, <3>2, <3>4 DEF Step, NodeKept
  <2> QED
    BY <2>1, <2>2
<1>2. TypeOK'
  BY <1>1 DEF TypeOK, ThreadsKept, Counted, Sound
<1>3. \A t \in Thread : PlainCall(thread'[t])
  BY DEF ThreadsKept
<1>4. ASSUME NEW m \in Node \ overlapped' PROVE NodeInv(drv', thread', m)
  <2>1. CASE m = n
    BY <1>4, <2>1
  <2>2. CASE m # n
    <3>1. NodeInv(drv, thread, m)
      BY <1>4, <2>2 DEF Inv
    <3>2. NodeKept(drv, drv', m)
      BY <1>4, <2>2
    <3>3. \A t \in Thread : CallKept(thread[t], thread'[t], m)
      BY <1>4, <2>2 DEF ThreadsKept
    <3> QED
      BY <3>1, <3>2, <3>3, NodeInvKept
  <2> QED
    BY <2>1, <2>2
<1> QED
  BY <1>2, <1>3, <1>4 DEF Inv

(* A thread whose call goes on. *)
GoneOn(t, ops, work, n) ==
    /\ ThreadsKept(n)
    /\ \A u \in Thread : u # t => thread'[u] = thread[u]
    /\ thread'[t].addQSC = work
    /\ Range(thread'[t].todo) = Range(ops) \cup Range(Tail(thread[t].todo))
    /\ work = FALSE /\ (\A x \in Range(ops) : x.op \in Later) => \A m : ~BegunIn(thread'[t], m)
    /\ ops # <<>> => /\ thread'[t].todo # <<>> /\ Head(thread'[t].todo) = Head(ops)
                     /\ Head(ops) \in Range(ops)

LEMMA GoesOn ==
    ASSUME Inv, NEW t \in Thread, NEW n, NEW ops, NEW work, MayBecome(thread[t], ops, work, n),
           Goes(t, ops, work)
    PROVE  GoneOn(t, ops, work, n)
<1> DEFINE c == thread[t]
           b == Rest(c, ops, work)
<1>1. /\ thread' = [thread EXCEPT ![t] = b] /\ thread \in [Thread -> Call]
      /\ \A u \in Thread : PlainCall(thread[u])
  BY DEF Goes, Inv, TypeOK, Rest
<1>2. thread'[t] = b /\ \A u \in Thread : u # t => thread'[u] = thread[u]
  BY <1>1
<1>3. Became(c, b, ops, work, n)
  <2> HIDE DEF c
  <2>1. MayBecome(c, ops, work, n)
    BY DEF c
  <2> QED
    BY <2>1, CallBecomes
<1> HIDE DEF b
<1> USE <1>3 DEF Became
<1>5. thread' \in [Thread -> Call]
  BY <1>1, <1>3
<1>6. \A x \in Range(ops) : x.node = n
  BY DEF MayBecome
<1>7. ASSUME NEW u \in Thread
      PROVE  /\ PlainCall(thread'[u])
             /\ \A m \in Node : m # n => CallKept(thread[u], thread'[u], m)
             /\ \A x \in Range(thread'[u].todo) : x.node = n \/ x \in Range(thread[u].todo)
  <2>1. CASE u = t
    BY <1>2, <1>3, <1>6, <2>1
  <2>2. CASE u # t
    BY <1>1, <1>2, <2>2, SameCall
  <2> QED
    BY <2>1, <2>2
<1> QED
  BY <1>2, <1>3, <1>5, <1>7 DEF ThreadsKept, GoneOn

(* A thread that has nothing to do. *)
LEMMA IdleCall ==
    ASSUME NEW c, c.todo = <<>>
    PROVE  \A m : ~CaresIn(c, m) /\ ~MarkingIn(c, m) /\ ~BegunIn(c, m)
BY InRange DEF CaresIn, MarkingIn, BegunIn, Range

(* A call starts. *)
LEMMA CallStarts ==
    ASSUME Inv, NEW t \in Thread, Idle(t), NEW n, NEW ops \in Seq(Step), Starts(t, ops),
           \A x \in Range(ops) : x.op \in Later /\ x.node = n
    PROVE  /\ ThreadsKept(n)
           /\ \A u \in Thread : u # t => thread'[u] = thread[u]
           /\ thread'[t].todo = ops
           /\ \A u \in Thread : \A m : CallKept(thread[u], thread'[u], m)
<1> DEFINE b == [todo |-> ops, addQSC |-> FALSE]
<1>1. /\ thread' = [thread EXCEPT ![t] = b] /\ thread \in [Thread -> Call]
      /\ \A u \in Thread : PlainCall(thread[u])
  BY DEF Starts, Inv, TypeOK
<1>2. thread'[t] = b /\ \A u \in Thread : u # t => thread'[u] = thread[u]
  BY <1>1
<1>3. b \in Call /\ PlainCall(b) /\ \A m : ~BegunIn(b, m)
  BY PlainStarts
<1>4. b.todo = ops
  OBVIOUS
<1> HIDE DEF b
<1>5. thread' \in [Thread -> Call]
  BY <1>1, <1>3
<1>6. ASSUME NEW u \in Thread, NEW m PROVE CallKept(thread[u], thread'[u], m)
  <2>1. CASE u = t
    BY <1>2, <1>3, <2>1, IdleCall DEF Idle, CallKept
  <2>2. CASE u # t
    BY <1>2, <2>2, SameCall
  <2> QED
    BY <2>1, <2>2
<1>7. ASSUME NEW u \in Thread
      PROVE  /\ PlainCall(thread'[u])
             /\ \A x \in Range(thread'[u].todo) : x.node = n \/ x \in Range(thread[u].todo)
  BY <1>1, <1>2, <1>3, <1>4
<1> QED
  BY <1>2, <1>4, <1>5, <1>6, <1>7 DEF ThreadsKept

LEMMA ThreadsStay ==
    ASSUME Inv, UNCHANGED thread, NEW n
    PROVE  ThreadsKept(n) /\ \A u \in Thread : \A m : CallKept(thread[u], thread'[u], m)
BY SameCall DEF Inv, TypeOK, ThreadsKept

(* The thread that takes a step of its call. *)
LEMMA AtFacts ==
    ASSUME Inv, NEW t \in Thread, NEW op, At(t, op)
    PROVE  /\ thread[t] \in Call /\ thread[t].todo # <<>> /\ PlainCall(thread[t])
           /\ Head(thread[t].todo) \in Step /\ Head(thread[t].todo).op = op
           /\ Head(thread[t].todo).node = Subject(t) /\ Subject(t) \in Node
           /\ Head(thread[t].todo).stage \in Stage
           /\ Exists(drv, Subject(t))
           /\ \A x \in Range(Tail(thread[t].todo)) : x \in Range(thread[t].todo)
           /\ Range(thread[t].todo) = Range(Tail(thread[t].todo)) \cup {Head(thread[t].todo)}
<1>1. /\ thread[t] \in Call /\ thread[t].todo # <<>> /\ PlainCall(thread[t])
      /\ thread[t].todo \in Seq(Step) /\ Head(thread[t].todo).op = op
  BY DEF Inv, TypeOK, Call, At, Idle
<1>2. /\ Head(thread[t].todo) \in Step /\ Head(thread[t].todo) \in Range(thread[t].todo)
      /\ Range(thread[t].todo) = Range(Tail(thread[t].todo)) \cup {Head(thread[t].todo)}
  BY <1>1, TakeFirst
<1>3. Exists(drv, Head(thread[t].todo).node)
  BY <1>2 DEF Inv, TypeOK
<1> QED
  BY <1>1, <1>2, <1>3 DEF Subject, Step

LEMMA NoStep == <<>> \in Seq(Step) /\ Range(<<>>) = {}
<1>1. <<>> \in Seq(Step)
  OBVIOUS
<1>2. Range(<<>>) = {}
  BY DEF Range
<1> QED
  BY <1>1, <1>2

LEMMA OneStep ==
    ASSUME NEW x \in Step
    PROVE  <<x>> \in Seq(Step) /\ Range(<<x>>) = {x} /\ Head(<<x>>) = x /\ <<x>> # <<>>
<1>1. <<x>> \in Seq(Step) /\ Head(<<x>>) = x /\ <<x>> # <<>>
  OBVIOUS
<1>2. Range(<<x>>) = {x}
  BY DEF Range
<1> QED
  BY <1>1, <1>2

LEMMA CountedStays ==
    ASSUME Inv, UNCHANGED <<removals, overlapped, twice>>, Upset \/ UNCHANGED upsets
    PROVE  Counted
BY QueryConstants DEF Inv, TypeOK, Counted, Upset

LEMMA Uncounts ==
    ASSUME Inv, Unnoted, Uncounted
    PROVE  Counted /\ overlapped' = overlapped /\ twice' = twice
BY CountedStays DEF Unnoted, Uncounted

LEMMA SoundNow ==
    ASSUME Inv
    PROVE  Sound(drv) /\ \A m \in Node \ overlapped : NodeInv(drv, thread, m)
BY DEF Inv, TypeOK, Sound

-----------------------------------------------------------------------------
(* One lemma for each action.                                                *)
LEMMA SetQueryStageKeeps ==
    ASSUME Inv, NEW t \in Thread, SetQueryStage(t)
    PROVE  Inv'
<1> DEFINE n == Subject(t)
           s == Head(thread[t].todo).stage
           x == Advance(n)
           ops == <<x>>
<1>1. At(t, "set") /\ drv' = SetStage(drv, n, s) /\ Goes(t, ops, FALSE)
  BY DEF SetQueryStage, Becomes
<1>2. /\ thread[t] \in Call /\ thread[t].todo # <<>> /\ PlainCall(thread[t])
      /\ Head(thread[t].todo).op = "set" /\ Head(thread[t].todo).node = n /\ n \in Node
      /\ s \in Stage /\ Exists(drv, n)
  BY <1>1, AtFacts
<1>3. Counted /\ overlapped' = overlapped /\ Sound(drv)
  BY Uncounts, SoundNow DEF SetQueryStage
<1> HIDE DEF n, s
<1>4. StageIsSet(drv, drv', n)
  BY <1>1, <1>2, <1>3, SetStageFacts
<1>5. x \in Step /\ x.node = n /\ x.op = "test"
  BY <1>2, StepTypes, StageNames DEF Ops
<1> HIDE DEF x
<1>6. ops \in Seq(Step) /\ Range(ops) = {x} /\ Head(ops) = x /\ ops # <<>>
  BY <1>5, OneStep
<1> HIDE DEF ops
<1>7. MayBecome(thread[t], ops, FALSE, n)
  BY <1>2, <1>5, <1>6 DEF MayBecome, Later
<1>8. /\ ThreadsKept(n)
      /\ \A u \in Thread : u # t => thread'[u] = thread[u]
      /\ x \in Range(thread'[t].todo)
      /\ \A m : ~BegunIn(thread'[t], m)
  <2>1. GoneOn(t, ops, FALSE, n)
    BY <1>1, <1>7, GoesOn
  <2> QED
    BY <1>5, <1>6, <2>1 DEF GoneOn, Later
<1>9. ASSUME n \notin overlapped' PROVE NodeInv(drv', thread', n)
  <2>1. NodeInv(drv, thread, n)
    BY <1>2, <1>3, <1>9, SoundNow
  <2>2. ~drv'.node[n].alive => \A u \in Thread : ~BegunIn(thread'[u], n)
    BY <1>2, <1>4, <1>8, <2>1 DEF NodeInv, StageIsSet
  <2>3. CaresIn(thread'[t], n)
    BY <1>5, <1>8 DEF CaresIn
  <2>4. ASSUME drv'.node[n].pending, drv'.node[n].stage # Complete
        PROVE  drv'.node[n].stage \in Fresh(drv', n) \/ \E u \in Thread : MarkingIn(thread'[u], n)
    <3>1. drv' = drv
      BY <1>4, <2>4 DEF StageIsSet
    <3>2. ~MarkingIn(thread[t], n)
      BY <1>2 DEF MarkingIn
    <3> QED
      BY <1>2, <1>8, <2>1, <2>4, <3>1, <3>2 DEF NodeInv
  <2> QED
    BY <2>2, <2>3, <2>4 DEF NodeInv
<1> QED
  BY <1>2, <1>3, <1>4, <1>8, <1>9, StepKeeps DEF StageIsSet, Turned

LEMMA TestLoopKeeps ==
    ASSUME Inv, NEW t \in Thread, TestLoop(t)
    PROVE  Inv'
<1> DEFINE n == Subject(t)
           node == drv.node[n]
           c == thread[t]
           op == IF node.alive /\ ~node.pending THEN "act" ELSE "mark"
           x == Do(op, n)
           idle == ~(node.alive /\ ~node.pending) /\ ~c.addQSC
           ops == IF idle THEN <<>> ELSE <<x>>
           work == IF idle THEN FALSE ELSE c.addQSC
<1>1. At(t, "test") /\ drv' = drv /\ Goes(t, ops, work)
  BY DEF TestLoop
<1>2. /\ c \in Call /\ c.todo # <<>> /\ PlainCall(c)
      /\ Head(c.todo).op = "test" /\ Head(c.todo).node = n /\ n \in Node
      /\ Exists(drv, n) /\ c.addQSC \in BOOLEAN
  BY <1>1, AtFacts DEF Call
<1>3. Counted /\ overlapped' = overlapped /\ Sound(drv)
  BY Uncounts, SoundNow DEF TestLoop
<1> HIDE DEF n, x, c
<1>4. x \in Step /\ x.node = n /\ x.op = op /\ op \in {"act", "mark"}
  BY <1>2, StepTypes, StageNames DEF Ops, x
<1>5. ops \in Seq(Step) /\ Range(ops) = IF idle THEN {} ELSE {x}
  <2>1. <<x>> \in Seq(Step) /\ Range(<<x>>) = {x}
    BY <1>4, OneStep
  <2>2. <<>> \in Seq(Step) /\ Range(<<>>) = {}
    BY NoStep
  <2> QED
    BY <2>1, <2>2
<1>6. MayBecome(c, ops, work, n)
  BY <1>2, <1>4, <1>5 DEF MayBecome
<1>7. ~idle => ops # <<>> /\ Head(ops) = x
  BY <1>4, OneStep
<1> HIDE DEF ops
<1>8. /\ ThreadsKept(n)
      /\ \A u \in Thread : u # t => thread'[u] = thread[u]
      /\ thread'[t].addQSC = work
      /\ Range(thread'[t].todo) = Range(ops) \cup Range(Tail(c.todo))
      /\ idle => \A m : ~BegunIn(thread'[t], m)
      /\ ~idle => thread'[t].todo # <<>> /\ Head(thread'[t].todo) = x
  <2>1. GoneOn(t, ops, work, n)
    BY <1>1, <1>6, GoesOn DEF c
  <2> QED
    BY <1>5, <1>7, <2>1 DEF GoneOn, c
<1>9. ASSUME n \notin overlapped' PROVE NodeInv(drv', thread', n)
  <2>1. NodeInv(drv, thread, n)
    BY <1>2, <1>3, <1>9, SoundNow
  <2>2. ASSUME ~node.alive PROVE idle
    <3>1. ~BegunIn(c, n)
      BY <1>2, <2>1, <2>2 DEF NodeInv, c
    <3> QED
      BY <1>2, <2>2, <3>1 DEF BegunIn
  <2>3. ~node.alive => \A u \in Thread : ~BegunIn(thread'[u], n)
    BY <1>2, <1>8, <2>1, <2>2 DEF NodeInv
  <2>4. node.alive /\ ~node.pending => CaresIn(thread'[t], n)
    BY <1>4, <1>5, <1>8 DEF CaresIn
  <2>5. ASSUME node.pending, node.stage # Complete
        PROVE  node.stage \in Fresh(drv, n) \/ \E u \in Thread : MarkingIn(thread'[u], n)
    <3>1. CASE idle
      <4>1. ~MarkingIn(c, n)
        BY <3>1 DEF MarkingIn
      <4> QED
        BY <1>2, <1>8, <2>1, <2>5, <4>1 DEF NodeInv, c
    <3>2. CASE ~idle
      <4>1. MarkingIn(thread'[t], n)
        BY <1>4, <1>8, <2>5, <3>2 DEF MarkingIn
      <4> QED
        BY <4>1
    <3> QED
      BY <3>1, <3>2
  <2> QED
    BY <1>1, <2>3, <2>4, <2>5 DEF NodeInv
<1>10. \A m \in Node : NodeKept(drv, drv', m)
  BY <1>1 DEF NodeKept
<1> QED
  BY <1>1, <1>2, <1>3, <1>8, <1>9, <1>10, StepKeeps

LEMMA ActOnStageKeeps ==
    ASSUME Inv, NEW t \in Thread, ActOnStage(t)
    PROVE  Inv'
<1> DEFINE n == Subject(t)
           s == NextStage(drv, n)
           x == Advance(n)
           ops == IF s = Complete THEN <<>> ELSE <<x>>
           work == IF s = Complete THEN FALSE ELSE TRUE
<1>1. At(t, "act") /\ drv' = RunStage(drv, n) /\ Goes(t, ops, work)
  BY DEF ActOnStage, Becomes
<1>2. /\ thread[t] \in Call /\ thread[t].todo # <<>> /\ PlainCall(thread[t])
      /\ Head(thread[t].todo).op = "act" /\ Head(thread[t].todo).node = n /\ n \in Node
      /\ Exists(drv, n)
  BY <1>1, AtFacts
<1>3. twice' \subseteq Node
  BY <1>2 DEF ActOnStage, Inv, TypeOK
<1>4. Counted /\ overlapped' = overlapped /\ Sound(drv)
  BY <1>3, SoundNow DEF ActOnStage, Uncounted, Counted, Inv, TypeOK
<1> HIDE DEF n
<1>5. s \in Stage
  BY <1>2, <1>4, NextStageType
<1> HIDE DEF s
<1>6. Ran(drv, drv', n, s)
  BY <1>1, <1>2, <1>4, <1>5, RunsTo DEF s
<1>7. x \in Step /\ x.node = n /\ x.op = "test"
  BY <1>2, StepTypes, StageNames DEF Ops
<1> HIDE DEF x
<1>8. /\ ops \in Seq(Step) /\ Range(ops) = IF s = Complete THEN {} ELSE {x}
      /\ s # Complete => Head(ops) = x /\ ops # <<>>
  BY <1>7, OneStep, NoStep
<1>9. MayBecome(thread[t], ops, work, n)
  BY <1>2, <1>7, <1>8 DEF MayBecome, Later
<1> HIDE DEF ops
<1>10. GoneOn(t, ops, work, n)
  BY <1>1, <1>9, GoesOn
<1>11. ASSUME n \notin overlapped' PROVE NodeInv(drv', thread', n)
  <2>1. NodeInv(drv, thread, n)
    BY <1>2, <1>4, <1>11, SoundNow
  <2>2. drv.node[n].alive
    <3>1. BegunIn(thread[t], n)
      BY <1>2 DEF BegunIn
    <3> QED
      BY <1>2, <2>1, <3>1 DEF NodeInv
  <2>3. CASE s = Complete
    BY <1>6, <2>2, <2>3 DEF NodeInv, Ran
  <2>4. CASE s # Complete
    <3>1. MarkingIn(thread'[t], n)
      BY <1>7, <1>8, <1>10, <2>4 DEF MarkingIn, GoneOn
    <3> QED
      BY <1>6, <2>2, <2>4, <3>1 DEF NodeInv, Ran
  <2> QED
    BY <2>3, <2>4
<1> QED
  BY <1>2, <1>4, <1>6, <1>10, <1>11, StepKeeps DEF Ran, GoneOn

LEMMA AddMarkerKeeps ==
    ASSUME Inv, NEW t \in Thread, AddMarker(t)
    PROVE  Inv'
<1> DEFINE n == Subject(t)
           node == drv.node[n]
           item == Marker(n, node.stage)
           e == IF node.alive THEN SendMsg(drv, "Query", item) ELSE drv
<1>1. At(t, "mark") /\ drv' = e /\ Goes(t, <<>>, FALSE)
  BY DEF AddMarker, Becomes, SendQueryStageComplete
<1>2. /\ thread[t] \in Call /\ thread[t].todo # <<>> /\ PlainCall(thread[t])
      /\ Head(thread[t].todo).op = "mark" /\ Head(thread[t].todo).node = n /\ n \in Node
      /\ Exists(drv, n)
  BY <1>1, AtFacts
<1>3. Counted /\ overlapped' = overlapped /\ Sound(drv)
  BY Uncounts, SoundNow DEF AddMarker
<1> HIDE DEF n
<1>4. MayBecome(thread[t], <<>>, FALSE, n)
  BY <1>2, NoStep DEF MayBecome
<1>5. GoneOn(t, <<>>, FALSE, n)
  BY <1>1, <1>4, GoesOn
<1>6. node.stage \in Stage
  BY <1>2, <1>3, ItemsOf DEF NodeRec
<1> HIDE DEF e
<1>7. /\ Sound(drv') /\ Kept(drv, drv')
      /\ node.alive => node.stage \in Fresh(drv', n)
  <2>1. CASE node.alive
    <3>1. /\ item \in Item /\ item.node = n /\ item.kind = "marker" /\ item.stage = node.stage
          /\ ~item.retry
      BY <1>2, <1>6, ItemTypes
    <3> HIDE DEF item
    <3>2. Sent(drv, drv', "Query", item, n)
      BY <1>1, <1>2, <1>3, <2>1, <3>1, SendMsgKeeps, QueueNames DEF e
    <3> QED
      BY <3>1, <3>2 DEF Sent
  <2>2. CASE ~node.alive
    BY <1>1, <1>3, <2>2, SameKept DEF e
  <2> QED
    BY <2>1, <2>2
<1>8. NodeKept(drv, drv', n) /\ Exists(drv', n)
  BY <1>2, <1>7 DEF Kept, NodeKept
<1>9. ASSUME n \notin overlapped' PROVE NodeInv(drv', thread', n)
  <2>1. NodeInv(drv, thread, n)
    BY <1>2, <1>3, <1>9, SoundNow
  <2>2. node.alive
    <3>1. BegunIn(thread[t], n)
      BY <1>2 DEF BegunIn
    <3> QED
      BY <1>2, <2>1, <3>1 DEF NodeInv
  <2>3. node.stage \in Fresh(drv', n) /\ Fresh(drv', n) \subseteq Marked(drv', n)
    BY <1>7, <2>2 DEF Fresh, Marked
  <2> QED
    BY <1>2, <1>8, <2>2, <2>3 DEF NodeInv, NodeKept
<1> QED
  BY <1>2, <1>3, <1>5, <1>7, <1>8, <1>9, StepKeeps DEF Kept, GoneOn

(* Steps of a call that do not concern the stage. *)
LEMMA CallStepKeeps ==
    ASSUME Inv, NEW t \in Thread, NEW op \in {"nif", "awake", "pending", "check"}, At(t, op),
           NEW ops \in Seq(Step), \A x \in Range(ops) : x.op \in Later /\ x.node = Subject(t),
           Goes(t, ops, FALSE), Sound(drv'), Kept(drv, drv'), Unnoted, Uncounted
    PROVE  Inv'
<1> DEFINE n == Subject(t)
           c == thread[t]
<1>1. /\ c \in Call /\ c.todo # <<>> /\ PlainCall(c)
      /\ Head(c.todo).op = op /\ Head(c.todo).node = n /\ n \in Node
      /\ Exists(drv, n) /\ Range(c.todo) = Range(Tail(c.todo)) \cup {Head(c.todo)}
  BY AtFacts
<1>2. Counted /\ overlapped' = overlapped
  BY Uncounts
<1>3. MayBecome(c, ops, FALSE, n)
  BY <1>1 DEF MayBecome
<1> HIDE DEF n
<1>4. GoneOn(t, ops, FALSE, n)
  BY <1>3, GoesOn
<1>5. NodeKept(drv, drv', n) /\ Exists(drv', n)
  BY <1>1 DEF Kept, NodeKept
<1>6. ASSUME n \notin overlapped' PROVE NodeInv(drv', thread', n)
  <2>1. NodeInv(drv, thread, n)
    BY <1>1, <1>2, <1>6, SoundNow
  <2>2. CallKept(c, thread'[t], n)
    <3>1. CaresIn(c, n) => CaresIn(thread'[t], n)
      BY <1>1, <1>4 DEF CaresIn, GoneOn
    <3>2. ~MarkingIn(c, n)
      BY <1>1 DEF MarkingIn
    <3>3. ~BegunIn(thread'[t], n)
      BY <1>4 DEF GoneOn, n
    <3> QED
      BY <3>1, <3>2, <3>3 DEF CallKept
  <2>3. \A u \in Thread : CallKept(thread[u], thread'[u], n)
    BY <1>4, <2>2, SameCall DEF GoneOn
  <2> QED
    BY <1>5, <2>1, <2>3, NodeInvKept
<1> QED
  BY <1>1, <1>2, <1>4, <1>5, <1>6, StepKeeps DEF Kept, GoneOn

(* A change of a node that the interview does not see. *)
LEMMA Unseen ==
    ASSUME NEW d, NEW n \in Node, NEW r, MayChange(d, n, r), r.stage = d.node[n].stage,
           r.alive = d.node[n].alive, r.pending = d.node[n].pending
    PROVE  /\ Sound(PutNode(d, n, r)) /\ Kept(d, PutNode(d, n, r)) /\ Exists(PutNode(d, n, r), n)
           /\ PutNode(d, n, r).node[n] = r
<1>1. Changed(d, PutNode(d, n, r), n, r)
  BY NodeChanges
<1> QED
  BY <1>1 DEF Changed, NodePut, Kept, MayChange

LEMMA DriverIsThread == Driver \in Thread /\ App \in Thread /\ \A t \in Thread : t = Driver \/ t = App
BY DEF Thread

LEMMA NodeInfoKeptKeeps ==
    ASSUME Inv, NodeInfoKept
    PROVE  Inv'
<1> DEFINE n == Subject(Driver)
           r == [drv.node[n] EXCEPT !.nif = TRUE]
<1>1. /\ At(Driver, "nif") /\ drv' = PutNode(drv, n, r) /\ Goes(Driver, <<>>, FALSE)
      /\ Unnoted /\ Uncounted
  BY DEF NodeInfoKept, Becomes, PutNode
<1>2. n \in Node /\ Exists(drv, n) /\ Sound(drv)
  BY <1>1, AtFacts, SoundNow, DriverIsThread
<1> HIDE DEF n
<1>3. drv.node[n] \in NodeRec
  BY <1>2, ItemsOf
<1>4. /\ r \in NodeRec /\ r.parked = drv.node[n].parked /\ r.stage = drv.node[n].stage
      /\ r.alive = drv.node[n].alive /\ r.pending = drv.node[n].pending
  BY <1>3 DEF NodeRec
<1> HIDE DEF r
<1>5. MayChange(drv, n, r)
  BY <1>2, <1>4 DEF MayChange
<1>6. Sound(drv') /\ Kept(drv, drv')
  BY <1>1, <1>2, <1>4, <1>5, Unseen
<1>7. <<>> \in Seq(Step) /\ \A x \in Range(<<>>) : x.op \in Later /\ x.node = n
  BY NoStep
<1> QED
  BY <1>1, <1>6, <1>7, CallStepKeeps, DriverIsThread DEF n

LEMMA SetAwakeKeeps ==
    ASSUME Inv, SetAwake
    PROVE  Inv'
<1> DEFINE n == Subject(Driver)
           r == [drv.node[n] EXCEPT !.awake = TRUE]
           poll == IF drv.node[n].poll THEN <<Set(n, Dynamic)>> ELSE <<>>
           last == Do("pending", n)
           end == <<last>>
           ops == poll \o end
<1>1. At(Driver, "awake") /\ Unnoted /\ Uncounted
  BY DEF SetAwake
<1>2. n \in Node /\ Exists(drv, n) /\ Sound(drv)
  BY <1>1, AtFacts, SoundNow, DriverIsThread
<1>3. CASE ~CanSleep(drv, n)
  <2>1. drv' = drv /\ Goes(Driver, <<>>, FALSE)
    BY <1>3 DEF SetAwake
  <2> HIDE DEF n
  <2>2. Sound(drv') /\ Kept(drv, drv')
    BY <1>2, <2>1, SameKept
  <2>3. <<>> \in Seq(Step) /\ \A x \in Range(<<>>) : x.op \in Later /\ x.node = n
    BY NoStep
  <2> QED
    BY <1>1, <2>1, <2>2, <2>3, CallStepKeeps, DriverIsThread DEF n
<1>4. CASE CanSleep(drv, n)
  <2>1. drv' = PutNode(drv, n, r) /\ Goes(Driver, ops, FALSE)
    BY <1>4 DEF SetAwake, Becomes, PutNode
  <2> HIDE DEF n
  <2>2. drv.node[n] \in NodeRec
    BY <1>2, ItemsOf
  <2>3. /\ r \in NodeRec /\ r.parked = drv.node[n].parked /\ r.stage = drv.node[n].stage
        /\ r.alive = drv.node[n].alive /\ r.pending = drv.node[n].pending
    BY <2>2 DEF NodeRec
  <2> HIDE DEF r
  <2>4. MayChange(drv, n, r)
    BY <1>2, <2>3 DEF MayChange
  <2>5. Sound(drv') /\ Kept(drv, drv')
    BY <1>2, <2>1, <2>3, <2>4, Unseen
  <2>6. Dynamic \in Stage /\ None \in Stage
    BY StageNames DEF Optional
  <2>7. /\ last \in Step /\ last.node = n /\ last.op = "pending"
        /\ Set(n, Dynamic) \in Step /\ Set(n, Dynamic).node = n /\ Set(n, Dynamic).op = "set"
    BY <1>2, <2>6, StepTypes DEF Ops
  <2> HIDE DEF last
  <2>8. poll \in Seq(Step) /\ \A x \in Range(poll) : x.op \in Later /\ x.node = n
    <3>1. <<Set(n, Dynamic)>> \in Seq(Step) /\ Range(<<Set(n, Dynamic)>>) = {Set(n, Dynamic)}
      BY <2>7, OneStep
    <3> QED
      BY <2>7, <3>1, NoStep DEF Later
  <2>9. end \in Seq(Step) /\ Range(end) = {last}
    BY <2>7, OneStep
  <2> HIDE DEF poll, end
  <2>10. ops \in Seq(Step) /\ Range(ops) = Range(poll) \cup {last}
    BY <2>8, <2>9, JoinTwo
  <2> HIDE DEF ops
  <2>11. \A x \in Range(ops) : x.op \in Later /\ x.node = n
    BY <2>7, <2>8, <2>10 DEF Later
  <2> QED
    BY <1>1, <2>1, <2>5, <2>10, <2>11, CallStepKeeps, DriverIsThread DEF n
<1> QED
  BY <1>3, <1>4

LEMMA SendAllPendingKeeps ==
    ASSUME Inv, SendAllPending
    PROVE  Inv'
<1> DEFINE n == Subject(Driver)
           r == [drv.node[n] EXCEPT !.poll = FALSE]
           f == PutNode(drv, n, r)
<1>1. /\ At(Driver, "pending") /\ drv' = SendPending(f, n) /\ Goes(Driver, <<>>, FALSE)
      /\ Unnoted /\ Uncounted
  BY DEF SendAllPending, Becomes, PutNode
<1>2. n \in Node /\ Exists(drv, n) /\ Sound(drv)
  BY <1>1, AtFacts, SoundNow, DriverIsThread
<1> HIDE DEF n
<1>3. drv.node[n] \in NodeRec
  BY <1>2, ItemsOf
<1>4. /\ r \in NodeRec /\ r.parked = drv.node[n].parked /\ r.stage = drv.node[n].stage
      /\ r.alive = drv.node[n].alive /\ r.pending = drv.node[n].pending
  BY <1>3 DEF NodeRec
<1> HIDE DEF r
<1>5. MayChange(drv, n, r)
  BY <1>2, <1>4 DEF MayChange
<1>6. Sound(f) /\ Kept(drv, f) /\ Exists(f, n)
  BY <1>2, <1>4, <1>5, Unseen
<1> HIDE DEF f
<1>7. Released(f, drv', n)
  BY <1>1, <1>2, <1>6, SendPendingKeeps
<1>8. Sound(drv') /\ Kept(drv, drv')
  BY <1>6, <1>7, KeptTwice DEF Released, Kept
<1>9. <<>> \in Seq(Step) /\ \A x \in Range(<<>>) : x.op \in Later /\ x.node = n
  BY NoStep
<1> QED
  BY <1>1, <1>8, <1>9, CallStepKeeps, DriverIsThread DEF n

LEMMA CheckCompletedKeeps ==
    ASSUME Inv, CheckCompleted
    PROVE  Inv'
<1>1. /\ At(Driver, "check") /\ drv' = CheckCompletedNodeQueries(drv) /\ Goes(Driver, <<>>, FALSE)
      /\ Unnoted /\ Uncounted
  BY DEF CheckCompleted, Becomes
<1>2. Sound(drv') /\ Kept(drv, drv')
  BY <1>1, SoundNow, CheckKeeps
<1>3. <<>> \in Seq(Step) /\ \A x \in Range(<<>>) : x.op \in Later /\ x.node = Subject(Driver)
  BY NoStep
<1> QED
  BY <1>1, <1>2, <1>3, CallStepKeeps, DriverIsThread

(* A step after which every node is as it was, but for what n has asked for. *)
LEMMA AllKept ==
    ASSUME Inv, NEW n \in Node, Sound(drv'), Exists(drv', n), Kept(drv, drv'), ThreadsKept(n),
           \A u \in Thread : CallKept(thread[u], thread'[u], n),
           Counted, overlapped \subseteq overlapped'
    PROVE  Inv'
<1>1. ASSUME n \notin overlapped' PROVE NodeInv(drv', thread', n)
  <2>1. NodeInv(drv, thread, n) /\ NodeKept(drv, drv', n)
    BY <1>1, SoundNow DEF Kept
  <2> QED
    BY <2>1, NodeInvKept
<1> QED
  BY <1>1, StepKeeps DEF Kept

(* The first item of a queue is taken. *)
Pop(d, q) == PutQueue(d, q, Tail(d.queue[q]))
Popped(d, e, q) ==
    /\ Sound(e) /\ e.node = d.node /\ e.msg = d.msg /\ e.timers = d.timers
    /\ e.queue[q] = Tail(d.queue[q]) /\ \A p \in Queues : p # q => e.queue[p] = d.queue[p]
    /\ \A m \in Node : ~IsMarker(Head(d.queue[q]), m) => NodeKept(d, e, m)
    /\ \A m \in Node : \A s \in Fresh(d, m) :
          s \in Fresh(e, m) \/ (~Head(d.queue[q]).retry /\ s = Head(d.queue[q]).stage)

LEMMA PopKeeps ==
    ASSUME NEW d, Sound(d), NEW q \in Queues, d.queue[q] # <<>>
    PROVE  Popped(d, Pop(d, q), q)
<1> DEFINE s == d.queue[q]
           t == Tail(s)
           item == Head(s)
           e == Pop(d, q)
<1>1. s \in Seq(Item) /\ s # <<>> /\ \A x \in Range(s) : Exists(d, x.node)
  BY ItemsOf
<1> HIDE DEF s
<1>2. t \in Seq(Item) /\ Range(s) = Range(t) \cup {item}
  BY <1>1, TakeFirst
<1> HIDE DEF t, item
<1>3. MayPutQueue(d, q, t)
  BY <1>1, <1>2 DEF MayPutQueue
<1>4. QueuePut(d, e, q, t)
  BY <1>3, QueueBecomes DEF Pop, t, s
<1> HIDE DEF e
<1>5. /\ \A x \in Queued(d) : x \in Queued(e) \/ x = item
      /\ \A m \in Node : Parked(e, m) = Parked(d, m)
      /\ \A m \in Node : Exists(e, m) <=> Exists(d, m)
  BY <1>2, <1>4, QueueNames DEF QueuePut, Queued, Parked, Exists, s
<1>6. ASSUME NEW m \in Node, ~IsMarker(item, m) PROVE NodeKept(d, e, m)
  BY <1>4, <1>5, <1>6 DEF NodeKept, QueuePut, Marked, Fresh
<1>7. ASSUME NEW m \in Node, NEW x \in Fresh(d, m)
      PROVE  x \in Fresh(e, m) \/ (~item.retry /\ x = item.stage)
  BY <1>5, <1>7 DEF Fresh
<1> QED
  BY <1>4, <1>6, <1>7 DEF Popped, QueuePut, t, s, item, e

LEMMA WriteMarkerKeeps ==
    ASSUME Inv, NEW q \in Queues, drv.queue[q] # <<>>, Idle(Driver),
           Head(drv.queue[q]).kind = "marker",
           drv' = IF Head(drv.queue[q]).retry THEN Pop(drv, q)
                  ELSE QueryStageComplete(Pop(drv, q), Head(drv.queue[q]).node,
                                          Head(drv.queue[q]).stage),
           Starts(Driver, <<Advance(Head(drv.queue[q]).node)>>), Unnoted, Uncounted
    PROVE  Inv'
<1> DEFINE item == Head(drv.queue[q])
           n == item.node
           e == Pop(drv, q)
           x == Advance(n)
           ops == <<x>>
<1>1. Sound(drv) /\ Counted /\ overlapped' = overlapped
  BY SoundNow, Uncounts
<1>2. item \in Item /\ n \in Node /\ Exists(drv, n) /\ item.stage \in Stage
  <2>1. drv.queue[q] \in Seq(Item) /\ item \in Range(drv.queue[q])
    BY <1>1, ItemsOf, TakeFirst
  <2>2. item \in Item
    BY <2>1, InRange
  <2>3. Exists(drv, n)
    BY <1>1, <2>1 DEF Sound, OfNodesOnly
  <2> QED
    BY <2>2, <2>3 DEF Item
<1>3. Popped(drv, e, q)
  BY <1>1, PopKeeps
<1>4. drv' = IF item.retry THEN e ELSE QueryStageComplete(e, n, item.stage)
  OBVIOUS
<1>5. item.kind = "marker" /\ Starts(Driver, ops)
  OBVIOUS
<1> HIDE DEF e, n, item
<1>6. /\ Sound(e) /\ Exists(e, n) /\ e.node = drv.node
      /\ \A m \in Node : m # n => NodeKept(drv, e, m)
      /\ \A s \in Fresh(drv, n) : s \in Fresh(e, n) \/ (~item.retry /\ s = item.stage)
  BY <1>2, <1>3 DEF Popped, IsMarker, Exists, n, item
<1>7. item.retry => drv' = e
  BY <1>4
<1>8. ~item.retry => Completed(e, drv', n, item.stage)
  BY <1>2, <1>4, <1>6, StageCompletes
<1>9. /\ Sound(drv') /\ Exists(drv', n)
      /\ \A m \in Node : m # n => NodeKept(drv, drv', m)
      /\ drv'.node[n].alive = drv.node[n].alive
      /\ drv'.node[n].pending /\ drv'.node[n].stage # Complete =>
            /\ drv.node[n].pending /\ drv'.node[n].stage = drv.node[n].stage
            /\ drv.node[n].stage \in Fresh(drv, n) => drv.node[n].stage \in Fresh(drv', n)
  <2>1. CASE item.retry
    BY <1>6, <1>7, <2>1
  <2>2. CASE ~item.retry
    <3>1. \A m \in Node : m # n => NodeKept(drv, drv', m)
      BY <1>6, <1>8, <2>2, KeptTwice DEF Completed, Turned
    <3> QED
      BY <1>6, <1>8, <2>2, <3>1 DEF Completed, Turned
  <2> QED
    BY <2>1, <2>2
<1>10. x \in Step /\ x.node = n /\ x.op = "test"
  BY <1>2, StepTypes, StageNames DEF Ops
<1> HIDE DEF x
<1>11. ops \in Seq(Step) /\ Range(ops) = {x}
  BY <1>10, OneStep
<1> HIDE DEF ops
<1>12. \A y \in Range(ops) : y.op \in Later /\ y.node = n
  BY <1>10, <1>11 DEF Later
<1>13. /\ ThreadsKept(n) /\ thread'[Driver].todo = ops
       /\ \A u \in Thread : \A m : CallKept(thread[u], thread'[u], m)
  BY <1>5, <1>11, <1>12, CallStarts, DriverIsThread
<1>14. ASSUME n \notin overlapped' PROVE NodeInv(drv', thread', n)
  <2>1. NodeInv(drv, thread, n)
    BY <1>1, <1>2, <1>14, SoundNow
  <2>2. CaresIn(thread'[Driver], n)
    BY <1>10, <1>11, <1>13 DEF CaresIn
  <2>3. \A u \in Thread : /\ MarkingIn(thread[u], n) => MarkingIn(thread'[u], n)
                          /\ BegunIn(thread'[u], n) => BegunIn(thread[u], n)
    BY <1>13 DEF CallKept
  <2>4. ~drv'.node[n].alive => \A u \in Thread : ~BegunIn(thread'[u], n)
    BY <1>2, <1>9, <2>1, <2>3 DEF NodeInv
  <2>5. ASSUME drv'.node[n].pending, drv'.node[n].stage # Complete
        PROVE  drv'.node[n].stage \in Fresh(drv', n) \/ \E u \in Thread : MarkingIn(thread'[u], n)
    BY <1>2, <1>9, <2>1, <2>3, <2>5 DEF NodeInv
  <2> QED
    BY <2>2, <2>4, <2>5, DriverIsThread DEF NodeInv
<1> QED
  BY <1>1, <1>2, <1>9, <1>13, <1>14, StepKeeps

LEMMA WriteNextMsgKeeps ==
    ASSUME Inv, WriteNextMsg
    PROVE  Inv'
<1> DEFINE i == Min(Waiting)
           q == QueueName[i]
           item == Head(drv.queue[q])
           n == item.node
           e == Pop(drv, q)
<1>1. /\ Idle(Driver) /\ Waiting # {} /\ Unnoted /\ Uncounted
      /\ IF item.kind = "marker"
         THEN /\ drv' = IF item.retry THEN e ELSE QueryStageComplete(e, n, item.stage)
              /\ Starts(Driver, <<Advance(n)>>)
         ELSE /\ drv' = IF drv.node[n].alive \/ IsPing(item) THEN [e EXCEPT !.msg = item] ELSE e
              /\ UNCHANGED thread
  BY DEF WriteNextMsg, Becomes, Pop, PutQueue
<1>2. q \in Queues /\ drv.queue[q] # <<>>
  <2>1. Waiting \subseteq Nat
    BY QueueNames DEF Waiting
  <2>2. i \in Waiting
    BY <1>1, <2>1, SmallestChosen
  <2> QED
    BY <2>2, QueueNames DEF Waiting
<1> HIDE DEF q
<1>3. CASE item.kind = "marker"
  BY <1>1, <1>2, <1>3, WriteMarkerKeeps
<1>4. CASE item.kind # "marker"
  <2>1. Sound(drv) /\ Counted /\ overlapped' = overlapped
    BY <1>1, SoundNow, Uncounts
  <2>2. item \in Item /\ n \in Node /\ Exists(drv, n)
    <3>1. drv.queue[q] \in Seq(Item) /\ item \in Range(drv.queue[q])
      BY <1>2, <2>1, ItemsOf, TakeFirst
    <3>2. item \in Item
      BY <3>1, InRange
    <3>3. Exists(drv, n)
      BY <1>2, <2>1, <3>1 DEF Sound, OfNodesOnly
    <3> QED
      BY <3>2, <3>3 DEF Item
  <2>3. Popped(drv, e, q)
    BY <1>2, <2>1, PopKeeps
  <2>4. drv' = e \/ drv' = [e EXCEPT !.msg = item]
    BY <1>1, <1>4
  <2> HIDE DEF e, item, n
  <2>5. Sound(e) /\ Kept(drv, e) /\ Exists(e, n) /\ e.node = drv.node
    BY <1>4, <2>2, <2>3 DEF Popped, Kept, IsMarker, item, Exists
  <2>6. /\ drv' \in DriverRec /\ drv'.node = e.node /\ drv'.queue = e.queue
        /\ drv'.timers = e.timers /\ (drv'.msg = e.msg \/ drv'.msg = item)
    BY <2>2, <2>4, <2>5 DEF Sound, DriverRec
  <2>7. Sound(drv')
    <3>1. drv'.msg # Null => Exists(e, drv'.msg.node)
      BY <2>5, <2>6 DEF Sound, OfNodesOnly, n
    <3>2. \A m \in drv'.timers : Exists(e, m)
      BY <2>5, <2>6 DEF Sound, OfNodesOnly
    <3> QED
      BY <2>5, <2>6, <3>1, <3>2, RestBecomes
  <2>8. Kept(e, drv') /\ Exists(drv', n)
    BY <2>5, <2>6, SameKept DEF Exists
  <2>9. Kept(drv, drv')
    BY <2>5, <2>8, KeptTwice DEF Kept
  <2>10. ThreadsKept(n) /\ \A u \in Thread : \A m : CallKept(thread[u], thread'[u], m)
    BY <1>1, <1>4, ThreadsStay DEF item
  <2> QED
    BY <2>1, <2>2, <2>7, <2>8, <2>9, <2>10, AllKept
<1> QED
  BY <1>3, <1>4

(* The message in progress and the timers are no matter of the interview. *)
LEMMA AsideKept ==
    ASSUME NEW d, Sound(d), NEW e \in DriverRec, e.node = d.node, e.queue = d.queue,
           e.msg = d.msg \/ e.msg = Null, e.timers \subseteq d.timers
    PROVE  Sound(e) /\ Kept(d, e) /\ \A m : Exists(e, m) <=> Exists(d, m)
<1>1. e.msg # Null => Exists(d, e.msg.node)
  BY DEF Sound, OfNodesOnly
<1>2. \A m \in e.timers : Exists(d, m)
  BY DEF Sound, OfNodesOnly
<1> QED
  BY <1>1, <1>2, RestBecomes, SameKept

LEMMA MsgGone ==
    ASSUME NEW d, Sound(d)
    PROVE  LET e == [d EXCEPT !.msg = Null] IN
           /\ Sound(e) /\ Kept(d, e) /\ e.node = d.node /\ e.queue = d.queue
           /\ \A m : Exists(e, m) <=> Exists(d, m)
<1> DEFINE e == [d EXCEPT !.msg = Null]
<1>1. /\ e \in DriverRec /\ e.node = d.node /\ e.queue = d.queue /\ e.msg = Null
      /\ e.timers \subseteq d.timers
  BY DEF Sound, DriverRec
<1> HIDE DEF e
<1>2. Sound(e) /\ Kept(d, e) /\ \A m : Exists(e, m) <=> Exists(d, m)
  BY <1>1, AsideKept
<1> QED
  BY <1>1, <1>2 DEF e

(* What the driver does when it has heard of a node. *)
LEMMA HearingKeeps ==
    ASSUME Inv, Idle(Driver), NEW n \in Node, NEW f, Sound(f), Kept(drv, f), Exists(f, n),
           Heard(f, drv', n),
           NEW ops \in Seq(Step), \A x \in Range(ops) : x.op \in Later /\ x.node = n,
           f.node[n].stage # Complete /\ ~f.node[n].alive => Advance(n) \in Range(ops),
           Starts(Driver, ops), Counted, overlapped' = overlapped
    PROVE  Inv'
<1>1. /\ Sound(drv') /\ Exists(drv', n) /\ drv'.node[n].alive
      /\ drv'.node[n].stage = f.node[n].stage /\ drv'.node[n].pending = f.node[n].pending
      /\ Fresh(drv', n) = Fresh(f, n)
      /\ \A m \in Node : m # n => NodeKept(f, drv', m)
      /\ f.node[n].alive => NodeKept(f, drv', n)
  BY DEF Heard, Turned
<1>2. \A m \in Node : m # n => NodeKept(drv, drv', m)
  BY <1>1, KeptTwice DEF Kept
<1>3. /\ ThreadsKept(n) /\ thread'[Driver].todo = ops
      /\ \A u \in Thread : \A m : CallKept(thread[u], thread'[u], m)
  BY CallStarts, DriverIsThread
<1>4. ASSUME n \notin overlapped' PROVE NodeInv(drv', thread', n)
  <2>1. NodeInv(drv, thread, n) /\ NodeKept(drv, f, n)
    BY <1>4, SoundNow DEF Kept
  <2>2. NodeInv(f, thread', n)
    BY <1>3, <2>1, NodeInvKept
  <2>3. CASE f.node[n].alive
    <3>1. \A u \in Thread : CallKept(thread'[u], thread'[u], n)
      BY SameCall
    <3> QED
      BY <1>1, <2>2, <2>3, <3>1, NodeInvKept
  <2>4. CASE ~f.node[n].alive
    <3>1. f.node[n].stage # Complete => CaresIn(thread'[Driver], n)
      <4>1. Advance(n).node = n /\ Advance(n).op = "test"
        BY DEF Advance, Do
      <4> QED
        BY <1>3, <2>4, <4>1 DEF CaresIn
    <3> QED
      BY <1>1, <2>2, <3>1, DriverIsThread DEF NodeInv
  <2> QED
    BY <2>3, <2>4
<1> QED
  BY <1>1, <1>2, <1>3, <1>4, StepKeeps

LEMMA AfterHearingType ==
    ASSUME Inv, NEW n \in Node
    PROVE  /\ AfterHearing(n) \in Seq(Step)
           /\ \A x \in Range(AfterHearing(n)) : x.op \in Later /\ x.node = n
           /\ drv.node[n].stage # Complete /\ ~drv.node[n].alive =>
                 Advance(n) \in Range(AfterHearing(n))
<1> DEFINE x == Advance(n)
<1>1. x \in Step /\ x.node = n /\ x.op = "test"
  BY StepTypes, StageNames DEF Ops
<1>2. AfterHearing(n) = IF drv.node[n].alive \/ drv.node[n].stage = Complete THEN <<>> ELSE <<x>>
  BY DEF AfterHearing
<1> HIDE DEF x
<1>3. <<x>> \in Seq(Step) /\ Range(<<x>>) = {x} /\ <<>> \in Seq(Step) /\ Range(<<>>) = {}
  BY <1>1, OneStep, NoStep
<1> QED
  BY <1>1, <1>2, <1>3 DEF Later, x

LEMMA AnswerReceivedKeeps ==
    ASSUME Inv, AnswerReceived
    PROVE  Inv'
<1> DEFINE n == drv.msg.node
           over == [drv EXCEPT !.msg = Null]
           info == drv.node[n].info \/ drv.msg.stage = ProtocolInfo
           awake == drv.node[n].awake /\ drv.msg.kind # "sleep"
           p == [drv.node[n] EXCEPT !.info = info]
           r == [drv.node[n] EXCEPT !.awake = awake]
           f == PutNode(over, n, r)
<1>1. /\ Idle(Driver) /\ drv.msg # Null /\ Unnoted /\ Uncounted
      /\ IF IsLocal THEN drv' = PutNode(over, n, p) /\ UNCHANGED thread
         ELSE drv' = Hears(f, n) /\ Starts(Driver, AfterHearing(n))
  BY DEF AnswerReceived, Becomes, PutNode
<1>2. Sound(drv) /\ Counted /\ overlapped' = overlapped
  BY <1>1, SoundNow, Uncounts
<1>3. n \in Node /\ Exists(drv, n) /\ drv.node[n] \in NodeRec
  BY <1>1, <1>2, ItemsOf
<1>4. /\ Sound(over) /\ Kept(drv, over) /\ over.node = drv.node /\ Exists(over, n)
  BY <1>2, <1>3, MsgGone
<1> HIDE DEF over, n
<1>5. CASE IsLocal
  <2>1. drv' = PutNode(over, n, p) /\ UNCHANGED thread
    BY <1>1, <1>5
  <2>2. info \in BOOLEAN
    OBVIOUS
  <2>3. /\ p \in NodeRec /\ p.parked = drv.node[n].parked /\ p.stage = drv.node[n].stage
        /\ p.alive = drv.node[n].alive /\ p.pending = drv.node[n].pending
    BY <1>3, <2>2 DEF NodeRec
  <2> HIDE DEF p
  <2>4. MayChange(over, n, p)
    BY <1>4, <2>3 DEF MayChange
  <2>5. Sound(drv') /\ Kept(over, drv') /\ Exists(drv', n)
    BY <1>3, <1>4, <2>1, <2>3, <2>4, Unseen
  <2>6. Kept(drv, drv')
    BY <1>4, <2>5, KeptTwice DEF Kept
  <2>7. ThreadsKept(n) /\ \A u \in Thread : \A m : CallKept(thread[u], thread'[u], m)
    BY <2>1, ThreadsStay
  <2> QED
    BY <1>2, <1>3, <2>5, <2>6, <2>7, AllKept
<1>6. CASE ~IsLocal
  <2>1. drv' = Hears(f, n) /\ Starts(Driver, AfterHearing(n))
    BY <1>1, <1>6
  <2>2. awake \in BOOLEAN
    BY <1>3 DEF NodeRec
  <2> HIDE DEF awake
  <2>3. /\ r \in NodeRec /\ r.parked = drv.node[n].parked /\ r.stage = drv.node[n].stage
        /\ r.alive = drv.node[n].alive /\ r.pending = drv.node[n].pending
    BY <1>3, <2>2 DEF NodeRec
  <2> HIDE DEF r
  <2>4. MayChange(over, n, r)
    BY <1>4, <2>3 DEF MayChange
  <2>5. Sound(f) /\ Kept(over, f) /\ Exists(f, n) /\ f.node[n] = r
    BY <1>3, <1>4, <2>3, <2>4, Unseen
  <2> HIDE DEF f
  <2>6. Kept(drv, f)
    BY <1>4, <2>5, KeptTwice DEF Kept
  <2>7. Heard(f, drv', n)
    BY <1>3, <2>1, <2>5, RevivedFacts
  <2> DEFINE ops == AfterHearing(n)
  <2>8. /\ ops \in Seq(Step) /\ \A x \in Range(ops) : x.op \in Later /\ x.node = n
        /\ f.node[n].stage # Complete /\ ~f.node[n].alive => Advance(n) \in Range(ops)
    BY <1>3, <2>3, <2>5, AfterHearingType
  <2>9. Starts(Driver, ops)
    BY <2>1
  <2> HIDE DEF ops
  <2> QED
    BY <1>1, <1>2, <1>3, <2>5, <2>6, <2>7, <2>8, <2>9, HearingKeeps
<1> QED
  BY <1>5, <1>6

LEMMA GiveUpKeeps ==
    ASSUME Inv, GiveUp
    PROVE  Inv'
<1> DEFINE n == drv.msg.node
<1>1. /\ drv.msg # Null /\ drv' = [drv EXCEPT !.msg = Null] /\ UNCHANGED thread
      /\ UNCHANGED <<removals, overlapped, twice>> /\ (Upset \/ UNCHANGED upsets)
  BY DEF GiveUp, Becomes
<1>2. Sound(drv) /\ Counted /\ overlapped' = overlapped
  BY <1>1, SoundNow, CountedStays
<1>3. n \in Node /\ Exists(drv, n)
  BY <1>1, <1>2, ItemsOf
<1> HIDE DEF n
<1>4. Sound(drv') /\ Kept(drv, drv') /\ Exists(drv', n)
  BY <1>1, <1>2, <1>3, MsgGone
<1>5. ThreadsKept(n) /\ \A u \in Thread : \A m : CallKept(thread[u], thread'[u], m)
  BY <1>1, ThreadsStay
<1> QED
  BY <1>2, <1>3, <1>4, <1>5, AllKept

(* A node turned over is still looked after: it is in the state it was in, or *)
(* no longer waits for the marker that comes.                               *)
LEMMA TurnedInv ==
    ASSUME NEW d, NEW e, NEW n \in Node, Turned(d, e, n), Exists(d, n),
           NEW th \in [Thread -> Call], NEW ti, NodeInv(d, th, n),
           e.node[n].alive => d.node[n].alive,
           \A t \in Thread : CallKept(th[t], ti[t], n),
           ~e.node[n].alive => \A t \in Thread : ~BegunIn(ti[t], n),
           \/ e.node[n].stage = d.node[n].stage /\ e.node[n].pending = d.node[n].pending
              /\ Fresh(e, n) = Fresh(d, n)
           \/ d.node[n].stage # Complete /\ ~e.node[n].pending
    PROVE  NodeInv(e, ti, n)
<1>1. ASSUME NEW t \in Thread, MarkingIn(th[t], n) PROVE CaresIn(th[t], n)
  <2>1. th[t].todo \in Seq(Step) /\ th[t].todo # <<>>
    BY <1>1 DEF Call, MarkingIn
  <2>2. Head(th[t].todo) \in Range(th[t].todo)
    BY <2>1, InRange
  <2> QED
    BY <1>1, <2>2 DEF MarkingIn, CaresIn
<1>2. Marked(d, n) \subseteq Marked(e, n) /\ Fresh(d, n) \subseteq Marked(d, n)
  BY DEF Turned, Fresh, Marked
<1>3. (\E t \in Thread : CaresIn(th[t], n)) => \E t \in Thread : CaresIn(ti[t], n)
  BY DEF CallKept
<1>4. (\E t \in Thread : MarkingIn(th[t], n)) => \E t \in Thread : MarkingIn(ti[t], n)
  BY DEF CallKept
<1>5. CASE /\ e.node[n].stage = d.node[n].stage /\ e.node[n].pending = d.node[n].pending
           /\ Fresh(e, n) = Fresh(d, n)
  BY <1>2, <1>3, <1>4, <1>5 DEF NodeInv
<1>6. CASE d.node[n].stage # Complete /\ ~e.node[n].pending
  <2>1. d.node[n].alive => Marked(d, n) # {} \/ \E t \in Thread : CaresIn(th[t], n)
    BY <1>1, <1>2, <1>6 DEF NodeInv
  <2> QED
    BY <1>2, <1>3, <1>6, <2>1 DEF NodeInv
<1> QED
  BY <1>5, <1>6

LEMMA CheckUnlessType ==
    ASSUME NEW n \in Node, NEW s
    PROVE  /\ CheckUnless(s, n) \in Seq(Step) /\ <<Do("check", n)>> \in Seq(Step)
           /\ \A x \in Range(CheckUnless(s, n)) : x.op \in Later /\ x.node = n
           /\ \A x \in Range(<<Do("check", n)>>) : x.op \in Later /\ x.node = n
<1> DEFINE x == Do("check", n)
<1>1. x \in Step /\ x.node = n /\ x.op = "check"
  BY StepTypes, StageNames DEF Ops
<1>2. CheckUnless(s, n) = IF s = Complete THEN <<>> ELSE <<x>>
  BY DEF CheckUnless
<1> HIDE DEF x
<1>3. <<x>> \in Seq(Step) /\ Range(<<x>>) = {x} /\ <<>> \in Seq(Step) /\ Range(<<>>) = {}
  BY <1>1, OneStep, NoStep
<1> QED
  BY <1>1, <1>2, <1>3 DEF Later, x

(* The driver finds that a node does not answer. *)
LEMMA DiesKeeps ==
    ASSUME Inv, NEW n \in Node, Overlaps(n), Idle(Driver), NEW ops \in Seq(Step),
           \A x \in Range(ops) : x.op \in Later /\ x.node = n, Starts(Driver, ops)
    PROVE  /\ n \notin overlapped' => \A t \in Thread : ~BegunIn(thread'[t], n)
           /\ overlapped \subseteq overlapped'
           /\ overlapped' \subseteq Node
           /\ n \notin overlapped' => n \notin overlapped
<1>1. /\ \A u \in Thread : u # Driver => thread'[u] = thread[u]
      /\ \A u \in Thread : \A m : CallKept(thread[u], thread'[u], m)
  BY CallStarts, DriverIsThread
<1>2. ~BegunIn(thread'[Driver], n)
  BY <1>1, IdleCall, DriverIsThread DEF Idle, CallKept
<1>3. n \notin overlapped' => ~BegunIn(thread[App], n)
  BY DEF Overlaps, BegunIn, Idle, Subject
<1>4. n \notin overlapped' => \A t \in Thread : ~BegunIn(thread'[t], n)
  BY <1>1, <1>2, <1>3, DriverIsThread
<1> QED
  BY <1>4 DEF Overlaps, Inv, TypeOK

LEMMA MoveAllKeeps ==
    ASSUME Inv, NEW n \in Node, Idle(Driver), NEW g, Sound(g), Exists(g, n),
           drv' = MoveMessagesToWakeUpQueue(g, n),
           \A m \in Node : m # n => NodeKept(drv, g, m),
           n \notin overlapped => NodeInv(g, thread, n),
           Starts(Driver, <<Do("check", n)>>), Counted, overlapped' = overlapped
    PROVE  Inv'
<1> DEFINE ops == <<Do("check", n)>>
<1>1. ops \in Seq(Step) /\ \A x \in Range(ops) : x.op \in Later /\ x.node = n
  BY CheckUnlessType
<1>2. Starts(Driver, ops)
  OBVIOUS
<1> HIDE DEF ops
<1>3. ThreadsKept(n) /\ \A u \in Thread : \A m : CallKept(thread[u], thread'[u], m)
  BY <1>1, <1>2, CallStarts, DriverIsThread
<1>4. Moved(g, drv', n)
  BY MoveKeeps
<1>5. Sound(drv') /\ Kept(g, drv') /\ Exists(drv', n)
  BY <1>4 DEF Moved, Kept, NodeKept
<1>6. \A m \in Node : m # n => NodeKept(drv, drv', m)
  BY <1>5, KeptTwice DEF Kept
<1>7. ASSUME n \notin overlapped' PROVE NodeInv(drv', thread', n)
  <2>1. NodeInv(g, thread, n) /\ NodeKept(g, drv', n)
    BY <1>5, <1>7 DEF Kept
  <2> QED
    BY <1>3, <2>1, NodeInvKept
<1> QED
  BY <1>3, <1>5, <1>6, <1>7, StepKeeps

LEMMA NotAcknowledgedKeeps ==
    ASSUME Inv, NotAcknowledged
    PROVE  Inv'
<1> DEFINE n == drv.msg.node
           node == drv.node[n]
           dies == node.errors + 1 >= ErrorLimit
           msg == IF IsPing(drv.msg) THEN Null ELSE drv.msg
           g == [drv EXCEPT !.msg = msg]
           r == [node EXCEPT !.errors = node.errors + 1, !.alive = node.alive /\ ~dies]
           failed == PutNode(g, n, r)
           again == IsPing(drv.msg) /\ node.stage \in ProbeStages
<1>1. /\ Idle(Driver) /\ drv.msg # Null /\ Upset /\ UNCHANGED <<removals, twice>>
      /\ IF CanSleep(drv, n)
         THEN /\ drv' = MoveMessagesToWakeUpQueue(drv, n)
              /\ Starts(Driver, <<Do("check", n)>>) /\ UNCHANGED overlapped
         ELSE /\ drv' = IF again THEN QueryStageRetry(failed, n, node.stage, 3) ELSE failed
              /\ IF dies THEN Starts(Driver, CheckUnless(node.stage, n)) /\ Overlaps(n)
                 ELSE UNCHANGED <<thread, overlapped>>
  <2>1. [drv EXCEPT !.node[n] = r, !.msg = IF IsPing(@) THEN Null ELSE @] = failed
    BY SoundNow DEF PutNode, Sound, DriverRec
  <2> QED
    BY <2>1 DEF NotAcknowledged, Becomes
<1>2. Sound(drv)
  BY SoundNow
<1>3. n \in Node /\ Exists(drv, n) /\ node \in NodeRec
  BY <1>1, <1>2, ItemsOf
<1>4. CASE CanSleep(drv, n)
  <2>1. Counted /\ overlapped' = overlapped
    BY <1>1, <1>4, CountedStays
  <2>2. \A m \in Node : NodeKept(drv, drv, m)
    BY DEF NodeKept
  <2>3. n \notin overlapped => NodeInv(drv, thread, n)
    BY <1>3, SoundNow
  <2> HIDE DEF n
  <2> QED
    BY <1>1, <1>2, <1>3, <1>4, <2>1, <2>2, <2>3, MoveAllKeeps
<1>5. CASE ~CanSleep(drv, n)
  <2> HIDE DEF n
  <2>1. /\ Sound(g) /\ Kept(drv, g) /\ g.node = drv.node /\ g.queue = drv.queue
        /\ \A m : Exists(g, m) <=> Exists(drv, m)
    <3>1. /\ g \in DriverRec /\ g.node = drv.node /\ g.queue = drv.queue
          /\ g.msg = drv.msg \/ g.msg = Null
          /\ g.timers \subseteq drv.timers
      BY <1>2 DEF Sound, DriverRec
    <3> HIDE DEF g
    <3> QED
      BY <1>2, <3>1, AsideKept
  <2>2. node.errors + 1 \in Nat /\ (node.alive /\ ~dies) \in BOOLEAN
    BY <1>3 DEF NodeRec
  <2> HIDE DEF dies
  <2>3. /\ r \in NodeRec /\ r.parked = node.parked /\ r.awake = node.awake /\ r.info = node.info
        /\ r.stage = node.stage /\ r.pending = node.pending /\ r.alive = (node.alive /\ ~dies)
    BY <1>3, <2>2 DEF NodeRec
  <2> HIDE DEF r, g
  <2>4. Turned(g, failed, n) /\ Changed(g, failed, n, r)
    <3>1. MayChange(g, n, r)
      BY <1>3, <2>1, <2>3 DEF MayChange
    <3> QED
      BY <1>3, <2>1, <2>3, <3>1, TurnsOver
  <2> HIDE DEF failed
  <2>5. /\ Sound(failed) /\ Exists(failed, n) /\ failed.node[n] = r
        /\ Fresh(failed, n) = Fresh(g, n)
        /\ \A m \in Node : m # n => NodeKept(drv, failed, m)
    <3>1. \A m \in Node : m # n => NodeKept(g, failed, m)
      BY <2>4 DEF Changed
    <3>2. \A m \in Node : m # n => NodeKept(drv, failed, m)
      BY <2>1, <3>1, KeptTwice DEF Kept
    <3> QED
      BY <1>3, <2>4, <3>2 DEF Turned, Changed, NodePut
  <2>6. /\ Turned(failed, drv', n)
        /\ drv'.node[n].alive = r.alive
        /\ \A m \in Node : m # n => NodeKept(drv, drv', m)
        /\ \/ drv' = failed
           \/ failed.node[n].stage # Complete /\ ~drv'.node[n].pending
    <3>1. CASE again
      <4>1. node.stage \in Stage \ {Complete}
        BY <1>3, <3>1 DEF NodeRec, ProbeStages, Probe, CacheLoad, Complete
      <4>2. StageRetried(failed, drv', n, node.stage)
        BY <1>1, <1>3, <1>5, <2>5, <3>1, <4>1, StageRetries
      <4>3. \A m \in Node : m # n => NodeKept(drv, drv', m)
        BY <2>5, <4>2, KeptTwice DEF StageRetried, Turned
      <4> QED
        BY <2>3, <2>5, <4>1, <4>2, <4>3 DEF StageRetried
    <3>2. CASE ~again
      <4>1. drv' = failed
        BY <1>1, <1>5, <3>2
      <4>2. SameButRetry(failed.queue["Query"], failed.queue["Query"], n)
        BY DEF SameButRetry, Same
      <4>3. \A m \in Node : NodeKept(failed, failed, m)
        BY DEF NodeKept
      <4> QED
        BY <2>5, <4>1, <4>2, <4>3 DEF Turned
    <3> QED
      BY <3>1, <3>2
  <2>7. Sound(drv') /\ Exists(drv', n)
    BY <2>6 DEF Turned
  <2>8. /\ ThreadsKept(n) /\ \A u \in Thread : \A m : CallKept(thread[u], thread'[u], m)
        /\ overlapped \subseteq overlapped' /\ overlapped' \subseteq Node
        /\ n \notin overlapped' /\ (dies \/ ~node.alive) =>
              \A t \in Thread : ~BegunIn(thread'[t], n)
    <3>1. CASE dies
      <4> DEFINE ops == CheckUnless(node.stage, n)
      <4>1. /\ ops \in Seq(Step) /\ \A x \in Range(ops) : x.op \in Later /\ x.node = n
        BY <1>3, CheckUnlessType
      <4>2. Starts(Driver, ops) /\ Overlaps(n)
        BY <1>1, <1>5, <3>1
      <4> HIDE DEF ops
      <4>3. ThreadsKept(n) /\ \A u \in Thread : \A m : CallKept(thread[u], thread'[u], m)
        BY <1>1, <4>1, <4>2, CallStarts, DriverIsThread
      <4> QED
        BY <1>1, <1>3, <4>1, <4>2, <4>3, DiesKeeps
    <3>2. CASE ~dies
      <4>1. UNCHANGED thread /\ overlapped' = overlapped
        BY <1>1, <1>5, <3>2
      <4>2. ThreadsKept(n) /\ \A u \in Thread : \A m : CallKept(thread[u], thread'[u], m)
        BY <4>1, ThreadsStay
      <4>3. n \notin overlapped => NodeInv(drv, thread, n)
        BY <1>3, SoundNow
      <4> QED
        BY <1>3, <3>2, <4>1, <4>2, <4>3 DEF NodeInv, Inv, TypeOK
    <3> QED
      BY <3>1, <3>2
  <2>9. Counted
    BY <1>1, <2>8, QueryConstants DEF Counted, Upset, Inv, TypeOK
  <2>10. ASSUME n \notin overlapped' PROVE NodeInv(drv', thread', n)
    <3>1. NodeInv(drv, thread, n) /\ NodeKept(drv, g, n)
      BY <1>3, <2>1, <2>8, <2>10, SoundNow DEF Kept
    <3>2. \A t \in Thread : CallKept(thread[t], thread[t], n)
      BY SameCall
    <3>3. NodeInv(g, thread, n)
      BY <3>1, <3>2, NodeInvKept
    <3>4. ~r.alive => \A t \in Thread : ~BegunIn(thread'[t], n)
      BY <2>3, <2>8, <2>10
    <3>5. thread \in [Thread -> Call] /\ thread' \in [Thread -> Call]
      BY <2>8 DEF Inv, TypeOK, ThreadsKept
    <3>6. NodeInv(failed, thread', n)
      <4>1. /\ failed.node[n].alive => g.node[n].alive
            /\ failed.node[n].stage = g.node[n].stage /\ failed.node[n].pending = g.node[n].pending
        BY <2>1, <2>3, <2>5
      <4> QED
        BY <1>3, <2>1, <2>4, <2>5, <2>8, <3>3, <3>4, <3>5, <4>1, TurnedInv
    <3>7. CASE drv' = failed
      BY <3>6, <3>7
    <3>8. CASE failed.node[n].stage # Complete /\ ~drv'.node[n].pending
      <4>1. \A t \in Thread : CallKept(thread'[t], thread'[t], n)
        BY SameCall
      <4>2. drv'.node[n].alive => failed.node[n].alive
        BY <2>5, <2>6
      <4>3. ~drv'.node[n].alive => \A t \in Thread : ~BegunIn(thread'[t], n)
        BY <2>6, <3>4
      <4> QED
        BY <1>3, <2>5, <2>6, <3>5, <3>6, <3>8, <4>1, <4>2, <4>3, TurnedInv
    <3> QED
      BY <2>6, <3>7, <3>8
  <2> QED
    BY <1>3, <2>6, <2>7, <2>8, <2>9, <2>10, StepKeeps
<1> QED
  BY <1>4, <1>5

LEMMA NodeInfoRequestFailedKeeps ==
    ASSUME Inv, NodeInfoRequestFailed
    PROVE  Inv'
<1> DEFINE n == drv.msg.node
           g == QueryStageRetry(drv, n, NodeInfo, 2)
<1>1. /\ Idle(Driver) /\ drv.msg # Null /\ Upset /\ UNCHANGED <<removals, overlapped, twice>>
      /\ IF CanSleep(drv, n)
         THEN drv' = MoveMessagesToWakeUpQueue(g, n) /\ Starts(Driver, <<Do("check", n)>>)
         ELSE drv' = [g EXCEPT !.msg = Null] /\ UNCHANGED thread
  BY DEF NodeInfoRequestFailed, IsNodeInfoRequest, Becomes
<1>2. Sound(drv) /\ Counted /\ overlapped' = overlapped
  BY <1>1, SoundNow, CountedStays
<1>3. n \in Node /\ Exists(drv, n)
  BY <1>1, <1>2, ItemsOf
<1> HIDE DEF n
<1>4. StageRetried(drv, g, n, NodeInfo)
  <2>1. NodeInfo \in Stage \ {Complete}
    BY StageNames DEF NodeInfo, Complete
  <2> QED
    BY <1>2, <1>3, <2>1, StageRetries
<1> HIDE DEF g
<1>5. /\ Sound(g) /\ Exists(g, n) /\ Turned(drv, g, n)
      /\ \A m \in Node : m # n => NodeKept(drv, g, m)
  BY <1>4 DEF StageRetried, Turned
<1>6. ASSUME n \notin overlapped PROVE NodeInv(g, thread, n)
  <2>1. NodeInv(drv, thread, n)
    BY <1>3, <1>6, SoundNow
  <2>2. CASE g = drv
    BY <2>1, <2>2
  <2>3. CASE drv.node[n].stage = NodeInfo /\ ~g.node[n].pending
    <3>1. drv.node[n].stage # Complete
      BY <2>3 DEF NodeInfo, Complete
    <3>2. \A t \in Thread : CallKept(thread[t], thread[t], n)
      BY SameCall
    <3>3. thread \in [Thread -> Call]
      BY DEF Inv, TypeOK
    <3>4. g.node[n].alive = drv.node[n].alive
      BY <1>4 DEF StageRetried
    <3>5. ~g.node[n].alive => \A t \in Thread : ~BegunIn(thread[t], n)
      BY <1>3, <2>1, <3>4 DEF NodeInv
    <3> QED
      BY <1>3, <1>5, <2>1, <2>3, <3>1, <3>2, <3>3, <3>4, <3>5, TurnedInv
  <2> QED
    BY <1>4, <2>2, <2>3 DEF StageRetried
<1>7. CASE CanSleep(drv, n)
  BY <1>1, <1>2, <1>3, <1>5, <1>6, <1>7, MoveAllKeeps
<1>8. CASE ~CanSleep(drv, n)
  <2>1. drv' = [g EXCEPT !.msg = Null] /\ UNCHANGED thread
    BY <1>1, <1>8
  <2>2. Sound(drv') /\ Kept(g, drv') /\ Exists(drv', n)
    BY <1>5, <2>1, MsgGone
  <2>3. \A m \in Node : m # n => NodeKept(drv, drv', m)
    BY <1>5, <2>2, KeptTwice DEF Kept
  <2>4. ThreadsKept(n) /\ \A u \in Thread : \A m : CallKept(thread[u], thread'[u], m)
    BY <2>1, ThreadsStay
  <2>5. ASSUME n \notin overlapped' PROVE NodeInv(drv', thread', n)
    <3>1. NodeInv(g, thread, n) /\ NodeKept(g, drv', n)
      BY <1>2, <1>3, <1>6, <2>2, <2>5 DEF Kept
    <3> QED
      BY <2>4, <3>1, NodeInvKept
  <2> QED
    BY <1>2, <1>3, <2>2, <2>3, <2>4, <2>5, StepKeeps
<1> QED
  BY <1>7, <1>8

LEMMA AwakeStep ==
    ASSUME NEW n \in Node
    PROVE  /\ <<Do("awake", n)>> \in Seq(Step)
           /\ \A x \in Range(<<Do("awake", n)>>) : x.op \in Later /\ x.node = n
<1> DEFINE x == Do("awake", n)
<1>1. x \in Step /\ x.node = n /\ x.op = "awake"
  BY StepTypes, StageNames DEF Ops
<1> HIDE DEF x
<1>2. <<x>> \in Seq(Step) /\ Range(<<x>>) = {x}
  BY <1>1, OneStep
<1> QED
  BY <1>1, <1>2 DEF Later, x

LEMMA InfoSteps ==
    ASSUME NEW n \in Node, NEW nif \in BOOLEAN
    PROVE  LET rest == IF nif THEN <<Set(n, Dynamic)>>
                       ELSE (IF HasStaticRequests(n) THEN <<Set(n, ManufacturerSpecific2)>>
                             ELSE <<>>) \o <<Do("nif", n)>>
           IN rest \in Seq(Step) /\ \A x \in Range(rest) : x.op \in Later /\ x.node = n
<1> DEFINE a == Set(n, Dynamic)
           b == Set(n, ManufacturerSpecific2)
           c == Do("nif", n)
           one == <<a>>
           two == <<b>>
           three == <<c>>
           first == IF HasStaticRequests(n) THEN two ELSE <<>>
           both == first \o three
<1>1. Dynamic \in Stage /\ ManufacturerSpecific2 \in Stage /\ None \in Stage
  BY StageNames DEF Optional
<1>2. /\ a \in Step /\ a.node = n /\ a.op \in Later
      /\ b \in Step /\ b.node = n /\ b.op \in Later
      /\ c \in Step /\ c.node = n /\ c.op \in Later
  BY <1>1, StepTypes DEF Ops, Later
<1> HIDE DEF a, b, c
<1>3. /\ one \in Seq(Step) /\ Range(one) = {a} /\ two \in Seq(Step) /\ Range(two) = {b}
      /\ three \in Seq(Step) /\ Range(three) = {c}
  BY <1>2, OneStep
<1> HIDE DEF one, two, three
<1>4. first \in Seq(Step) /\ \A x \in Range(first) : x.op \in Later /\ x.node = n
  BY <1>2, <1>3, NoStep
<1> HIDE DEF first
<1>5. both \in Seq(Step) /\ Range(both) = Range(first) \cup Range(three)
  BY <1>3, <1>4, JoinTwo
<1> HIDE DEF both
<1>6. \A x \in Range(both) : x.op \in Later /\ x.node = n
  BY <1>2, <1>3, <1>4, <1>5
<1>7. \A x \in Range(one) : x.op \in Later /\ x.node = n
  BY <1>2, <1>3
<1> QED
  BY <1>3, <1>5, <1>6, <1>7 DEF both, first, one, two, three, a, b, c

LEMMA JoinSteps ==
    ASSUME NEW s \in Seq(Step), NEW t \in Seq(Step), NEW n,
           \A x \in Range(s) : x.op \in Later /\ x.node = n,
           \A x \in Range(t) : x.op \in Later /\ x.node = n
    PROVE  /\ s \o t \in Seq(Step) /\ \A x \in Range(s \o t) : x.op \in Later /\ x.node = n
           /\ \A x \in Range(s) : x \in Range(s \o t)
<1>1. s \o t \in Seq(Step) /\ Range(s \o t) = Range(s) \cup Range(t)
  BY JoinTwo
<1> QED
  BY <1>1

LEMMA NodeInfoReceivedKeeps ==
    ASSUME Inv, NEW n \in Node, NodeInfoReceived(n)
    PROVE  Inv'
<1> DEFINE answers == IsNodeInfoRequest /\ drv.msg.node = n
           msg == IF answers THEN Null ELSE drv.msg
           f == [drv EXCEPT !.msg = msg]
           rest == IF drv.node[n].nif THEN <<Set(n, Dynamic)>>
                   ELSE (IF HasStaticRequests(n) THEN <<Set(n, ManufacturerSpecific2)>> ELSE <<>>)
                        \o <<Do("nif", n)>>
           hear == AfterHearing(n)
           end == <<Do("awake", n)>>
           ops == (hear \o rest) \o end
<1>1. /\ Idle(Driver) /\ Exists(drv, n) /\ drv' = Hears(f, n) /\ Starts(Driver, ops)
      /\ UNCHANGED <<removals, overlapped, twice>> /\ (Upset \/ UNCHANGED upsets)
  BY DEF NodeInfoReceived, Becomes
<1>2. Sound(drv) /\ Counted /\ overlapped' = overlapped
  BY <1>1, SoundNow, CountedStays
<1>3. drv.node[n] \in NodeRec /\ drv.node[n].nif \in BOOLEAN
  BY <1>1, <1>2, ItemsOf DEF NodeRec
<1>4. rest \in Seq(Step) /\ \A x \in Range(rest) : x.op \in Later /\ x.node = n
  BY <1>3, InfoSteps
<1>5. /\ hear \in Seq(Step) /\ \A x \in Range(hear) : x.op \in Later /\ x.node = n
      /\ drv.node[n].stage # Complete /\ ~drv.node[n].alive => Advance(n) \in Range(hear)
  BY AfterHearingType
<1>6. end \in Seq(Step) /\ \A x \in Range(end) : x.op \in Later /\ x.node = n
  BY AwakeStep
<1> HIDE DEF rest, hear, end
<1>7. /\ hear \o rest \in Seq(Step) /\ \A x \in Range(hear \o rest) : x.op \in Later /\ x.node = n
      /\ \A x \in Range(hear) : x \in Range(hear \o rest)
  BY <1>4, <1>5, JoinSteps
<1>8. /\ ops \in Seq(Step) /\ \A x \in Range(ops) : x.op \in Later /\ x.node = n
      /\ \A x \in Range(hear \o rest) : x \in Range(ops)
  BY <1>6, <1>7, JoinSteps
<1> HIDE DEF ops
<1>9. /\ Sound(f) /\ Kept(drv, f) /\ Exists(f, n) /\ f.node = drv.node
  <2>1. /\ f \in DriverRec /\ f.node = drv.node /\ f.queue = drv.queue
        /\ f.msg = drv.msg \/ f.msg = Null
        /\ f.timers \subseteq drv.timers
    BY <1>2 DEF Sound, DriverRec
  <2> HIDE DEF f
  <2> QED
    BY <1>1, <1>2, <2>1, AsideKept
<1> HIDE DEF f
<1>10. Heard(f, drv', n)
  BY <1>1, <1>9, RevivedFacts
<1>11. f.node[n].stage # Complete /\ ~f.node[n].alive => Advance(n) \in Range(ops)
  BY <1>5, <1>7, <1>8, <1>9
<1> QED
  BY <1>1, <1>2, <1>8, <1>9, <1>10, <1>11, HearingKeeps

LEMMA WakeUpReceivedKeeps ==
    ASSUME Inv, NEW n \in Node, WakeUpReceived(n)
    PROVE  Inv'
<1> DEFINE hear == AfterHearing(n)
           end == <<Do("awake", n)>>
           ops == hear \o end
<1>1. /\ Idle(Driver) /\ Exists(drv, n) /\ drv' = Hears(drv, n) /\ Starts(Driver, ops)
      /\ UNCHANGED <<removals, overlapped, twice>> /\ (Upset \/ UNCHANGED upsets)
  BY DEF WakeUpReceived, Becomes, CanSleep
<1>2. Sound(drv) /\ Counted /\ overlapped' = overlapped /\ Kept(drv, drv)
  BY <1>1, SoundNow, CountedStays, SameKept
<1>3. /\ hear \in Seq(Step) /\ \A x \in Range(hear) : x.op \in Later /\ x.node = n
      /\ drv.node[n].stage # Complete /\ ~drv.node[n].alive => Advance(n) \in Range(hear)
  BY AfterHearingType
<1>4. end \in Seq(Step) /\ \A x \in Range(end) : x.op \in Later /\ x.node = n
  BY AwakeStep
<1> HIDE DEF hear, end
<1>5. /\ ops \in Seq(Step) /\ \A x \in Range(ops) : x.op \in Later /\ x.node = n
      /\ \A x \in Range(hear) : x \in Range(ops)
  BY <1>3, <1>4, JoinSteps
<1> HIDE DEF ops
<1>6. Heard(drv, drv', n)
  BY <1>1, <1>2, RevivedFacts
<1>7. drv.node[n].stage # Complete /\ ~drv.node[n].alive => Advance(n) \in Range(ops)
  BY <1>3, <1>5
<1> QED
  BY <1>1, <1>2, <1>5, <1>6, <1>7, HearingKeeps

LEMMA FailedNodeReportedKeeps ==
    ASSUME Inv, NEW n \in Node, NEW failed \in BOOLEAN, FailedNodeReported(n, failed)
    PROVE  Inv'
<1> DEFINE r == [drv.node[n] EXCEPT !.alive = FALSE]
           stage == drv.node[n].stage
           x == Advance(n)
           check == CheckUnless(stage, n)
           advance == IF stage = Complete THEN <<>> ELSE <<x>>
<1>1. /\ Idle(Driver) /\ Exists(drv, n) /\ Upset /\ UNCHANGED <<removals, twice>>
      /\ failed => drv' = PutNode(drv, n, r) /\ Starts(Driver, check) /\ Overlaps(n)
      /\ ~failed => drv' = Revived(drv, n) /\ Starts(Driver, advance) /\ UNCHANGED overlapped
  BY DEF FailedNodeReported, Becomes, PutNode
<1>2. Sound(drv) /\ drv.node[n] \in NodeRec
  BY <1>1, SoundNow, ItemsOf
<1>3. CASE failed
  <2>1. /\ check \in Seq(Step) /\ \A y \in Range(check) : y.op \in Later /\ y.node = n
    BY CheckUnlessType
  <2>2. drv' = PutNode(drv, n, r) /\ Starts(Driver, check) /\ Overlaps(n)
    BY <1>1, <1>3
  <2> HIDE DEF check
  <2>3. ThreadsKept(n) /\ \A u \in Thread : \A m : CallKept(thread[u], thread'[u], m)
    BY <1>1, <2>1, <2>2, CallStarts, DriverIsThread
  <2>4. /\ n \notin overlapped' => \A t \in Thread : ~BegunIn(thread'[t], n)
        /\ overlapped \subseteq overlapped'
        /\ overlapped' \subseteq Node
        /\ n \notin overlapped' => n \notin overlapped
    BY <1>1, <2>1, <2>2, DiesKeeps
  <2>5. Counted
    BY <1>1, <2>4, QueryConstants DEF Counted, Upset, Inv, TypeOK
  <2>6. /\ r \in NodeRec /\ r.parked = drv.node[n].parked /\ r.awake = drv.node[n].awake
        /\ r.info = drv.node[n].info /\ r.stage = drv.node[n].stage
        /\ r.pending = drv.node[n].pending /\ ~r.alive
    BY <1>2 DEF NodeRec
  <2> HIDE DEF r
  <2>7. Turned(drv, drv', n) /\ Changed(drv, drv', n, r)
    <3>1. MayChange(drv, n, r)
      BY <1>1, <1>2, <2>6 DEF MayChange
    <3> QED
      BY <2>2, <2>6, <3>1, TurnsOver
  <2>8. drv'.node[n] = r /\ Fresh(drv', n) = Fresh(drv, n)
    BY <2>7 DEF Changed, NodePut
  <2>9. ASSUME n \notin overlapped' PROVE NodeInv(drv', thread', n)
    <3>1. NodeInv(drv, thread, n)
      BY <2>4, <2>9, SoundNow
    <3>2. thread \in [Thread -> Call]
      BY DEF Inv, TypeOK
    <3> QED
      BY <1>1, <2>3, <2>4, <2>6, <2>7, <2>8, <2>9, <3>1, <3>2, TurnedInv
  <2> QED
    BY <2>3, <2>4, <2>5, <2>7, <2>9, StepKeeps DEF Turned
<1>4. CASE ~failed
  <2>1. x \in Step /\ x.node = n /\ x.op = "test"
    BY StepTypes, StageNames DEF Ops
  <2>2. <<x>> \in Seq(Step) /\ Range(<<x>>) = {x} /\ <<>> \in Seq(Step) /\ Range(<<>>) = {}
    BY <2>1, OneStep, NoStep
  <2>3. /\ advance \in Seq(Step) /\ \A y \in Range(advance) : y.op \in Later /\ y.node = n
        /\ stage # Complete /\ ~drv.node[n].alive => x \in Range(advance)
    BY <2>1, <2>2 DEF Later
  <2>4. drv' = Revived(drv, n) /\ Starts(Driver, advance) /\ overlapped' = overlapped
    BY <1>1, <1>4
  <2> HIDE DEF advance
  <2>5. Counted
    BY <1>1, <2>4, CountedStays
  <2>6. Heard(drv, drv', n) /\ Kept(drv, drv)
    BY <1>1, <1>2, <2>4, RevivedFacts, SameKept
  <2> QED
    BY <1>1, <1>2, <2>3, <2>4, <2>5, <2>6, HearingKeeps
<1> QED
  BY <1>3, <1>4

LEMMA SetPollRequiredKeeps ==
    ASSUME Inv, NEW n \in Node, SetPollRequired(n)
    PROVE  Inv'
<1> DEFINE r == [drv.node[n] EXCEPT !.poll = TRUE]
<1>1. /\ Exists(drv, n) /\ drv' = PutNode(drv, n, r) /\ UNCHANGED thread
      /\ UNCHANGED <<removals, overlapped, twice>> /\ Upset
  BY DEF SetPollRequired, Becomes, PutNode, Asleep, CanSleep
<1>2. Sound(drv) /\ drv.node[n] \in NodeRec /\ Counted /\ overlapped' = overlapped
  BY <1>1, SoundNow, ItemsOf, CountedStays
<1>3. /\ r \in NodeRec /\ r.parked = drv.node[n].parked /\ r.stage = drv.node[n].stage
      /\ r.alive = drv.node[n].alive /\ r.pending = drv.node[n].pending
  BY <1>2 DEF NodeRec
<1> HIDE DEF r
<1>4. MayChange(drv, n, r)
  BY <1>1, <1>2, <1>3 DEF MayChange
<1>5. Sound(drv') /\ Kept(drv, drv') /\ Exists(drv', n)
  BY <1>1, <1>3, <1>4, Unseen
<1>6. ThreadsKept(n) /\ \A u \in Thread : \A m : CallKept(thread[u], thread'[u], m)
  BY <1>1, ThreadsStay
<1> QED
  BY <1>2, <1>5, <1>6, AllKept

LEMMA SendNoMoreInfoKeeps ==
    ASSUME Inv, NEW n \in Node, SendNoMoreInfo(n)
    PROVE  Inv'
<1> DEFINE f == [drv EXCEPT !.timers = drv.timers \ {n}]
           item == NoMoreInformation(n)
<1>1. /\ n \in drv.timers /\ drv' = SendMsg(f, "WakeUp", item) /\ UNCHANGED thread
      /\ Unnoted /\ Uncounted
  BY DEF SendNoMoreInfo, Becomes
<1>2. Sound(drv) /\ Exists(drv, n) /\ Counted /\ overlapped' = overlapped
  BY <1>1, SoundNow, Uncounts DEF Sound, OfNodesOnly
<1>3. Sound(f) /\ Kept(drv, f) /\ Exists(f, n)
  <2>1. /\ f \in DriverRec /\ f.node = drv.node /\ f.queue = drv.queue /\ f.msg = drv.msg
        /\ f.timers \subseteq drv.timers
    BY <1>2 DEF Sound, DriverRec
  <2> HIDE DEF f
  <2> QED
    BY <1>2, <2>1, AsideKept
<1> HIDE DEF f
<1>4. item \in Item /\ n = item.node
  BY ItemTypes, StageNames
<1> HIDE DEF item
<1>5. Sent(f, drv', "WakeUp", item, n)
  BY <1>1, <1>3, <1>4, SendMsgKeeps, QueueNames
<1>6. Sound(drv') /\ Kept(drv, drv')
  BY <1>3, <1>5, KeptTwice DEF Sent, Kept
<1>7. Exists(drv', n)
  BY <1>2, <1>6 DEF Kept, NodeKept
<1>8. ThreadsKept(n) /\ \A u \in Thread : \A m : CallKept(thread[u], thread'[u], m)
  BY <1>1, ThreadsStay
<1> QED
  BY <1>2, <1>6, <1>7, <1>8, AllKept

LEMMA SetStep ==
    ASSUME NEW n \in Node, NEW s \in Stage
    PROVE  /\ <<Set(n, s)>> \in Seq(Step)
           /\ \A x \in Range(<<Set(n, s)>>) : x.op \in Later /\ x.node = n /\ x.op = "set"
           /\ Range(<<Set(n, s)>>) = {Set(n, s)}
<1> DEFINE x == Set(n, s)
<1>1. x \in Step /\ x.node = n /\ x.op = "set"
  BY StepTypes DEF Ops
<1> HIDE DEF x
<1>2. <<x>> \in Seq(Step) /\ Range(<<x>>) = {x}
  BY <1>1, OneStep
<1> QED
  BY <1>1, <1>2 DEF Later, x

LEMMA RequestStateKeeps ==
    ASSUME Inv, NEW n \in Node, NEW s \in {Associations, Dynamic, Configuration},
           RequestState(n, s)
    PROVE  Inv'
<1> DEFINE ops == <<Set(n, s)>>
<1>1. /\ Idle(App) /\ Exists(drv, n) /\ Starts(App, ops) /\ Upset /\ drv' = drv
      /\ UNCHANGED <<removals, overlapped, twice>>
  BY DEF RequestState
<1>2. Sound(drv') /\ Counted /\ overlapped' = overlapped /\ Exists(drv', n)
  BY <1>1, SoundNow, CountedStays
<1>3. s \in Stage
  BY StageNames DEF Optional
<1>4. ops \in Seq(Step) /\ \A x \in Range(ops) : x.op \in Later /\ x.node = n
  BY <1>3, SetStep
<1> HIDE DEF ops
<1>5. ThreadsKept(n) /\ \A u \in Thread : \A m : CallKept(thread[u], thread'[u], m)
  BY <1>1, <1>4, CallStarts, DriverIsThread
<1>6. Kept(drv, drv')
  BY <1>1, SameKept
<1> QED
  BY <1>2, <1>5, <1>6, AllKept

LEMMA NewNodePut ==
    ASSUME NEW f, Sound(f), NEW n \in Node, ~Exists(f, n),
           NEW e, e = [f EXCEPT !.node = [f.node EXCEPT ![n] = NewNode]]
    PROVE  /\ Sound(e) /\ Exists(e, n) /\ e.node[n] = NewNode /\ e.queue = f.queue
           /\ \A m \in Node : m # n => NodeKept(f, e, m) /\ e.node[m] = f.node[m]
<1>1. NewNode \in NodeRec /\ NewNode.parked = <<>>
  BY NewNodeType
<1>2. NewNode # Null
  BY <1>1, QueryConstants
<1> HIDE DEF NewNode
<1>3. /\ e \in DriverRec /\ e.queue = f.queue /\ e.msg = f.msg /\ e.timers = f.timers
      /\ e.node = [f.node EXCEPT ![n] = NewNode] /\ f.node \in [Node -> NodeRec \cup {Null}]
      /\ f.timers \subseteq Node
  BY <1>1 DEF Sound, DriverRec
<1>4. e.node[n] = NewNode /\ \A m \in Node : m # n => e.node[m] = f.node[m]
  BY <1>3
<1>5. Exists(e, n) /\ \A m \in Node : m # n => (Exists(e, m) <=> Exists(f, m))
  BY <1>2, <1>4 DEF Exists
<1>6. OfNodesOnly(e)
  <2>1. \A q \in Queues : \A x \in Range(f.queue[q]) : x.node \in Node /\ Exists(f, x.node)
    BY ItemsOf
  <2>2. f.msg # Null => f.msg.node \in Node /\ Exists(f, f.msg.node)
    BY ItemsOf
  <2>3. Range(<<>>) = {}
    BY NoStep
  <2>4. \A m \in Node : Exists(e, m) => \A x \in Range(e.node[m].parked) : x.node = m
    BY <1>1, <1>4, <1>5, <2>3 DEF Sound, OfNodesOnly
  <2>5. \A m \in f.timers : Exists(f, m)
    BY DEF Sound, OfNodesOnly
  <2> QED
    BY <1>3, <1>5, <2>1, <2>2, <2>4, <2>5 DEF OfNodesOnly
<1>7. ASSUME NEW m \in Node, m # n PROVE NodeKept(f, e, m)
  <2>1. Queued(e) = Queued(f) /\ Parked(e, m) = Parked(f, m)
    BY <1>3, <1>4, <1>7 DEF Queued, Parked
  <2> QED
    BY <1>4, <1>5, <1>7, <2>1 DEF NodeKept, Marked, Fresh
<1> QED
  BY <1>3, <1>4, <1>5, <1>6, <1>7 DEF Sound

LEMMA InitNodeKeeps ==
    ASSUME Inv, NEW t \in Thread, NEW n \in Node, InitNode(t, n), Upset
    PROVE  Inv'
<1> DEFINE f == IF Exists(drv, n) THEN DeleteNode(drv, n) ELSE drv
           ops == <<Set(n, ProtocolInfo)>>
<1>1. /\ Idle(t) /\ drv' = [f EXCEPT !.node = [f.node EXCEPT ![n] = NewNode]]
      /\ Starts(t, ops)
      /\ overlapped' = overlapped \ {n} /\ twice' = twice \ {n} /\ UNCHANGED removals
  BY DEF InitNode, Becomes
<1>2. Sound(drv)
  BY SoundNow
<1>3. Sound(f) /\ ~Exists(f, n) /\ \A m \in Node : m # n => NodeKept(drv, f, m)
  <2>1. CASE Exists(drv, n)
    BY <1>2, <2>1, DeleteKeeps
  <2>2. CASE ~Exists(drv, n)
    BY <1>2, <2>2, SameKept DEF Kept
  <2> QED
    BY <2>1, <2>2
<1> HIDE DEF f
<1>4. /\ Sound(drv') /\ Exists(drv', n) /\ drv'.node[n] = NewNode
      /\ \A m \in Node : m # n => NodeKept(f, drv', m)
  BY <1>1, <1>3, NewNodePut
<1>5. \A m \in Node : m # n => NodeKept(drv, drv', m)
  BY <1>3, <1>4, KeptTwice
<1>6. Counted
  BY <1>1, QueryConstants DEF Counted, Upset, Inv, TypeOK
<1>7. ProtocolInfo \in Stage
  BY StageNames
<1>8. /\ ops \in Seq(Step) /\ \A x \in Range(ops) : x.op \in Later /\ x.node = n
      /\ \E x \in Range(ops) : x.op = "set" /\ x.node = n
  BY <1>7, SetStep
<1> HIDE DEF ops
<1>9. ThreadsKept(n) /\ thread'[t].todo = ops
  BY <1>1, <1>8, CallStarts
<1>10. NodeInv(drv', thread', n)
  <2>1. CaresIn(thread'[t], n)
    BY <1>8, <1>9 DEF CaresIn
  <2>2. drv'.node[n].alive /\ ~drv'.node[n].pending
    BY <1>4 DEF NewNode
  <2> QED
    BY <2>1, <2>2 DEF NodeInv
<1> QED
  BY <1>1, <1>4, <1>5, <1>6, <1>9, <1>10, StepKeeps

LEMMA NodeRemovedKeeps ==
    ASSUME Inv, NEW n \in Node, NodeRemoved(n)
    PROVE  Inv'
<1>1. /\ Idle(Driver) /\ Idle(App) /\ drv' = DeleteNode(drv, n) /\ removals' = TRUE /\ Upset
      /\ overlapped' = overlapped \ {n} /\ twice' = twice \ {n} /\ thread' = thread
  BY QueryConstants DEF NodeRemoved, Becomes, MayLock
<1>2. Sound(drv)
  BY SoundNow
<1>3. /\ Sound(drv') /\ ~Exists(drv', n)
      /\ \A m \in Node : m # n => NodeKept(drv, drv', m)
  BY <1>1, <1>2, DeleteKeeps
<1>4. \A t \in Thread : Range(thread'[t].todo) = {}
  BY <1>1, NoStep, DriverIsThread DEF Idle
<1>5. TypeOK'
  BY <1>1, <1>3, <1>4, QueryConstants DEF TypeOK, Inv, Upset, Sound
<1>6. ASSUME NEW m \in Node \ overlapped' PROVE NodeInv(drv', thread', m)
  <2>1. CASE m = n
    BY <1>3, <2>1 DEF NodeInv
  <2>2. CASE m # n
    <3>1. NodeInv(drv, thread, m) /\ NodeKept(drv, drv', m)
      BY <1>1, <1>3, <1>6, <2>2 DEF Inv
    <3>2. \A t \in Thread : CallKept(thread[t], thread'[t], m)
      BY <1>1, SameCall
    <3> QED
      BY <3>1, <3>2, NodeInvKept
  <2> QED
    BY <2>1, <2>2
<1> QED
  BY <1>1, <1>5, <1>6 DEF Inv

-----------------------------------------------------------------------------
(* At the start the driver thread has every node still to do.                *)
LEMMA ListOfAll ==
    ASSUME NEW S, IsFiniteSet(S)
    PROVE  SetToSeq(S) \in Seq(S) /\ Range(SetToSeq(S)) = S
<1> DEFINE n == Cardinality(S)
<1>1. n \in Nat /\ ExistsBijection(1..n, S)
  BY FS_CardinalityType
<1> HIDE DEF n
<1>2. \E f \in [1..n -> S] : IsInjective(f)
  BY <1>1 DEF ExistsBijection, Bijection, Injection
<1>3. SetToSeq(S) \in [1..n -> S] /\ IsInjective(SetToSeq(S))
  BY <1>2 DEF SetToSeq, n
<1> DEFINE f == SetToSeq(S)
<1> HIDE DEF f
<1>4. f \in Injection(1..n, S)
  BY <1>3 DEF Injection, f
<1>5. Cardinality(1..n) = n
  <2>1. 0 \in Nat /\ 1 \in Int /\ n \in Int
    BY <1>1
  <2>2. Cardinality(1..n) = IF 1 > n THEN 0 ELSE n - 1 + 1
    BY <2>1, FS_Interval
  <2> QED
    BY <1>1, <2>2
<1>6. f \in Surjection(1..n, S)
  BY <1>4, <1>5, FS_Injection DEF n
<1>7. Range(f) = S
  BY <1>6 DEF Surjection, Range
<1>8. f \in Seq(S)
  BY <1>1, <1>3 DEF f
<1> QED
  BY <1>7, <1>8 DEF f

LEMMA InitDataFacts ==
    ASSUME NEW order \in Seq(Node), Range(order) = Node
    PROVE  /\ InitData(order) \in Seq(Step)
           /\ \A x \in Range(InitData(order)) : x.node \in Node /\ x.op = "set"
           /\ \A n \in Node : \E x \in Range(InitData(order)) : x.node = n
<1> DEFINE todo == InitData(order)
           stage(n) == IF n \in Cached THEN CacheLoad ELSE ProtocolInfo
<1>1. DOMAIN order = 1..Len(order) /\ Len(order) \in Nat /\ \A k \in DOMAIN order : order[k] \in Node
  BY LenProperties, ElementOfSeq
<1>2. DOMAIN todo = DOMAIN order /\ \A k \in DOMAIN order : todo[k] = Set(order[k], stage(order[k]))
  BY DEF InitData
<1>3. \A n \in Node : stage(n) \in Stage
  BY StageNames
<1> HIDE DEF todo, stage
<1>4. "set" \in Ops
  BY DEF Ops
<1>5. \A k \in DOMAIN todo : todo[k] \in Step /\ todo[k].node = order[k] /\ todo[k].op = "set"
  BY <1>1, <1>2, <1>3, <1>4, StepTypes
<1>6. todo \in Seq(Step)
  <2>1. todo \in [1..Len(order) -> Step]
    BY <1>1, <1>2, <1>5 DEF todo, InitData
  <2> QED
    BY <1>1, <2>1
<1>7. ASSUME NEW n \in Node PROVE \E x \in Range(todo) : x.node = n
  <2>1. PICK k \in DOMAIN order : order[k] = n
    BY DEF Range
  <2> QED
    BY <1>2, <1>5, <2>1 DEF Range
<1> QED
  BY <1>1, <1>2, <1>5, <1>6, <1>7 DEF Range, todo

LEMMA InitHolds ==
    ASSUME Init
    PROVE  Inv
<1> DEFINE order == SetToSeq(Node)
           todo == InitData(order)
<1>1. order \in Seq(Node) /\ Range(order) = Node
  BY ListOfAll, QueryConstants
<1> HIDE DEF order
<1>2. /\ todo \in Seq(Step) /\ \A x \in Range(todo) : x.node \in Node /\ x.op = "set"
      /\ \A n \in Node : \E x \in Range(todo) : x.node = n
  BY <1>1, InitDataFacts
<1> HIDE DEF todo
<1>3. /\ drv = [node |-> [n \in Node |-> IF n \in Cached THEN ReadNode ELSE NewNode],
                queue |-> [q \in Queues |-> <<>>], msg |-> Null, timers |-> {},
                awakeQueried |-> FALSE, allQueried |-> FALSE]
      /\ thread = [t \in Thread |-> [addQSC |-> FALSE,
                     todo |-> IF t = Driver THEN todo ELSE <<>>]]
      /\ upsets = 0 /\ removals = FALSE /\ overlapped = {} /\ twice = {}
  BY DEF Init, todo, order
<1>4. /\ NewNode \in NodeRec /\ ReadNode \in NodeRec
      /\ NewNode.parked = <<>> /\ ReadNode.parked = <<>>
      /\ NewNode.alive /\ ~NewNode.pending /\ ReadNode.alive /\ ~ReadNode.pending
  BY NewNodeType DEF NewNode, ReadNode
<1> HIDE DEF NewNode, ReadNode
<1>5. \A n \in Node : /\ drv.node[n] \in {NewNode, ReadNode} /\ Exists(drv, n)
                      /\ drv.node[n].parked = <<>>
                      /\ drv.node[n].alive /\ ~drv.node[n].pending
  BY <1>3, <1>4, QueryConstants DEF Exists
<1>6. <<>> \in Seq(Item) /\ <<>> \in Seq(Step) /\ Range(<<>>) = {}
  BY NoStep
<1>7. drv \in DriverRec
  <2>1. drv.node \in [Node -> NodeRec \cup {Null}]
    BY <1>3, <1>4
  <2>2. [q \in Queues |-> <<>>] \in [Queues -> Seq(Item)]
    BY <1>6
  <2> QED
    BY <1>3, <2>1, <2>2 DEF DriverRec
<1>8. OfNodesOnly(drv)
  BY <1>3, <1>5, <1>6 DEF OfNodesOnly
<1>9. /\ thread \in [Thread -> Call] /\ thread[Driver].todo = todo
      /\ \A t \in Thread : thread[t].todo = todo \/ thread[t].todo = <<>>
  BY <1>2, <1>3, <1>6, DriverIsThread DEF Call
<1>10. TypeOK
  <2>1. \A t \in Thread : \A x \in Range(thread[t].todo) : Exists(drv, x.node)
    BY <1>2, <1>5, <1>6, <1>9
  <2>2. upsets \in 0..MaxUpsets /\ removals \in BOOLEAN
    <3>1. MaxUpsets \in Nat
      BY QueryConstants
    <3>2. removals \in BOOLEAN
      BY <1>3, Zenon
    <3> QED
      BY <1>3, <3>1, <3>2
  <2>3. overlapped \subseteq Node /\ twice \subseteq Node
    BY <1>3
  <2> QED
    BY <1>7, <1>8, <1>9, <2>1, <2>2, <2>3 DEF TypeOK
<1>11. \A t \in Thread : PlainCall(thread[t])
  <2>1. todo # <<>> => \A x \in Range(Tail(todo)) : x \in Range(todo)
    BY <1>2, TakeFirst
  <2> QED
    BY <1>2, <1>9, <2>1 DEF PlainCall, Later
<1>12. ASSUME NEW m \in Node PROVE NodeInv(drv, thread, m)
  <2>1. CaresIn(thread[Driver], m)
    BY <1>2, <1>9 DEF CaresIn
  <2> QED
    BY <1>5, <2>1, DriverIsThread DEF NodeInv
<1> QED
  BY <1>10, <1>11, <1>12 DEF Inv

LEMMA NextKeeps ==
    ASSUME Inv, [Next]_vars
    PROVE  Inv'
<1>1. CASE UNCHANGED vars
  BY <1>1 DEF vars, Inv, TypeOK, OfNodesOnly, Exists, PlainCall, NodeInv, Marked, Queued, Parked,
              Fresh, BegunIn, CaresIn, MarkingIn
<1>2. CASE \E t \in Thread : ThreadStep(t)
  BY <1>2, SetQueryStageKeeps, TestLoopKeeps, ActOnStageKeeps, AddMarkerKeeps DEF ThreadStep
<1>3. CASE CallStep
  BY <1>3, NodeInfoKeptKeeps, SetAwakeKeeps, SendAllPendingKeeps, CheckCompletedKeeps DEF CallStep
<1>4. CASE WriteNextMsg
  BY <1>4, WriteNextMsgKeeps
<1>5. CASE MessageEnds
  <2>1. drv.msg # Null => drv.msg.node \in Node
    BY SoundNow, ItemsOf
  <2>2. ASSUME IsNodeInfoRequest, NodeInfoReceived(drv.msg.node) PROVE Inv'
    BY <2>1, <2>2, NodeInfoReceivedKeeps DEF IsNodeInfoRequest
  <2> QED
    BY <1>5, <2>2, AnswerReceivedKeeps, NotAcknowledgedKeeps, GiveUpKeeps,
       NodeInfoRequestFailedKeeps DEF MessageEnds
<1>6. ASSUME NEW n \in Node,
             \/ NodeInfoReceived(n) \/ WakeUpReceived(n) \/ NodeRemoved(n) \/ SetPollRequired(n)
             \/ SendNoMoreInfo(n)
      PROVE  Inv'
  BY <1>6, NodeInfoReceivedKeeps, WakeUpReceivedKeeps, NodeRemovedKeeps, SetPollRequiredKeeps,
     SendNoMoreInfoKeeps
<1>7. ASSUME NEW n \in Node, NEW failed \in BOOLEAN, FailedNodeReported(n, failed) PROVE Inv'
  BY <1>7, FailedNodeReportedKeeps
<1>8. ASSUME NEW n \in Node, NewIdAssigned(n) \/ RefreshNodeInfo(n) PROVE Inv'
  BY <1>8, InitNodeKeeps, DriverIsThread DEF NewIdAssigned, RefreshNodeInfo
<1>9. ASSUME NEW n \in Node, NEW s \in {Associations, Dynamic, Configuration}, RequestState(n, s)
      PROVE  Inv'
  BY <1>9, RequestStateKeeps
<1> QED
  BY <1>1, <1>2, <1>3, <1>4, <1>5, <1>6, <1>7, <1>8, <1>9 DEF Next

LEMMA AlwaysInv == Spec => []Inv
<1>1. Init => Inv
  BY InitHolds
<1>2. Inv /\ [Next]_vars => Inv'
  BY NextKeeps
<1> QED
  BY <1>1, <1>2, PTL DEF Spec

(***************************************************************************)
(* What the queues, the wake-up queues and the calls of the threads hold   *)
(* is always of a node that exists: ~Node and RemoveQueues leave nothing   *)
(* behind (Node.cpp, ~Node; Driver.cpp, RemoveQueues).                     *)
(***************************************************************************)
THEOREM TypeCorrect == Spec => []TypeOK
<1>1. Inv => TypeOK
  BY DEF Inv
<1> QED
  BY <1>1, AlwaysInv, PTL

LEMMA InvResumes ==
    ASSUME Inv
    PROVE  AlwaysResumes
<1> SUFFICES ASSUME NEW n \in Unfinished(drv) \ overlapped, ~Advancing(n)
             PROVE  \E m \in Marks(n) : drv.node[n].pending => m.stage = drv.node[n].stage
  BY DEF AlwaysResumes
<1>1. /\ n \in Node \ overlapped /\ Exists(drv, n)
      /\ drv.node[n].stage # Complete /\ drv.node[n].alive
  BY DEF Unfinished
<1>2. NodeInv(drv, thread, n)
  BY <1>1 DEF Inv
<1>3. \A t \in Thread : thread[t].todo \in Seq(Step)
  BY DEF Inv, TypeOK, Call
<1>4. \A t \in Thread : ~CaresIn(thread[t], n) /\ ~MarkingIn(thread[t], n)
  <2> TAKE t \in Thread
  <2>1. thread[t].todo # <<>> => Head(thread[t].todo) \in Range(thread[t].todo)
    BY <1>3, InRange
  <2> QED
    BY <2>1 DEF CaresIn, MarkingIn, Advancing
<1>5. CASE ~drv.node[n].pending
  <2>1. Marked(drv, n) # {}
    BY <1>1, <1>2, <1>4, <1>5 DEF NodeInv
  <2> QED
    BY <1>5, <2>1 DEF Marked, Queued, Parked, IsMarker, Marks
<1>6. CASE drv.node[n].pending
  <2>1. drv.node[n].stage \in Fresh(drv, n)
    BY <1>1, <1>2, <1>4, <1>6 DEF NodeInv
  <2> QED
    BY <1>1, <2>1 DEF Fresh, Queued, Parked, IsMarker, Marks
<1> QED
  BY <1>5, <1>6 DEF Unfinished

(***************************************************************************)
(* An interview under way never loses everybody who could go on with it:   *)
(* AdvanceQueries is left with a marker queued or parked, of the pending   *)
(* stage if there is one, whatever the order of answers, errors, wake-ups  *)
(* and calls of the application (Node.cpp, AdvanceQueries and              *)
(* QueryStageRetry; Driver.cpp, SendQueryStageComplete), but for the nodes *)
(* that died while the application was in the call.                        *)
(***************************************************************************)
THEOREM ResumesCorrect == Spec => []AlwaysResumes
<1>1. Inv => AlwaysResumes
  BY InvResumes
<1> QED
  BY <1>1, AlwaysInv, PTL

-----------------------------------------------------------------------------
(* The order of markers and requests. In the query queue no request of a     *)
(* stage follows a marker of that stage (Ordered), but for the nodes that    *)
(* were asked again while a marker was still to come (twice). What is parked *)
(* stays there while the node sleeps or until the driver thread sends it: it *)
(* has "pending" still to do.                                                *)
Asks(x, n) == x.kind = "request" /\ x.node = n
Ordered(s, n) ==
    \A k, j \in DOMAIN s : k < j /\ IsMarker(s[k], n) /\ Asks(s[j], n) => s[k].stage # s[j].stage
MarkStages(s, n) == {x.stage : x \in {y \in Range(s) : IsMarker(y, n)}}
Query(d) == d.queue["Query"]

\* What happens to the query queue does no harm to a node.
QueryKept(s, u, n) ==
    /\ Ordered(s, n) => Ordered(u, n)
    /\ MarkStages(u, n) \subseteq MarkStages(s, n)

LEMMA RetryKeepsOrder ==
    ASSUME NEW s, NEW u, NEW n, SameButRetry(s, u, n), NEW m
    PROVE  QueryKept(s, u, m)
<1>1. DOMAIN u = DOMAIN s /\ \A k \in DOMAIN s : Same(s[k], u[k])
  BY DEF SameButRetry
<1>2. ASSUME Ordered(s, m) PROVE Ordered(u, m)
  BY <1>1, <1>2 DEF Ordered, Same, IsMarker, Asks
<1>3. ASSUME NEW t \in MarkStages(u, m) PROVE t \in MarkStages(s, m)
  <2>1. PICK k \in DOMAIN u : IsMarker(u[k], m) /\ t = u[k].stage
    BY DEF MarkStages, Range
  <2>2. s[k] \in Range(s) /\ IsMarker(s[k], m) /\ t = s[k].stage
    BY <1>1, <2>1 DEF Same, IsMarker, Range
  <2> QED
    BY <2>2 DEF MarkStages
<1> QED
  BY <1>2, <1>3 DEF QueryKept

LEMMA TailKeepsOrder ==
    ASSUME NEW s \in Seq(Item), s # <<>>, NEW m
    PROVE  QueryKept(s, Tail(s), m)
<1> DEFINE u == Tail(s)
<1>1. Len(s) \in Nat /\ Len(s) > 0 /\ DOMAIN s = 1..Len(s)
  BY LenProperties, EmptySeq
<1>2. DOMAIN u = 1..(Len(s) - 1) /\ \A i \in 1..(Len(s) - 1) : u[i] = s[i + 1]
  BY <1>1, LenProperties, HeadTailProperties
<1> HIDE DEF u
<1>3. \A i \in DOMAIN u : i \in Int /\ i + 1 \in DOMAIN s /\ u[i] = s[i + 1]
  BY <1>1, <1>2
<1>4. ASSUME Ordered(s, m) PROVE Ordered(u, m)
  <2> SUFFICES ASSUME NEW k \in DOMAIN u, NEW j \in DOMAIN u, k < j, IsMarker(u[k], m), Asks(u[j], m)
               PROVE  u[k].stage # u[j].stage
    BY DEF Ordered
  <2>1. k + 1 < j + 1
    BY <1>3
  <2> QED
    BY <1>3, <1>4, <2>1 DEF Ordered
<1>5. MarkStages(u, m) \subseteq MarkStages(s, m)
  BY <1>3 DEF MarkStages, Range
<1> QED
  BY <1>4, <1>5 DEF QueryKept, u

LEMMA NotOfKeepsOrder ==
    ASSUME NEW s \in Seq(Item), NEW n, NEW m
    PROVE  QueryKept(s, NotOf(s, n), m)
<1> DEFINE kept == {k \in DOMAIN s : s[k].node # n}
           u == Sublist(s, kept)
<1>1. kept \subseteq DOMAIN s /\ NotOf(s, n) = u
  BY DEF NotOf
<1>2. DOMAIN s \subseteq Int
  BY LenProperties
<1> HIDE DEF kept
<1>3. PICK place : Picks(u, s, kept, place)
  BY <1>1, SublistPlaces
<1> HIDE DEF u
<1>4. /\ \A j \in DOMAIN u : place[j] \in DOMAIN s /\ u[j] = s[place[j]]
      /\ \A i, j \in DOMAIN u : i < j => place[i] < place[j]
  BY <1>1, <1>3 DEF Picks
<1>5. ASSUME Ordered(s, m) PROVE Ordered(u, m)
  BY <1>4, <1>5 DEF Ordered
<1>6. MarkStages(u, m) \subseteq MarkStages(s, m)
  BY <1>4 DEF MarkStages, Range
<1> QED
  BY <1>1, <1>5, <1>6 DEF QueryKept

\* What is added at the end does no harm if it is no request.
LEMMA JoinKeepsOrder ==
    ASSUME NEW s \in Seq(Item), NEW list \in Seq(Item), NEW m,
           \A x \in Range(list) : ~Asks(x, m)
    PROVE  /\ Ordered(s, m) => Ordered(s \o list, m)
           /\ (\A x \in Range(list) : x.node # m) => QueryKept(s, s \o list, m)
<1> DEFINE u == s \o list
<1>1. /\ Len(s) \in Nat /\ DOMAIN s = 1..Len(s) /\ Len(list) \in Nat /\ DOMAIN list = 1..Len(list)
  BY LenProperties
<1>2. /\ DOMAIN u = 1..(Len(s) + Len(list))
      /\ \A i \in 1..(Len(s) + Len(list)) : u[i] = IF i <= Len(s) THEN s[i] ELSE list[i - Len(s)]
  BY ConcatProperties, LenProperties
<1>3. Range(u) = Range(s) \cup Range(list)
  BY JoinTwo
<1> HIDE DEF u
<1>4. ASSUME Ordered(s, m) PROVE Ordered(u, m)
  <2> SUFFICES ASSUME NEW k \in DOMAIN u, NEW j \in DOMAIN u, k < j, IsMarker(u[k], m), Asks(u[j], m)
               PROVE  u[k].stage # u[j].stage
    BY DEF Ordered
  <2>1. j <= Len(s)
    <3> SUFFICES ASSUME ~(j <= Len(s)) PROVE FALSE
      OBVIOUS
    <3>1. j - Len(s) \in DOMAIN list /\ u[j] = list[j - Len(s)]
      BY <1>1, <1>2
    <3> QED
      BY <3>1 DEF Range
  <2>2. k \in DOMAIN s /\ j \in DOMAIN s /\ u[k] = s[k] /\ u[j] = s[j]
    BY <1>1, <1>2, <2>1
  <2> QED
    BY <1>4, <2>2 DEF Ordered
<1>5. (\A x \in Range(list) : x.node # m) => MarkStages(u, m) = MarkStages(s, m)
  BY <1>3 DEF MarkStages, IsMarker
<1> QED
  BY <1>4, <1>5 DEF QueryKept, u

LEMMA AppendIsJoin ==
    ASSUME NEW s \in Seq(Item), NEW x \in Item
    PROVE  <<x>> \in Seq(Item) /\ Range(<<x>>) = {x} /\ Append(s, x) = s \o <<x>>
<1> DEFINE one == <<x>>
<1>1. Append(s, x) = s \o one /\ one \in Seq(Item)
  OBVIOUS
<1>2. Range(one) = {x}
  BY DEF Range
<1> HIDE DEF one
<1>3. one \in Seq(Item) /\ Range(one) = {x} /\ Append(s, x) = s \o one
  BY <1>1, <1>2
<1> QED
  BY <1>3 DEF one

LEMMA AppendKeepsOrder ==
    ASSUME NEW s \in Seq(Item), NEW x \in Item, NEW m
    PROVE  /\ ~Asks(x, m) /\ Ordered(s, m) => Ordered(Append(s, x), m)
           /\ x.node # m => QueryKept(s, Append(s, x), m)
<1> DEFINE one == <<x>>
<1>1. one \in Seq(Item) /\ Range(one) = {x} /\ Append(s, x) = s \o one
  BY AppendIsJoin
<1> HIDE DEF one
<1>2. ASSUME ~Asks(x, m), Ordered(s, m) PROVE Ordered(s \o one, m)
  <2>1. \A y \in Range(one) : ~Asks(y, m)
    BY <1>1, <1>2
  <2> QED
    BY <1>1, <1>2, <2>1, JoinKeepsOrder
<1>3. ASSUME x.node # m PROVE QueryKept(s, s \o one, m)
  <2>1. \A y \in Range(one) : ~Asks(y, m) /\ y.node # m
    BY <1>1, <1>3 DEF Asks
  <2> QED
    BY <1>1, <2>1, JoinKeepsOrder
<1> QED
  BY <1>1, <1>2, <1>3

\* A request, if there is no marker of its stage.
LEMMA AskKeepsOrder ==
    ASSUME NEW s \in Seq(Item), NEW n \in Node, NEW t \in Stage, t \notin MarkStages(s, n),
           Ordered(s, n)
    PROVE  /\ Ordered(Append(s, Request(n, t)), n)
           /\ MarkStages(Append(s, Request(n, t)), n) = MarkStages(s, n)
<1> DEFINE x == Request(n, t)
           u == Append(s, x)
<1>1. x \in Item /\ x.node = n /\ x.kind = "request" /\ x.stage = t
  BY ItemTypes
<1> HIDE DEF x
<1>2. Range(u) = Range(s) \cup {x}
  BY <1>1, AppendOne
<1>3. /\ Len(s) \in Nat /\ DOMAIN s = 1..Len(s) /\ DOMAIN u = 1..(Len(s) + 1)
      /\ u[Len(s) + 1] = x /\ \A i \in 1..Len(s) : u[i] = s[i]
  BY <1>1, AppendProperties, LenProperties
<1> HIDE DEF u
<1>4. Ordered(u, n)
  <2> SUFFICES ASSUME NEW k \in DOMAIN u, NEW j \in DOMAIN u, k < j, IsMarker(u[k], n), Asks(u[j], n)
               PROVE  u[k].stage # u[j].stage
    BY DEF Ordered
  <2>1. k \in DOMAIN s /\ u[k] = s[k]
    BY <1>3
  <2>2. CASE j = Len(s) + 1
    BY <1>1, <1>3, <2>1, <2>2 DEF MarkStages, Range
  <2>3. CASE j # Len(s) + 1
    <3>1. j \in DOMAIN s /\ u[j] = s[j]
      BY <1>3, <2>3
    <3> QED
      BY <2>1, <3>1 DEF Ordered
  <2> QED
    BY <2>2, <2>3
<1>5. MarkStages(u, n) = MarkStages(s, n)
  BY <1>1, <1>2 DEF MarkStages, IsMarker
<1> QED
  BY <1>4, <1>5 DEF u, x

-----------------------------------------------------------------------------
(* The invariant for the order, node by node.                                *)
Pends(th, n) == \E x \in Range(th[Driver].todo) : x.node = n /\ x.op = "pending"

ParkedInv(d, th, n) ==
    Exists(d, n) /\ d.node[n].parked # <<>> => CanSleep(d, n) /\ (d.node[n].awake => Pends(th, n))
OrderInv(d, th, n) ==
    Exists(d, n) =>
        /\ Ordered(Query(d), n)
        /\ \A x \in Parked(d, n) :
              x.kind = "request" /\ x.stage \in MarkStages(Query(d), n) => Pends(th, n)
InOrder ==
    /\ Inv
    /\ \A n \in Node : ParkedInv(drv, thread, n)
    /\ \A n \in Node \ twice : OrderInv(drv, thread, n)

\* What most steps do to a node, as far as the order goes.
NoHarm(d, e, n) ==
    Exists(e, n) =>
        /\ Exists(d, n) /\ QueryKept(Query(d), Query(e), n)
        /\ e.node[n].parked = d.node[n].parked
        /\ d.node[n].info => e.node[n].info
        /\ e.node[n].awake => d.node[n].awake

LEMMA NoHarmTwice ==
    ASSUME NEW d, NEW e, NEW f, NEW n, NoHarm(d, e, n), NoHarm(e, f, n)
    PROVE  NoHarm(d, f, n)
BY DEF NoHarm, QueryKept

LEMMA SameNoHarm ==
    ASSUME NEW d, NEW e, NEW n, e.node[n] = d.node[n], QueryKept(Query(d), Query(e), n)
    PROVE  NoHarm(d, e, n)
BY DEF NoHarm, Exists

LEMMA AsideNoHarm ==
    ASSUME NEW d, NEW e, e.node = d.node, e.queue = d.queue
    PROVE  \A n \in Node : NoHarm(d, e, n)
BY DEF NoHarm, Exists, QueryKept, Query

LEMMA TurnedNoHarm ==
    ASSUME NEW d, NEW e, NEW n, Exists(d, n), Turned(d, e, n)
    PROVE  \A m \in Node : NoHarm(d, e, m)
<1> SUFFICES ASSUME NEW m \in Node PROVE NoHarm(d, e, m)
  OBVIOUS
<1>1. QueryKept(Query(d), Query(e), m)
  BY RetryKeepsOrder DEF Turned, Query
<1>2. CASE m = n
  BY <1>1, <1>2 DEF NoHarm, Turned
<1>3. CASE m # n
  BY <1>1, <1>3, SameNoHarm DEF Turned
<1> QED
  BY <1>2, <1>3

LEMMA OrderStays ==
    ASSUME NEW d, NEW e, NEW n, NoHarm(d, e, n), NEW th, NEW ti, Pends(th, n) => Pends(ti, n)
    PROVE  /\ ParkedInv(d, th, n) => ParkedInv(e, ti, n)
           /\ OrderInv(d, th, n) => OrderInv(e, ti, n)
<1> SUFFICES ASSUME Exists(e, n)
             PROVE  /\ ParkedInv(d, th, n) => ParkedInv(e, ti, n)
                    /\ OrderInv(d, th, n) => OrderInv(e, ti, n)
  BY DEF ParkedInv, OrderInv
<1>1. /\ Exists(d, n) /\ e.node[n].parked = d.node[n].parked
      /\ Ordered(Query(d), n) => Ordered(Query(e), n)
      /\ MarkStages(Query(e), n) \subseteq MarkStages(Query(d), n)
      /\ d.node[n].info => e.node[n].info
      /\ e.node[n].awake => d.node[n].awake
  BY DEF NoHarm, QueryKept
<1>2. CanSleep(d, n) => CanSleep(e, n)
  BY <1>1 DEF CanSleep
<1>3. ParkedInv(d, th, n) => ParkedInv(e, ti, n)
  BY <1>1, <1>2 DEF ParkedInv
<1>4. OrderInv(d, th, n) => OrderInv(e, ti, n)
  BY <1>1 DEF OrderInv, Parked
<1> QED
  BY <1>3, <1>4

(* A step that does harm to one node at most. *)
LEMMA OrderStep ==
    ASSUME InOrder, Inv', NEW n, \A m \in Node : m # n => NoHarm(drv, drv', m),
           \A m \in Node : m # n /\ Pends(thread, m) => Pends(thread', m),
           \A m \in Node : m # n /\ m \in twice => m \in twice',
           n \in Node => ParkedInv(drv', thread', n),
           n \in Node \ twice' => OrderInv(drv', thread', n)
    PROVE  InOrder'
<1>1. ASSUME NEW m \in Node PROVE ParkedInv(drv', thread', m)
  <2>1. CASE m = n
    BY <2>1
  <2>2. CASE m # n
    <3>1. ParkedInv(drv, thread, m)
      BY DEF InOrder
    <3>2. NoHarm(drv, drv', m) /\ (Pends(thread, m) => Pends(thread', m))
      BY <2>2
    <3> QED
      BY <3>1, <3>2, OrderStays
  <2> QED
    BY <2>1, <2>2
<1>2. ASSUME NEW m \in Node \ twice' PROVE OrderInv(drv', thread', m)
  <2>1. CASE m = n
    BY <1>2, <2>1
  <2>2. CASE m # n
    <3>1. OrderInv(drv, thread, m)
      BY <1>2, <2>2 DEF InOrder
    <3>2. NoHarm(drv, drv', m) /\ (Pends(thread, m) => Pends(thread', m))
      BY <2>2
    <3> QED
      BY <3>1, <3>2, OrderStays
  <2> QED
    BY <2>1, <2>2
<1> QED
  BY <1>1, <1>2 DEF InOrder

LEMMA HarmlessStep ==
    ASSUME InOrder, Inv', \A m \in Node : NoHarm(drv, drv', m),
           \A m \in Node : Pends(thread, m) => Pends(thread', m), twice' = twice
    PROVE  InOrder'
<1>1. ASSUME NEW m \in Node PROVE ParkedInv(drv', thread', m)
  <2>1. ParkedInv(drv, thread, m)
    BY DEF InOrder
  <2>2. NoHarm(drv, drv', m) /\ (Pends(thread, m) => Pends(thread', m))
    OBVIOUS
  <2> QED
    BY <2>1, <2>2, OrderStays
<1>2. ASSUME NEW m \in Node \ twice' PROVE OrderInv(drv', thread', m)
  <2>1. OrderInv(drv, thread, m)
    BY <1>2 DEF InOrder
  <2>2. NoHarm(drv, drv', m) /\ (Pends(thread, m) => Pends(thread', m))
    OBVIOUS
  <2> QED
    BY <2>1, <2>2, OrderStays
<1> QED
  BY <1>1, <1>2 DEF InOrder

(* What the driver thread has still to send, it keeps until it gets to it. *)
LEMMA GoesPends ==
    ASSUME Inv, NEW t \in Thread, ~Idle(t), NEW ops \in Seq(Step), NEW work, Goes(t, ops, work)
    PROVE  /\ \A m : Pends(thread, m) /\ (t = Driver => ~At(Driver, "pending") \/ Subject(Driver) # m)
                        => Pends(thread', m)
           /\ t = Driver => \A x \in Range(ops) : x \in Range(thread'[Driver].todo)
<1> DEFINE c == thread[t]
<1>1. thread' = [thread EXCEPT ![t] = [todo |-> ops \o Tail(c.todo), addQSC |-> work]]
      /\ thread \in [Thread -> Call]
  BY DEF Goes, Inv, TypeOK
<1>2. c.todo \in Seq(Step) /\ c.todo # <<>>
  BY <1>1 DEF Call, Idle
<1>3. Range(c.todo) = Range(Tail(c.todo)) \cup {Head(c.todo)} /\ Tail(c.todo) \in Seq(Step)
  BY <1>2, TakeFirst
<1>4. Range(ops \o Tail(c.todo)) = Range(ops) \cup Range(Tail(c.todo))
  BY <1>3, JoinTwo
<1>5. CASE t = Driver
  <2>1. thread'[Driver].todo = ops \o Tail(c.todo)
    BY <1>1, <1>5
  <2>2. ASSUME NEW m, Pends(thread, m), ~At(Driver, "pending") \/ Subject(Driver) # m
        PROVE  Pends(thread', m)
    <3>1. PICK x \in Range(c.todo) : x.node = m /\ x.op = "pending"
      BY <1>5, <2>2 DEF Pends
    <3>2. x # Head(c.todo)
      BY <1>2, <1>5, <2>2, <3>1 DEF At, Subject, Idle
    <3> QED
      BY <1>3, <1>4, <2>1, <3>1, <3>2 DEF Pends
  <2> QED
    BY <1>4, <1>5, <2>1, <2>2
<1>6. CASE t # Driver
  <2>1. thread'[Driver] = thread[Driver]
    BY <1>1, <1>6, DriverIsThread
  <2> QED
    BY <1>6, <2>1 DEF Pends
<1> QED
  BY <1>5, <1>6

LEMMA StartsPends ==
    ASSUME Inv, NEW t \in Thread, Idle(t), NEW ops, Starts(t, ops)
    PROVE  \A m : Pends(thread, m) => Pends(thread', m)
<1>1. thread' = [thread EXCEPT ![t] = [todo |-> ops, addQSC |-> FALSE]]
      /\ thread \in [Thread -> Call]
  BY DEF Starts, Inv, TypeOK
<1>2. Range(thread[t].todo) = {}
  BY NoStep DEF Idle
<1>3. CASE t = Driver
  BY <1>2, <1>3 DEF Pends
<1>4. CASE t # Driver
  <2>1. thread'[Driver] = thread[Driver]
    BY <1>1, <1>4, DriverIsThread
  <2> QED
    BY <2>1 DEF Pends
<1> QED
  BY <1>3, <1>4

LEMMA IdlePends ==
    ASSUME Idle(Driver)
    PROVE  \A m : ~Pends(thread, m)
BY NoStep DEF Idle, Pends

LEMMA PutNoHarm ==
    ASSUME NEW d, Sound(d), NEW n \in Node, Exists(d, n), NEW r \in NodeRec,
           r.parked = d.node[n].parked, d.node[n].info => r.info, r.awake => d.node[n].awake
    PROVE  LET e == PutNode(d, n, r) IN
           /\ Sound(e) /\ Exists(e, n) /\ e.node[n] = r
           /\ \A m \in Node : NoHarm(d, e, m)
<1> DEFINE e == PutNode(d, n, r)
<1>1. MayChange(d, n, r)
  BY DEF MayChange
<1>2. NodePut(d, e, n, r)
  BY <1>1, NodeChanges DEF Changed
<1> HIDE DEF e
<1>3. ASSUME NEW m \in Node PROVE NoHarm(d, e, m)
  <2>1. QueryKept(Query(d), Query(e), m)
    BY <1>2 DEF NodePut, QueryKept, Query
  <2>2. CASE m = n
    BY <1>2, <2>1, <2>2 DEF NoHarm, NodePut
  <2>3. CASE m # n
    BY <1>2, <2>1, <2>3, SameNoHarm DEF NodePut
  <2> QED
    BY <2>2, <2>3
<1> QED
  BY <1>2, <1>3 DEF NodePut, e

(* A thread goes on with its call and does no harm. *)
LEMMA HarmlessCall ==
    ASSUME InOrder, Inv', NEW t \in Thread, NEW op, op # "pending", At(t, op),
           NEW ops \in Seq(Step), NEW work, Goes(t, ops, work),
           \A m \in Node : NoHarm(drv, drv', m), twice' = twice
    PROVE  InOrder'
<1>1. Inv /\ ~Idle(t)
  BY DEF InOrder, At
<1>2. t = Driver => ~At(Driver, "pending")
  BY DEF At
<1>3. \A m : Pends(thread, m) => Pends(thread', m)
  BY <1>1, <1>2, GoesPends
<1> QED
  BY <1>3, HarmlessStep

LEMMA HarmlessStart ==
    ASSUME InOrder, Inv', NEW t \in Thread, Idle(t), NEW ops, Starts(t, ops),
           \A m \in Node : NoHarm(drv, drv', m), twice' = twice
    PROVE  InOrder'
<1>1. Inv
  BY DEF InOrder
<1>2. \A m : Pends(thread, m) => Pends(thread', m)
  BY <1>1, StartsPends
<1> QED
  BY <1>2, HarmlessStep

LEMMA HarmlessAside ==
    ASSUME InOrder, Inv', UNCHANGED thread, \A m \in Node : NoHarm(drv, drv', m), twice' = twice
    PROVE  InOrder'
<1>1. \A m : Pends(thread, m) => Pends(thread', m)
  OBVIOUS
<1> QED
  BY <1>1, HarmlessStep

-----------------------------------------------------------------------------
(* One lemma for each action, again.                                         *)
LEMMA SetQueryStageOrders ==
    ASSUME InOrder, Inv', NEW t \in Thread, SetQueryStage(t)
    PROVE  InOrder'
<1> DEFINE n == Subject(t)
           s == Head(thread[t].todo).stage
           x == Advance(n)
           ops == <<x>>
<1>1. At(t, "set") /\ drv' = SetStage(drv, n, s) /\ Goes(t, ops, FALSE) /\ twice' = twice
  BY DEF SetQueryStage, Becomes, Unnoted
<1>2. n \in Node /\ s \in Stage /\ Exists(drv, n) /\ Sound(drv)
  BY <1>1, AtFacts, SoundNow DEF InOrder
<1> HIDE DEF n, s
<1>3. Turned(drv, drv', n)
  BY <1>1, <1>2, SetStageFacts DEF StageIsSet
<1>4. \A m \in Node : NoHarm(drv, drv', m)
  BY <1>2, <1>3, TurnedNoHarm
<1>5. x \in Step
  BY <1>2, StepTypes, StageNames DEF Ops
<1> HIDE DEF x
<1>6. ops \in Seq(Step)
  BY <1>5, OneStep
<1> HIDE DEF ops
<1> QED
  BY <1>1, <1>4, <1>6, HarmlessCall

LEMMA TestLoopOrders ==
    ASSUME InOrder, Inv', NEW t \in Thread, TestLoop(t)
    PROVE  InOrder'
<1> DEFINE n == Subject(t)
<1>1. /\ At(t, "test") /\ drv' = drv /\ twice' = twice
      /\ \/ \E work \in {thread[t].addQSC} : Goes(t, <<Do("act", n)>>, work)
         \/ Goes(t, <<Do("mark", n)>>, TRUE)
         \/ Goes(t, <<>>, FALSE)
  BY DEF TestLoop, Unnoted
<1>2. n \in Node
  BY <1>1, AtFacts DEF InOrder
<1> HIDE DEF n
<1>3. \A m \in Node : NoHarm(drv, drv', m)
  BY <1>1, AsideNoHarm
<1>4. Do("act", n) \in Step /\ Do("mark", n) \in Step
  BY <1>2, StepTypes, StageNames DEF Ops
<1>5. <<Do("act", n)>> \in Seq(Step) /\ <<Do("mark", n)>> \in Seq(Step) /\ <<>> \in Seq(Step)
  BY <1>4, OneStep, NoStep
<1> DEFINE act == <<Do("act", n)>>
           mark == <<Do("mark", n)>>
<1>6. \A work : Goes(t, act, work) => InOrder'
  <2> SUFFICES ASSUME NEW work, Goes(t, act, work) PROVE InOrder'
    OBVIOUS
  <2>1. act \in Seq(Step)
    BY <1>5
  <2> HIDE DEF act
  <2> QED
    BY <1>1, <1>3, <2>1, HarmlessCall
<1>7. Goes(t, mark, TRUE) => InOrder'
  <2> SUFFICES ASSUME Goes(t, mark, TRUE) PROVE InOrder'
    OBVIOUS
  <2>1. mark \in Seq(Step)
    BY <1>5
  <2> HIDE DEF mark
  <2> QED
    BY <1>1, <1>3, <2>1, HarmlessCall
<1>8. Goes(t, <<>>, FALSE) => InOrder'
  BY <1>1, <1>3, <1>5, HarmlessCall
<1> QED
  BY <1>1, <1>6, <1>7, <1>8

\* The requests of a stage are queued or parked where no marker of the stage waits.
LEMMA RunOrders ==
    ASSUME NEW d, Sound(d), NEW n \in Node, Exists(d, n), NEW s \in Stage, s = NextStage(d, n),
           NEW th, NEW ti, Pends(th, n) => Pends(ti, n), ParkedInv(d, th, n)
    PROVE  LET e == RunStage(d, n) IN
           /\ ParkedInv(e, ti, n)
           /\ OrderInv(d, th, n) /\ s \notin MarkStages(Query(d), n) => OrderInv(e, ti, n)
           /\ \A m \in Node : m # n => NoHarm(d, e, m)
<1> DEFINE e == RunStage(d, n)
           ask == Request(n, s)
<1>1. Ran(d, e, n, s)
  BY RunsTo
<1>2. /\ Query(d) \in Seq(Item) /\ d.node[n] \in NodeRec
      /\ Sound(e) /\ Exists(e, n) /\ e.node[n].info = d.node[n].info
  BY <1>1, ItemsOf, QueueNames DEF Ran, Query
<1>3. \A m \in Node : m # n => e.node[m] = d.node[m]
  BY <1>1 DEF Ran
<1>4. ask \in Item /\ ask.node = n /\ ask.kind = "request" /\ ask.stage = s
  BY ItemTypes
<1>5. CanSleep(e, n) <=> CanSleep(d, n)
  BY <1>2 DEF CanSleep
<1> SUFFICES /\ ParkedInv(e, ti, n)
             /\ OrderInv(d, th, n) /\ s \notin MarkStages(Query(d), n) => OrderInv(e, ti, n)
             /\ \A m \in Node : m # n => NoHarm(d, e, m)
  OBVIOUS
<1>6. CASE s = Complete /\ CanSleep(d, n)
  <2>1. SleeperRan(d, e, n)
    BY <1>6, RunsTo
  <2> HIDE DEF e
  <2>2. PICK list \in Seq(Item) : /\ Query(e) = Query(d) \o list
                                  /\ \A x \in Range(list) : IsMarker(x, n)
    BY <2>1 DEF SleeperRan, Query
  <2>3. \A m \in Node : \A x \in Range(list) : ~Asks(x, m)
    BY <2>2 DEF IsMarker, Asks
  <2>4. Ordered(Query(d), n) => Ordered(Query(e), n)
    BY <1>2, <2>2, <2>3, JoinKeepsOrder
  <2>5. ASSUME NEW m \in Node, m # n PROVE NoHarm(d, e, m)
    <3>1. \A x \in Range(list) : x.node # m
      BY <2>2, <2>5 DEF IsMarker
    <3>2. QueryKept(Query(d), Query(e), m)
      BY <1>2, <2>2, <2>3, <3>1, JoinKeepsOrder
    <3> QED
      BY <1>3, <2>5, <3>2, SameNoHarm
  <2>6. e.node[n].parked = <<>> /\ Parked(e, n) = {}
    BY <2>1, NoStep DEF SleeperRan, Parked
  <2> QED
    BY <2>4, <2>5, <2>6 DEF ParkedInv, OrderInv
<1>7. CASE s = Complete /\ ~CanSleep(d, n)
  <2>1. ListenerRan(d, e, n)
    BY <1>7, RunsTo
  <2> HIDE DEF e
  <2>2. \A m \in Node : QueryKept(Query(d), Query(e), m)
    BY <2>1 DEF ListenerRan, QueryKept, Query
  <2>3. NoHarm(d, e, n)
    BY <1>2, <2>1, <2>2 DEF NoHarm, ListenerRan
  <2>4. \A m \in Node : m # n => NoHarm(d, e, m)
    BY <1>3, <2>2, SameNoHarm
  <2> QED
    BY <2>3, <2>4, OrderStays
<1>8. CASE s # Complete /\ Asleep(d, n)
  <2>1. SleeperAsks(d, e, n, s)
    BY <1>8, RunsTo
  <2> HIDE DEF e, ask
  <2>2. /\ Query(e) = Query(d) /\ e.node[n].awake = d.node[n].awake
        /\ \A x \in Parked(e, n) : x \in Parked(d, n) \/ x = ask
    BY <2>1 DEF SleeperAsks, Query, ask
  <2>3. ParkedInv(e, ti, n)
    BY <1>5, <1>8, <2>2 DEF ParkedInv, Asleep
  <2>4. OrderInv(d, th, n) /\ s \notin MarkStages(Query(d), n) => OrderInv(e, ti, n)
    BY <1>4, <2>2 DEF OrderInv
  <2>5. \A m \in Node : m # n => NoHarm(d, e, m)
    BY <1>3, <2>2, SameNoHarm DEF QueryKept
  <2> QED
    BY <2>3, <2>4, <2>5
<1>9. CASE s # Complete /\ ~Asleep(d, n)
  <2>1. ListenerAsks(d, e, n, s)
    BY <1>9, RunsTo
  <2> HIDE DEF e, ask
  <2>2. /\ e.node[n].parked = d.node[n].parked /\ e.node[n].awake = d.node[n].awake
        /\ Query(e) = Query(d) \/ Query(e) = Append(Query(d), ask)
    BY <2>1 DEF ListenerAsks, Query, ask
  <2>3. ParkedInv(e, ti, n)
    BY <1>2, <1>5, <2>2 DEF ParkedInv
  <2>4. ASSUME OrderInv(d, th, n), s \notin MarkStages(Query(d), n) PROVE OrderInv(e, ti, n)
    <3>1. Ordered(Query(d), n)
      BY <2>4 DEF OrderInv
    <3>2. /\ Ordered(Append(Query(d), ask), n)
          /\ MarkStages(Append(Query(d), ask), n) = MarkStages(Query(d), n)
      BY <1>2, <2>4, <3>1, AskKeepsOrder DEF ask
    <3>3. Ordered(Query(e), n) /\ MarkStages(Query(e), n) = MarkStages(Query(d), n)
      BY <2>2, <3>1, <3>2
    <3> QED
      BY <2>2, <2>4, <3>3 DEF OrderInv, Parked
  <2>5. ASSUME NEW m \in Node, m # n PROVE NoHarm(d, e, m)
    <3>1. QueryKept(Query(d), Append(Query(d), ask), m)
      BY <1>2, <1>4, <2>5, AppendKeepsOrder
    <3>2. QueryKept(Query(d), Query(d), m)
      BY DEF QueryKept
    <3> QED
      BY <1>3, <2>2, <2>5, <3>1, <3>2, SameNoHarm
  <2> QED
    BY <2>3, <2>4, <2>5
<1> QED
  BY <1>6, <1>7, <1>8, <1>9

LEMMA ActOnStageOrders ==
    ASSUME InOrder, Inv', NEW t \in Thread, ActOnStage(t)
    PROVE  InOrder'
<1> DEFINE n == Subject(t)
           s == NextStage(drv, n)
           ops == IF s = Complete THEN <<>> ELSE <<Advance(n)>>
           work == IF s = Complete THEN FALSE ELSE TRUE
<1>1. /\ At(t, "act") /\ drv' = RunStage(drv, n) /\ Goes(t, ops, work)
      /\ twice' = IF \E m \in Marks(n) : m.stage = s THEN twice \cup {n} ELSE twice
  BY DEF ActOnStage, Becomes
<1>2. n \in Node /\ Exists(drv, n) /\ Sound(drv) /\ Inv /\ ~Idle(t)
  BY <1>1, AtFacts, SoundNow DEF InOrder, At
<1> HIDE DEF n
<1>3. s \in Stage
  BY <1>2, NextStageType
<1>4. ops \in Seq(Step)
  <2>1. Advance(n) \in Step
    BY <1>2, StepTypes, StageNames DEF Ops
  <2> QED
    BY <2>1, OneStep, NoStep
<1> HIDE DEF ops, s, work
<1>5. \A m : Pends(thread, m) => Pends(thread', m)
  <2>1. t = Driver => ~At(Driver, "pending")
    BY <1>1 DEF At
  <2> QED
    BY <1>1, <1>2, <1>4, <2>1, GoesPends
<1>6. ParkedInv(drv, thread, n) /\ (n \notin twice => OrderInv(drv, thread, n))
  BY <1>2 DEF InOrder
<1>7. /\ ParkedInv(drv', thread', n)
      /\ OrderInv(drv, thread, n) /\ s \notin MarkStages(Query(drv), n) => OrderInv(drv', thread', n)
      /\ \A m \in Node : m # n => NoHarm(drv, drv', m)
  BY <1>1, <1>2, <1>3, <1>5, <1>6, RunOrders DEF s
<1>8. n \notin twice' => n \notin twice /\ s \notin MarkStages(Query(drv), n)
  BY <1>1, <1>2 DEF MarkStages, Query, IsMarker, Marks
<1>9. \A m \in Node : m \in twice => m \in twice'
  BY <1>1
<1> QED
  BY <1>5, <1>6, <1>7, <1>8, <1>9, OrderStep

\* What is sent in place of a request keeps the order.
LEMMA SentOrders ==
    ASSUME NEW d, Sound(d), NEW n \in Node, Exists(d, n), NEW q \in Queues, NEW item \in Item,
           item.node = n, item.kind # "request", NEW e, Sent(d, e, q, item, n),
           NEW th, NEW ti, Pends(th, n) => Pends(ti, n), ParkedInv(d, th, n)
    PROVE  /\ ParkedInv(e, ti, n)
           /\ OrderInv(d, th, n) => OrderInv(e, ti, n)
           /\ \A m \in Node : m # n => NoHarm(d, e, m)
<1>1. Query(d) \in Seq(Item) /\ d.node[n] \in NodeRec /\ Exists(e, n)
  BY ItemsOf, QueueNames DEF Sent, Kept, NodeKept, Query
<1>2. CASE Asleep(d, n)
  <2>1. /\ Query(e) = Query(d) /\ \A m \in Node : m # n => e.node[m] = d.node[m]
        /\ e.node[n] = [d.node[n] EXCEPT !.parked = e.node[n].parked]
        /\ \A x \in Parked(e, n) : x \in Parked(d, n) \/ x = item
    BY <1>2 DEF Sent, Query
  <2>2. e.node[n].info = d.node[n].info /\ e.node[n].awake = d.node[n].awake
    BY <1>1, <2>1 DEF NodeRec
  <2>3. ParkedInv(e, ti, n)
    BY <1>1, <1>2, <2>2 DEF ParkedInv, Asleep, CanSleep
  <2>4. OrderInv(d, th, n) => OrderInv(e, ti, n)
    BY <1>1, <2>1 DEF OrderInv
  <2>5. \A m \in Node : m # n => NoHarm(d, e, m)
    BY <2>1, SameNoHarm DEF QueryKept
  <2> QED
    BY <2>3, <2>4, <2>5
<1>3. CASE ~Asleep(d, n)
  <2>1. /\ e.node = d.node
        /\ Query(e) = Query(d) \/ Query(e) = Append(Query(d), item)
    BY <1>3, QueueNames DEF Sent, Query
  <2>2. ParkedInv(e, ti, n)
    BY <2>1 DEF ParkedInv, CanSleep, Exists
  <2>3. ASSUME OrderInv(d, th, n) PROVE OrderInv(e, ti, n)
    <3>1. Ordered(Query(d), n)
      BY <2>3 DEF OrderInv
    <3>2. ~Asks(item, n)
      BY DEF Asks
    <3>3. Ordered(Append(Query(d), item), n)
      BY <1>1, <3>1, <3>2, AppendKeepsOrder
    <3>4. ASSUME NEW x \in Parked(e, n) PROVE Pends(ti, n)
      <4>1. d.node[n].parked # <<>>
        BY <2>1, <3>4, NoStep DEF Parked
      <4> QED
        BY <1>3, <4>1 DEF ParkedInv, Asleep
    <3> QED
      BY <2>1, <3>1, <3>3, <3>4 DEF OrderInv
  <2>4. ASSUME NEW m \in Node, m # n PROVE NoHarm(d, e, m)
    <3>1. QueryKept(Query(d), Append(Query(d), item), m)
      BY <1>1, <2>4, AppendKeepsOrder
    <3>2. QueryKept(Query(d), Query(d), m)
      BY DEF QueryKept
    <3> QED
      BY <2>1, <3>1, <3>2, SameNoHarm
  <2> QED
    BY <2>2, <2>3, <2>4
<1> QED
  BY <1>2, <1>3

LEMMA AddMarkerOrders ==
    ASSUME InOrder, Inv', NEW t \in Thread, AddMarker(t)
    PROVE  InOrder'
<1> DEFINE n == Subject(t)
           node == drv.node[n]
           item == Marker(n, node.stage)
           e == IF node.alive THEN SendMsg(drv, "Query", item) ELSE drv
<1>1. At(t, "mark") /\ drv' = e /\ Goes(t, <<>>, FALSE) /\ twice' = twice
  BY DEF AddMarker, Becomes, SendQueryStageComplete, Unnoted
<1>2. n \in Node /\ Exists(drv, n) /\ Sound(drv) /\ Inv /\ ~Idle(t)
  BY <1>1, AtFacts, SoundNow DEF InOrder, At
<1> HIDE DEF n
<1>3. node.stage \in Stage
  BY <1>2, ItemsOf DEF NodeRec
<1>4. CASE node.alive
  <2>1. item \in Item /\ item.node = n /\ item.kind # "request"
    BY <1>2, <1>3, ItemTypes
  <2> HIDE DEF item
  <2>2. Sent(drv, drv', "Query", item, n)
    BY <1>1, <1>2, <1>4, <2>1, SendMsgKeeps, QueueNames
  <2>3. \A m : Pends(thread, m) => Pends(thread', m)
    <3>1. t = Driver => ~At(Driver, "pending")
      BY <1>1 DEF At
    <3> QED
      BY <1>1, <1>2, <3>1, GoesPends, NoStep
  <2>4. ParkedInv(drv, thread, n) /\ (n \notin twice => OrderInv(drv, thread, n))
    BY <1>2 DEF InOrder
  <2>5. /\ ParkedInv(drv', thread', n)
        /\ OrderInv(drv, thread, n) => OrderInv(drv', thread', n)
        /\ \A m \in Node : m # n => NoHarm(drv, drv', m)
    BY <1>2, <2>1, <2>2, <2>3, <2>4, SentOrders, QueueNames
  <2> QED
    BY <1>1, <2>3, <2>4, <2>5, OrderStep
<1>5. CASE ~node.alive
  <2>1. drv' = drv
    BY <1>1, <1>5
  <2>2. \A m \in Node : NoHarm(drv, drv', m)
    BY <2>1, AsideNoHarm
  <2> QED
    BY <1>1, <2>2, HarmlessCall, NoStep
<1> QED
  BY <1>4, <1>5

LEMMA NodeInfoKeptOrders ==
    ASSUME InOrder, Inv', NodeInfoKept
    PROVE  InOrder'
<1> DEFINE n == Subject(Driver)
           r == [drv.node[n] EXCEPT !.nif = TRUE]
<1>1. /\ At(Driver, "nif") /\ drv' = PutNode(drv, n, r) /\ Goes(Driver, <<>>, FALSE)
      /\ twice' = twice
  BY DEF NodeInfoKept, Becomes, PutNode, Unnoted
<1>2. n \in Node /\ Exists(drv, n) /\ Sound(drv)
  BY <1>1, AtFacts, SoundNow, DriverIsThread DEF InOrder
<1> HIDE DEF n
<1>3. drv.node[n] \in NodeRec
  BY <1>2, ItemsOf
<1>4. /\ r \in NodeRec /\ r.parked = drv.node[n].parked /\ r.info = drv.node[n].info
      /\ r.awake = drv.node[n].awake
  BY <1>3 DEF NodeRec
<1> HIDE DEF r
<1>5. \A m \in Node : NoHarm(drv, drv', m)
  BY <1>1, <1>2, <1>4, PutNoHarm
<1> QED
  BY <1>1, <1>5, HarmlessCall, NoStep, DriverIsThread

LEMMA SetAwakeOrders ==
    ASSUME InOrder, Inv', SetAwake
    PROVE  InOrder'
<1> DEFINE n == Subject(Driver)
           r == [drv.node[n] EXCEPT !.awake = TRUE]
           poll == IF drv.node[n].poll THEN <<Set(n, Dynamic)>> ELSE <<>>
           last == Do("pending", n)
           end == <<last>>
           ops == poll \o end
<1>1. At(Driver, "awake") /\ twice' = twice
  BY DEF SetAwake, Unnoted
<1>2. n \in Node /\ Exists(drv, n) /\ Sound(drv) /\ Inv /\ ~Idle(Driver)
  BY <1>1, AtFacts, SoundNow, DriverIsThread DEF InOrder, At
<1>3. CASE ~CanSleep(drv, n)
  <2>1. drv' = drv /\ Goes(Driver, <<>>, FALSE)
    BY <1>3 DEF SetAwake
  <2>2. \A m \in Node : NoHarm(drv, drv', m)
    BY <2>1, AsideNoHarm
  <2> QED
    BY <1>1, <2>1, <2>2, HarmlessCall, NoStep, DriverIsThread
<1>4. CASE CanSleep(drv, n)
  <2>1. drv' = PutNode(drv, n, r) /\ Goes(Driver, ops, FALSE)
    BY <1>4 DEF SetAwake, Becomes, PutNode
  <2> HIDE DEF n
  <2>2. drv.node[n] \in NodeRec
    BY <1>2, ItemsOf
  <2>3. /\ r \in NodeRec /\ r.parked = drv.node[n].parked /\ r.info = drv.node[n].info
    BY <2>2 DEF NodeRec
  <2> HIDE DEF r
  <2>4. NodePut(drv, drv', n, r)
    <3>1. MayChange(drv, n, r)
      BY <1>2, <2>3 DEF MayChange
    <3> QED
      BY <1>2, <2>1, <3>1, NodeChanges DEF Changed
  <2>5. Dynamic \in Stage /\ None \in Stage
    BY StageNames DEF Optional
  <2>6. last \in Step /\ last.node = n /\ last.op = "pending" /\ Set(n, Dynamic) \in Step
    BY <1>2, <2>5, StepTypes DEF Ops
  <2> HIDE DEF last
  <2>7. poll \in Seq(Step)
    BY <2>6, OneStep, NoStep
  <2>8. end \in Seq(Step) /\ Range(end) = {last}
    BY <2>6, OneStep
  <2> HIDE DEF poll, end
  <2>9. ops \in Seq(Step) /\ last \in Range(ops)
    BY <2>7, <2>8, JoinTwo
  <2> HIDE DEF ops
  <2>10. /\ \A m : Pends(thread, m) => Pends(thread', m)
         /\ last \in Range(thread'[Driver].todo)
    <3>1. ~At(Driver, "pending")
      BY <1>1 DEF At
    <3> QED
      BY <1>2, <2>1, <2>9, <3>1, GoesPends, DriverIsThread
  <2>11. Pends(thread', n)
    BY <2>6, <2>10 DEF Pends
  <2>12. Query(drv') = Query(drv) /\ drv'.node[n] = r
    BY <2>4 DEF NodePut, Query
  <2>13. ParkedInv(drv', thread', n)
    BY <1>4, <2>3, <2>4, <2>11, <2>12 DEF ParkedInv, CanSleep, NodePut
  <2>14. ASSUME n \notin twice PROVE OrderInv(drv', thread', n)
    <3>1. OrderInv(drv, thread, n)
      BY <1>2, <2>14 DEF InOrder
    <3> QED
      BY <1>2, <2>11, <2>12, <3>1 DEF OrderInv
  <2>15. \A m \in Node : m # n => NoHarm(drv, drv', m)
    BY <2>4, <2>12, SameNoHarm DEF NodePut, QueryKept
  <2> QED
    BY <1>1, <2>10, <2>13, <2>14, <2>15, OrderStep
<1> QED
  BY <1>3, <1>4

LEMMA SendAllPendingOrders ==
    ASSUME InOrder, Inv', SendAllPending
    PROVE  InOrder'
<1> DEFINE n == Subject(Driver)
           r == [drv.node[n] EXCEPT !.poll = FALSE]
           f == PutNode(drv, n, r)
<1>1. /\ At(Driver, "pending") /\ drv' = SendPending(f, n) /\ Goes(Driver, <<>>, FALSE)
      /\ twice' = twice
  BY DEF SendAllPending, Becomes, PutNode, Unnoted
<1>2. n \in Node /\ Exists(drv, n) /\ Sound(drv) /\ Inv /\ ~Idle(Driver)
  BY <1>1, AtFacts, SoundNow, DriverIsThread DEF InOrder, At
<1>3. \A m : m # n /\ Pends(thread, m) => Pends(thread', m)
  BY <1>1, <1>2, GoesPends, NoStep, DriverIsThread
<1> HIDE DEF n
<1>4. drv.node[n] \in NodeRec
  BY <1>2, ItemsOf
<1>5. /\ r \in NodeRec /\ r.parked = drv.node[n].parked /\ r.info = drv.node[n].info
      /\ r.awake = drv.node[n].awake
  BY <1>4 DEF NodeRec
<1> HIDE DEF r
<1>6. Sound(f) /\ Exists(f, n) /\ \A m \in Node : NoHarm(drv, f, m)
  BY <1>2, <1>5, PutNoHarm
<1> HIDE DEF f
<1>7. Released(f, drv', n)
  BY <1>1, <1>2, <1>6, SendPendingKeeps
<1>8. Query(f) \in Seq(Item) /\ f.node[n] \in NodeRec
  BY <1>2, <1>6, ItemsOf, QueueNames DEF Query
<1>9. PICK list \in Seq(Item) : /\ Query(drv') = Query(f) \o list
                                /\ \A x \in Range(list) : IsMarker(x, n)
  BY <1>7 DEF Released, Query
<1>10. \A m \in Node : \A x \in Range(list) : ~Asks(x, m)
  BY <1>9 DEF IsMarker, Asks
<1>11. ASSUME NEW m \in Node, m # n PROVE NoHarm(drv, drv', m)
  <2>1. \A x \in Range(list) : x.node # m
    BY <1>9, <1>11 DEF IsMarker
  <2>2. QueryKept(Query(f), Query(drv'), m)
    BY <1>8, <1>9, <1>10, <2>1, JoinKeepsOrder
  <2>3. NoHarm(f, drv', m)
    BY <1>7, <1>11, <2>2, SameNoHarm DEF Released
  <2> QED
    BY <1>6, <2>3, NoHarmTwice
<1>12. drv'.node[n].parked = <<>> /\ Parked(drv', n) = {}
  BY <1>7, <1>8, NoStep DEF Released, NodeRec, Parked
<1>13. ParkedInv(drv', thread', n)
  BY <1>12 DEF ParkedInv
<1>14. ASSUME n \notin twice PROVE OrderInv(drv', thread', n)
  <2>1. Ordered(Query(drv), n) /\ NoHarm(drv, f, n)
    BY <1>2, <1>6, <1>14 DEF InOrder, OrderInv
  <2>2. Ordered(Query(f), n)
    BY <1>6, <2>1 DEF NoHarm, QueryKept
  <2>3. Ordered(Query(drv'), n)
    BY <1>2, <1>8, <1>9, <1>10, <2>2, JoinKeepsOrder
  <2> QED
    BY <1>12, <2>3 DEF OrderInv
<1> QED
  BY <1>1, <1>3, <1>11, <1>13, <1>14, OrderStep

LEMMA CheckCompletedOrders ==
    ASSUME InOrder, Inv', CheckCompleted
    PROVE  InOrder'
<1>1. /\ At(Driver, "check") /\ drv' = CheckCompletedNodeQueries(drv) /\ Goes(Driver, <<>>, FALSE)
      /\ twice' = twice
  BY DEF CheckCompleted, Becomes, Unnoted
<1>2. drv'.node = drv.node /\ drv'.queue = drv.queue
  BY <1>1, SoundNow, CheckKeeps DEF InOrder
<1>3. \A m \in Node : NoHarm(drv, drv', m)
  BY <1>2, AsideNoHarm
<1> QED
  BY <1>1, <1>3, HarmlessCall, NoStep, DriverIsThread

LEMMA WriteNextMsgOrders ==
    ASSUME InOrder, Inv', WriteNextMsg
    PROVE  InOrder'
<1> DEFINE i == Min(Waiting)
           q == QueueName[i]
           item == Head(drv.queue[q])
           n == item.node
           e == Pop(drv, q)
           ops == <<Advance(n)>>
<1>1. /\ Idle(Driver) /\ Waiting # {} /\ twice' = twice
      /\ IF item.kind = "marker"
         THEN /\ drv' = IF item.retry THEN e ELSE QueryStageComplete(e, n, item.stage)
              /\ Starts(Driver, ops)
         ELSE /\ drv' = IF drv.node[n].alive \/ IsPing(item) THEN [e EXCEPT !.msg = item] ELSE e
              /\ UNCHANGED thread
  BY DEF WriteNextMsg, Becomes, Pop, PutQueue, Unnoted
<1>2. q \in Queues /\ drv.queue[q] # <<>>
  <2>1. Waiting \subseteq Nat
    BY QueueNames DEF Waiting
  <2>2. i \in Waiting
    BY <1>1, <2>1, SmallestChosen
  <2> QED
    BY <2>2, QueueNames DEF Waiting
<1> HIDE DEF q
<1>3. Sound(drv)
  BY SoundNow DEF InOrder
<1>4. item \in Item /\ n \in Node /\ Exists(drv, n)
  <2>1. drv.queue[q] \in Seq(Item) /\ item \in Range(drv.queue[q])
    BY <1>2, <1>3, ItemsOf, TakeFirst
  <2> QED
    BY <1>2, <1>3, <2>1, ItemsOf
<1>5. Popped(drv, e, q)
  BY <1>2, <1>3, PopKeeps
<1>6. \A m \in Node : NoHarm(drv, e, m)
  <2> SUFFICES ASSUME NEW m \in Node PROVE NoHarm(drv, e, m)
    OBVIOUS
  <2>1. QueryKept(Query(drv), Query(e), m)
    <3>1. CASE q = "Query"
      <4>1. Query(drv) \in Seq(Item) /\ Query(drv) # <<>> /\ Query(e) = Tail(Query(drv))
        BY <1>2, <1>3, <1>5, <3>1, ItemsOf DEF Popped, Query
      <4> QED
        BY <4>1, TailKeepsOrder
    <3>2. CASE q # "Query"
      BY <1>5, <3>2, QueueNames DEF Popped, Query, QueryKept
    <3> QED
      BY <3>1, <3>2
  <2>2. e.node[m] = drv.node[m]
    BY <1>5 DEF Popped
  <2> QED
    BY <2>1, <2>2, SameNoHarm
<1>7. Sound(e) /\ Exists(e, n)
  BY <1>4, <1>5 DEF Popped, Exists
<1>8. item.stage \in Stage
  BY <1>4 DEF Item
<1> HIDE DEF e, item, n
<1>9. CASE item.kind = "marker"
  <2>1. drv' = e \/ drv' = QueryStageComplete(e, n, item.stage)
    BY <1>1, <1>9
  <2>2. \A m \in Node : NoHarm(drv, QueryStageComplete(e, n, item.stage), m)
    <3>1. Turned(e, QueryStageComplete(e, n, item.stage), n)
      BY <1>4, <1>7, <1>8, StageCompletes DEF Completed
    <3>2. \A m \in Node : NoHarm(e, QueryStageComplete(e, n, item.stage), m)
      BY <1>7, <3>1, TurnedNoHarm
    <3> QED
      BY <1>6, <3>2, NoHarmTwice
  <2>3. \A m \in Node : NoHarm(drv, drv', m)
    BY <1>6, <2>1, <2>2
  <2>4. Starts(Driver, ops)
    BY <1>1, <1>9
  <2> HIDE DEF ops
  <2> QED
    BY <1>1, <2>3, <2>4, HarmlessStart, DriverIsThread
<1>10. CASE item.kind # "marker"
  <2>1. drv'.node = e.node /\ drv'.queue = e.queue
    <3>1. e \in DriverRec
      BY <1>7 DEF Sound
    <3> QED
      BY <1>1, <1>10, <3>1 DEF DriverRec
  <2>2. \A m \in Node : NoHarm(e, drv', m)
    BY <2>1, AsideNoHarm
  <2>3. \A m \in Node : NoHarm(drv, drv', m)
    BY <1>6, <2>2, NoHarmTwice
  <2> QED
    BY <1>1, <1>10, <2>3, HarmlessAside
<1> QED
  BY <1>9, <1>10

LEMMA HeardNoHarm ==
    ASSUME NEW d, Sound(d), NEW n \in Node, Exists(d, n)
    PROVE  \A m \in Node : NoHarm(d, Hears(d, n), m) /\ NoHarm(d, Revived(d, n), m)
<1>1. Turned(d, Hears(d, n), n) /\ Turned(d, Revived(d, n), n)
  BY RevivedFacts DEF Heard
<1> QED
  BY <1>1, TurnedNoHarm

LEMMA AnswerReceivedOrders ==
    ASSUME InOrder, Inv', AnswerReceived
    PROVE  InOrder'
<1> DEFINE n == drv.msg.node
           over == [drv EXCEPT !.msg = Null]
           info == drv.node[n].info \/ drv.msg.stage = ProtocolInfo
           awake == drv.node[n].awake /\ drv.msg.kind # "sleep"
           p == [drv.node[n] EXCEPT !.info = info]
           r == [drv.node[n] EXCEPT !.awake = awake]
           f == PutNode(over, n, r)
<1>1. /\ Idle(Driver) /\ drv.msg # Null /\ twice' = twice
      /\ IF IsLocal THEN drv' = PutNode(over, n, p) /\ UNCHANGED thread
         ELSE drv' = Hears(f, n) /\ Starts(Driver, AfterHearing(n))
  BY DEF AnswerReceived, Becomes, PutNode, Unnoted
<1>2. Sound(drv)
  BY SoundNow DEF InOrder
<1>3. n \in Node /\ Exists(drv, n) /\ drv.node[n] \in NodeRec
  BY <1>1, <1>2, ItemsOf
<1>4. Sound(over) /\ over.node = drv.node /\ over.queue = drv.queue /\ Exists(over, n)
  BY <1>2, <1>3, MsgGone
<1>5. \A m \in Node : NoHarm(drv, over, m)
  BY <1>4, AsideNoHarm
<1> HIDE DEF over, n
<1>6. CASE IsLocal
  <2>1. drv' = PutNode(over, n, p) /\ UNCHANGED thread
    BY <1>1, <1>6
  <2>2. info \in BOOLEAN /\ (drv.node[n].info => info)
    OBVIOUS
  <2> HIDE DEF info
  <2>3. /\ p \in NodeRec /\ p.parked = drv.node[n].parked /\ p.info = info
        /\ p.awake = drv.node[n].awake
    BY <1>3, <2>2 DEF NodeRec
  <2> HIDE DEF p
  <2>4. \A m \in Node : NoHarm(over, PutNode(over, n, p), m)
    BY <1>3, <1>4, <2>2, <2>3, PutNoHarm
  <2>5. \A m \in Node : NoHarm(drv, drv', m)
    BY <1>5, <2>1, <2>4, NoHarmTwice
  <2> QED
    BY <1>1, <2>1, <2>5, HarmlessAside
<1>7. CASE ~IsLocal
  <2>1. drv' = Hears(f, n) /\ Starts(Driver, AfterHearing(n))
    BY <1>1, <1>7
  <2>2. awake \in BOOLEAN /\ (awake => drv.node[n].awake)
    BY <1>3 DEF NodeRec
  <2> HIDE DEF awake
  <2>3. /\ r \in NodeRec /\ r.parked = drv.node[n].parked /\ r.info = drv.node[n].info
        /\ r.awake = awake
    BY <1>3, <2>2 DEF NodeRec
  <2> HIDE DEF r
  <2>4. Sound(f) /\ Exists(f, n) /\ \A m \in Node : NoHarm(over, f, m)
    BY <1>3, <1>4, <2>2, <2>3, PutNoHarm
  <2> HIDE DEF f
  <2>5. \A m \in Node : NoHarm(f, drv', m)
    BY <1>3, <2>1, <2>4, HeardNoHarm
  <2>6. \A m \in Node : NoHarm(drv, f, m)
    BY <1>5, <2>4, NoHarmTwice
  <2>7. \A m \in Node : NoHarm(drv, drv', m)
    BY <2>5, <2>6, NoHarmTwice
  <2> QED
    BY <1>1, <2>1, <2>7, HarmlessStart, DriverIsThread
<1> QED
  BY <1>6, <1>7

LEMMA GiveUpOrders ==
    ASSUME InOrder, Inv', GiveUp
    PROVE  InOrder'
<1>1. drv' = [drv EXCEPT !.msg = Null] /\ UNCHANGED thread /\ twice' = twice
  BY DEF GiveUp, Becomes
<1>2. drv'.node = drv.node /\ drv'.queue = drv.queue
  BY <1>1, SoundNow, MsgGone DEF InOrder
<1>3. \A m \in Node : NoHarm(drv, drv', m)
  BY <1>2, AsideNoHarm
<1> QED
  BY <1>1, <1>3, HarmlessAside

\* When all is moved to the wake-up queue, none of the node is left in the query queue.
LEMMA MoveOrders ==
    ASSUME InOrder, Inv', Idle(Driver), NEW n \in Node, NEW g, Sound(g), CanSleep(g, n),
           \A m \in Node : NoHarm(drv, g, m), drv' = MoveMessagesToWakeUpQueue(g, n),
           NEW ops, Starts(Driver, ops), twice' = twice
    PROVE  InOrder'
<1>1. Exists(g, n) /\ Inv
  BY DEF CanSleep, InOrder
<1>2. Moved(g, drv', n)
  BY <1>1, MoveKeeps
<1>3. Query(g) \in Seq(Item) /\ g.node[n] \in NodeRec
  BY <1>1, ItemsOf, QueueNames DEF Query
<1>4. /\ Query(drv') = NotOf(Query(g), n)
      /\ \A x \in Range(Query(drv')) : x.node # n
      /\ \A m \in Node : m # n => drv'.node[m] = g.node[m]
      /\ drv'.node[n].info = g.node[n].info /\ ~drv'.node[n].awake
  BY <1>2, <1>3, QueueNames DEF Moved, Query, NodeRec
<1>5. \A m \in Node : Pends(thread, m) => Pends(thread', m)
  BY <1>1, StartsPends, DriverIsThread
<1>6. ASSUME NEW m \in Node, m # n PROVE NoHarm(drv, drv', m)
  <2>1. QueryKept(Query(g), Query(drv'), m)
    BY <1>3, <1>4, NotOfKeepsOrder
  <2>2. NoHarm(g, drv', m)
    BY <1>4, <1>6, <2>1, SameNoHarm
  <2> QED
    BY <2>2, NoHarmTwice
<1>7. ParkedInv(drv', thread', n)
  BY <1>4 DEF ParkedInv, CanSleep
<1>8. OrderInv(drv', thread', n)
  <2>1. Ordered(Query(drv'), n)
    BY <1>4 DEF Ordered, IsMarker, Range
  <2>2. MarkStages(Query(drv'), n) = {}
    BY <1>4 DEF MarkStages, IsMarker
  <2> QED
    BY <2>1, <2>2 DEF OrderInv
<1> QED
  BY <1>5, <1>6, <1>7, <1>8, OrderStep

LEMMA NotAcknowledgedOrders ==
    ASSUME InOrder, Inv', NotAcknowledged
    PROVE  InOrder'
<1> DEFINE n == drv.msg.node
           node == drv.node[n]
           dies == node.errors + 1 >= ErrorLimit
           msg == IF IsPing(drv.msg) THEN Null ELSE drv.msg
           g == [drv EXCEPT !.msg = msg]
           r == [node EXCEPT !.errors = node.errors + 1, !.alive = node.alive /\ ~dies]
           failed == PutNode(g, n, r)
           again == IsPing(drv.msg) /\ node.stage \in ProbeStages
           ops == CheckUnless(node.stage, n)
<1>1. /\ Idle(Driver) /\ drv.msg # Null /\ twice' = twice
      /\ IF CanSleep(drv, n)
         THEN /\ drv' = MoveMessagesToWakeUpQueue(drv, n)
              /\ Starts(Driver, <<Do("check", n)>>)
         ELSE /\ drv' = IF again THEN QueryStageRetry(failed, n, node.stage, 3) ELSE failed
              /\ Starts(Driver, ops) \/ UNCHANGED thread
  <2>1. [drv EXCEPT !.node[n] = r, !.msg = IF IsPing(@) THEN Null ELSE @] = failed
    BY SoundNow DEF PutNode, Sound, DriverRec, InOrder
  <2> QED
    BY <2>1 DEF NotAcknowledged, Becomes
<1>2. Sound(drv) /\ Inv
  BY SoundNow DEF InOrder
<1>3. n \in Node /\ Exists(drv, n) /\ node \in NodeRec
  BY <1>1, <1>2, ItemsOf
<1>4. CASE CanSleep(drv, n)
  <2>1. \A m \in Node : NoHarm(drv, drv, m)
    BY AsideNoHarm
  <2> HIDE DEF n
  <2> DEFINE check == <<Do("check", n)>>
  <2>2. Starts(Driver, check) /\ drv' = MoveMessagesToWakeUpQueue(drv, n)
    BY <1>1, <1>4
  <2> HIDE DEF check
  <2> QED
    BY <1>1, <1>2, <1>3, <1>4, <2>1, <2>2, MoveOrders
<1>5. CASE ~CanSleep(drv, n)
  <2> HIDE DEF n
  <2>1. Sound(g) /\ g.node = drv.node /\ g.queue = drv.queue
    <3>1. /\ g \in DriverRec /\ g.node = drv.node /\ g.queue = drv.queue
          /\ g.msg = drv.msg \/ g.msg = Null
          /\ g.timers \subseteq drv.timers
      BY <1>2 DEF Sound, DriverRec
    <3> HIDE DEF g
    <3> QED
      BY <1>2, <3>1, AsideKept
  <2>2. node.errors + 1 \in Nat /\ (node.alive /\ ~dies) \in BOOLEAN
    BY <1>3 DEF NodeRec
  <2> HIDE DEF dies
  <2>3. r \in NodeRec /\ r.parked = node.parked /\ r.awake = node.awake /\ r.info = node.info
    BY <1>3, <2>2 DEF NodeRec
  <2> HIDE DEF r, g
  <2>4. Exists(g, n) /\ \A m \in Node : NoHarm(drv, g, m)
    BY <1>3, <2>1, AsideNoHarm DEF Exists
  <2>5. Sound(failed) /\ Exists(failed, n) /\ \A m \in Node : NoHarm(g, failed, m)
    BY <1>3, <2>1, <2>3, <2>4, PutNoHarm
  <2> HIDE DEF failed
  <2>6. \A m \in Node : NoHarm(drv, failed, m)
    BY <2>4, <2>5, NoHarmTwice
  <2>7. \A m \in Node : NoHarm(drv, drv', m)
    <3>1. CASE again
      <4>1. node.stage \in Stage \ {Complete}
        BY <1>3, <3>1 DEF NodeRec, ProbeStages, Probe, CacheLoad, Complete
      <4>2. StageRetried(failed, drv', n, node.stage)
        BY <1>1, <1>3, <1>5, <2>5, <3>1, <4>1, StageRetries
      <4>3. \A m \in Node : NoHarm(failed, drv', m)
        BY <2>5, <4>2, TurnedNoHarm DEF StageRetried
      <4> QED
        BY <2>6, <4>3, NoHarmTwice
    <3>2. CASE ~again
      BY <1>1, <1>5, <2>6, <3>2
    <3> QED
      BY <3>1, <3>2
  <2>8. Starts(Driver, ops) \/ UNCHANGED thread
    BY <1>1, <1>5
  <2> HIDE DEF ops
  <2> QED
    BY <1>1, <2>7, <2>8, HarmlessStart, HarmlessAside, DriverIsThread
<1> QED
  BY <1>4, <1>5

LEMMA NodeInfoRequestFailedOrders ==
    ASSUME InOrder, Inv', NodeInfoRequestFailed
    PROVE  InOrder'
<1> DEFINE n == drv.msg.node
           g == QueryStageRetry(drv, n, NodeInfo, 2)
           check == <<Do("check", n)>>
<1>1. /\ Idle(Driver) /\ drv.msg # Null /\ twice' = twice
      /\ IF CanSleep(drv, n)
         THEN drv' = MoveMessagesToWakeUpQueue(g, n) /\ Starts(Driver, check)
         ELSE drv' = [g EXCEPT !.msg = Null] /\ UNCHANGED thread
  BY DEF NodeInfoRequestFailed, IsNodeInfoRequest, Becomes
<1>2. Sound(drv)
  BY SoundNow DEF InOrder
<1>3. n \in Node /\ Exists(drv, n)
  BY <1>1, <1>2, ItemsOf
<1> HIDE DEF n
<1>4. Turned(drv, g, n)
  <2>1. NodeInfo \in Stage \ {Complete}
    BY StageNames DEF NodeInfo, Complete
  <2> QED
    BY <1>2, <1>3, <2>1, StageRetries DEF StageRetried
<1> HIDE DEF g, check
<1>5. Sound(g) /\ Exists(g, n) /\ \A m \in Node : NoHarm(drv, g, m)
  BY <1>3, <1>4, TurnedNoHarm DEF Turned
<1>6. CASE CanSleep(drv, n)
  <2>1. CanSleep(g, n)
    BY <1>4, <1>6 DEF CanSleep, Turned
  <2>2. drv' = MoveMessagesToWakeUpQueue(g, n) /\ Starts(Driver, check)
    BY <1>1, <1>6
  <2> QED
    BY <1>1, <1>3, <1>5, <2>1, <2>2, MoveOrders
<1>7. CASE ~CanSleep(drv, n)
  <2>1. drv' = [g EXCEPT !.msg = Null] /\ UNCHANGED thread
    BY <1>1, <1>7
  <2>2. drv'.node = g.node /\ drv'.queue = g.queue
    BY <1>5, <2>1, MsgGone
  <2>3. \A m \in Node : NoHarm(g, drv', m)
    BY <2>2, AsideNoHarm
  <2>4. \A m \in Node : NoHarm(drv, drv', m)
    BY <1>5, <2>3, NoHarmTwice
  <2> QED
    BY <1>1, <2>1, <2>4, HarmlessAside
<1> QED
  BY <1>6, <1>7

LEMMA NodeInfoReceivedOrders ==
    ASSUME InOrder, Inv', NEW n \in Node, NodeInfoReceived(n)
    PROVE  InOrder'
<1> DEFINE answers == IsNodeInfoRequest /\ drv.msg.node = n
           msg == IF answers THEN Null ELSE drv.msg
           f == [drv EXCEPT !.msg = msg]
<1>1. /\ Idle(Driver) /\ Exists(drv, n) /\ drv' = Hears(f, n) /\ twice' = twice
      /\ \E ops : Starts(Driver, ops)
  BY DEF NodeInfoReceived, Becomes
<1>2. Sound(drv)
  BY SoundNow DEF InOrder
<1>3. Sound(f) /\ f.node = drv.node /\ f.queue = drv.queue
  <2>1. /\ f \in DriverRec /\ f.node = drv.node /\ f.queue = drv.queue
        /\ f.msg = drv.msg \/ f.msg = Null
        /\ f.timers \subseteq drv.timers
    BY <1>2 DEF Sound, DriverRec
  <2> HIDE DEF f
  <2> QED
    BY <1>2, <2>1, AsideKept
<1> HIDE DEF f
<1>4. Exists(f, n) /\ \A m \in Node : NoHarm(drv, f, m)
  BY <1>1, <1>3, AsideNoHarm DEF Exists
<1>5. \A m \in Node : NoHarm(f, drv', m)
  BY <1>1, <1>3, <1>4, HeardNoHarm
<1>6. \A m \in Node : NoHarm(drv, drv', m)
  BY <1>4, <1>5, NoHarmTwice
<1> QED
  BY <1>1, <1>6, HarmlessStart, DriverIsThread

LEMMA WakeUpReceivedOrders ==
    ASSUME InOrder, Inv', NEW n \in Node, WakeUpReceived(n)
    PROVE  InOrder'
<1>1. /\ Idle(Driver) /\ Exists(drv, n) /\ drv' = Hears(drv, n) /\ twice' = twice
      /\ \E ops : Starts(Driver, ops)
  BY DEF WakeUpReceived, Becomes, CanSleep
<1>2. \A m \in Node : NoHarm(drv, drv', m)
  BY <1>1, SoundNow, HeardNoHarm DEF InOrder
<1> QED
  BY <1>1, <1>2, HarmlessStart, DriverIsThread

LEMMA FailedNodeReportedOrders ==
    ASSUME InOrder, Inv', NEW n \in Node, NEW failed \in BOOLEAN, FailedNodeReported(n, failed)
    PROVE  InOrder'
<1> DEFINE r == [drv.node[n] EXCEPT !.alive = FALSE]
<1>1. /\ Idle(Driver) /\ Exists(drv, n) /\ twice' = twice
      /\ failed => drv' = PutNode(drv, n, r)
      /\ ~failed => drv' = Revived(drv, n)
      /\ \E ops : Starts(Driver, ops)
  BY DEF FailedNodeReported, Becomes, PutNode
<1>2. Sound(drv) /\ drv.node[n] \in NodeRec
  BY <1>1, SoundNow, ItemsOf DEF InOrder
<1>3. /\ r \in NodeRec /\ r.parked = drv.node[n].parked /\ r.awake = drv.node[n].awake
      /\ r.info = drv.node[n].info
  BY <1>2 DEF NodeRec
<1> HIDE DEF r
<1>4. \A m \in Node : NoHarm(drv, PutNode(drv, n, r), m)
  BY <1>1, <1>2, <1>3, PutNoHarm
<1>5. \A m \in Node : NoHarm(drv, Revived(drv, n), m)
  BY <1>1, <1>2, HeardNoHarm
<1>6. \A m \in Node : NoHarm(drv, drv', m)
  BY <1>1, <1>4, <1>5
<1> QED
  BY <1>1, <1>6, HarmlessStart, DriverIsThread

LEMMA SetPollRequiredOrders ==
    ASSUME InOrder, Inv', NEW n \in Node, SetPollRequired(n)
    PROVE  InOrder'
<1> DEFINE r == [drv.node[n] EXCEPT !.poll = TRUE]
<1>1. Exists(drv, n) /\ drv' = PutNode(drv, n, r) /\ UNCHANGED thread /\ twice' = twice
  BY DEF SetPollRequired, Becomes, PutNode, Asleep, CanSleep
<1>2. Sound(drv) /\ drv.node[n] \in NodeRec
  BY <1>1, SoundNow, ItemsOf DEF InOrder
<1>3. /\ r \in NodeRec /\ r.parked = drv.node[n].parked /\ r.awake = drv.node[n].awake
      /\ r.info = drv.node[n].info
  BY <1>2 DEF NodeRec
<1> HIDE DEF r
<1>4. \A m \in Node : NoHarm(drv, drv', m)
  BY <1>1, <1>2, <1>3, PutNoHarm
<1> QED
  BY <1>1, <1>4, HarmlessAside

LEMMA SendNoMoreInfoOrders ==
    ASSUME InOrder, Inv', NEW n \in Node, SendNoMoreInfo(n)
    PROVE  InOrder'
<1> DEFINE f == [drv EXCEPT !.timers = drv.timers \ {n}]
           item == NoMoreInformation(n)
<1>1. /\ n \in drv.timers /\ drv' = SendMsg(f, "WakeUp", item) /\ UNCHANGED thread
      /\ twice' = twice
  BY DEF SendNoMoreInfo, Becomes, Unnoted
<1>2. Sound(drv) /\ Exists(drv, n)
  BY <1>1, SoundNow DEF Sound, OfNodesOnly, InOrder
<1>3. Sound(f) /\ f.node = drv.node /\ f.queue = drv.queue
  <2>1. /\ f \in DriverRec /\ f.node = drv.node /\ f.queue = drv.queue /\ f.msg = drv.msg
        /\ f.timers \subseteq drv.timers
    BY <1>2 DEF Sound, DriverRec
  <2> HIDE DEF f
  <2> QED
    BY <1>2, <2>1, AsideKept
<1> HIDE DEF f
<1>4. Exists(f, n) /\ \A m \in Node : NoHarm(drv, f, m)
  BY <1>2, <1>3, AsideNoHarm DEF Exists
<1>5. item \in Item /\ item.node = n /\ item.kind # "request"
  BY ItemTypes, StageNames
<1> HIDE DEF item
<1>6. Sent(f, drv', "WakeUp", item, n)
  BY <1>1, <1>3, <1>4, <1>5, SendMsgKeeps, QueueNames
<1>7. \A m \in Node : Pends(thread, m) => Pends(thread', m)
  BY <1>1
<1>8. ParkedInv(f, thread, n) /\ (n \notin twice => OrderInv(f, thread, n))
  <2>1. ParkedInv(drv, thread, n) /\ (n \notin twice => OrderInv(drv, thread, n))
    BY DEF InOrder
  <2> QED
    BY <1>4, <2>1, OrderStays
<1>9. /\ ParkedInv(drv', thread', n)
      /\ OrderInv(f, thread, n) => OrderInv(drv', thread', n)
      /\ \A m \in Node : m # n => NoHarm(f, drv', m)
  BY <1>3, <1>4, <1>5, <1>6, <1>7, <1>8, SentOrders, QueueNames
<1>10. \A m \in Node : m # n => NoHarm(drv, drv', m)
  BY <1>4, <1>9, NoHarmTwice
<1> QED
  BY <1>1, <1>7, <1>8, <1>9, <1>10, OrderStep

LEMMA RequestStateOrders ==
    ASSUME InOrder, Inv', NEW n \in Node, NEW s, RequestState(n, s)
    PROVE  InOrder'
<1>1. Idle(App) /\ drv' = drv /\ twice' = twice /\ \E ops : Starts(App, ops)
  BY DEF RequestState
<1>2. \A m \in Node : NoHarm(drv, drv', m)
  BY <1>1, AsideNoHarm
<1> QED
  BY <1>1, <1>2, HarmlessStart, DriverIsThread

\* ~Node takes all of the node with it.
LEMMA DeleteNoHarm ==
    ASSUME NEW d, Sound(d), NEW n \in Node
    PROVE  LET e == DeleteNode(d, n) IN
           /\ Sound(e) /\ ~Exists(e, n)
           /\ \A x \in Range(Query(e)) : x.node # n
           /\ \A m \in Node : m # n => NoHarm(d, e, m)
<1> DEFINE e == DeleteNode(d, n)
<1>1. /\ Sound(e) /\ ~Exists(e, n)
      /\ \A q \in Queues :
            /\ e.queue[q] = NotOf(d.queue[q], n)
            /\ Range(e.queue[q]) = {x \in Range(d.queue[q]) : x.node # n}
      /\ \A m \in Node : m # n => e.node[m] = d.node[m]
  BY DeleteKeeps
<1> HIDE DEF e
<1>2. Query(d) \in Seq(Item)
  BY ItemsOf, QueueNames DEF Query
<1>3. Query(e) = NotOf(Query(d), n) /\ \A x \in Range(Query(e)) : x.node # n
  BY <1>1, QueueNames DEF Query
<1>4. ASSUME NEW m \in Node, m # n PROVE NoHarm(d, e, m)
  <2>1. QueryKept(Query(d), Query(e), m)
    BY <1>2, <1>3, NotOfKeepsOrder
  <2> QED
    BY <1>1, <1>4, <2>1, SameNoHarm
<1> QED
  BY <1>1, <1>3, <1>4 DEF e

LEMMA InitNodeOrders ==
    ASSUME InOrder, Inv', NEW t \in Thread, NEW n \in Node, InitNode(t, n)
    PROVE  InOrder'
<1> DEFINE f == IF Exists(drv, n) THEN DeleteNode(drv, n) ELSE drv
           ops == <<Set(n, ProtocolInfo)>>
<1>1. /\ Idle(t) /\ drv' = [f EXCEPT !.node = [f.node EXCEPT ![n] = NewNode]]
      /\ Starts(t, ops) /\ twice' = twice \ {n}
  BY DEF InitNode, Becomes
<1> HIDE DEF ops
<1>2. Sound(drv) /\ Inv
  BY SoundNow DEF InOrder
<1>3. /\ Sound(f) /\ ~Exists(f, n) /\ \A x \in Range(Query(f)) : x.node # n
      /\ \A m \in Node : m # n => NoHarm(drv, f, m)
  <2>1. CASE Exists(drv, n)
    BY <1>2, <2>1, DeleteNoHarm
  <2>2. CASE ~Exists(drv, n)
    <3>1. \A x \in Range(Query(drv)) : x.node # n
      BY <1>2, <2>2, ItemsOf, QueueNames DEF Query
    <3> QED
      BY <1>2, <2>2, <3>1, AsideNoHarm
  <2> QED
    BY <2>1, <2>2
<1> HIDE DEF f
<1>4. /\ drv'.node[n] = NewNode /\ Query(drv') = Query(f)
      /\ \A m \in Node : m # n => drv'.node[m] = f.node[m]
  <2>1. /\ f.node \in [Node -> NodeRec \cup {Null}] /\ f \in DriverRec
    BY <1>3 DEF Sound, DriverRec
  <2>2. /\ drv'.node = [f.node EXCEPT ![n] = NewNode] /\ drv'.queue = f.queue
    BY <1>1, <2>1 DEF DriverRec
  <2>3. Query(drv') = Query(f)
    BY <2>2 DEF Query
  <2> QED
    BY <2>1, <2>2, <2>3
<1>5. ASSUME NEW m \in Node, m # n PROVE NoHarm(drv, drv', m)
  <2>1. NoHarm(f, drv', m)
    BY <1>4, <1>5, SameNoHarm DEF QueryKept
  <2> QED
    BY <1>3, <1>5, <2>1, NoHarmTwice
<1>6. \A m \in Node : Pends(thread, m) => Pends(thread', m)
  BY <1>1, <1>2, StartsPends
<1>7. drv'.node[n].parked = <<>> /\ Parked(drv', n) = {}
  BY <1>4, NewNodeType, NoStep DEF Parked
<1>8. ParkedInv(drv', thread', n)
  BY <1>7 DEF ParkedInv
<1>9. OrderInv(drv', thread', n)
  <2>1. Ordered(Query(drv'), n)
    BY <1>3, <1>4 DEF Ordered, IsMarker, Range
  <2> QED
    BY <1>7, <2>1 DEF OrderInv
<1>10. \A m \in Node : m # n /\ m \in twice => m \in twice'
  BY <1>1
<1> QED
  BY <1>5, <1>6, <1>8, <1>9, <1>10, OrderStep

LEMMA NodeRemovedOrders ==
    ASSUME InOrder, Inv', NEW n \in Node, NodeRemoved(n)
    PROVE  InOrder'
<1>1. drv' = DeleteNode(drv, n) /\ twice' = twice \ {n} /\ thread' = thread
  BY DEF NodeRemoved, Becomes
<1>2. ~Exists(drv', n) /\ \A m \in Node : m # n => NoHarm(drv, drv', m)
  BY <1>1, SoundNow, DeleteNoHarm DEF InOrder
<1>3. ParkedInv(drv', thread', n) /\ OrderInv(drv', thread', n)
  BY <1>2 DEF ParkedInv, OrderInv
<1>4. /\ \A m \in Node : m # n /\ m \in twice => m \in twice'
      /\ \A m \in Node : Pends(thread, m) => Pends(thread', m)
  BY <1>1
<1> QED
  BY <1>2, <1>3, <1>4, OrderStep

LEMMA InitOrders ==
    ASSUME Init
    PROVE  InOrder
<1>1. Inv
  BY InitHolds
<1>2. drv.queue = [q \in Queues |-> <<>>]
  BY DEF Init
<1>3. Query(drv) = <<>>
  BY <1>2, QueueNames DEF Query
<1>4. DOMAIN Query(drv) = {} /\ Range(Query(drv)) = {}
  BY <1>3 DEF Range
<1>5. ASSUME NEW n \in Node
      PROVE  Ordered(Query(drv), n) /\ MarkStages(Query(drv), n) = {} /\ drv.node[n].parked = <<>>
  <2>1. drv.node = [m \in Node |-> IF m \in Cached THEN ReadNode ELSE NewNode]
    BY DEF Init
  <2>2. drv.node[n].parked = <<>>
    BY <2>1 DEF ReadNode, NewNode
  <2> QED
    BY <1>4, <2>2 DEF Ordered, MarkStages
<1> QED
  BY <1>1, <1>5 DEF InOrder, ParkedInv, OrderInv

LEMMA NextOrders ==
    ASSUME InOrder, [Next]_vars
    PROVE  InOrder'
<1>0. Inv /\ Inv'
  BY NextKeeps DEF InOrder
<1>1. CASE UNCHANGED vars
  <2>1. drv' = drv /\ thread' = thread /\ twice' = twice
    BY <1>1 DEF vars
  <2>2. \A m \in Node : NoHarm(drv, drv', m)
    BY <2>1, AsideNoHarm
  <2> QED
    BY <1>0, <2>1, <2>2, HarmlessAside
<1>2. CASE \E t \in Thread : ThreadStep(t)
  BY <1>0, <1>2, SetQueryStageOrders, TestLoopOrders, ActOnStageOrders, AddMarkerOrders DEF ThreadStep
<1>3. CASE CallStep
  BY <1>0, <1>3, NodeInfoKeptOrders, SetAwakeOrders, SendAllPendingOrders, CheckCompletedOrders
  DEF CallStep
<1>4. CASE WriteNextMsg
  BY <1>0, <1>4, WriteNextMsgOrders
<1>5. CASE MessageEnds
  <2>1. drv.msg # Null => drv.msg.node \in Node
    BY <1>0, SoundNow, ItemsOf
  <2>2. ASSUME IsNodeInfoRequest, NodeInfoReceived(drv.msg.node) PROVE InOrder'
    BY <1>0, <2>1, <2>2, NodeInfoReceivedOrders DEF IsNodeInfoRequest
  <2> QED
    BY <1>0, <1>5, <2>2, AnswerReceivedOrders, NotAcknowledgedOrders, GiveUpOrders,
       NodeInfoRequestFailedOrders DEF MessageEnds
<1>6. ASSUME NEW n \in Node,
             \/ NodeInfoReceived(n) \/ WakeUpReceived(n) \/ NodeRemoved(n) \/ SetPollRequired(n)
             \/ SendNoMoreInfo(n)
      PROVE  InOrder'
  BY <1>0, <1>6, NodeInfoReceivedOrders, WakeUpReceivedOrders, NodeRemovedOrders,
     SetPollRequiredOrders, SendNoMoreInfoOrders
<1>7. ASSUME NEW n \in Node, NEW failed \in BOOLEAN, FailedNodeReported(n, failed) PROVE InOrder'
  BY <1>0, <1>7, FailedNodeReportedOrders
<1>8. ASSUME NEW n \in Node, NewIdAssigned(n) \/ RefreshNodeInfo(n) PROVE InOrder'
  BY <1>0, <1>8, InitNodeOrders, DriverIsThread DEF NewIdAssigned, RefreshNodeInfo
<1>9. ASSUME NEW n \in Node, NEW s \in {Associations, Dynamic, Configuration}, RequestState(n, s)
      PROVE  InOrder'
  BY <1>0, <1>9, RequestStateOrders
<1> QED
  BY <1>1, <1>2, <1>3, <1>4, <1>5, <1>6, <1>7, <1>8, <1>9 DEF Next

LEMMA InOrderLast ==
    ASSUME InOrder
    PROVE  MarkersLast
<1> SUFFICES ASSUME NEW n \in Node \ twice, Exists(drv, n), OutOfOrder(n) PROVE FALSE
  BY DEF MarkersLast
<1>1. OrderInv(drv, thread, n)
  BY DEF InOrder
<1> DEFINE query == Query(drv)
           parked == drv.node[n].parked
<1>2. PICK k \in DOMAIN query :
         /\ OfStage(query[k], n, "marker")
         /\ \/ \E j \in DOMAIN query : j > k /\ OfStage(query[j], n, "request")
            \/ Idle(Driver) /\ \E j \in DOMAIN parked : OfStage(parked[j], n, "request")
  BY DEF OutOfOrder, Query
<1>3. query \in Seq(Item)
  BY SoundNow, ItemsOf, QueueNames DEF InOrder, Query
<1>4. DOMAIN query \subseteq Int
  BY <1>3, LenProperties
<1> HIDE DEF query
<1>5. IsMarker(query[k], n) /\ query[k].stage \in MarkStages(query, n)
  BY <1>2 DEF OfStage, IsMarker, MarkStages, Range
<1>6. CASE \E j \in DOMAIN query : j > k /\ OfStage(query[j], n, "request")
  <2>1. PICK j \in DOMAIN query : j > k /\ OfStage(query[j], n, "request")
    BY <1>6
  <2>2. k < j /\ Asks(query[j], n) /\ query[j].stage = query[k].stage
    BY <1>2, <1>4, <2>1 DEF OfStage, Asks
  <2> QED
    BY <1>1, <1>5, <2>2 DEF OrderInv, Ordered, query
<1>7. CASE Idle(Driver) /\ \E j \in DOMAIN parked : OfStage(parked[j], n, "request")
  <2>1. PICK j \in DOMAIN parked : OfStage(parked[j], n, "request")
    BY <1>7
  <2>2. /\ parked[j] \in Parked(drv, n) /\ parked[j].kind = "request"
        /\ parked[j].stage = query[k].stage
    BY <1>2, <2>1 DEF OfStage, Parked, Range
  <2>3. Pends(thread, n)
    BY <1>1, <1>5, <2>2 DEF OrderInv, query
  <2> QED
    BY <1>7, <2>3, IdlePends
<1> QED
  BY <1>2, <1>6, <1>7

(***************************************************************************)
(* Node::AdvanceQueries counts on its marker coming last: all requests of  *)
(* a stage are taken from the queues before the marker that ends the       *)
(* stage, also when a sleeping node has them moved to its wake-up queue    *)
(* and back (Driver.cpp, MoveMessagesToWakeUpQueue and                     *)
(* SendQueryStageComplete; WakeUp.cpp, SendPending), but for nodes that    *)
(* were asked again while a marker of the stage was still to come.         *)
(***************************************************************************)
THEOREM OrderCorrect == Spec => []MarkersLast
<1>1. Init => InOrder
  BY InitOrders
<1>2. InOrder /\ [Next]_vars => InOrder'
  BY NextOrders
<1>3. InOrder => MarkersLast
  BY InOrderLast
<1> QED
  BY <1>1, <1>2, <1>3, PTL DEF Spec
=============================================================================
