--------------------------- MODULE PollListProofs ---------------------------
(***************************************************************************)
(* Machine-checked proofs about PollList.                                  *)
(***************************************************************************)
EXTENDS PollList, SequenceLemmas

-----------------------------------------------------------------------------
(* Operations on the list.                                                 *)

(* A poll counter stays a uint8 when it is decremented, and zero wraps. *)
LEMMA DecrementedType ==
    ASSUME NEW c \in 0..(CounterMod - 1)
    PROVE  Decremented(c) \in 0..(CounterMod - 1)
<1>1. c + CounterMod - 1 \in Int /\ CounterMod \in Nat /\ CounterMod > 0
  BY PollConstants
<1> QED
  BY <1>1 DEF Decremented

(* DisablePoll's search finds an entry of a listed value. *)
LEMMA ListedAtType ==
    ASSUME pollList \in Seq(Entry), NEW v, Listed(v)
    PROVE  ListedAt(v) \in 1..Len(pollList) /\ pollList[ListedAt(v)].id = v
  BY DEF Listed, ListedAt

(* Turning a list over whose front entry is not due keeps its entries. *)
LEMMA PassedType ==
    ASSUME NEW s \in Seq(Entry), s # <<>>
    PROVE  /\ Passed(s) \in Seq(Entry)
           /\ Len(Passed(s)) = Len(s)
           /\ \A k \in 1..(Len(s) - 1) : Passed(s)[k] = s[k + 1]
           /\ Passed(s)[Len(s)].id = s[1].id
<1> DEFINE e == [Head(s) EXCEPT !.counter = Decremented(@)]
<1>1. Head(s) \in Entry /\ Head(s) = s[1] /\ Len(s) \in Nat /\ Len(s) > 0
  OBVIOUS
<1>2. e \in Entry /\ e.id = s[1].id
  BY <1>1, DecrementedType DEF Entry
<1>3. /\ Tail(s) \in Seq(Entry) /\ Len(Tail(s)) = Len(s) - 1
      /\ \A k \in 1..(Len(s) - 1) : Tail(s)[k] = s[k + 1]
  BY <1>1
<1> HIDE DEF e
<1>4. Append(Tail(s), e) \in Seq(Entry) /\ Len(Append(Tail(s), e)) = Len(s)
  BY <1>1, <1>2, <1>3
<1>5. /\ \A k \in 1..(Len(s) - 1) : Append(Tail(s), e)[k] = s[k + 1]
      /\ Append(Tail(s), e)[Len(s)] = e
  BY <1>1, <1>2, <1>3
<1> QED
  BY <1>2, <1>4, <1>5 DEF Passed, e

-----------------------------------------------------------------------------
(* Types.                                                                  *)

(* The environment's calls carry values and intensities. *)
LEMMA CallType ==
    ASSUME TypeOK, NEW t \in Threads
    PROVE  /\ call[t].pc \in {"idle", "lock", "value", "nodes"}
           /\ call[t].op \in PollOp \cup {"none"}
           /\ call[t].id \in Value \cup {NoValue}
           /\ call[t].intensity \in 0..(CounterMod - 1)
  BY DEF TypeOK

(* Initially every variable has its type. *)
LEMMA InitType == Init => TypeOK
<1> SUFFICES ASSUME Init PROVE TypeOK
  OBVIOUS
<1>1. 1 \in 0..(CounterMod - 1) /\ 0 \in 0..(CounterMod - 1)
  BY PollConstants
<1>2. pollList \in Seq(Entry)
  <2>1. \A k \in DOMAIN Restored : [id |-> Restored[k], counter |-> 1] \in Entry
    BY <1>1, PollConstants DEF Entry
  <2>2. DOMAIN Restored = 1..Len(Restored) /\ Len(Restored) \in Nat
    BY PollConstants
  <2>3. pollList = [k \in 1..Len(Restored) |-> [id |-> Restored[k], counter |-> 1]]
    BY <2>2 DEF Init
  <2> QED
    BY <2>1, <2>2, <2>3
<1>3. intensity \in [Value -> 0..(CounterMod - 1)]
  BY <1>1 DEF Init
<1>4. call \in [Threads -> [pc : {"idle", "lock", "value", "nodes"},
                            op : PollOp \cup {"none"}, id : Value \cup {NoValue},
                            intensity : 0..(CounterMod - 1), polled : BOOLEAN]]
  BY <1>1 DEF Init, NoCall
<1>5. poll \in [pc : {"check", "pop", "reload", "request", "mark", "wait"},
                entry : Entry \cup {NoEntry}]
  BY DEF Init
<1>6. /\ dtor \in [pc : {"none", "visit", "free"}, node : Node \cup {NoNode},
                    todo : SUBSET Value]
      /\ awake \in [Sleeper -> BOOLEAN] /\ pollRequired \in [Sleeper -> BOOLEAN]
  BY DEF Init
<1>7. deletes \in 0..MaxDeletes /\ removals \in 0..MaxRemovals
  BY PollConstants DEF Init
<1> QED
  BY <1>2, <1>3, <1>4, <1>5, <1>6, <1>7 DEF Init, TypeOK

(* Every step of the calls keeps the types. *)
LEMMA CallKeepsType ==
    ASSUME TypeOK, NEW t \in Threads, AppCall(t) \/ Call(t)
    PROVE  TypeOK'
<1> USE DEF locks, lists, store, wakeUp, counters
<1>0. call \in [Threads -> [pc : {"idle", "lock", "value", "nodes"},
                            op : PollOp \cup {"none"}, id : Value \cup {NoValue},
                            intensity : 0..(CounterMod - 1), polled : BOOLEAN]]
  BY DEF TypeOK
<1> DEFINE Back == [call EXCEPT ![t] = NoCall]
<1>a. 0 \in 0..(CounterMod - 1)
  BY PollConstants
<1>b. Back \in [Threads -> [pc : {"idle", "lock", "value", "nodes"},
                            op : PollOp \cup {"none"}, id : Value \cup {NoValue},
                            intensity : 0..(CounterMod - 1), polled : BOOLEAN]]
  BY <1>0, <1>a DEF NoCall
<1>c. UnlockPolls => pollMutex' \in Threads \cup {PollThread, NoThread}
  BY DEF TypeOK, UnlockPolls
<1> DEFINE Visits == [pc : {"none", "visit", "free"}, node : Node \cup {NoNode},
                      todo : SUBSET Value]
<1>d. dtor \in Visits /\ [dtor EXCEPT !.todo = @ \ {call[t].id}] \in Visits
  <2>1. dtor \in Visits
    BY DEF TypeOK
  <2>2. dtor.todo \ {call[t].id} \in SUBSET Value
    BY <2>1
  <2>3. \A x \in SUBSET Value : [dtor EXCEPT !.todo = x] \in Visits
    BY <2>1
  <2> QED
    BY <2>1, <2>2, <2>3
<1>1. CASE AppCall(t)
  <2>1. PICK op \in AppOps, v \in Value, i \in Intensities : Begin(t, op, v, i)
    BY <1>1 DEF AppCall
  <2>2. op \in PollOp /\ i \in 0..(CounterMod - 1)
    BY PollConstants
  <2>3. call' \in [Threads -> [pc : {"idle", "lock", "value", "nodes"},
                               op : PollOp \cup {"none"}, id : Value \cup {NoValue},
                               intensity : 0..(CounterMod - 1), polled : BOOLEAN]]
    BY <1>0, <2>1, <2>2 DEF Begin
  <2> QED
    BY <1>1, <2>3 DEF AppCall, TypeOK
<1>2. CASE LockPolls(t)
  <2>1. call' \in [Threads -> [pc : {"idle", "lock", "value", "nodes"},
                               op : PollOp \cup {"none"}, id : Value \cup {NoValue},
                               intensity : 0..(CounterMod - 1), polled : BOOLEAN]]
    BY <1>0, <1>2 DEF LockPolls
  <2> QED
    BY <1>2, <2>1 DEF LockPolls, TypeOK
<1>3. CASE EnablePoll(t)
  <2> DEFINE v == call[t].id
             i == call[t].intensity
  <2>1. v \in present => v \in Value /\ [id |-> v, counter |-> i] \in Entry
    BY <1>0 DEF TypeOK, Entry
  <2>2. pollList' \in Seq(Entry) /\ intensity' \in [Value -> 0..(CounterMod - 1)]
    <3>1. CASE v \in present
      <4>1. \/ pollList' = pollList
            \/ pollList' = Append(pollList, [id |-> v, counter |-> i])
        BY <1>3, <3>1 DEF EnablePoll
      <4>2. intensity' = [intensity EXCEPT ![v] = i]
        BY <1>3, <3>1 DEF EnablePoll
      <4>3. pollList' \in Seq(Entry)
        <5>1. pollList \in Seq(Entry) /\ [id |-> v, counter |-> i] \in Entry
          BY <2>1, <3>1 DEF TypeOK
        <5> QED
          BY <4>1, <5>1
      <4>4. intensity' \in [Value -> 0..(CounterMod - 1)]
        BY <1>0, <4>2 DEF TypeOK
      <4> QED
        BY <4>3, <4>4
    <3>2. CASE v \notin present
      BY <1>3, <3>2 DEF EnablePoll, TypeOK
    <3> QED
      BY <3>1, <3>2
  <2>3. call' = Back
    BY <1>3 DEF EnablePoll
  <2> QED
    BY <1>3, <1>b, <1>c, <2>2, <2>3 DEF EnablePoll, TypeOK
<1>4. CASE DisablePoll(t)
  <2> DEFINE v == call[t].id
  <2>1. pollList' \in Seq(Entry) /\ intensity' \in [Value -> 0..(CounterMod - 1)]
        /\ undefined' \in BOOLEAN
    <3>1. CASE NodeOf[v] \in nodes /\ Listed(v)
      <4>1. RemoveAt(pollList, ListedAt(v)) \in Seq(Entry)
        BY <3>1, ListedAtType, RemoveAtType DEF TypeOK
      <4>2. pollList' \in Seq(Entry)
        BY <1>4, <3>1, <4>1 DEF DisablePoll
      <4>3. intensity' = intensity \/ intensity' = [intensity EXCEPT ![v] = 0]
        BY <1>4, <3>1 DEF DisablePoll
      <4>4. undefined' \in BOOLEAN
        BY <1>4, <3>1 DEF DisablePoll
      <4>5. intensity \in [Value -> 0..(CounterMod - 1)]
        BY DEF TypeOK
      <4>6. intensity' \in [Value -> 0..(CounterMod - 1)]
        BY <1>a, <4>3, <4>5
      <4> QED
        BY <4>2, <4>4, <4>6
    <3>2. CASE ~(NodeOf[v] \in nodes /\ Listed(v))
      BY <1>4, <3>2 DEF DisablePoll, TypeOK
    <3> QED
      BY <3>1, <3>2
  <2>2. call' = Back /\ UnlockPolls
    BY <1>4 DEF DisablePoll
  <2>3. dtor' = dtor \/ dtor' = [dtor EXCEPT !.todo = @ \ {v}]
    BY <1>4 DEF DisablePoll
  <2>4. dtor' \in Visits
    BY <1>d, <2>3
  <2>5. UNCHANGED <<leaked, nodeMutex, store, awakeNodesQueried, poll, wakeUp, busy,
                    counters>>
    BY <1>4 DEF DisablePoll
  <2> QED
    BY <1>b, <1>c, <2>1, <2>2, <2>4, <2>5 DEF TypeOK
<1>5. CASE isPolled_Value(t)
  <2>0. PICK b \in BOOLEAN : call' = [call EXCEPT ![t].pc = "nodes", ![t].polled = b]
    BY <1>5 DEF isPolled_Value
  <2>1. call' \in [Threads -> [pc : {"idle", "lock", "value", "nodes"},
                               op : PollOp \cup {"none"}, id : Value \cup {NoValue},
                               intensity : 0..(CounterMod - 1), polled : BOOLEAN]]
    BY <1>0, <2>0
  <2>2. undefined' \in BOOLEAN
    BY <1>5 DEF isPolled_Value, Freed
  <2>3. UNCHANGED <<locks, lists, store, awakeNodesQueried, poll, dtor, wakeUp, busy,
                    counters>>
    BY <1>5 DEF isPolled_Value
  <2> QED
    BY <2>1, <2>2, <2>3 DEF TypeOK
<1>6. CASE isPolled_List(t)
  <2> DEFINE v == call[t].id
             again == [call EXCEPT ![t] = [pc |-> "lock", op |-> "DisablePoll", id |-> v,
                                           intensity |-> 0, polled |-> FALSE]]
  <2>1. again \in [Threads -> [pc : {"idle", "lock", "value", "nodes"},
                               op : PollOp \cup {"none"}, id : Value \cup {NoValue},
                               intensity : 0..(CounterMod - 1), polled : BOOLEAN]]
    BY <1>0, <1>a DEF PollOp
  <2>2. /\ call' = again \/ call' = Back
        /\ dtor' = dtor \/ dtor' = [dtor EXCEPT !.todo = @ \ {v}]
    BY <1>6 DEF isPolled_List, Begin
  <2>3. dtor' \in Visits
    BY <1>d, <2>2
  <2>4. call' \in [Threads -> [pc : {"idle", "lock", "value", "nodes"},
                               op : PollOp \cup {"none"}, id : Value \cup {NoValue},
                               intensity : 0..(CounterMod - 1), polled : BOOLEAN]]
    BY <1>b, <2>1, <2>2
  <2>5. UNCHANGED <<leaked, nodeMutex, lists, store, awakeNodesQueried, poll, wakeUp,
                    busy, undefined, counters>> /\ UnlockPolls
    BY <1>6 DEF isPolled_List
  <2> QED
    BY <1>c, <2>3, <2>4, <2>5 DEF TypeOK
<1>7. CASE SetPollIntensity(t)
  <2>1. /\ intensity' \in [Value -> 0..(CounterMod - 1)]
        /\ pollMutex' \in Threads \cup {PollThread, NoThread}
        /\ leaked' \in BOOLEAN /\ undefined' \in BOOLEAN
    BY <1>0, <1>7, <1>c DEF SetPollIntensity, TypeOK, Freed
  <2>2. call' = Back
    BY <1>7 DEF SetPollIntensity
  <2> QED
    BY <1>7, <1>b, <2>1, <2>2 DEF SetPollIntensity, TypeOK
<1> QED
  BY <1>1, <1>2, <1>3, <1>4, <1>5, <1>6, <1>7 DEF Call

(* Every step of the poll thread keeps the types. *)
LEMMA PollKeepsType ==
    ASSUME TypeOK, PollProc
    PROVE  TypeOK'
<1> USE DEF locks, lists, store, wakeUp, counters
<1> DEFINE PC == {"check", "pop", "reload", "request", "mark", "wait"}
<1>0. poll \in [pc : PC, entry : Entry \cup {NoEntry}] /\ pollList \in Seq(Entry)
  BY DEF TypeOK
<1>a. \A pc \in PC : At(pc) => poll' \in [pc : PC, entry : Entry \cup {NoEntry}]
  BY <1>0 DEF At
<1>b. [pc |-> "check", entry |-> NoEntry] \in [pc : PC, entry : Entry \cup {NoEntry}]
  OBVIOUS
<1>c. UnlockPolls => pollMutex' \in Threads \cup {PollThread, NoThread}
  BY DEF TypeOK, UnlockPolls
<1>1. CASE PollCheck
  BY <1>1, <1>a DEF PollCheck, TypeOK
<1>2. CASE PollPop
  <2>1. /\ pollList' \in Seq(Entry)
        /\ poll' \in [pc : PC, entry : Entry \cup {NoEntry}]
        /\ pollMutex' \in Threads \cup {PollThread, NoThread}
        /\ undefined' \in BOOLEAN
    <3>1. CASE pollList = <<>>
      BY <1>2, <3>1 DEF PollPop, TypeOK
    <3>2. CASE pollList # <<>> /\ Head(pollList).counter # 1
      BY <1>0, <1>2, <1>a, <1>c, <3>2, PassedType DEF PollPop, TypeOK
    <3>3. CASE pollList # <<>> /\ Head(pollList).counter = 1
      <4>1. Head(pollList) \in Entry /\ Tail(pollList) \in Seq(Entry)
        BY <1>0, <3>3
      <4>2. pollList' = Tail(pollList) /\ pollMutex' = PollThread
            /\ poll' = [pc |-> "reload", entry |-> Head(pollList)] /\ undefined' = undefined
        BY <1>2, <3>3 DEF PollPop
      <4> QED
        BY <4>1, <4>2 DEF TypeOK
    <3> QED
      BY <3>1, <3>2, <3>3
  <2> QED
    BY <1>2, <2>1 DEF PollPop, TypeOK
<1>3. CASE PollReload
  <2> DEFINE e == [id |-> poll.entry.id, counter |-> intensity[poll.entry.id]]
  <2>1. poll.entry.id \in present => e \in Entry
    BY DEF TypeOK, Entry
  <2>2. poll.entry.id \in present => PutBack(pollList, e) \in Seq(Entry)
    BY <1>0, <2>1 DEF PutBack
  <2>3. /\ pollList' \in Seq(Entry) /\ leaked' \in BOOLEAN
        /\ poll' \in [pc : PC, entry : Entry \cup {NoEntry}]
    BY <1>3, <1>a, <1>b, <2>2 DEF PollReload, TypeOK
  <2> QED
    BY <1>3, <2>3 DEF PollReload, TypeOK
<1>4. CASE PollRequest
  <2>1. /\ nodeMutex' \in {Driver, PollThread, NoThread} /\ busy' \in BOOLEAN
        /\ pollMutex' \in Threads \cup {PollThread, NoThread}
    BY <1>4, <1>c DEF PollRequest, TypeOK
  <2>2. poll' \in [pc : PC, entry : Entry \cup {NoEntry}]
    BY <1>4, <1>a DEF PollRequest
  <2> QED
    BY <1>4, <2>1, <2>2 DEF PollRequest, TypeOK
<1>5. CASE PollMark
  <2>1. pollRequired' \in [Sleeper -> BOOLEAN]
    BY <1>5 DEF PollMark, TypeOK
  <2> QED
    BY <1>5, <1>a, <1>c, <2>1 DEF PollMark, TypeOK
<1>6. CASE PollWait
  BY <1>6, <1>b DEF PollWait, TypeOK
<1> QED
  BY <1>1, <1>2, <1>3, <1>4, <1>5, <1>6 DEF PollProc

(* Every step of the driver thread keeps the types. *)
LEMMA DriverKeepsType ==
    ASSUME TypeOK, DriverStep \/ OtherTraffic
    PROVE  TypeOK'
<1> USE DEF locks, lists, store, wakeUp, counters
<1> DEFINE Visits == [pc : {"none", "visit", "free"}, node : Node \cup {NoNode},
                      todo : SUBSET Value]
<1>1. CASE CheckCompletedNodeQueries
  BY <1>1 DEF CheckCompletedNodeQueries, TypeOK
<1>2. CASE QueuesEmpty
  <2>1. busy' \in BOOLEAN
    BY <1>2 DEF QueuesEmpty
  <2>2. UNCHANGED <<locks, lists, store, awakeNodesQueried, call, poll, dtor, wakeUp,
                    undefined, counters>>
    BY <1>2 DEF QueuesEmpty
  <2> QED
    BY <2>1, <2>2 DEF TypeOK
<1>3. CASE OtherTraffic
  BY <1>3 DEF OtherTraffic, TypeOK
<1>4. CASE PollWokenNode
  <2>1. busy' \in BOOLEAN /\ pollRequired' \in [Sleeper -> BOOLEAN]
        /\ waking' \in Sleeper \cup {NoNode}
    BY <1>4 DEF PollWokenNode, TypeOK
  <2>2. UNCHANGED <<locks, lists, store, awakeNodesQueried, call, poll, dtor, awake,
                    undefined, counters>>
    BY <1>4 DEF PollWokenNode
  <2> QED
    BY <2>1, <2>2 DEF TypeOK
<1>5. CASE VisitValue
  <2>1. PICK v \in dtor.todo : Begin(Driver, "isPolled", v, 0)
    BY <1>5 DEF VisitValue
  <2>2. v \in Value /\ Driver \in Threads /\ 0 \in 0..(CounterMod - 1)
    BY PollConstants DEF TypeOK, Threads
  <2>3. call' \in [Threads -> [pc : {"idle", "lock", "value", "nodes"},
                               op : PollOp \cup {"none"}, id : Value \cup {NoValue},
                               intensity : 0..(CounterMod - 1), polled : BOOLEAN]]
    <3>1. [pc |-> "lock", op |-> "isPolled", id |-> v, intensity |-> 0, polled |-> FALSE]
             \in [pc : {"idle", "lock", "value", "nodes"}, op : PollOp \cup {"none"},
                  id : Value \cup {NoValue}, intensity : 0..(CounterMod - 1),
                  polled : BOOLEAN]
      BY <2>2 DEF PollOp
    <3> QED
      BY <2>1, <3>1 DEF Begin, TypeOK
  <2> QED
    BY <1>5, <2>3 DEF VisitValue, TypeOK
<1>6. CASE FreeValues
  <2>1. dtor' \in Visits
    <3>1. dtor \in Visits
      BY DEF TypeOK
    <3> QED
      BY <1>6, <3>1 DEF FreeValues
  <2>2. present' \subseteq Value
    BY <1>6 DEF FreeValues, TypeOK
  <2>3. UNCHANGED <<locks, lists, nodes, awakeNodesQueried, call, poll, wakeUp, busy,
                    undefined, counters>>
    BY <1>6 DEF FreeValues
  <2> QED
    BY <2>1, <2>2, <2>3 DEF TypeOK
<1>7. CASE ReplaceNode
  <2>1. 0 \in 0..(CounterMod - 1)
    BY PollConstants
  <2>2. intensity' \in [Value -> 0..(CounterMod - 1)]
    BY <1>7, <2>1 DEF ReplaceNode, TypeOK
  <2>3. dtor' \in Visits
    BY <1>7 DEF ReplaceNode
  <2>4. awake' \in [Sleeper -> BOOLEAN] /\ pollRequired' \in [Sleeper -> BOOLEAN]
    <3>1. /\ \A n \in Sleeper : (n = dtor.node \/ awake[n]) \in BOOLEAN
          /\ \A n \in Sleeper : (n # dtor.node /\ pollRequired[n]) \in BOOLEAN
      BY DEF TypeOK
    <3> QED
      BY <1>7, <3>1 DEF ReplaceNode
  <2>5. nodes' \subseteq Node /\ nodeMutex' = NoThread
    BY <1>7 DEF ReplaceNode, TypeOK
  <2>6. UNCHANGED <<pollMutex, leaked, pollList, present, awakeNodesQueried, call, poll,
                    waking, busy, undefined, counters>>
    BY <1>7 DEF ReplaceNode
  <2> QED
    BY <2>2, <2>3, <2>4, <2>5, <2>6 DEF TypeOK
<1>8. ASSUME NEW n \in Node, NodeWakes(n)
      PROVE  TypeOK'
  BY <1>8 DEF NodeWakes, GoesOnToPoll, TypeOK
<1>9. ASSUME NEW n \in Node, NodeSleeps(n)
      PROVE  TypeOK'
  BY <1>9 DEF NodeSleeps, TypeOK
<1>10. ASSUME NEW n \in Node, DeleteNode(n)
       PROVE  TypeOK'
  <2>1. dtor' \in Visits
    BY <1>10 DEF DeleteNode, TypeOK
  <2>2. deletes' \in 0..MaxDeletes
    BY <1>10, PollConstants DEF DeleteNode, TypeOK
  <2>3. nodeMutex' = Driver
    BY <1>10 DEF DeleteNode, LockNodes
  <2> QED
    BY <1>10, <2>1, <2>2, <2>3 DEF DeleteNode, TypeOK
<1>11. ASSUME NEW v \in Value, RemoveValue(v)
       PROVE  TypeOK'
  <2>1. removals' \in 0..MaxRemovals /\ 0 \in 0..(CounterMod - 1)
    BY <1>11, PollConstants DEF RemoveValue, TypeOK
  <2> QED
    BY <1>11, <2>1 DEF RemoveValue, TypeOK
<1>12. ASSUME NEW v \in Value, CreateValue(v)
       PROVE  TypeOK'
  BY <1>12 DEF CreateValue, TypeOK
<1> QED
  BY <1>1, <1>2, <1>3, <1>4, <1>5, <1>6, <1>7, <1>8, <1>9, <1>10, <1>11, <1>12
  DEF DriverStep

(* Every step keeps the types, and so does standing still. *)
LEMMA StepKeepsType == TypeOK /\ [Next]_vars => TypeOK'
<1>1. ASSUME TypeOK, UNCHANGED vars PROVE TypeOK'
  BY <1>1 DEF vars, locks, lists, store, wakeUp, counters, TypeOK
<1>2. ASSUME TypeOK, Next PROVE TypeOK'
  BY <1>2, CallKeepsType, PollKeepsType, DriverKeepsType DEF Next
<1> QED
  BY <1>1, <1>2

(* TypeOK of PollList: in particular a poll counter is always a uint8, and the two    *)
(* mutexes only ever have one of the threads as their owner.                          *)
THEOREM PollTypeCorrect == Spec => []TypeOK
  BY InitType, StepKeepsType, PTL DEF Spec

-----------------------------------------------------------------------------
(* One entry for each value. The list changes under m_pollMutex, and an     *)
(* entry is out of the list only while the poll thread holds that mutex.    *)

(* Who is past the acquisition of m_pollMutex owns it. *)
HoldsPolls ==
    /\ \A t \in Threads : call[t].pc \in {"value", "nodes"} => pollMutex = t
    /\ poll.pc \in {"reload", "request", "mark"} => pollMutex = PollThread

Distinct(s) == \A j, k \in DOMAIN s : s[j].id = s[k].id => j = k

ListInv == TypeOK /\ HoldsPolls /\ OneEntryEach

(* The restored list has one entry for each value, and nobody has a lock. *)
LEMMA InitListInv == Init => HoldsPolls /\ OneEntryEach
<1> SUFFICES ASSUME Init PROVE HoldsPolls /\ OneEntryEach
  OBVIOUS
<1>1. HoldsPolls
  BY DEF Init, HoldsPolls, NoCall
<1>2. pollList = [k \in DOMAIN Restored |-> [id |-> Restored[k], counter |-> 1]]
  BY DEF Init
<1>3. \A j, k \in DOMAIN pollList : pollList[j].id = pollList[k].id => j = k
  BY <1>2, PollConstants
<1> QED
  BY <1>1, <1>3 DEF Init, OneEntryEach, InHand

(* A new entry of a value that is not listed is the only one of its value. *)
LEMMA AppendDistinct ==
    ASSUME NEW s \in Seq(Entry), NEW e \in Entry, Distinct(s),
           \A k \in DOMAIN s : s[k].id # e.id
    PROVE  Distinct(Append(s, e))
<1>1. /\ DOMAIN s = 1..Len(s) /\ Len(s) \in Nat
      /\ DOMAIN Append(s, e) = 1..(Len(s) + 1)
      /\ \A k \in 1..Len(s) : Append(s, e)[k] = s[k]
      /\ Append(s, e)[Len(s) + 1] = e
  OBVIOUS
<1> QED
  BY <1>1 DEF Distinct

(* Turning a sequence of n elements over by one place is one to one. *)
LEMMA RotationApart ==
    ASSUME NEW n \in Nat
    PROVE  \A j, k \in 1..n :
              (IF j = n THEN 1 ELSE j + 1) = (IF k = n THEN 1 ELSE k + 1) => j = k
  OBVIOUS

(* Turning the list over keeps its values, and one entry for each. *)
LEMMA PassedDistinct ==
    ASSUME NEW s \in Seq(Entry), s # <<>>, Distinct(s)
    PROVE  /\ Distinct(Passed(s))
           /\ \A k \in DOMAIN Passed(s) : \E j \in DOMAIN s : Passed(s)[k].id = s[j].id
<1>0. Len(s) \in Nat
  OBVIOUS
<1>1. /\ Passed(s) \in Seq(Entry) /\ Len(Passed(s)) = Len(s)
      /\ \A k \in 1..(Len(s) - 1) : Passed(s)[k] = s[k + 1]
      /\ Passed(s)[Len(s)].id = s[1].id
  BY PassedType
<1>2. /\ DOMAIN Passed(s) = 1..Len(s) /\ DOMAIN s = 1..Len(s)
      /\ Len(s) \in Nat /\ Len(s) > 0
  BY <1>1
<1> DEFINE from(k) == IF k = Len(s) THEN 1 ELSE k + 1
<1>3. ASSUME NEW k \in 1..Len(s)
      PROVE  from(k) \in 1..Len(s) /\ Passed(s)[k].id = s[from(k)].id
  <2>1. CASE k = Len(s)
    BY <1>1, <1>2, <2>1
  <2>2. CASE k # Len(s)
    <3>1. k \in 1..(Len(s) - 1) /\ k + 1 \in 1..Len(s)
      BY <1>0, <2>2
    <3> QED
      BY <1>1, <2>2, <3>1
  <2> QED
    BY <2>1, <2>2
<1>4. \A j, k \in 1..Len(s) : from(j) = from(k) => j = k
  BY <1>0, RotationApart
<1> HIDE DEF from
<1> QED
  BY <1>2, <1>3, <1>4 DEF Distinct

(* Removing an entry leaves one entry for each of the others. *)
LEMMA RemoveDistinct ==
    ASSUME NEW s \in Seq(Entry), NEW i \in 1..Len(s), Distinct(s)
    PROVE  /\ Distinct(RemoveAt(s, i))
           /\ \A k \in DOMAIN RemoveAt(s, i) :
                 \E j \in DOMAIN s : RemoveAt(s, i)[k].id = s[j].id
<1> DEFINE r == RemoveAt(s, i)
<1>1. /\ r \in Seq(Entry) /\ Len(r) = Len(s) - 1
      /\ \A k \in 1..(Len(s) - 1) : r[k] = IF k < i THEN s[k] ELSE s[k + 1]
  BY RemoveAtType
<1>2. DOMAIN r = 1..(Len(s) - 1) /\ DOMAIN s = 1..Len(s) /\ Len(s) \in Nat
  BY <1>1
<1> DEFINE from(k) == IF k < i THEN k ELSE k + 1
<1>3. \A k \in 1..(Len(s) - 1) : from(k) \in 1..Len(s) /\ r[k] = s[from(k)]
  BY <1>1, <1>2
<1>4. \A j, k \in 1..(Len(s) - 1) : from(j) = from(k) => j = k
  BY <1>2
<1> HIDE DEF from, r
<1>5. \A k \in DOMAIN r : from(k) \in DOMAIN s /\ r[k].id = s[from(k)].id
  BY <1>2, <1>3
<1>6. Distinct(r)
  BY <1>2, <1>4, <1>5 DEF Distinct
<1> QED
  BY <1>5, <1>6 DEF r

(* A thread that is past m_pollMutex is the only one, the poll thread included. *)
LEMMA AloneInCall ==
    ASSUME HoldsPolls, NEW t \in Threads, call[t].pc \in {"value", "nodes"}
    PROVE  /\ pollMutex = t /\ t # PollThread
           /\ \A u \in Threads : u # t => call[u].pc \notin {"value", "nodes"}
           /\ poll.pc \notin {"reload", "request", "mark"}
  BY PollConstants DEF HoldsPolls

(* A thread that may take m_pollMutex finds nobody else past it. *)
LEMMA AloneAtLock ==
    ASSUME HoldsPolls, NEW t \in Threads \cup {PollThread}, CanLockPolls(t)
    PROVE  /\ \A u \in Threads : u # t => call[u].pc \notin {"value", "nodes"}
           /\ t # PollThread => poll.pc \notin {"reload", "request", "mark"}
  BY PollConstants DEF HoldsPolls, CanLockPolls

(* The calls keep to the mutex: they act on the list only as its owner. *)
LEMMA CallKeepsHold ==
    ASSUME ListInv, NEW t \in Threads, AppCall(t) \/ Call(t)
    PROVE  HoldsPolls'
<1>0. HoldsPolls /\ call \in [Threads -> [pc : {"idle", "lock", "value", "nodes"},
                                          op : PollOp \cup {"none"},
                                          id : Value \cup {NoValue},
                                          intensity : 0..(CounterMod - 1),
                                          polled : BOOLEAN]]
  BY DEF ListInv, TypeOK
<1>1. CASE AppCall(t)
  <2>1. PICK op \in AppOps, v \in Value, i \in Intensities : Begin(t, op, v, i)
    BY <1>1 DEF AppCall
  <2>2. UNCHANGED <<pollMutex, poll>>
    BY <1>1 DEF AppCall, locks
  <2> QED
    BY <1>0, <2>1, <2>2 DEF Begin, HoldsPolls
<1>2. CASE LockPolls(t)
  <2>1. /\ \A u \in Threads : u # t => call[u].pc \notin {"value", "nodes"}
        /\ t # PollThread
        /\ poll.pc \notin {"reload", "request", "mark"}
    BY <1>0, <1>2, AloneAtLock, PollConstants DEF LockPolls
  <2>2. pollMutex' = t /\ poll' = poll /\ \A u \in Threads : u # t => call'[u] = call[u]
    BY <1>0, <1>2 DEF LockPolls
  <2> QED
    BY <2>1, <2>2 DEF HoldsPolls
<1>3. ASSUME call[t].pc \in {"value", "nodes"}, UNCHANGED poll,
             call'[t].pc \in {"idle", "lock"},
             \A u \in Threads : u # t => call'[u] = call[u]
      PROVE  HoldsPolls'
  BY <1>0, <1>3, AloneInCall DEF HoldsPolls
<1>4. CASE EnablePoll(t) \/ DisablePoll(t) \/ SetPollIntensity(t)
  <2>1. call[t].pc \in {"value", "nodes"} /\ UNCHANGED poll
    BY <1>4 DEF EnablePoll, DisablePoll, SetPollIntensity
  <2>2. call' = [call EXCEPT ![t] = NoCall]
    BY <1>4 DEF EnablePoll, DisablePoll, SetPollIntensity
  <2> QED
    BY <1>0, <1>3, <2>1, <2>2 DEF NoCall
<1>5. CASE isPolled_Value(t)
  <2>1. call[t].pc = "value" /\ UNCHANGED <<pollMutex, poll>>
    BY <1>5 DEF isPolled_Value, locks
  <2>2. PICK b : call' = [call EXCEPT ![t].pc = "nodes", ![t].polled = b]
    BY <1>5 DEF isPolled_Value
  <2>3. \A u \in Threads : u # t => call'[u] = call[u]
    BY <1>0, <2>2
  <2> QED
    BY <1>0, <2>1, <2>3 DEF HoldsPolls
<1>6. CASE isPolled_List(t)
  <2>1. call[t].pc = "nodes" /\ UNCHANGED poll
    BY <1>6 DEF isPolled_List
  <2>2. \/ call' = [call EXCEPT ![t] = NoCall]
        \/ Begin(t, "DisablePoll", call[t].id, 0)
    BY <1>6 DEF isPolled_List
  <2>3. call'[t].pc \in {"idle", "lock"} /\ \A u \in Threads : u # t => call'[u] = call[u]
    BY <1>0, <2>2 DEF NoCall, Begin
  <2> QED
    BY <1>3, <2>1, <2>3
<1> QED
  BY <1>1, <1>2, <1>4, <1>5, <1>6 DEF Call

(* The poll thread keeps to the mutex. *)
LEMMA PollKeepsHold ==
    ASSUME ListInv, PollProc
    PROVE  HoldsPolls'
<1>0. HoldsPolls /\ poll.pc \in {"check", "pop", "reload", "request", "mark", "wait"}
  BY DEF ListInv, TypeOK
<1>a. UNCHANGED call
  BY DEF PollProc, PollCheck, PollPop, PollReload, PollRequest, PollMark, PollWait
<1>b. \A pc \in {"check", "pop", "request", "mark", "wait"} : At(pc) => poll'.pc = pc
  BY DEF At, ListInv, TypeOK
<1>c. ASSUME CanLockPolls(PollThread) \/ poll.pc \in {"request", "mark"},
             poll'.pc \in {"check", "pop", "wait"}
      PROVE  HoldsPolls'
  <2>1. \A u \in Threads : call[u].pc \notin {"value", "nodes"}
    BY <1>0, <1>c, AloneAtLock, PollConstants DEF HoldsPolls
  <2> QED
    BY <1>a, <1>c, <2>1 DEF HoldsPolls
<1>1. CASE PollCheck \/ PollWait
  <2>1. UNCHANGED pollMutex /\ poll'.pc \in {"check", "pop"}
    BY <1>1, <1>b DEF PollCheck, PollWait, locks
  <2> QED
    BY <1>0, <1>a, <2>1 DEF HoldsPolls
<1>2. CASE PollPop
  <2>1. CanLockPolls(PollThread) /\ poll.pc = "pop"
    BY <1>2 DEF PollPop
  <2>2. \/ UNCHANGED poll
        \/ At("check")
        \/ pollMutex' = PollThread /\ poll'.pc = "reload"
    BY <1>2 DEF PollPop
  <2>3. \A u \in Threads : call[u].pc \notin {"value", "nodes"}
    BY <1>0, <2>1, AloneAtLock, PollConstants
  <2> QED
    BY <1>a, <1>b, <2>1, <2>2, <2>3 DEF HoldsPolls
<1>3. CASE PollReload
  <2>1. poll.pc = "reload" /\ UNCHANGED pollMutex
    BY <1>3 DEF PollReload
  <2> QED
    BY <1>0, <1>a, <2>1 DEF HoldsPolls
<1>4. CASE PollRequest
  <2>1. poll.pc = "request" /\ (UNCHANGED pollMutex \/ At("wait"))
    BY <1>4 DEF PollRequest
  <2>2. CASE At("wait")
    BY <1>b, <1>c, <2>1, <2>2
  <2>3. CASE UNCHANGED pollMutex
    BY <1>0, <1>a, <2>1, <2>3 DEF HoldsPolls
  <2> QED
    BY <2>1, <2>2, <2>3
<1>5. CASE PollMark
  <2>1. poll.pc = "mark" /\ At("wait")
    BY <1>5 DEF PollMark
  <2> QED
    BY <1>b, <1>c, <2>1
<1> QED
  BY <1>1, <1>2, <1>3, <1>4, <1>5 DEF PollProc

(* The driver thread leaves the list to the calls of ~Node. *)
LEMMA DriverKeepsList ==
    ASSUME ListInv, DriverStep \/ OtherTraffic
    PROVE  HoldsPolls' /\ OneEntryEach'
<1>0. HoldsPolls /\ OneEntryEach /\ Driver \in Threads
  BY DEF ListInv, Threads
<1>a. UNCHANGED <<pollMutex, pollList, poll>>
  BY DEF DriverStep, OtherTraffic, CheckCompletedNodeQueries, QueuesEmpty, PollWokenNode,
         VisitValue, FreeValues, ReplaceNode, NodeWakes, NodeSleeps, DeleteNode,
         RemoveValue, CreateValue, locks, lists
<1>b. OneEntryEach'
  BY <1>0, <1>a DEF OneEntryEach, InHand, Listed
<1>1. CASE VisitValue
  <2>1. PICK v \in dtor.todo : Begin(Driver, "isPolled", v, 0)
    BY <1>1 DEF VisitValue
  <2>2. /\ call'[Driver].pc = "lock"
        /\ \A u \in Threads : u # Driver => call'[u] = call[u]
    BY <1>0, <2>1 DEF Begin, ListInv, TypeOK
  <2> QED
    BY <1>0, <1>a, <1>b, <2>2 DEF HoldsPolls
<1>2. CASE ~VisitValue
  <2>1. UNCHANGED call
    BY <1>2 DEF DriverStep, OtherTraffic, CheckCompletedNodeQueries, QueuesEmpty,
         PollWokenNode, FreeValues, ReplaceNode, NodeWakes, NodeSleeps, DeleteNode,
         RemoveValue, CreateValue
  <2> QED
    BY <1>0, <1>a, <1>b, <2>1 DEF HoldsPolls
<1> QED
  BY <1>1, <1>2

(* The calls keep one entry for each value: EnablePoll adds one only of a value that *)
(* is neither listed nor in the hand of the poll thread.                             *)
LEMMA CallKeepsOne ==
    ASSUME ListInv, NEW t \in Threads, AppCall(t) \/ Call(t)
    PROVE  OneEntryEach'
<1>0. /\ HoldsPolls /\ OneEntryEach /\ pollList \in Seq(Entry)
      /\ call[t].intensity \in 0..(CounterMod - 1) /\ present \subseteq Value
  BY CallType DEF ListInv, TypeOK
<1>1. CASE UNCHANGED <<pollList, poll>>
  BY <1>0, <1>1 DEF OneEntryEach, InHand, Listed
<1>2. CASE AppCall(t) \/ LockPolls(t) \/ isPolled_Value(t) \/ isPolled_List(t)
           \/ SetPollIntensity(t)
  BY <1>1, <1>2
  DEF AppCall, LockPolls, isPolled_Value, isPolled_List, SetPollIntensity, lists
<1>3. CASE EnablePoll(t)
  <2> DEFINE v == call[t].id
             e == [id |-> v, counter |-> call[t].intensity]
  <2>1. UNCHANGED poll /\ poll.pc # "reload"
    BY <1>0, <1>3, AloneInCall DEF EnablePoll
  <2>2. CASE v \in present /\ ~Listed(v)
    <3>1. pollList' = Append(pollList, e)
      BY <1>3, <2>2 DEF EnablePoll, InPollList
    <3>2. e \in Entry /\ \A k \in DOMAIN pollList : pollList[k].id # e.id
      BY <1>0, <2>2 DEF Entry, Listed
    <3>3. Distinct(pollList)
      BY <1>0 DEF OneEntryEach, Distinct
    <3> HIDE DEF e
    <3>4. Distinct(Append(pollList, e))
      BY <1>0, <3>2, <3>3, AppendDistinct
    <3> QED
      BY <2>1, <3>1, <3>4 DEF Distinct, OneEntryEach, InHand
  <2>3. CASE ~(v \in present /\ ~Listed(v))
    BY <1>1, <1>3, <2>1, <2>3 DEF EnablePoll, InPollList, lists
  <2> QED
    BY <2>2, <2>3
<1>4. CASE DisablePoll(t)
  <2> DEFINE v == call[t].id
  <2>1. UNCHANGED poll /\ poll.pc # "reload"
    BY <1>0, <1>4, AloneInCall DEF DisablePoll
  <2>2. CASE NodeOf[v] \in nodes /\ Listed(v)
    <3>1. pollList' = RemoveAt(pollList, ListedAt(v)) /\ ListedAt(v) \in 1..Len(pollList)
      BY <1>0, <1>4, <2>2, ListedAtType DEF DisablePoll
    <3>2. Distinct(pollList)
      BY <1>0 DEF OneEntryEach, Distinct
    <3>3. Distinct(pollList')
      BY <1>0, <3>1, <3>2, RemoveDistinct
    <3> QED
      BY <2>1, <3>3 DEF Distinct, OneEntryEach, InHand
  <2>3. CASE ~(NodeOf[v] \in nodes /\ Listed(v))
    BY <1>1, <1>4, <2>1, <2>3 DEF DisablePoll, lists
  <2> QED
    BY <2>2, <2>3
<1> QED
  BY <1>2, <1>3, <1>4 DEF Call

(* The poll thread keeps one entry for each value: what it takes out was the only    *)
(* one, and what it puts back is what it holds.                                      *)
LEMMA PollKeepsOne ==
    ASSUME ListInv, PollProc
    PROVE  OneEntryEach'
<1>0. /\ OneEntryEach /\ Distinct(pollList) /\ pollList \in Seq(Entry)
      /\ poll \in [pc : {"check", "pop", "reload", "request", "mark", "wait"},
                   entry : Entry \cup {NoEntry}]
      /\ intensity \in [Value -> 0..(CounterMod - 1)] /\ present \subseteq Value
  BY DEF ListInv, TypeOK, OneEntryEach, Distinct
<1>a. \A pc \in {"check", "pop", "request", "mark", "wait"} : At(pc) => poll'.pc = pc
  BY <1>0 DEF At
<1>b. ASSUME poll'.pc # "reload", Distinct(pollList')
      PROVE  OneEntryEach'
  BY <1>b DEF OneEntryEach, InHand, Distinct
<1>1. CASE PollPop
  <2>1. CASE pollList = <<>>
    <3>1. UNCHANGED <<pollList, poll>> /\ poll.pc = "pop"
      BY <1>1, <2>1 DEF PollPop
    <3> QED
      BY <1>0, <1>b, <3>1
  <2>2. CASE pollList # <<>> /\ Head(pollList).counter # 1
    <3>1. pollList' = Passed(pollList) /\ At("check")
      BY <1>1, <2>2 DEF PollPop
    <3> QED
      BY <1>0, <1>a, <1>b, <2>2, <3>1, PassedDistinct
  <2>3. CASE pollList # <<>> /\ Head(pollList).counter = 1
    <3>1. pollList' = Tail(pollList) /\ poll' = [pc |-> "reload", entry |-> Head(pollList)]
      BY <1>1, <2>3 DEF PollPop
    <3>2. /\ Len(pollList) \in Nat /\ Len(pollList) > 0
          /\ Head(pollList) = pollList[1] /\ DOMAIN pollList = 1..Len(pollList)
          /\ DOMAIN Tail(pollList) = 1..(Len(pollList) - 1)
          /\ \A k \in 1..(Len(pollList) - 1) : Tail(pollList)[k] = pollList[k + 1]
      BY <1>0, <2>3
    <3>3. \A k \in 1..(Len(pollList) - 1) : k + 1 \in DOMAIN pollList /\ 1 \in DOMAIN pollList
      BY <3>2
    <3>4. \A j, k \in DOMAIN pollList' : pollList'[j].id = pollList'[k].id => j = k
      BY <1>0, <3>1, <3>2, <3>3 DEF Distinct
    <3>5. \A k \in DOMAIN pollList' : pollList'[k].id # Head(pollList).id
      BY <1>0, <3>1, <3>2, <3>3 DEF Distinct
    <3> QED
      BY <3>1, <3>4, <3>5 DEF OneEntryEach, InHand, Listed
  <2> QED
    BY <2>1, <2>2, <2>3
<1>2. CASE PollReload
  <2> DEFINE v == poll.entry.id
             e == [id |-> v, counter |-> intensity[v]]
  <2>1. CASE v \in present
    <3>1. pollList' = Append(pollList, e) /\ At("request") /\ poll.pc = "reload"
      BY <1>2, <2>1 DEF PollReload, PutBack
    <3>2. e \in Entry /\ \A k \in DOMAIN pollList : pollList[k].id # e.id
      BY <1>0, <2>1, <3>1 DEF Entry, OneEntryEach, InHand, Listed
    <3> HIDE DEF e
    <3>3. Distinct(Append(pollList, e))
      BY <1>0, <3>2, AppendDistinct
    <3> QED
      BY <1>a, <1>b, <3>1, <3>3
  <2>2. CASE v \notin present
    <3>1. UNCHANGED pollList /\ poll'.pc = "check"
      BY <1>2, <2>2 DEF PollReload
    <3> QED
      BY <1>0, <1>b, <3>1
  <2> QED
    BY <2>1, <2>2
<1>3. CASE PollCheck \/ PollRequest \/ PollMark \/ PollWait
  <2>1. UNCHANGED pollList /\ poll'.pc # "reload"
    BY <1>3, <1>a DEF PollCheck, PollRequest, PollMark, PollWait, lists
  <2> QED
    BY <1>0, <1>b, <2>1
<1> QED
  BY <1>1, <1>2, <1>3 DEF PollProc

(* ListInv is inductive. *)
LEMMA ListInvCorrect == Spec => []ListInv
<1>1. Init => ListInv
  BY InitType, InitListInv DEF ListInv
<1>2. ListInv /\ [Next]_vars => ListInv'
  <2>1. ASSUME ListInv, UNCHANGED vars PROVE HoldsPolls' /\ OneEntryEach'
    BY <2>1 DEF ListInv, vars, locks, lists, HoldsPolls, OneEntryEach, InHand, Listed
  <2>2. ASSUME ListInv, Next PROVE HoldsPolls' /\ OneEntryEach'
    BY <2>2, CallKeepsHold, CallKeepsOne, PollKeepsHold, PollKeepsOne, DriverKeepsList
    DEF Next
  <2> QED
    BY <2>1, <2>2, StepKeepsType DEF ListInv
<1> QED
  BY <1>1, <1>2, PTL DEF Spec

(* OneEntryEach: EnablePoll's search and the poll thread's pop_front and push_back   *)
(* never leave two entries of one value, for any number of applications, values and  *)
(* nodes, whatever is deleted and whichever lock is leaked.                          *)
THEOREM OneEntryCorrect == Spec => []OneEntryEach
<1>1. ListInv => OneEntryEach
  BY DEF ListInv
<1> QED
  BY <1>1, ListInvCorrect, PTL

-----------------------------------------------------------------------------
(* Entries come with EnablePoll and go with DisablePoll: what the poll      *)
(* thread takes out it puts back, unless the value is gone.                 *)

HasEntry(v) == Listed(v) \/ InHand(v)

(* Turning the list over keeps the values in it. *)
LEMMA PassedHolds ==
    ASSUME NEW s \in Seq(Entry), s # <<>>, NEW v
    PROVE  In(Passed(s), v) <=> In(s, v)
<1> DEFINE e == [Head(s) EXCEPT !.counter = Decremented(@)]
<1>1. Head(s) \in Entry /\ Tail(s) \in Seq(Entry)
  OBVIOUS
<1>2. e \in Entry /\ e.id = Head(s).id
  BY <1>1, DecrementedType DEF Entry
<1> HIDE DEF e
<1>3. In(s, v) <=> Head(s).id = v \/ In(Tail(s), v)
  BY TailHolds
<1>4. In(Append(Tail(s), e), v) <=> In(Tail(s), v) \/ e.id = v
  BY <1>1, <1>2, AppendHolds
<1> QED
  BY <1>2, <1>3, <1>4 DEF Passed, e

(* A call gives a value an entry, or takes it away, in two places only. *)
LEMMA CallEntries ==
    ASSUME ListInv, NEW t \in Threads, AppCall(t) \/ Call(t), NEW v \in Value
    PROVE  HasEntry(v)' <=>
              \/ /\ HasEntry(v)
                 /\ ~(DisablePoll(t) /\ call[t].id = v /\ NodeOf[v] \in nodes)
              \/ EnablePoll(t) /\ call[t].id = v /\ v \in present
<1>0. /\ HoldsPolls /\ OneEntryEach /\ pollList \in Seq(Entry)
      /\ call[t].intensity \in 0..(CounterMod - 1) /\ present \subseteq Value
  BY CallType DEF ListInv, TypeOK
<1>1. ASSUME UNCHANGED <<pollList, poll>> PROVE HasEntry(v)' <=> HasEntry(v)
  BY <1>1 DEF HasEntry, InHand, Listed
<1>2. CASE ~EnablePoll(t) /\ ~DisablePoll(t)
  <2>1. UNCHANGED <<pollList, poll>>
    BY <1>2
    DEF AppCall, Call, LockPolls, isPolled_Value, isPolled_List, SetPollIntensity, lists
  <2> QED
    BY <1>1, <1>2, <2>1
<1>3. CASE EnablePoll(t)
  <2> DEFINE w == call[t].id
             e == [id |-> w, counter |-> call[t].intensity]
  <2>1. UNCHANGED poll /\ ~DisablePoll(t)
    BY <1>3 DEF EnablePoll, DisablePoll
  <2>2. CASE w \in present /\ ~Listed(w)
    <3>1. pollList' = Append(pollList, e) /\ e \in Entry /\ e.id = w
      BY <1>0, <1>3, <2>2 DEF EnablePoll, InPollList, Entry
    <3> HIDE DEF e
    <3>2. In(pollList', v) <=> In(pollList, v) \/ w = v
      BY <1>0, <3>1, AppendHolds
    <3>3. HasEntry(v)' <=> HasEntry(v) \/ w = v
      BY <2>1, <3>2 DEF HasEntry, InHand, Listed, In
    <3> QED
      BY <1>3, <2>1, <2>2, <3>3
  <2>3. CASE ~(w \in present /\ ~Listed(w))
    <3>1. UNCHANGED pollList
      BY <1>3, <2>3 DEF EnablePoll, InPollList, lists
    <3> QED
      BY <1>1, <1>3, <2>1, <2>3, <3>1 DEF HasEntry
  <2> QED
    BY <2>2, <2>3
<1>4. CASE DisablePoll(t)
  <2> DEFINE w == call[t].id
  <2>1. UNCHANGED poll /\ poll.pc # "reload" /\ ~EnablePoll(t)
    BY <1>0, <1>4, AloneInCall DEF EnablePoll, DisablePoll
  <2>2. CASE NodeOf[w] \in nodes /\ Listed(w)
    <3> DEFINE k == ListedAt(w)
    <3>1. pollList' = RemoveAt(pollList, k) /\ k \in 1..Len(pollList) /\ pollList[k].id = w
      BY <1>0, <1>4, <2>2, ListedAtType DEF DisablePoll
    <3>2. Once(pollList, v)
      BY <1>0 DEF OneEntryEach, Once
    <3> HIDE DEF k
    <3>3. /\ In(pollList, v) <=> w = v \/ In(pollList', v)
          /\ w = v => ~In(pollList', v)
      BY <1>0, <3>1, <3>2, RemoveAtHolds
    <3>4. HasEntry(v)' <=> HasEntry(v) /\ w # v
      BY <2>1, <3>3 DEF HasEntry, InHand, Listed, In
    <3> QED
      BY <1>4, <2>1, <2>2, <3>4
  <2>3. CASE ~(NodeOf[w] \in nodes /\ Listed(w))
    <3>1. UNCHANGED pollList
      BY <1>4, <2>3 DEF DisablePoll, lists
    <3>2. w = v /\ NodeOf[v] \in nodes => ~HasEntry(v)
      BY <2>1, <2>3 DEF HasEntry, InHand
    <3> QED
      BY <1>1, <1>4, <2>1, <3>1, <3>2
  <2> QED
    BY <2>2, <2>3
<1> QED
  BY <1>2, <1>3, <1>4

(* The poll thread gives no value an entry, and takes none from a value that exists. *)
LEMMA PollEntries ==
    ASSUME ListInv, PollProc, NEW v \in Value
    PROVE  /\ HasEntry(v)' => HasEntry(v)
           /\ HasEntry(v) /\ v \in present => HasEntry(v)'
<1>0. /\ pollList \in Seq(Entry)
      /\ poll \in [pc : {"check", "pop", "reload", "request", "mark", "wait"},
                   entry : Entry \cup {NoEntry}]
      /\ intensity \in [Value -> 0..(CounterMod - 1)] /\ present \subseteq Value
  BY DEF ListInv, TypeOK
<1>a. \A pc \in {"check", "pop", "request", "mark", "wait"} : At(pc) => poll'.pc = pc
  BY <1>0 DEF At
<1>1. CASE PollPop
  <2>0. poll.pc = "pop"
    BY <1>1 DEF PollPop
  <2>1. CASE pollList = <<>>
    <3>1. UNCHANGED <<pollList, poll>>
      BY <1>1, <2>1 DEF PollPop
    <3> QED
      BY <3>1 DEF HasEntry, InHand, Listed
  <2>2. CASE pollList # <<>> /\ Head(pollList).counter # 1
    <3>1. pollList' = Passed(pollList) /\ poll'.pc = "check"
      BY <1>1, <1>a, <2>2 DEF PollPop
    <3>2. In(pollList', v) <=> In(pollList, v)
      BY <1>0, <2>2, <3>1, PassedHolds
    <3> QED
      BY <2>0, <3>1, <3>2 DEF HasEntry, InHand, Listed, In
  <2>3. CASE pollList # <<>> /\ Head(pollList).counter = 1
    <3>1. pollList' = Tail(pollList) /\ poll' = [pc |-> "reload", entry |-> Head(pollList)]
      BY <1>1, <2>3 DEF PollPop
    <3>2. In(pollList, v) <=> Head(pollList).id = v \/ In(pollList', v)
      BY <1>0, <2>3, <3>1, TailHolds
    <3> QED
      BY <2>0, <3>1, <3>2 DEF HasEntry, InHand, Listed, In
  <2> QED
    BY <2>1, <2>2, <2>3
<1>2. CASE PollReload
  <2> DEFINE w == poll.entry.id
             e == [id |-> w, counter |-> intensity[w]]
  <2>0. poll.pc = "reload"
    BY <1>2 DEF PollReload
  <2>1. CASE w \in present
    <3>1. pollList' = Append(pollList, e) /\ poll'.pc = "request" /\ e \in Entry /\ e.id = w
      BY <1>0, <1>2, <1>a, <2>1 DEF PollReload, PutBack, Entry
    <3> HIDE DEF e
    <3>2. In(pollList', v) <=> In(pollList, v) \/ w = v
      BY <1>0, <3>1, AppendHolds
    <3> QED
      BY <2>0, <3>1, <3>2 DEF HasEntry, InHand, Listed, In
  <2>2. CASE w \notin present
    <3>1. UNCHANGED pollList /\ poll'.pc = "check"
      BY <1>2, <2>2 DEF PollReload
    <3> QED
      BY <2>0, <2>2, <3>1 DEF HasEntry, InHand, Listed
  <2> QED
    BY <2>1, <2>2
<1>3. CASE PollCheck \/ PollRequest \/ PollMark \/ PollWait
  <2>1. UNCHANGED pollList /\ poll.pc # "reload" /\ poll'.pc # "reload"
    BY <1>3, <1>a DEF PollCheck, PollRequest, PollMark, PollWait, lists
  <2> QED
    BY <2>1 DEF HasEntry, InHand, Listed
<1> QED
  BY <1>1, <1>2, <1>3 DEF PollProc

(* The driver thread's own steps leave the list alone. *)
LEMMA DriverEntries ==
    ASSUME DriverStep \/ OtherTraffic
    PROVE  UNCHANGED <<pollList, poll, pollMutex>>
  BY DEF DriverStep, OtherTraffic, CheckCompletedNodeQueries, QueuesEmpty, PollWokenNode,
         VisitValue, FreeValues, ReplaceNode, NodeWakes, NodeSleeps, DeleteNode,
         RemoveValue, CreateValue, locks, lists

(***************************************************************************)
(* EntriesKept: while the poll thread turns the list over and threads       *)
(* enable and disable values, an entry disappears only by DisablePoll of    *)
(* its own value, or because the value is gone.                             *)
(***************************************************************************)
THEOREM EntriesStay == Spec => EntriesKept
<1> DEFINE Stays(v) ==
       HasEntry(v) /\ ~HasEntry(v)' =>
          \/ v \notin present
          \/ \E t \in Threads :
                call[t].pc = "nodes" /\ call[t].op = "DisablePoll" /\ call[t].id = v
<1>1. ASSUME ListInv, Next, NEW v \in Value PROVE Stays(v)
  <2>1. ASSUME NEW t \in Threads, AppCall(t) \/ Call(t) PROVE Stays(v)
    BY <1>1, <2>1, CallEntries DEF DisablePoll
  <2>2. CASE PollProc
    BY <1>1, <2>2, PollEntries
  <2>3. CASE DriverStep \/ OtherTraffic
    BY <2>3, DriverEntries DEF HasEntry, InHand, Listed
  <2> QED
    BY <1>1, <2>1, <2>2, <2>3 DEF Next
<1>2. ListInv /\ [Next]_vars =>
         [\A v \in Value :
             (Listed(v) \/ InHand(v)) /\ ~(Listed(v)' \/ InHand(v)') =>
                \/ v \notin present
                \/ \E t \in Threads :
                      call[t].pc = "nodes" /\ call[t].op = "DisablePoll" /\ call[t].id = v]_vars
  BY <1>1 DEF HasEntry
<1> QED
  BY <1>2, ListInvCorrect, PTL DEF Spec, EntriesKept

-----------------------------------------------------------------------------
(* Who leaves a call or a turn of the poll thread, and how m_pollMutex is left. *)

Left == pollMutex' = NoThread \/ leaked

LEMMA CallReleases ==
    ASSUME TypeOK, NEW t \in Threads, AppCall(t) \/ Call(t)
    PROVE  /\ \A u \in Threads : Inside(u) /\ ~Inside(u)' => Left \/ call[u].id \notin present
           /\ InTurn' <=> InTurn
<1>1. call \in [Threads -> [pc : {"idle", "lock", "value", "nodes"},
                           op : PollOp \cup {"none"}, id : Value \cup {NoValue},
                           intensity : 0..(CounterMod - 1), polled : BOOLEAN]]
  BY DEF TypeOK
<1>2. InTurn' <=> InTurn
  BY DEF AppCall, Call, LockPolls, EnablePoll, DisablePoll, isPolled_Value, isPolled_List,
         SetPollIntensity, InTurn
<1>3. ASSUME NEW u \in Threads, u # t PROVE Inside(u)' <=> Inside(u)
  BY <1>1, <1>3 DEF AppCall, Call, Begin, LockPolls, EnablePoll, DisablePoll, isPolled_Value,
                    isPolled_List, SetPollIntensity, Inside
<1>4. Inside(t) /\ ~Inside(t)' => Left \/ call[t].id \notin present
  <2>1. CASE AppCall(t)
    BY <2>1 DEF AppCall, Inside
  <2>2. CASE LockPolls(t)
    BY <2>2 DEF LockPolls, Inside
  <2>3. CASE EnablePoll(t) \/ DisablePoll(t) \/ isPolled_List(t)
    BY <2>3 DEF EnablePoll, DisablePoll, isPolled_List, UnlockPolls, Left
  <2>4. CASE isPolled_Value(t)
    BY <1>1, <2>4 DEF isPolled_Value, Inside
  <2>5. CASE SetPollIntensity(t)
    BY <2>5 DEF SetPollIntensity, UnlockPolls, Left
  <2> QED
    BY <2>1, <2>2, <2>3, <2>4, <2>5 DEF Call
<1> QED
  BY <1>2, <1>3, <1>4

LEMMA PollReleases ==
    ASSUME TypeOK, PollProc
    PROVE  /\ InTurn /\ ~InTurn' => Left \/ poll.entry.id \notin present
           /\ \A u \in Threads : Inside(u)' <=> Inside(u)
<1>1. poll \in [pc : {"check", "pop", "reload", "request", "mark", "wait"},
                entry : Entry \cup {NoEntry}]
  BY DEF TypeOK
<1>2. UNCHANGED call
  BY DEF PollProc, PollCheck, PollPop, PollReload, PollRequest, PollMark, PollWait
<1>3. CASE PollCheck \/ PollPop \/ PollWait
  BY <1>2, <1>3 DEF PollCheck, PollPop, PollWait, InTurn, Inside
<1>4. CASE PollReload
  BY <1>1, <1>2, <1>4 DEF PollReload, At, InTurn, Inside
<1>5. CASE PollRequest
  BY <1>1, <1>2, <1>5 DEF PollRequest, At, UnlockPolls, InTurn, Inside, Left
<1>6. CASE PollMark
  BY <1>2, <1>6 DEF PollMark, UnlockPolls, Inside, Left
<1> QED
  BY <1>3, <1>4, <1>5, <1>6 DEF PollProc

(* What the driver thread does outside its calls ends nobody's call. *)
LEMMA DriverReleases ==
    ASSUME TypeOK, DriverStep \/ OtherTraffic
    PROVE  /\ InTurn' <=> InTurn
           /\ \A u \in Threads : Inside(u) => Inside(u)'
<1>1. CASE VisitValue
  <2>1. call[Driver].pc = "idle" /\ UNCHANGED poll
    BY <1>1 DEF VisitValue
  <2>2. \A u \in Threads : u # Driver => call'[u] = call[u]
    BY <1>1 DEF VisitValue, Begin, TypeOK
  <2>3. \A u \in Threads : Inside(u) => u # Driver
    BY <2>1 DEF Inside
  <2> QED
    BY <2>1, <2>2, <2>3 DEF Inside, InTurn
<1>2. CASE ~VisitValue
  <2>1. UNCHANGED <<call, poll>>
    BY <1>2 DEF DriverStep, OtherTraffic, CheckCompletedNodeQueries, QueuesEmpty,
                PollWokenNode, FreeValues, ReplaceNode, NodeWakes, NodeSleeps, DeleteNode,
                RemoveValue, CreateValue
  <2> QED
    BY <2>1 DEF Inside, InTurn
<1> QED
  BY <1>1, <1>2

(***************************************************************************)
(* PollMutexReleased: whatever a call or a turn of the poll thread finds    *)
(* and waits for, it leaves m_pollMutex free, unless its value is gone.     *)
(***************************************************************************)
THEOREM MutexReleased == Spec => PollMutexReleased
<1> DEFINE Releases ==
       /\ \A t \in Threads : Inside(t) /\ ~Inside(t)' => Left \/ call[t].id \notin present
       /\ InTurn /\ ~InTurn' => Left \/ poll.entry.id \notin present
<1>1. ASSUME TypeOK, Next PROVE Releases
  <2>1. ASSUME NEW t \in Threads, AppCall(t) \/ Call(t) PROVE Releases
    BY <1>1, <2>1, CallReleases
  <2>2. CASE PollProc
    BY <1>1, <2>2, PollReleases
  <2>3. CASE DriverStep \/ OtherTraffic
    BY <1>1, <2>3, DriverReleases
  <2> QED
    BY <1>1, <2>1, <2>2, <2>3 DEF Next
<1>2. TypeOK /\ [Next]_vars =>
         [/\ \A t \in Threads : Inside(t) /\ ~Inside(t)' =>
                 pollMutex' = NoThread \/ leaked \/ call[t].id \notin present
          /\ InTurn /\ ~InTurn' =>
                 pollMutex' = NoThread \/ leaked \/ poll.entry.id \notin present]_vars
  BY <1>1 DEF Left
<1> QED
  BY <1>2, PollTypeCorrect, PTL DEF Spec, PollMutexReleased

-----------------------------------------------------------------------------
(* ~Node and the list. The node mutex keeps EnablePoll out while values are *)
(* visited, m_pollMutex the rest while one is.                              *)

(* Who has the node mutex, and what ~Node may be calling. *)
VisitInv ==
    /\ dtor.pc # "none" => nodeMutex = Driver
    /\ dtor.pc = "none" => dtor.node = NoNode
    /\ dtor.pc = "visit" => dtor.node \in nodes
    /\ poll.pc = "mark" => nodeMutex = PollThread
    /\ call[Driver].pc # "idle" => /\ dtor.pc = "visit" /\ call[Driver].id \in dtor.todo
                                   /\ call[Driver].op \in {"isPolled", "DisablePoll"}
    /\ \A t \in Threads : call[t].op \in {"EnablePoll", "SetPollIntensity"}
                          => call[t].intensity \in Intensities

(* A value with an entry exists and has an intensity, isPolled sees it, and of the   *)
(* values of the node that is deleted only those left to visit have an entry.        *)
EntriesInv ==
    /\ \A v \in Value : HasEntry(v) => v \in present /\ intensity[v] # 0
    /\ /\ call[Driver].pc = "nodes" /\ call[Driver].op = "isPolled"
       /\ Listed(call[Driver].id)
       => call[Driver].polled
    /\ \A v \in Value : HasEntry(v) /\ NodeOf[v] = dtor.node
                        => dtor.pc = "visit" /\ v \in dtor.todo

(* Nothing of it is guaranteed once a value went on its own. *)
OrphanInv == VisitInv /\ (removals = 0 => EntriesInv)

(* The calls leave the node mutex and the node that is deleted alone. *)
LEMMA CallKeepsVisit ==
    ASSUME TypeOK, VisitInv, NEW t \in Threads, AppCall(t) \/ Call(t)
    PROVE  VisitInv'
<1>1. UNCHANGED <<nodeMutex, nodes, poll>>
  BY DEF AppCall, Call, LockPolls, EnablePoll, DisablePoll, isPolled_Value, isPolled_List,
         SetPollIntensity, locks, store
<1>2. call \in [Threads -> [pc : {"idle", "lock", "value", "nodes"},
                            op : PollOp \cup {"none"}, id : Value \cup {NoValue},
                            intensity : 0..(CounterMod - 1), polled : BOOLEAN]]
      /\ dtor \in [pc : {"none", "visit", "free"}, node : Node \cup {NoNode},
                   todo : SUBSET Value]
  BY DEF TypeOK
<1>3. \A u \in Threads : u # t => call'[u] = call[u]
  BY <1>2
  DEF AppCall, Begin, Call, LockPolls, EnablePoll, DisablePoll, isPolled_Value, isPolled_List,
      SetPollIntensity
<1>4. \/ call'[t] = NoCall
      \/ /\ call[t].pc # "idle" /\ call'[t].op \in {call[t].op, "DisablePoll"}
         /\ call'[t].op = call[t].op => call'[t].intensity = call[t].intensity
         /\ call'[t].id = call[t].id
         /\ UNCHANGED dtor
      \/ t # Driver /\ call'[t].intensity \in Intensities
  <2>1. CASE AppCall(t)
    BY <1>2, <2>1, PollConstants DEF AppCall, Begin
  <2>2. CASE LockPolls(t) \/ isPolled_Value(t)
    BY <1>2, <2>2 DEF LockPolls, isPolled_Value
  <2>3. CASE EnablePoll(t) \/ DisablePoll(t) \/ SetPollIntensity(t)
    BY <1>2, <2>3 DEF EnablePoll, DisablePoll, SetPollIntensity
  <2>4. CASE isPolled_List(t)
    BY <1>2, <2>4 DEF isPolled_List, Begin
  <2> QED
    BY <2>1, <2>2, <2>3, <2>4 DEF Call
<1>5. /\ dtor'.pc = dtor.pc /\ dtor'.node = dtor.node
      /\ t # Driver => UNCHANGED dtor
  BY <1>2
  DEF AppCall, Call, LockPolls, EnablePoll, DisablePoll, isPolled_Value, isPolled_List,
      SetPollIntensity
<1>6. call'[Driver].pc # "idle" => /\ dtor'.pc = "visit" /\ call'[Driver].id \in dtor'.todo
                                   /\ call'[Driver].op \in {"isPolled", "DisablePoll"}
  <2>1. CASE t = Driver
    BY <1>4, <1>5, <2>1 DEF VisitInv, NoCall
  <2>2. CASE t # Driver
    BY <1>3, <1>5, <2>2 DEF VisitInv, Threads
  <2> QED
    BY <2>1, <2>2
<1>7. \A u \in Threads : call'[u].op \in {"EnablePoll", "SetPollIntensity"}
                          => call'[u].intensity \in Intensities
  BY <1>3, <1>4 DEF VisitInv, NoCall
<1> QED
  BY <1>1, <1>5, <1>6, <1>7 DEF VisitInv

(* So does the poll thread, but for the node mutex while it marks a sleeper. *)
LEMMA PollKeepsVisit ==
    ASSUME TypeOK, VisitInv, PollProc
    PROVE  VisitInv'
<1>1. UNCHANGED <<nodes, call, dtor>>
  BY DEF PollProc, PollCheck, PollPop, PollReload, PollRequest, PollMark, PollWait, store
<1>2. /\ Driver # PollThread /\ Driver # NoThread
      /\ dtor.pc \in {"none", "visit", "free"}
  BY PollConstants DEF Threads, TypeOK
<1>3. \A pc \in {"check", "pop", "request", "mark", "wait"} : At(pc) => poll'.pc = pc
  BY DEF At, TypeOK
<1>4. CASE PollCheck \/ PollPop \/ PollReload \/ PollWait
  <2>1. UNCHANGED nodeMutex /\ (poll'.pc = "mark" => poll.pc = "mark")
    BY <1>3, <1>4 DEF PollCheck, PollPop, PollReload, PollWait, locks
  <2> QED
    BY <1>1, <2>1 DEF VisitInv
<1>5. CASE PollRequest
  <2>1. dtor.pc # "none" => nodeMutex' = nodeMutex /\ poll'.pc # "mark"
    BY <1>2, <1>3, <1>5 DEF PollRequest, CanLockNodes, VisitInv
  <2>2. poll'.pc = "mark" => nodeMutex' = PollThread
    BY <1>3, <1>5 DEF PollRequest
  <2> QED
    BY <1>1, <2>1, <2>2 DEF VisitInv
<1>6. CASE PollMark
  <2>1. dtor.pc = "none" /\ poll'.pc = "wait"
    BY <1>2, <1>3, <1>6 DEF PollMark, VisitInv
  <2> QED
    BY <1>1, <2>1 DEF VisitInv
<1> QED
  BY <1>4, <1>5, <1>6 DEF PollProc

(* ~Node begins with the node mutex and ends when nothing is left to visit. *)
LEMMA DriverKeepsVisit ==
    ASSUME TypeOK, VisitInv, DriverStep \/ OtherTraffic
    PROVE  VisitInv'
<1>0. /\ Driver # PollThread /\ Driver # NoThread /\ Driver \in Threads
      /\ dtor \in [pc : {"none", "visit", "free"}, node : Node \cup {NoNode},
                   todo : SUBSET Value]
      /\ call \in [Threads -> [pc : {"idle", "lock", "value", "nodes"},
                               op : PollOp \cup {"none"}, id : Value \cup {NoValue},
                               intensity : 0..(CounterMod - 1), polled : BOOLEAN]]
  BY PollConstants DEF Threads, TypeOK
<1>1. UNCHANGED poll
  BY DriverEntries
<1>2. CASE VisitValue
  <2>1. PICK v \in dtor.todo : Begin(Driver, "isPolled", v, 0)
    BY <1>2 DEF VisitValue
  <2>2. /\ call'[Driver].id \in dtor.todo /\ call'[Driver].op = "isPolled"
        /\ \A u \in Threads : u # Driver => call'[u] = call[u]
    BY <1>0, <2>1 DEF Begin
  <2>3. UNCHANGED <<dtor, nodeMutex, nodes>> /\ dtor.pc = "visit"
    BY <1>2 DEF VisitValue, locks, store
  <2> QED
    BY <1>1, <2>2, <2>3 DEF VisitInv
<1>3. CASE FreeValues
  <2>1. UNCHANGED <<call, nodeMutex, nodes>> /\ call[Driver].pc = "idle" /\ dtor.pc = "visit"
    BY <1>3 DEF FreeValues, VisitInv, locks
  <2>2. dtor'.pc = "free"
    BY <1>0, <1>3 DEF FreeValues
  <2> QED
    BY <1>1, <2>1, <2>2 DEF VisitInv
<1>4. CASE ReplaceNode
  <2>1. UNCHANGED call /\ call[Driver].pc = "idle" /\ poll.pc # "mark"
    BY <1>0, <1>4 DEF ReplaceNode, VisitInv
  <2>2. dtor'.pc = "none" /\ dtor'.node = NoNode
    BY <1>4 DEF ReplaceNode
  <2> QED
    BY <1>1, <2>1, <2>2 DEF VisitInv
<1>5. ASSUME NEW n \in Node, DeleteNode(n) PROVE VisitInv'
  <2>1. UNCHANGED <<call, nodes>> /\ call[Driver].pc = "idle" /\ poll.pc # "mark"
    BY <1>0, <1>5, PollConstants
    DEF DeleteNode, DriverIdle, VisitInv, LockNodes, CanLockNodes, store
  <2>2. nodeMutex' = Driver /\ dtor'.pc = "visit" /\ dtor'.node \in nodes
    BY <1>5 DEF DeleteNode, LockNodes
  <2> QED
    BY <1>1, <2>1, <2>2 DEF VisitInv
<1>6. CASE UNCHANGED <<call, dtor, nodeMutex, nodes>>
  BY <1>1, <1>6 DEF VisitInv
<1>7. CASE CheckCompletedNodeQueries \/ QueuesEmpty \/ PollWokenNode \/ OtherTraffic
  BY <1>6, <1>7 DEF CheckCompletedNodeQueries, QueuesEmpty, PollWokenNode, OtherTraffic,
                    locks, store
<1>8. ASSUME NEW n \in Node, NodeWakes(n) \/ NodeSleeps(n) PROVE VisitInv'
  BY <1>6, <1>8 DEF NodeWakes, NodeSleeps, locks, store
<1>9. ASSUME NEW v \in Value, RemoveValue(v) \/ CreateValue(v) PROVE VisitInv'
  BY <1>6, <1>9 DEF RemoveValue, CreateValue, locks, store
<1> QED
  BY <1>2, <1>3, <1>4, <1>5, <1>7, <1>8, <1>9 DEF DriverStep
(* No call leaves an entry without a value or an intensity, and DisablePoll of ~Node *)
(* removes the entry that isPolled saw.                                              *)
LEMMA CallKeepsEntries ==
    ASSUME 0 \notin Intensities, ListInv, VisitInv, EntriesInv,
           NEW t \in Threads, AppCall(t) \/ Call(t)
    PROVE  EntriesInv'
<1> DEFINE w == call[t].id
<1>0. /\ HoldsPolls /\ pollList \in Seq(Entry) /\ present \subseteq Value
      /\ intensity \in [Value -> 0..(CounterMod - 1)]
      /\ call \in [Threads -> [pc : {"idle", "lock", "value", "nodes"},
                               op : PollOp \cup {"none"}, id : Value \cup {NoValue},
                               intensity : 0..(CounterMod - 1), polled : BOOLEAN]]
      /\ dtor \in [pc : {"none", "visit", "free"}, node : Node \cup {NoNode},
                   todo : SUBSET Value]
      /\ Driver \in Threads
  BY DEF ListInv, TypeOK, Threads
<1>1. UNCHANGED present
  BY DEF AppCall, Call, LockPolls, EnablePoll, DisablePoll, isPolled_Value, isPolled_List,
         SetPollIntensity, store
<1>2. \A u \in Threads : u # t => call'[u] = call[u]
  BY <1>0
  DEF AppCall, Begin, Call, LockPolls, EnablePoll, DisablePoll, isPolled_Value, isPolled_List,
      SetPollIntensity
<1>3. ASSUME NEW v \in Value, HasEntry(v)'
      PROVE  v \in present' /\ intensity'[v] # 0
  <2>1. \/ /\ HasEntry(v)
           /\ ~(DisablePoll(t) /\ w = v /\ NodeOf[v] \in nodes)
        \/ EnablePoll(t) /\ w = v /\ v \in present
    BY <1>3, CallEntries
  <2>2. v \in present /\ (HasEntry(v) => intensity[v] # 0)
    BY <2>1 DEF EntriesInv
  <2>3. CASE EnablePoll(t)
    <3>1. call[t].intensity # 0
      BY <2>3 DEF EnablePoll, VisitInv
    <3>2. CASE w = v
      <4>1. intensity' = [intensity EXCEPT ![w] = call[t].intensity]
        BY <2>2, <2>3, <3>2 DEF EnablePoll
      <4> QED
        BY <1>0, <1>1, <2>2, <3>1, <3>2, <4>1
    <3>3. CASE w # v
      <4>1. intensity'[v] = intensity[v]
        BY <1>0, <2>3, <3>3 DEF EnablePoll, lists
      <4> QED
        BY <1>1, <2>1, <2>2, <3>3, <4>1
    <3> QED
      BY <3>2, <3>3
  <2>4. CASE DisablePoll(t)
    <3>1. HasEntry(v)
      BY <2>1, <2>4 DEF EnablePoll, DisablePoll
    <3>2. intensity'[v] = intensity[v]
      BY <1>0, <2>1, <2>4, <3>1 DEF DisablePoll, EnablePoll, lists
    <3> QED
      BY <1>1, <2>2, <3>1, <3>2
  <2>5. CASE SetPollIntensity(t)
    <3>1. HasEntry(v) /\ call[t].intensity # 0
      BY <2>1, <2>5 DEF SetPollIntensity, EnablePoll, VisitInv
    <3>2. intensity'[v] \in {intensity[v], call[t].intensity}
      BY <1>0, <2>5 DEF SetPollIntensity
    <3> QED
      BY <1>1, <2>2, <3>1, <3>2
  <2>6. CASE ~EnablePoll(t) /\ ~DisablePoll(t) /\ ~SetPollIntensity(t)
    <3>1. UNCHANGED intensity
      BY <2>6 DEF AppCall, Call, LockPolls, isPolled_Value, isPolled_List, lists
    <3> QED
      BY <1>1, <2>1, <2>2, <2>6, <3>1
  <2> QED
    BY <2>3, <2>4, <2>5, <2>6
<1>4. ASSUME call'[Driver].pc = "nodes", call'[Driver].op = "isPolled",
             Listed(call[Driver].id)', call'[Driver].id = call[Driver].id
      PROVE  call'[Driver].polled
  <2>1. CASE t = Driver
    <3>1. isPolled_Value(t)
      <4>1. ~AppCall(t)
        BY <2>1, PollConstants DEF AppCall
      <4>2. ASSUME LockPolls(t) PROVE FALSE
        <5>1. /\ call'[t].op = call[t].op
              /\ call'[t].pc = IF call[t].op \in {"EnablePoll", "DisablePoll"}
                              THEN "nodes" ELSE "value"
          BY <1>0, <4>2 DEF LockPolls
        <5> QED
          BY <1>4, <2>1, <5>1
      <4>3. ~EnablePoll(t) /\ ~DisablePoll(t) /\ ~SetPollIntensity(t)
        BY <1>0, <1>4, <2>1 DEF EnablePoll, DisablePoll, SetPollIntensity, NoCall
      <4>4. ~isPolled_List(t)
        BY <1>0, <1>4, <2>1 DEF isPolled_List, Begin, NoCall
      <4> QED
        BY <4>1, <4>2, <4>3, <4>4 DEF Call
    <3>2. UNCHANGED pollList /\ call'[t].polled = (w \in present /\ intensity[w] # 0)
      BY <1>0, <3>1 DEF isPolled_Value, lists
    <3>3. Listed(w)
      BY <1>4, <2>1, <3>2 DEF Listed
    <3>4. w \in Value
      <4>1. \A k \in DOMAIN pollList : pollList[k] \in Entry
        BY <1>0
      <4> QED
        BY <3>3, <4>1 DEF Listed, Entry
    <3> QED
      BY <2>1, <3>2, <3>3, <3>4 DEF EntriesInv, HasEntry
  <2>2. CASE t # Driver
    <3>1. call'[Driver] = call[Driver] /\ call[t].pc \notin {"value", "nodes"}
      BY <1>0, <1>2, <1>4, <2>2, AloneInCall
    <3>2. UNCHANGED pollList
      BY <3>1 DEF AppCall, Call, LockPolls, EnablePoll, DisablePoll, isPolled_Value,
                  isPolled_List, SetPollIntensity, lists
    <3>3. Listed(call[Driver].id)
      BY <1>4, <3>2 DEF Listed
    <3> QED
      BY <1>4, <3>1, <3>3 DEF EntriesInv
  <2> QED
    BY <2>1, <2>2
<1>5. call'[Driver].pc = "nodes" /\ call'[Driver].op = "isPolled"
        => call'[Driver].id = call[Driver].id
  BY <1>0, <1>2, PollConstants
  DEF AppCall, Begin, NoCall, Call, LockPolls, EnablePoll, DisablePoll, isPolled_Value,
      isPolled_List, SetPollIntensity
<1>6. ASSUME NEW v \in Value, HasEntry(v)', NodeOf[v] = dtor'.node
      PROVE  dtor'.pc = "visit" /\ v \in dtor'.todo
  <2>1. dtor'.pc = dtor.pc /\ dtor'.node = dtor.node
    BY <1>0
    DEF AppCall, Call, LockPolls, EnablePoll, DisablePoll, isPolled_Value, isPolled_List,
        SetPollIntensity
  <2>2. /\ HasEntry(v)
        /\ ~(DisablePoll(t) /\ w = v /\ NodeOf[v] \in nodes)
    <3>1. ASSUME EnablePoll(t) PROVE FALSE
      <4>1. t # Driver
        BY <3>1 DEF EnablePoll, VisitInv
      <4>2. dtor.pc = "none"
        BY <3>1, <4>1, PollConstants DEF EnablePoll, CanLockNodes, VisitInv, Threads
      <4> QED
        BY <1>6, <2>1, <4>2, PollConstants DEF VisitInv
    <3> QED
      BY <1>6, <3>1, CallEntries
  <2>3. dtor.pc = "visit" /\ v \in dtor.todo /\ NodeOf[v] \in nodes
    BY <1>6, <2>1, <2>2 DEF EntriesInv, VisitInv
  <2>4. CASE UNCHANGED dtor
    BY <2>3, <2>4
  <2>5. CASE t = Driver /\ DisablePoll(t)
    <3>1. w # v /\ dtor' = [dtor EXCEPT !.todo = @ \ {w}]
      BY <2>2, <2>3, <2>5 DEF DisablePoll
    <3> QED
      BY <1>0, <2>1, <2>3, <3>1
  <2>6. CASE t = Driver /\ isPolled_List(t) /\ ~UNCHANGED dtor
    <3>1. dtor' = [dtor EXCEPT !.todo = @ \ {w}]
          /\ ~(NodeOf[w] \in nodes /\ Listed(w) /\ call[t].polled)
      BY <2>6 DEF isPolled_List
    <3>2. poll.pc # "reload" /\ call[t].pc = "nodes" /\ call[t].op = "isPolled"
      BY <1>0, <2>6, AloneInCall DEF isPolled_List
    <3>3. w # v
      BY <2>2, <2>3, <2>6, <3>1, <3>2 DEF EntriesInv, HasEntry, InHand
    <3> QED
      BY <1>0, <2>1, <2>3, <3>1, <3>3
  <2> QED
    BY <2>4, <2>5, <2>6
    DEF AppCall, Call, LockPolls, EnablePoll, DisablePoll, isPolled_Value, isPolled_List,
        SetPollIntensity
<1>7. call'[Driver].pc = "nodes" /\ call'[Driver].op = "isPolled"
      /\ Listed(call[Driver].id)' => call'[Driver].polled
  BY <1>4, <1>5
<1> QED
  BY <1>3, <1>5, <1>6, <1>7 DEF EntriesInv

(* The poll thread changes neither values nor what is visited. *)
LEMMA PollKeepsEntries ==
    ASSUME ListInv, EntriesInv, PollProc
    PROVE  EntriesInv'
<1>1. UNCHANGED <<present, intensity, call, dtor>>
  BY DEF PollProc, PollCheck, PollPop, PollReload, PollRequest, PollMark, PollWait, store, lists
<1>2. \A v \in Value : HasEntry(v)' => HasEntry(v)
  BY PollEntries
<1>3. call[Driver].pc = "nodes" => UNCHANGED pollList
  BY AloneInCall, PollConstants
  DEF PollProc, PollCheck, PollPop, PollReload, PollRequest, PollMark, PollWait, lists,
      CanLockPolls, Threads, ListInv
<1>4. \A v : UNCHANGED pollList => (Listed(v)' <=> Listed(v))
  BY DEF Listed
<1> QED
  BY <1>1, <1>2, <1>3, <1>4 DEF EntriesInv

(* ~Node frees its values when none of them has an entry any more. *)
LEMMA DriverKeepsEntries ==
    ASSUME ListInv, VisitInv, EntriesInv, DriverStep \/ OtherTraffic, removals' = removals
    PROVE  EntriesInv'
<1>0. /\ present \subseteq Value /\ removals \in Nat
      /\ intensity \in [Value -> 0..(CounterMod - 1)]
      /\ dtor \in [pc : {"none", "visit", "free"}, node : Node \cup {NoNode},
                   todo : SUBSET Value]
      /\ \A v \in Value : NodeOf[v] # NoNode
  BY PollConstants DEF ListInv, TypeOK
<1>1. UNCHANGED <<pollList, poll>>
  BY DriverEntries
<1>2. \A v : (HasEntry(v)' <=> HasEntry(v)) /\ (Listed(v)' <=> Listed(v))
  BY <1>1 DEF HasEntry, InHand, Listed
<1>3. CASE VisitValue
  <2>1. UNCHANGED <<present, intensity, dtor>>
    BY <1>3 DEF VisitValue, store, lists
  <2>2. call'[Driver].pc # "nodes"
    BY <1>3 DEF VisitValue, Begin, ListInv, TypeOK, Threads
  <2> QED
    BY <1>2, <2>1, <2>2 DEF EntriesInv
<1>4. CASE FreeValues
  <2>1. UNCHANGED <<intensity, call>> /\ dtor.todo = {}
    BY <1>4 DEF FreeValues, lists
  <2>2. present' = {v \in present : NodeOf[v] # dtor.node} /\ dtor'.node = dtor.node
    BY <1>0, <1>4 DEF FreeValues
  <2>3. \A v \in Value : HasEntry(v) => NodeOf[v] # dtor.node
    BY <2>1 DEF EntriesInv
  <2> QED
    BY <1>2, <2>1, <2>2, <2>3 DEF EntriesInv
<1>5. CASE ReplaceNode
  <2>1. UNCHANGED <<present, call>> /\ dtor.pc = "free" /\ dtor'.node = NoNode
    BY <1>5 DEF ReplaceNode
  <2>2. \A v \in Value : HasEntry(v) => NodeOf[v] # dtor.node /\ intensity'[v] = intensity[v]
    BY <1>5, <2>1 DEF ReplaceNode, EntriesInv
  <2> QED
    BY <1>0, <1>2, <2>1, <2>2 DEF EntriesInv
<1>6. ASSUME NEW n \in Node, DeleteNode(n) PROVE EntriesInv'
  <2>1. /\ UNCHANGED <<present, intensity, call>>
        /\ dtor' = [pc |-> "visit", node |-> n, todo |-> {v \in present : NodeOf[v] = n}]
    BY <1>6 DEF DeleteNode, store, lists
  <2> QED
    BY <1>2, <2>1 DEF EntriesInv
<1>7. ASSUME NEW v \in Value, CreateValue(v) PROVE EntriesInv'
  <2>1. UNCHANGED <<intensity, call, dtor>> /\ present \subseteq present'
    BY <1>7 DEF CreateValue, lists
  <2> QED
    BY <1>2, <2>1 DEF EntriesInv
<1>8. ASSUME NEW v \in Value, RemoveValue(v) PROVE FALSE
  BY <1>0, <1>8 DEF RemoveValue
<1>9. CASE UNCHANGED <<present, intensity, call, dtor>>
  BY <1>2, <1>9 DEF EntriesInv
<1>10. CASE CheckCompletedNodeQueries \/ QueuesEmpty \/ PollWokenNode \/ OtherTraffic
  BY <1>9, <1>10 DEF CheckCompletedNodeQueries, QueuesEmpty, PollWokenNode, OtherTraffic,
                     lists, store
<1>11. ASSUME NEW n \in Node, NodeWakes(n) \/ NodeSleeps(n) PROVE EntriesInv'
  BY <1>9, <1>11 DEF NodeWakes, NodeSleeps, lists, store
<1> QED
  BY <1>3, <1>4, <1>5, <1>6, <1>7, <1>8, <1>10, <1>11 DEF DriverStep

(***************************************************************************)
(* NoOrphanEntry: as long as no application asks for intensity zero and no  *)
(* value went on its own, ~Node has taken its values off the list when it   *)
(* frees them, although applications enable and disable, and the poll       *)
(* thread holds entries, while it visits them.                              *)
(***************************************************************************)
THEOREM NoOrphanCorrect ==
    ASSUME 0 \notin Intensities
    PROVE  Spec => []NoOrphanEntry
<1>1. Init => OrphanInv
  <2> SUFFICES ASSUME Init PROVE OrphanInv
    OBVIOUS
  <2>1. VisitInv
    BY PollConstants DEF Init, VisitInv, NoCall, Threads
  <2>2. call[Driver].pc = "idle" /\ dtor.node = NoNode
    BY DEF Init, NoCall, Threads
  <2>3. ASSUME NEW v \in Value, HasEntry(v) PROVE v \in present /\ intensity[v] # 0
    <3>1. Listed(v)
      BY <2>3 DEF HasEntry, InHand, Init
    <3>2. PICK k \in DOMAIN Restored : Restored[k] = v
      BY <3>1 DEF Listed, Init
    <3>3. v \in ToSet(Restored)
      BY <3>2 DEF ToSet
    <3> QED
      BY <3>3 DEF Init
  <2> QED
    BY <2>1, <2>2, <2>3, PollConstants DEF OrphanInv, EntriesInv
<1>2. ListInv /\ OrphanInv /\ [Next]_vars => OrphanInv'
  <2> SUFFICES ASSUME ListInv, OrphanInv, [Next]_vars PROVE OrphanInv'
    OBVIOUS
  <2>0. TypeOK /\ VisitInv /\ removals \in Nat
    BY PollConstants DEF ListInv, OrphanInv, TypeOK
  <2>1. ASSUME NEW t \in Threads, AppCall(t) \/ Call(t) PROVE OrphanInv'
    <3>1. UNCHANGED removals
      BY <2>1 DEF AppCall, Call, LockPolls, EnablePoll, DisablePoll, isPolled_Value,
                  isPolled_List, SetPollIntensity, counters
    <3> QED
      BY <2>0, <2>1, <3>1, CallKeepsVisit, CallKeepsEntries DEF OrphanInv
  <2>2. CASE PollProc
    <3>1. UNCHANGED removals
      BY <2>2 DEF PollProc, PollCheck, PollPop, PollReload, PollRequest, PollMark, PollWait,
                  counters
    <3> QED
      BY <2>0, <2>2, <3>1, PollKeepsVisit, PollKeepsEntries DEF OrphanInv
  <2>3. CASE DriverStep \/ OtherTraffic
    <3>1. removals' = 0 => removals' = removals
      <4>1. removals' \in {removals, removals + 1}
        BY <2>3 DEF DriverStep, OtherTraffic, CheckCompletedNodeQueries, QueuesEmpty,
                    PollWokenNode, VisitValue, FreeValues, ReplaceNode, NodeWakes,
                    NodeSleeps, DeleteNode, RemoveValue, CreateValue, counters
      <4> QED
        BY <2>0, <4>1
    <3> QED
      BY <2>0, <2>3, <3>1, DriverKeepsVisit, DriverKeepsEntries DEF OrphanInv
  <2>4. CASE UNCHANGED vars
    BY <2>4
    DEF vars, locks, lists, store, counters, OrphanInv, VisitInv, EntriesInv, HasEntry, InHand,
        Listed
  <2> QED
    BY <2>1, <2>2, <2>3, <2>4 DEF Next
<1>3. OrphanInv => NoOrphanEntry
  BY DEF OrphanInv, EntriesInv, NoOrphanEntry, HasEntry
<1> QED
  BY <1>1, <1>2, <1>3, ListInvCorrect, PTL DEF Spec
-----------------------------------------------------------------------------
(* Where no value goes away, and one that was restored is never disabled,   *)
(* the list is never empty and every value that is looked up is found.      *)

StaysInv ==
    /\ StaysDefined
    /\ present = Value /\ dtor.pc = "none" /\ call[Driver].pc = "idle"
    /\ \A t \in Threads : call[t].pc # "idle" =>
          /\ call[t].id \in Value
          /\ call[t].op = "DisablePoll" => call[t].id \notin Pinned
    /\ poll.pc = "reload" => poll.entry.id \in Value
    /\ \A v \in Pinned \cap ToSet(Restored) : HasEntry(v)

(* No call of an application takes an entry of a value that stays enabled. *)
LEMMA CallKeepsStays ==
    ASSUME ListInv, StaysInv, NEW t \in Threads, AppCall(t) \/ Call(t)
    PROVE  StaysInv'
<1>1. /\ call \in [Threads -> [pc : {"idle", "lock", "value", "nodes"},
                               op : PollOp \cup {"none"}, id : Value \cup {NoValue},
                               intensity : 0..(CounterMod - 1), polled : BOOLEAN]]
      /\ Driver \in Threads /\ Driver \notin App
  BY PollConstants DEF ListInv, TypeOK, Threads
<1>2. t # Driver
  BY <1>1 DEF StaysInv, AppCall, Call, LockPolls, EnablePoll, DisablePoll, isPolled_Value,
              isPolled_List, SetPollIntensity
<1>3. ASSUME call[t].pc # "idle" PROVE call[t].id \in present /\ ~Freed(call[t].id)
  BY <1>3 DEF StaysInv, Freed
<1>4. /\ UNCHANGED <<present, dtor>>
      /\ poll' = poll
  BY <1>2 DEF AppCall, Call, LockPolls, EnablePoll, DisablePoll, isPolled_Value,
              isPolled_List, SetPollIntensity, store
<1>5. ~undefined' /\ ~leaked'
  <2>1. ~undefined /\ ~leaked
    BY DEF StaysInv, StaysDefined
  <2>2. CASE AppCall(t) \/ LockPolls(t) \/ EnablePoll(t) \/ isPolled_List(t)
    BY <2>1, <2>2 DEF AppCall, LockPolls, EnablePoll, isPolled_List, locks
  <2>3. CASE DisablePoll(t)
    <3> DEFINE v == call[t].id
    <3>1. v \in present /\ UNCHANGED leaked
      BY <1>3, <2>3 DEF DisablePoll
    <3>2. CASE NodeOf[v] \in nodes /\ Listed(v)
      <4>1. undefined' = (v \notin present)
        BY <2>3, <3>2 DEF DisablePoll
      <4> HIDE DEF v
      <4> QED
        BY <2>1, <3>1, <4>1
    <3>3. CASE ~(NodeOf[v] \in nodes /\ Listed(v))
      <4>1. undefined' = undefined
        BY <2>3, <3>3 DEF DisablePoll
      <4> QED
        BY <2>1, <3>1, <4>1
    <3> QED
      BY <3>2, <3>3
  <2>4. CASE isPolled_Value(t)
    <3>1. ~Freed(call[t].id) /\ UNCHANGED leaked
      BY <1>3, <2>4 DEF isPolled_Value, locks
    <3> QED
      BY <2>1, <2>4, <3>1 DEF isPolled_Value
  <2>5. CASE SetPollIntensity(t)
    <3>1. ~Freed(call[t].id) /\ call[t].id \in present
      BY <1>3, <2>5 DEF SetPollIntensity
    <3> QED
      BY <2>1, <2>5, <3>1 DEF SetPollIntensity
  <2> QED
    BY <2>2, <2>3, <2>4, <2>5 DEF Call
<1>6. ASSUME NEW s \in Threads, call'[s].pc # "idle"
      PROVE  call'[s].id \in Value /\ (call'[s].op = "DisablePoll" => call'[s].id \notin Pinned)
  <2>1. CASE s # t
    <3>1. call'[s] = call[s]
      BY <1>1, <2>1 DEF AppCall, Begin, Call, LockPolls, EnablePoll, DisablePoll, isPolled_Value,
                        isPolled_List, SetPollIntensity
    <3> QED
      BY <1>6, <3>1 DEF StaysInv
  <2>2. CASE s = t /\ AppCall(t)
    BY <1>1, <2>2 DEF AppCall, Begin
  <2>3. CASE s = t /\ Call(t)
    <3>1. call[t].pc # "idle"
      BY <2>3 DEF Call, LockPolls, EnablePoll, DisablePoll, isPolled_Value, isPolled_List,
                  SetPollIntensity
    <3>2. call'[t].id = call[t].id /\ call'[t].op = call[t].op
      BY <1>1, <1>2, <1>6, <2>3
      DEF Call, LockPolls, EnablePoll, DisablePoll, isPolled_Value, isPolled_List,
          SetPollIntensity, NoCall
    <3> QED
      BY <2>3, <3>1, <3>2 DEF StaysInv
  <2> QED
    BY <2>1, <2>2, <2>3
<1>7. call'[Driver].pc = "idle"
  <2>1. call'[Driver] = call[Driver]
    BY <1>1, <1>2 DEF AppCall, Begin, Call, LockPolls, EnablePoll, DisablePoll, isPolled_Value,
                      isPolled_List, SetPollIntensity
  <2> QED
    BY <2>1 DEF StaysInv
<1>8. ASSUME NEW v \in Pinned \cap ToSet(Restored) PROVE HasEntry(v)'
  <2>1. v \in Value /\ HasEntry(v)
    BY <1>8, PollConstants DEF StaysInv
  <2>2. ~(DisablePoll(t) /\ call[t].id = v)
    BY DEF StaysInv, DisablePoll
  <2> QED
    BY <2>1, <2>2, CallEntries
<1> QED
  BY <1>4, <1>5, <1>6, <1>7, <1>8 DEF StaysInv, StaysDefined

(* The poll thread finds an entry, and its value. *)
LEMMA PollKeepsStays ==
    ASSUME ListInv, StaysInv, PollProc, \E v \in Pinned : v \in ToSet(Restored)
    PROVE  StaysInv'
<1>1. /\ pollList \in Seq(Entry)
      /\ poll \in [pc : {"check", "pop", "reload", "request", "mark", "wait"},
                   entry : Entry \cup {NoEntry}]
  BY DEF ListInv, TypeOK
<1>2. poll.pc = "pop" => pollList # <<>>
  <2>1. PICK v \in Pinned : v \in ToSet(Restored)
    OBVIOUS
  <2>2. HasEntry(v)
    BY <2>1 DEF StaysInv
  <2> QED
    BY <2>2 DEF HasEntry, InHand, Listed
<1>3. UNCHANGED <<present, dtor, call>>
  BY DEF PollProc, PollCheck, PollPop, PollReload, PollRequest, PollMark, PollWait, store
<1>4. ~undefined' /\ ~leaked'
  BY <1>2 DEF StaysInv, StaysDefined, PollProc, PollCheck, PollPop, PollReload, PollRequest,
              PollMark, PollWait, locks
<1>5. poll'.pc = "reload" => poll'.entry.id \in Value
  <2>1. CASE PollPop
    <3>1. pollList # <<>> => Head(pollList) \in Entry
      BY <1>1
    <3> QED
      BY <1>1, <1>2, <2>1, <3>1 DEF PollPop, At, Entry
  <2>2. CASE PollCheck \/ PollReload \/ PollRequest \/ PollMark \/ PollWait
    <3>1. poll'.pc # "reload"
      BY <1>1, <2>2 DEF PollCheck, PollReload, PollRequest, PollMark, PollWait, At
    <3> QED
      BY <3>1
  <2> QED
    BY <2>1, <2>2 DEF PollProc
<1>6. ASSUME NEW v \in Pinned \cap ToSet(Restored) PROVE HasEntry(v)'
  <2>1. v \in Value /\ v \in present /\ HasEntry(v)
    BY <1>6, PollConstants DEF StaysInv
  <2> QED
    BY <2>1, PollEntries
<1> QED
  BY <1>3, <1>4, <1>5, <1>6 DEF StaysInv, StaysDefined

(* The driver thread has no node to delete and no value to remove. *)
LEMMA DriverKeepsStays ==
    ASSUME ListInv, StaysInv, DriverStep \/ OtherTraffic, MaxDeletes = 0, MaxRemovals = 0
    PROVE  StaysInv'
<1>1. deletes = 0 /\ removals = 0
  BY DEF ListInv, TypeOK
<1>2. UNCHANGED <<pollList, poll>>
  BY DriverEntries
<1>3. UNCHANGED <<dtor, call, undefined, leaked>> /\ present \subseteq present'
      /\ present' \subseteq Value
  BY <1>1 DEF StaysInv, DriverStep, OtherTraffic, CheckCompletedNodeQueries, QueuesEmpty,
              PollWokenNode, VisitValue, FreeValues, ReplaceNode, NodeWakes, NodeSleeps,
              DeleteNode, RemoveValue, CreateValue, locks, store
<1> QED
  BY <1>2, <1>3 DEF StaysInv, StaysDefined, HasEntry, InHand, Listed

(***************************************************************************)
(* StaysDefined: where no node or value goes away and one value of the      *)
(* restored list is never disabled, the poll thread never takes an entry    *)
(* off an empty list, although it tests the list before it has the lock,    *)
(* and no call and no turn of the thread returns with m_pollMutex locked    *)
(* (Driver.cpp:4254, 4285, 4311).                                           *)
(***************************************************************************)
THEOREM DefinedCorrect ==
    ASSUME MaxDeletes = 0, MaxRemovals = 0, \E v \in Pinned : v \in ToSet(Restored)
    PROVE  Spec => []StaysDefined
<1>1. Init => StaysInv
  <2> SUFFICES ASSUME Init PROVE StaysInv
    OBVIOUS
  <2>1. ASSUME NEW v \in ToSet(Restored) PROVE Listed(v)
    BY <2>1 DEF ToSet, Init, Listed
  <2>2. \A t \in Threads : call[t] = NoCall
    BY DEF Init
  <2>3. Driver \in Threads
    BY DEF Threads
  <2> QED
    BY <2>1, <2>2, <2>3 DEF Init, StaysInv, StaysDefined, NoCall, HasEntry
<1>2. ListInv /\ StaysInv /\ [Next]_vars => StaysInv'
  <2> SUFFICES ASSUME ListInv, StaysInv, [Next]_vars PROVE StaysInv'
    OBVIOUS
  <2>1. CASE UNCHANGED vars
    BY <2>1 DEF vars, locks, lists, store, StaysInv, StaysDefined, HasEntry, InHand, Listed
  <2> QED
    BY <2>1, CallKeepsStays, PollKeepsStays, DriverKeepsStays DEF Next
<1>3. StaysInv => StaysDefined
  BY DEF StaysInv
<1> QED
  BY <1>1, <1>2, <1>3, ListInvCorrect, PTL DEF Spec
=============================================================================
