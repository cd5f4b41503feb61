------------------------- MODULE ConfigLookupProofs -------------------------
(***************************************************************************)
(* Machine-checked proofs about ConfigLookup, for any number of drivers,   *)
(* workers, nodes, configuration files and products: the types, and that   *)
(* the database lists every file as often as a transfer of it is pending.  *)
(***************************************************************************)
EXTENDS ConfigLookup, SequenceLemmas, FiniteSetTheorems

(***************************************************************************)
(* Types.                                                                  *)
(***************************************************************************)
CallOK(c) ==
    /\ c \in CallRec
    /\ c.at \in {"Start", "Queue", "Register"} => c.transfer \in Transfer
    /\ c.at = "Refresh" => c.transfer.node # Null
CallsOK == call \in [Thread -> CallRec] /\ \A t \in Thread : CallOK(call[t])

(* The parts of TypeOK that a step of a call leaves as they are. *)
RestOK ==
    /\ setup \in Setups
    /\ dnsList \in [Driver -> Seq(Node \cup {Mfs})] /\ dns \in [Driver -> Node \cup {Mfs, Null}]
    /\ httpList \in [Driver -> Seq(Transfer)] /\ running \in [Driver -> BOOLEAN]
    /\ worker \in [Driver -> [Worker -> WorkerRec]] /\ events \in [Driver -> Seq(Event)]
    /\ downloading \in [File -> Nat] /\ early \in [File -> Nat] /\ initializing \in BOOLEAN
    /\ ready \in [Driver -> BOOLEAN] /\ held \subseteq Driver
    /\ nodes \in [Driver -> SUBSET Node] /\ outdated \subseteq (Driver \X Node) \cup {Mfs}
    /\ disk \subseteq File \cup {Null} /\ fault \in {"None", "EmptyList", "NoNode"}
    /\ requested \in Nat

LEMMA TypeParts == TypeOK <=> RestOK /\ CallsOK
  BY DEF TypeOK, RestOK, CallsOK, CallOK

LEMMA TypePartsNext == TypeOK' <=> RestOK' /\ CallsOK'
  BY DEF TypeOK, RestOK, CallsOK, CallOK

(* A call goes on to another place, with the transfer it has. *)
LEMMA CallGoes ==
    ASSUME CallsOK, NEW t \in Thread, NEW place, Goes(t, place),
           CallOK([call[t] EXCEPT !.at = place])
    PROVE  CallsOK'
  BY DEF CallsOK, CallOK, Goes

(* A call is begun anew. *)
LEMMA CallBegins ==
    ASSUME CallsOK, NEW t \in Thread, NEW place, NEW transfer, Begins(t, place, transfer),
           CallOK([NoCall EXCEPT !.at = place, !.transfer = transfer])
    PROVE  CallsOK'
  BY DEF CallsOK, CallOK, Begins

(* What places ask of the call that goes there. *)
LEMMA PlaceOK ==
    ASSUME NEW c, CallOK(c), NEW place
    PROVE  /\ place \in {"Idle", "Enter", "Look", "Check", "Ready"} =>
                 CallOK([c EXCEPT !.at = place])
           /\ place \in {"Start", "Queue", "Register"} /\ c.transfer \in Transfer =>
                 CallOK([c EXCEPT !.at = place])
  BY DEF CallOK, CallRec

LEMMA NoCallOK == CallOK(NoCall) /\ CallOK([NoCall EXCEPT !.at = "Ready"])
                  /\ CallOK([NoCall EXCEPT !.at = "Idle"])
<1>1. <<>> \in Seq(Config)
  OBVIOUS
<1> QED
  BY <1>1 DEF CallOK, CallRec, NoCall, NoTransfer

(* What they ask of one that begins there. *)
LEMMA BeginOK ==
    ASSUME NEW place, NEW transfer
    PROVE  /\ place \in {"Idle", "Enter", "Look", "Check", "Ready"} /\ transfer \in Transfer \cup {NoTransfer} =>
                 CallOK([NoCall EXCEPT !.at = place, !.transfer = transfer])
           /\ place = "Start" /\ transfer \in Transfer =>
                 CallOK([NoCall EXCEPT !.at = place, !.transfer = transfer])
           /\ place = "Refresh" /\ transfer \in Transfer /\ transfer.node # Null =>
                 CallOK([NoCall EXCEPT !.at = place, !.transfer = transfer])
<1>1. NoCall \in CallRec
  BY NoCallOK DEF CallOK
<1>2. transfer \in Transfer \cup {NoTransfer} =>
         transfer \in [file : File \cup {Null}, node : Node \cup {Null}]
  BY DEF Transfer, NoTransfer
<1> QED
  BY <1>1, <1>2 DEF CallOK, CallRec

LEMMA InitType == Init => TypeOK
<1> SUFFICES ASSUME Init PROVE TypeOK
  OBVIOUS
<1>1. setup \in Setup
  BY ConfigConstants DEF Init
<1>2. disk \subseteq File \cup {Null}
  BY <1>1 DEF Init, Setup, File
<1>3. worker \in [Driver -> [Worker -> WorkerRec]]
  BY DEF Init, WorkerRec
<1>4. CallsOK
  BY NoCallOK DEF Init, CallsOK, CallOK
<1>5. dnsList \in [Driver -> Seq(Node \cup {Mfs})]
  <2>1. <<>> \in Seq(Node \cup {Mfs}) /\ <<Mfs>> \in Seq(Node \cup {Mfs})
    OBVIOUS
  <2> QED
    BY <2>1 DEF Init
<1>6. httpList \in [Driver -> Seq(Transfer)] /\ events \in [Driver -> Seq(Event)]
  BY DEF Init
<1>7. /\ running \in [Driver -> BOOLEAN] /\ ready \in [Driver -> BOOLEAN]
      /\ initializing \in BOOLEAN /\ dns \in [Driver -> Node \cup {Mfs, Null}]
  BY DEF Init
<1>8. /\ downloading \in [File -> Nat] /\ early \in [File -> Nat]
      /\ nodes \in [Driver -> SUBSET Node] /\ requested \in Nat /\ held \subseteq Driver
      /\ outdated \subseteq (Driver \X Node) \cup {Mfs} /\ fault = "None"
      /\ setup \in Setups
  BY DEF Init
<1>9. RestOK
  BY <1>2, <1>3, <1>5, <1>6, <1>7, <1>8 DEF RestOK
<1> QED
  BY <1>4, <1>9, TypeParts

-----------------------------------------------------------------------------
(* The DNS thread and the HTTP threads. *)
LEMMA DNSType ==
    ASSUME TypeOK, NEW d \in Driver, CheckRevision(d) \/ DNSStep(d) PROVE TypeOK'
<1> USE TypeParts, TypePartsNext DEF RestOK
<1>1. CASE CheckRevision(d)
  <2>1. CallsOK'
    BY <1>1 DEF CheckRevision, CallsOK, CallOK
  <2>2. PICK what \in nodes[d] \cup {Mfs} : dnsList' = [dnsList EXCEPT ![d] = Append(@, what)]
    BY <1>1 DEF CheckRevision
  <2>3. what \in Node \cup {Mfs}
    BY DEF TypeOK
  <2>4. dnsList' \in [Driver -> Seq(Node \cup {Mfs})]
    BY <2>2, <2>3
  <2> QED
    BY <1>1, <2>1, <2>4 DEF CheckRevision, lookups, clients, database, network
<1>2. CASE TakeLookup(d)
  <2>1. CallsOK'
    BY <1>2 DEF TakeLookup, CallsOK, CallOK
  <2>2. dnsList[d] \in Seq(Node \cup {Mfs}) /\ dnsList[d] # <<>>
    BY <1>2 DEF TakeLookup
  <2>3. Head(dnsList[d]) \in Node \cup {Mfs} /\ Tail(dnsList[d]) \in Seq(Node \cup {Mfs})
    BY <2>2
  <2> QED
    BY <1>2, <2>1, <2>3 DEF TakeLookup, clients, database, network
<1>3. CASE LookupTxT(d)
  <2>1. CallsOK'
    BY <1>3 DEF LookupTxT, CallsOK, CallOK
  <2>2. PICK result \in {"Newer", "Current", "Error"} :
           SubmitEventMsg(d, [type |-> "DNS", lookup |-> dns[d], result |-> result])
    BY <1>3 DEF LookupTxT
  <2>3. [type |-> "DNS", lookup |-> dns[d], result |-> result] \in Event
    BY <1>3 DEF LookupTxT, Event
  <2>4. events' \in [Driver -> Seq(Event)]
    BY <2>2, <2>3 DEF SubmitEventMsg
  <2> QED
    BY <1>3, <2>1, <2>4 DEF LookupTxT, clients, database, network
<1> QED
  BY <1>1, <1>2, <1>3 DEF DNSStep

(* A worker becomes another. *)
LEMMA WorkerBecomes ==
    ASSUME TypeOK, NEW d \in Driver, NEW w \in Worker, NEW x \in WorkerRec,
           worker' = [worker EXCEPT ![d][w] = x]
    PROVE  /\ worker' \in [Driver -> [Worker -> WorkerRec]]
           /\ worker'[d][w] = x
           /\ \A e \in Driver, y \in Worker :
                 e # d \/ y # w => worker'[e][y] = worker[e][y]
<1>1. worker \in [Driver -> [Worker -> WorkerRec]]
  BY DEF TypeOK
<1> QED
  BY <1>1

(* A worker goes on without a transfer. *)
LEMMA WorkerPlace ==
    ASSUME TypeOK, NEW d \in Driver, NEW w \in Worker, worker[d][w].at # "Busy",
           NEW place \in {"None", "New", "Wait", "Woken", "Leaving"}, WorkerGoes(d, w, place)
    PROVE  /\ worker' \in [Driver -> [Worker -> WorkerRec]]
           /\ \A e \in Driver, x \in Worker : worker'[e][x].transfer = worker[e][x].transfer
<1>1. worker \in [Driver -> [Worker -> WorkerRec]]
  BY DEF TypeOK
<1>2. worker[d][w] \in WorkerRec
  BY <1>1
<1>3. /\ worker[d][w].transfer = NoTransfer
      /\ [worker[d][w] EXCEPT !.at = place] = [at |-> place, transfer |-> NoTransfer]
  BY <1>2 DEF WorkerRec
<1>4. [at |-> place, transfer |-> NoTransfer] \in WorkerRec
  BY DEF WorkerRec
<1>5. worker' = [worker EXCEPT ![d] = [worker[d] EXCEPT ![w] = [at |-> place, transfer |-> NoTransfer]]]
  BY <1>1, <1>3 DEF WorkerGoes
<1> HIDE DEF WorkerRec
<1> QED
  BY <1>1, <1>3, <1>4, <1>5

LEMMA WorkerType ==
    ASSUME TypeOK, NEW d \in Driver, NEW w \in Worker,
           WorkerStep(d, w) \/ OpenFile(d, w) \/ WorkerTimesOut(d, w)
    PROVE  TypeOK'
<1> USE TypeParts, TypePartsNext DEF RestOK
<1>0. call' = call
  BY DEF WorkerStep, WorkerRuns, WorkerWakes, TakeTransfer, FinishDownload, WorkerLeaves,
         OpenFile, WorkerTimesOut
<1>a. CallsOK'
  BY <1>0 DEF CallsOK, CallOK
<1>1. CASE WorkerRuns(d, w)
  BY <1>1, <1>a, WorkerPlace DEF WorkerRuns, WorkerAt, lookups, database, network
<1>2. CASE WorkerWakes(d, w)
  BY <1>2, <1>a, WorkerPlace DEF WorkerWakes, WorkerAt, lookups, database, network
<1>3. CASE TakeTransfer(d, w)
  <2>1. CASE httpList[d] = <<>>
    BY <1>3, <1>a, <2>1 DEF TakeTransfer, lookups, database, network
  <2>2. CASE httpList[d] # <<>>
    <3>1. Head(httpList[d]) \in Transfer /\ Tail(httpList[d]) \in Seq(Transfer)
      BY <2>2
    <3>2. [at |-> "Busy", transfer |-> Head(httpList[d])] \in WorkerRec
      BY <3>1 DEF WorkerRec
    <3>3. worker' \in [Driver -> [Worker -> WorkerRec]]
      BY <1>3, <2>2, <3>2, WorkerBecomes DEF TakeTransfer
    <3>4. httpList' \in [Driver -> Seq(Transfer)]
      BY <1>3, <2>2, <3>1 DEF TakeTransfer
    <3> QED
      BY <1>3, <1>a, <2>2, <3>3, <3>4 DEF TakeTransfer, lookups, database, network
  <2> QED
    BY <2>1, <2>2
<1>4. CASE FinishDownload(d, w)
  <2>1. worker[d][w] \in WorkerRec /\ worker[d][w].at = "Busy"
    BY <1>4 DEF FinishDownload, WorkerAt
  <2>2. worker[d][w].transfer \in Transfer
    BY <2>1 DEF WorkerRec
  <2>3. PICK ok \in BOOLEAN :
           SubmitEventMsg(d, [type |-> "Http", transfer |-> worker[d][w].transfer, ok |-> ok])
    BY <1>4 DEF FinishDownload
  <2>4. [type |-> "Http", transfer |-> worker[d][w].transfer, ok |-> ok] \in Event
    BY <2>2 DEF Event
  <2>5. events' \in [Driver -> Seq(Event)]
    BY <2>3, <2>4 DEF SubmitEventMsg
  <2>6. [at |-> "Wait", transfer |-> NoTransfer] \in WorkerRec
    BY DEF WorkerRec
  <2>7. worker' \in [Driver -> [Worker -> WorkerRec]]
    BY <1>4, <2>6, WorkerBecomes DEF FinishDownload
  <2> QED
    BY <1>4, <1>a, <2>5, <2>7 DEF FinishDownload, lookups, database, network
<1>5. CASE WorkerLeaves(d, w)
  BY <1>5, <1>a, WorkerPlace DEF WorkerLeaves, WorkerAt, lookups, database, network
<1>6. CASE OpenFile(d, w)
  <2>1. worker[d][w] \in WorkerRec /\ worker[d][w].at = "Busy"
    BY <1>6 DEF OpenFile, WorkerAt
  <2>2. worker[d][w].transfer.file \in File
    BY <2>1 DEF WorkerRec, Transfer
  <2> QED
    BY <1>6, <1>a, <2>2 DEF OpenFile, lookups, clients, database, network
<1>7. CASE WorkerTimesOut(d, w)
  BY <1>7, <1>a, WorkerPlace DEF WorkerTimesOut, WorkerAt, lookups, database, network
<1> QED
  BY <1>1, <1>2, <1>3, <1>4, <1>5, <1>6, <1>7 DEF WorkerStep

-----------------------------------------------------------------------------
(* The driver thread. *)
LEMMA Threads ==
    ASSUME NEW d \in Driver
    PROVE  /\ Own(d) \in Thread /\ Application(d) \in Thread /\ Own(d) # Application(d)
           /\ Own(d)[1] = d /\ Application(d)[1] = d
  BY DEF Own, Application, Thread

LEMMA EventTypes ==
    ASSUME TypeOK, NEW d \in Driver, events[d] # <<>>
    PROVE  /\ Head(events[d]) \in Event /\ Tail(events[d]) \in Seq(Event)
           /\ Head(events[d]).type = "DNS" =>
                 Head(events[d]).lookup \in Node \cup {Mfs}
           /\ Head(events[d]).type = "Http" =>
                 Head(events[d]).transfer \in Transfer /\ Head(events[d]).ok \in BOOLEAN
<1>1. events[d] \in Seq(Event)
  BY DEF TypeOK
<1>2. Head(events[d]) \in Event /\ Tail(events[d]) \in Seq(Event)
  BY <1>1
<1> QED
  BY <1>2 DEF Event

LEMMA RevisionType ==
    ASSUME TypeOK, NEW d \in Driver, events[d] # <<>>,
           ProcessConfigRevision(d, Head(events[d]))
    PROVE  CallsOK' /\ outdated' \subseteq (Driver \X Node) \cup {Mfs}
<1> DEFINE e == Head(events[d])
<1>1. e.type = "DNS" /\ e.lookup \in Node \cup {Mfs}
  BY EventTypes DEF ProcessConfigRevision
<1>2. CallsOK /\ outdated \subseteq (Driver \X Node) \cup {Mfs} /\ Own(d) \in Thread
  BY TypeParts, Threads DEF RestOK
<1>3. [file |-> Mfs, node |-> Null] \in Transfer
  BY DEF Transfer, File
<1>4. CallOK(call[Own(d)])
  BY <1>2 DEF CallsOK
<1>5. CASE MfsRevision(d, e)
  <2>1. PICK place \in {"Enter", "Start", "Check"} :
           Begins(Own(d), place, [file |-> Mfs, node |-> Null])
    BY <1>5 DEF MfsRevision
  <2>2. CallsOK'
    BY <1>2, <1>3, <2>1, CallBegins, BeginOK
  <2> QED
    BY <1>2, <1>5, <2>2 DEF MfsRevision, Announced
<1>6. CASE NodeRevision(d, e)
  <2>1. e.lookup \in Node
    BY <1>1, <1>6 DEF NodeRevision
  <2>2. [file |-> ConfigOf[e.lookup], node |-> e.lookup] \in Transfer
    BY <2>1, ConfigConstants DEF Transfer, File
  <2>3. outdated' \subseteq (Driver \X Node) \cup {Mfs}
    BY <1>2, <1>6, <2>1 DEF NodeRevision, Announced
  <2>4. \/ Goes(Own(d), "Ready")
        \/ Begins(Own(d), "Start", [file |-> ConfigOf[e.lookup], node |-> e.lookup])
    BY <1>6 DEF NodeRevision
  <2>5. CASE Goes(Own(d), "Ready")
    BY <1>2, <1>4, <2>3, <2>5, CallGoes, PlaceOK
  <2>6. CASE Begins(Own(d), "Start", [file |-> ConfigOf[e.lookup], node |-> e.lookup])
    BY <1>2, <2>2, <2>3, <2>6, CallBegins, BeginOK
  <2> QED
    BY <2>4, <2>5, <2>6
<1>7. CASE e.result = "Error" /\ Goes(Own(d), "Check") /\ UNCHANGED outdated
  BY <1>2, <1>4, <1>7, CallGoes, PlaceOK
<1> QED
  BY <1>5, <1>6, <1>7 DEF ProcessConfigRevision

LEMMA DownloadType ==
    ASSUME TypeOK, NEW d \in Driver, events[d] # <<>>, ProcessDownload(d, Head(events[d]))
    PROVE  /\ CallsOK' /\ outdated' \subseteq (Driver \X Node) \cup {Mfs}
           /\ downloading' \in [File -> Nat] /\ early' \in [File -> Nat]
<1> DEFINE e == Head(events[d])
<1>1. e.transfer \in Transfer /\ e.transfer.file \in File
  BY EventTypes DEF ProcessDownload, Transfer
<1>2. CallsOK /\ outdated \subseteq (Driver \X Node) \cup {Mfs} /\ Own(d) \in Thread
  BY TypeParts, Threads DEF RestOK
<1>3. downloading \in [File -> Nat] /\ early \in [File -> Nat]
  BY DEF TypeOK
<1>4. downloading' \in [File -> Nat] /\ early' \in [File -> Nat]
  BY <1>1, <1>3 DEF ProcessDownload, TakenOff
<1> DEFINE place == AfterDownload(e)
           transfer == IF AfterDownload(e) = "Refresh" THEN e.transfer ELSE NoTransfer
<1>5. place \in {"Enter", "Check"} \/ (place = "Refresh" /\ e.transfer.node # Null)
  BY DEF AfterDownload
<1>6. CallOK([NoCall EXCEPT !.at = place, !.transfer = transfer])
  <2>1. CASE place \in {"Enter", "Check"}
    BY <2>1, BeginOK
  <2>2. CASE place = "Refresh" /\ e.transfer.node # Null
    BY <1>1, <2>2, BeginOK
  <2> QED
    BY <1>5, <2>1, <2>2
<1>7. Begins(Own(d), place, transfer) /\ outdated' \subseteq outdated
  BY DEF ProcessDownload
<1> HIDE DEF place, transfer
<1>8. CallsOK'
  BY <1>2, <1>6, <1>7, CallBegins
<1> QED
  BY <1>2, <1>4, <1>7, <1>8

LEMMA ProcessEventMsgType ==
    ASSUME TypeOK, NEW d \in Driver, ProcessEventMsg(d) PROVE TypeOK'
<1>1. events[d] # <<>> /\ events' = [events EXCEPT ![d] = Tail(@)]
  BY DEF ProcessEventMsg
<1>2. Tail(events[d]) \in Seq(Event)
  BY <1>1, EventTypes
<1>3. events' \in [Driver -> Seq(Event)]
  BY <1>1, <1>2 DEF TypeOK
<1>4. /\ CallsOK' /\ outdated' \subseteq (Driver \X Node) \cup {Mfs}
      /\ downloading' \in [File -> Nat] /\ early' \in [File -> Nat]
  <2>1. CASE ProcessConfigRevision(d, Head(events[d]))
    <3>1. UNCHANGED <<downloading, early>>
      BY <2>1 DEF ProcessConfigRevision
    <3> QED
      BY <1>1, <2>1, <3>1, RevisionType DEF TypeOK
  <2>2. CASE ProcessDownload(d, Head(events[d]))
    BY <1>1, <2>2, DownloadType
  <2> QED
    BY <2>1, <2>2 DEF ProcessEventMsg
<1>5. UNCHANGED <<setup, lookups, clients, initializing, ready, nodes, disk, fault, held,
                  requested>>
  BY DEF ProcessEventMsg
<1>6. RestOK'
  BY <1>3, <1>4, <1>5, TypeParts DEF RestOK, lookups, clients
<1> QED
  BY <1>4, <1>6, TypePartsNext

LEMMA RefreshNodeConfigType ==
    ASSUME TypeOK, NEW d \in Driver, RefreshNodeConfig(d) PROVE TypeOK'
<1> DEFINE n == call[Own(d)].transfer.node
<1>1. Own(d) \in Thread /\ CallsOK /\ CallOK(call[Own(d)])
  BY Threads, TypeParts DEF CallsOK
<1>2. n \in Node
  BY <1>1 DEF RefreshNodeConfig, At, CallOK, CallRec
<1>3. CallsOK'
  BY <1>1, CallGoes, PlaceOK DEF RefreshNodeConfig
<1>4. /\ nodes' \in [Driver -> SUBSET Node] /\ outdated' \subseteq (Driver \X Node) \cup {Mfs}
      /\ fault' \in {"None", "EmptyList", "NoNode"}
  <2>1. /\ nodes' = nodes \/ nodes' = [nodes EXCEPT ![d] = @ \cup {n}]
        /\ outdated' \subseteq outdated
        /\ fault' = fault \/ fault' = "NoNode"
    BY DEF RefreshNodeConfig, network
  <2> HIDE DEF n
  <2>2. /\ nodes \in [Driver -> SUBSET Node] /\ outdated \subseteq (Driver \X Node) \cup {Mfs}
        /\ fault \in {"None", "EmptyList", "NoNode"}
    BY DEF TypeOK
  <2>3. nodes' \in [Driver -> SUBSET Node]
    <3>1. nodes[d] \cup {n} \in SUBSET Node
      BY <1>2, <2>2
    <3> QED
      BY <2>1, <2>2, <3>1
  <2> QED
    BY <2>1, <2>2, <2>3
<1>5. UNCHANGED <<setup, lookups, clients, events, database, ready, disk, held, requested>>
  BY DEF RefreshNodeConfig
<1>6. RestOK'
  BY <1>4, <1>5, TypeParts DEF RestOK, lookups, clients, database
<1> QED
  BY <1>3, <1>6, TypePartsNext

(* checkConfigFiles *)
LEMMA LookType ==
    ASSUME TypeOK, NEW d \in Driver,
           EnterConfigFiles(d) \/ LookAtProduct(d) \/ AllLookedAt(d)
    PROVE  TypeOK'
<1> DEFINE t == Own(d)
<1>1. t \in Thread /\ CallsOK /\ CallOK(call[t]) /\ RestOK
  BY Threads, TypeParts DEF CallsOK
<1>2. CASE EnterConfigFiles(d)
  <2> DEFINE c == [at |-> "Look", products |-> Products, scans |-> TRUE, transfer |-> NoTransfer]
  <2>1. CallOK(c)
    BY ConfigConstants DEF CallOK, CallRec, NoTransfer
  <2>2. call' = [call EXCEPT ![t] = c]
    BY <1>2 DEF EnterConfigFiles
  <2> HIDE DEF c
  <2>3. CallsOK'
    BY <1>1, <2>1, <2>2 DEF CallsOK, CallOK
  <2>4. RestOK'
    BY <1>1, <1>2 DEF EnterConfigFiles, RestOK, lookups, clients, database, network
  <2> QED
    BY <2>3, <2>4, TypePartsNext
<1>3. CASE LookAtProduct(d)
  <2> DEFINE file == Missing(Head(call[t].products))
             place == IF file = Null \/ downloading[file] > 0 THEN "Look" ELSE "Start"
             c == [call[t] EXCEPT !.products = Tail(@), !.at = place,
                                  !.transfer = [file |-> file, node |-> Null]]
  <2>1. call[t].products \in Seq(Config) /\ call[t].products # <<>>
    BY <1>1, <1>3 DEF LookAtProduct, CallOK, CallRec
  <2>2. Head(call[t].products) \in Config /\ Tail(call[t].products) \in Seq(Config)
    BY <2>1
  <2>3. file \in File \cup {Null}
    BY <2>2 DEF Missing, File, Image
  <2>4. [file |-> file, node |-> Null] \in [file : File \cup {Null}, node : Node \cup {Null}]
        /\ (file # Null => [file |-> file, node |-> Null] \in Transfer)
    BY <2>3 DEF Transfer
  <2>5. place \in {"Look", "Start"} /\ (place = "Start" => file # Null)
    OBVIOUS
  <2>6. call' = [call EXCEPT ![t] = c]
    BY <1>1, <1>3 DEF LookAtProduct, CallsOK
  <2> HIDE DEF file, place
  <2>7. CallOK(c)
    BY <1>1, <2>2, <2>4, <2>5 DEF CallOK, CallRec
  <2> HIDE DEF c
  <2>8. CallsOK'
    BY <1>1, <2>6, <2>7 DEF CallsOK, CallOK
  <2>9. RestOK'
    BY <1>1, <1>3 DEF LookAtProduct, RestOK, lookups, clients, database, network
  <2> QED
    BY <2>8, <2>9, TypePartsNext
<1>4. CASE AllLookedAt(d)
  <2>1. CallsOK'
    BY <1>1, <1>4, CallGoes, PlaceOK DEF AllLookedAt
  <2>2. RestOK'
    BY <1>1, <1>4 DEF AllLookedAt, RestOK, lookups, clients, database, network
  <2> QED
    BY <2>1, <2>2, TypePartsNext
<1> QED
  BY <1>2, <1>3, <1>4

LEMMA TestReadyType ==
    ASSUME TypeOK, NEW d \in Driver, TestReady(d) \/ RemoveNode(d) PROVE TypeOK'
<1>1. Own(d) \in Thread /\ CallsOK /\ RestOK
  BY Threads, TypeParts
<1>2. CASE TestReady(d)
  <2>1. CallsOK'
    BY <1>1, <1>2, NoCallOK DEF TestReady, CallsOK, CallOK
  <2>2. ready' \in [Driver -> BOOLEAN] /\ held' \subseteq Driver
    BY <1>1, <1>2 DEF TestReady, RestOK
  <2>3. RestOK'
    BY <1>1, <1>2, <2>2 DEF TestReady, RestOK, lookups, clients, database, network
  <2> QED
    BY <2>1, <2>3, TypePartsNext
<1>3. CASE RemoveNode(d)
  <2>1. CallsOK'
    BY <1>1, <1>3 DEF RemoveNode, CallsOK, CallOK
  <2>2. nodes' \in [Driver -> SUBSET Node] /\ outdated' \subseteq outdated
    BY <1>1, <1>3 DEF RemoveNode, RestOK
  <2>3. RestOK'
    BY <1>1, <1>3, <2>2 DEF RemoveNode, RestOK, lookups, clients, database
  <2> QED
    BY <2>1, <2>3, TypePartsNext
<1> QED
  BY <1>2, <1>3

-----------------------------------------------------------------------------
(* Downloads. *)
LEMMA DownloadRevisionType ==
    ASSUME TypeOK, NEW d \in Driver, DownloadRevision(d) PROVE TypeOK'
<1> DEFINE t == Application(d)
<1>1. t \in Thread /\ CallsOK /\ RestOK
  BY Threads, TypeParts
<1>2. PICK transfer \in Transfer : Begins(t, "Start", transfer)
  <2>1. [file |-> Mfs, node |-> Null] \in Transfer
    BY DEF Transfer, File
  <2>2. \A n \in Node : [file |-> ConfigOf[n], node |-> n] \in Transfer
    BY ConfigConstants DEF Transfer, File
  <2>3. nodes[d] \subseteq Node
    BY <1>1 DEF RestOK
  <2> QED
    BY <2>1, <2>2, <2>3 DEF DownloadRevision
<1>3. CallsOK'
  BY <1>1, <1>2, CallBegins, BeginOK
<1>4. RestOK'
  BY <1>1 DEF DownloadRevision, RestOK, lookups, clients, database, network
<1> QED
  BY <1>3, <1>4, TypePartsNext

LEMMA DownloadStepType ==
    ASSUME TypeOK, NEW t \in Thread, DownloadStep(t) PROVE TypeOK'
<1>1. t[1] \in Driver /\ CallsOK /\ RestOK /\ CallOK(call[t])
  BY TypeParts DEF Thread, CallsOK
<1>2. Back(t) \in {"Look", "Check"}
  BY DEF Back
<1>3. call[t].at \in {"Start", "Queue", "Register"} =>
         call[t].transfer \in Transfer /\ call[t].transfer.file \in File
  BY <1>1 DEF CallOK, Transfer
<1>4. CASE StartThread(t)
  <2>1. CallsOK'
    BY <1>1, <1>3, <1>4, CallGoes, PlaceOK DEF StartThread, At
  <2>2. worker' \in [Driver -> [Worker -> WorkerRec]]
    <3>1. CASE UNCHANGED worker
      BY <1>1, <3>1 DEF RestOK
    <3>2. CASE ~UNCHANGED worker
      <4>1. PICK w \in Worker : worker[t[1]][w].at = "None" /\ WorkerGoes(t[1], w, "New")
        BY <1>4, <3>2 DEF StartThread
      <4> QED
        BY <1>1, <4>1, WorkerPlace
    <3> QED
      BY <3>1, <3>2
  <2>3. RestOK'
    BY <1>1, <1>4, <2>2 DEF StartThread, RestOK, lookups, database, network
  <2> QED
    BY <2>1, <2>3, TypePartsNext
<1>5. CASE QueueTransfer(t)
  <2>1. CallsOK'
    BY <1>1, <1>3, <1>5, CallGoes, PlaceOK DEF QueueTransfer, At
  <2>2. httpList' \in [Driver -> Seq(Transfer)] /\ disk' \subseteq disk
    BY <1>1, <1>3, <1>5 DEF QueueTransfer, At, RestOK
  <2>3. RestOK'
    BY <1>1, <1>5, <2>2 DEF QueueTransfer, RestOK, lookups, database, network
  <2> QED
    BY <2>1, <2>3, TypePartsNext
<1>6. CASE TransferFails(t)
  <2>1. CallsOK'
    BY <1>1, <1>2, <1>6, CallGoes, PlaceOK DEF TransferFails
  <2>2. disk' \subseteq disk
    BY <1>6 DEF TransferFails
  <2>3. RestOK'
    BY <1>1, <1>6, <2>2 DEF TransferFails, RestOK, lookups, clients, database, network
  <2> QED
    BY <2>1, <2>3, TypePartsNext
<1>7. CASE Register(t)
  <2>1. CallsOK'
    BY <1>1, <1>2, <1>7, CallGoes, PlaceOK DEF Register
  <2>2. downloading' \in [File -> Nat]
    BY <1>1, <1>3, <1>7 DEF Register, At, RestOK
  <2>3. RestOK'
    BY <1>1, <1>7, <2>2 DEF Register, RestOK, lookups, clients, network
  <2> QED
    BY <2>1, <2>3, TypePartsNext
<1>8. CASE CheckInitialized(t)
  <2>1. CallsOK'
    <3>1. PICK place \in {"Ready", "Idle"} : call' = [call EXCEPT ![t] = [NoCall EXCEPT !.at = place]]
      BY <1>8 DEF CheckInitialized
    <3>2. CallOK([NoCall EXCEPT !.at = place])
      BY NoCallOK
    <3> QED
      BY <1>1, <3>1, <3>2 DEF CallsOK, CallOK
  <2>2. initializing' \in BOOLEAN
    BY <1>8 DEF CheckInitialized
  <2>3. RestOK'
    BY <1>1, <1>8, <2>2 DEF CheckInitialized, RestOK, lookups, clients, network
  <2> QED
    BY <2>1, <2>3, TypePartsNext
<1> QED
  BY <1>4, <1>5, <1>6, <1>7, <1>8 DEF DownloadStep

LEMMA NextType == TypeOK /\ [Next]_vars => TypeOK'
<1> SUFFICES ASSUME TypeOK, [Next]_vars PROVE TypeOK'
  OBVIOUS
<1>1. ASSUME UNCHANGED vars PROVE TypeOK'
  BY <1>1 DEF vars, lookups, clients, database, network, TypeOK
<1>2. ASSUME Next PROVE TypeOK'
  <2>1. PICK d \in Driver :
           \/ DNSStep(d) \/ DriverStep(d) \/ DownloadStep(Application(d))
           \/ CheckRevision(d) \/ DownloadRevision(d) \/ RemoveNode(d)
           \/ \E w \in Worker : WorkerStep(d, w) \/ OpenFile(d, w) \/ WorkerTimesOut(d, w)
    BY <1>2 DEF Next
  <2>2. ASSUME DNSStep(d) \/ CheckRevision(d) PROVE TypeOK'
    BY <2>2, DNSType
  <2>3. ASSUME DriverStep(d) PROVE TypeOK'
    BY <2>3, ProcessEventMsgType, RefreshNodeConfigType, LookType, TestReadyType,
       DownloadStepType, Threads DEF DriverStep
  <2>4. ASSUME DownloadStep(Application(d)) PROVE TypeOK'
    BY <2>4, DownloadStepType, Threads
  <2>5. ASSUME DownloadRevision(d) \/ RemoveNode(d) PROVE TypeOK'
    BY <2>5, DownloadRevisionType, TestReadyType
  <2>6. ASSUME NEW w \in Worker, WorkerStep(d, w) \/ OpenFile(d, w) \/ WorkerTimesOut(d, w)
        PROVE  TypeOK'
    BY <2>6, WorkerType
  <2> QED
    BY <2>1, <2>2, <2>3, <2>4, <2>5, <2>6
<1> QED
  BY <1>1, <1>2

(* Every variable keeps its type, and a transfer that is queued, under way or finished *)
(* is of a file there is: what configDownloaded takes off m_downloading was on it.     *)
THEOREM TypeCorrect == Spec => []TypeOK
<1>1. Init => TypeOK
  BY InitType
<1>2. TypeOK /\ [Next]_vars => TypeOK'
  BY NextType
<1> QED
  BY <1>1, <1>2, PTL DEF Spec

(***************************************************************************)
(* Counting.                                                               *)
(***************************************************************************)
(* Lists of the drivers: what one of them is when x is put at its end, or its first *)
(* is taken off, and the others stay as they are.                                   *)
Others(list, list2, d) == \A e \in Driver : e # d => list2[e] = list[e]
Grows(S, list, list2, d, x) ==
    /\ list \in [Driver -> Seq(S)] /\ x \in S
    /\ list2[d] = Append(list[d], x) /\ Others(list, list2, d)
Shrinks(S, list, list2, d) ==
    /\ list \in [Driver -> Seq(S)] /\ list[d] # <<>>
    /\ list2[d] = Tail(list[d]) /\ Others(list, list2, d)

LEMMA InPlaces ==
    ASSUME NEW list, NEW what, NEW p
    PROVE  p \in Places(list, what) <=>
              \E d \in Driver : \E k \in DOMAIN list[d] : p = <<d, k>> /\ list[d][k] \in what
<1>1. ASSUME p \in Places(list, what)
      PROVE  \E d \in Driver : \E k \in DOMAIN list[d] : p = <<d, k>> /\ list[d][k] \in what
  <2>1. PICK d \in Driver : p \in {d} \X {k \in DOMAIN list[d] : list[d][k] \in what}
    BY <1>1 DEF Places
  <2> QED
    BY <2>1
<1>2. ASSUME NEW d \in Driver, NEW k \in DOMAIN list[d], p = <<d, k>>, list[d][k] \in what
      PROVE  p \in Places(list, what)
  <2>1. p \in {d} \X {j \in DOMAIN list[d] : list[d][j] \in what}
    BY <1>2
  <2> QED
    BY <2>1 DEF Places
<1> QED
  BY <1>1, <1>2

LEMMA PlacesFinite ==
    ASSUME NEW S, NEW list \in [Driver -> Seq(S)], NEW what
    PROVE  IsFiniteSet(Places(list, what)) /\ Cardinality(Places(list, what)) \in Nat
<1> DEFINE places(d) == {d} \X {k \in DOMAIN list[d] : list[d][k] \in what}
           all == {places(d) : d \in Driver}
           g == [d \in Driver |-> places(d)]
<1>1. ASSUME NEW d \in Driver PROVE IsFiniteSet(places(d))
  <2> DEFINE ks == {k \in DOMAIN list[d] : list[d][k] \in what}
  <2>1. Len(list[d]) \in Nat /\ DOMAIN list[d] = 1..Len(list[d])
    BY LenProperties
  <2>2. IsFiniteSet(DOMAIN list[d])
    BY <2>1, FS_Interval
  <2>3. ks \subseteq DOMAIN list[d]
    OBVIOUS
  <2> HIDE DEF ks
  <2>4. IsFiniteSet(ks)
    BY <2>2, <2>3, FS_Subset
  <2>5. IsFiniteSet({d})
    BY FS_Singleton
  <2>6. IsFiniteSet({d} \X ks)
    BY <2>4, <2>5, FS_Product
  <2> QED
    BY <2>6 DEF ks
<1> HIDE DEF places
<1>2. g \in Surjection(Driver, all)
  BY DEF Surjection
<1> HIDE DEF g
<1>3. IsFiniteSet(all)
  BY <1>2, ConfigConstants, FS_Surjection
<1>4. \A x \in all : IsFiniteSet(x)
  BY <1>1
<1> HIDE DEF all
<1>5. IsFiniteSet(UNION all)
  BY <1>3, <1>4, FS_UNION
<1>6. UNION all = Places(list, what)
  BY DEF all, places, Places
<1> QED
  BY <1>5, <1>6, FS_CardinalityType

LEMMA PlacesSame ==
    ASSUME NEW list, NEW list2, NEW what, \A d \in Driver : list2[d] = list[d]
    PROVE  Places(list2, what) = Places(list, what)
  BY DEF Places

(* push_back *)
LEMMA PlacesAppend ==
    ASSUME NEW S, NEW list, NEW list2, NEW d \in Driver, NEW x, Grows(S, list, list2, d, x),
           NEW what
    PROVE  Cardinality(Places(list2, what)) =
              Cardinality(Places(list, what)) + IF x \in what THEN 1 ELSE 0
<1> DEFINE n == Len(list[d])
           P == Places(list, what)
           P2 == Places(list2, what)
<1>0. list \in [Driver -> Seq(S)] /\ x \in S /\ list2[d] = Append(list[d], x) /\ Others(list, list2, d)
  BY DEF Grows
<1>1. n \in Nat /\ DOMAIN list[d] = 1..n
  BY <1>0, LenProperties
<1>2. /\ DOMAIN list2[d] = 1..(n + 1) /\ list2[d][n + 1] = x
      /\ \A k \in 1..n : list2[d][k] = list[d][k]
  <2>1. list[d] \in Seq(S)
    BY <1>0
  <2> QED
    BY <1>0, <1>1, <2>1, AppendProperties, LenProperties
<1>3. <<d, n + 1>> \notin P
  BY <1>0, <1>1, InPlaces
<1>4. ASSUME NEW p PROVE p \in P2 <=> p \in P \/ (p = <<d, n + 1>> /\ x \in what)
  <2> HIDE DEF n
  <2>1. n + 1 \in DOMAIN list2[d] /\ \A k \in DOMAIN list[d] : k \in DOMAIN list2[d]
    BY <1>0, <1>1, <1>2
  <2>2. \A k \in DOMAIN list2[d] : k \in DOMAIN list[d] \/ k = n + 1
    BY <1>0, <1>1, <1>2
  <2>3. ASSUME p \in P2 PROVE p \in P \/ (p = <<d, n + 1>> /\ x \in what)
    <3>1. PICK e, k : e \in Driver /\ k \in DOMAIN list2[e] /\ p = <<e, k>> /\ list2[e][k] \in what
      BY <1>0, <2>3, InPlaces
    <3>2. CASE e = d
      BY <1>0, <1>1, <1>2, <2>2, <3>1, <3>2, InPlaces
    <3>3. CASE e # d
      BY <1>0, <3>1, <3>3, InPlaces DEF Others
    <3> QED
      BY <1>0, <3>2, <3>3
  <2>4. ASSUME p \in P PROVE p \in P2
    <3>1. PICK e, k : e \in Driver /\ k \in DOMAIN list[e] /\ p = <<e, k>> /\ list[e][k] \in what
      BY <1>0, <2>4, InPlaces
    <3>2. k \in DOMAIN list2[e] /\ list2[e][k] = list[e][k]
      BY <1>0, <1>1, <1>2, <2>1, <3>1 DEF Others
    <3> QED
      BY <1>0, <3>1, <3>2, InPlaces
  <2>5. ASSUME p = <<d, n + 1>>, x \in what PROVE p \in P2
    BY <1>0, <1>2, <2>1, <2>5, InPlaces
  <2> QED
    BY <1>0, <2>3, <2>4, <2>5
<1>5. IsFiniteSet(P) /\ Cardinality(P) \in Nat
  BY <1>0, PlacesFinite
<1> HIDE DEF P, P2, n
<1>6. CASE x \in what
  <2>1. P2 = P \cup {<<d, n + 1>>}
    BY <1>0, <1>4, <1>6
  <2> QED
    BY <1>0, <1>3, <1>5, <1>6, <2>1, FS_AddElement DEF P, P2
<1>7. CASE x \notin what
  <2>1. P2 = P
    BY <1>0, <1>4, <1>7
  <2> QED
    BY <1>0, <1>5, <1>7, <2>1 DEF P, P2
<1> QED
  BY <1>0, <1>6, <1>7

(* front and pop_front *)
LEMMA PlacesTail ==
    ASSUME NEW S, NEW list, NEW list2, NEW d \in Driver, Shrinks(S, list, list2, d), NEW what
    PROVE  Cardinality(Places(list, what)) =
              Cardinality(Places(list2, what)) + IF Head(list[d]) \in what THEN 1 ELSE 0
<1> DEFINE n == Len(list[d])
           P == Places(list, what)
           P2 == Places(list2, what)
           R == P \ {<<d, 1>>}
           down(p) == IF p[1] = d THEN <<d, p[2] - 1>> ELSE p
           g == [p \in R |-> down(p)]
<1>0. list \in [Driver -> Seq(S)] /\ list2[d] = Tail(list[d]) /\ list[d] # <<>> /\ Others(list, list2, d)
  BY DEF Shrinks
<1>1. n \in Nat /\ n > 0 /\ DOMAIN list[d] = 1..n /\ Head(list[d]) = list[d][1]
  BY <1>0, LenProperties, EmptySeq, HeadTailProperties
<1>2. DOMAIN list2[d] = 1..(n - 1) /\ \A k \in 1..(n - 1) : list2[d][k] = list[d][k + 1]
  <2>1. list[d] \in Seq(S)
    BY <1>0
  <2> QED
    BY <1>0, <1>1, <2>1, HeadTailProperties, LenProperties
<1> HIDE DEF n
<1>3. \A k \in 1..n : k # 1 => k - 1 \in DOMAIN list2[d] /\ list2[d][k - 1] = list[d][k]
  BY <1>0, <1>1, <1>2
<1>4. \A k \in DOMAIN list2[d] : k + 1 \in 1..n /\ k + 1 # 1 /\ (k + 1) - 1 = k
                                 /\ list[d][k + 1] = list2[d][k]
  BY <1>0, <1>1, <1>2
<1>5. ASSUME NEW p \in R PROVE down(p) \in P2
  <2>1. PICK e, k : e \in Driver /\ k \in DOMAIN list[e] /\ p = <<e, k>> /\ list[e][k] \in what
    BY <1>0, InPlaces
  <2>2. CASE e = d
    <3>1. k \in 1..n /\ k # 1 /\ down(p) = <<d, k - 1>>
      BY <1>0, <1>1, <2>1, <2>2
    <3>2. k - 1 \in DOMAIN list2[d] /\ list2[d][k - 1] \in what
      BY <1>0, <1>3, <2>1, <2>2, <3>1
    <3>3. <<d, k - 1>> \in P2
      BY <1>0, <3>2, InPlaces
    <3> QED
      BY <1>0, <3>1, <3>3
  <2>3. CASE e # d
    BY <1>0, <2>1, <2>3, InPlaces DEF Others
  <2> QED
    BY <1>0, <2>2, <2>3
<1>6. ASSUME NEW q \in P2 PROVE \E p \in R : down(p) = q
  <2>1. PICK e, k : e \in Driver /\ k \in DOMAIN list2[e] /\ q = <<e, k>> /\ list2[e][k] \in what
    BY <1>0, InPlaces
  <2>2. CASE e = d
    <3>1. k + 1 \in DOMAIN list[d] /\ k + 1 # 1 /\ list[d][k + 1] \in what /\ (k + 1) - 1 = k
      BY <1>0, <1>1, <1>4, <2>1, <2>2
    <3>2. <<d, k + 1>> \in R
      BY <1>0, <3>1, InPlaces
    <3>3. down(<<d, k + 1>>) = q
      BY <1>0, <2>1, <2>2, <3>1
    <3> QED
      BY <1>0, <3>2, <3>3
  <2>3. CASE e # d
    <3>1. q \in P /\ q # <<d, 1>>
      BY <1>0, <2>1, <2>3, InPlaces DEF Others
    <3>2. down(q) = q
      BY <1>0, <2>1, <2>3
    <3> QED
      BY <1>0, <3>1, <3>2
  <2> QED
    BY <1>0, <2>2, <2>3
<1>7. ASSUME NEW p \in R, NEW q \in R, down(p) = down(q) PROVE p = q
  <2>1. PICK e, k : e \in Driver /\ k \in DOMAIN list[e] /\ p = <<e, k>>
    BY <1>0, InPlaces
  <2>2. PICK c, j : c \in Driver /\ j \in DOMAIN list[c] /\ q = <<c, j>>
    BY <1>0, InPlaces
  <2>3. CASE e = d /\ c = d
    <3>1. k \in Int /\ j \in Int /\ k - 1 = j - 1
      BY <1>0, <1>1, <1>7, <2>1, <2>2, <2>3
    <3> QED
      BY <1>0, <2>1, <2>2, <2>3, <3>1
  <2>4. CASE e # d /\ c # d
    BY <1>0, <1>7, <2>1, <2>2, <2>4
  <2>5. CASE (e = d) # (c = d)
    BY <1>0, <1>7, <2>1, <2>2, <2>5
  <2> QED
    BY <1>0, <2>3, <2>4, <2>5
<1>8. IsFiniteSet(P) /\ Cardinality(P) \in Nat
  BY <1>0, PlacesFinite
<1>9. <<d, 1>> \in P <=> Head(list[d]) \in what
  <2>1. 1 \in DOMAIN list[d]
    BY <1>0, <1>1
  <2> QED
    BY <1>0, <1>1, <2>1, InPlaces
<1>10. IsFiniteSet(R) /\ Cardinality(P) = Cardinality(R) + IF Head(list[d]) \in what THEN 1 ELSE 0
  <2> HIDE DEF P
  <2>1. IsFiniteSet(P \ {<<d, 1>>})
        /\ Cardinality(P \ {<<d, 1>>}) = IF <<d, 1>> \in P THEN Cardinality(P) - 1 ELSE Cardinality(P)
    BY <1>0, <1>8, FS_RemoveElement
  <2> QED
    BY <1>0, <1>8, <1>9, <2>1
<1> HIDE DEF R, P2, down
<1>11. g \in Bijection(R, P2)
  BY <1>0, <1>5, <1>6, <1>7 DEF Bijection, Injection, Surjection, IsInjective
<1>12. ExistsBijection(R, P2)
  BY <1>0, <1>11 DEF ExistsBijection
<1>13. Cardinality(P2) = Cardinality(R)
  BY <1>0, <1>10, <1>12, FS_Bijection
<1> QED
  BY <1>0, <1>10, <1>13 DEF P, P2

-----------------------------------------------------------------------------
LEMMA ThreadFinite == IsFiniteSet(Thread)
<1> DEFINE kinds == {"driver", "application"}
<1>1. IsFiniteSet({"driver"})
  BY FS_Singleton
<1>2. IsFiniteSet({"driver"} \cup {"application"})
  BY <1>1, FS_AddElement
<1>3. {"driver"} \cup {"application"} = kinds
  OBVIOUS
<1> HIDE DEF kinds
<1>4. IsFiniteSet(Driver \X kinds)
  BY <1>2, <1>3, ConfigConstants, FS_Product
<1> QED
  BY <1>4 DEF Thread, kinds

(* Where the transfers of a file are, and how many. *)
Queued(f)   == Cardinality(Places(httpList, Of(f)))
Finished(f) == Cardinality(Places(events, ResultsOf(f)))
Under(f)    == Cardinality(UnderWay(f))
Asked(f)    == Cardinality(Registering(f))
Known(f)    == downloading[f] + Asked(f) = early[f] + Queued(f) + Under(f) + Finished(f)

Counts(f) == /\ Queued(f) \in Nat /\ Finished(f) \in Nat /\ Under(f) \in Nat /\ Asked(f) \in Nat
             /\ downloading[f] \in Nat /\ early[f] \in Nat
Counted(f) == Counts(f) /\ Counts(f)'

LEMMA CountsNat == ASSUME TypeOK, NEW f \in File PROVE Counts(f)
<1>1. /\ httpList \in [Driver -> Seq(Transfer)] /\ events \in [Driver -> Seq(Event)]
      /\ downloading[f] \in Nat /\ early[f] \in Nat
  BY DEF TypeOK
<1>2. Queued(f) \in Nat /\ Finished(f) \in Nat
  BY <1>1, PlacesFinite DEF Queued, Finished
<1>4. IsFiniteSet(Driver \X Worker) /\ IsFiniteSet(Thread)
  BY ConfigConstants, ThreadFinite, FS_Product
<1>5. IsFiniteSet(UnderWay(f)) /\ IsFiniteSet(Registering(f))
  <2>1. UnderWay(f) \in SUBSET (Driver \X Worker) /\ Registering(f) \in SUBSET Thread
    BY DEF UnderWay, Registering
  <2> HIDE DEF UnderWay, Registering
  <2> QED
    BY <1>4, <2>1, FS_Subset
<1> QED
  BY <1>1, <1>2, <1>5, FS_CardinalityType DEF Counts, Under, Asked

LEMMA CountsNatNext == ASSUME TypeOK', NEW f \in File PROVE Counts(f)'
<1>1. /\ httpList' \in [Driver -> Seq(Transfer)] /\ events' \in [Driver -> Seq(Event)]
      /\ downloading'[f] \in Nat /\ early'[f] \in Nat
  BY DEF TypeOK
<1>2. Queued(f)' \in Nat /\ Finished(f)' \in Nat
  BY <1>1, PlacesFinite DEF Queued, Finished
<1>4. IsFiniteSet(Driver \X Worker) /\ IsFiniteSet(Thread)
  BY ConfigConstants, ThreadFinite, FS_Product
<1>5. IsFiniteSet(UnderWay(f)') /\ IsFiniteSet(Registering(f)')
  <2>1. UnderWay(f)' \in SUBSET (Driver \X Worker) /\ Registering(f)' \in SUBSET Thread
    BY DEF UnderWay, Registering
  <2> HIDE DEF UnderWay, Registering
  <2> QED
    BY <1>4, <2>1, FS_Subset
<1> QED
  BY <1>1, <1>2, <1>5, FS_CardinalityType DEF Counts, Under, Asked

(* The calls that are about to list a file. *)
Only(t) == \A u \in Thread : u # t => call'[u] = call[u]
Lists(t, f) == call[t].at = "Register" /\ call[t].transfer.file = f

LEMMA OnlyCall ==
    ASSUME CallsOK, NEW t \in Thread, NEW place, NEW transfer,
           Goes(t, place) \/ Begins(t, place, transfer)
    PROVE  /\ Only(t) /\ call'[t].at = place
           /\ Goes(t, place) => call'[t].transfer = call[t].transfer
<1>1. call \in [Thread -> CallRec] /\ call[t] \in CallRec
  BY DEF CallsOK
<1>2. CASE Goes(t, place)
  <2>1. call' = [call EXCEPT ![t] = [call[t] EXCEPT !.at = place]]
    BY <1>1, <1>2 DEF Goes
  <2>2. call'[t] = [call[t] EXCEPT !.at = place] /\ Only(t)
    BY <1>1, <2>1 DEF Only
  <2> QED
    BY <1>1, <2>2 DEF CallRec
<1>3. CASE Begins(t, place, transfer) /\ ~Goes(t, place)
  <2>1. call'[t] = [NoCall EXCEPT !.at = place, !.transfer = transfer] /\ Only(t)
    BY <1>1, <1>3 DEF Begins, Only
  <2> QED
    BY <1>3, <2>1 DEF NoCall
<1> QED
  BY <1>2, <1>3

LEMMA AskedStep ==
    ASSUME TypeOK, TypeOK', NEW t \in Thread, Only(t), NEW f \in File
    PROVE  Asked(f)' + (IF Lists(t, f) THEN 1 ELSE 0)
              = Asked(f) + (IF Lists(t, f)' THEN 1 ELSE 0)
<1> DEFINE A == Registering(f)
           B == Registering(f)'
<1>1. B = IF Lists(t, f)' THEN A \cup {t} ELSE A \ {t}
  BY DEF Registering, Only, Lists
<1>2. t \in A <=> Lists(t, f)
  BY DEF Registering, Lists
<1>3. IsFiniteSet(A) /\ Cardinality(A) \in Nat
  <2>3. IsFiniteSet(Thread)
    BY ThreadFinite
  <2>4. A \in SUBSET Thread
    BY DEF Registering
  <2> HIDE DEF A
  <2> QED
    BY <2>3, <2>4, FS_Subset, FS_CardinalityType
<1>4. Asked(f) = Cardinality(A) /\ Asked(f)' = Cardinality(B)
  BY DEF Asked
<1> HIDE DEF A, B, Lists
<1>5. CASE Lists(t, f)'
  <2>1. Cardinality(B) = IF t \in A THEN Cardinality(A) ELSE Cardinality(A) + 1
    BY <1>1, <1>3, <1>5, FS_AddElement
  <2> QED
    BY <1>2, <1>3, <1>4, <1>5, <2>1
<1>6. CASE ~Lists(t, f)'
  <2>1. Cardinality(B) = IF t \in A THEN Cardinality(A) - 1 ELSE Cardinality(A)
    BY <1>1, <1>3, <1>6, FS_RemoveElement
  <2> QED
    BY <1>2, <1>3, <1>4, <1>6, <2>1
<1> QED
  BY <1>5, <1>6

(* What a worker is busy with. *)
LEMMA UnderStep ==
    ASSUME TypeOK, NEW d \in Driver, NEW w \in Worker, NEW f \in File,
           \A e \in Driver, x \in Worker : e # d \/ x # w => worker'[e][x] = worker[e][x]
    PROVE  Under(f)' + (IF worker[d][w].transfer.file = f THEN 1 ELSE 0)
              = Under(f) + (IF worker'[d][w].transfer.file = f THEN 1 ELSE 0)
<1> DEFINE A == UnderWay(f)
           B == UnderWay(f)'
           p == <<d, w>>
           has == worker[d][w].transfer.file = f
           has2 == worker'[d][w].transfer.file = f
<1>1. ASSUME NEW q PROVE q \in B <=> IF q = p THEN has2 ELSE q \in A
  <2>1. CASE q \in Driver \X Worker
    <3>1. q # p => q[1] # d \/ q[2] # w
      BY <2>1
    <3>2. q # p => worker'[q[1]][q[2]] = worker[q[1]][q[2]]
      BY <2>1, <3>1
    <3> QED
      BY <2>1, <3>2 DEF UnderWay
  <2>2. CASE q \notin Driver \X Worker
    BY <2>2 DEF UnderWay
  <2> QED
    BY <2>1, <2>2
<1>2. p \in A <=> has
  BY DEF UnderWay
<1>3. IsFiniteSet(A) /\ Cardinality(A) \in Nat
  <2>1. IsFiniteSet(Driver \X Worker)
    BY ConfigConstants, FS_Product
  <2>2. A \in SUBSET (Driver \X Worker)
    BY DEF UnderWay
  <2> HIDE DEF A
  <2> QED
    BY <2>1, <2>2, FS_Subset, FS_CardinalityType
<1>4. Under(f) = Cardinality(A) /\ Under(f)' = Cardinality(B)
  BY DEF Under
<1> HIDE DEF A, B, p, has, has2
<1>5. CASE has2
  <2>1. B = A \cup {p}
    BY <1>1, <1>5
  <2>2. Cardinality(B) = IF p \in A THEN Cardinality(A) ELSE Cardinality(A) + 1
    BY <1>3, <2>1, FS_AddElement
  <2> QED
    BY <1>2, <1>3, <1>4, <1>5, <2>2 DEF has, has2
<1>6. CASE ~has2
  <2>1. B = A \ {p}
    BY <1>1, <1>6
  <2>2. Cardinality(B) = IF p \in A THEN Cardinality(A) - 1 ELSE Cardinality(A)
    BY <1>3, <2>1, FS_RemoveElement
  <2> QED
    BY <1>2, <1>3, <1>4, <1>6, <2>2 DEF has, has2
<1> QED
  BY <1>5, <1>6

LEMMA CountsBoth == ASSUME TypeOK, TypeOK', NEW f \in File PROVE Counted(f)
<1>1. Counts(f)
  BY CountsNat
<1>2. Counts(f)'
  BY CountsNatNext
<1> QED
  BY <1>1, <1>2 DEF Counted

(* What a step does not touch stays counted as it was. *)
LEMMA SameParts ==
    ASSUME NEW f \in File
    PROVE  /\ httpList' = httpList => Queued(f)' = Queued(f)
           /\ events' = events => Finished(f)' = Finished(f)
           /\ worker' = worker => Under(f)' = Under(f)
           /\ call' = call => Asked(f)' = Asked(f)
           /\ downloading' = downloading /\ early' = early =>
                 downloading'[f] = downloading[f] /\ early'[f] = early[f]
<1>1. httpList' = httpList => Queued(f)' = Queued(f)
  BY DEF Queued, Places, Of
<1>2. events' = events => Finished(f)' = Finished(f)
  BY DEF Finished, Places, ResultsOf, Of
<1>3. worker' = worker => Under(f)' = Under(f)
  <2>1. worker' = worker => UnderWay(f)' = UnderWay(f)
    BY DEF UnderWay
  <2> QED
    BY <2>1 DEF Under
<1>4. call' = call => Asked(f)' = Asked(f)
  <2>1. call' = call => Registering(f)' = Registering(f)
    BY DEF Registering
  <2> QED
    BY <2>1 DEF Asked
<1> QED
  BY <1>1, <1>2, <1>3, <1>4

LEMMA Unasked ==
    ASSUME TypeOK, TypeOK', NEW t \in Thread, Only(t), NEW f \in File,
           call[t].at # "Register", call'[t].at # "Register"
    PROVE  Asked(f)' = Asked(f)
<1>1. ~Lists(t, f) /\ ~Lists(t, f)'
  BY DEF Lists
<1>2. Counted(f)
  BY CountsBoth
<1> QED
  BY <1>1, <1>2, AskedStep DEF Counted, Counts

LEMMA UnderPlace ==
    ASSUME TypeOK, NEW f \in File,
           \A e \in Driver, x \in Worker : worker'[e][x].transfer = worker[e][x].transfer
    PROVE  Under(f)' = Under(f)
<1>1. UnderWay(f)' = UnderWay(f)
  BY DEF UnderWay
<1> QED
  BY <1>1 DEF Under

(* A list of a driver with an element more, or one less. *)
LEMMA OthersStay ==
    ASSUME NEW S, NEW list \in [Driver -> S], NEW d \in Driver, NEW s,
           NEW list2, list2 = [list EXCEPT ![d] = s]
    PROVE  list2[d] = s /\ Others(list, list2, d)
  BY DEF Others

LEMMA QueuedAppend ==
    ASSUME TypeOK, NEW d \in Driver, NEW x \in Transfer, NEW f \in File,
           httpList' = [httpList EXCEPT ![d] = Append(@, x)]
    PROVE  Queued(f)' = Queued(f) + IF x.file = f THEN 1 ELSE 0
<1>1. Grows(Transfer, httpList, httpList', d, x)
  <2>1. httpList \in [Driver -> Seq(Transfer)]
    BY DEF TypeOK
  <2> QED
    BY <2>1, OthersStay DEF Grows
<1>2. x \in Of(f) <=> x.file = f
  BY DEF Transfer, Of
<1>3. Cardinality(Places(httpList', Of(f))) =
         Cardinality(Places(httpList, Of(f))) + IF x \in Of(f) THEN 1 ELSE 0
  BY <1>1, PlacesAppend
<1>4. Queued(f)' = Cardinality(Places(httpList', Of(f)))
  BY DEF Queued, Places, Of
<1> QED
  BY <1>2, <1>3, <1>4 DEF Queued

LEMMA QueuedTail ==
    ASSUME TypeOK, NEW d \in Driver, httpList[d] # <<>>, NEW f \in File,
           httpList' = [httpList EXCEPT ![d] = Tail(@)]
    PROVE  Queued(f) = Queued(f)' + IF Head(httpList[d]).file = f THEN 1 ELSE 0
<1>0. httpList \in [Driver -> Seq(Transfer)]
  BY DEF TypeOK
<1>1. Shrinks(Transfer, httpList, httpList', d)
  BY <1>0, OthersStay DEF Shrinks
<1>2. Head(httpList[d]) \in Of(f) <=> Head(httpList[d]).file = f
  <2>1. Head(httpList[d]) \in Transfer
    BY <1>0
  <2> QED
    BY <2>1 DEF Transfer, Of
<1>3. Cardinality(Places(httpList, Of(f))) =
         Cardinality(Places(httpList', Of(f))) + IF Head(httpList[d]) \in Of(f) THEN 1 ELSE 0
  BY <1>1, PlacesTail
<1>4. Queued(f)' = Cardinality(Places(httpList', Of(f)))
  BY DEF Queued, Places, Of
<1> QED
  BY <1>2, <1>3, <1>4 DEF Queued

LEMMA FinishedAppend ==
    ASSUME TypeOK, NEW d \in Driver, NEW e \in Event, NEW f \in File, SubmitEventMsg(d, e)
    PROVE  Finished(f)' = Finished(f) + IF e \in ResultsOf(f) THEN 1 ELSE 0
<1>1. Grows(Event, events, events', d, e)
  <2>1. events \in [Driver -> Seq(Event)]
    BY DEF TypeOK
  <2> QED
    BY <2>1, OthersStay DEF Grows, SubmitEventMsg
<1>2. Cardinality(Places(events', ResultsOf(f))) =
         Cardinality(Places(events, ResultsOf(f))) + IF e \in ResultsOf(f) THEN 1 ELSE 0
  BY <1>1, PlacesAppend
<1>3. Finished(f)' = Cardinality(Places(events', ResultsOf(f)))
  BY DEF Finished, Places, ResultsOf, Of
<1> QED
  BY <1>2, <1>3 DEF Finished

LEMMA FinishedTail ==
    ASSUME TypeOK, NEW d \in Driver, events[d] # <<>>, NEW f \in File,
           events' = [events EXCEPT ![d] = Tail(@)]
    PROVE  Finished(f) = Finished(f)' + IF Head(events[d]) \in ResultsOf(f) THEN 1 ELSE 0
<1>1. Shrinks(Event, events, events', d)
  <2>1. events \in [Driver -> Seq(Event)]
    BY DEF TypeOK
  <2> QED
    BY <2>1, OthersStay DEF Shrinks
<1>2. Cardinality(Places(events, ResultsOf(f))) =
         Cardinality(Places(events', ResultsOf(f))) + IF Head(events[d]) \in ResultsOf(f) THEN 1 ELSE 0
  BY <1>1, PlacesTail
<1>3. Finished(f)' = Cardinality(Places(events', ResultsOf(f)))
  BY DEF Finished, Places, ResultsOf, Of
<1> QED
  BY <1>2, <1>3 DEF Finished

(* The results of a file are the Http events of its transfers. *)
LEMMA IsResult ==
    ASSUME NEW f \in File
    PROVE  /\ \A e \in Event : e.type = "DNS" => e \notin ResultsOf(f)
           /\ \A e \in Event : e.type = "Http" => (e \in ResultsOf(f) <=> e.transfer.file = f)
  BY DEF Event, ResultsOf, Of, Transfer

-----------------------------------------------------------------------------
(* The steps. *)
LEMMA DNSKnown ==
    ASSUME TypeOK, TypeOK', NEW d \in Driver, NEW f \in File, Known(f),
           CheckRevision(d) \/ DNSStep(d) \/ RemoveNode(d)
    PROVE  Known(f)'
<1>1. CASE CheckRevision(d) \/ TakeLookup(d) \/ RemoveNode(d)
  <2>1. /\ httpList' = httpList /\ worker' = worker /\ call' = call /\ events' = events
        /\ downloading' = downloading /\ early' = early
    BY <1>1 DEF CheckRevision, TakeLookup, RemoveNode, clients, database
  <2> QED
    BY <2>1, SameParts DEF Known
<1>2. CASE LookupTxT(d)
  <2>1. /\ httpList' = httpList /\ worker' = worker /\ call' = call
        /\ downloading' = downloading /\ early' = early
    BY <1>2 DEF LookupTxT, clients, database
  <2>2. PICK result \in {"Newer", "Current", "Error"} :
           SubmitEventMsg(d, [type |-> "DNS", lookup |-> dns[d], result |-> result])
    BY <1>2 DEF LookupTxT
  <2>3. [type |-> "DNS", lookup |-> dns[d], result |-> result] \in Event
    BY <1>2 DEF LookupTxT, Event, TypeOK
  <2>4. [type |-> "DNS", lookup |-> dns[d], result |-> result] \notin ResultsOf(f)
    BY <2>3, IsResult
  <2>5. Finished(f)' = Finished(f)
    BY <2>2, <2>3, <2>4, FinishedAppend, CountsNat DEF Counts
  <2> QED
    BY <2>1, <2>5, SameParts DEF Known
<1> QED
  BY <1>1, <1>2 DEF DNSStep

LEMMA WorkerKnown ==
    ASSUME TypeOK, TypeOK', NEW d \in Driver, NEW w \in Worker, NEW f \in File, Known(f),
           WorkerStep(d, w) \/ OpenFile(d, w) \/ WorkerTimesOut(d, w)
    PROVE  Known(f)'
<1>0. Counted(f)
  BY CountsBoth
<1>1. call' = call /\ downloading' = downloading /\ early' = early
  BY DEF WorkerStep, WorkerRuns, WorkerWakes, TakeTransfer, FinishDownload, WorkerLeaves,
         OpenFile, WorkerTimesOut, database
<1>2. worker \in [Driver -> [Worker -> WorkerRec]] /\ worker[d][w] \in WorkerRec
  BY DEF TypeOK
<1>3. CASE WorkerRuns(d, w) \/ WorkerWakes(d, w) \/ WorkerLeaves(d, w) \/ WorkerTimesOut(d, w)
  <2>1. httpList' = httpList /\ events' = events
    BY <1>3 DEF WorkerRuns, WorkerWakes, WorkerLeaves, WorkerTimesOut
  <2>2. PICK place \in {"None", "New", "Wait", "Woken", "Leaving"} :
           WorkerGoes(d, w, place) /\ worker[d][w].at # "Busy"
    BY <1>3 DEF WorkerRuns, WorkerWakes, WorkerLeaves, WorkerTimesOut, WorkerAt
  <2>3. Under(f)' = Under(f)
    BY <2>2, WorkerPlace, UnderPlace
  <2> QED
    BY <1>1, <2>1, <2>3, SameParts DEF Known
<1>4. CASE OpenFile(d, w)
  <2>1. httpList' = httpList /\ events' = events /\ worker' = worker
    BY <1>4 DEF OpenFile, clients
  <2> QED
    BY <1>1, <2>1, SameParts DEF Known
<1>5. CASE TakeTransfer(d, w)
  <2>0. events' = events
    BY <1>5 DEF TakeTransfer
  <2>1. CASE httpList[d] = <<>>
    <3>1. httpList' = httpList /\ worker' = worker
      BY <1>5, <2>1 DEF TakeTransfer
    <3> QED
      BY <1>1, <2>0, <3>1, SameParts DEF Known
  <2>2. CASE httpList[d] # <<>>
    <3> DEFINE x == Head(httpList[d])
               b == [at |-> "Busy", transfer |-> x]
    <3>1. httpList' = [httpList EXCEPT ![d] = Tail(@)] /\ worker' = [worker EXCEPT ![d][w] = b]
      BY <1>5, <2>2 DEF TakeTransfer
    <3>2. b \in WorkerRec
      <4>1. httpList[d] \in Seq(Transfer)
        BY DEF TypeOK
      <4>2. x \in Transfer
        BY <2>2, <4>1
      <4> QED
        BY <4>2 DEF WorkerRec
    <3>3. worker[d][w].transfer.file # f
      BY <1>2, <1>5, ConfigConstants DEF TakeTransfer, WorkerAt, WorkerRec, NoTransfer
    <3>4. b.transfer = x
      OBVIOUS
    <3> HIDE DEF b
    <3>5. /\ worker'[d][w] = b
          /\ \A e \in Driver, y \in Worker : e # d \/ y # w => worker'[e][y] = worker[e][y]
      BY <3>1, <3>2, WorkerBecomes
    <3>6. Under(f)' + (IF worker[d][w].transfer.file = f THEN 1 ELSE 0)
             = Under(f) + (IF worker'[d][w].transfer.file = f THEN 1 ELSE 0)
      BY <3>5, UnderStep
    <3>7. Queued(f) = Queued(f)' + IF x.file = f THEN 1 ELSE 0
      BY <2>2, <3>1, QueuedTail
    <3> HIDE DEF x
    <3> QED
      BY <1>0, <1>1, <2>0, <3>3, <3>4, <3>5, <3>6, <3>7, SameParts DEF Known, Counted, Counts
  <2> QED
    BY <2>1, <2>2
<1>6. CASE FinishDownload(d, w)
  <2> DEFINE x == worker[d][w].transfer
             b == [at |-> "Wait", transfer |-> NoTransfer]
  <2>1. httpList' = httpList /\ worker' = [worker EXCEPT ![d][w] = b]
    BY <1>6 DEF FinishDownload
  <2>2. b \in WorkerRec /\ b.transfer.file # f
    BY ConfigConstants DEF WorkerRec, NoTransfer
  <2>3. x \in Transfer
    BY <1>2, <1>6 DEF FinishDownload, WorkerAt, WorkerRec
  <2>4. PICK ok \in BOOLEAN : SubmitEventMsg(d, [type |-> "Http", transfer |-> x, ok |-> ok])
    BY <1>6 DEF FinishDownload
  <2>5. [type |-> "Http", transfer |-> x, ok |-> ok] \in Event
    BY <2>3 DEF Event
  <2>6. [type |-> "Http", transfer |-> x, ok |-> ok] \in ResultsOf(f) <=> x.file = f
    BY <2>5, IsResult
  <2>7. Finished(f)' = Finished(f) + IF x.file = f THEN 1 ELSE 0
    BY <2>4, <2>5, <2>6, FinishedAppend
  <2> HIDE DEF b
  <2>8. /\ worker'[d][w] = b
        /\ \A e \in Driver, y \in Worker : e # d \/ y # w => worker'[e][y] = worker[e][y]
    BY <2>1, <2>2, WorkerBecomes
  <2>9. Under(f)' + (IF worker[d][w].transfer.file = f THEN 1 ELSE 0)
           = Under(f) + (IF worker'[d][w].transfer.file = f THEN 1 ELSE 0)
    BY <2>8, UnderStep
  <2> QED
    BY <1>0, <1>1, <2>1, <2>2, <2>7, <2>8, <2>9, SameParts DEF Known, Counted, Counts
<1> QED
  BY <1>3, <1>4, <1>5, <1>6 DEF WorkerStep

(* A step of a call that neither leads to m_downloading nor away from it. *)
LEMMA CallKnown ==
    ASSUME TypeOK, TypeOK', NEW t \in Thread, Only(t), NEW f \in File, Known(f),
           call[t].at # "Register", call'[t].at # "Register",
           UNCHANGED <<httpList, events, downloading, early>>, Under(f)' = Under(f)
    PROVE  Known(f)'
<1>1. Asked(f)' = Asked(f)
  BY Unasked
<1> QED
  BY <1>1, SameParts DEF Known

LEMMA DriverKnown ==
    ASSUME TypeOK, TypeOK', NEW d \in Driver, NEW f \in File, Known(f),
           \/ RefreshNodeConfig(d) \/ EnterConfigFiles(d) \/ LookAtProduct(d)
           \/ AllLookedAt(d) \/ TestReady(d) \/ DownloadRevision(d)
    PROVE  Known(f)'
<1>1. /\ CallsOK /\ Own(d) \in Thread /\ Application(d) \in Thread
      /\ call[Own(d)] \in CallRec
  BY TypeParts, Threads DEF CallsOK
<1>2. UNCHANGED <<httpList, worker, events, downloading, early>>
  BY DEF RefreshNodeConfig, EnterConfigFiles, LookAtProduct, AllLookedAt, TestReady,
         DownloadRevision, clients, database
<1>3. Under(f)' = Under(f)
  BY <1>2, SameParts
<1>4. CASE RefreshNodeConfig(d) \/ AllLookedAt(d)
  <2>1. PICK place \in {"Ready", "Check"} : Goes(Own(d), place)
    BY <1>4 DEF RefreshNodeConfig, AllLookedAt
  <2>2. call[Own(d)].at # "Register"
    BY <1>4 DEF RefreshNodeConfig, AllLookedAt, At
  <2> QED
    BY <1>1, <1>2, <1>3, <2>1, <2>2, OnlyCall, CallKnown
<1>5. CASE EnterConfigFiles(d) \/ LookAtProduct(d) \/ TestReady(d)
  <2>1. Only(Own(d)) /\ call[Own(d)].at # "Register"
    BY <1>1, <1>5 DEF EnterConfigFiles, LookAtProduct, TestReady, At, CallsOK, Only
  <2>2. call'[Own(d)].at # "Register"
    BY <1>1, <1>5 DEF EnterConfigFiles, LookAtProduct, TestReady, CallsOK, CallRec, NoCall
  <2> QED
    BY <1>1, <1>2, <1>3, <2>1, <2>2, CallKnown
<1>6. CASE DownloadRevision(d)
  <2>1. PICK transfer : Begins(Application(d), "Start", transfer)
    BY <1>6 DEF DownloadRevision
  <2>2. call[Application(d)].at # "Register"
    BY <1>6 DEF DownloadRevision, At
  <2> QED
    BY <1>1, <1>2, <1>3, <2>1, <2>2, OnlyCall, CallKnown
<1> QED
  BY <1>4, <1>5, <1>6

LEMMA EventKnown ==
    ASSUME TypeOK, TypeOK', NEW d \in Driver, NEW f \in File, Known(f), ProcessEventMsg(d)
    PROVE  Known(f)'
<1> DEFINE e == Head(events[d])
<1>0. Counted(f)
  BY CountsBoth
<1>1. /\ events[d] # <<>> /\ events' = [events EXCEPT ![d] = Tail(@)]
      /\ httpList' = httpList /\ worker' = worker /\ call[Own(d)].at = "Idle"
      /\ (ProcessConfigRevision(d, e) \/ ProcessDownload(d, e))
  BY DEF ProcessEventMsg, clients, At
<1>2. e \in Event /\ CallsOK /\ Own(d) \in Thread
  BY <1>1, EventTypes, TypeParts, Threads
<1>3. Finished(f) = Finished(f)' + IF e \in ResultsOf(f) THEN 1 ELSE 0
  BY <1>1, FinishedTail
<1>4. Queued(f)' = Queued(f) /\ Under(f)' = Under(f)
  BY <1>1, SameParts
<1>5. CASE ProcessConfigRevision(d, e)
  <2>1. downloading' = downloading /\ early' = early /\ e.type = "DNS"
    BY <1>5 DEF ProcessConfigRevision
  <2>2. e \notin ResultsOf(f)
    BY <1>2, <2>1, IsResult
  <2>3. PICK place, transfer : /\ place # "Register"
                               /\ Goes(Own(d), place) \/ Begins(Own(d), place, transfer)
    <3>1. CASE MfsRevision(d, e)
      <4>1. PICK place \in {"Enter", "Start", "Check"} :
               Begins(Own(d), place, [file |-> Mfs, node |-> Null])
        BY <3>1 DEF MfsRevision
      <4> QED
        BY <4>1
    <3>2. CASE NodeRevision(d, e)
      <4>1. \/ Goes(Own(d), "Ready")
            \/ Begins(Own(d), "Start", [file |-> ConfigOf[e.lookup], node |-> e.lookup])
        BY <3>2 DEF NodeRevision
      <4> QED
        BY <4>1
    <3>3. CASE Goes(Own(d), "Check")
      BY <3>3
    <3> QED
      BY <1>5, <3>1, <3>2, <3>3 DEF ProcessConfigRevision
  <2>4. Only(Own(d)) /\ call'[Own(d)].at # "Register"
    BY <1>2, <2>3, OnlyCall
  <2>5. Asked(f)' = Asked(f)
    BY <1>1, <1>2, <2>4, Unasked
  <2>6. Finished(f)' = Finished(f)
    BY <1>0, <1>3, <2>2 DEF Counted, Counts
  <2> QED
    BY <1>4, <2>1, <2>5, <2>6 DEF Known
<1>6. CASE ProcessDownload(d, e)
  <2>1. e.type = "Http" /\ TakenOff(e)
    BY <1>6 DEF ProcessDownload
  <2>2. e \in ResultsOf(f) <=> e.transfer.file = f
    BY <1>2, <2>1, IsResult
  <2>3. e.transfer.file \in File
    BY <1>1, <2>1, EventTypes DEF Transfer
  <2>4. PICK place, transfer : place # "Register" /\ Begins(Own(d), place, transfer)
    <3>1. AfterDownload(e) # "Register"
      BY DEF AfterDownload
    <3> QED
      BY <1>6, <3>1 DEF ProcessDownload
  <2>5. Only(Own(d)) /\ call'[Own(d)].at # "Register"
    BY <1>2, <2>4, OnlyCall
  <2>6. Asked(f)' = Asked(f)
    BY <1>1, <1>2, <2>5, Unasked
  <2>7. downloading \in [File -> Nat] /\ early \in [File -> Nat]
    BY DEF TypeOK
  <2>8. CASE e.transfer.file # f
    <3>1. downloading'[f] = downloading[f] /\ early'[f] = early[f]
      BY <2>1, <2>7, <2>8 DEF TakenOff
    <3>2. Finished(f)' = Finished(f)
      BY <1>0, <1>3, <2>2, <2>8 DEF Counted, Counts
    <3> QED
      BY <1>4, <2>6, <3>1, <3>2 DEF Known
  <2>9. CASE e.transfer.file = f
    <3>1. \/ downloading'[f] = downloading[f] - 1 /\ early'[f] = early[f]
          \/ downloading'[f] = downloading[f] /\ early'[f] = early[f] + 1
      BY <2>1, <2>3, <2>7, <2>9 DEF TakenOff
    <3>2. Finished(f) = Finished(f)' + 1
      BY <1>3, <2>2, <2>9
    <3>3. downloading[f] + Asked(f) = early[f] + Queued(f) + Under(f) + Finished(f)
      BY DEF Known
    <3>4. downloading'[f] + Asked(f) = early'[f] + Queued(f) + Under(f) + Finished(f)'
      <4>1. /\ downloading[f] \in Nat /\ Asked(f) \in Nat /\ early[f] \in Nat
            /\ Queued(f) \in Nat /\ Under(f) \in Nat /\ Finished(f)' \in Nat
        BY <1>0 DEF Counted, Counts
      <4>2. /\ (downloading[f] - 1) + Asked(f) = early[f] + Queued(f) + Under(f) + Finished(f)'
            /\ downloading[f] + Asked(f)
                  = (early[f] + 1) + Queued(f) + Under(f) + Finished(f)'
        BY <3>2, <3>3, <4>1
      <4> QED
        BY <3>1, <4>2
    <3> QED
      BY <1>4, <2>6, <3>4 DEF Known
  <2> QED
    BY <2>8, <2>9
<1> QED
  BY <1>1, <1>5, <1>6

(* StartDownload puts a transfer on the list before updateConfigFile lists its file. *)
LEMMA DownloadKnown ==
    ASSUME TypeOK, TypeOK', NEW t \in Thread, NEW f \in File, Known(f), DownloadStep(t)
    PROVE  Known(f)'
<1>0. Counted(f)
  BY CountsBoth
<1>1. t[1] \in Driver /\ CallsOK /\ call[t] \in CallRec
  BY TypeParts DEF Thread, CallsOK
<1>2. Back(t) # "Register"
  BY DEF Back
<1>3. call[t].at \in {"Start", "Queue", "Register"} =>
         call[t].transfer \in Transfer /\ call[t].transfer.file \in File
  BY <1>1 DEF CallsOK, CallOK, Transfer
<1>4. CASE StartThread(t)
  <2>1. UNCHANGED <<httpList, events, downloading, early>> /\ call[t].at = "Start"
        /\ Goes(t, "Queue")
    BY <1>4 DEF StartThread, At, database
  <2>2. Under(f)' = Under(f)
    <3>1. CASE UNCHANGED worker
      BY <3>1, SameParts
    <3>2. CASE ~UNCHANGED worker
      <4>1. PICK w \in Worker : worker[t[1]][w].at = "None" /\ WorkerGoes(t[1], w, "New")
        BY <1>4, <3>2 DEF StartThread
      <4> QED
        BY <1>1, <4>1, WorkerPlace, UnderPlace
    <3> QED
      BY <3>1, <3>2
  <2>3. Only(t) /\ call'[t].at = "Queue"
    BY <1>1, <2>1, OnlyCall
  <2> QED
    BY <2>1, <2>2, <2>3, CallKnown
<1>5. CASE TransferFails(t) \/ CheckInitialized(t)
  <2>1. UNCHANGED <<httpList, events, downloading, early>> /\ worker' = worker
        /\ call[t].at # "Register"
    BY <1>5 DEF TransferFails, CheckInitialized, At, clients, database
  <2>2. Only(t) /\ call'[t].at # "Register"
    <3>1. CASE TransferFails(t)
      BY <1>1, <1>2, <3>1, OnlyCall DEF TransferFails
    <3>2. CASE CheckInitialized(t)
      BY <1>1, <3>2 DEF CheckInitialized, CallsOK, Only, NoCall
    <3> QED
      BY <1>5, <3>1, <3>2
  <2> QED
    BY <2>1, <2>2, SameParts, CallKnown
<1>6. CASE QueueTransfer(t)
  <2> DEFINE x == call[t].transfer
  <2>1. /\ call[t].at = "Queue" /\ Goes(t, "Register")
        /\ httpList' = [httpList EXCEPT ![t[1]] = Append(@, x)]
        /\ worker' = worker /\ events' = events /\ downloading' = downloading /\ early' = early
    BY <1>6 DEF QueueTransfer, At, database
  <2>2. Only(t) /\ call'[t].at = "Register" /\ call'[t].transfer = x
    BY <1>1, <2>1, OnlyCall
  <2>3. x \in Transfer
    BY <1>3, <2>1
  <2>4. ~Lists(t, f) /\ (Lists(t, f)' <=> x.file = f)
    BY <2>1, <2>2 DEF Lists
  <2> HIDE DEF x
  <2>5. Queued(f)' = Queued(f) + IF x.file = f THEN 1 ELSE 0
    BY <1>1, <2>1, <2>3, QueuedAppend
  <2>6. Asked(f)' + (IF Lists(t, f) THEN 1 ELSE 0)
           = Asked(f) + (IF Lists(t, f)' THEN 1 ELSE 0)
    BY <2>2, AskedStep
  <2>7. Asked(f)' = Asked(f) + IF x.file = f THEN 1 ELSE 0
    BY <1>0, <2>4, <2>6 DEF Counted, Counts
  <2>8. Under(f)' = Under(f) /\ Finished(f)' = Finished(f)
    BY <2>1, SameParts
  <2>9. downloading[f] + Asked(f)' = early[f] + Queued(f)' + Under(f) + Finished(f)
    BY <1>0, <2>5, <2>7 DEF Known, Counted, Counts
  <2> QED
    BY <2>1, <2>8, <2>9 DEF Known
<1>7. CASE Register(t)
  <2> DEFINE x == call[t].transfer
  <2>1. /\ call[t].at = "Register" /\ Goes(t, Back(t))
        /\ httpList' = httpList /\ worker' = worker /\ events' = events /\ early' = early
        /\ downloading' = [downloading EXCEPT ![x.file] = @ + 1]
    BY <1>7 DEF Register, At, clients
  <2>2. Only(t) /\ call'[t].at # "Register"
    BY <1>1, <1>2, <2>1, OnlyCall
  <2>3. (Lists(t, f) <=> x.file = f) /\ ~Lists(t, f)'
    BY <2>1, <2>2 DEF Lists
  <2>4. Asked(f)' + (IF Lists(t, f) THEN 1 ELSE 0)
           = Asked(f) + (IF Lists(t, f)' THEN 1 ELSE 0)
    BY <2>2, AskedStep
  <2>5. Asked(f)' + (IF x.file = f THEN 1 ELSE 0) = Asked(f)
    BY <1>0, <2>3, <2>4 DEF Counted, Counts
  <2>6. downloading'[f] = downloading[f] + IF x.file = f THEN 1 ELSE 0
    <3>1. downloading \in [File -> Nat]
      BY DEF TypeOK
    <3> QED
      BY <1>3, <2>1, <3>1
  <2>7. Queued(f)' = Queued(f) /\ Under(f)' = Under(f) /\ Finished(f)' = Finished(f)
    BY <2>1, SameParts
  <2> HIDE DEF x
  <2> QED
    BY <1>0, <2>1, <2>5, <2>6, <2>7 DEF Known, Counted, Counts
<1> QED
  BY <1>4, <1>5, <1>6, <1>7 DEF DownloadStep

LEMMA KnownDownloads == DownloadsKnown <=> \A f \in File : Known(f)
  BY DEF DownloadsKnown, Known, Queued, Under, Finished, Asked

LEMMA KnownDownloadsNext == DownloadsKnown' <=> \A f \in File : Known(f)'
  BY DEF DownloadsKnown, Known, Queued, Under, Finished, Asked

LEMMA InitKnown == Init => DownloadsKnown
<1> SUFFICES ASSUME Init, NEW f \in File PROVE Known(f)
  BY KnownDownloads
<1>1. Places(httpList, Of(f)) = {} /\ Places(events, ResultsOf(f)) = {}
  <2>1. \A d \in Driver : DOMAIN httpList[d] = {} /\ DOMAIN events[d] = {}
    BY DEF Init
  <2> QED
    BY <2>1, InPlaces
<1>2. UnderWay(f) = {}
  <2>1. \A d \in Driver, w \in Worker : worker[d][w].transfer.file # f
    BY ConfigConstants DEF Init, NoTransfer
  <2> QED
    BY <2>1 DEF UnderWay
<1>3. Registering(f) = {}
  BY DEF Init, Registering, NoCall
<1>4. downloading[f] = 0 /\ early[f] = 0
  BY DEF Init
<1> QED
  BY <1>1, <1>2, <1>3, <1>4, FS_EmptySet DEF Known, Queued, Under, Finished, Asked

LEMMA NextKnown == TypeOK /\ DownloadsKnown /\ [Next]_vars => DownloadsKnown'
<1> SUFFICES ASSUME TypeOK, DownloadsKnown, [Next]_vars, NEW f \in File PROVE Known(f)'
  BY KnownDownloadsNext
<1>1. TypeOK' /\ Known(f)
  BY NextType, KnownDownloads
<1>2. ASSUME UNCHANGED vars PROVE Known(f)'
  BY <1>1, <1>2, SameParts DEF vars, clients, database, Known
<1>3. ASSUME Next PROVE Known(f)'
  <2>1. PICK d \in Driver :
           \/ DNSStep(d) \/ DriverStep(d) \/ DownloadStep(Application(d))
           \/ CheckRevision(d) \/ DownloadRevision(d) \/ RemoveNode(d)
           \/ \E w \in Worker : WorkerStep(d, w) \/ OpenFile(d, w) \/ WorkerTimesOut(d, w)
    BY <1>3 DEF Next
  <2>2. ASSUME DNSStep(d) \/ CheckRevision(d) \/ RemoveNode(d) PROVE Known(f)'
    BY <1>1, <2>2, DNSKnown
  <2>3. ASSUME DriverStep(d) PROVE Known(f)'
    BY <1>1, <2>3, EventKnown, DriverKnown, DownloadKnown, Threads DEF DriverStep
  <2>4. ASSUME DownloadStep(Application(d)) PROVE Known(f)'
    BY <1>1, <2>4, DownloadKnown, Threads
  <2>5. ASSUME DownloadRevision(d) PROVE Known(f)'
    BY <1>1, <2>5, DriverKnown
  <2>6. ASSUME NEW w \in Worker, WorkerStep(d, w) \/ OpenFile(d, w) \/ WorkerTimesOut(d, w)
        PROVE  Known(f)'
    BY <1>1, <2>6, WorkerKnown
  <2> QED
    BY <2>1, <2>2, <2>3, <2>4, <2>5, <2>6
<1> QED
  BY <1>2, <1>3

(* m_downloading lists every file as often as a transfer of it is queued, under way or *)
(* finished but not processed, whoever asked and in whatever order the threads run;    *)
(* beyond that it has only the files whose result came before they were listed.        *)
THEOREM DownloadsCorrect == Spec => []DownloadsKnown
<1>1. Init => TypeOK /\ DownloadsKnown
  BY InitType, InitKnown
<1>2. TypeOK /\ DownloadsKnown /\ [Next]_vars => TypeOK' /\ DownloadsKnown'
  BY NextType, NextKnown
<1> QED
  BY <1>1, <1>2, PTL DEF Spec
=============================================================================
