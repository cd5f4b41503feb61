----------------------------- MODULE ConfigLookup -----------------------------
(***************************************************************************)
(* How the device database is kept up to date (src/cpp/src/DNSThread.cpp,  *)
(* Http.cpp, ManufacturerSpecificDB.cpp, Driver.cpp). A driver asks its    *)
(* DNS thread for the newest revision of the database or of the            *)
(* configuration file of a node; the answer is an event of the driver      *)
(* thread, which may start downloads, by a worker thread that is started   *)
(* on demand and exits after ten seconds without work; a finished transfer *)
(* is another event. The database, one for all drivers, remembers the      *)
(* files that are being downloaded, and a driver does nothing else until   *)
(* it has found the database ready once.                                   *)
(*                                                                         *)
(* Revisions are what a lookup says of them, "Newer" or "Current". The     *)
(* signals m_dnsRequestEvent, m_httpDownloadEvent and m_queueMsgEvent are  *)
(* set and reset under the mutex of their list, exactly while it is not    *)
(* empty, and are not modelled apart. m_downloading has no lock; its       *)
(* operations are single steps, and the order of its entries, which nobody *)
(* looks at, is left out. The removal of a driver is not modelled.         *)
(*                                                                         *)
(* To take the front of an empty list, or to use a node that is gone, is   *)
(* undefined: the model ends there (fault).                                *)
(*                                                                         *)
(* A definition marked "mutant" is the variant with a plausible bug of the *)
(* definition that follows it; nothing uses it but the mutation runs.      *)
(***************************************************************************)
EXTENDS Integers, Sequences, FiniteSets

CONSTANTS
    Driver,
    Worker,         \* HTTP threads of a driver: more than it ever runs at a time
    Node,           \* nodes of each driver
    Config,         \* configuration files
    Mfs,            \* manufacturer_specific.xml
    Products,       \* the file each product of the database names, in its order
    ConfigOf,       \* Node -> Config
    Picture,        \* Config -> the image the file names, or Null
    Unwritable,     \* files that may turn out not to be writable
    Setups,         \* what a behaviour may start with, see Setup
    Null

Image == {Picture[c] : c \in Config} \ {Null}
File == {Mfs} \cup Config \cup Image

(***************************************************************************)
(* AutoUpdateConfigFile and ReloadAfterUpdate, the drivers the application *)
(* adds, the files that are installed, and the bound on what it asks for:  *)
(* lookups after the first one, and downloads.                             *)
(***************************************************************************)
Setup == [update : BOOLEAN, reload : {"NEVER", "IMMEDIATE", "AWAKE"},
          drivers : SUBSET Driver, installed : SUBSET File, requests : Nat]

ASSUME ConfigConstants ==
    /\ IsFiniteSet(Driver) /\ IsFiniteSet(Worker)
    /\ Null \notin File \cup Node /\ Mfs \notin Config \cup Image \cup Node
    /\ Products \in Seq(Config) /\ ConfigOf \in [Node -> Config]
    /\ DOMAIN Picture = Config /\ Image \cap Config = {}
    /\ Unwritable \subseteq File /\ Setups \subseteq Setup

VARIABLES
    setup,          \* how this behaviour started: it never changes
    dnsList, dns,   \* of each driver: m_dnslist, and the lookup its DNS thread is at
    httpList,       \* m_httpDownlist of each driver
    running,        \* m_httpThreadRunning
    worker,         \* of each driver and thread: where it is, and its transfer
    events,         \* m_eventQueueMsg of each driver
    call,           \* the calls into the database: of the driver thread, of an application
    downloading,    \* m_downloading: how often it holds each file
    initializing,   \* m_initializing
    ready,          \* mfsisReady of each driver
    nodes,          \* of each driver: the nodes that exist
    outdated,       \* what was announced to be newer than what there is
    disk,           \* files that exist
    fault,          \* the program left the behaviour C++ defines
    early,          \* for the properties: results that came before their file was listed
    held,           \* for the properties: drivers that found files of another one pending
    requested       \* counter for the bound

lookups == <<dnsList, dns>>
clients == <<httpList, running, worker>>
database == <<downloading, initializing, early>>
network == <<nodes, outdated>>
vars == <<setup, lookups, clients, events, call, database, ready, network, disk, fault,
          held, requested>>

Transfer == [file : File, node : Node \cup {Null}]
NoTransfer == [file |-> Null, node |-> Null]
Thread == Driver \X {"driver", "application"}
Own(d) == <<d, "driver">>
Application(d) == <<d, "application">>

NoCall == [at |-> "Idle", products |-> <<>>, scans |-> FALSE, transfer |-> NoTransfer]
At(t, place) == call[t].at = place /\ fault = "None"
Goes(t, place) == call' = [call EXCEPT ![t].at = place]
Begins(t, place, transfer) ==
    call' = [call EXCEPT ![t] = [NoCall EXCEPT !.at = place, !.transfer = transfer]]

\* m_nodeMutex is held from the search for the node until updateConfigFile returns.
NodeMutexFree(d) ==
    \A t \in {Own(d), Application(d)} :
        call[t].transfer.node = Null \/ call[t].at \in {"Idle", "Refresh", "Ready"}

\* m_MfsMutex, which checkConfigFiles holds to its end.
MfsMutexFree == \A t \in Thread : ~call[t].scans

(***************************************************************************)
(* The DNS thread: Driver::CheckMFSConfigRevision, CheckNodeConfigRevision *)
(* and DNSThread::processResult.                                           *)
(***************************************************************************)
CheckRevision(d) ==
    /\ fault = "None" /\ requested < setup.requests /\ ready[d]
    /\ \E what \in nodes[d] \cup {Mfs} :
          /\ what = Mfs \/ NodeMutexFree(d)
          /\ dnsList' = [dnsList EXCEPT ![d] = Append(@, what)]
    /\ requested' = requested + 1
    /\ UNCHANGED <<setup, dns, clients, events, call, database, ready, network, disk,
                   fault, held>>

TakeLookup(d) ==
    /\ fault = "None" /\ dns[d] = Null /\ dnsList[d] # <<>>
    /\ dns' = [dns EXCEPT ![d] = Head(dnsList[d])]
    /\ dnsList' = [dnsList EXCEPT ![d] = Tail(@)]
    /\ UNCHANGED <<setup, clients, events, call, database, ready, network, disk, fault,
                   held, requested>>

SubmitEventMsg(d, event) == events' = [events EXCEPT ![d] = Append(@, event)]

LookupTxT(d) ==
    /\ fault = "None" /\ dns[d] # Null
    /\ \E result \in {"Newer", "Current", "Error"} :
          SubmitEventMsg(d, [type |-> "DNS", lookup |-> dns[d], result |-> result])
    /\ dns' = [dns EXCEPT ![d] = Null]
    /\ UNCHANGED <<setup, dnsList, clients, call, database, ready, network, disk, fault,
                   held, requested>>

(***************************************************************************)
(* The HTTP thread: HttpClient::HttpThreadProc.                            *)
(***************************************************************************)
WorkerAt(d, w, place) == worker[d][w].at = place /\ fault = "None"
WorkerGoes(d, w, place) == worker' = [worker EXCEPT ![d][w].at = place]

WorkerRuns(d, w) ==
    /\ WorkerAt(d, w, "New")
    /\ running' = [running EXCEPT ![d] = TRUE]
    /\ WorkerGoes(d, w, "Wait")
    /\ UNCHANGED <<setup, lookups, httpList, events, call, database, ready, network,
                   disk, fault, held, requested>>

WorkerWakes(d, w) ==
    /\ WorkerAt(d, w, "Wait") /\ httpList[d] # <<>>
    /\ WorkerGoes(d, w, "Woken")
    /\ UNCHANGED <<setup, lookups, httpList, running, events, call, database, ready,
                   network, disk, fault, held, requested>>

TakeTransfer(d, w) ==
    /\ WorkerAt(d, w, "Woken")
    /\ IF httpList[d] = <<>>
       THEN fault' = "EmptyList" /\ UNCHANGED <<worker, httpList>>
       ELSE /\ worker' = [worker EXCEPT ![d][w] =
                             [at |-> "Busy", transfer |-> Head(httpList[d])]]
            /\ httpList' = [httpList EXCEPT ![d] = Tail(@)]
            /\ UNCHANGED fault
    /\ UNCHANGED <<setup, lookups, running, events, call, database, ready, network, disk,
                   held, requested>>

\* The file is made when its first bytes arrive; a part of it counts as the file.
OpenFile(d, w) ==
    /\ WorkerAt(d, w, "Busy")
    /\ disk' = disk \cup {worker[d][w].transfer.file}
    /\ UNCHANGED <<setup, lookups, clients, events, call, database, ready, network, fault,
                   held, requested>>

FinishDownload(d, w) ==
    /\ WorkerAt(d, w, "Busy")
    /\ LET transfer == worker[d][w].transfer IN
       \E ok \in BOOLEAN :
          /\ ok => transfer.file \in disk
          /\ SubmitEventMsg(d, [type |-> "Http", transfer |-> transfer, ok |-> ok])
    /\ worker' = [worker EXCEPT ![d][w] = [at |-> "Wait", transfer |-> NoTransfer]]
    /\ UNCHANGED <<setup, lookups, httpList, running, call, database, ready, network, disk,
                   fault, held, requested>>

\* Ten seconds without work.
WorkerTimesOut(d, w) ==
    /\ WorkerAt(d, w, "Wait") /\ httpList[d] = <<>>
    /\ WorkerGoes(d, w, "Leaving")
    /\ UNCHANGED <<setup, lookups, httpList, running, events, call, database, ready,
                   network, disk, fault, held, requested>>

WorkerLeaves(d, w) ==
    /\ WorkerAt(d, w, "Leaving")
    /\ running' = [running EXCEPT ![d] = FALSE]
    /\ WorkerGoes(d, w, "None")
    /\ UNCHANGED <<setup, lookups, httpList, events, call, database, ready, network,
                   disk, fault, held, requested>>

(***************************************************************************)
(* Driver::ProcessEventMsg.                                                *)
(***************************************************************************)
Announced(d, what, newer) ==
    LET item == IF what = Mfs THEN Mfs ELSE <<d, what>>
    IN outdated' = IF newer THEN outdated \cup {item} ELSE outdated \ {item}

\* processConfigRevision of the database: out of date, or a look at all its files.
MfsRevision(d, e) ==
    /\ e.lookup = Mfs /\ e.result # "Error"
    /\ Announced(d, Mfs, e.result = "Newer")
    /\ Begins(Own(d), CASE e.result = "Current" -> "Enter"
                        [] setup.update -> "Start"
                        [] OTHER -> "Check",
              [file |-> Mfs, node |-> Null])

\* processConfigRevision of a node, unless it disappeared.
NodeRevision(d, e) ==
    /\ e.lookup # Mfs /\ e.result # "Error" /\ NodeMutexFree(d)
    /\ IF e.lookup \notin nodes[d]
       THEN Goes(Own(d), "Ready") /\ UNCHANGED outdated
       ELSE /\ Announced(d, e.lookup, e.result = "Newer")
            /\ IF e.result = "Newer" /\ setup.update
               THEN Begins(Own(d), "Start",
                           [file |-> ConfigOf[e.lookup], node |-> e.lookup])
               ELSE Goes(Own(d), "Ready")

ProcessConfigRevision(d, e) ==
    /\ e.type = "DNS"
    /\ \/ MfsRevision(d, e)
       \/ NodeRevision(d, e)
       \/ e.result = "Error" /\ Goes(Own(d), "Check") /\ UNCHANGED outdated
    /\ UNCHANGED <<downloading, early>>

\* mutant: only a transfer that succeeded is taken off the list
TakenOffWhenOk(e) ==
    LET file == e.transfer.file  found == downloading[file] > 0
    IN /\ downloading' = [downloading EXCEPT ![file] = IF found /\ e.ok THEN @ - 1 ELSE @]
       /\ early' = [early EXCEPT ![file] = IF found THEN @ ELSE @ + 1]
\* mutant: the entry is erased without a test that there is one
ErasedUnseen(e) ==
    LET file == e.transfer.file
    IN downloading' = [downloading EXCEPT ![file] = @ - 1] /\ UNCHANGED early
TakenOff(e) ==
    LET file == e.transfer.file  found == downloading[file] > 0
    IN /\ downloading' = [downloading EXCEPT ![file] = IF found THEN @ - 1 ELSE @]
       /\ early' = [early EXCEPT ![file] = IF found THEN @ ELSE @ + 1]

\* mutant: a transfer that failed does not end the initialization
AfterSuccessOnly(e) ==
    CASE ~e.ok -> "Ready"
      [] e.transfer.file = Mfs -> "Enter"
      [] e.transfer.node # Null -> "Refresh"
      [] OTHER -> "Check"
\* What follows: a look at all files, the node's new configuration, or checkInitialized.
AfterDownload(e) ==
    CASE ~e.ok \/ downloading[e.transfer.file] = 0 -> "Check"
      [] e.transfer.file = Mfs -> "Enter"
      [] e.transfer.node # Null -> "Refresh"
      [] OTHER -> "Check"

\* processDownload: configDownloaded, mfsConfigDownloaded and fileDownloaded.
ProcessDownload(d, e) ==
    /\ e.type = "Http"
    /\ TakenOff(e)
    /\ Begins(Own(d), AfterDownload(e),
              IF AfterDownload(e) = "Refresh" THEN e.transfer ELSE NoTransfer)
    /\ outdated' = IF AfterDownload(e) = "Enter" THEN outdated \ {Mfs} ELSE outdated

ProcessEventMsg(d) ==
    /\ At(Own(d), "Idle") /\ events[d] # <<>>
    /\ LET e == Head(events[d])
       IN ProcessConfigRevision(d, e) \/ ProcessDownload(d, e)
    /\ events' = [events EXCEPT ![d] = Tail(@)]
    /\ UNCHANGED <<setup, lookups, clients, initializing, ready, nodes, disk, fault, held,
                   requested>>

\* refreshNodeConfig; a reload makes the node anew, now or, if it sleeps, at a wake-up.
RefreshNodeConfig(d) ==
    LET n == call[Own(d)].transfer.node
        Reloaded == outdated' = outdated \ {<<d, n>>}
    IN
    /\ At(Own(d), "Refresh") /\ NodeMutexFree(d)
    /\ CASE setup.reload = "NEVER" -> UNCHANGED <<network, fault>>
         [] setup.reload = "IMMEDIATE" ->
               nodes' = [nodes EXCEPT ![d] = @ \cup {n}] /\ Reloaded /\ UNCHANGED fault
         [] n \in nodes[d] -> (Reloaded \/ UNCHANGED outdated) /\ UNCHANGED <<nodes, fault>>
         [] OTHER -> fault' = "NoNode" /\ UNCHANGED network
    /\ Goes(Own(d), "Ready")
    /\ UNCHANGED <<setup, lookups, clients, events, database, ready, disk, held, requested>>

(***************************************************************************)
(* ManufacturerSpecificDB::checkConfigFiles: a look at every product. A    *)
(* file that is missing is downloaded unless it is already; of one that    *)
(* exists, the image it names.                                             *)
(***************************************************************************)
EnterConfigFiles(d) ==
    /\ At(Own(d), "Enter") /\ MfsMutexFree
    /\ call' = [call EXCEPT ![Own(d)] =
                  [at |-> "Look", products |-> Products, scans |-> TRUE,
                   transfer |-> NoTransfer]]
    /\ UNCHANGED <<setup, lookups, clients, events, database, ready, network, disk, fault,
                   held, requested>>

Missing(config) ==
    IF config \notin disk THEN config
    ELSE IF Picture[config] \notin disk THEN Picture[config] ELSE Null

LookAtProduct(d) ==
    LET t == Own(d)  file == Missing(Head(call[t].products)) IN
    /\ At(t, "Look") /\ call[t].products # <<>>
    /\ call' = [call EXCEPT
          ![t].products = Tail(@),
          ![t].at = IF file = Null \/ downloading[file] > 0 THEN "Look" ELSE "Start",
          ![t].transfer = [file |-> file, node |-> Null]]
    /\ UNCHANGED <<setup, lookups, clients, events, database, ready, network, disk, fault,
                   held, requested>>

AllLookedAt(d) ==
    /\ At(Own(d), "Look") /\ call[Own(d)].products = <<>>
    /\ Goes(Own(d), "Check")
    /\ UNCHANGED <<setup, lookups, clients, events, database, ready, network, disk, fault,
                   held, requested>>

(***************************************************************************)
(* A download, on the driver thread or an application's (Manager::         *)
(* downloadLatestConfigFileRevision, downloadLatestMFSRevision):           *)
(* HttpClient::StartDownload, and then the entry in m_downloading.         *)
(***************************************************************************)
DownloadRevision(d) ==
    LET t == Application(d) IN
    /\ At(t, "Idle") /\ ready[d] /\ requested < setup.requests
    /\ \/ Mfs \in outdated /\ Begins(t, "Start", [file |-> Mfs, node |-> Null])
       \/ \E n \in nodes[d] :
             /\ <<d, n>> \in outdated /\ NodeMutexFree(d)
             /\ Begins(t, "Start", [file |-> ConfigOf[n], node |-> n])
    /\ requested' = requested + 1
    /\ UNCHANGED <<setup, lookups, clients, events, database, ready, network, disk, fault,
                   held>>

\* m_httpThreadRunning is set by the new thread, and read without a lock.
StartThread(t) ==
    LET d == t[1]
        Free == {w \in Worker : worker[d][w].at = "None"}
    IN
    /\ At(t, "Start")
    /\ IF running[d] THEN UNCHANGED worker
       ELSE Free # {} /\ WorkerGoes(d, CHOOSE w \in Free : TRUE, "New")
    /\ Goes(t, "Queue")
    /\ UNCHANGED <<setup, lookups, httpList, running, events, database, ready, network,
                   disk, fault, held, requested>>

Back(t) == IF call[t].scans THEN "Look" ELSE "Check"

\* FileRotate makes a copy of a file that exists and removes it.
QueueTransfer(t) ==
    /\ At(t, "Queue")
    /\ httpList' = [httpList EXCEPT ![t[1]] = Append(@, call[t].transfer)]
    /\ disk' = disk \ {call[t].transfer.file}
    /\ Goes(t, "Register")
    /\ UNCHANGED <<setup, lookups, running, worker, events, database, ready, network, fault,
                   held, requested>>

\* The folder or the file cannot be made, rotated or, then, written.
TransferFails(t) ==
    /\ At(t, "Queue") /\ call[t].transfer.file \in Unwritable
    /\ disk' \in {disk, disk \ {call[t].transfer.file}}
    /\ Goes(t, Back(t))
    /\ UNCHANGED <<setup, lookups, clients, events, database, ready, network, fault, held,
                   requested>>

Register(t) ==
    /\ At(t, "Register")
    /\ downloading' = [downloading EXCEPT ![call[t].transfer.file] = @ + 1]
    /\ Goes(t, Back(t))
    /\ UNCHANGED <<setup, lookups, clients, events, initializing, early, ready, network,
                   disk, fault, held, requested>>

(***************************************************************************)
(* checkInitialized, with which every call ends (after checkConfigFiles    *)
(* in mfsConfigDownloaded it is called twice in a row), and, on the driver *)
(* thread, isReady in DriverThreadProc.                                    *)
(***************************************************************************)
NothingListed == \A f \in File : downloading[f] = 0

CheckInitialized(t) ==
    /\ At(t, "Check")
    /\ initializing' = (initializing /\ ~NothingListed)
    /\ call' = [call EXCEPT ![t] =
                  [NoCall EXCEPT !.at = IF t = Own(t[1]) THEN "Ready" ELSE "Idle"]]
    /\ UNCHANGED <<setup, lookups, clients, events, downloading, early, ready, network,
                   disk, fault, held, requested>>

\* No transfer of a driver is queued, under way or finished but not processed.
Quiet(d) ==
    /\ httpList[d] = <<>> /\ \A w \in Worker : worker[d][w].at # "Busy"
    /\ \A k \in DOMAIN events[d] : events[d][k].type # "Http"
    /\ call[Own(d)].at = "Idle" /\ call[Application(d)].at = "Idle"
\* For the properties: another driver keeps the database from being ready.
OthersAsked(d) == (\E e \in Driver \ {d} : ~Quiet(e)) \/ \E f \in File : early[f] > 0

isReady == ~initializing /\ NothingListed

TestReady(d) ==
    /\ At(Own(d), "Ready")
    /\ ready' = [ready EXCEPT ![d] = @ \/ isReady]
    /\ held' = IF ~ready[d] /\ ~isReady /\ OthersAsked(d) THEN held \cup {d} ELSE held
    /\ call' = [call EXCEPT ![Own(d)] = NoCall]
    /\ UNCHANGED <<setup, lookups, clients, events, database, network, disk, fault,
                   requested>>

\* A node is removed, by the driver thread between two events.
RemoveNode(d) ==
    /\ At(Own(d), "Idle") /\ ready[d] /\ NodeMutexFree(d)
    /\ \E n \in nodes[d] :
          /\ nodes' = [nodes EXCEPT ![d] = @ \ {n}]
          /\ outdated' = outdated \ {<<d, n>>}
    /\ UNCHANGED <<setup, lookups, clients, events, call, database, ready, disk, fault,
                   held, requested>>

(***************************************************************************)
(* The specification.                                                      *)
(***************************************************************************)
Init ==
    /\ setup \in Setups
    /\ dnsList = [d \in Driver |-> IF d \in setup.drivers THEN <<Mfs>> ELSE <<>>]
    /\ dns = [d \in Driver |-> Null]
    /\ httpList = [d \in Driver |-> <<>>] /\ running = [d \in Driver |-> FALSE]
    /\ worker = [d \in Driver |-> [w \in Worker |-> [at |-> "None", transfer |-> NoTransfer]]]
    /\ events = [d \in Driver |-> <<>>]
    /\ call = [t \in Thread |-> NoCall]
    /\ downloading = [f \in File |-> 0] /\ initializing = TRUE
    /\ ready = [d \in Driver |-> FALSE]
    /\ nodes = [d \in Driver |-> Node] /\ outdated = {}
    /\ disk = setup.installed \cup {Mfs, Null}
    /\ fault = "None"
    /\ early = [f \in File |-> 0] /\ held = {}
    /\ requested = 0

DNSStep(d) == TakeLookup(d) \/ LookupTxT(d)
WorkerStep(d, w) ==
    WorkerRuns(d, w) \/ WorkerWakes(d, w) \/ TakeTransfer(d, w) \/ FinishDownload(d, w)
        \/ WorkerLeaves(d, w)
DownloadStep(t) ==
    StartThread(t) \/ QueueTransfer(t) \/ TransferFails(t) \/ Register(t)
        \/ CheckInitialized(t)
DriverStep(d) ==
    ProcessEventMsg(d) \/ RefreshNodeConfig(d) \/ EnterConfigFiles(d) \/ LookAtProduct(d)
        \/ AllLookedAt(d) \/ TestReady(d) \/ DownloadStep(Own(d))

Next ==
    \E d \in Driver :
        \/ DNSStep(d) \/ DriverStep(d) \/ DownloadStep(Application(d))
        \/ CheckRevision(d) \/ DownloadRevision(d) \/ RemoveNode(d)
        \/ \E w \in Worker : WorkerStep(d, w) \/ OpenFile(d, w) \/ WorkerTimesOut(d, w)

Spec == Init /\ [][Next]_vars

\* Threads run, and lookups and transfers end, with an answer or with an error.
Fairness ==
    \A d \in Driver :
        /\ WF_vars(DNSStep(d)) /\ WF_vars(DriverStep(d))
        /\ WF_vars(DownloadStep(Application(d)))
        /\ \A w \in Worker : WF_vars(WorkerStep(d, w))
FairSpec == Spec /\ Fairness

(***************************************************************************)
(* Properties.                                                             *)
(***************************************************************************)
CallRec == [at : {"Idle", "Enter", "Look", "Start", "Queue", "Register", "Check", "Refresh",
                  "Ready"},
            products : Seq(Config), scans : BOOLEAN,
            transfer : [file : File \cup {Null}, node : Node \cup {Null}]]
WorkerRec == [at : {"None", "New", "Wait", "Woken", "Leaving"}, transfer : {NoTransfer}]
                \cup [at : {"Busy"}, transfer : Transfer]
Event == [type : {"DNS"}, lookup : Node \cup {Mfs}, result : {"Newer", "Current", "Error"}]
            \cup [type : {"Http"}, transfer : Transfer, ok : BOOLEAN]

\* The shape of the state, of the lists of transfers and of the counts of m_downloading.
TypeOK ==
    /\ setup \in Setups
    /\ dnsList \in [Driver -> Seq(Node \cup {Mfs})] /\ dns \in [Driver -> Node \cup {Mfs, Null}]
    /\ httpList \in [Driver -> Seq(Transfer)] /\ running \in [Driver -> BOOLEAN]
    /\ worker \in [Driver -> [Worker -> WorkerRec]] /\ events \in [Driver -> Seq(Event)]
    /\ call \in [Thread -> CallRec]
    /\ \A t \in Thread :
          /\ call[t].at \in {"Start", "Queue", "Register"} => call[t].transfer \in Transfer
          /\ call[t].at = "Refresh" => call[t].transfer.node # Null
    /\ downloading \in [File -> Nat] /\ early \in [File -> Nat] /\ initializing \in BOOLEAN
    /\ ready \in [Driver -> BOOLEAN] /\ held \subseteq Driver
    /\ nodes \in [Driver -> SUBSET Node] /\ outdated \subseteq (Driver \X Node) \cup {Mfs}
    /\ disk \subseteq File \cup {Null} /\ fault \in {"None", "EmptyList", "NoNode"}
    /\ requested \in Nat

\* Where the transfers of a file are: what is queued, and what is finished, at its place in
\* the list of a driver; what is under way; and what is queued but not listed yet.
Of(f) == [file : {f}, node : Node \cup {Null}]
ResultsOf(f) == [type : {"Http"}, transfer : Of(f), ok : BOOLEAN]
Places(list, what) ==
    UNION {{d} \X {k \in DOMAIN list[d] : list[d][k] \in what} : d \in Driver}
UnderWay(f) == {p \in Driver \X Worker : worker[p[1]][p[2]].transfer.file = f}
Registering(f) == {t \in Thread : call[t].at = "Register" /\ call[t].transfer.file = f}

(***************************************************************************)
(* m_downloading lists every file as often as a transfer of it is pending, *)
(* whoever asked for it and in whatever order the threads run; what it has *)
(* beyond that are files whose result came before the thread that asked    *)
(* for them had listed them, and those stay for ever. isReady rests on it. *)
(***************************************************************************)
DownloadsKnown ==
    \A f \in File :
        downloading[f] + Cardinality(Registering(f))
            = early[f] + Cardinality(Places(httpList, Of(f))) + Cardinality(UnderWay(f))
                       + Cardinality(Places(events, ResultsOf(f)))

(***************************************************************************)
(* A driver comes out of the phase in which it handles nothing but lookups *)
(* and downloads, whatever they answer. There are three ways for it not    *)
(* to: the HTTP thread exited just as a transfer was given to it (where    *)
(* it stays until the next one); two of them were started, and one took    *)
(* the front of an empty list; or the driver's last event came while files *)
(* of another driver were listed, and nothing tells it when they are not.  *)
(***************************************************************************)
Stranded(d) == httpList[d] # <<>> /\ \A w \in Worker : worker[d][w].at = "None"
ReadyEventually ==
    \A d \in Driver :
        <>(\/ ready[d] \/ d \notin setup.drivers
           \/ d \in held \/ fault # "None" \/ \E e \in Driver : Stranded(e))
=============================================================================
