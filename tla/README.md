# OpenZWave: a verification of the driver

OpenZWave (`src/cpp`) connects an application to a Z-Wave network through a
serial controller. This directory holds TLA+ modules that model its core, TLC
configurations that check them on small networks, and TLAPS proofs of the
properties that hold for networks of any size. `DriverTransaction.tla` is the
place to start reading; the other models (`ControllerCommand`, `NodeQuery`,
`PollList`, `Notifications`, `ValueRefresh`, `ConfigLookup`) are each of one part of the
driver, and can be read in any order.

## 1. The system

All state of a network hangs on one `Driver`. Its thread (`DriverThreadProc`)
waits for events, in this order of priority: exit, notifications, DNS/HTTP
results, bytes from the controller, and seven send queues. Applications call
the `Manager` on their own threads; a poll thread and a timer thread create
messages as well.

| component | state | operations | interacts with |
|---|---|---|---|
| Transaction engine (`Driver.cpp`, `Msg.cpp`) | `m_msgQueue`, `m_queueEvent`, `m_currentMsg`, `m_expected...`, `m_waitingForAck`, `m_nonceReportSent`, `m_errors`, `m_nodeAlive` | `SendMsg`, `WriteNextMsg`, `WriteMsg`, `ReadMsg`, `ProcessMsg`, `HandleSendDataRequest`, `HandleErrorResponse`, `MoveMessagesToWakeUpQueue` | everything that sends |
| Wake-up queues (`WakeUp.cpp`) | `m_awake`, `m_pendingQueue`, `m_pollRequired` | `QueueMsg`, `SetAwake`, `SendPending`, `SendNoMoreInfo` | `SendMsg` parks here; a wake-up notification drains into the send queues |
| Controller commands (`Driver.cpp`) | `m_currentControllerCommand`, its state, node and done flag | `BeginControllerCommand`, `DoControllerCommand`, `UpdateControllerState`, `CancelControllerCommand`, the handlers of each command | the controller queue, the application's callback |
| Node interview (`Node.cpp`) | `m_queryStage`, `m_queryPending`, `m_queryRetries` | `AdvanceQueries`, `QueryStageComplete`, `QueryStageRetry` | query markers in the query and wake-up queues |
| Network bring-up (`Driver.cpp`) | controller capabilities, `m_nodes`, `m_init` | `Init`, `InitAllNodes`, `InitNode` | the interview |
| Poll list | `m_pollList`, `m_pollMutex`, counters and intensities | `EnablePoll`, `DisablePoll`, `isPolled`, `SetPollIntensity`, `PollThreadProc`, `~Node` | sends through the poll queue, or marks a sleeper |
| Notifications | `m_notifications`, `m_notificationsEvent` | `QueueNotification`, `NotifyWatchers` | application callbacks, which call back into the driver |
| Timer thread | `m_timerEventList` of the thread and of each `Timer` | `TimerSetEvent`, `TimerDelEvent`, `TimerFireEvent` | `WakeUp`, some command classes |
| Events and waits (`platform`) | event flags, watchers | `Event::Set`, `Reset`, `Wait::Multiple` | all threads |
| Security (`ZWSecurity.cpp`, `Node.cpp`) | eight nonces per node, keys | `GenerateNonceKey`, `GetNonceKey`, `EncryptBuffer`, `DecryptBuffer` | the transaction engine |
| Values, groups, scenes | values and their checks, associations | refresh and verify, group reports | created by reports |
| Device configuration, DNS and HTTP | `m_dnslist`, `m_httpDownlist`, `m_httpThreadRunning`, `m_eventQueueMsg`; `m_downloading` and `m_initializing` of the database all drivers share | `CheckMFSConfigRevision`, `StartDownload`, `HttpThreadProc`, `processConfigRevision`, `processDownload`, `checkConfigFiles`, `isReady` | two worker threads; until the database is ready the driver handles no message |
| Command classes | about sixty decoders of reports | `HandleMsg`, `RequestValue`, `SetValue` | send messages, change values |
| Manager, options, cache, platform wrappers | the API's tables, XML files | forwarding, load and save | -- |

What is hard here:

* **Interleavings.** Application threads run `SendMsg` concurrently with the
  driver thread. Three locks are involved (`m_nodeMutex`, `m_sendMutex`, the
  wake-up mutex of a node) and what one critical section decided is carried out
  in another.
* **Ordering.** An ACK carries no identity, a SEND_DATA callback one byte, a
  report its node. Each of them can be late, missing, or belong to an earlier
  attempt. A report may come before the callback it should follow.
* **Timeouts and retries.** The driver repeats a message with a new callback id
  up to a limit that CAN and NAK raise.
* **Sleeping nodes.** A message moves between send queues and wake-up queues,
  and may be superseded by an equal one.
* **Shared lists.** The poll thread turns a list over that applications and the
  driver thread edit, under two locks that not every path takes, or releases.
* **Work handed to other threads.** Lookups and downloads leave the driver thread
  and come back as events; what is pending is remembered in a list without a lock, by
  a database that several drivers share.
* **Nonces.** Security frames are answered out of band while a transaction is
  in progress, and change what the next write does.

What makes each part correct: an accepted message ends in exactly one way and
is never in two places (transaction engine, wake-up queues); the driver waits
for what the current message asked for and for nothing else; every queue that
holds something wakes the driver thread; retries end; a failure is held
against the node that failed. For the others: a controller command is reported
done exactly once; the interview reaches its last stage or stops at a dead
node; every polled value is polled in turn; every notification is delivered
once and in order.

## 2. Plan

Done, in the order in which the parts depend on each other:

1. `MsgDelivery`, `DriverTransaction`, `DriverTransactionProofs`: the transaction
   engine and the wake-up queues.
2. `ControllerCommand` with the promise `CommandReports`, `ControllerCommandProofs`: the
   command in progress, the copies that sleeping nodes cause, cancellation from another
   thread.
3. `NodeQuery`, `NodeQueryProofs`: the interview over an abstract transaction, with
   bring-up, `ReloadNode` and `CheckCompletedNodeQueries`.
4. `PollList`, `PollListProofs`: the list, its counters and its locks.
5. `EventWait` under `Notifications`, `NotificationsProofs`: how the driver thread
   waits and how the application is told.
6. `Timers` under `ValueRefresh`, `ValueRefreshProofs`: the timer thread and what
   values ask of it.
7. `ConfigLookup`, `ConfigLookupProofs`: the DNS and HTTP threads and the start-up phase
   that waits for them.

Left:

8. `CallbackIds` (the unlocked static counter of `Msg::Finalize`) and
   `NonceTable` (the eight nonces of a node, `Node.cpp:3608`).
9. `GroupReports` (reports of an association group in several frames).

## 3. The modules

### DriverTransaction

The regime: all nodes are at `QueryStage_Complete` and
`m_currentControllerCommand` is NULL. Every queue item is then a
`MsgQueueCmd_SendMsg`, so a queue is a sequence of message objects.

| variable | code |
|---|---|
| `msgQueue`, `queueEvent` | `m_msgQueue[7]`, `m_queueEvent[7]` |
| `txn` | `m_currentMsg`, `m_expectedCallbackId`, `m_expectedReply`, `m_expectedNodeId`, `m_waitingForAck`, `m_nonceReportSent`, `m_nonceReportSentAttempt` |
| `driver` | where the driver thread is: at the top of its loop, in `MoveMessagesToWakeUpQueue`, in `SendPending` (draining, drained), returned, or crashed |
| `call` | per other thread, where its `SendMsg` is: waiting for `m_nodeMutex`, parking, pushing |
| `awake`, `pending`, `nmiTimers` | `WakeUp::m_awake`, `m_pendingQueue`, armed timers for `SendNoMoreInfo` |
| `nodeAlive`, `errors` | `Node::m_nodeAlive`, `m_errors` |
| `nextCallbackId` | `Msg::s_nextCallbackId` |
| `line`, `air` | the environment: frames written and not yet acknowledged; frames accepted by the controller and not yet answered |
| `fate`, and `age` of a message | history, for the properties only |
| `wakeUps`, `nonceReports` | counters of environment steps, for the bounds |

A message is a record of what changes: its callback id and its two attempt
counters. What never changes (target, kind, content, the queue it is sent
through, whether it is encrypted, which thread sends it) is given by constants.
There are six kinds, by what completes them: `Set` and `Get` (SEND_DATA, with a
callback, and for a Get a report), `NoOp` and `NMI` (the two messages that
are deleted rather than parked), `Function` (a controller function with a
response) and `Command` (neither callback nor reply).

Steps. A step of a thread is a stretch of code that no other thread's step can
be told apart from: `SendMsg` finalizes the message without a lock;
`SendMsgLocked` decides under `m_nodeMutex`; `SendMsgPark` waits for the wake-up
mutex with `m_nodeMutex` held; `SendMsgPush` waits for `m_sendMutex` alone. The
driver thread handles one event per step, except that `SendPending` and
`MoveMessagesToWakeUpQueue` take one step per message, because other threads
can act in between. Locks are not variables: who holds one follows from `driver`
and `call`, and guards such as `NodeMutexFree` say which lock a step waits for.

| action | code |
|---|---|
| `AppSendMsg`, `TimerFires`, `WatcherSendMsg` | callers of `SendMsg`: an application thread, `SendNoMoreInfo` on the timer thread, an application's callback inside `NotifyWatchers` |
| `WaitTimeout` | `DriverThreadProc`, case -1, with `WriteMsg` |
| `WriteNextMsg` | `WriteNextMsg` with `WriteMsg`: pop, copy back while a nonce report is unanswered, give up, or send |
| `ReadACK`, `ReadCAN`, `ReadNAK` | `ReadMsg`, the one-byte answers |
| `LoseACK` | external: the serial line |
| `ReceiveResponse`, `ReceiveReport`, `ReceiveCallback` | `ProcessMsg` with `HandleSendDataRequest`, `HandleErrorResponse`, `HandleApplicationCommandHandlerRequest`, and the callback handling at its end (`HandleCallback`) |
| `ReceiveWakeUpNotification`, `SendPending`, `SendPendingDone`, `SendToSleepNow`, `SendToSleepLater` | `WakeUp::SetAwake` and `SendPending` |
| `MoveCurrentMsg`, `MoveQueuedMsg`, `MoveDone` | `MoveMessagesToWakeUpQueue` |
| `ReceiveNonceReport`, `ReceiveNonceGet`, `ReceiveEncrypted`, `ReceiveEncryptedNonceGet`, `ReceiveUnknownNonce`, `ReceiveUndecryptable` | the security part of `ProcessMsg` |

Abstractions, each with its reason:

* Time: an event's timeout may come at any moment while the driver waits.
* `Finalize` is atomic. `s_nextCallbackId` is read and incremented without a
  lock, so two threads may in fact obtain one id; that race is planned as a
  module of its own, and no property here needs ids to be distinct.
* Callback ids: `nextCallbackId` holds the id the next message gets, so the
  code's wrap (255, then 0, which `Finalize` turns into 10) is one step.
* `line` and `air` are sets: two equal frames in flight are one. Frames are
  answered in any order.
* NMI messages have no identity of their own between wake-ups: `fate` may go
  from done to live again when the next one is created.
* A write that reports no bytes (`Port` in `Failures`) stops the driver thread,
  as `m_driverThread->Stop()` does.
* NAK without a current message dereferences NULL: `driver.pc = "Crashed"`.
* `QueueMsg` removes one equal message where the code's loop removes all: there
  is never more than one, which `ParkedDistinct` states and is proved.

### MsgDelivery

The promise to the callers of `SendMsg`: an accepted message waits, at most one
is in progress, a message for a sleeping node may be parked and comes back at a
wake-up, an equal one may supersede it, and every message leaves once.
`DriverTransaction` maps its state to `status` by looking for the message
object (`DeliveryStatus`), and implements it (`ImplementsDelivery`) where no node
uses nonces, which TLC checks and `DeliveryImplemented` proves. With nonces it
does not, on purpose: `WriteNextMsg` then transmits a message twice.

### PollList

Each of the two mutexes is a variable that holds its owner. They are recursive
in the code; no thread relocks one except after a call that returned without
unlocking it, which is the flag `leaked`: the owner's unlocks then no longer
free the mutex.

| variable | code |
|---|---|
| `pollMutex`, `leaked`, `nodeMutex` | `m_pollMutex`, `m_nodeMutex` |
| `pollList` | `m_pollList`: entries with a value and a `uint8` counter |
| `intensity` | `Value::m_pollIntensity` |
| `present`, `nodes` | what `GetValue` and `m_nodes[]` find |
| `awakeNodesQueried` | `m_awakeNodesQueried`, without which the poll thread does nothing |
| `call` | per application thread, and for the driver thread inside `~Node`: the function it is in and the lock it waits for |
| `poll` | where `PollThreadProc` is, and its copy `pe` of an entry |
| `dtor` | `delete m_nodes[n]`: the node, and the values `~Node` has yet to visit |
| `awake`, `pollRequired`, `waking` | `WakeUp::m_awake`, `m_pollRequired`, and the wake-up being handled |
| `busy` | some send queue holds a message, or `m_currentMsg` is not NULL |
| `undefined` | an iterator, list or node was used after its end |
| `deletes`, `removals` | counters for the bounds |

| action | code |
|---|---|
| `AppCall`, `LockPolls` | an application calls `Manager::EnablePoll` and its siblings; `m_pollMutex->Lock()` |
| `EnablePoll`, `DisablePoll`, `isPolled_Value`, `isPolled_List`, `SetPollIntensity` | the `Driver` functions, cut where they wait for `m_nodeMutex` or read a value without it |
| `PollCheck`, `PollPop`, `PollReload`, `PollRequest`, `PollMark`, `PollWait` | one turn of `PollThreadProc` |
| `NodeWakes`, `PollWokenNode`, `NodeSleeps` | `WakeUp::SetAwake`: `m_awake` first, `m_pollRequired` later, without `m_nodeMutex` |
| `DeleteNode`, `VisitValue`, `FreeValues`, `ReplaceNode` | `delete m_nodes[n]` with `~Node`, and `InitNode` where the node is replaced |
| `RemoveValue`, `CreateValue` | a report makes a command class remove or create a value |
| `CheckCompletedNodeQueries`, `QueuesEmpty`, `OtherTraffic` | what the poll list sees of the rest of the driver |

Abstractions: the poll interval and the sleeps of the poll thread may last any
time; the poll thread does not exit; `WriteCache` and notifications, which these
functions also cause, change nothing here; the race of `RemoveValue` with
`GetValue` inside the value store's `std::map` is not looked at. Locking
`m_nodeMutex` for a stretch no other thread can tell apart is one step. The model
stops after undefined behaviour (`Next` needs `~undefined`), since nothing can
be said of what follows. An empty list at the pop is undefined in the same way.

### ControllerCommand

A handler of the driver calls several functions that change the same state. The
state of the driver is therefore one record, `drv`, each function of the driver an
operator from such records to such records, and an action the composition that the handler is.
A `ControllerCommandItem` has an identity, its address in `Item`, because the
pointer `m_currentControllerCommand`, the controller queue and the wake-up queues
share and copy the objects.

| variable | code |
|---|---|
| `drv.obj` | the `ControllerCommandItem` objects: command, state, `m_controllerStateChanged`, `m_controllerCommandDone`, node, `m_controllerAdded` |
| `drv.queue`, `drv.event` | `m_msgQueue[MsgQueue_Controller]` and its event |
| `drv.current`, `drv.telling` | `m_currentControllerCommand`; `WriteNextMsg` is inside the last callback |
| `drv.sendQueue`, `drv.msg` | the messages the commands send, and the one in progress |
| `drv.parked`, `drv.awake`, `drv.nodes` | controller items of the wake-up queues, `m_awake`, `m_nodes[]` |
| `chip` | environment: how far the controller is with each function |
| `begun`, `told` | history: which commands were begun, what each callback was last told |
| `cancel` | per application thread, where it is in `CancelControllerCommand` |
| `frames`, `sleeps` | counters for the bounds |
| `undefined` | NULL or a deleted object was used |

| action | code |
|---|---|
| `BeginControllerCommand` | `Driver::BeginControllerCommand`, on any thread |
| `WriteCommandMsg`, `StartCommand`, `ReportProgress`, `NothingToDo`, `NothingQueued`, `ReportEnd`, `DeleteCommand` | the turns of `WriteNextMsg`; `StartCommand` is `DoControllerCommand`, and the last callback is a step of its own, in which other threads run |
| `WriteMsgGivesUp`, `AckCompletes` | the end of `WriteMsg`, and of a message that waits for nothing |
| `ChipHears` | external: the controller accepts a request |
| `ProcessRequest`, `ProcessResponse`, `ProcessIsFailedNode`, `ProcessOtherReply` | `ProcessMsg` with the handler of each function (`Handled`) and `HandleCallback` at its end |
| `NodeInfoRequestFailed`, `MessageForSleeper`, `NodeSleeps`, `NodeWakes` | the callers of `MoveMessagesToWakeUpQueue` and `SendMsg` for a sleeping node, `SetAwake` with `SendPending` |
| `CancelTests`, `CancelStops`, `CancelUpdates` | `CancelControllerCommand`, cut where it reads the pointer again |

Abstractions: the requests of the commands and of the buttons of a bridge
controller are left out with their bytes; the transaction below is what
`DriverTransaction` models, here a message in progress that is answered or given up.
The controller answers a function in the order of its statuses (`Rank`), any of
which may be missing. The model stops after undefined behaviour.

What a loop of the code leaves of a list is said at once: `Sublist` of the module
`Lists`, which `NodeQuery` uses, too, keeps the places that are not erased; `Without` is
the list without the items that are erased, `QueueMsgs` the wake-up queue after a row of
`QueueMsg` (of equal items the last is left, at the place it was added), `DeleteNodes`
the driver after several `delete m_nodes[]` (in which order makes no difference).

`CommandReports` is the promise to the application: progress, one report of the
end, nothing after it; only a command that was told nothing yet may be dismissed without
a word, with the node it was for. `told` has what the callback was last given (`Outcome`): progress, an
end, or `Overtaken` when a late status has taken the place of the end. `Life` maps the objects to it: a command is open as long as an
object of it exists that is not in its last callback.

### NodeQuery

The same form: `drv` holds the nodes (`m_queryStage`, `m_queryPending`,
`m_queryConfiguration`, `m_queryRetries`, `m_nodeAlive`, `m_errors`, `m_nodeInfoReceived`
as `nif`, the `WakeUp` class's `m_awake`, `m_pollRequired` and `m_pendingQueue`), five of the
send queues, `m_currentMsg`, armed timers for `SendNoMoreInfo` and the two "queried"
flags. `thread` holds, per thread, what it has still to do in the call it is in: a
handler is a list of operations, and a step takes the first, so that the
application thread and the driver thread interleave inside `AdvanceQueries`.

| action | code |
|---|---|
| `SetQueryStage`, `TestLoop`, `ActOnStage`, `AddMarker` | `SetQueryStage`; the loop of `AdvanceQueries`, its stages, and `SendQueryStageComplete` at its end |
| `WriteNextMsg` | pops a message or a marker, with `QueryStageComplete` or, for a marker marked for a retry, `AdvanceQueries` alone |
| `AnswerReceived`, `NotAcknowledged`, `GiveUp`, `NodeInfoRequestFailed` | the ends of a message: answer, `HandleErrorResponse` and the retry of a ping, the last attempt, `UPDATE_STATE_NODE_INFO_REQ_FAILED` |
| `NodeInfoReceived`, `NodeInfoKept`, `WakeUpReceived`, `SetAwake`, `SendAllPending` | `UpdateNodeInfo` and `WakeUp::SetAwake`, `SendPending` |
| `FailedNodeReported`, `CheckCompleted` | `SetNodeAlive` after `HasNodeFailed`, `CheckCompletedNodeQueries` |
| `NewIdAssigned`, `RefreshNodeInfo`, `NodeRemoved` | `InitNode` with the deletion of the old node, `ReloadNode`, the removal of a node |
| `RequestState`, `SetPollRequired`, `SendNoMoreInfo` | the `Manager`'s requests, the poll thread, the timer thread |

Abstractions: one request stands for all requests of a stage; which of the
optional stages has something to ask is the constant `Work`; rounds of the loop
that find nothing to ask are part of the next one that does. An application holds
`m_nodeMutex` for its whole call, the driver thread only inside single steps.
`SendQueryStageComplete` is one step. The loops over queues are said at once, as in
`ControllerCommand`: `LastOfEach` is the wake-up queue after a row of `QueueMsg`, `OfKind`
and `Remade` are what `SendPending` makes of it. That `ReloadNode` holds the lock until the
interview was started is left out, which allows more than the code does. The timer of
`SendNoMoreInfo` may go off at any time. Two ghosts name the cases in which a
property is not promised: `overlapped`, nodes that died while the application was
advancing them, and `twice`, nodes asked again while the marker of the stage was
still to come.

### EventWait and Notifications

`EventWait` is `Event` and `Wait::Multiple` of the platform: setting an event is the
flag and then, under the object's lock, the callbacks of its watchers; adding a
watcher is the list and then a look at the flag, without the lock. `Notifications`
extends it with what waits: `DriverThreadProc`.

| variable | code |
|---|---|
| `signalled`, `watched`, `setting`, `wait` | `m_isSignaled`, `Wait::m_watchers`, threads between flag and callbacks, the waiting thread with its own event |
| `drv` | where `DriverThreadProc` is, and whether a message waits for its answer |
| `list`, `pushed`, `made`, `done` | `m_notifications`; threads between the push and `Set`; history |
| `notifying` | per thread, where it is in `Driver::NotifyWatchers` |
| `watchers`, `call` | `Manager::m_watchers`; the holder of `m_notificationMutex` with its iterator |
| `removal` | how far `~Driver` is |

Actions follow the functions: `QueueNotification`/`SetNotificationsEvent`/`CallEventWatchers`;
`TestEmpty`, `TakeFront`, `ResetEvent` (`Driver::NotifyWatchers`); `Lock`, `CallWatcher`,
`WatcherReturns`, `Unlock`, `ManagerAddWatcher`, `ManagerRemoveWatcher` (`Manager`);
`TopOfLoop`, `Waits`, `TimedOut`, `ExitSignalled`, `NotificationsWaiting`, `WorkWaiting`
(`DriverThreadProc`); `BeginRemoval` to `Unload` (`~Driver`).

Abstractions: steps on `m_notifications` are atomic although no lock protects it
(overlapping ones have no defined outcome); taking the front of an empty list ends the
model. `Work` stands for whichever of data and queues the loop waits for. Left
out: the two seconds after which `Thread::Stop` cancels the thread, the
deliveries on the driver thread when the port fails, `RemoveDriver` from inside a
callback, and the phase that waits for the device database, which is in
`ConfigLookup`.

### Timers and ValueRefresh

`Timers` is the timer thread and the `Timer` base class; `ValueRefresh` extends it with the
values that use it. An event is known by its address, which may be allocated again.

| variable | code |
|---|---|
| `entry`, `timerEventList`, `ownEvents`, `timerEvent` | the `TimerEventEntry` objects, the list of the thread, that of each `Timer`, `m_timerEvent` |
| `timer` | where `TimerThreadProc` is: the entry that is due, those left to scan, whether it waits with a timeout |
| `owner`, `fired`, `cut` | history: who set an event, whether its callback ran, whether another object deleted it |
| `value` | `m_value`, `m_valueCheck`, `m_checkChange`, `m_isSet`, `m_targetValue` |
| `asked`, `exists` | values with a Get under way; values not destroyed |
| `lost` | history: values a Get for which came to nothing since their last report |
| `driver`, `app`, `nodeMutex` | the driver thread between the steps of a handler, the application in `SetValue`, who holds `m_nodeMutex` |
| `seen` | history: the last two reports of a verified value |

| action | code |
|---|---|
| `FirstRead` to `ChangedAgain` | the paths of `OnValueRefreshed` and `VerifyRefreshedValue` |
| `SetsEvent`, `KeepsEvent` | `TimerSetEvent` of the thread, and of the base class |
| `Wakes`, `Remains`, `Expired`, `Fires`, `TimerDeletes`, `ScanEnds` | `TimerThreadProc`, `TimerFireEvent` |
| `SendValueRefresh`, `AsksNothing` | the callback, which ends in `SendMsg` and takes `m_nodeMutex`, or in nothing |
| `GetDropped` | `WriteMsg` drops the Get after its last attempt or for a dead node |
| `BeginSetValue`, `CopyDeletes`, `EndSetValue` | `Manager::SetValue` and `ValueByte::Set`, whose temporary copy deletes the events of the original |
| `BeginRemoval`, `TakesEvent`, `DeletesEvent`, `EndRemoval` | the end of the value with its node: `TimerDelEvents` |

Abstractions: a wait with a timeout may end at any moment, and the wait itself is
not modelled again (`AwakeWhenSignalled` is proved of `EventWait`); what other
threads do under `m_timerMutex` is one step; one value per node; values are removed by
the driver thread. The other value classes repeat `ValueByte`.

### ConfigLookup

Everything but the last group of variables is per driver; the files and the database
are shared.

| variable | code |
|---|---|
| `dnsList`, `dns` | `m_dnslist`; the lookup `DNSThreadProc` has taken |
| `httpList`, `running`, `worker` | `m_httpDownlist`, `m_httpThreadRunning`; where each `HttpThreadProc` is, with its transfer |
| `events` | `m_eventQueueMsg` |
| `call` | where the driver thread, and an application's, is between the event or the `Manager`'s call and `checkInitialized`; the products `checkConfigFiles` has still to look at |
| `ready` | `mfsisReady` of `DriverThreadProc` |
| `nodes`, `outdated` | `m_nodes[]`; what was found to be older than the newest revision |
| `downloading`, `initializing` | `m_downloading`, as the number of entries of each file, and `m_initializing` |
| `disk` | files that exist |
| `early`, `held`, `requested` | history: results handled before their entry was made; drivers that found the database waiting for another; the bound |
| `setup` | the options `AutoUpdateConfigFile` and `ReloadAfterUpdate`, drivers and installed files; constant |

| action | code |
|---|---|
| `CheckRevision`, `DownloadRevision` | the calls of the `Manager` on an application thread |
| `TakeLookup`, `LookupTxT` | `DNSThread::processResult`, cut at the lookup |
| `WorkerRuns` to `WorkerLeaves`, `OpenFile` | `HttpThreadProc`, cut where it waits, and where `m_httpThreadRunning` is not yet or no longer true |
| `ProcessEventMsg` | `ProcessEventMsg` up to the call that `processConfigRevision` or `processDownload` ends with |
| `RefreshNodeConfig` | `refreshNodeConfig`, with `ReloadNode` |
| `EnterConfigFiles`, `LookAtProduct`, `AllLookedAt` | `checkConfigFiles` with `checkConfigFileContents`, one step per product |
| `StartThread`, `QueueTransfer`, `TransferFails`, `Register` | `updateConfigFile` or `updateMFSConfigFile`: `StartDownload`, cut before it takes `m_httpMutex`, and then the entry in `m_downloading` |
| `CheckInitialized`, `TestReady` | `checkInitialized`, and `isReady` in `DriverThreadProc` |
| `RemoveNode` | a node is removed by the driver thread |

Abstractions: revisions are "newer" or not; what a lookup or a transfer answers is any
of what the platform may answer; ten seconds are any time; `m_downloading`, a list
without a lock, is only changed by whole steps (overlapping ones have no defined
outcome); the three signals follow their lists. The model stops when a thread takes
the front of an empty list or a node that is gone is used (`fault`).

## 4. Checks

Each `.cfg` is one run of an instance in an `MC` module.

| run | instance | checks | distinct states |
|---|---|---|---|
| `listening` | two listening nodes, a Get, a Set, a bare command; two senders; CAN, NAK, lost ACK, no ACK, failure, closed port | `TypeOK`, `EventsMatchQueues`, `BlamesOwnNode`, `Settles` | 12 885 |
| `sleeping` | two sleepers; the same Get from the application and from the driver thread, one node sent to sleep by `SendPending`, the other by the timer thread | `ParkedDistinct`, `ExactlyOnePlace`, `ImplementsDelivery`, `Settles` | 30 130 |
| `secure` | a node that encrypts and one that does not; nonces at any time | `NoMsgLost`, `ExpectationsOfCurrent`, `AttemptsBounded` | 97 384 |
| `lock_order` | one sleeper; application, timer and driver thread send to it | violates `SendMsgReturns` | -- |
| `poll_steady` | a listening and a sleeping node, both restored to the list; one application that may disable the sleeper's value | `StaysDefined`, `ServedForEver`, `MarkedIsPolled` | 85 275 |
| `poll_removal` | two applications, all four calls, values and nodes removed, other traffic, no intensity zero | `TypeOK`, `OneEntryEach`, `EntriesKept`, `NoOrphanEntry` | 3 631 246 |
| `command_network` | inclusion, exclusion, learn mode; one application that cancels; any answers | `TypeOK`, `DoneIsSignalled`, `ReportsOnce` | 785 938 |
| `command_failed` | a route for a sleeper, a failed node that was reset and its removal, a neighbour update and an inclusion | `OneOwner`, `CommandsEnd` | 154 001 |
| `interview` | a listening node from the cache and a new sleeping node | `TypeOK`, `AlwaysResumes`, `MarkersLast`, `InterviewEnds`, `AllQueriedAnnounced` | 87 146 |
| `notifications` | another thread, two watchers that add and remove themselves and each other, the removal of the driver | `TypeOK`, `AwakeWhenSignalled`, `ToldOnce`, `OwnDelivered` | 444 470 |
| `values` | a verified value that was read before and a new one with a target; reports, a `SetValue`, a removal | `TypeOK`, `CallbacksLive`, `RefreshFollows`, `ChangeConfirmed`, `EventsHappen` | 772 415 |
| `config` | one configuration file that names an image; one driver, with or without files, with each reload option, whose application looks up and downloads, or two drivers without files | `TypeOK`, `DownloadsKnown`, `ReadyEventually` | 178 665 |

Bounds of the transaction engine. `MAX_TRIES` is 1 and `MAX_MAX_TRIES` 2 or 3
instead of 3 and 7: one attempt, a retry that CAN or NAK allows, and the limit
itself are all reached. `ErrorLimit` is 2 instead of 3: a node counts errors, dies
and revives. One wake-up (`MaxWakeUps`) is enough for a message to be parked,
drained, moved back when the node does not answer, and superseded. One nonce
report (`MaxNonceReports`) is enough to resend the current message; unbounded
reports would only use up callback ids. In `listening` callback ids start at 254, so that they
wrap within a run and 10 comes up; no behaviour uses enough of them for one to come again.

Bounds of the poll list. `CounterMod` is 3 or 4 instead of 256: zero still wraps to
the largest value, and an entry still waits several passes. Two values are enough
for a turn of the list to change its order, two applications to enable one
value at once. One node deleted and one value removed reach every step of
`~Node` and every stale entry; applications call any number of times. In
`poll_steady` nothing is deleted and one value (`Pinned`) is never disabled, as
`ServedForEver` supposes; deadlock is checked there.

Bounds of the other models. Controller commands: two commands begun out of
three or five (a third only repeats what the second finds), two or three frames that
change something (a status, a late one, one for the next command), one node
falling asleep; nine addresses, which no behaviour within these bounds exhausts
(`RoomForCopy` would hide it otherwise). Interview: two upsets (lost
answers, frames nobody asked for, calls), `ErrorLimit` 2: an error and the one
that kills, a death and a revival, a reload while a call is under way.
Notifications: two of them and two acts, so that one is queued while another is
delivered and a watcher is removed and added again. Values: two timer events at two
addresses, two reports nothing asked for, one `SetValue`, levels 0 to 2 and 0 to 1: a change,
its confirmation, a third level in between, and an address that is used again.
Configuration: one or two requests beside the first lookup, which is
enough for two transfers of one file at a time, a worker that leaves while the second
comes, and two workers at once; a third worker is never needed.

`CHECK_DEADLOCK` is off where the system may stop: the driver thread may exit or
crash, the model ends at undefined behaviour, the bounds are used up and the application has
asked for everything it ever asks, or threads are in the lock cycles of section 5.

Fairness. `DriverTransaction`: `WF(DriverStep)`: the driver thread keeps running,
and its wait times out when nothing arrives. `WF(ThreadStep(t))`: a thread inside
`SendMsg` keeps running and gets the lock it waits for when that stays free. Nothing
is assumed of the controller, the radio or the application, so `Settles` holds by
timeouts and attempt limits alone.

`PollList` needs more, and only `poll_steady` uses it. The steps that wait for a mutex
have strong fairness: a mutex that is free again and again is granted in the end.
(POSIX promises this to no thread, but the poll thread sleeps between its turns,
and calls of an application are rare.) `QueuesEmpty` and `PollWait` are strongly fair
because every transaction ends, which is what `Settles` shows of
`DriverTransaction`; `NodeWakes` because a sleeping node wakes up at its interval;
`CheckCompletedNodeQueries` because the interview of the nodes that are awake
ends, which is what `InterviewEnds` shows. No application is obliged to call anything.

The others have weak fairness of what each thread has begun: `WriteNextMsg`, giving
up a message, and, for sleeping nodes with something parked, their wake-up
(`ControllerCommand`, `NodeQuery`); a message in the interview ends, as `Settles` shows;
the driver thread, the removal and threads inside `Set` (`Notifications`); each thread and
time (`ValueRefresh`); the threads, and that a lookup and a transfer end, in an answer or an
error (`ConfigLookup`; that a worker gives up after ten seconds is not promised). Nothing is assumed of the frames the controller sends, except
that `NodeQuery`'s messages end one way or another.

Every property of a passing run has a mutant: a definition with a plausible bug
(marked "mutant" in the module) under which TLC finds the property violated.

## 5. What the checks found

One run shows a disagreement:

* **lock_order** (`Driver.cpp:991`): `SendMsg` takes the wake-up mutex inside
  `m_nodeMutex`, `SendPending` the other way round. An application that sends to
  a node at the moment it wakes up and the driver thread wait for each other.
  `Settles` excepts this state (`LockedUp`), and it is the only one it has to except.

Further steps of the models where the code does what a reader may not expect. They
have no run of their own; most of them bound what the properties say.

Transaction engine

* A callback is refused when its id is not the expected one *and above 10*
  (`Driver.cpp:3083`), where the comment before it reserves the ids *below* 10. Ids of normal
  messages start at 10 again after 255 (`Msg.cpp:150`): a late callback with that id is taken
  for the message in progress, and an error it reports is held against that message's node.
  `BlamesOwnNode`, which `listening` checks across the wrap, excepts ids up to 10; with
  `f.cb < 10` in their place TLC finds it violated.
* A message still in a send queue when its node falls asleep is parked behind
  a newer one that was parked at once (1359): after the wake-up the older is sent last.
* A NAK without a current message dereferences NULL (1756), and a frame that
  cannot be decrypted removes the current message even when that is for another node (1936).

Poll list

* `SetPollIntensity` and `isPolled` read a value without `m_nodeMutex` (4252), although
  `GetValue` is only for callers that hold it; the driver thread may be deleting it.
* Intensity zero is documented as "none", but the counter wraps, and the value is polled
  once in 256 passes (4298). Nor is such a value "polled", so `~Node` leaves its entry
  behind (`Node.cpp:133`): with 0 among the `Intensities` of `MCPollRemoval.cfg`
  TLC finds `NoOrphanEntry` violated.
* `SetPollIntensity` of a value that does not exist returns with `m_pollMutex`
  locked (4254), and so does a turn of the poll thread whose value is gone (4311): the next
  call of an application never returns. `PollMutexReleased`, a theorem, says that
  there is no third such path. `StaysDefined`, that nobody keeps
  the lock at all, is a property of `poll_steady`, where no value goes away.
* The poll thread tests the list before it takes the lock (4285); `DisablePoll` of
  the last value in between makes it pop an empty list. `DisablePoll` of a
  value that is listed and gone goes on with the iterator it erased (4143).
* Deleting a node takes `m_pollMutex` inside `m_nodeMutex` (4449), the calls of the
  poll list the other way round: with `CHECK_DEADLOCK` on, TLC reports the
  deadlock in `poll_removal`.

Controller commands

* `DONE` after `ADD_NODE_STATUS_FAILED` is always reported as Completed (4001), where
  `Manager.h:1909` says Failed will be sent.
* A cancelled command can be overridden by a result that comes before its last
  callback; a late `READY` can make the last callback say Waiting.
  `ReportsOnce` tells such a last callback from the others (`Overtaken`): the
  command is over with it, although it was not told an end.
* `READY` and `SLAVE` of an inclusion (3925, 3938) and every answer to the removal of a failed
  node, two of them in the arguments of a log message (3495, 3505, 3517), use
  `m_currentControllerCommand` without the test their siblings make.
* An inclusion, an exclusion, the learn mode, the replacement of a failed node and a neighbour
  update are told by several statuses. The first ends the transaction, and no timeout runs from
  there on: when the controller falls silent then, the command stays for ever, and those
  behind it with it. `CommandsEnd` excepts this (`LeftByController`).
* `CancelControllerCommand` reads the pointer again after its test (5545, 5551); during a
  last callback it can leave a set event and an empty list to `WriteNextMsg` (1014).
* `MoveMessagesToWakeUpQueue` hands the command in progress to the wake-up queue,
  where `QueueMsg` may delete it for an equal one, and then copies it (1420, 1442).
* `SendMsg` to a sleeping node during a command drops the message and parks a copy
  of the command (981). A route command that a sleeper does not acknowledge is told
  Failed although its parked copy runs again.
* The `AssignReturnRoute` commands of `UpdateNodeRoutes` are equal by kind and callback
  (`Driver.h:773`), so that parked ones replace each other. Commands for a node that is deleted
  go without a word. A late `DONE` of an inclusion completes whichever command is running.
* A neighbour update that is answered with an unknown status goes back to Normal, the state
  of a command that was not begun (3787), without setting the event: it is begun again only when
  something else sets it. `DoneIsSignalled` is about the others, and `CommandsEnd` excepts it, too.

Interview, notifications, timers, values

* A node that dies while an application is advancing it is left without a marker;
  its revival finds a pending stage (`overlapped`).
* `~Driver` delivers notifications on the application thread while the driver
  thread does: both may take the front of a list of one (178).
* A notification that another thread queues between the look at the empty list
  and the reset of the event (5932) waits for the next one. `OwnDelivered` is therefore about
  those of the driver thread.
* A watcher that removes and adds itself in its callback may be told the same
  notification again: it is a new registration.
* `TimerDelEvents` keeps an iterator while it waits for `m_timerMutex`; the timer
  thread may erase its element (`TimerThread.cpp:239`). The callback takes `m_nodeMutex`
  under `m_timerMutex`, `SetValue` and the removal of a node the other way round (121).
* Setting a value copies all of it, its `Timer` base included (`ValueByte.cpp:120`); the
  copy's destructor deletes the timer events of the original, so that a refresh that
  was pending never happens. `EventsHappen` and `RefreshFollows` except it (`cut`).
* The Get that a value under verification waits for may come to nothing: its callback queues none
  when there is no driver, node or command class (`Value.cpp:822`), the driver drops it for a dead
  node or after its last attempt. `m_checkChange` then stays set with no event and no Get, until
  the device reports again. `RefreshFollows` excepts it (`lost`).
* The second of the two reports that confirm a change need not be the answer to the Get
  of the verification: an unsolicited one will do, before the event has even fired (686).

Device configuration

* `m_httpThreadRunning` is only set by the new thread (`Http.cpp:139`): two transfers that are
  queued in a row start two threads, and one of them may take the front of a list
  the other has emptied (`fault`).
* A worker that gives up after ten seconds (160) is still "running" until it has left (196): a
  transfer queued in between is taken by nobody until the next one starts a thread (`Stranded`).
* A transfer is listed in `m_downloading` after it was queued (`ManufacturerSpecificDB.cpp:507`). When an
  application asked for it, the driver thread may handle the result before; the
  entry then stays for ever, and a driver added later never finds the database ready.
* `mfsisReady` is tested after an event of the driver alone (`Driver.cpp:432`). With two
  controllers, one whose last event comes while files of the other are listed
  handles no message any more (`held`).
* `refreshNodeConfig` uses the node without the test whether it exists (7042), and with
  `ReloadAfterUpdate` IMMEDIATE it makes a node anew that was removed during the transfer.
* `StartDownload` removes the file it is about to replace (`FileOpsImpl.cpp:120`): after an
  update that failed there is none.

## 6. Proofs

`DriverTransactionProofs` proves `TypeCorrect`: `TypeOK` is inductive, one lemma
per group of actions, over lemmas on the operators they share (`NewMsg`,
`QueueMsg`, `WriteMsg`, `HandleCallback`, ...). It is more than bookkeeping in
three places: the attempt counters stay below `MAX_MAX_TRIES` only because
`WriteMsg` compares before it counts; the driver only ever moves or drains the
queue of a sleeper; and the thread that parks holds a message for a sleeper.

Of the driver's own state it proves further:

| theorem | inductive invariant and why it is needed |
|---|---|
| `EventsCorrect` | `EventsMatchQueues` is inductive given `TypeOK` (a queue of `Seq(MsgObj)` is empty exactly when its length is 0) |
| `ExpectationsCorrect`, `CurrentNeverOverwritten` | `TxnInv`: `Expects(txn)` adds to `ExpectationsOfCurrent` that the node is awaited only with a callback or reply; `Engaged(txn)` that a nonce report is never unanswered where no node uses nonces. Without the first an ACK could leave a half-open expectation, without the second `WriteNextMsg` could stand over a message |
| `AttemptsCorrect` | `AttemptsInv`: every message object anywhere (queues, wake-up queues, current, in a thread's hands) is in `Limited`. The property itself only looks at queues and the current message, which the others feed |
| `ParkedCorrect` | `ParkedDistinct` is inductive; the work is in the lemmas on appending to, removing from and taking the head of a sequence without equal messages |

And of the application's messages, on top of both:

| theorem | inductive invariant and why it is needed |
|---|---|
| `NoMsgLostCorrect` | `LostInv`: every live message is queued, parked, in a call, or in progress *and still waited for*. `NoMsgLost` alone is not inductive: `WriteNextMsg` may overwrite a message in progress that nobody waits for |
| `ExactlyOnePlaceCorrect` | `PlacedInv`: a live message is in one kind of place and a message that is over in none, and no send queue or call holds it twice (`Once`); with `ParkedDistinct` that is one place. Only where no node uses nonces, which is part of the property |
| `DeliveryImplemented` | a step simulation: `Where(m)` is the status a message is mapped to, and for each action there is a lemma that it changes the statuses as one step of `MsgDelivery` does, or not at all. It uses `PlacedInv`, `ParkedDistinct` and `CurrentNeverOverwritten`. Most steps of the threads stutter; `WriteNextMsg` drops or starts, moves from queue to wake-up queue are `Park` |

The assumption of `DeliveryImplemented`, `NonceNode = {}`, is a network without secure nodes.

`PollListProofs` proves `PollTypeCorrect` (`TypeOK` is inductive; the counter stays a
`uint8` by `DecrementedType`) and `OneEntryCorrect`. `OneEntryEach` is not inductive: two
threads inside `EnablePoll` could both find the value missing. The invariant
`ListInv` adds `HoldsPolls`: whoever is past `m_pollMutex`, application, driver or poll
thread, is its owner, so there is one such thread (`AloneInCall`). Leaks do not
hurt: a mutex that is never freed excludes even more. The rest are lemmas on
appending to, removing from and rotating a list without equal entries. `EntriesStay`
(`EntriesKept`) follows from `ListInv`, too: a step that takes an entry off works at
the one place of its value, and the only one that is not `DisablePoll` or the end of the
value puts it into the poll thread's hand.

`MutexReleased` (`PollMutexReleased`, which no run checks) needs the types only: each action that
ends a call or a turn is looked at.

`NoOrphanCorrect` needs `OrphanInv`. `VisitInv` says that `~Node` holds `m_nodeMutex` while it
visits its values, so that no application is inside the part of `EnablePoll` that appends;
`EntriesInv`, as long as no value went on its own, that every listed value exists and has an
intensity, and that those of the node being deleted are still to be visited. Its
assumption is that nobody asks for intensity zero: section 5 says what happens otherwise.

`DefinedCorrect` is `StaysDefined` where `poll_steady` checks it: no node or value goes away and
some restored value is never disabled. Its invariant `StaysInv` says that such a value
always has an entry, listed or in the poll thread's hand. The poll thread is never in `pop`
with an entry in its hand, so that the list it finds there is not empty, however long ago it tested it.

The proofs of `PollList` rest on `PollConstants`. `SequenceLemmas` holds what they and
those of the driver use of membership (`In`, `Once`) and `RemoveAt`, and what those of `ControllerCommand` use of
appending to, joining and taking the head of lists.

`ControllerCommandProofs` follows the calls. A handler is a composition of functions on
the driver's record, so there is one lemma per function, that it leads from a `Sound` driver to a
`Sound` one or to undefined behaviour (`Follows`), and the lemma of a handler cites those of the functions it calls. It
rests on `CommandConstants` and `NullIsNoItem` (NULL is not a command object).

| theorem | inductive invariant and why it is needed |
|---|---|
| `TypeCorrect`, `OneOwnerCorrect`, `DoneIsSignalledCorrect` | `CommandInv`, that is `Sound(drv)` and the types of the other variables. `Sound` has `Owned`: the objects that exist are those on the queues and the one in its last callback, each in one place, from which every pointer is live; `Queued`: the command in progress is on the controller queue, also after its node fell asleep or was deleted; `Woken`: without the event, the front of the queue *is* the command in progress, and waits for the controller. `OneOwner` alone says nothing of the event, `DoneIsSignalled` alone not which command `UpdateControllerState` may end while the event is reset. Inside a handler `SoundBut(d, hand)` is `Sound` while some objects are on no queue yet, or no more |
| `ReportsOnceCorrect` | a step simulation of `CommandReports`, under `ReportInv`: `Apart` adds that distinct objects are of distinct commands, that the command in progress is the front of the queue, and that only it was told anything. A step of the driver that deletes objects is `Dismiss`, for only what was told nothing can be deleted with its node. `ReportEnd` is `End`: the last callback, which must be given an end or `Overtaken` |

The assumption of `ReportsOnceCorrect`, `Sleeper = {}`, is a network in which no node
sleeps, as in the run `command_network`. Where nodes sleep it is not true: a command that moves to a wake-up
queue is told that it sleeps and is then begun, and reported, anew.

`NotificationsProofs` proves of `Notifications`, from `EventConstants` and
`NotificationConstants`:

| theorem | inductive invariant and why it is needed |
|---|---|
| `NotificationTypes` | `TypeOK`; that no watcher is registered twice is part of it, and needed for `Position` to be what the iterator points to |
| `NoSignalMissed` | `AwakeWhenSignalled` strengthened by what the waiting thread has already seen: while it registers and tests, an object it has passed is signalled only if its event is set or some thread is about to call the watchers of that object, and the watchers are those it has passed |
| `WatchersToldOnce` | `ToldOnce` strengthened by where the iterator is: of the watchers that were there from the beginning, exactly those before it on the list have been told, and those from it on have not |

`ValueRefreshProofs` proves of `ValueRefresh`, from `TimerConstants` and `ValueConstants`,
`ValueTypes`, `NoDanglingCallback`, `RefreshNotForgotten` and `ChangesConfirmed`. They are four
consequences of one invariant, whose conjuncts need each other:

| conjunct | why it is needed |
|---|---|
| `TimerInv`, `RestTypeOK` | with them `TypeOK` is inductive: what is left to scan and the entry that is due are still allocated, because others delete only when the timer thread waits |
| `DriverInv` | what the driver thread is doing is for a value that exists |
| `OwnedInv` | an allocated entry is on the own list of a value that exists, or the driver is about to put it there; this gives `CallbacksLive`, for a value is destroyed when its own list is empty |
| `CheckInv` | the level a value is checked against is what the device said last; this gives `ChangeConfirmed` |
| `FollowInv` | `RefreshFollows`, with the driver at the value instead of the entry; the three exceptions are `lost`, `cut` and `undefined` |

The one fact about data is that `Find` returns the first place, which
`SmallestExists` of `SequenceLemmas` gives, the least element of a set of places, from
`WellFoundedInduction`.

The driver proofs rest on the assumptions named in `DriverTransaction.tla`: `NodesAssumption`
(sleepers and nonce nodes are nodes, the controller and NULL are not),
`MessagesAssumption` (targets exist, equal content means equal kind and target,
encrypted messages go to nonce nodes), `ThreadsAssumption`, `LimitsAssumption`
(0 < `MAX_TRIES` < `MAX_MAX_TRIES`) and `NoMsgAssumption`. TLC evaluates all
of them in each run.

`ConfigLookupProofs` proves of `ConfigLookup`, from `ConfigConstants` (drivers and workers
are finitely many):

| theorem | inductive invariant and why it is needed |
|---|---|
| `TypeCorrect` | `TypeOK`, to which belongs that a call which is about to queue or to list a transfer has one, and that what is queued, under way or finished is of a file there is |
| `DownloadsCorrect` | `DownloadsKnown` is inductive given `TypeOK`. It counts places: those of a file in the transfer lists, the workers and the events, with those that are listed but not yet registered. Each step moves one place from one kind to the next, or makes or ends one together with its entry; the lemmas say by how much a `Cardinality` changes when a list is appended to or loses its head and when a worker takes, keeps or leaves a transfer. |

`NodeQueryProofs` proves of `NodeQuery`, from `QueryConstants` (nodes are finitely many, a
null pointer is no node, item or record):

| theorem | inductive invariant and why it is needed |
|---|---|
| `TypeCorrect` | `TypeOK`, with `OfNodesOnly`: a node that is deleted leaves nothing in any queue, timer or call. `Sound(d)` is its part about the driver, which every function keeps |
| `ResumesCorrect` | `Inv` adds `PlainCall` and `NodeInv`. `PlainCall`: only the first thing a thread has to do can be work on a stage. `NodeInv`, of nodes that did not die in a call of the application: a node that is not pending has a marker or a call that will test it; one that is pending has a marker *of its stage that is not marked for a retry*, or the call that will add it; and no call has begun work on a dead node. `AlwaysResumes` does not tell retried markers from others, but a retried one advances a node without ending its stage, so the invariant has to |
| `OrderCorrect` | `InOrder` adds `ParkedInv`, of all nodes: something is parked only in a node that sleeps, or of which the driver thread has still to send what is parked; and `OrderInv`, of nodes that were not asked twice: in the query queue no request of a stage comes after a marker of it, retried or not, and no request is parked whose marker is in the query queue, unless it is about to be sent |

Each function of the driver has a lemma on what it does to the nodes it is not called
for (`Kept` for stages and markers, `NoHarm` for the order), each action one on what it
does to its own node; `StepKeeps` and `OrderStep` put them together. `overlapped` and `twice`
are needed: without them TLC finds `AlwaysResumes` and `MarkersLast` violated.

All these are about lists from which a loop erases elements. `Sublist` of `Lists` says which places are
kept; `SublistPlaces` and `SublistRange` of `SequenceLemmas` prove, for every list and every set
of places, that `Sublist` has just the elements kept, in their order. They are the
reason why no theorem here needs what a fold or `SelectSeq` computes, which would be an
induction over data.

Only model-checked, because it holds of the instance and not of every one:
`BlamesOwnNode` (246 messages later an id comes again, and nothing tells a callback of the
one from a callback of the other). Further the liveness properties `Settles`,
`ServedForEver`, `MarkedIsPolled`, `CommandsEnd`, `InterviewEnds`, `AllQueriedAnnounced`,
`OwnDelivered`, `EventsHappen` and `ReadyEventually`, which are out of TLAPS's reach together with
`ENABLED`. Every other property of a passing run is a theorem.

## 7. Not modelled

The models cover the parts of `Driver.cpp`, `Node.cpp`, `Manager.cpp` and the timer, event and
value code in which threads and messages meet. Most of the repository is none
of that: some sixty command classes that decode one report each, XML,
the public API that forwards to the driver, and vendored code (`tinyxml`, `hidapi`). They are
computations or I/O without an interleaving of their own. Of the rest, `CallbackIds`,
`NonceTable` and `GroupReports` are planned (section 2).

Inside the modelled parts: `RefreshValuesOnWakeup`, the decision to encrypt (a
constant here), what command classes do with a report, notifications about timeouts
and completed messages, statistics, opening the port and the first requests to the
controller, what the configuration files say (`CompatOptionManager`, `LoadProductXML`), a client
given by `setHttpClient`, the removal of a driver whose downloads are pending, buttons,
`TimerDelEvent` by number and the other users of timers,
`Wait::Single`, and the other platforms.
