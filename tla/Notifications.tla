---------------------------- MODULE Notifications ----------------------------
(***************************************************************************)
(* How the application is told (src/cpp/src/Driver.cpp, Manager.cpp): a    *)
(* thread puts a notification on the driver's list, which has no lock, and *)
(* sets its event; the driver thread, in the loop of DriverThreadProc,     *)
(* finds the event set, empties the list, passing each notification to the *)
(* Manager, and resets the event. The Manager calls the registered         *)
(* watchers one after the other under m_notificationMutex, which is        *)
(* recursive: a watcher may add and remove watchers, itself or the next    *)
(* one to be called included. The destructor of the driver queues and      *)
(* delivers notifications too, while the driver thread still runs.         *)
(*                                                                         *)
(* Steps on the unlocked list are atomic here: where two of them would     *)
(* overlap std::list promises nothing. To take the front of an empty list  *)
(* is undefined; the model ends there (crashed).                           *)
(*                                                                         *)
(* A definition marked "mutant" is the variant with a plausible bug of the *)
(* definition that follows it; nothing uses it but the mutation runs.      *)
(***************************************************************************)
EXTENDS EventWait, Sequences, SequencesExt

CONSTANTS
    App,            \* other threads: they read from the controller, send, queue notifications
    Remover,        \* the application thread that removes the driver, or Null
    Driver,         \* the driver thread
    Watcher,        \* callbacks of the application
    Initial,        \* those that are registered before the driver is added, in order
    End,            \* the iterator m_watchers.end()
    MaxNotes,       \* bound on notifications
    MaxActs         \* bound on AddWatcher, RemoveWatcher, data received and messages queued

(***************************************************************************)
(* waitObjects of DriverThreadProc. Work is what it waits for beside exit  *)
(* and notifications: data from the controller while it waits for an       *)
(* answer, otherwise also messages to send.                                *)
(***************************************************************************)
Exit == 0
NotificationsEvent == 1
Work == 2

Deliverer == {Driver} \cup ({Remover} \ {Null})
Notes == 1..MaxNotes

ASSUME NotificationConstants ==
    /\ Setter = App \cup (Deliverer \ {Driver})
    /\ LastObject = Work
    /\ Driver \notin Setter /\ Remover \notin App \cup {Driver}
    /\ Null \notin Setter /\ End \notin Watcher /\ Null # Driver
    /\ Initial \in Seq(Watcher)
    /\ \A j, k \in DOMAIN Initial : j # k => Initial[j] # Initial[k]
    /\ MaxNotes \in Nat /\ MaxActs \in Nat

VARIABLES
    drv,            \* the driver thread: where it is, and whether it waits for an answer
    list,           \* m_notifications
    pushed,         \* threads between the push and Event::Set in QueueNotification
    made,           \* who queued notification 1, 2, ..
    done,           \* notifications passed on, or dropped because their value is gone
    notifying,      \* how far a thread is in Driver::NotifyWatchers
    watchers,       \* Manager::m_watchers
    call,           \* Manager::NotifyWatchers: who holds m_notificationMutex and its iterator
    removal,        \* how far the destructor is
    acts            \* counter for the bound

vars == <<eventVars, drv, list, pushed, made, done, notifying, watchers, call, removal,
          acts>>
queue == <<list, pushed, made, done>>
delivery == <<notifying, watchers, call>>

At(t, place) == notifying[t].at = place
Goes(t, place) == notifying' = [notifying EXCEPT ![t].at = place]
crashed == \E t \in Deliverer : At(t, "Crashed")

(***************************************************************************)
(* Driver::QueueNotification. On the driver thread nobody waits for the    *)
(* event, so that the call is one step.                                    *)
(***************************************************************************)
CanQueue == Len(made) < MaxNotes /\ ~crashed
Push(t) == made' = Append(made, t) /\ list' = Append(list, Len(made) + 1)

QueueNotification(t) ==
    /\ CanQueue /\ t \notin pushed /\ setting[t] = Null
    /\ Push(t)
    /\ pushed' = pushed \cup {t}
    /\ UNCHANGED <<eventVars, drv, done, delivery, removal, acts>>

SetNotificationsEvent(t) ==
    /\ t \in pushed
    /\ SetFlag(t, NotificationsEvent)
    /\ pushed' = pushed \ {t}
    /\ UNCHANGED <<drv, list, made, done, delivery, removal, acts>>

CallEventWatchers(t) ==
    /\ Notify(t)
    /\ UNCHANGED <<drv, queue, delivery, removal, acts>>

\* What a step of the driver thread may do besides: queue a notification of its own.
MayQueueOwn(flags) ==
    \/ UNCHANGED <<list, made>> /\ signalled' = flags
    \/ CanQueue /\ Push(Driver) /\ signalled' = [flags EXCEPT ![NotificationsEvent] = TRUE]

(***************************************************************************)
(* Driver::NotifyWatchers.                                                 *)
(***************************************************************************)
TestEmpty(t) ==
    /\ At(t, "Test")
    /\ Goes(t, IF list = <<>> THEN "Reset" ELSE "Front")
    /\ UNCHANGED <<eventVars, drv, queue, watchers, call, removal, acts>>

\* The front is taken off; a notification of a value that is gone goes no further.
TakeFront(t) ==
    /\ At(t, "Front")
    /\ IF list = <<>>
       THEN Goes(t, "Crashed") /\ UNCHANGED <<list, done>>
       ELSE /\ list' = Tail(list)
            /\ \/ notifying' = [notifying EXCEPT ![t] = [at |-> "Taken", note |-> Head(list)]]
                  /\ UNCHANGED done
               \/ Goes(t, "Test") /\ done' = done \cup {Head(list)}
    /\ UNCHANGED <<eventVars, drv, pushed, made, watchers, call, removal, acts>>

ResetEvent(t) ==
    /\ At(t, "Reset")
    /\ Goes(t, "None")
    /\ Signal(NotificationsEvent, FALSE)
    /\ IF t = Driver
       THEN drv' = [drv EXCEPT !.pc = "Top"] /\ UNCHANGED removal
       ELSE /\ removal' = IF removal = "Notifying" THEN "Stop" ELSE "Gone"
            /\ UNCHANGED drv
    /\ UNCHANGED <<watched, setting, wait, queue, watchers, call, acts>>

(***************************************************************************)
(* Manager::NotifyWatchers, and what a watcher does when it is called. The *)
(* iterator is the watcher it points to. since is a ghost: the watchers    *)
(* that were there when the call began and have not been removed.          *)
(***************************************************************************)
Registered == {watchers[k] : k \in DOMAIN watchers}
First == IF watchers = <<>> THEN End ELSE Head(watchers)
Position(w) == CHOOSE k \in DOMAIN watchers : watchers[k] = w
After(w) == IF Position(w) = Len(watchers) THEN End ELSE watchers[Position(w) + 1]

Lock(t) ==
    /\ At(t, "Taken") /\ call = Null
    /\ call' = [by |-> t, next |-> First, inside |-> FALSE, told |-> <<>>, since |-> Registered]
    /\ UNCHANGED <<eventVars, drv, queue, notifying, watchers, removal, acts>>

CallWatcher(t) ==
    /\ call # Null /\ call.by = t /\ ~call.inside /\ call.next # End
    /\ call' = [call EXCEPT !.inside = TRUE, !.told = Append(@, call.next), !.next = After(@)]
    /\ UNCHANGED <<eventVars, drv, queue, notifying, watchers, removal, acts>>

WatcherReturns(t) ==
    /\ call # Null /\ call.by = t /\ call.inside
    /\ call' = [call EXCEPT !.inside = FALSE]
    /\ UNCHANGED <<eventVars, drv, queue, notifying, watchers, removal, acts>>

\* mutant: the list is left after its first notification
UnlockAndLeave(t) ==
    /\ call # Null /\ call.by = t /\ ~call.inside /\ call.next = End
    /\ call' = Null
    /\ done' = done \cup {notifying[t].note}
    /\ Goes(t, "Reset")
    /\ UNCHANGED <<eventVars, drv, list, pushed, made, watchers, removal, acts>>
Unlock(t) ==
    /\ call # Null /\ call.by = t /\ ~call.inside /\ call.next = End
    /\ call' = Null
    /\ done' = done \cup {notifying[t].note}
    /\ Goes(t, "Test")
    /\ UNCHANGED <<eventVars, drv, list, pushed, made, watchers, removal, acts>>

\* A watcher that is being called queues a notification, on the driver thread.
WatcherQueues ==
    /\ call # Null /\ call.by = Driver /\ call.inside
    /\ CanQueue /\ Push(Driver) /\ Signal(NotificationsEvent, TRUE)
    /\ UNCHANGED <<watched, setting, wait, drv, pushed, done, delivery, removal, acts>>

\* m_notificationMutex is free or the thread's own.
MayChange(t) == call # Null => call.by = t /\ call.inside
Act == acts < MaxActs /\ acts' = acts + 1
Change == Act /\ UNCHANGED <<eventVars, drv, queue, notifying, removal>>

\* mutant: a watcher is added whether it is on the list or not
AddAgain(t, w) ==
    /\ MayChange(t)
    /\ watchers' = Append(watchers, w)
    /\ UNCHANGED call
    /\ Change
ManagerAddWatcher(t, w) ==
    /\ MayChange(t) /\ w \notin Registered
    /\ watchers' = Append(watchers, w)
    /\ UNCHANGED call
    /\ Change

Without(w) == RemoveAt(watchers, Position(w))
\* mutant: an iterator that points to the watcher is left alone
RemoveOnly(t, w) ==
    /\ MayChange(t) /\ w \in Registered
    /\ watchers' = Without(w)
    /\ call' = IF call = Null THEN Null ELSE [call EXCEPT !.since = @ \ {w}]
    /\ Change
ManagerRemoveWatcher(t, w) ==
    /\ MayChange(t) /\ w \in Registered
    /\ watchers' = Without(w)
    /\ call' = IF call = Null THEN Null
               ELSE [call EXCEPT !.since = @ \ {w}, !.next = IF @ = w THEN After(w) ELSE @]
    /\ Change

(***************************************************************************)
(* DriverThreadProc: while an answer is awaited it waits with a timeout.   *)
(***************************************************************************)
TopOfLoop ==
    /\ drv.pc = "Top"
    /\ Multiple(Work + 1, drv.busy)
    /\ drv' = [drv EXCEPT !.pc = "Wait"]
    /\ UNCHANGED <<queue, delivery, removal, acts>>

Waits ==
    /\ drv.pc = "Wait" /\ WaitStep
    /\ UNCHANGED <<drv, queue, delivery, removal, acts>>

Returned(res) == drv.pc = "Wait" /\ wait.pc = "Returned" /\ wait.res = res
\* What is done for the object, and whether an answer is awaited then.
Handled(flags) ==
    /\ MayQueueOwn(flags)
    /\ \E busy \in BOOLEAN : drv' = [pc |-> "Top", busy |-> busy]
    /\ UNCHANGED <<watched, setting, wait, pushed, done, delivery, removal, acts>>

TimedOut ==
    /\ Returned(-1)
    /\ IF drv.busy THEN Handled(signalled)
       ELSE /\ drv' = [drv EXCEPT !.pc = "Top"]
            /\ UNCHANGED <<eventVars, queue, delivery, removal, acts>>

ExitSignalled ==
    /\ Returned(Exit)
    /\ drv' = [drv EXCEPT !.pc = "Ended"]
    /\ UNCHANGED <<eventVars, queue, delivery, removal, acts>>

NotificationsWaiting ==
    /\ Returned(NotificationsEvent)
    /\ drv' = [drv EXCEPT !.pc = "Notify"]
    /\ Goes(Driver, "Test")
    /\ UNCHANGED <<eventVars, queue, watchers, call, removal, acts>>

\* ReadMsg and WriteNextMsg: there may be more of it.
WorkWaiting ==
    /\ Returned(Work) /\ \A t \in Setter : setting[t] # Work
    /\ \E more \in BOOLEAN : Handled([signalled EXCEPT ![Work] = @ /\ more])

(***************************************************************************)
(* Other threads: data arrives or a message is queued; the last message of *)
(* the queues is removed.                                                  *)
(***************************************************************************)
WorkArrives(t) ==
    /\ t \notin pushed
    /\ Act
    /\ SetFlag(t, Work)
    /\ UNCHANGED <<drv, queue, delivery, removal>>

QueueEmptied ==
    /\ ~drv.busy /\ \A t \in Setter : setting[t] # Work
    /\ signalled[Work] /\ Signal(Work, FALSE)
    /\ UNCHANGED <<watched, setting, wait, drv, queue, delivery, removal, acts>>

(***************************************************************************)
(* ~Driver: DriverRemoved is queued and delivered, then the driver thread  *)
(* is stopped, and what is left is delivered or thrown away.               *)
(***************************************************************************)
Quiet(t) == t \notin pushed /\ setting[t] = Null
Removing(from, to) == removal = from /\ removal' = to

BeginRemoval ==
    /\ Remover # Null /\ Removing("No", "Announced")
    /\ CanQueue /\ Push(Remover)
    /\ pushed' = pushed \cup {Remover}
    /\ UNCHANGED <<eventVars, drv, done, delivery, acts>>

NotifyRemoved ==
    /\ Removing("Announced", "Notifying") /\ Quiet(Remover)
    /\ Goes(Remover, "Test")
    /\ UNCHANGED <<eventVars, drv, queue, watchers, call, acts>>

StopDriverThread ==
    /\ Removing("Stop", "Stopping")
    /\ SetFlag(Remover, Exit)
    /\ UNCHANGED <<drv, queue, delivery, acts>>

Unload ==
    /\ drv.pc = "Ended" /\ \A t \in Setter : Quiet(t)
    /\ \/ Removing("Stopping", "Unloading") /\ Goes(Remover, "Test") /\ UNCHANGED list
       \/ Removing("Stopping", "Gone") /\ list' = <<>> /\ UNCHANGED notifying
    /\ UNCHANGED <<eventVars, drv, pushed, made, done, watchers, call, acts>>

(***************************************************************************)
(* The specification.                                                      *)
(***************************************************************************)
Init ==
    /\ EventInit
    /\ drv = [pc |-> "Top", busy |-> FALSE]
    /\ list = <<>> /\ pushed = {} /\ made = <<>> /\ done = {}
    /\ notifying = [t \in Deliverer |-> [at |-> "None", note |-> 0]]
    /\ watchers = Initial /\ call = Null
    /\ removal = "No" /\ acts = 0

Delivers(t) ==
    \/ TestEmpty(t) \/ TakeFront(t) \/ ResetEvent(t)
    \/ Lock(t) \/ CallWatcher(t) \/ WatcherReturns(t) \/ Unlock(t)
DriverStep ==
    \/ TopOfLoop \/ Waits \/ TimedOut \/ ExitSignalled
    \/ NotificationsWaiting \/ WorkWaiting \/ Delivers(Driver)
Finishes(t) == SetNotificationsEvent(t) \/ CallEventWatchers(t)
RemovalStep ==
    \/ NotifyRemoved \/ StopDriverThread \/ Unload
    \/ \E t \in Deliverer \ {Driver} : Delivers(t)
InUse == removal = "No"

Next ==
    \/ DriverStep \/ WatcherQueues
    \/ \E t \in Setter : Finishes(t)
    \/ \E t \in App : InUse /\ (QueueNotification(t) \/ WorkArrives(t) \/ QueueEmptied)
    \/ \E t \in App \cup Deliverer, w \in Watcher :
         ManagerAddWatcher(t, w) \/ ManagerRemoveWatcher(t, w)
    \/ BeginRemoval
    \/ RemovalStep

Spec == Init /\ [][Next]_vars

\* The threads go on, and the application's watchers return.
Fairness ==
    /\ WF_vars(DriverStep) /\ WF_vars(RemovalStep)
    /\ \A t \in Setter : WF_vars(Finishes(t))
FairSpec == Spec /\ Fairness

(***************************************************************************)
(* Properties.                                                             *)
(***************************************************************************)
Place == {"None", "Test", "Front", "Taken", "Reset", "Crashed"}
CallRec == [by : Deliverer, next : Watcher \cup {End}, inside : BOOLEAN,
            told : Seq(Watcher), since : SUBSET Watcher]
\* Everything keeps its type, and no watcher is on the list twice.
TypeOK ==
    /\ EventTypeOK
    /\ \A j, k \in DOMAIN watchers : j # k => watchers[j] # watchers[k]
    /\ drv \in [pc : {"Top", "Wait", "Notify", "Ended"}, busy : BOOLEAN]
    /\ list \in Seq(Notes) /\ pushed \subseteq Setter
    /\ made \in Seq(Setter \cup {Driver}) /\ Len(made) <= MaxNotes
    /\ done \subseteq Notes
    /\ notifying \in [Deliverer -> [at : Place, note : 0..MaxNotes]]
    /\ watchers \in Seq(Watcher) /\ call \in CallRec \cup {Null}
    /\ removal \in {"No", "Announced", "Notifying", "Stop", "Stopping", "Unloading", "Gone"}
    /\ acts \in 0..MaxActs

(***************************************************************************)
(* While the Manager passes a notification on, watchers come and go under  *)
(* its feet, also by their own hand: the iterator always points to one     *)
(* that is registered, no watcher that stays is called twice or left out.  *)
(***************************************************************************)
ToldOnce ==
    call # Null =>
        /\ call.next \in Registered \cup {End}
        /\ \A w \in call.since, j, k \in DOMAIN call.told :
             call.told[j] = w /\ call.told[k] = w => j = k
        /\ call.next = End => \A w \in call.since : \E k \in DOMAIN call.told : call.told[k] = w

(***************************************************************************)
(* What the driver thread queues itself, in its handlers or in a watcher   *)
(* it calls, reaches the watchers although the event is reset after the    *)
(* list was found empty: the driver removed or broken excepted.            *)
(***************************************************************************)
Ended == removal # "No" \/ crashed
OwnDelivered ==
    \A k \in Notes : k <= Len(made) /\ made[k] = Driver ~> k \in done \/ Ended
=============================================================================
