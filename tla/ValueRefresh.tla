---------------------------- MODULE ValueRefresh ----------------------------
(***************************************************************************)
(* How the value of a device is kept (src/cpp/src/value_classes/Value.cpp, *)
(* ValueByte.cpp, ValueStore.cpp). A report is handled on the driver       *)
(* thread, without m_nodeMutex. A change is taken at once, or verified: it *)
(* counts when the device has said the same twice, and to ask again a      *)
(* timer event is set, whose callback, on the timer thread, queues a Get.  *)
(* A report with a target value is refreshed until the target is reached.  *)
(* An application sets the value through a temporary copy, which has the   *)
(* Timer base of the original copied with it, list of events included. The *)
(* driver thread deletes the value with its node.                          *)
(*                                                                         *)
(* Each value is on a node of its own. The level of a device and the time  *)
(* of its reports are anything. Where a list iterator is used after its    *)
(* element was erased the model ends (undefined).                          *)
(*                                                                         *)
(* A definition marked "mutant" is the variant with a plausible bug of the *)
(* definition that follows it; nothing uses it but the mutation runs.      *)
(***************************************************************************)
EXTENDS Timers

CONSTANTS
    Verified,           \* values whose changes are verified
    Targeted,           \* values whose reports may carry a target
    RefreshAfterSet,    \* values with m_refreshAfterSet
    LevelOf,            \* what the device of a value can report
    Default,            \* the level at first
    Restored,           \* values that were read before, from the cache
    None,               \* no report, no target
    MaxReports,         \* bound on reports that nothing asked for
    MaxSets             \* bound on SetValue

ASSUME ValueConstants ==
    /\ Verified \subseteq Timer /\ Targeted \subseteq Timer /\ RefreshAfterSet \subseteq Timer
    /\ DOMAIN LevelOf = Timer /\ \A v \in Timer : Default \in LevelOf[v] /\ None \notin LevelOf[v]
    /\ Restored \subseteq Timer
    /\ MaxReports \in Nat /\ MaxSets \in Nat

Level == UNION {LevelOf[v] : v \in Timer}

VARIABLES
    value,          \* m_value, m_valueCheck, m_checkChange, m_isSet, target of each value
    asked,          \* values for which a Get is queued or unanswered
    lost,           \* ghost: values a Get for which came to nothing, since their last report
    exists,         \* values that are not destroyed
    driver,         \* the driver thread in a handler
    app,            \* the application thread in SetValue
    nodeMutex,      \* who holds m_nodeMutex across steps
    seen,           \* ghost: the last two reports of each verified value
    undefined,
    counters

vars == <<timerVars, value, asked, lost, exists, driver, app, nodeMutex, seen, undefined, counters>>

ValueRec == [value : Level, check : Level, checking : BOOLEAN, isSet : BOOLEAN,
             target : Level \cup {None}]
Unread(read) == [value |-> Default, check |-> Default, checking |-> FALSE, isSet |-> read,
                 target |-> None]
Idle == [pc |-> "idle", v |-> Null, te |-> Null, check |-> None, erased |-> FALSE]

(***************************************************************************)
(* A report arrives, asked for or not, with a target or without.           *)
(***************************************************************************)
Arrives(v, x, goal) ==
    /\ driver = Idle /\ v \in exists /\ ~undefined
    /\ goal # None => v \in Targeted
    /\ \/ v \in asked /\ asked' = asked \ {v} /\ UNCHANGED counters
       \/ /\ counters.reports < MaxReports
          /\ counters' = [counters EXCEPT !.reports = @ + 1]
          /\ UNCHANGED asked
    /\ lost' = lost \ {v}
    /\ seen' = IF v \in Verified THEN [seen EXCEPT ![v] = <<@[2], x>>] ELSE seen
    /\ UNCHANGED <<timerVars, exists, app, nodeMutex, undefined>>

\* m_targetValue after SetTargetValue; None is m_targetValueSet = false.
TargetAfter(v, goal) == IF goal # None THEN goal ELSE value[v].target

\* VerifyRefreshedValue has returned 2 (the report counts) or 0 (it changes nothing).
Settled(v, new) == value' = [value EXCEPT ![v] = new] /\ UNCHANGED driver
\* It sets a timer event first, and returns 1 (the report is kept to compare) or 0.
SetsTimer(v, new, check) ==
    /\ Len(owner) < MaxEvents
    /\ value' = [value EXCEPT ![v] = new]
    /\ driver' = [Idle EXCEPT !.pc = "set", !.v = v, !.check = check]

FirstRead(v, x, goal) ==
    /\ Arrives(v, x, goal) /\ ~value[v].isSet
    /\ Settled(v, [value[v] EXCEPT !.isSet = TRUE, !.value = x, !.target = TargetAfter(v, goal)])

AtTarget(v, x, goal) ==
    /\ Arrives(v, x, goal) /\ value[v].isSet /\ TargetAfter(v, goal) = x
    /\ Settled(v, [value[v] EXCEPT !.value = x, !.target = None])

OffTarget(v, x, goal) ==
    /\ Arrives(v, x, goal) /\ value[v].isSet /\ TargetAfter(v, goal) \notin {None, x}
    /\ SetsTimer(v, [value[v] EXCEPT !.target = TargetAfter(v, goal)], None)

Untargeted(v, x, goal) ==
    Arrives(v, x, goal) /\ value[v].isSet /\ TargetAfter(v, goal) = None

Unverified(v, x, goal) ==
    /\ Untargeted(v, x, goal) /\ v \notin Verified
    /\ Settled(v, [value[v] EXCEPT !.value = x])

SameAgain(v, x, goal) ==
    /\ Untargeted(v, x, goal) /\ v \in Verified
    /\ ~value[v].checking /\ x = value[v].value
    /\ Settled(v, value[v])

Suspected(v, x, goal) ==
    /\ Untargeted(v, x, goal) /\ v \in Verified
    /\ ~value[v].checking /\ x # value[v].value
    /\ SetsTimer(v, [value[v] EXCEPT !.checking = TRUE], x)

Confirmed(v, x, goal) ==
    /\ Untargeted(v, x, goal) /\ v \in Verified
    /\ value[v].checking /\ x = value[v].check
    /\ Settled(v, [value[v] EXCEPT !.checking = FALSE, !.value = x])

Spurious(v, x, goal) ==
    /\ Untargeted(v, x, goal) /\ v \in Verified
    /\ value[v].checking /\ x # value[v].check /\ x = value[v].value
    /\ Settled(v, [value[v] EXCEPT !.checking = FALSE])

\* mutant: the first reading is kept to compare with
FirstKept(v, x, goal) ==
    /\ Untargeted(v, x, goal) /\ v \in Verified
    /\ value[v].checking /\ x \notin {value[v].check, value[v].value}
    /\ SetsTimer(v, value[v], None)
\* mutant: the next report is waited for, as ValueByte's "case 3" has it
WaitsForNext(v, x, goal) ==
    /\ Untargeted(v, x, goal) /\ v \in Verified
    /\ value[v].checking /\ x \notin {value[v].check, value[v].value}
    /\ Settled(v, value[v])
ChangedAgain(v, x, goal) ==
    /\ Untargeted(v, x, goal) /\ v \in Verified
    /\ value[v].checking /\ x \notin {value[v].check, value[v].value}
    /\ SetsTimer(v, value[v], x)

OnValueRefreshed(v, x, goal) ==
    \/ FirstRead(v, x, goal) \/ AtTarget(v, x, goal) \/ OffTarget(v, x, goal)
    \/ Unverified(v, x, goal) \/ SameAgain(v, x, goal) \/ Suspected(v, x, goal)
    \/ Confirmed(v, x, goal) \/ Spurious(v, x, goal) \/ ChangedAgain(v, x, goal)

SetsEvent ==
    /\ driver.pc = "set" /\ ~undefined
    /\ \E a \in Address :
         TimerSetEvent(driver.v, a) /\ driver' = [driver EXCEPT !.pc = "own", !.te = a]
    /\ UNCHANGED <<value, asked, lost, exists, app, nodeMutex, seen, undefined, counters>>

\* mutant: only the timer thread knows of the event
NotKept ==
    /\ driver.pc = "own"
    /\ value' = IF driver.check = None THEN value
                ELSE [value EXCEPT ![driver.v].check = driver.check]
    /\ driver' = Idle
    /\ UNCHANGED <<timerVars, asked, lost, exists, app, nodeMutex, seen, undefined, counters>>
KeepsEvent ==
    /\ driver.pc = "own"
    /\ KeepEvent(driver.v, driver.te)
    /\ value' = IF driver.check = None THEN value
                ELSE [value EXCEPT ![driver.v].check = driver.check]
    /\ driver' = Idle
    /\ UNCHANGED <<entry, timerEventList, timerEvent, timer, owner, fired, cut,
                   asked, lost, exists, app, nodeMutex, seen, undefined, counters>>

(***************************************************************************)
(* The timer thread. sendValueRefresh ends in SendMsg, which takes         *)
(* m_nodeMutex, or in nothing: there is no driver, node or command class,  *)
(* RequestValue declines, or SendMsg deletes the Get for a sleeping node.  *)
(***************************************************************************)
SendValueRefresh ==
    /\ Fires /\ nodeMutex = Null /\ ~undefined
    /\ asked' = asked \cup {entry[timer.te].of}
    /\ UNCHANGED <<value, lost, exists, driver, app, nodeMutex, seen, undefined, counters>>

AsksNothing ==
    /\ Fires /\ ~undefined
    /\ lost' = lost \cup {entry[timer.te].of}
    /\ UNCHANGED <<value, asked, exists, driver, app, nodeMutex, seen, undefined, counters>>

\* A destructor that waits for m_timerMutex has an iterator to the entry.
Deletes ==
    /\ TimerDeletes
    /\ driver' = [driver EXCEPT !.erased = @ \/
                     (driver.pc = "delete" /\ driver.te = timer.te
                        /\ driver.v = entry[timer.te].of)]
    /\ UNCHANGED <<value, asked, lost, exists, app, nodeMutex, seen, undefined, counters>>

Scans ==
    /\ Wakes \/ Remains \/ Expired \/ ScanEnds
    /\ UNCHANGED <<value, asked, lost, exists, driver, app, nodeMutex, seen, undefined, counters>>

TimePasses(a) ==
    /\ BecomesDue(a)
    /\ UNCHANGED <<value, asked, lost, exists, driver, app, nodeMutex, seen, undefined, counters>>

\* The driver thread drops a Get, after its last attempt or as the node is dead.
GetDropped(v) ==
    /\ driver = Idle /\ v \in asked /\ ~undefined
    /\ asked' = asked \ {v} /\ lost' = lost \cup {v}
    /\ UNCHANGED <<timerVars, value, exists, driver, app, nodeMutex, seen, undefined, counters>>

(***************************************************************************)
(* Manager::SetValue and ValueByte::Set, under m_nodeMutex: Set and Get    *)
(* are queued, and the copy is deleted.                                    *)
(***************************************************************************)
BeginSetValue(v) ==
    /\ app.pc = "idle" /\ nodeMutex = Null /\ v \in exists /\ ~undefined
    /\ counters.sets < MaxSets /\ counters' = [counters EXCEPT !.sets = @ + 1]
    /\ nodeMutex' = "app"
    /\ app' = [pc |-> "copy", rest |-> ownEvents[v]]
    /\ asked' = asked \cup ({v} \cap RefreshAfterSet)
    /\ UNCHANGED <<timerVars, value, lost, exists, driver, seen, undefined>>

CopyDeletes ==
    /\ app.pc = "copy" /\ app.rest # <<>> /\ TimerMutexFree
    /\ TimerDelEvent(Null, Head(app.rest))
    /\ app' = [app EXCEPT !.rest = Tail(@)]
    /\ UNCHANGED <<ownEvents, timer, value, asked, lost, exists, driver, nodeMutex,
                   seen, undefined, counters>>

EndSetValue ==
    /\ app.pc = "copy" /\ app.rest = <<>>
    /\ app' = [pc |-> "idle", rest |-> <<>>]
    /\ nodeMutex' = Null
    /\ UNCHANGED <<timerVars, value, asked, lost, exists, driver, seen, undefined, counters>>

(***************************************************************************)
(* The node is deleted, with m_nodeMutex held, and its value with it.      *)
(***************************************************************************)
BeginRemoval(v) ==
    /\ driver = Idle /\ nodeMutex = Null /\ v \in exists /\ ~undefined
    /\ nodeMutex' = "driver"
    /\ driver' = [Idle EXCEPT !.pc = "destroy", !.v = v]
    /\ UNCHANGED <<timerVars, value, asked, lost, exists, app, seen, undefined, counters>>

TakesEvent ==
    /\ driver.pc = "destroy" /\ ownEvents[driver.v] # <<>>
    /\ driver' = [driver EXCEPT !.pc = "delete", !.te = Head(ownEvents[driver.v])]
    /\ UNCHANGED <<timerVars, value, asked, lost, exists, app, nodeMutex, seen, undefined, counters>>

DeletesEvent ==
    /\ driver.pc = "delete" /\ TimerMutexFree /\ ~undefined
    /\ TimerDelEvent(driver.v, driver.te)
    /\ IF driver.erased THEN undefined' = TRUE /\ UNCHANGED ownEvents
       ELSE /\ ownEvents' = [ownEvents EXCEPT ![driver.v] = Tail(@)]
            /\ UNCHANGED undefined
    /\ driver' = [driver EXCEPT !.pc = "destroy"]
    /\ UNCHANGED <<timer, value, asked, lost, exists, app, nodeMutex, seen, counters>>

EndRemoval ==
    /\ driver.pc = "destroy" /\ ownEvents[driver.v] = <<>>
    /\ exists' = exists \ {driver.v}
    /\ asked' = asked \ {driver.v} /\ lost' = lost \ {driver.v}
    /\ value' = [value EXCEPT ![driver.v] = Unread(FALSE)]
    /\ seen' = [seen EXCEPT ![driver.v] = <<None, None>>]
    /\ nodeMutex' = Null
    /\ driver' = Idle
    /\ UNCHANGED <<timerVars, app, undefined, counters>>

(***************************************************************************)
(* The specification.                                                      *)
(***************************************************************************)
Init ==
    /\ TimerInit
    /\ value = [v \in Timer |-> Unread(v \in Restored)]
    /\ asked = {} /\ lost = {} /\ exists = Timer
    /\ driver = Idle /\ app = [pc |-> "idle", rest |-> <<>>] /\ nodeMutex = Null
    /\ seen = [v \in Timer |-> <<None, None>>]
    /\ undefined = FALSE /\ counters = [reports |-> 0, sets |-> 0]

DriverGoesOn == SetsEvent \/ KeepsEvent \/ TakesEvent \/ DeletesEvent \/ EndRemoval
AppGoesOn == CopyDeletes \/ EndSetValue
TimerStep == Scans \/ SendValueRefresh \/ Deletes

Next ==
    \/ \E v \in Timer : \E x \in LevelOf[v], goal \in LevelOf[v] \cup {None} :
         OnValueRefreshed(v, x, goal)
    \/ \E v \in Timer : BeginSetValue(v) \/ BeginRemoval(v) \/ GetDropped(v)
    \/ DriverGoesOn \/ AppGoesOn \/ TimerStep \/ AsksNothing
    \/ \E a \in Address : TimePasses(a)

Spec == Init /\ [][Next]_vars
\* Each thread goes on with what it has begun, and time passes.
Fairness ==
    /\ WF_vars(DriverGoesOn) /\ WF_vars(AppGoesOn) /\ WF_vars(TimerStep)
    /\ \A a \in Address : WF_vars(TimePasses(a))
FairSpec == Spec /\ Fairness

(***************************************************************************)
(* Properties.                                                             *)
(***************************************************************************)
\* Everything keeps its type, and the timer thread's list is what is allocated.
TypeOK ==
    /\ TimerTypeOK
    /\ value \in [Timer -> ValueRec]
    /\ asked \subseteq Timer /\ lost \subseteq Timer /\ exists \subseteq Timer
    /\ driver \in [pc : {"idle", "set", "own", "destroy", "delete"}, v : Timer \cup {Null},
                   te : Address \cup {Null}, check : Level \cup {None}, erased : BOOLEAN]
    /\ app \in [pc : {"idle", "copy"}, rest : Seq(Address)]
    /\ nodeMutex \in {Null, "app", "driver"}
    /\ seen \in [Timer -> (Level \cup {None}) \X (Level \cup {None})]
    /\ undefined \in BOOLEAN
    /\ counters \in [reports : 0..MaxReports, sets : 0..MaxSets]

(***************************************************************************)
(* No callback on freed memory: whatever copies have deleted, whatever was *)
(* fired while it was being set, no event outlives the value it calls.     *)
(***************************************************************************)
CallbacksLive == undefined \/ \A a \in Address : entry[a] # Null => entry[a].of \in exists

(***************************************************************************)
(* A verified value changes only to what the device has said twice in a    *)
(* row, its first reading excepted; once something else was said between,  *)
(* it takes two again. The second report need not answer the Get of the    *)
(* verification: an unsolicited one confirms as well, before the event has *)
(* even fired. The value may have no target: a report that meets the       *)
(* target is believed at once.                                             *)
(***************************************************************************)
ChangeConfirmed ==
    [][\A v \in Verified \ Targeted :
         value'[v].value # value[v].value =>
            ~value[v].isSet \/ v \notin exists' \/ seen'[v] = <<value'[v].value, value'[v].value>>]_vars

(***************************************************************************)
(* A value under verification is left alone by three paths only: the Get   *)
(* its callback should queue came to nothing (lost), SetValue deleted its  *)
(* event with the copy it makes (Cut), or an iterator was used after its   *)
(* element was erased. Otherwise an event is set for it, or about to be,   *)
(* or a Get is under way, whatever the order of reports, scans and         *)
(* deletions.                                                              *)
(***************************************************************************)
Scheduled(v) == \E a \in Address : entry[a] # Null /\ entry[a].of = v
Cut(v) == \E k \in cut : owner[k] = v
RefreshFollows ==
    \A v \in (Verified \ Targeted) \cap exists :
        value[v].checking =>
            \/ Scheduled(v) \/ v \in asked \/ driver.v = v
            \/ v \in lost \/ Cut(v) \/ undefined

(***************************************************************************)
(* An event that was set happens, though it is set while the list is       *)
(* scanned or fires before its value knows of it. The exceptions are the   *)
(* end of its value, the deletion by a copy, and a deadlock: the timer     *)
(* thread holds m_timerMutex and wants m_nodeMutex, SetValue or the        *)
(* removal of a node hold that and want the first.                         *)
(***************************************************************************)
LockedUp ==
    timer.pc = "fire" /\ \/ nodeMutex = "app" /\ app.rest # <<>>
                         \/ nodeMutex = "driver" /\ driver.pc = "delete"
Happened(k) ==
    k \in fired \/ (k \in DOMAIN owner /\ owner[k] \notin exists) \/ LockedUp \/ undefined
EventsHappen == \A k \in Events : k <= Len(owner) ~> Happened(k) \/ k \in cut
=============================================================================
