------------------------- MODULE NotificationsProofs -------------------------
(***************************************************************************)
(* Machine-checked proofs about EventWait and Notifications, for any       *)
(* threads, watchers and bounds: everything keeps its type, no wake-up is  *)
(* lost, and a watcher that stays registered is called once.               *)
(***************************************************************************)
EXTENDS Notifications, SequenceLemmas

-----------------------------------------------------------------------------
(* Events and waits.                                                       *)

(***************************************************************************)
(* What the wait has done for the objects it has come past: it watches     *)
(* them, and one that is signalled has woken it or is about to.            *)
(***************************************************************************)
Heard(o) ==
    /\ o \in watched
    /\ signalled[o] => wait.event \/ \E t \in Setter : setting[t] = o
WaitInv ==
    /\ wait.pc \in {"Add", "Test"} =>
         wait.at < wait.count /\ \A o \in Object : o < wait.at => Heard(o)
    /\ wait.pc = "Test" => wait.at \in watched
    /\ wait.pc = "Block" => \A o \in Object : o < wait.count => Heard(o)

(***************************************************************************)
(* All that a step does to the events: other threads signal and call       *)
(* watchers, the waiting thread begins to wait or goes on, events are      *)
(* reset, and set by the waiting thread itself while it does not wait.     *)
(***************************************************************************)
Assigned ==
    /\ UNCHANGED <<watched, setting, wait>> /\ signalled' \in [Object -> BOOLEAN]
    /\ wait.pc = "Returned" \/ \A o \in Object : signalled'[o] => signalled[o]
EventStep ==
    \/ UNCHANGED eventVars
    \/ \E t \in Setter, o \in Object : SetFlag(t, o)
    \/ \E t \in Setter : Notify(t)
    \/ \E timed \in BOOLEAN : Multiple(LastObject + 1, timed)
    \/ WaitStep
    \/ Assigned

LEMMA OnwardType ==
    ASSUME wait \in WaitRec,
           NEW again \in {"Add", "Scan"}, NEW out \in {"Scan", "Block", "Remove"}
    PROVE  /\ Onward(again, out) \in WaitRec
           /\ Onward(again, out).event = wait.event /\ Onward(again, out).count = wait.count
           /\ Onward(again, out).res = wait.res
           /\ \/ /\ wait.at + 1 < wait.count
                 /\ Onward(again, out).pc = again /\ Onward(again, out).at = wait.at + 1
              \/ ~(wait.at + 1 < wait.count) /\ Onward(again, out).pc = out
<1> USE EventConstants DEF WaitRec, Object
<1>1. CASE wait.at + 1 < wait.count
  <2> DEFINE at == wait.at + 1
  <2>1. at \in 0..LastObject
    BY <1>1
  <2>2. Onward(again, out) = [wait EXCEPT !.pc = again, !.at = at]
    BY <1>1 DEF Onward
  <2>3. [wait EXCEPT !.pc = again, !.at = at] \in WaitRec
    <3> HIDE DEF at
    <3> QED
      BY <2>1
  <2>4. Onward(again, out) \in WaitRec
    <3> HIDE DEF at, WaitRec
    <3> QED
      BY <2>2, <2>3
  <2> QED
    BY <1>1, <2>2, <2>4
<1>2. CASE ~(wait.at + 1 < wait.count)
  <2>1. Onward(again, out) = [wait EXCEPT !.pc = out, !.at = 0]
    BY <1>2 DEF Onward
  <2>2. [wait EXCEPT !.pc = out, !.at = 0] \in WaitRec
    <3>1. 0 \in Object
      OBVIOUS
    <3> HIDE DEF Object
    <3> QED
      BY <3>1
  <2>3. Onward(again, out) \in WaitRec
    <3> HIDE DEF WaitRec
    <3> QED
      BY <2>1, <2>2
  <2> QED
    BY <1>2, <2>1, <2>3
<1> QED
  BY <1>1, <1>2

(* Events keep their type, whatever happens to them. *)
LEMMA EventTypeStep ==
    ASSUME EventTypeOK, WaitInv, EventStep
    PROVE  EventTypeOK'
<1> USE EventConstants DEF EventTypeOK, Object, WaitRec
<1>1. CASE UNCHANGED eventVars
  BY <1>1 DEF eventVars
<1>2. CASE \E t \in Setter, o \in Object : SetFlag(t, o)
  BY <1>2 DEF SetFlag
<1>3. CASE \E t \in Setter : Notify(t)
  BY <1>3 DEF Notify
<1>4. CASE \E timed \in BOOLEAN : Multiple(LastObject + 1, timed)
  BY <1>4 DEF Multiple
<1>5. CASE WaitStep
  <2>1. CASE AddWatcher
    BY <2>1 DEF AddWatcher
  <2>2. CASE TestSignalled
    <3> DEFINE event == wait.event \/ signalled[wait.at]
               next == Onward("Add", IF event THEN "Scan" ELSE "Block")
    <3>1. event \in BOOLEAN /\ UNCHANGED <<signalled, watched, setting>>
      BY <2>2 DEF TestSignalled
    <3>2. next \in WaitRec
      BY OnwardType
    <3>3. wait' = [next EXCEPT !.event = event]
      BY <2>2 DEF TestSignalled
    <3> HIDE DEF event, next
    <3> QED
      BY <3>1, <3>2, <3>3
  <2>3. CASE WakeUp
    BY <2>3 DEF WakeUp
  <2>4. CASE TimeOut
    BY <2>4 DEF TimeOut
  <2>5. CASE Scan
    <3> DEFINE next == Onward("Scan", "Remove")
               res == IF wait.res = -1 /\ signalled[wait.at] THEN wait.at ELSE wait.res
    <3>1. next \in WaitRec /\ next.res = wait.res /\ res \in Object \cup {-1}
      BY OnwardType
    <3>2. wait' = [next EXCEPT !.res = res] /\ UNCHANGED <<signalled, watched, setting>>
      BY <2>5, <3>1 DEF Scan
    <3> HIDE DEF next, res
    <3> QED
      BY <3>1, <3>2
  <2>6. CASE RemoveWatchers
    BY <2>6 DEF RemoveWatchers
  <2> QED
    BY <1>5, <2>1, <2>2, <2>3, <2>4, <2>5, <2>6 DEF WaitStep
<1>6. CASE Assigned
  BY <1>6 DEF Assigned
<1> QED
  BY <1>1, <1>2, <1>3, <1>4, <1>5, <1>6 DEF EventStep

(* Nor does anything make the wait deaf to an object it has come past. *)
LEMMA WaitStepSafe ==
    ASSUME EventTypeOK, WaitInv, EventStep
    PROVE  WaitInv'
<1> USE EventConstants DEF EventTypeOK, Object, WaitRec, WaitInv, Heard
<1>1. CASE UNCHANGED eventVars
  BY <1>1 DEF eventVars
<1>2. ASSUME NEW t \in Setter, NEW o \in Object, SetFlag(t, o)
      PROVE  WaitInv'
  <2>1. setting[t] = Null /\ setting'[t] = o
    BY <1>2 DEF SetFlag
  <2>2. \A p \in Object : signalled'[p] => signalled[p] \/ p = o
    BY <1>2 DEF SetFlag
  <2>3. \A p \in Object : (\E u \in Setter : setting[u] = p) => \E u \in Setter : setting'[u] = p
    BY <1>2 DEF SetFlag
  <2>4. \A p \in Object : Heard(p) => Heard(p)'
    BY <1>2, <2>1, <2>2, <2>3 DEF SetFlag
  <2> QED
    BY <1>2, <2>4 DEF SetFlag
<1>3. ASSUME NEW t \in Setter, Notify(t)
      PROVE  WaitInv'
  <2>1. \A p \in Object : (\E u \in Setter : setting[u] = p) =>
          p = setting[t] \/ \E u \in Setter : setting'[u] = p
    BY <1>3 DEF Notify
  <2>2. /\ wait' = [wait EXCEPT !.event = wait.event \/ setting[t] \in watched]
        /\ wait.event => wait'.event
    BY <1>3 DEF Notify
  <2>3. \A p \in Object : Heard(p) => Heard(p)'
    BY <1>3, <2>1, <2>2 DEF Notify
  <2> QED
    BY <1>3, <2>2, <2>3 DEF Notify
<1>4. CASE \E timed \in BOOLEAN : Multiple(LastObject + 1, timed)
  BY <1>4 DEF Multiple
<1>5. CASE WaitStep
  <2>1. CASE AddWatcher
    BY <2>1 DEF AddWatcher
  <2>2. CASE TestSignalled
    <3>1. UNCHANGED <<signalled, watched, setting>> /\ wait.pc = "Test"
      BY <2>2 DEF TestSignalled
    <3>2. wait'.event = (wait.event \/ signalled[wait.at]) /\ wait'.count = wait.count
      BY <2>2 DEF TestSignalled, Onward
    <3>3. \A o \in Object : o < wait.at + 1 => Heard(o)'
      BY <3>1, <3>2
    <3>4. \/ wait.at + 1 < wait.count /\ wait'.pc = "Add" /\ wait'.at = wait.at + 1
          \/ wait.at + 1 >= wait.count /\ wait'.pc \in {"Scan", "Block"}
      BY <2>2 DEF TestSignalled, Onward
    <3> QED
      BY <3>1, <3>2, <3>3, <3>4
  <2>3. CASE WakeUp
    BY <2>3 DEF WakeUp
  <2>4. CASE TimeOut
    BY <2>4 DEF TimeOut
  <2>5. CASE Scan
    <3>1. wait.pc = "Scan" /\ wait'.pc \in {"Scan", "Remove"}
      BY <2>5 DEF Scan, Onward
    <3> QED
      BY <3>1
  <2>6. CASE RemoveWatchers
    BY <2>6 DEF RemoveWatchers
  <2> QED
    BY <1>5, <2>1, <2>2, <2>3, <2>4, <2>5, <2>6 DEF WaitStep
<1>6. CASE Assigned
  <2>1. wait.pc = "Returned" \/ \A p \in Object : Heard(p) => Heard(p)'
    BY <1>6 DEF Assigned
  <2> QED
    BY <1>6, <2>1 DEF Assigned
<1> QED
  BY <1>1, <1>2, <1>3, <1>4, <1>5, <1>6 DEF EventStep

(* The invariant says that no wake-up is lost. *)
LEMMA NoWakeUpLost == WaitInv => AwakeWhenSignalled
BY DEF WaitInv, Heard, AwakeWhenSignalled

-----------------------------------------------------------------------------
(* The invariant of Notifications.                                         *)

QueueType ==
    /\ list \in Seq(Notes) /\ pushed \subseteq Setter
    /\ made \in Seq(Setter \cup {Driver}) /\ Len(made) <= MaxNotes
    /\ done \subseteq Notes
Removal == {"No", "Announced", "Notifying", "Stop", "Stopping", "Unloading", "Gone"}
ControlType ==
    /\ drv \in [pc : {"Top", "Wait", "Notify", "Ended"}, busy : BOOLEAN]
    /\ removal \in Removal
    /\ acts \in 0..MaxActs
Distinct == \A j, k \in DOMAIN watchers : j # k => watchers[j] # watchers[k]
DeliveryType ==
    /\ notifying \in [Deliverer -> [at : Place, note : 0..MaxNotes]]
    /\ watchers \in Seq(Watcher) /\ Distinct
    /\ call \in CallRec \cup {Null}

(***************************************************************************)
(* The driver thread does one thing at a time, and so does the destructor; *)
(* who is in Manager::NotifyWatchers has taken a notification off the      *)
(* list.                                                                   *)
(***************************************************************************)
OneThing ==
    /\ wait.pc # "Returned" => drv.pc = "Wait"
    /\ ~At(Driver, "None") => drv.pc = "Notify"
    /\ removal # "No" => Remover # Null
    /\ Remover # Null /\ ~At(Remover, "None") => removal \in {"Notifying", "Unloading"}
    /\ \A t \in Deliverer : At(t, "Taken") => notifying[t].note \in Notes
    /\ call # Null => call.by \in Deliverer /\ At(call.by, "Taken")

(***************************************************************************)
(* The watchers that have been called are the ones before the iterator,    *)
(* as far as they were there from the beginning and still are.             *)
(***************************************************************************)
Before(w) == call.next = End \/ Position(w) < Position(call.next)
Told(w) == \E k \in DOMAIN call.told : call.told[k] = w
CallInv ==
    call # Null =>
        /\ call.next \in Registered \cup {End}
        /\ call.since \subseteq Registered
        /\ \A w \in call.since : Told(w) <=> Before(w)
        /\ \A w \in call.since, j, k \in DOMAIN call.told :
             call.told[j] = w /\ call.told[k] = w => j = k

IInv == EventTypeOK /\ WaitInv /\ QueueType /\ ControlType /\ DeliveryType /\ OneThing /\ CallInv

LEMMA DelivererFacts ==
    /\ Driver \in Deliverer /\ Driver \notin Setter
    /\ \A t \in Deliverer : t # Driver => t = Remover /\ t \in Setter /\ Remover # Null
    /\ Remover # Null => Remover \in Deliverer /\ Remover \in Setter
    /\ Remover # Driver
    /\ App \subseteq Setter
    /\ LastObject = 2
    /\ Exit \in Object /\ NotificationsEvent \in Object /\ Work \in Object
BY NotificationConstants, EventConstants
   DEF Deliverer, Object, Exit, NotificationsEvent, Work

-----------------------------------------------------------------------------
(* The list of watchers.                                                   *)

LEMMA PositionFacts ==
    ASSUME watchers \in Seq(Watcher), Distinct
    PROVE  /\ \A w \in Registered : /\ Position(w) \in 1..Len(watchers)
                                    /\ watchers[Position(w)] = w
           /\ \A k \in 1..Len(watchers) : /\ watchers[k] \in Registered
                                          /\ Position(watchers[k]) = k
           /\ Registered \subseteq Watcher
<1>1. DOMAIN watchers = 1..Len(watchers) /\ Len(watchers) \in Nat
  OBVIOUS
<1>2. \A w \in Registered : Position(w) \in DOMAIN watchers /\ watchers[Position(w)] = w
  BY DEF Registered, Position
<1>3. \A k \in DOMAIN watchers : watchers[k] \in Registered /\ watchers[k] \in Watcher
  BY DEF Registered
<1>4. \A k \in DOMAIN watchers : Position(watchers[k]) = k
  BY <1>2, <1>3 DEF Distinct
<1>5. Registered \subseteq Watcher
  BY <1>3 DEF Registered
<1> QED
  BY <1>1, <1>2, <1>3, <1>4, <1>5

LEMMA AfterFacts ==
    ASSUME watchers \in Seq(Watcher), Distinct, NEW w \in Registered
    PROVE  \/ Position(w) = Len(watchers) /\ After(w) = End
           \/ /\ Position(w) < Len(watchers)
              /\ After(w) \in Registered /\ Position(After(w)) = Position(w) + 1
<1>1. Position(w) \in 1..Len(watchers) /\ Len(watchers) \in Nat
  BY PositionFacts
<1>2. CASE Position(w) = Len(watchers)
  BY <1>2 DEF After
<1>3. CASE Position(w) # Len(watchers)
  <2>1. Position(w) + 1 \in 1..Len(watchers) /\ Position(w) < Len(watchers)
    BY <1>1, <1>3
  <2>2. After(w) = watchers[Position(w) + 1]
    BY <1>3 DEF After
  <2> QED
    BY <2>1, <2>2, PositionFacts
<1> QED
  BY <1>2, <1>3

(* A watcher at the end: those before it keep their places. *)
LEMMA AddFacts ==
    ASSUME watchers \in Seq(Watcher), Distinct, NEW w \in Watcher, w \notin Registered,
           watchers' = Append(watchers, w)
    PROVE  /\ watchers' \in Seq(Watcher) /\ Distinct'
           /\ Registered \subseteq Registered'
           /\ \A x \in Registered : Position(x)' = Position(x)
<1>1. /\ watchers' \in Seq(Watcher) /\ Len(watchers') = Len(watchers) + 1
      /\ Len(watchers) \in Nat
      /\ \A k \in 1..Len(watchers) : watchers'[k] = watchers[k]
      /\ watchers'[Len(watchers) + 1] = w
  OBVIOUS
<1>2. DOMAIN watchers = 1..Len(watchers) /\ DOMAIN watchers' = 1..(Len(watchers) + 1)
  BY <1>1
<1>3. \A k \in 1..Len(watchers) : watchers[k] # w
  BY <1>2 DEF Registered
<1>4. Distinct'
  <2> SUFFICES ASSUME NEW j \in 1..(Len(watchers) + 1), NEW k \in 1..(Len(watchers) + 1), j # k
               PROVE  watchers'[j] # watchers'[k]
    BY <1>2 DEF Distinct
  <2> QED
    BY <1>1, <1>2, <1>3 DEF Distinct
<1>5. Registered \subseteq Registered'
  BY <1>1, <1>2 DEF Registered
<1>6. ASSUME NEW x \in Registered
      PROVE  Position(x)' = Position(x)
  <2>1. Position(x) \in 1..Len(watchers) /\ watchers[Position(x)] = x
    BY PositionFacts
  <2>2. Position(x) \in DOMAIN watchers' /\ watchers'[Position(x)] = x
    BY <1>1, <1>2, <2>1
  <2>3. Position(x)' \in DOMAIN watchers' /\ watchers'[Position(x)'] = x
    BY <2>2 DEF Position
  <2> QED
    BY <1>4, <2>2, <2>3 DEF Distinct
<1> QED
  BY <1>1, <1>4, <1>5, <1>6

(* A watcher less: those behind it move up. *)
LEMMA RemoveFacts ==
    ASSUME watchers \in Seq(Watcher), Distinct, NEW w \in Registered,
           watchers' = Without(w)
    PROVE  /\ watchers' \in Seq(Watcher) /\ Distinct'
           /\ Registered \ {w} \subseteq Registered'
           /\ \A x \in Registered \ {w} :
                Position(x)' = IF Position(x) < Position(w) THEN Position(x) ELSE Position(x) - 1
<1> DEFINE p == Position(w)
           n == Len(watchers)
           place(x) == IF Position(x) < p THEN Position(x) ELSE Position(x) - 1
<1>1. n \in Nat /\ p \in 1..n /\ watchers[p] = w
  BY PositionFacts
<1>2. /\ watchers' \in Seq(Watcher) /\ Len(watchers') = n - 1
      /\ \A k \in 1..(n - 1) : watchers'[k] = IF k < p THEN watchers[k] ELSE watchers[k + 1]
  BY <1>1, RemoveAtType DEF Without
<1>3. DOMAIN watchers = 1..n /\ DOMAIN watchers' = 1..(n - 1)
  BY <1>1, <1>2
<1> HIDE DEF p, n
<1>4. Distinct'
  <2> SUFFICES ASSUME NEW j \in 1..(n - 1), NEW k \in 1..(n - 1), j # k
               PROVE  watchers'[j] # watchers'[k]
    BY <1>3 DEF Distinct
  <2> DEFINE a == IF j < p THEN j ELSE j + 1
             b == IF k < p THEN k ELSE k + 1
  <2>1. a \in 1..n /\ b \in 1..n /\ a # b
    BY <1>1
  <2>2. watchers'[j] = watchers[a] /\ watchers'[k] = watchers[b]
    BY <1>2
  <2> HIDE DEF a, b
  <2> QED
    BY <1>3, <2>1, <2>2 DEF Distinct
<1>5. ASSUME NEW x \in Registered \ {w}
      PROVE  /\ place(x) \in 1..(n - 1) /\ watchers'[place(x)] = x
             /\ x \in Registered'
  <2>1. Position(x) \in 1..n /\ watchers[Position(x)] = x /\ Position(x) # p
    BY <1>1, PositionFacts DEF n
  <2>2. place(x) \in 1..(n - 1)
    BY <1>1, <2>1
  <2>3. watchers'[place(x)] = x
    BY <1>1, <1>2, <2>1, <2>2
  <2> QED
    BY <1>3, <2>2, <2>3 DEF Registered
<1>6. ASSUME NEW x \in Registered \ {w}
      PROVE  Position(x)' = place(x)
  <2>1. place(x) \in DOMAIN watchers' /\ watchers'[place(x)] = x
    BY <1>3, <1>5
  <2>2. Position(x)' \in DOMAIN watchers' /\ watchers'[Position(x)'] = x
    <3> HIDE DEF place
    <3> QED
      BY <2>1 DEF Position
  <2> HIDE DEF place
  <2> QED
    BY <1>4, <2>1, <2>2 DEF Distinct
<1> QED
  BY <1>2, <1>4, <1>5, <1>6 DEF p

-----------------------------------------------------------------------------
(* What a step does to the events.                                         *)

LEMMA OwnIsAssigned ==
    ASSUME EventTypeOK, wait.pc = "Returned", UNCHANGED <<watched, setting, wait>>,
           NEW flags \in [Object -> BOOLEAN], MayQueueOwn(flags)
    PROVE  Assigned
BY DelivererFacts DEF MayQueueOwn, Assigned

LEMMA NextIsEventStep ==
    ASSUME IInv, [Next]_vars
    PROVE  EventStep
<1> USE DelivererFacts
<1>1. EventTypeOK /\ OneThing /\ ControlType /\ DeliveryType
  BY DEF IInv
<1>2. CASE DriverStep
  <2>1. CASE TopOfLoop
    <3>1. drv.busy \in BOOLEAN /\ Multiple(LastObject + 1, drv.busy)
      BY <1>1, <2>1 DEF TopOfLoop, ControlType, Work
    <3> QED
      BY <3>1 DEF EventStep
  <2>2. CASE Waits
    BY <2>2 DEF Waits, EventStep
  <2>3. CASE TimedOut
    <3>1. CASE drv.busy
      <4>1. Handled(signalled) /\ wait.pc = "Returned"
        BY <2>3, <3>1 DEF TimedOut, Returned
      <4> QED
        BY <1>1, <4>1, OwnIsAssigned DEF Handled, EventTypeOK, EventStep
    <3>2. CASE ~drv.busy
      BY <2>3, <3>2 DEF TimedOut, EventStep
    <3> QED
      BY <3>1, <3>2
  <2>4. CASE ExitSignalled
    BY <2>4 DEF ExitSignalled, EventStep
  <2>5. CASE NotificationsWaiting
    BY <2>5 DEF NotificationsWaiting, EventStep
  <2>6. CASE WorkWaiting
    <3>1. PICK more \in BOOLEAN : Handled([signalled EXCEPT ![Work] = @ /\ more])
      BY <2>6 DEF WorkWaiting
    <3>2. wait.pc = "Returned"
      BY <2>6 DEF WorkWaiting, Returned
    <3>3. [signalled EXCEPT ![Work] = @ /\ more] \in [Object -> BOOLEAN]
      BY <1>1 DEF EventTypeOK
    <3> QED
      BY <1>1, <3>1, <3>2, <3>3, OwnIsAssigned DEF Handled, EventStep
  <2>7. CASE Delivers(Driver)
    BY <1>1, <2>7 DEF Delivers, TestEmpty, TakeFront, ResetEvent, Lock, CallWatcher, WatcherReturns,
       Unlock, Signal, EventStep, Assigned, EventTypeOK
  <2> QED
    BY <1>2, <2>1, <2>2, <2>3, <2>4, <2>5, <2>6, <2>7 DEF DriverStep
<1>3. CASE WatcherQueues
  <2>1. wait.pc = "Returned"
    BY <1>1, <1>3 DEF WatcherQueues, OneThing, At
  <2> QED
    BY <1>1, <1>3, <2>1 DEF WatcherQueues, Signal, EventStep, Assigned, EventTypeOK
<1>4. CASE \E t \in Setter : Finishes(t)
  BY <1>4 DEF Finishes, SetNotificationsEvent, CallEventWatchers, EventStep
<1>5. CASE \E t \in App : InUse /\ (QueueNotification(t) \/ WorkArrives(t) \/ QueueEmptied)
  <2>1. CASE QueueEmptied
    BY <1>1, <2>1 DEF QueueEmptied, Signal, EventStep, Assigned, EventTypeOK
  <2>2. CASE \E t \in App : QueueNotification(t) \/ WorkArrives(t)
    BY <2>2 DEF QueueNotification, WorkArrives, EventStep
  <2> QED
    BY <1>5, <2>1, <2>2
<1>6. CASE \E t \in App \cup Deliverer, w \in Watcher :
             ManagerAddWatcher(t, w) \/ ManagerRemoveWatcher(t, w)
  BY <1>6 DEF ManagerAddWatcher, ManagerRemoveWatcher, Change, EventStep
<1>7. CASE BeginRemoval
  BY <1>7 DEF BeginRemoval, EventStep
<1>8. CASE RemovalStep
  <2>1. CASE NotifyRemoved
    BY <2>1 DEF NotifyRemoved, EventStep
  <2>2. CASE StopDriverThread
    BY <1>1, <2>2 DEF StopDriverThread, EventStep, Removing, OneThing
  <2>3. CASE Unload
    BY <2>3 DEF Unload, EventStep
  <2>4. ASSUME NEW t \in Deliverer, Delivers(t)
        PROVE  EventStep
    BY <1>1, <2>4 DEF Delivers, TestEmpty, TakeFront, ResetEvent, Lock, CallWatcher, WatcherReturns,
       Unlock, Signal, EventStep, Assigned, EventTypeOK
  <2> QED
    BY <1>8, <2>1, <2>2, <2>3, <2>4 DEF RemovalStep
<1>9. CASE UNCHANGED vars
  BY <1>9 DEF vars, EventStep
<1> QED
  BY <1>2, <1>3, <1>4, <1>5, <1>6, <1>7, <1>8, <1>9 DEF Next

-----------------------------------------------------------------------------
(* Types and places, one step after the other.                             *)

LEMMA PushType ==
    ASSUME QueueType, CanQueue, NEW t \in Setter \cup {Driver}, Push(t), UNCHANGED done,
           pushed' \subseteq Setter
    PROVE  QueueType'
<1>1. Len(made) \in Nat /\ MaxNotes \in Nat /\ Len(made) + 1 \in Notes
  BY NotificationConstants DEF QueueType, CanQueue, Notes
<1>2. made' \in Seq(Setter \cup {Driver}) /\ Len(made') = Len(made) + 1
  BY DEF QueueType, Push
<1>3. list' \in Seq(Notes)
  BY <1>1 DEF QueueType, Push
<1> QED
  BY <1>1, <1>2, <1>3 DEF QueueType, Notes

LEMMA DeliverTypes ==
    ASSUME IInv, NEW t \in Deliverer, Delivers(t)
    PROVE  QueueType' /\ ControlType' /\ DeliveryType'
<1>1. QueueType /\ ControlType /\ DeliveryType /\ OneThing /\ CallInv
  BY DEF IInv
<1>2. Goes(t, "Test") \/ Goes(t, "Reset") \/ Goes(t, "Front") \/ Goes(t, "None") \/ Goes(t, "Crashed")
        => notifying' \in [Deliverer -> [at : Place, note : 0..MaxNotes]]
  BY <1>1 DEF Goes, Place, DeliveryType
<1>3. CASE TestEmpty(t)
  <2>1. Goes(t, "Reset") \/ Goes(t, "Front")
    BY <1>3 DEF TestEmpty
  <2>2. UNCHANGED <<queue, drv, removal, acts, watchers, call>>
    BY <1>3 DEF TestEmpty
  <2> QED
    BY <1>1, <1>2, <2>1, <2>2 DEF queue, QueueType, ControlType, DeliveryType, Distinct
<1>4. CASE TakeFront(t)
  <2>1. list # <<>> => Head(list) \in Notes /\ Head(list) \in 0..MaxNotes /\ Tail(list) \in Seq(Notes)
    BY <1>1, NotificationConstants DEF QueueType, Notes
  <2>2. QueueType'
    BY <1>1, <1>4, <2>1 DEF TakeFront, QueueType
  <2>3. notifying' \in [Deliverer -> [at : Place, note : 0..MaxNotes]]
    BY <1>1, <1>2, <1>4, <2>1 DEF TakeFront, DeliveryType, Place
  <2> QED
    BY <1>1, <1>4, <2>2, <2>3 DEF TakeFront, ControlType, DeliveryType, Distinct
<1>5. CASE ResetEvent(t)
  <2>1. ControlType'
    BY <1>1, <1>5 DEF ResetEvent, ControlType, Removal
  <2> QED
    BY <1>1, <1>2, <1>5, <2>1 DEF ResetEvent, queue, QueueType, DeliveryType, Distinct
<1>6. CASE Lock(t)
  <2>1. First \in Watcher \cup {End} /\ Registered \subseteq Watcher
    BY <1>1, PositionFacts DEF DeliveryType, First
  <2>2. call' \in CallRec
    BY <1>6, <2>1 DEF Lock, CallRec
  <2> QED
    BY <1>1, <1>6, <2>2 DEF Lock, queue, QueueType, ControlType, DeliveryType, Distinct
<1>7. CASE CallWatcher(t)
  <2>1. call \in CallRec /\ call.next \in Registered
    BY <1>1, <1>7 DEF CallWatcher, DeliveryType, CallInv
  <2>2. call.next \in Watcher /\ After(call.next) \in Watcher \cup {End}
    BY <1>1, <2>1, PositionFacts, AfterFacts DEF DeliveryType
  <2>3. call' \in CallRec
    <3> DEFINE told == Append(call.told, call.next)
               next == After(call.next)
    <3>1. told \in Seq(Watcher)
      BY <2>1, <2>2 DEF CallRec
    <3>2. call' = [call EXCEPT !.inside = TRUE, !.told = told, !.next = next]
      BY <1>7, <2>1 DEF CallWatcher
    <3>3. next \in Watcher \cup {End}
      BY <2>2
    <3> HIDE DEF told, next
    <3> QED
      BY <2>1, <3>1, <3>2, <3>3 DEF CallRec
  <2> QED
    BY <1>1, <1>7, <2>3 DEF CallWatcher, queue, QueueType, ControlType, DeliveryType, Distinct
<1>8. CASE WatcherReturns(t)
  <2>1. call' \in CallRec
    BY <1>1, <1>8 DEF WatcherReturns, DeliveryType, CallRec
  <2> QED
    BY <1>1, <1>8, <2>1 DEF WatcherReturns, queue, QueueType, ControlType, DeliveryType, Distinct
<1>9. CASE Unlock(t)
  <2>1. notifying[t].note \in Notes
    BY <1>1, <1>9 DEF Unlock, OneThing
  <2> QED
    BY <1>1, <1>2, <1>9, <2>1 DEF Unlock, QueueType, ControlType, DeliveryType, Distinct
<1> QED
  BY <1>3, <1>4, <1>5, <1>6, <1>7, <1>8, <1>9 DEF Delivers

LEMMA DeliverPlaces ==
    ASSUME IInv, NEW t \in Deliverer, Delivers(t)
    PROVE  OneThing'
<1> USE DelivererFacts
<1>1. QueueType /\ DeliveryType /\ OneThing
  BY DEF IInv
<1>2. notifying \in [Deliverer -> [at : Place, note : 0..MaxNotes]]
  BY <1>1 DEF DeliveryType
<1>3. CASE TestEmpty(t)
  BY <1>1, <1>2, <1>3 DEF TestEmpty, OneThing, At, Goes, eventVars
<1>4. CASE TakeFront(t)
  <2>1. list # <<>> => Head(list) \in Notes
    BY <1>1 DEF QueueType
  <2> QED
    BY <1>1, <1>2, <1>4, <2>1 DEF TakeFront, OneThing, At, Goes, eventVars
<1>5. CASE ResetEvent(t)
  <2>1. CASE t = Driver
    BY <1>1, <1>2, <1>5, <2>1 DEF ResetEvent, OneThing, At, Goes
  <2>2. CASE t # Driver
    BY <1>1, <1>2, <1>5, <2>2 DEF ResetEvent, OneThing, At, Goes
  <2> QED
    BY <2>1, <2>2
<1>6. CASE Lock(t)
  BY <1>1, <1>2, <1>6 DEF Lock, OneThing, At, eventVars
<1>7. CASE CallWatcher(t)
  BY <1>1, <1>2, <1>7 DEF CallWatcher, OneThing, At, eventVars, DeliveryType, CallRec
<1>8. CASE WatcherReturns(t)
  BY <1>1, <1>2, <1>8 DEF WatcherReturns, OneThing, At, eventVars, DeliveryType, CallRec
<1>9. CASE Unlock(t)
  BY <1>1, <1>2, <1>9 DEF Unlock, OneThing, At, Goes, eventVars
<1> QED
  BY <1>3, <1>4, <1>5, <1>6, <1>7, <1>8, <1>9 DEF Delivers

LEMMA DeliverCalls ==
    ASSUME IInv, NEW t \in Deliverer, Delivers(t)
    PROVE  CallInv'
<1>1. DeliveryType /\ CallInv
  BY DEF IInv
<1>2. CASE UNCHANGED <<watchers, call>>
  BY <1>1, <1>2 DEF CallInv, Registered, Told, Before, Position
<1>3. CASE Lock(t)
  <2>1. UNCHANGED watchers /\ call' = [by |-> t, next |-> First, inside |-> FALSE, told |-> <<>>, since |-> Registered]
    BY <1>3 DEF Lock
  <2>2. Registered' = Registered /\ \A w : Position(w)' = Position(w)
    BY <2>1 DEF Registered, Position
  <2>3. CASE watchers = <<>>
    BY <2>1, <2>2, <2>3 DEF CallInv, Registered, First
  <2>4. CASE watchers # <<>>
    <3>1. First = watchers[1] /\ 1 \in 1..Len(watchers) /\ Len(watchers) \in Nat
      BY <1>1, <2>4 DEF First, DeliveryType
    <3>2. First \in Registered /\ Position(First) = 1
      BY <1>1, <3>1, PositionFacts DEF DeliveryType
    <3>3. \A w \in Registered : Position(w) \in 1..Len(watchers)
      BY <1>1, PositionFacts DEF DeliveryType
    <3>4. First # End
      BY <1>1, <3>2, PositionFacts, NotificationConstants DEF DeliveryType
    <3> QED
      BY <2>1, <2>2, <3>1, <3>2, <3>3, <3>4 DEF CallInv, Told, Before
  <2> QED
    BY <2>3, <2>4
<1>4. CASE CallWatcher(t)
  <2> DEFINE w == call.next
  <2>1. /\ call \in CallRec /\ w \in Registered /\ w # End
        /\ call' = [call EXCEPT !.inside = TRUE, !.told = Append(call.told, w), !.next = After(w)]
        /\ UNCHANGED watchers
    BY <1>1, <1>4 DEF CallWatcher, DeliveryType, CallInv
  <2>2. Registered' = Registered /\ \A x : Position(x)' = Position(x)
    BY <2>1 DEF Registered, Position
  <2>3. /\ call.told \in Seq(Watcher) /\ call'.told = Append(call.told, w)
        /\ call'.next = After(w) /\ call'.since = call.since
    BY <2>1 DEF CallRec
  <2> HIDE DEF w
  <2>4. /\ Len(call'.told) = Len(call.told) + 1 /\ Len(call.told) \in Nat
        /\ DOMAIN call'.told = 1..(Len(call.told) + 1) /\ DOMAIN call.told = 1..Len(call.told)
        /\ \A k \in 1..Len(call.told) : call'.told[k] = call.told[k]
        /\ call'.told[Len(call.told) + 1] = w
    <3>1. w \in Watcher
      BY <1>1, <2>1, PositionFacts DEF DeliveryType
    <3> QED
      BY <2>3, <3>1
  <2>5. \A x : Told(x)' <=> Told(x) \/ x = w
    BY <2>4 DEF Told
  <2>6. \A x \in Registered : Before(x) <=> Position(x) < Position(w)
    BY <2>1 DEF Before, w
  <2>7. \A x \in Registered : Position(x) \in 1..Len(watchers) /\ watchers[Position(x)] = x
    BY <1>1, PositionFacts DEF DeliveryType
  <2>8. Len(watchers) \in Nat
    BY <1>1 DEF DeliveryType
  <2>9. \A x \in Registered : Position(x) = Position(w) => x = w
    BY <2>1, <2>7
  <2>10. \A x \in Registered : Before(x)' <=> Before(x) \/ x = w
    <3>1. CASE Position(w) = Len(watchers) /\ After(w) = End
      BY <2>1, <2>2, <2>3, <2>6, <2>7, <2>8, <2>9, <3>1 DEF Before
    <3>2. CASE Position(w) < Len(watchers) /\ After(w) \in Registered /\ Position(After(w)) = Position(w) + 1
      <4>1. After(w) # End
        BY <1>1, <3>2, PositionFacts, NotificationConstants DEF DeliveryType
      <4>2. \A x \in Registered : Before(x)' <=> Position(x) < Position(w) + 1
        BY <2>2, <2>3, <3>2, <4>1 DEF Before
      <4>3. \A x \in Registered : Position(x) < Position(w) + 1 <=> Position(x) < Position(w) \/ Position(x) = Position(w)
        BY <2>1, <2>7, <2>8
      <4> QED
        BY <2>1, <2>6, <2>9, <4>2, <4>3
    <3> QED
      BY <1>1, <2>1, <3>1, <3>2, AfterFacts DEF DeliveryType
  <2>11. call # Null /\ call.since \subseteq Registered /\ \A x \in call.since : Told(x) <=> Before(x)
    BY <1>1, <1>4 DEF CallWatcher, CallInv
  <2>12. \A x \in call.since, j, k \in DOMAIN call'.told :
            call'.told[j] = x /\ call'.told[k] = x => j = k
    <3> SUFFICES ASSUME NEW x \in call.since, NEW j \in DOMAIN call'.told, NEW k \in DOMAIN call'.told,
                        call'.told[j] = x, call'.told[k] = x
                 PROVE  j = k
      OBVIOUS
    <3>1. CASE x = w
      <4>1. ~Told(x)
        BY <2>6, <2>7, <2>11, <3>1
      <4> QED
        BY <2>4, <3>1, <4>1 DEF Told
    <3>2. CASE x # w
      <4>1. j \in DOMAIN call.told /\ k \in DOMAIN call.told /\ call.told[j] = x /\ call.told[k] = x
        BY <2>4, <3>2
      <4> QED
        BY <1>1, <2>11, <4>1 DEF CallInv
    <3> QED
      BY <3>1, <3>2
  <2>13. call'.next \in Registered' \cup {End}
    BY <1>1, <2>1, <2>2, <2>3, AfterFacts DEF DeliveryType
  <2> QED
    BY <2>2, <2>3, <2>5, <2>10, <2>11, <2>12, <2>13 DEF CallInv
<1>5. CASE WatcherReturns(t)
  <2>1. UNCHANGED watchers /\ call \in CallRec /\ call # Null /\ call' = [call EXCEPT !.inside = FALSE]
    BY <1>1, <1>5 DEF WatcherReturns, DeliveryType
  <2>2. call'.next = call.next /\ call'.since = call.since /\ call'.told = call.told
    BY <2>1 DEF CallRec
  <2> QED
    BY <1>1, <2>1, <2>2 DEF CallInv, Registered, Told, Before, Position
<1>6. CASE Unlock(t)
  BY <1>6 DEF Unlock, CallInv
<1> QED
  BY <1>2, <1>3, <1>4, <1>5, <1>6 DEF Delivers, TestEmpty, TakeFront, ResetEvent

(* Who is called does not matter to a step that changes neither list nor call. *)
LEMMA CallsUntouched ==
    ASSUME CallInv, UNCHANGED <<watchers, call>>
    PROVE  CallInv'
BY DEF CallInv, Registered, Told, Before, Position

LEMMA DeliveryUntouched ==
    ASSUME DeliveryType, CallInv, UNCHANGED delivery
    PROVE  DeliveryType' /\ CallInv'
BY CallsUntouched DEF delivery, DeliveryType, Distinct

(* A place in Driver::NotifyWatchers is taken from "None", by one thread. *)
LEMMA BeginDelivery ==
    ASSUME DeliveryType, CallInv, NEW t \in Deliverer, Goes(t, "Test"), UNCHANGED <<watchers, call>>
    PROVE  DeliveryType' /\ CallInv'
BY CallsUntouched DEF Goes, DeliveryType, Distinct, Place

(***************************************************************************)
(* Watchers come and go.                                                   *)
(***************************************************************************)
LEMMA AddWatcherSafe ==
    ASSUME IInv, NEW t \in App \cup Deliverer, NEW w \in Watcher, ManagerAddWatcher(t, w)
    PROVE  DeliveryType' /\ CallInv'
<1>1. DeliveryType /\ CallInv /\ w \notin Registered /\ watchers' = Append(watchers, w) /\ UNCHANGED call
  BY DEF IInv, ManagerAddWatcher
<1>2. UNCHANGED notifying
  BY DEF ManagerAddWatcher, Change
<1>3. /\ watchers' \in Seq(Watcher) /\ Distinct' /\ Registered \subseteq Registered'
      /\ \A x \in Registered : Position(x)' = Position(x)
  BY <1>1, AddFacts DEF DeliveryType
<1>4. CallInv'
  <2> SUFFICES ASSUME call # Null PROVE CallInv'
    BY <1>1 DEF CallInv
  <2>1. call.next \in Registered \cup {End} /\ call.since \subseteq Registered
    BY <1>1 DEF CallInv
  <2>2. \A x \in call.since : Told(x)' = Told(x) /\ Before(x)' = Before(x)
    BY <1>1, <1>3, <2>1 DEF Told, Before
  <2> QED
    BY <1>1, <1>3, <2>1, <2>2 DEF CallInv
<1> QED
  BY <1>1, <1>2, <1>3, <1>4 DEF DeliveryType

LEMMA RemoveWatcherSafe ==
    ASSUME IInv, NEW t \in App \cup Deliverer, NEW w \in Watcher, ManagerRemoveWatcher(t, w)
    PROVE  DeliveryType' /\ CallInv'
<1>1. DeliveryType /\ CallInv /\ w \in Registered /\ watchers' = Without(w)
  BY DEF IInv, ManagerRemoveWatcher
<1>2. UNCHANGED notifying
  BY DEF ManagerRemoveWatcher, Change
<1>3. /\ watchers' \in Seq(Watcher) /\ Distinct' /\ Registered \ {w} \subseteq Registered'
      /\ \A x \in Registered \ {w} :
           Position(x)' = IF Position(x) < Position(w) THEN Position(x) ELSE Position(x) - 1
  BY <1>1, RemoveFacts DEF DeliveryType
<1>4. /\ \A x \in Registered : Position(x) \in 1..Len(watchers) /\ watchers[Position(x)] = x
      /\ Registered \subseteq Watcher /\ Len(watchers) \in Nat
  BY <1>1, PositionFacts DEF DeliveryType
<1>5. CASE call = Null
  <2>1. call' = Null
    BY <1>5 DEF ManagerRemoveWatcher
  <2> QED
    BY <1>1, <1>2, <1>3, <2>1 DEF DeliveryType, CallInv
<1>6. CASE call # Null
  <2> DEFINE next == IF call.next = w THEN After(w) ELSE call.next
             since == call.since \ {w}
  <2>1. call \in CallRec /\ call' = [call EXCEPT !.since = since, !.next = next]
    BY <1>1, <1>6 DEF ManagerRemoveWatcher, DeliveryType
  <2>2. call.next \in Registered \cup {End} /\ call.since \subseteq Registered
    BY <1>1, <1>6 DEF CallInv
  <2>3. \/ next = End
        \/ next \in Registered \ {w} /\ next # End
    <3>1. CASE call.next # w
      BY <1>4, <2>2, <3>1, NotificationConstants
    <3>2. CASE call.next = w
      <4>1. \/ After(w) = End
            \/ After(w) \in Registered /\ Position(After(w)) = Position(w) + 1
        BY <1>1, AfterFacts DEF DeliveryType
      <4>2. After(w) = End \/ After(w) \in Registered \ {w}
        BY <1>1, <1>4, <4>1
      <4> QED
        BY <1>4, <3>2, <4>2, NotificationConstants
    <3> QED
      BY <3>1, <3>2
  <2>4. /\ call'.next = next /\ call'.since = since /\ call'.told = call.told
        /\ call' \in CallRec /\ next \in Registered' \cup {End} /\ since \subseteq Registered'
    <3>1. next \in Watcher \cup {End} /\ since \in SUBSET Watcher
      BY <1>4, <2>2, <2>3
    <3> HIDE DEF next, since
    <3>2. call' \in CallRec /\ call'.next = next /\ call'.since = since /\ call'.told = call.told
      BY <2>1, <3>1 DEF CallRec
    <3>3. since \subseteq Registered'
      BY <1>3, <2>2 DEF since
    <3> QED
      BY <1>3, <2>3, <3>2, <3>3
  <2>5. \A x \in since : Told(x)' <=> Told(x)
    BY <2>4 DEF Told
  <2>6. ASSUME NEW x \in since
        PROVE  Before(x)' <=> Before(x)
    <3>1. x \in Registered /\ x # w /\ Position(x) \in 1..Len(watchers) /\ Position(x) # Position(w)
      BY <1>1, <1>4, <2>2
    <3>2. Position(w) \in 1..Len(watchers)
      BY <1>1, <1>4
    <3>3. CASE call.next = End
      <4>1. next = End
        BY <1>1, <1>4, <3>3, NotificationConstants
      <4> QED
        BY <2>4, <3>3, <4>1 DEF Before
    <3>4. CASE call.next = w
      <4>1. Before(x) <=> Position(x) < Position(w)
        BY <1>1, <1>4, <3>4, NotificationConstants DEF Before
      <4>2. CASE Position(w) = Len(watchers) /\ After(w) = End
        BY <1>4, <2>4, <3>1, <3>2, <3>4, <4>1, <4>2 DEF Before
      <4>3. CASE /\ Position(w) < Len(watchers)
                 /\ After(w) \in Registered /\ Position(After(w)) = Position(w) + 1
        <5>1. next = After(w) /\ next \in Registered \ {w} /\ next # End
          BY <1>1, <1>4, <2>3, <3>4, <4>3, NotificationConstants
        <5> PICK n \in Registered \ {w} : n = next
          BY <5>1
        <5>2. n # End /\ Position(n) = Position(w) + 1 /\ Position(n)' = Position(w)
          <6>1. Position(n)' = Position(n) - 1
            BY <1>3, <1>4, <3>2, <4>3, <5>1
          <6> QED
            BY <1>4, <3>2, <4>3, <5>1, <6>1
        <5>3. Before(x)' <=> Position(x)' < Position(w)
          BY <2>4, <5>2 DEF Before
        <5>4. Position(x)' = IF Position(x) < Position(w) THEN Position(x) ELSE Position(x) - 1
          BY <1>3, <3>1
        <5> QED
          BY <1>4, <3>1, <3>2, <4>1, <5>3, <5>4
      <4> QED
        BY <1>1, <4>2, <4>3, AfterFacts DEF DeliveryType
    <3>5. CASE call.next # w /\ call.next # End
      <4>1. next = call.next /\ next \in Registered \ {w} /\ next # End
        BY <2>2, <3>5
      <4> PICK n \in Registered \ {w} : n = next
        BY <4>1
      <4>2. /\ Before(x) <=> Position(x) < Position(n)
            /\ Before(x)' <=> Position(x)' < Position(n)'
        BY <2>4, <3>5, <4>1 DEF Before
      <4>3. Position(n) \in 1..Len(watchers) /\ Position(n) # Position(w)
        BY <1>1, <1>4
      <4>4. /\ Position(x)' = IF Position(x) < Position(w) THEN Position(x) ELSE Position(x) - 1
            /\ Position(n)' = IF Position(n) < Position(w) THEN Position(n) ELSE Position(n) - 1
        BY <1>3, <3>1
      <4> QED
        BY <1>4, <3>1, <3>2, <4>2, <4>3, <4>4
    <3> QED
      BY <3>3, <3>4, <3>5
  <2>7. /\ \A x \in call.since : Told(x) <=> Before(x)
        /\ \A x \in call.since, j, k \in DOMAIN call.told :
             call.told[j] = x /\ call.told[k] = x => j = k
    BY <1>1, <1>6 DEF CallInv
  <2>8. since \subseteq call.since
    OBVIOUS
  <2> HIDE DEF next, since
  <2>9. CallInv'
    BY <2>4, <2>5, <2>6, <2>7, <2>8 DEF CallInv
  <2> QED
    BY <1>1, <1>2, <1>3, <2>4, <2>9 DEF DeliveryType
<1> QED
  BY <1>5, <1>6

-----------------------------------------------------------------------------
(* The invariant holds.                                                    *)

LEMMA InitInv == Init => IInv
<1> SUFFICES ASSUME Init PROVE IInv
  OBVIOUS
<1> USE EventConstants, NotificationConstants, DelivererFacts
<1>1. EventTypeOK /\ WaitInv
  BY DEF Init, EventInit, EventTypeOK, WaitRec, WaitInv, Object
<1>2. QueueType /\ ControlType
  BY DEF Init, QueueType, ControlType, Removal
<1>3. DeliveryType /\ OneThing /\ CallInv
  BY DEF Init, EventInit, DeliveryType, Distinct, Place, OneThing, At, CallInv
<1> QED
  BY <1>1, <1>2, <1>3 DEF IInv

(* A notification is queued, by any thread, while deliveries stay where they are. *)
LEMMA RestStep ==
    ASSUME IInv, [Next]_vars
    PROVE  QueueType' /\ ControlType' /\ DeliveryType' /\ OneThing' /\ CallInv'
<1> USE DelivererFacts
<1>1. EventTypeOK /\ QueueType /\ ControlType /\ DeliveryType /\ OneThing /\ CallInv
  BY DEF IInv
<1>2. /\ wait \in WaitRec /\ notifying \in [Deliverer -> [at : Place, note : 0..MaxNotes]]
      /\ call # Null => call.by \in Deliverer /\ notifying[call.by].at = "Taken"
  BY <1>1 DEF EventTypeOK, DeliveryType, OneThing, At
<1>3. ASSUME UNCHANGED <<list, pushed, made, done>>
      PROVE  QueueType'
  BY <1>1, <1>3 DEF QueueType
<1>4. ASSUME UNCHANGED <<wait, drv, removal, notifying, call>>
      PROVE  OneThing'
  BY <1>1, <1>4 DEF OneThing, At
<1>5. ASSUME NEW flags, MayQueueOwn(flags), UNCHANGED <<pushed, done>>
      PROVE  QueueType'
  <2>1. CASE UNCHANGED <<list, made>>
    BY <1>1, <1>5, <2>1 DEF QueueType
  <2>2. CASE CanQueue /\ Push(Driver)
    BY <1>1, <1>5, <2>2, PushType DEF QueueType
  <2> QED
    BY <1>5, <2>1, <2>2 DEF MayQueueOwn
<1>6. ASSUME NEW flags, Handled(flags), drv.pc = "Wait", wait.pc = "Returned"
      PROVE  QueueType' /\ ControlType' /\ DeliveryType' /\ OneThing' /\ CallInv'
  <2>1. QueueType'
    BY <1>5, <1>6 DEF Handled
  <2>2. ControlType'
    BY <1>1, <1>6 DEF Handled, ControlType
  <2>3. DeliveryType' /\ CallInv'
    BY <1>1, <1>6, DeliveryUntouched DEF Handled
  <2>4. OneThing'
    BY <1>1, <1>6 DEF Handled, OneThing, At, delivery
  <2> QED
    BY <2>1, <2>2, <2>3, <2>4
<1>7. ASSUME NEW t \in Deliverer, Delivers(t)
      PROVE  QueueType' /\ ControlType' /\ DeliveryType' /\ OneThing' /\ CallInv'
  BY <1>7, DeliverTypes, DeliverPlaces, DeliverCalls
<1>8. CASE DriverStep
  <2>1. CASE TopOfLoop
    <3>1. ControlType' /\ OneThing'
      BY <1>1, <2>1 DEF TopOfLoop, ControlType, OneThing, At, delivery
    <3> QED
      BY <1>1, <1>3, <2>1, <3>1, DeliveryUntouched DEF TopOfLoop, queue
  <2>2. CASE Waits
    <3>1. ControlType' /\ OneThing'
      BY <1>1, <2>2 DEF Waits, ControlType, OneThing, At, delivery
    <3> QED
      BY <1>1, <1>3, <2>2, <3>1, DeliveryUntouched DEF Waits, queue
  <2>3. CASE TimedOut
    <3>1. CASE drv.busy
      BY <1>6, <2>3, <3>1 DEF TimedOut, Returned
    <3>2. CASE ~drv.busy
      <4>1. ControlType' /\ OneThing'
        BY <1>1, <2>3, <3>2 DEF TimedOut, Returned, ControlType, OneThing, At, delivery, eventVars
      <4> QED
        BY <1>1, <1>3, <2>3, <3>2, <4>1, DeliveryUntouched DEF TimedOut, queue
    <3> QED
      BY <3>1, <3>2
  <2>4. CASE ExitSignalled
    <3>1. ControlType' /\ OneThing'
      BY <1>1, <2>4 DEF ExitSignalled, Returned, ControlType, OneThing, At, delivery, eventVars
    <3> QED
      BY <1>1, <1>3, <2>4, <3>1, DeliveryUntouched DEF ExitSignalled, queue
  <2>5. CASE NotificationsWaiting
    <3>1. ControlType'
      BY <1>1, <2>5 DEF NotificationsWaiting, Returned, ControlType
    <3>2. notifying[Driver].at = "None" /\ (call # Null => call.by # Driver)
      BY <1>1, <1>2, <2>5 DEF NotificationsWaiting, Returned, OneThing, At
    <3>3. OneThing'
      BY <1>1, <1>2, <2>5, <3>2 DEF NotificationsWaiting, Returned, OneThing, At, Goes, eventVars
    <3> QED
      BY <1>1, <1>3, <2>5, <3>1, <3>3, BeginDelivery DEF NotificationsWaiting, queue
  <2>6. CASE WorkWaiting
    BY <1>6, <2>6 DEF WorkWaiting, Returned
  <2> QED
    BY <1>7, <1>8, <2>1, <2>2, <2>3, <2>4, <2>5, <2>6 DEF DriverStep
<1>9. CASE WatcherQueues
  <2>1. QueueType'
    BY <1>1, <1>9, PushType DEF WatcherQueues, QueueType
  <2> QED
    BY <1>1, <1>4, <1>9, <2>1, DeliveryUntouched DEF WatcherQueues, ControlType, delivery
<1>10. ASSUME NEW t \in Setter, Finishes(t)
       PROVE  QueueType' /\ ControlType' /\ DeliveryType' /\ OneThing' /\ CallInv'
  <2>1. CASE SetNotificationsEvent(t)
    BY <1>1, <1>4, <2>1, DeliveryUntouched
       DEF SetNotificationsEvent, SetFlag, QueueType, ControlType, delivery
  <2>2. CASE CallEventWatchers(t)
    <3>1. wait'.pc = wait.pc
      BY <1>2, <2>2 DEF CallEventWatchers, Notify, WaitRec
    <3>2. OneThing'
      BY <1>1, <2>2, <3>1 DEF CallEventWatchers, OneThing, At, delivery
    <3> QED
      BY <1>1, <1>3, <2>2, <3>2, DeliveryUntouched DEF CallEventWatchers, queue, ControlType
  <2> QED
    BY <1>10, <2>1, <2>2 DEF Finishes
<1>11. ASSUME NEW t \in App, QueueNotification(t) \/ WorkArrives(t) \/ QueueEmptied
       PROVE  QueueType' /\ ControlType' /\ DeliveryType' /\ OneThing' /\ CallInv'
  <2>1. CASE QueueNotification(t)
    <3>1. QueueType'
      BY <1>1, <2>1, PushType DEF QueueNotification, QueueType
    <3> QED
      BY <1>1, <1>4, <2>1, <3>1, DeliveryUntouched
         DEF QueueNotification, ControlType, delivery, eventVars
  <2>2. CASE WorkArrives(t)
    <3>1. acts' \in 0..MaxActs
      BY <1>1, <2>2, NotificationConstants DEF WorkArrives, Act, ControlType
    <3> QED
      BY <1>1, <1>3, <1>4, <2>2, <3>1, DeliveryUntouched
         DEF WorkArrives, SetFlag, ControlType, delivery, queue
  <2>3. CASE QueueEmptied
    BY <1>1, <1>3, <1>4, <2>3, DeliveryUntouched DEF QueueEmptied, ControlType, delivery, queue
  <2> QED
    BY <1>11, <2>1, <2>2, <2>3
<1>12. ASSUME NEW t \in App \cup Deliverer, NEW w \in Watcher,
              ManagerAddWatcher(t, w) \/ ManagerRemoveWatcher(t, w)
       PROVE  QueueType' /\ ControlType' /\ DeliveryType' /\ OneThing' /\ CallInv'
  <2>1. Change
    BY <1>12 DEF ManagerAddWatcher, ManagerRemoveWatcher
  <2>2. QueueType' /\ ControlType'
    BY <1>1, <1>3, <2>1, NotificationConstants DEF Change, Act, queue, ControlType
  <2>3. call' # Null => call # Null /\ call'.by = call.by
    BY <1>1, <1>12 DEF ManagerAddWatcher, ManagerRemoveWatcher, DeliveryType, CallRec
  <2>4. OneThing'
    BY <1>1, <2>1, <2>3 DEF Change, OneThing, At, eventVars
  <2> QED
    BY <1>12, <2>2, <2>4, AddWatcherSafe, RemoveWatcherSafe
<1>13. CASE BeginRemoval
  <2>1. QueueType'
    BY <1>1, <1>13, PushType DEF BeginRemoval, QueueType
  <2>2. ControlType' /\ OneThing'
    BY <1>1, <1>13 DEF BeginRemoval, Removing, ControlType, Removal, OneThing, At, delivery, eventVars
  <2> QED
    BY <1>1, <1>13, <2>1, <2>2, DeliveryUntouched DEF BeginRemoval
<1>14. CASE RemovalStep
  <2>1. CASE NotifyRemoved
    <3>1. Remover \in Deliverer /\ notifying[Remover].at = "None" /\ (call # Null => call.by # Remover)
      BY <1>1, <1>2, <2>1 DEF NotifyRemoved, Removing, OneThing, At
    <3>2. ControlType' /\ OneThing'
      BY <1>1, <1>2, <2>1, <3>1
         DEF NotifyRemoved, Removing, ControlType, Removal, OneThing, At, Goes, eventVars
    <3> QED
      BY <1>1, <1>3, <2>1, <3>1, <3>2, BeginDelivery DEF NotifyRemoved, queue
  <2>2. CASE StopDriverThread
    <3>1. ControlType' /\ OneThing'
      BY <1>1, <2>2 DEF StopDriverThread, Removing, SetFlag, ControlType, Removal, OneThing, At, delivery
    <3> QED
      BY <1>1, <1>3, <2>2, <3>1, DeliveryUntouched DEF StopDriverThread, queue
  <2>3. CASE Unload
    <3>1. Remover \in Deliverer /\ notifying[Remover].at = "None" /\ (call # Null => call.by # Remover)
      BY <1>1, <1>2, <2>3 DEF Unload, Removing, OneThing, At
    <3>2. ControlType' /\ OneThing' /\ QueueType'
      <4>1. CASE Removing("Stopping", "Unloading") /\ Goes(Remover, "Test") /\ UNCHANGED list
        BY <1>1, <1>2, <2>3, <3>1, <4>1
           DEF Unload, Removing, ControlType, Removal, QueueType, OneThing, At, Goes, eventVars
      <4>2. CASE Removing("Stopping", "Gone") /\ list' = <<>> /\ UNCHANGED notifying
        BY <1>1, <1>2, <2>3, <3>1, <4>2
           DEF Unload, Removing, ControlType, Removal, QueueType, OneThing, At, eventVars
      <4> QED
        BY <2>3, <4>1, <4>2 DEF Unload
    <3>3. DeliveryType' /\ CallInv'
      BY <1>1, <2>3, <3>1, BeginDelivery, DeliveryUntouched DEF Unload, delivery
    <3> QED
      BY <3>2, <3>3
  <2> QED
    BY <1>7, <1>14, <2>1, <2>2, <2>3 DEF RemovalStep
<1>15. CASE UNCHANGED vars
  BY <1>1, <1>3, <1>4, <1>15, DeliveryUntouched DEF vars, eventVars, ControlType, delivery
<1> QED
  BY <1>8, <1>9, <1>10, <1>11, <1>12, <1>13, <1>14, <1>15 DEF Next

LEMMA NextInv ==
    ASSUME IInv, [Next]_vars
    PROVE  IInv'
<1>1. EventStep /\ EventTypeOK /\ WaitInv
  BY NextIsEventStep DEF IInv
<1>2. EventTypeOK' /\ WaitInv'
  BY <1>1, EventTypeStep, WaitStepSafe
<1> QED
  BY <1>2, RestStep DEF IInv

(***************************************************************************)
(* In every reachable state, for any threads, watchers and bounds,         *)
(* everything keeps its type and no watcher is on Manager::m_watchers      *)
(* twice.                                                                  *)
(***************************************************************************)
THEOREM NotificationTypes == Spec => []TypeOK
<1>1. IInv => TypeOK
  BY DEF IInv, TypeOK, QueueType, ControlType, Removal, DeliveryType, Distinct
<1> QED
  BY <1>1, InitInv, NextInv, PTL DEF Spec

(***************************************************************************)
(* Wait::Multiple loses no wake-up: the driver thread is never blocked and *)
(* not woken while an object it waits for is signalled, unless the thread  *)
(* that signals it is about to call its watchers.                          *)
(***************************************************************************)
THEOREM NoSignalMissed == Spec => []AwakeWhenSignalled
<1>1. IInv => AwakeWhenSignalled
  BY NoWakeUpLost DEF IInv
<1> QED
  BY <1>1, InitInv, NextInv, PTL DEF Spec

(***************************************************************************)
(* Manager::NotifyWatchers calls no watcher twice and leaves none out,     *)
(* whatever watchers are added and removed while it runs.                  *)
(***************************************************************************)
THEOREM WatchersToldOnce == Spec => []ToldOnce
<1>1. IInv => ToldOnce
  BY DEF IInv, CallInv, ToldOnce, Told, Before
<1> QED
  BY <1>1, InitInv, NextInv, PTL DEF Spec
=============================================================================
