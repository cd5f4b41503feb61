------------------------------- MODULE Timers -------------------------------
(***************************************************************************)
(* The timer thread and the Timer base class (src/cpp/src/TimerThread.cpp, *)
(* TimerThread.h). An object that wants to be called later, a Timer, has   *)
(* an entry allocated and put on the list of the timer thread, which       *)
(* m_timerMutex protects, and then on a list of its own, which nothing     *)
(* protects. The timer thread scans its list under the mutex and calls     *)
(* what is due, still under the mutex; the entry is then taken off both    *)
(* lists. A Timer that is destroyed takes the entries of its own list off  *)
(* the timer thread's.                                                     *)
(*                                                                         *)
(* An entry is known by its address; a freed address can be allocated      *)
(* again. m_timerMutex is held across steps by the timer thread only: what *)
(* other threads do under it is one step. Time is the order in which       *)
(* entries become due, and a wait with a timeout may end at any moment.    *)
(* m_timerEvent is the object of EventWait the thread waits for, exit left *)
(* out: the wait returns when it is signalled.                             *)
(*                                                                         *)
(* A definition marked "mutant" is the variant with a plausible bug of the *)
(* definition that follows it; nothing uses it but the mutation runs.      *)
(***************************************************************************)
EXTENDS Naturals, Sequences, SequencesExt

CONSTANTS
    Timer,          \* objects that have a Timer base
    Address,        \* addresses of timer entries
    Null,
    MaxEvents       \* bound on the entries ever made

VARIABLES
    entry,          \* the TimerEventEntry at an address, or Null
    timerEventList, \* TimerThread::m_timerEventList
    ownEvents,      \* Timer::m_timerEventList
    timerEvent,     \* m_timerEvent
    timer,          \* the timer thread: place, entry that is due, entries left, timeout
    owner,          \* ghost: which Timer set event 1, 2, ..
    fired,          \* ghost: events whose callback was called
    cut             \* ghost: events another object than their Timer has deleted

timerVars == <<entry, timerEventList, ownEvents, timerEvent, timer, owner, fired, cut>>

Events == 1..MaxEvents
EntryRec == [id : Events, of : Timer, due : BOOLEAN]
Listed(a) == Contains(timerEventList, a)

ASSUME TimerConstants ==
    MaxEvents \in Nat /\ Null \notin Timer /\ Null \notin Address /\ Null \notin EntryRec

\* A list without the first a in it, which find returns.
Find(s, a) == CHOOSE k \in 1..Len(s) : s[k] = a /\ \A j \in 1..(k - 1) : s[j] # a
Erased(s, a) == IF Contains(s, a) THEN RemoveAt(s, Find(s, a)) ELSE s

TimerInit ==
    /\ entry = [a \in Address |-> Null]
    /\ timerEventList = <<>> /\ ownEvents = [t \in Timer |-> <<>>]
    /\ timerEvent = FALSE
    /\ timer = [pc |-> "wait", te |-> Null, rest |-> <<>>, timed |-> FALSE]
    /\ owner = <<>> /\ fired = {} /\ cut = {}

TimerMutexFree == timer.pc = "wait"

(***************************************************************************)
(* TimerThread::TimerSetEvent and TimerDelEvent, for other threads.        *)
(***************************************************************************)
TimerSetEvent(t, a) ==
    /\ TimerMutexFree /\ Len(owner) < MaxEvents /\ entry[a] = Null
    /\ entry' = [entry EXCEPT ![a] = [id |-> Len(owner) + 1, of |-> t, due |-> FALSE]]
    /\ timerEventList' = Append(timerEventList, a)
    /\ timerEvent' = TRUE
    /\ owner' = Append(owner, t)
    /\ UNCHANGED <<ownEvents, timer, fired, cut>>

\* TimerSetEvent of the base class: what follows the call above.
KeepEvent(t, a) == ownEvents' = [ownEvents EXCEPT ![t] = Append(@, a)]

\* mutant: the entry is freed and stays on the list
FreesOnly(by, a) ==
    /\ entry' = IF Listed(a) THEN [entry EXCEPT ![a] = Null] ELSE entry
    /\ cut' = IF Listed(a) /\ entry[a].of # by THEN cut \cup {entry[a].id} ELSE cut
    /\ UNCHANGED <<timerEventList, timerEvent, owner, fired>>
\* by is the Timer that asks, or Null for a copy of one.
TimerDelEvent(by, a) ==
    /\ timerEventList' = Erased(timerEventList, a)
    /\ entry' = IF Listed(a) THEN [entry EXCEPT ![a] = Null] ELSE entry
    /\ cut' = IF Listed(a) /\ entry[a].of # by THEN cut \cup {entry[a].id} ELSE cut
    /\ UNCHANGED <<timerEvent, owner, fired>>

(***************************************************************************)
(* TimerThreadProc.                                                        *)
(***************************************************************************)
BecomesDue(a) ==
    /\ entry[a] # Null /\ ~entry[a].due
    /\ entry' = [entry EXCEPT ![a].due = TRUE]
    /\ UNCHANGED <<timerEventList, ownEvents, timerEvent, timer, owner, fired, cut>>

Wakes ==
    /\ timer.pc = "wait" /\ (timerEvent \/ timer.timed)
    /\ timer' = [timer EXCEPT !.pc = "scan", !.rest = timerEventList, !.timed = FALSE]
    /\ UNCHANGED <<entry, timerEventList, ownEvents, timerEvent, owner, fired, cut>>

NextEntry == Head(timer.rest)

\* mutant: the timeout is not computed from what remains
PassOver ==
    /\ timer.pc = "scan" /\ timer.rest # <<>> /\ ~entry[NextEntry].due
    /\ timer' = [timer EXCEPT !.rest = Tail(@)]
    /\ UNCHANGED <<entry, timerEventList, ownEvents, timerEvent, owner, fired, cut>>
Remains ==
    /\ timer.pc = "scan" /\ timer.rest # <<>> /\ ~entry[NextEntry].due
    /\ timer' = [timer EXCEPT !.rest = Tail(@), !.timed = TRUE]
    /\ UNCHANGED <<entry, timerEventList, ownEvents, timerEvent, owner, fired, cut>>

Expired ==
    /\ timer.pc = "scan" /\ timer.rest # <<>> /\ entry[NextEntry].due
    /\ timer' = [timer EXCEPT !.pc = "fire", !.te = NextEntry, !.rest = Tail(@)]
    /\ UNCHANGED <<entry, timerEventList, ownEvents, timerEvent, owner, fired, cut>>

\* TimerFireEvent: the callback has been called, whatever else it does.
Fires ==
    /\ timer.pc = "fire"
    /\ timer' = [timer EXCEPT !.pc = "delete"]
    /\ fired' = fired \cup {entry[timer.te].id}
    /\ UNCHANGED <<entry, timerEventList, ownEvents, timerEvent, owner, cut>>

\* An entry that is not on the Timer's own list (yet) stays on the thread's.
TimerDeletes ==
    /\ timer.pc = "delete"
    /\ LET t == entry[timer.te].of
       IN IF Contains(ownEvents[t], timer.te)
          THEN /\ ownEvents' = [ownEvents EXCEPT ![t] = Erased(@, timer.te)]
               /\ TimerDelEvent(t, timer.te)
          ELSE UNCHANGED <<entry, timerEventList, ownEvents, timerEvent, owner, fired, cut>>
    /\ timer' = [timer EXCEPT !.pc = "scan", !.te = Null]

ScanEnds ==
    /\ timer.pc = "scan" /\ timer.rest = <<>>
    /\ timerEvent' = FALSE
    /\ timer' = [timer EXCEPT !.pc = "wait"]
    /\ UNCHANGED <<entry, timerEventList, ownEvents, owner, fired, cut>>

\* The entries on the list are the ones that are allocated, each once.
TimerTypeOK ==
    /\ entry \in [Address -> EntryRec \cup {Null}]
    /\ \A a \in Address : Listed(a) <=> entry[a] # Null
    /\ \A j, k \in DOMAIN timerEventList : j # k => timerEventList[j] # timerEventList[k]
    /\ timerEventList \in Seq(Address) /\ ownEvents \in [Timer -> Seq(Address)]
    /\ timerEvent \in BOOLEAN
    /\ timer \in [pc : {"wait", "scan", "fire", "delete"}, te : Address \cup {Null},
                  rest : Seq(Address), timed : BOOLEAN]
    /\ owner \in Seq(Timer) /\ Len(owner) <= MaxEvents
    /\ fired \subseteq Events /\ cut \subseteq Events
=============================================================================
