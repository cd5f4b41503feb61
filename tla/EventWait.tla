------------------------------ MODULE EventWait ------------------------------
(***************************************************************************)
(* Events and Wait::Multiple (src/cpp/src/platform/Event.cpp, Wait.cpp,    *)
(* unix/EventImpl.cpp, unix/WaitImpl.cpp): one thread waits for several    *)
(* objects, which other threads signal at any time. Setting an event is    *)
(* two steps, the flag and, under the object's lock, the callbacks of its  *)
(* watchers; so is adding a watcher, the list and then a look at the flag, *)
(* which takes no lock. The waiting thread registers with one object after *)
(* the other an event of its own, waits for that event, looks which object *)
(* is signalled, and unregisters.                                          *)
(*                                                                         *)
(* Objects are numbered by their place in the array that is waited for.    *)
(*                                                                         *)
(* A definition marked "mutant" is the variant with a plausible bug of the *)
(* definition that follows it; nothing uses it but the mutation runs.      *)
(***************************************************************************)
EXTENDS Integers

CONSTANTS
    LastObject,     \* the highest place in the array
    Setter,         \* threads that signal objects, other than the one that waits
    Null

Object == 0..LastObject
ASSUME EventConstants == LastObject \in Nat /\ Null \notin Object

VARIABLES
    signalled,      \* m_isSignaled of each object
    watched,        \* objects whose m_watchers holds the waiting thread's entry
    setting,        \* the object a thread has flagged and whose watchers it has not called yet
    wait            \* the waiting thread: how far Wait::Multiple is, and its event

eventVars == <<signalled, watched, setting, wait>>

WaitRec == [pc : {"Returned", "Add", "Test", "Block", "Scan", "Remove"}, at : Object,
            count : 1..(LastObject + 1), timed : BOOLEAN, event : BOOLEAN,
            res : Object \cup {-1}]

EventInit ==
    /\ signalled = [o \in Object |-> FALSE]
    /\ watched = {}
    /\ setting = [t \in Setter |-> Null]
    /\ wait = [pc |-> "Returned", at |-> 0, count |-> 1, timed |-> FALSE,
               event |-> FALSE, res |-> -1]

(***************************************************************************)
(* Event::Set by another thread, and what resets an event.                 *)
(***************************************************************************)
SetFlag(t, o) ==
    /\ setting[t] = Null
    /\ signalled' = [signalled EXCEPT ![o] = TRUE]
    /\ setting' = [setting EXCEPT ![t] = o]
    /\ UNCHANGED <<watched, wait>>

Notify(t) ==
    /\ setting[t] # Null
    /\ setting' = [setting EXCEPT ![t] = Null]
    /\ wait' = [wait EXCEPT !.event = @ \/ setting[t] \in watched]
    /\ UNCHANGED <<signalled, watched>>

Signal(o, to) == signalled' = [signalled EXCEPT ![o] = to]

(***************************************************************************)
(* Wait::Multiple for the first count objects.                             *)
(***************************************************************************)
Multiple(count, timed) ==
    /\ wait.pc = "Returned"
    /\ wait' = [pc |-> "Add", at |-> 0, count |-> count, timed |-> timed,
                event |-> FALSE, res |-> -1]
    /\ UNCHANGED <<signalled, watched, setting>>

\* The loops over the objects: on to the next one, or out of the loop.
Onward(again, out) ==
    IF wait.at + 1 < wait.count THEN [wait EXCEPT !.pc = again, !.at = @ + 1]
    ELSE [wait EXCEPT !.pc = out, !.at = 0]

AddWatcher ==
    /\ wait.pc = "Add"
    /\ watched' = watched \cup {wait.at}
    /\ wait' = [wait EXCEPT !.pc = "Test"]
    /\ UNCHANGED <<signalled, setting>>

\* mutant: a flag that is already set is not looked at
OnlyAdded ==
    /\ wait.pc = "Test"
    /\ wait' = Onward("Add", IF wait.event THEN "Scan" ELSE "Block")
    /\ UNCHANGED <<signalled, watched, setting>>
TestSignalled ==
    /\ wait.pc = "Test"
    /\ LET event == wait.event \/ signalled[wait.at]
       IN wait' = [Onward("Add", IF event THEN "Scan" ELSE "Block") EXCEPT !.event = event]
    /\ UNCHANGED <<signalled, watched, setting>>

WakeUp ==
    /\ wait.pc = "Block" /\ wait.event
    /\ wait' = [wait EXCEPT !.pc = "Scan"]
    /\ UNCHANGED <<signalled, watched, setting>>

\* ETIMEDOUT, also when the event is set in that very moment.
TimeOut ==
    /\ wait.pc = "Block" /\ wait.timed
    /\ wait' = [wait EXCEPT !.pc = "Remove"]
    /\ UNCHANGED <<signalled, watched, setting>>

Scan ==
    /\ wait.pc = "Scan"
    /\ wait' = [Onward("Scan", "Remove") EXCEPT !.res =
                    IF @ = -1 /\ signalled[wait.at] THEN wait.at ELSE @]
    /\ UNCHANGED <<signalled, watched, setting>>

\* One object after the other; nobody looks at the event any more.
RemoveWatchers ==
    /\ wait.pc = "Remove"
    /\ watched' = {}
    /\ wait' = [wait EXCEPT !.pc = "Returned"]
    /\ UNCHANGED <<signalled, setting>>

WaitStep == AddWatcher \/ TestSignalled \/ WakeUp \/ TimeOut \/ Scan \/ RemoveWatchers

(***************************************************************************)
(* Properties.                                                             *)
(***************************************************************************)
EventTypeOK ==
    /\ signalled \in [Object -> BOOLEAN]
    /\ watched \subseteq Object
    /\ setting \in [Setter -> Object \cup {Null}]
    /\ wait \in WaitRec

(***************************************************************************)
(* No wake-up is lost: a thread that is blocked and has not been woken     *)
(* waits for objects none of which is signalled, unless the thread that    *)
(* signals one is about to call its watchers.                              *)
(***************************************************************************)
AwakeWhenSignalled ==
    (wait.pc = "Block" /\ ~wait.event) =>
        \A o \in Object : o < wait.count /\ signalled[o] => \E t \in Setter : setting[t] = o
=============================================================================
