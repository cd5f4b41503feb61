------------------------- MODULE ValueRefreshProofs -------------------------
(***************************************************************************)
(* Machine-checked proofs about Timers and ValueRefresh, for any values,   *)
(* addresses, levels and bounds: everything keeps its type, no event       *)
(* outlives the value it calls, a verified value changes only to what was  *)
(* reported twice, and one under verification is not left alone.           *)
(***************************************************************************)
EXTENDS ValueRefresh, SequenceLemmas

-----------------------------------------------------------------------------
(* find and erase.                                                         *)

LEMMA FindFacts ==
    ASSUME NEW S, NEW s \in Seq(S), NEW a, Contains(s, a)
    PROVE  /\ Find(s, a) \in 1..Len(s) /\ s[Find(s, a)] = a
           /\ \A j \in 1..(Find(s, a) - 1) : s[j] # a
<1> DEFINE T == {k \in 1..Len(s) : s[k] = a}
<1>1. T \subseteq Nat /\ T # {} /\ Len(s) \in Nat
  BY DEF Contains
<1>2. PICK m \in T : \A k \in T : m <= k
  BY <1>1, SmallestExists
<1>3. m \in 1..Len(s) /\ s[m] = a
  OBVIOUS
<1>4. \A j \in 1..(m - 1) : s[j] # a
  <2> SUFFICES ASSUME NEW j \in 1..(m - 1), s[j] = a PROVE FALSE
    OBVIOUS
  <2>1. j \in 1..Len(s) /\ ~(m <= j)
    BY <1>1, <1>3
  <2> QED
    BY <1>2, <2>1
<1> QED
  BY <1>3, <1>4 DEF Find

(* The first a goes; the others stay, in their order. *)
LEMMA ErasedFacts ==
    ASSUME NEW S, NEW s \in Seq(S), NEW a
    PROVE  /\ Erased(s, a) \in Seq(S)
           /\ \A b : b # a => (Contains(Erased(s, a), b) <=> Contains(s, b))
           /\ Contains(Erased(s, a), a) => Contains(s, a)
           /\ s # <<>> /\ Head(s) # a => Erased(s, a) # <<>> /\ Head(Erased(s, a)) = Head(s)
<1>1. CASE ~Contains(s, a)
  BY <1>1 DEF Erased
<1>2. CASE Contains(s, a)
  <2> DEFINE p == Find(s, a)
             e == Erased(s, a)
             n == Len(s)
  <2>1. p \in 1..n /\ s[p] = a /\ \A j \in 1..(p - 1) : s[j] # a
    BY <1>2, FindFacts
  <2>2. /\ e \in Seq(S) /\ Len(e) = n - 1 /\ n \in Nat
        /\ \A j \in 1..(n - 1) : e[j] = IF j < p THEN s[j] ELSE s[j + 1]
    <3>1. e = RemoveAt(s, p) /\ n \in Nat
      BY <1>2 DEF Erased
    <3> HIDE DEF p, e
    <3> QED
      BY <2>1, <3>1, RemoveAtType
  <2> HIDE DEF p, e, n
  <2>3. ASSUME NEW b, Contains(e, b)
        PROVE  Contains(s, b)
    <3>1. PICK j \in 1..(n - 1) : e[j] = b
      BY <2>2, <2>3 DEF Contains
    <3>2. j \in 1..n /\ j + 1 \in 1..n
      BY <2>2
    <3> QED
      BY <2>2, <3>1, <3>2 DEF Contains, n
  <2>4. ASSUME NEW b, b # a, Contains(s, b)
        PROVE  Contains(e, b)
    <3>1. PICK j \in 1..n : s[j] = b
      BY <2>4 DEF Contains, n
    <3>2. CASE j < p
      <4>1. j \in 1..(n - 1) /\ e[j] = b
        BY <2>1, <2>2, <3>1, <3>2
      <4> QED
        BY <2>2, <4>1 DEF Contains
    <3>3. CASE j > p
      <4>1. j - 1 \in 1..(n - 1) /\ ~(j - 1 < p) /\ (j - 1) + 1 = j
        BY <2>1, <2>2, <3>3
      <4>2. e[j - 1] = b
        BY <2>2, <3>1, <4>1
      <4> QED
        BY <2>2, <4>1, <4>2 DEF Contains
    <3> QED
      BY <2>1, <2>4, <3>1, <3>2, <3>3
  <2>5. ASSUME s # <<>>, Head(s) # a
        PROVE  e # <<>> /\ Head(e) = Head(s)
    <3>1. s[1] # a /\ Head(s) = s[1]
      BY <2>5
    <3>2. 1 < p /\ 1 \in 1..(n - 1)
      BY <2>1, <2>2, <3>1
    <3>3. Len(e) # 0 /\ e[1] = s[1]
      BY <2>2, <3>2
    <3> QED
      BY <2>2, <3>1, <3>3
  <2> QED
    BY <2>2, <2>3, <2>4, <2>5 DEF e
<1> QED
  BY <1>1, <1>2

(* In a list that has nothing twice, erasing an element leaves the others. *)
OnceOnly(s) == \A j, k \in DOMAIN s : j # k => s[j] # s[k]

LEMMA ErasedOnce ==
    ASSUME NEW S, NEW s \in Seq(S), OnceOnly(s), NEW a
    PROVE  OnceOnly(Erased(s, a)) /\ ~Contains(Erased(s, a), a)
<1>1. CASE ~Contains(s, a)
  BY <1>1 DEF Erased
<1>2. CASE Contains(s, a)
  <2> DEFINE p == Find(s, a)
             e == Erased(s, a)
             n == Len(s)
             place(j) == IF j < p THEN j ELSE j + 1
  <2>1. p \in 1..n /\ s[p] = a
    BY <1>2, FindFacts
  <2>2. /\ e \in Seq(S) /\ Len(e) = n - 1 /\ n \in Nat
        /\ \A j \in 1..(n - 1) : e[j] = s[place(j)]
    <3>1. e = RemoveAt(s, p) /\ n \in Nat
      BY <1>2 DEF Erased
    <3> HIDE DEF p, e
    <3> QED
      BY <2>1, <3>1, RemoveAtType
  <2>3. DOMAIN e = 1..(n - 1) /\ DOMAIN s = 1..n
    BY <2>2
  <2> HIDE DEF p, e, n
  <2>4. ASSUME NEW j \in 1..(n - 1), NEW k \in 1..(n - 1), j # k
        PROVE  e[j] # e[k]
    <3>1. place(j) \in 1..n /\ place(k) \in 1..n /\ place(j) # place(k)
      BY <2>1, <2>2, <2>4
    <3> HIDE DEF place
    <3> QED
      BY <2>2, <2>3, <3>1 DEF OnceOnly
  <2>5. ASSUME NEW j \in 1..(n - 1)
        PROVE  e[j] # a
    <3>1. place(j) \in 1..n /\ place(j) # p
      BY <2>1, <2>2
    <3> HIDE DEF place
    <3> QED
      BY <2>1, <2>2, <2>3, <3>1 DEF OnceOnly
  <2> QED
    BY <2>2, <2>3, <2>4, <2>5 DEF OnceOnly, Contains, e
<1> QED
  BY <1>1, <1>2

LEMMA AppendOnce ==
    ASSUME NEW S, NEW s \in Seq(S), OnceOnly(s), NEW a \in S, ~Contains(s, a)
    PROVE  /\ Append(s, a) \in Seq(S) /\ OnceOnly(Append(s, a))
           /\ \A b : Contains(Append(s, a), b) <=> Contains(s, b) \/ b = a
<1> DEFINE e == Append(s, a)
           n == Len(s)
<1>1. /\ e \in Seq(S) /\ Len(e) = n + 1 /\ n \in Nat
      /\ \A j \in 1..n : e[j] = s[j]
      /\ e[n + 1] = a
      /\ DOMAIN e = 1..(n + 1) /\ DOMAIN s = 1..n
  OBVIOUS
<1> HIDE DEF e, n
<1>2. \A j \in 1..n : s[j] # a
  BY DEF Contains, n
<1>3. OnceOnly(e)
  <2> SUFFICES ASSUME NEW j \in 1..(n + 1), NEW k \in 1..(n + 1), j # k
               PROVE  e[j] # e[k]
    BY <1>1 DEF OnceOnly
  <2> QED
    BY <1>1, <1>2 DEF OnceOnly
<1>4. ASSUME NEW b
      PROVE  Contains(e, b) <=> Contains(s, b) \/ b = a
  BY <1>1 DEF Contains, n
<1> QED
  BY <1>1, <1>3, <1>4 DEF e

-----------------------------------------------------------------------------
(* The timer thread.                                                       *)

(***************************************************************************)
(* While the timer thread scans, nobody else changes the list: what is     *)
(* left of it to look at is allocated, and so is the entry that is due.    *)
(***************************************************************************)
TimerInv ==
    /\ TimerTypeOK
    /\ timer.pc \in {"fire", "delete"} => timer.te \in Address /\ entry[timer.te] # Null
    /\ timer.pc # "wait" =>
         /\ OnceOnly(timer.rest)
         /\ \A a \in Address : Contains(timer.rest, a) =>
              entry[a] # Null /\ (timer.pc \in {"fire", "delete"} => a # timer.te)
    /\ \A a \in Address : entry[a] # Null =>
         entry[a].id \in 1..Len(owner) /\ owner[entry[a].id] = entry[a].of
    /\ cut \subseteq 1..Len(owner)

(* The facts of TimerTypeOK, as the provers like them. *)
LEMMA TimerFacts ==
    ASSUME TimerInv
    PROVE  /\ entry \in [Address -> EntryRec \cup {Null}]
           /\ \A a \in Address : entry[a] # Null =>
                /\ entry[a].id \in Events /\ entry[a].of \in Timer /\ entry[a].due \in BOOLEAN
           /\ \A a \in Address : Contains(timerEventList, a) <=> entry[a] # Null
           /\ OnceOnly(timerEventList) /\ timerEventList \in Seq(Address)
           /\ ownEvents \in [Timer -> Seq(Address)]
           /\ owner \in Seq(Timer) /\ Len(owner) <= MaxEvents /\ Len(owner) \in Nat
           /\ timer \in [pc : {"wait", "scan", "fire", "delete"}, te : Address \cup {Null},
                         rest : Seq(Address), timed : BOOLEAN]
BY TimerConstants DEF TimerInv, TimerTypeOK, Listed, OnceOnly, EntryRec

LEMMA SetEventSafe ==
    ASSUME TimerInv, NEW t \in Timer, NEW a \in Address, TimerSetEvent(t, a)
    PROVE  /\ TimerInv' /\ UNCHANGED <<ownEvents, timer, fired, cut>>
           /\ entry'[a] # Null /\ entry'[a].of = t
           /\ \A b \in Address : b # a => entry'[b] = entry[b]
           /\ owner' = Append(owner, t)
<1> DEFINE e == [id |-> Len(owner) + 1, of |-> t, due |-> FALSE]
<1>1. /\ timer.pc = "wait" /\ Len(owner) < MaxEvents /\ entry[a] = Null
      /\ entry' = [entry EXCEPT ![a] = e]
      /\ timerEventList' = Append(timerEventList, a)
      /\ timerEvent' = TRUE /\ owner' = Append(owner, t)
      /\ UNCHANGED <<ownEvents, timer, fired, cut>>
  BY DEF TimerSetEvent, TimerMutexFree
<1>2. e \in EntryRec /\ e.id = Len(owner) + 1 /\ e.of = t /\ e # Null
  <2> DEFINE k == Len(owner) + 1
  <2>1. k \in Events
    BY <1>1, TimerFacts, TimerConstants DEF Events
  <2>2. e = [id |-> k, of |-> t, due |-> FALSE]
    OBVIOUS
  <2> HIDE DEF e, k
  <2>3. e \in EntryRec /\ e.id = k /\ e.of = t
    BY <2>1, <2>2 DEF EntryRec
  <2> QED
    BY <2>3, TimerConstants DEF k
<1> HIDE DEF e
<1>3. entry' \in [Address -> EntryRec \cup {Null}] /\ entry'[a] = e
      /\ \A b \in Address : b # a => entry'[b] = entry[b]
  BY <1>1, <1>2, TimerFacts
<1>4. /\ timerEventList' \in Seq(Address) /\ OnceOnly(timerEventList')
      /\ \A b \in Address : Contains(timerEventList', b) <=> Contains(timerEventList, b) \/ b = a
  <2>1. ~Contains(timerEventList, a)
    BY <1>1, TimerFacts
  <2> QED
    BY <1>1, <2>1, TimerFacts, AppendOnce
<1>5. \A b \in Address : Contains(timerEventList', b) <=> entry'[b] # Null
  BY <1>1, <1>2, <1>3, <1>4, TimerFacts
<1>6. /\ owner' \in Seq(Timer) /\ Len(owner') = Len(owner) + 1 /\ Len(owner') <= MaxEvents
      /\ \A k \in 1..Len(owner) : owner'[k] = owner[k]
      /\ owner'[Len(owner) + 1] = t
  BY <1>1, TimerFacts, TimerConstants
<1>7. TimerTypeOK'
  BY <1>1, <1>3, <1>4, <1>5, <1>6 DEF TimerInv, TimerTypeOK, Listed, OnceOnly
<1>8. \A b \in Address : entry'[b] # Null =>
         entry'[b].id \in 1..Len(owner') /\ owner'[entry'[b].id] = entry'[b].of
  <2> SUFFICES ASSUME NEW b \in Address, entry'[b] # Null
               PROVE  entry'[b].id \in 1..Len(owner') /\ owner'[entry'[b].id] = entry'[b].of
    OBVIOUS
  <2>1. CASE b = a
    BY <1>2, <1>3, <1>6, <2>1, TimerFacts
  <2>2. CASE b # a
    <3>1. entry[b].id \in 1..Len(owner) /\ owner[entry[b].id] = entry[b].of
      BY <1>3, <2>2 DEF TimerInv
    <3> QED
      BY <1>3, <1>6, <2>2, <3>1, TimerFacts
  <2> QED
    BY <2>1, <2>2
<1>9. cut' \subseteq 1..Len(owner')
  BY <1>1, <1>6, TimerFacts DEF TimerInv
<1> QED
  BY <1>1, <1>2, <1>3, <1>7, <1>8, <1>9 DEF TimerInv

(* TimerDelEvent, on any thread: the entry is gone, the others are left. *)
LEMMA DelEventFacts ==
    ASSUME TimerInv, NEW by, NEW a \in Address, TimerDelEvent(by, a)
    PROVE  /\ entry' = [entry EXCEPT ![a] = Null]
           /\ entry' \in [Address -> EntryRec \cup {Null}]
           /\ timerEventList' \in Seq(Address) /\ OnceOnly(timerEventList')
           /\ \A b \in Address : Contains(timerEventList', b) <=> entry'[b] # Null
           /\ cut \subseteq cut' /\ cut' \subseteq Events \cap (1..Len(owner))
           /\ entry[a] # Null /\ entry[a].of # by => entry[a].id \in cut'
           /\ UNCHANGED <<timerEvent, owner, fired>>
<1>1. Contains(timerEventList, a) <=> entry[a] # Null
  BY TimerFacts
<1>2. entry' = [entry EXCEPT ![a] = Null]
  BY <1>1, TimerFacts DEF TimerDelEvent, Listed
<1>3. timerEventList' = Erased(timerEventList, a)
  BY DEF TimerDelEvent
<1>4. /\ timerEventList' \in Seq(Address) /\ OnceOnly(timerEventList')
      /\ ~Contains(timerEventList', a)
      /\ \A b \in Address : b # a => (Contains(timerEventList', b) <=> Contains(timerEventList, b))
  BY <1>3, TimerFacts, ErasedFacts, ErasedOnce
<1>5. cut' = IF entry[a] # Null /\ entry[a].of # by THEN cut \cup {entry[a].id} ELSE cut
  BY <1>1 DEF TimerDelEvent, Listed
<1>6. /\ cut \subseteq Events \cap (1..Len(owner))
      /\ entry[a] # Null => entry[a].id \in Events \cap (1..Len(owner))
  BY TimerFacts DEF TimerInv, TimerTypeOK
<1> QED
  BY <1>2, <1>4, <1>5, <1>6, TimerFacts DEF TimerDelEvent

(* While the timer thread sleeps. *)
LEMMA DelEventSafe ==
    ASSUME TimerInv, NEW by, NEW a \in Address, TimerDelEvent(by, a), TimerMutexFree,
           UNCHANGED timer, ownEvents' \in [Timer -> Seq(Address)]
    PROVE  TimerInv'
<1>1. TimerTypeOK'
  BY DelEventFacts DEF TimerInv, TimerTypeOK, Listed, OnceOnly
<1> QED
  BY <1>1, DelEventFacts, TimerFacts DEF TimerInv, TimerMutexFree

LEMMA OwnListSafe ==
    ASSUME TimerInv, ownEvents' \in [Timer -> Seq(Address)],
           UNCHANGED <<entry, timerEventList, timerEvent, timer, owner, fired, cut>>
    PROVE  TimerInv'
BY DEF TimerInv, TimerTypeOK, Listed

LEMMA TimePassesSafe ==
    ASSUME TimerInv, NEW a \in Address, BecomesDue(a)
    PROVE  /\ TimerInv'
           /\ \A b \in Address : /\ entry'[b] # Null <=> entry[b] # Null
                                 /\ entry[b] # Null => entry'[b].of = entry[b].of
                                                       /\ entry'[b].id = entry[b].id
<1>1. entry[a] \in EntryRec /\ entry[a] # Null
  BY TimerFacts DEF BecomesDue
<1>2. /\ entry' = [entry EXCEPT ![a] = [entry[a] EXCEPT !.due = TRUE]]
      /\ UNCHANGED <<timerEventList, ownEvents, timerEvent, timer, owner, fired, cut>>
  BY DEF BecomesDue
<1> DEFINE e == [entry[a] EXCEPT !.due = TRUE]
<1>3. e \in EntryRec /\ e # Null /\ e.of = entry[a].of /\ e.id = entry[a].id
  BY <1>1, TimerConstants DEF EntryRec
<1> HIDE DEF e
<1>4. \A b \in Address : /\ entry'[b] # Null <=> entry[b] # Null
                         /\ entry[b] # Null => entry'[b].of = entry[b].of /\ entry'[b].id = entry[b].id
  BY <1>1, <1>2, <1>3, TimerFacts DEF e
<1>5. entry' \in [Address -> EntryRec \cup {Null}]
  BY <1>2, <1>3, TimerFacts DEF e
<1>6. TimerTypeOK'
  BY <1>2, <1>4, <1>5 DEF TimerInv, TimerTypeOK, Listed
<1> QED
  BY <1>2, <1>4, <1>6 DEF TimerInv

LEMMA ScanSafe ==
    ASSUME TimerInv, Wakes \/ Remains \/ Expired \/ ScanEnds
    PROVE  TimerInv' /\ UNCHANGED <<entry, ownEvents, owner, fired, cut>> /\ timer'.pc # "delete"
<1>0. /\ timer \in [pc : {"wait", "scan", "fire", "delete"}, te : Address \cup {Null},
                   rest : Seq(Address), timed : BOOLEAN]
      /\ OnceOnly(timerEventList) /\ timerEventList \in Seq(Address)
      /\ \A a \in Address : Contains(timerEventList, a) <=> entry[a] # Null
  BY TimerFacts
<1>1. CASE Wakes
  <2>1. timer' = [timer EXCEPT !.pc = "scan", !.rest = timerEventList, !.timed = FALSE]
        /\ UNCHANGED <<entry, timerEventList, ownEvents, timerEvent, owner, fired, cut>>
    BY <1>1 DEF Wakes
  <2>2. timer'.pc = "scan" /\ timer'.rest = timerEventList
    BY <1>0, <2>1
  <2>3. TimerTypeOK'
    BY <1>0, <2>1 DEF TimerInv, TimerTypeOK, Listed
  <2> QED
    BY <1>0, <2>1, <2>2, <2>3 DEF TimerInv
<1>2. CASE Remains \/ Expired
  <2> DEFINE a == Head(timer.rest)
             rest == Tail(timer.rest)
  <2>1. timer.pc = "scan" /\ timer.rest # <<>> /\ timer.rest \in Seq(Address) /\ OnceOnly(timer.rest)
    BY <1>0, <1>2 DEF Remains, Expired, TimerInv
  <2>2. /\ a \in Address /\ Contains(timer.rest, a) /\ rest \in Seq(Address)
        /\ Len(timer.rest) \in Nat /\ Len(rest) = Len(timer.rest) - 1 /\ a = timer.rest[1]
        /\ \A k \in 1..Len(rest) : rest[k] = timer.rest[k + 1]
        /\ DOMAIN timer.rest = 1..Len(timer.rest) /\ DOMAIN rest = 1..Len(rest)
    BY <2>1 DEF Contains
  <2> HIDE DEF a, rest
  <2>3. OnceOnly(rest)
    <3> SUFFICES ASSUME NEW j \in 1..Len(rest), NEW k \in 1..Len(rest), j # k
                 PROVE  rest[j] # rest[k]
      BY <2>2 DEF OnceOnly
    <3>1. j + 1 \in DOMAIN timer.rest /\ k + 1 \in DOMAIN timer.rest /\ j + 1 # k + 1
      BY <2>2
    <3>2. timer.rest[j + 1] # timer.rest[k + 1]
      BY <2>1, <3>1 DEF OnceOnly
    <3>3. rest[j] = timer.rest[j + 1] /\ rest[k] = timer.rest[k + 1]
      BY <2>2
    <3> QED
      BY <3>2, <3>3
  <2>4. \A b \in Address : Contains(rest, b) => Contains(timer.rest, b) /\ b # a
    <3> SUFFICES ASSUME NEW b \in Address, NEW k \in 1..Len(rest), rest[k] = b
                 PROVE  Contains(timer.rest, b) /\ b # a
      BY DEF Contains
    <3>1. k + 1 \in 1..Len(timer.rest) /\ 1 \in 1..Len(timer.rest) /\ k + 1 # 1 /\ timer.rest[k + 1] = b
      BY <2>2
    <3>2. timer.rest[k + 1] # timer.rest[1]
      BY <2>1, <2>2, <3>1 DEF OnceOnly
    <3>3. Contains(timer.rest, b)
      BY <3>1 DEF Contains
    <3> QED
      BY <2>2, <3>1, <3>2, <3>3
  <2>5. entry[a] # Null
    BY <2>1, <2>2 DEF TimerInv
  <2>6. /\ UNCHANGED <<entry, timerEventList, ownEvents, timerEvent, owner, fired, cut>>
        /\ \/ timer' = [timer EXCEPT !.rest = rest, !.timed = TRUE]
           \/ timer' = [timer EXCEPT !.pc = "fire", !.te = a, !.rest = rest]
    BY <1>2 DEF Remains, Expired, NextEntry, a, rest
  <2>7. /\ timer' \in [pc : {"wait", "scan", "fire", "delete"}, te : Address \cup {Null},
                       rest : Seq(Address), timed : BOOLEAN]
        /\ timer'.rest = rest
        /\ timer'.pc = "scan" \/ (timer'.pc = "fire" /\ timer'.te = a)
    <3>1. timer \in [pc : {"wait", "scan", "fire", "delete"}, te : Address \cup {Null},
                     rest : Seq(Address), timed : BOOLEAN]
      BY <1>0
    <3>2. CASE timer' = [timer EXCEPT !.rest = rest, !.timed = TRUE]
      BY <2>1, <2>2, <3>1, <3>2
    <3>3. CASE timer' = [timer EXCEPT !.pc = "fire", !.te = a, !.rest = rest]
      BY <2>2, <3>1, <3>3
    <3> QED
      BY <2>6, <3>2, <3>3
  <2>8. TimerTypeOK'
    BY <2>6, <2>7 DEF TimerInv, TimerTypeOK, Listed
  <2> QED
    BY <2>1, <2>2, <2>3, <2>4, <2>5, <2>6, <2>7, <2>8 DEF TimerInv
<1>3. CASE ScanEnds
  <2>1. timer' = [timer EXCEPT !.pc = "wait"] /\ timerEvent' = FALSE
        /\ UNCHANGED <<entry, timerEventList, ownEvents, owner, fired, cut>>
    BY <1>3 DEF ScanEnds
  <2>2. timer'.pc = "wait"
    BY <1>0, <2>1
  <2>3. TimerTypeOK'
    BY <1>0, <2>1 DEF TimerInv, TimerTypeOK, Listed
  <2> QED
    BY <2>1, <2>2, <2>3 DEF TimerInv
<1> QED
  BY <1>1, <1>2, <1>3

LEMMA FiresSafe ==
    ASSUME TimerInv, Fires
    PROVE  /\ TimerInv' /\ UNCHANGED <<entry, ownEvents, owner, cut>>
           /\ timer.pc = "fire" /\ timer.te \in Address /\ entry[timer.te] # Null
           /\ timer'.pc = "delete" /\ timer'.te = timer.te
<1> USE TimerFacts
<1>1. /\ timer.pc = "fire" /\ timer.te \in Address /\ entry[timer.te] # Null
      /\ timer' = [timer EXCEPT !.pc = "delete"]
      /\ fired' = fired \cup {entry[timer.te].id}
      /\ UNCHANGED <<entry, timerEventList, ownEvents, timerEvent, owner, cut>>
  BY DEF Fires, TimerInv
<1>2. timer'.pc = "delete" /\ timer'.te = timer.te /\ timer'.rest = timer.rest
  BY <1>1
<1>3. TimerTypeOK'
  BY <1>1 DEF TimerInv, TimerTypeOK, Listed
<1> QED
  BY <1>1, <1>2, <1>3 DEF TimerInv

(* The entry that was due is off both lists, or stays on one where it was. *)
LEMMA DeletesSafe ==
    ASSUME TimerInv, TimerDeletes
    PROVE  /\ TimerInv' /\ UNCHANGED <<owner, fired>> /\ timer'.pc = "scan"
           /\ timer.pc = "delete" /\ timer.te \in Address /\ entry[timer.te] # Null
           /\ cut \subseteq cut'
           /\ LET t == entry[timer.te].of IN
                \/ /\ entry' = [entry EXCEPT ![timer.te] = Null]
                   /\ ownEvents' = [ownEvents EXCEPT ![t] = Erased(@, timer.te)]
                \/ /\ UNCHANGED <<entry, ownEvents>>
                   /\ ~Contains(ownEvents[t], timer.te)
<1> USE TimerFacts
<1> DEFINE t == entry[timer.te].of
<1>1. /\ timer.pc = "delete" /\ timer.te \in Address /\ entry[timer.te] # Null /\ t \in Timer
      /\ timer' = [timer EXCEPT !.pc = "scan", !.te = Null]
      /\ timer.rest \in Seq(Address)
  BY DEF TimerDeletes, TimerInv
<1>2. timer'.pc = "scan" /\ timer'.rest = timer.rest
  BY <1>1
<1>3. /\ OnceOnly(timer.rest)
      /\ \A a \in Address : Contains(timer.rest, a) => entry[a] # Null /\ a # timer.te
  BY <1>1 DEF TimerInv
<1>4. CASE Contains(ownEvents[t], timer.te)
  <2>1. /\ ownEvents' = [ownEvents EXCEPT ![t] = Erased(@, timer.te)]
        /\ TimerDelEvent(t, timer.te)
    BY <1>1, <1>4 DEF TimerDeletes
  <2>2. ownEvents' \in [Timer -> Seq(Address)]
    <3>1. Erased(ownEvents[t], timer.te) \in Seq(Address)
      BY <1>1, ErasedFacts
    <3> QED
      BY <1>1, <2>1, <3>1
  <2> HIDE DEF t
  <2>3. TimerTypeOK'
    BY <1>1, <2>1, <2>2, DelEventFacts DEF TimerInv, TimerTypeOK, Listed, OnceOnly
  <2>4. /\ entry' = [entry EXCEPT ![timer.te] = Null] /\ UNCHANGED <<owner, fired>>
        /\ cut \subseteq cut' /\ cut' \subseteq 1..Len(owner)
    BY <1>1, <2>1, DelEventFacts
  <2>5. TimerInv'
    BY <1>1, <1>2, <1>3, <2>3, <2>4 DEF TimerInv
  <2> QED
    BY <1>1, <1>2, <2>1, <2>4, <2>5 DEF t
<1>5. CASE ~Contains(ownEvents[t], timer.te)
  <2>1. UNCHANGED <<entry, timerEventList, ownEvents, timerEvent, owner, fired, cut>>
    BY <1>1, <1>5 DEF TimerDeletes
  <2>2. TimerTypeOK'
    BY <1>1, <2>1 DEF TimerInv, TimerTypeOK, Listed
  <2> QED
    BY <1>1, <1>2, <1>3, <1>5, <2>1, <2>2 DEF TimerInv
<1> QED
  BY <1>4, <1>5
-----------------------------------------------------------------------------
(* Values, the driver thread and the application.                          *)

(* TypeOK without the timer thread. *)
RestTypeOK ==
    /\ value \in [Timer -> ValueRec]
    /\ asked \subseteq Timer /\ lost \subseteq Timer /\ exists \subseteq Timer
    /\ driver \in [pc : {"idle", "set", "own", "destroy", "delete"}, v : Timer \cup {Null},
                   te : Address \cup {Null}, check : Level \cup {None}, erased : BOOLEAN]
    /\ app \in [pc : {"idle", "copy"}, rest : Seq(Address)]
    /\ nodeMutex \in {Null, "app", "driver"}
    /\ seen \in [Timer -> (Level \cup {None}) \X (Level \cup {None})]
    /\ undefined \in BOOLEAN
    /\ counters \in [reports : 0..MaxReports, sets : 0..MaxSets]

(* What the driver thread is at, in a handler. *)
DriverInv ==
    /\ driver.pc # "idle" => driver.v \in exists
    /\ driver.pc \in {"own", "delete"} => driver.te \in Address
    /\ driver.pc = "delete" /\ ~driver.erased =>
         ownEvents[driver.v] # <<>> /\ Head(ownEvents[driver.v]) = driver.te

(* An event is on the own list of a value that exists, or about to be. *)
Owned(a) ==
    LET v == entry[a].of IN
    /\ v \in exists
    /\ Contains(ownEvents[v], a) \/ (driver.pc = "own" /\ driver.te = a /\ driver.v = v)
OwnedInv == undefined \/ \A a \in Address : entry[a] # Null => Owned(a)

(***************************************************************************)
(* A value that is verified and has no target: while it is checked, the    *)
(* level it is checked against, or will be once its event is on its list,  *)
(* is the last one that was reported.                                      *)
(***************************************************************************)
Plain == Verified \ Targeted
Setting(v) == driver.v = v /\ driver.pc \in {"set", "own"}
CheckInv ==
    \A v \in Plain :
        /\ value[v].target = None
        /\ value[v].checking => value[v].isSet
        /\ value[v].checking => seen[v][2] = IF Setting(v) THEN driver.check ELSE value[v].check
        /\ Setting(v) => driver.check # None

(* Something will ask for the value that is checked, or has come to nothing. *)
Waiting(v) ==
    \E a \in Address : /\ entry[a] # Null /\ entry[a].of = v
                       /\ ~(timer.pc = "delete" /\ timer.te = a)
Followed(v) == Waiting(v) \/ v \in asked \cup lost \/ Cut(v) \/ undefined
FollowInv ==
    \A v \in Plain \cap exists :
        value[v].checking => Followed(v) \/ (driver.v = v /\ driver.pc # "own")

IInv == TimerInv /\ RestTypeOK /\ DriverInv /\ OwnedInv /\ CheckInv /\ FollowInv

(* What a report does, to its value and to nothing else. *)
LEMMA ReportFacts ==
    ASSUME TimerInv, RestTypeOK, NEW v \in Timer, NEW x \in LevelOf[v],
           NEW goal \in LevelOf[v] \cup {None}, OnValueRefreshed(v, x, goal)
    PROVE  /\ driver = Idle /\ v \in exists
           /\ UNCHANGED <<timerVars, exists, app, nodeMutex, undefined>>
           /\ asked \ {v} \subseteq asked' /\ asked' \subseteq asked /\ lost' = lost \ {v}
           /\ \A u \in Timer : u # v => value'[u] = value[u] /\ seen'[u] = seen[u]
           /\ RestTypeOK'
           /\ \/ driver' = Idle
              \/ \E c \in {x, None} : driver' = [Idle EXCEPT !.pc = "set", !.v = v, !.check = c]
<1>1. /\ driver = Idle /\ v \in exists
      /\ UNCHANGED <<timerVars, exists, app, nodeMutex, undefined>>
      /\ asked' \in {asked, asked \ {v}} /\ lost' = lost \ {v}
      /\ \/ UNCHANGED counters
         \/ /\ counters.reports < MaxReports
            /\ counters' = [counters EXCEPT !.reports = @ + 1]
      /\ seen' = IF v \in Verified THEN [seen EXCEPT ![v] = <<@[2], x>>] ELSE seen
  BY DEF OnValueRefreshed, Arrives, FirstRead, AtTarget, OffTarget, Untargeted, Unverified,
         SameAgain, Suspected, Confirmed, Spurious, ChangedAgain
<1>2. /\ x \in Level /\ None \notin LevelOf[v] /\ goal \in Level \cup {None}
      /\ TargetAfter(v, goal) \in Level \cup {None} /\ value[v] \in ValueRec
  <2>1. LevelOf[v] \subseteq Level
    BY DEF Level
  <2>2. value[v] \in ValueRec /\ value[v].target \in Level \cup {None}
    <3>1. value[v] \in ValueRec
      BY DEF RestTypeOK
    <3> QED
      BY <3>1 DEF ValueRec
  <2>3. None \notin LevelOf[v]
    BY ValueConstants
  <2> QED
    BY <2>1, <2>2, <2>3 DEF TargetAfter
<1>3. PICK w \in ValueRec, c \in {x, None} :
        /\ value' = [value EXCEPT ![v] = w]
        /\ driver' \in {Idle, [Idle EXCEPT !.pc = "set", !.v = v, !.check = c]}
  <2> DEFINE target == TargetAfter(v, goal)
             Ok(w, c) == /\ value' = [value EXCEPT ![v] = w]
                         /\ driver' \in {Idle, [Idle EXCEPT !.pc = "set", !.v = v, !.check = c]}
  <2>1. CASE FirstRead(v, x, goal)
    <3> DEFINE w == [value[v] EXCEPT !.isSet = TRUE, !.value = x, !.target = target]
    <3>1. w \in ValueRec
      BY <1>2 DEF ValueRec
    <3>2. Ok(w, None)
      BY <1>1, <2>1 DEF FirstRead, Settled
    <3> QED
      BY <3>1, <3>2
  <2>2. CASE AtTarget(v, x, goal)
    <3> DEFINE w == [value[v] EXCEPT !.value = x, !.target = None]
    <3>1. w \in ValueRec
      BY <1>2 DEF ValueRec
    <3>2. Ok(w, None)
      BY <1>1, <2>2 DEF AtTarget, Settled
    <3> QED
      BY <3>1, <3>2
  <2>3. CASE OffTarget(v, x, goal)
    <3> DEFINE w == [value[v] EXCEPT !.target = target]
    <3>1. w \in ValueRec
      BY <1>2 DEF ValueRec
    <3>2. Ok(w, None)
      BY <1>1, <2>3 DEF OffTarget, SetsTimer
    <3> QED
      BY <3>1, <3>2
  <2>4. CASE Unverified(v, x, goal)
    <3> DEFINE w == [value[v] EXCEPT !.value = x]
    <3>1. w \in ValueRec
      BY <1>2 DEF ValueRec
    <3>2. Ok(w, None)
      BY <1>1, <2>4 DEF Unverified, Settled
    <3> QED
      BY <3>1, <3>2
  <2>5. CASE SameAgain(v, x, goal)
    <3>1. Ok(value[v], None)
      BY <1>1, <2>5 DEF SameAgain, Settled
    <3> QED
      BY <1>2, <3>1
  <2>6. CASE Suspected(v, x, goal)
    <3> DEFINE w == [value[v] EXCEPT !.checking = TRUE]
    <3>1. w \in ValueRec
      BY <1>2 DEF ValueRec
    <3>2. Ok(w, x)
      BY <2>6 DEF Suspected, SetsTimer
    <3> QED
      BY <3>1, <3>2
  <2>7. CASE Confirmed(v, x, goal)
    <3> DEFINE w == [value[v] EXCEPT !.checking = FALSE, !.value = x]
    <3>1. w \in ValueRec
      BY <1>2 DEF ValueRec
    <3>2. Ok(w, None)
      BY <1>1, <2>7 DEF Confirmed, Settled
    <3> QED
      BY <3>1, <3>2
  <2>8. CASE Spurious(v, x, goal)
    <3> DEFINE w == [value[v] EXCEPT !.checking = FALSE]
    <3>1. w \in ValueRec
      BY <1>2 DEF ValueRec
    <3>2. Ok(w, None)
      BY <1>1, <2>8 DEF Spurious, Settled
    <3> QED
      BY <3>1, <3>2
  <2>9. CASE ChangedAgain(v, x, goal)
    <3>1. Ok(value[v], x)
      BY <2>9 DEF ChangedAgain, SetsTimer
    <3> QED
      BY <1>2, <3>1
  <2> QED
    BY <2>1, <2>2, <2>3, <2>4, <2>5, <2>6, <2>7, <2>8, <2>9 DEF OnValueRefreshed
<1>4. \A u \in Timer : u # v => value'[u] = value[u] /\ seen'[u] = seen[u]
  BY <1>1, <1>3 DEF RestTypeOK
<1>5. value' \in [Timer -> ValueRec]
  BY <1>3 DEF RestTypeOK
<1>6. seen' \in [Timer -> (Level \cup {None}) \X (Level \cup {None})]
  <2>1. seen[v] \in (Level \cup {None}) \X (Level \cup {None})
    BY DEF RestTypeOK
  <2>2. <<seen[v][2], x>> \in (Level \cup {None}) \X (Level \cup {None})
    BY <1>2, <2>1
  <2> QED
    BY <1>1, <2>2 DEF RestTypeOK
<1>7. driver' \in [pc : {"idle", "set", "own", "destroy", "delete"}, v : Timer \cup {Null},
                   te : Address \cup {Null}, check : Level \cup {None}, erased : BOOLEAN]
  <2>1. CASE driver' = Idle
    BY <2>1 DEF Idle
  <2>2. CASE driver' = [Idle EXCEPT !.pc = "set", !.v = v, !.check = c]
    <3>1. driver' = [pc |-> "set", v |-> v, te |-> Null, check |-> c, erased |-> FALSE]
      BY <2>2 DEF Idle
    <3> QED
      BY <1>2, <3>1
  <2> QED
    BY <1>3, <2>1, <2>2
<1>8. counters' \in [reports : 0..MaxReports, sets : 0..MaxSets]
  BY <1>1, ValueConstants DEF RestTypeOK
<1>9. RestTypeOK'
  BY <1>1, <1>5, <1>6, <1>7, <1>8 DEF RestTypeOK
<1> QED
  BY <1>1, <1>3, <1>4, <1>9

(* What it does to a value that is verified and has no target. *)
LEMMA PlainReport ==
    ASSUME TimerInv, RestTypeOK, CheckInv, NEW v \in Timer, v \in Plain, NEW x \in LevelOf[v],
           NEW goal \in LevelOf[v] \cup {None}, OnValueRefreshed(v, x, goal)
    PROVE  /\ value'[v].target = None
           /\ value'[v].checking =>
                value'[v].isSet /\ driver' = [Idle EXCEPT !.pc = "set", !.v = v, !.check = x]
           /\ driver' # Idle => driver' = [Idle EXCEPT !.pc = "set", !.v = v, !.check = x]
           /\ seen'[v][2] = x
           /\ value'[v].value # value[v].value =>
                ~value[v].isSet \/ seen'[v] = <<value'[v].value, value'[v].value>>
<1>1. driver = Idle /\ (goal # None => v \in Targeted)
      /\ seen' = IF v \in Verified THEN [seen EXCEPT ![v] = <<@[2], x>>] ELSE seen
  BY DEF OnValueRefreshed, Arrives, FirstRead, AtTarget, OffTarget, Untargeted, Unverified,
         SameAgain, Suspected, Confirmed, Spurious, ChangedAgain
<1>2. v \in Verified /\ goal = None /\ None # x
  BY <1>1, ValueConstants DEF Plain
<1>3. /\ value[v] \in ValueRec /\ value[v].target = None /\ TargetAfter(v, goal) = None
      /\ value[v].checking => value[v].isSet /\ seen[v][2] = value[v].check
  <2>1. ~Setting(v)
    BY <1>1 DEF Setting, Idle
  <2> QED
    BY <1>2, <2>1 DEF CheckInv, TargetAfter, RestTypeOK
<1>4. seen'[v] = <<seen[v][2], x>> /\ seen'[v][2] = x
  BY <1>1, <1>2 DEF RestTypeOK
<1>5. value \in [Timer -> ValueRec]
  BY DEF RestTypeOK
<1>6. CASE FirstRead(v, x, goal)
  <2> DEFINE w == [value[v] EXCEPT !.isSet = TRUE, !.value = x, !.target = None]
  <2>1. ~value[v].isSet /\ value' = [value EXCEPT ![v] = w] /\ driver' = driver
    BY <1>3, <1>6 DEF FirstRead, Settled
  <2>2. w.target = None /\ w.checking = value[v].checking
    BY <1>3 DEF ValueRec
  <2>3. value'[v] = w
    BY <1>5, <2>1
  <2> QED
    BY <1>1, <1>3, <1>4, <2>1, <2>2, <2>3
<1>7. CASE AtTarget(v, x, goal) \/ OffTarget(v, x, goal) \/ Unverified(v, x, goal)
  BY <1>2, <1>3, <1>7 DEF AtTarget, OffTarget, Unverified
<1>8. CASE SameAgain(v, x, goal)
  <2>1. ~value[v].checking /\ value' = [value EXCEPT ![v] = value[v]] /\ driver' = driver
    BY <1>8 DEF SameAgain, Settled
  <2> QED
    BY <1>1, <1>3, <1>4, <1>5, <2>1
<1>9. CASE Suspected(v, x, goal)
  <2> DEFINE w == [value[v] EXCEPT !.checking = TRUE]
  <2>1. /\ value' = [value EXCEPT ![v] = w] /\ value[v].isSet
        /\ driver' = [Idle EXCEPT !.pc = "set", !.v = v, !.check = x]
    BY <1>9 DEF Suspected, SetsTimer, Untargeted
  <2>2. w.target = None /\ w.isSet = value[v].isSet /\ w.value = value[v].value
    BY <1>3 DEF ValueRec
  <2>3. value'[v] = w
    BY <1>5, <2>1
  <2> QED
    BY <1>4, <2>1, <2>2, <2>3
<1>10. CASE Confirmed(v, x, goal)
  <2> DEFINE w == [value[v] EXCEPT !.checking = FALSE, !.value = x]
  <2>1. /\ value[v].checking /\ x = value[v].check
        /\ value' = [value EXCEPT ![v] = w] /\ driver' = driver
    BY <1>10 DEF Confirmed, Settled
  <2>2. w.target = None /\ ~w.checking /\ w.value = x
    BY <1>3 DEF ValueRec
  <2>3. value'[v] = w
    BY <1>5, <2>1
  <2> QED
    BY <1>1, <1>3, <1>4, <2>1, <2>2, <2>3
<1>11. CASE Spurious(v, x, goal)
  <2> DEFINE w == [value[v] EXCEPT !.checking = FALSE]
  <2>1. value' = [value EXCEPT ![v] = w] /\ driver' = driver
    BY <1>11 DEF Spurious, Settled
  <2>2. w.target = None /\ ~w.checking /\ w.value = value[v].value
    BY <1>3 DEF ValueRec
  <2>3. value'[v] = w
    BY <1>5, <2>1
  <2> QED
    BY <1>1, <1>4, <2>1, <2>2, <2>3
<1>12. CASE ChangedAgain(v, x, goal)
  <2>1. /\ value' = [value EXCEPT ![v] = value[v]] /\ value[v].isSet
        /\ driver' = [Idle EXCEPT !.pc = "set", !.v = v, !.check = x]
    BY <1>12 DEF ChangedAgain, SetsTimer, Untargeted
  <2> QED
    BY <1>3, <1>4, <1>5, <2>1
<1> QED
  BY <1>6, <1>7, <1>8, <1>9, <1>10, <1>11, <1>12 DEF OnValueRefreshed

LEMMA ReportSafe ==
    ASSUME IInv, NEW v \in Timer, NEW x \in LevelOf[v], NEW goal \in LevelOf[v] \cup {None},
           OnValueRefreshed(v, x, goal)
    PROVE  IInv'
<1>0. TimerInv /\ RestTypeOK /\ DriverInv /\ OwnedInv /\ CheckInv /\ FollowInv
  BY DEF IInv
<1>1. /\ driver = Idle /\ v \in exists
      /\ UNCHANGED <<timerVars, exists, app, nodeMutex, undefined>>
      /\ asked \ {v} \subseteq asked' /\ asked' \subseteq asked /\ lost' = lost \ {v}
      /\ \A u \in Timer : u # v => value'[u] = value[u] /\ seen'[u] = seen[u]
      /\ RestTypeOK'
      /\ \/ driver' = Idle
         \/ \E c \in {x, None} : driver' = [Idle EXCEPT !.pc = "set", !.v = v, !.check = c]
  BY <1>0, ReportFacts
<1>2. UNCHANGED <<entry, timerEventList, ownEvents, timerEvent, timer, owner, fired, cut>>
  BY <1>1 DEF timerVars
<1>3. TimerInv'
  BY <1>0, <1>2 DEF TimerInv, TimerTypeOK, Listed
<1>4. driver.pc = "idle" /\ driver.v = Null /\ v # Null
      /\ (driver' = Idle \/ (driver'.pc = "set" /\ driver'.v = v))
  BY <1>1, TimerConstants DEF Idle
<1>5. DriverInv'
  BY <1>1, <1>2, <1>4 DEF DriverInv, Idle
<1>6. OwnedInv'
  BY <1>0, <1>1, <1>2, <1>4 DEF OwnedInv, Owned
<1>7. CheckInv'
  <2> SUFFICES ASSUME NEW u \in Plain
               PROVE  /\ value'[u].target = None
                      /\ value'[u].checking => value'[u].isSet
                      /\ value'[u].checking =>
                           seen'[u][2] = IF Setting(u)' THEN driver'.check ELSE value'[u].check
                      /\ Setting(u)' => driver'.check # None
    BY DEF CheckInv
  <2>1. u \in Timer
    BY ValueConstants DEF Plain
  <2>2. CASE u = v
    <3>1. /\ value'[v].target = None
          /\ value'[v].checking =>
               value'[v].isSet /\ driver' = [Idle EXCEPT !.pc = "set", !.v = v, !.check = x]
          /\ driver' # Idle => driver' = [Idle EXCEPT !.pc = "set", !.v = v, !.check = x]
          /\ seen'[v][2] = x
      BY <1>0, <2>2, PlainReport
    <3>2. x # None
      BY ValueConstants
    <3>3. CASE driver' = Idle
      BY <1>4, <2>2, <3>1, <3>3 DEF Setting, Idle
    <3>4. CASE driver' # Idle
      <4>1. driver'.pc = "set" /\ driver'.v = v /\ driver'.check = x
        BY <3>1, <3>4 DEF Idle
      <4> QED
        BY <2>2, <3>1, <3>2, <4>1 DEF Setting
    <3> QED
      BY <3>3, <3>4
  <2>3. CASE u # v
    <3>1. ~Setting(u) /\ ~Setting(u)'
      BY <1>4, <2>1, <2>3, TimerConstants DEF Setting, Idle
    <3> QED
      BY <1>0, <1>1, <2>1, <2>3, <3>1 DEF CheckInv
  <2> QED
    BY <2>2, <2>3
<1>8. FollowInv'
  <2> SUFFICES ASSUME NEW u \in Plain \cap exists, value'[u].checking
               PROVE  Followed(u)' \/ (driver'.v = u /\ driver'.pc # "own")
    BY <1>1 DEF FollowInv
  <2>1. CASE u = v
    <3>1. driver' = [Idle EXCEPT !.pc = "set", !.v = v, !.check = x]
      BY <1>0, <2>1, PlainReport
    <3> QED
      BY <2>1, <3>1 DEF Idle
  <2>2. CASE u # v
    <3>1. u \in Timer
      BY ValueConstants DEF Plain
    <3>2. Followed(u)
      BY <1>0, <1>1, <1>4, <2>2, <3>1, TimerConstants DEF FollowInv
    <3> QED
      BY <1>1, <1>2, <2>2, <3>2 DEF Followed, Waiting, Cut
  <2> QED
    BY <2>1, <2>2
<1> QED
  BY <1>1, <1>3, <1>5, <1>6, <1>7, <1>8 DEF IInv

(* Steps that touch no value and keep the level the driver thread has in hand. *)
LEMMA CheckUnchanged ==
    ASSUME CheckInv, UNCHANGED <<value, seen>>,
           \A v \in Plain : Setting(v)' => Setting(v), driver'.check = driver.check,
           \A v \in Plain : Setting(v) => Setting(v)'
    PROVE  CheckInv'
BY DEF CheckInv

LEMMA SetsEventSafe ==
    ASSUME IInv, SetsEvent
    PROVE  IInv'
<1>0. TimerInv /\ RestTypeOK /\ DriverInv /\ OwnedInv /\ CheckInv /\ FollowInv
  BY DEF IInv
<1>1. PICK a \in Address :
        /\ TimerSetEvent(driver.v, a) /\ driver' = [driver EXCEPT !.pc = "own", !.te = a]
        /\ driver.pc = "set"
        /\ UNCHANGED <<value, asked, lost, exists, app, nodeMutex, seen, undefined, counters>>
  BY DEF SetsEvent
<1>2. driver.v \in exists /\ driver.v \in Timer
  BY <1>0, <1>1 DEF DriverInv, RestTypeOK
<1>3. /\ TimerInv' /\ UNCHANGED <<ownEvents, timer, fired, cut>>
      /\ entry'[a] # Null /\ entry'[a].of = driver.v
      /\ \A b \in Address : b # a => entry'[b] = entry[b]
      /\ owner' = Append(owner, driver.v)
  BY <1>0, <1>1, <1>2, SetEventSafe
<1>4. timer.pc = "wait" /\ entry[a] = Null
  BY <1>1 DEF TimerSetEvent, TimerMutexFree
<1>5. driver'.pc = "own" /\ driver'.te = a /\ driver'.v = driver.v /\ driver'.check = driver.check
  BY <1>0, <1>1 DEF RestTypeOK
<1>6. RestTypeOK'
  BY <1>0, <1>1 DEF RestTypeOK
<1>7. DriverInv'
  BY <1>1, <1>2, <1>5 DEF DriverInv
<1>8. OwnedInv'
  <2> SUFFICES ASSUME ~undefined, NEW b \in Address, entry'[b] # Null
               PROVE  Owned(b)'
    BY <1>1 DEF OwnedInv
  <2>1. CASE b = a
    BY <1>1, <1>2, <1>3, <1>5, <2>1 DEF Owned
  <2>2. CASE b # a
    <3>1. Owned(b) /\ entry'[b] = entry[b]
      BY <1>0, <1>3, <2>2 DEF OwnedInv
    <3> QED
      BY <1>1, <1>3, <3>1 DEF Owned
  <2> QED
    BY <2>1, <2>2
<1>9. CheckInv'
  BY <1>0, <1>1, <1>5, CheckUnchanged DEF Setting
<1>10. FollowInv'
  <2> SUFFICES ASSUME NEW u \in Plain \cap exists, value[u].checking
               PROVE  Followed(u)'
    BY <1>1 DEF FollowInv
  <2>1. CASE u = driver.v
    <3>1. timer'.pc # "delete"
      BY <1>3, <1>4
    <3> QED
      BY <1>3, <2>1, <3>1 DEF Followed, Waiting
  <2>2. CASE u # driver.v
    <3>1. Followed(u)
      BY <1>0, <2>2 DEF FollowInv
    <3>2. Waiting(u) => Waiting(u)'
      BY <1>3, <1>4 DEF Waiting
    <3>3. Cut(u) => Cut(u)'
      <4> SUFFICES ASSUME NEW k \in cut, owner[k] = u PROVE owner'[k] = u
        BY <1>3 DEF Cut
      <4>1. k \in 1..Len(owner) /\ owner \in Seq(Timer)
        BY <1>0, TimerFacts DEF TimerInv
      <4> QED
        BY <1>2, <1>3, <4>1
    <3> QED
      BY <1>1, <3>1, <3>2, <3>3 DEF Followed
  <2> QED
    BY <2>1, <2>2
<1> QED
  BY <1>3, <1>6, <1>7, <1>8, <1>9, <1>10 DEF IInv

LEMMA KeepsEventSafe ==
    ASSUME IInv, KeepsEvent
    PROVE  IInv'
<1>0. TimerInv /\ RestTypeOK /\ DriverInv /\ OwnedInv /\ CheckInv /\ FollowInv
  BY DEF IInv
<1>1. /\ driver.pc = "own"
      /\ ownEvents' = [ownEvents EXCEPT ![driver.v] = Append(@, driver.te)]
      /\ value' = IF driver.check = None THEN value
                  ELSE [value EXCEPT ![driver.v].check = driver.check]
      /\ driver' = Idle
      /\ UNCHANGED <<entry, timerEventList, timerEvent, timer, owner, fired, cut,
                     asked, lost, exists, app, nodeMutex, seen, undefined, counters>>
  BY DEF KeepsEvent, KeepEvent
<1>2. driver.v \in exists /\ driver.v \in Timer /\ driver.te \in Address
      /\ driver.check \in Level \cup {None}
  BY <1>0, <1>1 DEF DriverInv, RestTypeOK
<1> DEFINE v == driver.v
           w == [value[v] EXCEPT !.check = driver.check]
<1>3. /\ value[v] \in ValueRec /\ (driver.check # None => w \in ValueRec)
      /\ w.target = value[v].target /\ w.isSet = value[v].isSet
      /\ w.checking = value[v].checking /\ w.check = driver.check
  <2>1. value[v] \in ValueRec
    BY <1>0, <1>2 DEF RestTypeOK
  <2> QED
    BY <1>2, <2>1 DEF ValueRec
<1>4. /\ driver.check = None => value' = value
      /\ driver.check # None => value' = [value EXCEPT ![v] = w]
      /\ value \in [Timer -> ValueRec]
  BY <1>0, <1>1 DEF RestTypeOK
<1>5. value' \in [Timer -> ValueRec]
  <2> HIDE DEF w
  <2> QED
    BY <1>3, <1>4
<1>6. /\ ownEvents \in [Timer -> Seq(Address)] /\ ownEvents' \in [Timer -> Seq(Address)]
      /\ \A u \in Timer : \A b : Contains(ownEvents[u], b) => Contains(ownEvents'[u], b)
      /\ Contains(ownEvents'[v], driver.te)
  <2>1. ownEvents \in [Timer -> Seq(Address)] /\ ownEvents[v] \in Seq(Address)
    BY <1>0, <1>2, TimerFacts
  <2>2. /\ Append(ownEvents[v], driver.te) \in Seq(Address)
        /\ Contains(Append(ownEvents[v], driver.te), driver.te)
        /\ \A b : Contains(ownEvents[v], b) => Contains(Append(ownEvents[v], driver.te), b)
    BY <1>2, <2>1 DEF Contains
  <2> QED
    BY <1>1, <1>2, <2>1, <2>2
<1>7. TimerInv'
  BY <1>0, <1>1, <1>6, OwnListSafe
<1>8. RestTypeOK'
  BY <1>0, <1>1, <1>5 DEF RestTypeOK, Idle
<1>9. driver'.pc = "idle" /\ driver'.v = Null /\ DriverInv'
  BY <1>1 DEF DriverInv, Idle
<1>10. OwnedInv'
  <2> SUFFICES ASSUME ~undefined, NEW b \in Address, entry[b] # Null
               PROVE  Owned(b)'
    BY <1>1 DEF OwnedInv
  <2>1. Owned(b) /\ entry[b].of \in Timer
    BY <1>0, TimerFacts DEF OwnedInv
  <2> QED
    BY <1>1, <1>6, <2>1 DEF Owned
<1> HIDE DEF w
<1>11. CheckInv'
  <2> SUFFICES ASSUME NEW u \in Plain
               PROVE  /\ value'[u].target = None
                      /\ value'[u].checking => value'[u].isSet
                      /\ value'[u].checking => seen[u][2] = value'[u].check
    BY <1>1, <1>9 DEF CheckInv, Setting
  <2>1. u \in Timer
    BY ValueConstants DEF Plain
  <2>2. CASE u = v
    <3>1. Setting(u) /\ driver.check # None
      BY <1>0, <1>1, <2>2 DEF Setting, CheckInv
    <3>2. value'[u] = w
      BY <1>4, <2>1, <2>2, <3>1
    <3> QED
      BY <1>0, <1>3, <2>2, <3>1, <3>2 DEF CheckInv
  <2>3. CASE u # v
    <3>1. ~Setting(u) /\ value'[u] = value[u]
      BY <1>4, <2>1, <2>3 DEF Setting
    <3> QED
      BY <1>0, <3>1 DEF CheckInv
  <2> QED
    BY <2>2, <2>3
<1>12. FollowInv'
  <2> SUFFICES ASSUME NEW u \in Plain \cap exists, value'[u].checking
               PROVE  Followed(u)'
    BY <1>1 DEF FollowInv
  <2>1. value[u].checking
    <3>1. u \in Timer
      BY ValueConstants DEF Plain
    <3> QED
      BY <1>3, <1>4, <3>1
  <2>2. Followed(u)
    BY <1>0, <1>1, <2>1 DEF FollowInv
  <2> QED
    BY <1>1, <2>2 DEF Followed, Waiting, Cut
<1> QED
  BY <1>7, <1>8, <1>9, <1>10, <1>11, <1>12 DEF IInv

LEMMA SendSafe ==
    ASSUME IInv, SendValueRefresh
    PROVE  IInv'
<1>0. TimerInv /\ RestTypeOK /\ DriverInv /\ OwnedInv /\ CheckInv /\ FollowInv
  BY DEF IInv
<1>1. /\ Fires /\ asked' = asked \cup {entry[timer.te].of}
      /\ UNCHANGED <<value, lost, exists, driver, app, nodeMutex, seen, undefined, counters>>
  BY DEF SendValueRefresh
<1>2. /\ TimerInv' /\ UNCHANGED <<entry, ownEvents, owner, cut>>
      /\ timer.pc = "fire" /\ timer.te \in Address /\ entry[timer.te] # Null
      /\ timer'.pc = "delete" /\ timer'.te = timer.te
  BY <1>0, <1>1, FiresSafe
<1>3. RestTypeOK'
  <2>1. entry[timer.te].of \in Timer
    BY <1>0, <1>2, TimerFacts
  <2> QED
    BY <1>0, <1>1, <2>1 DEF RestTypeOK
<1>4. DriverInv' /\ OwnedInv' /\ CheckInv'
  BY <1>0, <1>1, <1>2 DEF DriverInv, OwnedInv, Owned, CheckInv, Setting, Idle
<1>5. FollowInv'
  <2> SUFFICES ASSUME NEW u \in Plain \cap exists, value[u].checking, Followed(u)
               PROVE  Followed(u)'
    BY <1>0, <1>1 DEF FollowInv
  <2>1. Waiting(u) => Waiting(u)' \/ u \in asked'
    BY <1>1, <1>2 DEF Waiting
  <2> QED
    BY <1>1, <1>2, <2>1 DEF Followed, Cut
<1> QED
  BY <1>2, <1>3, <1>4, <1>5 DEF IInv

LEMMA AsksNothingSafe ==
    ASSUME IInv, AsksNothing
    PROVE  IInv'
<1>0. TimerInv /\ RestTypeOK /\ DriverInv /\ OwnedInv /\ CheckInv /\ FollowInv
  BY DEF IInv
<1>1. /\ Fires /\ lost' = lost \cup {entry[timer.te].of}
      /\ UNCHANGED <<value, asked, exists, driver, app, nodeMutex, seen, undefined, counters>>
  BY DEF AsksNothing
<1>2. /\ TimerInv' /\ UNCHANGED <<entry, ownEvents, owner, cut>>
      /\ timer.pc = "fire" /\ timer.te \in Address /\ entry[timer.te] # Null
      /\ timer'.pc = "delete" /\ timer'.te = timer.te
  BY <1>0, <1>1, FiresSafe
<1>3. RestTypeOK'
  <2>1. entry[timer.te].of \in Timer
    BY <1>0, <1>2, TimerFacts
  <2> QED
    BY <1>0, <1>1, <2>1 DEF RestTypeOK
<1>4. DriverInv' /\ OwnedInv' /\ CheckInv'
  BY <1>0, <1>1, <1>2 DEF DriverInv, OwnedInv, Owned, CheckInv, Setting, Idle
<1>5. FollowInv'
  <2> SUFFICES ASSUME NEW u \in Plain \cap exists, value[u].checking, Followed(u)
               PROVE  Followed(u)'
    BY <1>0, <1>1 DEF FollowInv
  <2>1. Waiting(u) => Waiting(u)' \/ u \in lost'
    BY <1>1, <1>2 DEF Waiting
  <2> QED
    BY <1>1, <1>2, <2>1 DEF Followed, Cut
<1> QED
  BY <1>2, <1>3, <1>4, <1>5 DEF IInv

LEMMA DroppedSafe ==
    ASSUME IInv, NEW v \in Timer, GetDropped(v)
    PROVE  IInv'
<1>1. /\ asked' = asked \ {v} /\ lost' = lost \cup {v}
      /\ UNCHANGED <<entry, timerEventList, ownEvents, timerEvent, timer, owner, fired, cut>>
      /\ UNCHANGED <<value, exists, driver, app, nodeMutex, seen, undefined, counters>>
  BY DEF GetDropped, timerVars
<1>2. RestTypeOK'
  BY <1>1 DEF IInv, RestTypeOK
<1>3. TimerInv' /\ DriverInv' /\ OwnedInv' /\ CheckInv'
  BY <1>1 DEF IInv, TimerInv, TimerTypeOK, Listed, DriverInv, OwnedInv, Owned, CheckInv, Setting
<1>4. FollowInv'
  BY <1>1 DEF IInv, FollowInv, Followed, Waiting, Cut
<1> QED
  BY <1>2, <1>3, <1>4 DEF IInv

LEMMA DeletesStepSafe ==
    ASSUME IInv, Deletes
    PROVE  IInv'
<1>0. TimerInv /\ RestTypeOK /\ DriverInv /\ OwnedInv /\ CheckInv /\ FollowInv
  BY DEF IInv
<1> DEFINE a == timer.te
           t == entry[a].of
<1>1. /\ TimerDeletes
      /\ driver' = [driver EXCEPT !.erased = @ \/
                      (driver.pc = "delete" /\ driver.te = a /\ driver.v = t)]
      /\ UNCHANGED <<value, asked, lost, exists, app, nodeMutex, seen, undefined, counters>>
  BY DEF Deletes
<1>2. /\ TimerInv' /\ UNCHANGED <<owner, fired>> /\ timer'.pc = "scan"
      /\ timer.pc = "delete" /\ a \in Address /\ entry[a] # Null
      /\ cut \subseteq cut'
      /\ \/ /\ entry' = [entry EXCEPT ![a] = Null]
            /\ ownEvents' = [ownEvents EXCEPT ![t] = Erased(@, a)]
         \/ /\ UNCHANGED <<entry, ownEvents>>
            /\ ~Contains(ownEvents[t], a)
  BY <1>0, <1>1, DeletesSafe
<1>3. t \in Timer /\ ownEvents \in [Timer -> Seq(Address)]
      /\ entry \in [Address -> EntryRec \cup {Null}]
  BY <1>0, <1>2, TimerFacts
<1> HIDE DEF a, t
<1>4. /\ driver'.pc = driver.pc /\ driver'.v = driver.v /\ driver'.te = driver.te
      /\ driver'.check = driver.check
      /\ driver'.erased = (driver.erased \/ (driver.pc = "delete" /\ driver.te = a /\ driver.v = t))
  BY <1>0, <1>1 DEF RestTypeOK
<1>5. RestTypeOK'
  <2>1. driver.erased \/ (driver.pc = "delete" /\ driver.te = a /\ driver.v = t) \in BOOLEAN
    BY <1>0 DEF RestTypeOK
  <2> QED
    BY <1>0, <1>1, <2>1 DEF RestTypeOK
<1>6. /\ \A b \in Address : b # a => entry'[b] = entry[b]
      /\ \A u \in Timer, b \in Address : b # a => (Contains(ownEvents'[u], b) <=> Contains(ownEvents[u], b))
      /\ entry'[a] = Null \/ (entry' = entry /\ ownEvents' = ownEvents)
  <2>1. CASE /\ entry' = [entry EXCEPT ![a] = Null]
             /\ ownEvents' = [ownEvents EXCEPT ![t] = Erased(@, a)]
    <3>1. \A b : b # a => (Contains(Erased(ownEvents[t], a), b) <=> Contains(ownEvents[t], b))
      BY <1>3, ErasedFacts
    <3>2. ownEvents'[t] = Erased(ownEvents[t], a) /\ \A u \in Timer : u # t => ownEvents'[u] = ownEvents[u]
      BY <1>3, <2>1
    <3> QED
      BY <1>2, <1>3, <2>1, <3>1, <3>2
  <2>2. CASE UNCHANGED <<entry, ownEvents>>
    BY <2>2
  <2> QED
    BY <1>2, <2>1, <2>2
<1>7. DriverInv'
  <2>1. ASSUME driver.pc = "delete", ~driver'.erased
        PROVE  ownEvents'[driver.v] # <<>> /\ Head(ownEvents'[driver.v]) = driver.te
    <3>1. /\ ownEvents[driver.v] # <<>> /\ Head(ownEvents[driver.v]) = driver.te
          /\ ~(driver.te = a /\ driver.v = t) /\ driver.v \in Timer
      BY <1>0, <1>4, <2>1 DEF DriverInv, RestTypeOK
    <3>2. CASE driver.v = t
      BY <1>2, <1>3, <3>1, <3>2, ErasedFacts
    <3>3. CASE driver.v # t
      BY <1>2, <1>3, <3>1, <3>3
    <3> QED
      BY <3>2, <3>3
  <2> QED
    BY <1>0, <1>1, <1>4, <2>1 DEF DriverInv
<1>8. OwnedInv'
  <2> SUFFICES ASSUME ~undefined, NEW b \in Address, entry'[b] # Null
               PROVE  Owned(b)'
    BY <1>1 DEF OwnedInv
  <2>1. CASE entry' = entry /\ ownEvents' = ownEvents
    BY <1>0, <1>1, <1>4, <2>1 DEF OwnedInv, Owned
  <2>2. CASE b # a
    <3>1. Owned(b) /\ entry'[b] = entry[b] /\ entry[b].of \in Timer
      BY <1>0, <1>6, <2>2, TimerFacts DEF OwnedInv
    <3> QED
      BY <1>1, <1>4, <1>6, <2>2, <3>1 DEF Owned
  <2> QED
    BY <1>6, <2>1, <2>2
<1>9. CheckInv'
  BY <1>0, <1>1, <1>4, CheckUnchanged DEF Setting
<1>10. FollowInv'
  <2> SUFFICES ASSUME NEW u \in Plain \cap exists, value[u].checking, Followed(u)
               PROVE  Followed(u)'
    BY <1>0, <1>1, <1>4 DEF FollowInv
  <2>1. Waiting(u) => Waiting(u)'
    <3> SUFFICES ASSUME NEW b \in Address, entry[b] # Null, entry[b].of = u, b # a
                 PROVE  Waiting(u)'
      BY <1>2 DEF Waiting, a
    <3> QED
      BY <1>2, <1>6 DEF Waiting
  <2>2. Cut(u) => Cut(u)'
    BY <1>2 DEF Cut
  <2> QED
    BY <1>1, <2>1, <2>2 DEF Followed
<1> QED
  BY <1>2, <1>5, <1>7, <1>8, <1>9, <1>10 DEF IInv

LEMMA ScansSafe ==
    ASSUME IInv, Scans
    PROVE  IInv'
<1>0. TimerInv /\ RestTypeOK /\ DriverInv /\ OwnedInv /\ CheckInv /\ FollowInv
  BY DEF IInv
<1>1. UNCHANGED <<value, asked, lost, exists, driver, app, nodeMutex, seen, undefined, counters>>
  BY DEF Scans
<1>2. TimerInv' /\ UNCHANGED <<entry, ownEvents, owner, fired, cut>> /\ timer'.pc # "delete"
  BY <1>0, ScanSafe DEF Scans
<1>3. RestTypeOK' /\ DriverInv' /\ OwnedInv' /\ CheckInv'
  BY <1>0, <1>1, <1>2
  DEF RestTypeOK, DriverInv, OwnedInv, Owned, CheckInv, Setting, Idle
<1>4. FollowInv'
  BY <1>0, <1>1, <1>2 DEF FollowInv, Followed, Waiting, Cut
<1> QED
  BY <1>2, <1>3, <1>4 DEF IInv

LEMMA TimePassesStepSafe ==
    ASSUME IInv, NEW a \in Address, TimePasses(a)
    PROVE  IInv'
<1>0. TimerInv /\ RestTypeOK /\ DriverInv /\ OwnedInv /\ CheckInv /\ FollowInv
  BY DEF IInv
<1>1. /\ BecomesDue(a)
      /\ UNCHANGED <<value, asked, lost, exists, driver, app, nodeMutex, seen, undefined, counters>>
      /\ UNCHANGED <<ownEvents, timer, owner, cut>>
  BY DEF TimePasses, BecomesDue
<1>2. /\ TimerInv'
      /\ \A b \in Address : /\ entry'[b] # Null <=> entry[b] # Null
                            /\ entry[b] # Null => entry'[b].of = entry[b].of
  BY <1>0, <1>1, TimePassesSafe
<1>3. RestTypeOK' /\ DriverInv' /\ OwnedInv' /\ CheckInv'
  BY <1>0, <1>1, <1>2
  DEF RestTypeOK, DriverInv, OwnedInv, Owned, CheckInv, Setting, Idle
<1>4. FollowInv'
  BY <1>0, <1>1, <1>2 DEF FollowInv, Followed, Waiting, Cut
<1> QED
  BY <1>2, <1>3, <1>4 DEF IInv

(* SetValue and its copy. *)
LEMMA SetValueSafe ==
    ASSUME IInv, (\E v \in Timer : BeginSetValue(v)) \/ EndSetValue
    PROVE  IInv'
<1>0. TimerInv /\ RestTypeOK /\ DriverInv /\ OwnedInv /\ CheckInv /\ FollowInv
  BY DEF IInv
<1>1. UNCHANGED <<entry, timerEventList, ownEvents, timerEvent, timer, owner, fired, cut>>
      /\ UNCHANGED <<value, lost, exists, driver, seen, undefined>>
  BY DEF BeginSetValue, EndSetValue, timerVars
<1>2. asked \subseteq asked' /\ RestTypeOK'
  <2>1. CASE \E v \in Timer : BeginSetValue(v)
    <3>1. PICK v \in Timer : BeginSetValue(v)
      BY <2>1
    <3>2. ownEvents[v] \in Seq(Address)
      BY <1>0, TimerFacts
    <3>3. counters' \in [reports : 0..MaxReports, sets : 0..MaxSets]
      BY <1>0, <3>1, ValueConstants DEF BeginSetValue, RestTypeOK
    <3> QED
      BY <1>0, <1>1, <3>1, <3>2, <3>3 DEF BeginSetValue, RestTypeOK
  <2>2. CASE EndSetValue
    <3>1. <<>> \in Seq(Address)
      OBVIOUS
    <3> QED
      BY <1>0, <1>1, <2>2, <3>1 DEF EndSetValue, RestTypeOK
  <2> QED
    BY <2>1, <2>2
<1>3. TimerInv'
  BY <1>0, <1>1 DEF TimerInv, TimerTypeOK, Listed
<1>4. DriverInv' /\ OwnedInv' /\ CheckInv'
  BY <1>0, <1>1 DEF DriverInv, OwnedInv, Owned, CheckInv, Setting, Idle
<1>5. FollowInv'
  BY <1>0, <1>1, <1>2 DEF FollowInv, Followed, Waiting, Cut
<1> QED
  BY <1>2, <1>3, <1>4, <1>5 DEF IInv

(* An event that goes is cut, unless its own value deletes it. *)
LEMMA CutFollows ==
    ASSUME TimerInv, NEW by, NEW a \in Address, TimerDelEvent(by, a), TimerMutexFree,
           UNCHANGED timer, NEW u \in Timer, u # by, Waiting(u)
    PROVE  Waiting(u)' \/ Cut(u)'
<1>1. PICK b \in Address : entry[b] # Null /\ entry[b].of = u
  BY DEF Waiting
<1>2. /\ entry' = [entry EXCEPT ![a] = Null] /\ UNCHANGED owner
      /\ entry \in [Address -> EntryRec \cup {Null}]
      /\ entry[a] # Null /\ entry[a].of # by => entry[a].id \in cut'
  BY DelEventFacts, TimerFacts
<1>3. CASE b # a
  BY <1>1, <1>2, <1>3 DEF Waiting, TimerMutexFree
<1>4. CASE b = a
  <2>1. entry[a].id \in cut' /\ owner'[entry[a].id] = u
    BY <1>1, <1>2, <1>4 DEF TimerInv
  <2> QED
    BY <2>1 DEF Cut
<1> QED
  BY <1>3, <1>4

LEMMA CopyDeletesSafe ==
    ASSUME IInv, CopyDeletes
    PROVE  IInv'
<1>0. TimerInv /\ RestTypeOK /\ DriverInv /\ OwnedInv /\ CheckInv /\ FollowInv
  BY DEF IInv
<1> DEFINE a == Head(app.rest)
<1>1. /\ app.rest # <<>> /\ TimerMutexFree /\ TimerDelEvent(Null, a)
      /\ app' = [app EXCEPT !.rest = Tail(@)]
      /\ UNCHANGED <<ownEvents, timer, value, asked, lost, exists, driver, nodeMutex,
                     seen, undefined, counters>>
  BY DEF CopyDeletes
<1>2. app.rest \in Seq(Address)
  BY <1>0 DEF RestTypeOK
<1>3. a \in Address /\ Tail(app.rest) \in Seq(Address)
  BY <1>1, <1>2
<1> HIDE DEF a
<1>4. /\ entry' = [entry EXCEPT ![a] = Null] /\ cut \subseteq cut' /\ UNCHANGED owner
      /\ entry \in [Address -> EntryRec \cup {Null}] /\ ownEvents \in [Timer -> Seq(Address)]
  BY <1>0, <1>1, <1>3, DelEventFacts, TimerFacts
<1>5. TimerInv'
  BY <1>0, <1>1, <1>3, <1>4, DelEventSafe
<1>6. RestTypeOK'
  BY <1>0, <1>1, <1>3 DEF RestTypeOK
<1>7. DriverInv' /\ OwnedInv' /\ CheckInv'
  BY <1>0, <1>1, <1>4 DEF DriverInv, OwnedInv, Owned, CheckInv, Setting, Idle
<1>8. FollowInv'
  <2> SUFFICES ASSUME NEW u \in Plain \cap exists, value[u].checking, Followed(u)
               PROVE  Followed(u)'
    BY <1>0, <1>1 DEF FollowInv
  <2>1. u \in Timer /\ u # Null
    BY ValueConstants, TimerConstants DEF Plain
  <2>2. Waiting(u) => Waiting(u)' \/ Cut(u)'
    BY <1>0, <1>1, <1>3, <2>1, CutFollows
  <2>3. Cut(u) => Cut(u)'
    BY <1>4 DEF Cut
  <2> QED
    BY <1>1, <2>2, <2>3 DEF Followed
<1> QED
  BY <1>5, <1>6, <1>7, <1>8 DEF IInv

(* The removal of a value. *)
LEMMA RemovalSafe ==
    ASSUME IInv, (\E v \in Timer : BeginRemoval(v)) \/ TakesEvent
    PROVE  IInv'
<1>0. TimerInv /\ RestTypeOK /\ DriverInv /\ OwnedInv /\ CheckInv /\ FollowInv
  BY DEF IInv
<1>1. UNCHANGED <<entry, timerEventList, ownEvents, timerEvent, timer, owner, fired, cut>>
      /\ UNCHANGED <<value, asked, lost, exists, app, seen, undefined, counters>>
  BY DEF BeginRemoval, TakesEvent, timerVars
<1>2. /\ RestTypeOK' /\ DriverInv'
      /\ driver'.pc \in {"destroy", "delete"} /\ driver.pc # "own"
      /\ driver.pc = "idle" \/ driver'.v = driver.v
      /\ driver.pc = "idle" => driver.v = Null
      /\ driver.pc \notin {"set", "own"}
  <2>1. CASE \E v \in Timer : BeginRemoval(v)
    <3>1. PICK v \in Timer : BeginRemoval(v)
      BY <2>1
    <3>2. /\ driver = Idle /\ v \in exists /\ nodeMutex' = "driver"
          /\ driver' = [pc |-> "destroy", v |-> v, te |-> Null, check |-> None, erased |-> FALSE]
      BY <3>1 DEF BeginRemoval, Idle
    <3>3. RestTypeOK'
      BY <1>0, <1>1, <3>2 DEF RestTypeOK
    <3> QED
      BY <1>1, <3>2, <3>3 DEF DriverInv, Idle
  <2>2. CASE TakesEvent
    <3> DEFINE a == Head(ownEvents[driver.v])
    <3>1. /\ driver.pc = "destroy" /\ ownEvents[driver.v] # <<>> /\ UNCHANGED nodeMutex
          /\ driver' = [driver EXCEPT !.pc = "delete", !.te = a]
      BY <2>2 DEF TakesEvent
    <3>2. driver.v \in exists /\ driver.v \in Timer
      BY <1>0, <3>1 DEF DriverInv, RestTypeOK
    <3>3. ownEvents[driver.v] \in Seq(Address)
      BY <1>0, <3>2, TimerFacts
    <3>4. a \in Address
      BY <3>1, <3>3
    <3>5. RestTypeOK'
      BY <1>0, <1>1, <3>1, <3>4 DEF RestTypeOK
    <3>6. driver'.pc = "delete" /\ driver'.v = driver.v /\ driver'.te = a
      BY <1>0, <3>1 DEF RestTypeOK
    <3> QED
      BY <1>1, <3>1, <3>2, <3>4, <3>5, <3>6 DEF DriverInv
  <2> QED
    BY <2>1, <2>2
<1>3. TimerInv'
  BY <1>0, <1>1 DEF TimerInv, TimerTypeOK, Listed
<1>4. OwnedInv' /\ CheckInv'
  BY <1>0, <1>1, <1>2 DEF OwnedInv, Owned, CheckInv, Setting
<1>5. FollowInv'
  <2> SUFFICES ASSUME NEW u \in Plain \cap exists, value[u].checking
               PROVE  Followed(u)' \/ (driver'.v = u /\ driver'.pc # "own")
    BY <1>1 DEF FollowInv
  <2>1. u # Null
    BY ValueConstants, TimerConstants DEF Plain
  <2>2. Followed(u) => Followed(u)'
    BY <1>1 DEF Followed, Waiting, Cut
  <2> QED
    BY <1>0, <1>2, <2>1, <2>2 DEF FollowInv
<1> QED
  BY <1>2, <1>3, <1>4, <1>5 DEF IInv

LEMMA DeletesEventSafe ==
    ASSUME IInv, DeletesEvent
    PROVE  IInv'
<1>0. TimerInv /\ RestTypeOK /\ DriverInv /\ OwnedInv /\ CheckInv /\ FollowInv
  BY DEF IInv
<1> DEFINE v == driver.v
           a == driver.te
<1>1. /\ driver.pc = "delete" /\ TimerMutexFree /\ ~undefined /\ TimerDelEvent(v, a)
      /\ IF driver.erased THEN undefined' = TRUE /\ UNCHANGED ownEvents
         ELSE /\ ownEvents' = [ownEvents EXCEPT ![v] = Tail(@)]
              /\ UNCHANGED undefined
      /\ driver' = [driver EXCEPT !.pc = "destroy"]
      /\ UNCHANGED <<timer, value, asked, lost, exists, app, nodeMutex, seen, counters>>
  BY DEF DeletesEvent
<1>2. v \in exists /\ v \in Timer /\ a \in Address
      /\ (~driver.erased => ownEvents[v] # <<>> /\ Head(ownEvents[v]) = a)
  BY <1>0, <1>1 DEF DriverInv, RestTypeOK
<1>3. driver'.pc = "destroy" /\ driver'.v = v /\ driver'.te = a /\ driver'.check = driver.check
  BY <1>0, <1>1 DEF RestTypeOK
<1> HIDE DEF v, a
<1>4. /\ entry' = [entry EXCEPT ![a] = Null] /\ cut \subseteq cut' /\ UNCHANGED owner
      /\ entry \in [Address -> EntryRec \cup {Null}] /\ ownEvents \in [Timer -> Seq(Address)]
  BY <1>0, <1>1, <1>2, DelEventFacts, TimerFacts
<1>5. ~driver.erased =>
        /\ Tail(ownEvents[v]) \in Seq(Address)
        /\ \A b : b # a => (Contains(ownEvents[v], b) => Contains(Tail(ownEvents[v]), b))
  <2> DEFINE s == ownEvents[v]
  <2> SUFFICES ASSUME ~driver.erased
               PROVE  /\ Tail(s) \in Seq(Address)
                      /\ \A b : b # a => (Contains(s, b) => Contains(Tail(s), b))
    OBVIOUS
  <2>1. s \in Seq(Address) /\ s # <<>> /\ Head(s) = a
    BY <1>2, <1>4
  <2> HIDE DEF s
  <2>2. /\ Tail(s) \in Seq(Address) /\ Len(s) \in Nat /\ Len(Tail(s)) = Len(s) - 1 /\ s[1] = a
        /\ \A k \in 1..Len(Tail(s)) : Tail(s)[k] = s[k + 1]
    BY <2>1
  <2>3. ASSUME NEW b, b # a, NEW k \in 1..Len(s), s[k] = b
        PROVE  Contains(Tail(s), b)
    <3>1. k - 1 \in 1..Len(Tail(s)) /\ (k - 1) + 1 = k
      BY <2>2, <2>3
    <3>2. Tail(s)[k - 1] = b
      BY <2>2, <2>3, <3>1
    <3> QED
      BY <3>1, <3>2 DEF Contains
  <2> QED
    BY <2>2, <2>3 DEF Contains
<1>6. ownEvents' \in [Timer -> Seq(Address)]
  BY <1>1, <1>4, <1>5
<1>7. TimerInv'
  BY <1>0, <1>1, <1>2, <1>6, DelEventSafe
<1>8. RestTypeOK' /\ DriverInv'
  BY <1>0, <1>1, <1>2, <1>3 DEF RestTypeOK, DriverInv
<1>9. OwnedInv'
  <2> SUFFICES ASSUME ~undefined', NEW b \in Address, entry'[b] # Null
               PROVE  Owned(b)'
    BY DEF OwnedInv
  <2>1. ~driver.erased /\ b # a /\ entry'[b] = entry[b]
    BY <1>1, <1>2, <1>4
  <2>2. entry[b].of \in exists /\ Contains(ownEvents[entry[b].of], b) /\ entry[b].of \in Timer
    BY <1>0, <1>1, <2>1, TimerFacts DEF OwnedInv, Owned
  <2>3. Contains(ownEvents'[entry[b].of], b)
    BY <1>1, <1>4, <1>5, <2>1, <2>2
  <2> QED
    BY <1>1, <2>1, <2>2, <2>3 DEF Owned
<1>10. CheckInv'
  <2>1. \A u \in Plain : ~Setting(u) /\ ~Setting(u)'
    BY <1>1, <1>3 DEF Setting
  <2> QED
    BY <1>0, <1>1, <2>1 DEF CheckInv
<1>11. FollowInv'
  <2> SUFFICES ASSUME NEW u \in Plain \cap exists, value[u].checking, u # v
               PROVE  Followed(u)'
    BY <1>1, <1>3 DEF FollowInv
  <2>1. Followed(u) /\ u \in Timer
    BY <1>0, ValueConstants DEF FollowInv, Plain, v
  <2>2. Waiting(u) => Waiting(u)' \/ Cut(u)'
    BY <1>0, <1>1, <1>2, <2>1, CutFollows
  <2>3. Cut(u) => Cut(u)'
    BY <1>4 DEF Cut
  <2> QED
    BY <1>1, <2>1, <2>2, <2>3 DEF Followed
<1> QED
  BY <1>7, <1>8, <1>9, <1>10, <1>11 DEF IInv

LEMMA EndRemovalSafe ==
    ASSUME IInv, EndRemoval
    PROVE  IInv'
<1>0. TimerInv /\ RestTypeOK /\ DriverInv /\ OwnedInv /\ CheckInv /\ FollowInv
  BY DEF IInv
<1> DEFINE v == driver.v
<1>1. /\ driver.pc = "destroy" /\ ownEvents[v] = <<>>
      /\ exists' = exists \ {v} /\ asked' = asked \ {v} /\ lost' = lost \ {v}
      /\ value' = [value EXCEPT ![v] = Unread(FALSE)]
      /\ seen' = [seen EXCEPT ![v] = <<None, None>>]
      /\ nodeMutex' = Null /\ driver' = Idle
      /\ UNCHANGED <<entry, timerEventList, ownEvents, timerEvent, timer, owner, fired, cut>>
      /\ UNCHANGED <<app, undefined, counters>>
  BY DEF EndRemoval, timerVars
<1>2. v \in Timer
  BY <1>0, <1>1 DEF DriverInv, RestTypeOK
<1>3. driver'.pc = "idle" /\ driver'.v = Null /\ driver.pc \notin {"set", "own"}
  BY <1>1 DEF Idle
<1> HIDE DEF v
<1>4. Unread(FALSE) \in ValueRec /\ Unread(FALSE).target = None /\ ~Unread(FALSE).checking
  <2>1. Default \in Level
    BY <1>2, ValueConstants DEF Level
  <2> QED
    BY <2>1 DEF Unread, ValueRec
<1>5. TimerInv'
  BY <1>0, <1>1 DEF TimerInv, TimerTypeOK, Listed
<1>6. RestTypeOK'
  <2>1. value' \in [Timer -> ValueRec]
    BY <1>0, <1>1, <1>4 DEF RestTypeOK
  <2>2. seen' \in [Timer -> (Level \cup {None}) \X (Level \cup {None})]
    BY <1>0, <1>1 DEF RestTypeOK
  <2>3. driver' \in [pc : {"idle", "set", "own", "destroy", "delete"}, v : Timer \cup {Null},
                     te : Address \cup {Null}, check : Level \cup {None}, erased : BOOLEAN]
    BY <1>1 DEF Idle
  <2> QED
    BY <1>0, <1>1, <2>1, <2>2, <2>3 DEF RestTypeOK
<1>7. DriverInv'
  BY <1>3 DEF DriverInv
<1>8. OwnedInv'
  <2> SUFFICES ASSUME ~undefined, NEW b \in Address, entry[b] # Null
               PROVE  Owned(b)'
    BY <1>1 DEF OwnedInv
  <2>1. entry[b].of \in exists /\ Contains(ownEvents[entry[b].of], b)
    BY <1>0, <1>1 DEF OwnedInv, Owned
  <2>2. ~Contains(<<>>, b)
    BY DEF Contains
  <2> QED
    BY <1>1, <2>1, <2>2 DEF Owned
<1>9. /\ value'[v] = Unread(FALSE)
      /\ \A u \in Timer : u # v => value'[u] = value[u] /\ seen'[u] = seen[u]
  BY <1>0, <1>1, <1>2 DEF RestTypeOK
<1>10. CheckInv'
  <2> SUFFICES ASSUME NEW u \in Plain
               PROVE  /\ value'[u].target = None
                      /\ value'[u].checking => value'[u].isSet
                      /\ value'[u].checking => seen'[u][2] = value'[u].check
    BY <1>3 DEF CheckInv, Setting
  <2>1. u \in Timer /\ ~Setting(u)
    BY <1>3, ValueConstants DEF Plain, Setting
  <2>2. CASE u = v
    BY <1>4, <1>9, <2>2
  <2>3. CASE u # v
    BY <1>0, <1>9, <2>1, <2>3 DEF CheckInv
  <2> QED
    BY <2>2, <2>3
<1>11. FollowInv'
  <2> SUFFICES ASSUME NEW u \in Plain \cap exists, u # v, value'[u].checking
               PROVE  Followed(u)'
    BY <1>1 DEF FollowInv
  <2>1. u \in Timer /\ value[u].checking
    BY <1>9, ValueConstants DEF Plain
  <2>2. Followed(u)
    BY <1>0, <2>1 DEF FollowInv, v
  <2> QED
    BY <1>1, <2>2 DEF Followed, Waiting, Cut
<1> QED
  BY <1>5, <1>6, <1>7, <1>8, <1>10, <1>11 DEF IInv

LEMMA InitSafe == Init => IInv
<1> SUFFICES ASSUME Init PROVE IInv
  OBVIOUS
<1>1. /\ entry = [a \in Address |-> Null]
      /\ timerEventList = <<>> /\ ownEvents = [t \in Timer |-> <<>>] /\ timerEvent = FALSE
      /\ timer = [pc |-> "wait", te |-> Null, rest |-> <<>>, timed |-> FALSE]
      /\ owner = <<>> /\ fired = {} /\ cut = {}
      /\ value = [v \in Timer |-> Unread(v \in Restored)] /\ asked = {} /\ lost = {} /\ exists = Timer
      /\ driver = Idle /\ app = [pc |-> "idle", rest |-> <<>>] /\ nodeMutex = Null
      /\ seen = [v \in Timer |-> <<None, None>>]
      /\ undefined = FALSE /\ counters = [reports |-> 0, sets |-> 0]
  BY DEF Init, TimerInit
<1>2. Len(owner) = 0 /\ DOMAIN timerEventList = {} /\ \A a : ~Contains(timerEventList, a)
  BY <1>1 DEF Contains
<1>3. TimerInv
  <2>1. TimerTypeOK
    <3>1. timer \in [pc : {"wait", "scan", "fire", "delete"}, te : Address \cup {Null},
                     rest : Seq(Address), timed : BOOLEAN]
      BY <1>1
    <3>2. /\ entry \in [Address -> EntryRec \cup {Null}]
          /\ \A a \in Address : entry[a] = Null /\ ~Contains(timerEventList, a)
      BY <1>1, <1>2
    <3>3. timerEventList \in Seq(Address) /\ ownEvents \in [Timer -> Seq(Address)]
          /\ owner \in Seq(Timer) /\ Len(owner) <= MaxEvents
      BY <1>1, <1>2, TimerConstants
    <3> QED
      BY <1>1, <1>2, <3>1, <3>2, <3>3 DEF TimerTypeOK, Listed
  <2> QED
    BY <1>1, <1>2, <2>1 DEF TimerInv
<1>4. \A v \in Timer : /\ value[v] \in ValueRec /\ value[v].target = None /\ ~value[v].checking
                       /\ seen[v] = <<None, None>>
  <2> SUFFICES ASSUME NEW v \in Timer
               PROVE  value[v] \in ValueRec /\ value[v].target = None /\ ~value[v].checking
    BY <1>1
  <2>1. Default \in Level
    BY ValueConstants DEF Level
  <2>2. (v \in Restored) \in BOOLEAN /\ value[v] = Unread(v \in Restored)
    BY <1>1
  <2> QED
    BY <2>1, <2>2 DEF Unread, ValueRec
<1>5. RestTypeOK
  <2>1. value \in [Timer -> ValueRec]
    BY <1>1, <1>4
  <2>2. app \in [pc : {"idle", "copy"}, rest : Seq(Address)]
    BY <1>1
  <2>3. driver \in [pc : {"idle", "set", "own", "destroy", "delete"}, v : Timer \cup {Null},
                    te : Address \cup {Null}, check : Level \cup {None}, erased : BOOLEAN]
    BY <1>1 DEF Idle
  <2> QED
    <3>1. seen \in [Timer -> (Level \cup {None}) \X (Level \cup {None})]
      BY <1>1
    <3>2. counters \in [reports : 0..MaxReports, sets : 0..MaxSets]
      BY <1>1, ValueConstants
    <3> QED
      BY <1>1, <2>1, <2>2, <2>3, <3>1, <3>2 DEF RestTypeOK
<1>6. DriverInv /\ OwnedInv /\ FollowInv
  BY <1>1, <1>4, ValueConstants DEF DriverInv, OwnedInv, FollowInv, Plain, Idle
<1>7. CheckInv
  BY <1>1, <1>4, ValueConstants DEF CheckInv, Plain, Setting, Idle
<1> QED
  BY <1>3, <1>5, <1>6, <1>7 DEF IInv

LEMMA NextSafe == IInv /\ [Next]_vars => IInv'
<1> SUFFICES ASSUME IInv, [Next]_vars PROVE IInv'
  OBVIOUS
<1>1. ASSUME NEW v \in Timer, NEW x \in LevelOf[v], NEW goal \in LevelOf[v] \cup {None},
             OnValueRefreshed(v, x, goal)
      PROVE  IInv'
  BY <1>1, ReportSafe
<1>2. CASE \E v \in Timer : BeginSetValue(v)
  BY <1>2, SetValueSafe
<1>3. CASE \E v \in Timer : BeginRemoval(v)
  BY <1>3, RemovalSafe
<1>4. CASE DriverGoesOn
  BY <1>4, SetsEventSafe, KeepsEventSafe, RemovalSafe, DeletesEventSafe, EndRemovalSafe
  DEF DriverGoesOn
<1>5. CASE AppGoesOn
  BY <1>5, CopyDeletesSafe, SetValueSafe DEF AppGoesOn
<1>6. CASE TimerStep
  BY <1>6, ScansSafe, SendSafe, DeletesStepSafe DEF TimerStep
<1>7. ASSUME NEW a \in Address, TimePasses(a)
      PROVE  IInv'
  BY <1>7, TimePassesStepSafe
<1>8. CASE \E v \in Timer : GetDropped(v)
  BY <1>8, DroppedSafe
<1>9. CASE AsksNothing
  BY <1>9, AsksNothingSafe
<1>10. CASE UNCHANGED vars
  <2>1. UNCHANGED <<entry, timerEventList, ownEvents, timerEvent, timer, owner, fired, cut>>
        /\ UNCHANGED <<value, asked, lost, exists, driver, app, nodeMutex, seen, undefined, counters>>
    BY <1>10 DEF vars, timerVars
  <2> QED
    BY <2>1 DEF IInv, TimerInv, TimerTypeOK, Listed, RestTypeOK, DriverInv, OwnedInv, Owned,
                CheckInv, Setting, FollowInv, Followed, Waiting, Cut
<1> QED
  BY <1>1, <1>2, <1>3, <1>4, <1>5, <1>6, <1>7, <1>8, <1>9, <1>10 DEF Next

-----------------------------------------------------------------------------
(* The theorems.                                                           *)

\* Everything keeps its type; the entries allocated are the ones on TimerThread's list.
THEOREM ValueTypes == Spec => []TypeOK
<1>1. IInv => TypeOK
  BY DEF IInv, TimerInv, RestTypeOK, TypeOK
<1> QED
  BY <1>1, InitSafe, NextSafe, PTL DEF Spec

\* TimerFireEvent never calls a value that was deleted (~Timer, TimerThread.cpp:237).
THEOREM NoDanglingCallback == Spec => []CallbacksLive
<1>1. IInv => CallbacksLive
  BY DEF IInv, OwnedInv, Owned, CallbacksLive
<1> QED
  BY <1>1, InitSafe, NextSafe, PTL DEF Spec

\* A value that VerifyRefreshedValue checks is asked for again, or its event is pending.
THEOREM RefreshNotForgotten == Spec => []RefreshFollows
<1>1. IInv => RefreshFollows
  BY DEF IInv, FollowInv, Followed, Waiting, Plain, RefreshFollows, Scheduled
<1> QED
  BY <1>1, InitSafe, NextSafe, PTL DEF Spec

\* VerifyRefreshedValue changes a value only to what was reported twice in a row.
THEOREM ChangesConfirmed == Spec => ChangeConfirmed
<1> DEFINE Confirms ==
      \A v \in Verified \ Targeted :
         value'[v].value # value[v].value =>
            ~value[v].isSet \/ v \notin exists' \/ seen'[v] = <<value'[v].value, value'[v].value>>
<1>1. IInv /\ [Next]_vars => [Confirms]_vars
  <2> SUFFICES ASSUME IInv, Next, NEW u \in Plain, value'[u].value # value[u].value
               PROVE  ~value[u].isSet \/ u \notin exists'
                      \/ seen'[u] = <<value'[u].value, value'[u].value>>
    BY DEF Plain
  <2>1. /\ TimerInv /\ RestTypeOK /\ CheckInv /\ u \in Timer
        /\ value \in [Timer -> ValueRec]
    BY ValueConstants DEF IInv, RestTypeOK, Plain
  <2>2. ASSUME NEW v \in Timer, NEW x \in LevelOf[v], NEW goal \in LevelOf[v] \cup {None},
               OnValueRefreshed(v, x, goal)
        PROVE  ~value[u].isSet \/ seen'[u] = <<value'[u].value, value'[u].value>>
    <3>1. u = v
      BY <2>1, <2>2, ReportFacts
    <3> QED
      BY <2>1, <2>2, <3>1, PlainReport
  <2>3. CASE KeepsEvent
    <3> DEFINE w == [value[driver.v] EXCEPT !.check = driver.check]
    <3>1. value' = value \/ value' = [value EXCEPT ![driver.v] = w]
      BY <2>3 DEF KeepsEvent
    <3>2. driver.v \in Timer => w.value = value[driver.v].value
      BY <2>1 DEF ValueRec
    <3> QED
      BY <2>1, <3>1, <3>2
  <2>4. CASE EndRemoval
    <3>1. exists' = exists \ {driver.v} /\ (u # driver.v => value'[u] = value[u])
      BY <2>1, <2>4 DEF EndRemoval
    <3> QED
      BY <3>1
  <2>5. CASE (\E v \in Timer : BeginSetValue(v) \/ BeginRemoval(v) \/ GetDropped(v))
             \/ AppGoesOn \/ TimerStep \/ AsksNothing
             \/ SetsEvent \/ TakesEvent \/ DeletesEvent \/ (\E a \in Address : TimePasses(a))
    <3>1. value' = value
      BY <2>5 DEF BeginSetValue, BeginRemoval, GetDropped, AsksNothing, AppGoesOn, CopyDeletes, EndSetValue, TimerStep,
                  Scans, SendValueRefresh, Deletes, SetsEvent, TakesEvent, DeletesEvent, TimePasses
    <3> QED
      BY <3>1
  <2> QED
    BY <2>2, <2>3, <2>4, <2>5 DEF Next, DriverGoesOn
<1> QED
  BY <1>1, InitSafe, NextSafe, PTL DEF Spec, ChangeConfirmed
=============================================================================
