----------------------- MODULE ControllerCommandProofs -----------------------
(***************************************************************************)
(* Machine-checked proofs about ControllerCommand, for any commands, nodes,*)
(* callbacks, addresses and bounds: every command object has one owner,    *)
(* the driver thread is woken for a command that is over, and where no     *)
(* node sleeps the application is told what CommandReports promises.       *)
(*                                                                         *)
(* Sound is what holds of the driver between its functions, Follows what   *)
(* each of them does to it: the handlers call several in a row, and the    *)
(* proofs follow the calls. CommandInv is the inductive invariant,         *)
(* ReportInv the one with what was told.                                   *)
(***************************************************************************)
EXTENDS ControllerCommand, SequenceLemmas, FiniteSetTheorems

-----------------------------------------------------------------------------
(* erase, for all elements of a set: the others stay, each as often as it was there, *)
(* and the first one stays first.                                                    *)
LEMMA WithoutFacts ==
    ASSUME NEW S, NEW list \in Seq(S), NEW gone
    PROVE  /\ Without(list, gone) \in Seq(S)
           /\ Range(Without(list, gone)) = Range(list) \ gone
           /\ IsInjective(list) => IsInjective(Without(list, gone))
           /\ list # <<>> /\ Head(list) \notin gone =>
                 /\ Without(list, gone) # <<>>
                 /\ Head(Without(list, gone)) = Head(list)
<1> DEFINE kept == {k \in DOMAIN list : list[k] \notin gone}
           w == Sublist(list, kept)
<1>1. w = Without(list, gone)
  BY DEF Without
<1>2. Len(list) \in Nat /\ DOMAIN list = 1..Len(list) /\ kept \subseteq DOMAIN list
  BY LenProperties
<1>3. \A k \in DOMAIN list : k \in kept <=> list[k] \notin gone
  OBVIOUS
<1> HIDE DEF kept
<1>4. w \in Seq(S)
  BY <1>2, SublistPlaces
<1>5. /\ \E place : Picks(w, list, kept, place)
      /\ kept \subseteq DOMAIN list
  BY <1>2, SublistPlaces
<1> HIDE DEF w
<1>6. Len(w) \in Nat /\ DOMAIN w = 1..Len(w)
  BY <1>4, LenProperties
<1>7. PICK place : Picks(w, list, kept, place)
  BY <1>5
<1>8. /\ place \in [DOMAIN w -> kept]
      /\ \A j \in DOMAIN w : w[j] = list[place[j]]
      /\ \A i, j \in DOMAIN w : i < j => place[i] < place[j]
      /\ \A k \in kept : \E j \in DOMAIN w : place[j] = k
  BY <1>7 DEF Picks
<1>9. \A k \in kept : k \in Int /\ k >= 1
  BY <1>2
<1>10. \A j \in DOMAIN w : j \in Int /\ place[j] \in kept
  BY <1>8, <1>6
<1>11. Range(w) = Range(list) \ gone
  <2>1. ASSUME NEW x \in Range(w) PROVE x \in Range(list) \ gone
    BY <1>2, <1>8, <1>3, <1>10, <2>1 DEF Range
  <2>2. ASSUME NEW x \in Range(list), x \notin gone PROVE x \in Range(w)
    <3>1. PICK k \in DOMAIN list : list[k] = x
      BY DEF Range
    <3>2. PICK j \in DOMAIN w : place[j] = k
      BY <1>8, <1>3, <2>2, <3>1
    <3>3. w[j] = x
      BY <1>8, <3>1, <3>2
    <3> QED
      BY <3>3 DEF Range
  <2> QED
    BY <2>1, <2>2
<1>12. ASSUME IsInjective(list) PROVE IsInjective(w)
  <2> SUFFICES ASSUME NEW i \in DOMAIN w, NEW j \in DOMAIN w, w[i] = w[j] PROVE i = j
    BY DEF IsInjective
  <2>1. /\ list[place[i]] = list[place[j]]
        /\ place[i] \in DOMAIN list /\ place[j] \in DOMAIN list
    BY <1>2, <1>8, <1>10
  <2>2. place[i] = place[j]
    BY <1>12, <2>1 DEF IsInjective
  <2>3. ~(i < j) /\ ~(j < i)
    BY <1>8, <1>9, <1>10, <2>2
  <2> QED
    BY <1>10, <2>3
<1>13. ASSUME list # <<>>, Head(list) \notin gone PROVE w # <<>> /\ Head(w) = Head(list)
  <2>1. Len(list) >= 1 /\ Head(list) = list[1] /\ 1 \in kept
    BY <1>2, <1>3, <1>13, EmptySeq, HeadTailProperties
  <2>2. PICK j \in DOMAIN w : place[j] = 1
    BY <1>8, <2>1
  <2>3. 1 \in DOMAIN w /\ place[1] >= 1
    BY <1>6, <1>9, <1>10, <2>2
  <2>4. j = 1
    BY <1>8, <1>6, <1>9, <1>10, <2>2, <2>3
  <2>5. w[1] = list[1]
    BY <1>8, <2>2, <2>3, <2>4
  <2> QED
    BY <1>4, <1>6, <2>1, <2>3, <2>5, EmptySeq, HeadTailProperties
<1> QED
  BY <1>1, <1>4, <1>11, <1>12, <1>13
-----------------------------------------------------------------------------
(* What holds of the driver between its functions. The items in hand are on *)
(* no queue yet, or no more.                                                *)
Held(d) == {i \in Item : d.obj[i] # Null}
Telling(d) == IF d.telling THEN {d.current} ELSE {}

Owned(d, hand) ==
    /\ Held(d) = Everywhere(d) \cup Telling(d) \cup hand
    /\ Telling(d) \cap Everywhere(d) = {}
    /\ hand \cap (Everywhere(d) \cup Telling(d)) = {}
    /\ IsInjective(d.queue)
    /\ \A n \in Node : IsInjective(d.parked[n])
    /\ \A n \in Node : Range(d.queue) \cap Range(d.parked[n]) = {}
    /\ \A m, n \in Node : m # n => Range(d.parked[m]) \cap Range(d.parked[n]) = {}
    /\ d.telling => Running(d)

(* The command in progress is on the controller queue. *)
Queued(d) == Running(d) /\ ~d.telling => d.current \in Range(d.queue)

(* Without its event the front of the queue is the command in progress, which waits  *)
(* for the controller.                                                               *)
Woken(d) ==
    ~d.event /\ d.queue # <<>> =>
        /\ Running(d) /\ ~d.telling /\ d.current = Head(d.queue)
        /\ ~Current(d).done /\ (Current(d).state # "Normal" \/ Current(d).changed)

SoundBut(d, hand) == d \in Driver /\ Owned(d, hand) /\ Queued(d) /\ Woken(d)
Sound(d) == SoundBut(d, {})

(* The program is in undefined behaviour. *)
Lost(d) == d.queue = <<Null>> /\ d.current = Null

(* As long as no node sleeps the command in progress is the front of the queue. *)
Foremost(d) == Running(d) /\ ~d.telling => d.queue # <<>> /\ Head(d.queue) = d.current

(* No object becomes that of another command, and none appears; the one of the       *)
(* command in progress stays.                                                        *)
SameObjects(d, e) ==
    /\ e.current = d.current
    /\ \A i \in Item : e.obj[i] # Null => d.obj[i] # Null /\ e.obj[i].of = d.obj[i].of
    /\ \A i \in Item : d.obj[i] # Null /\ e.obj[i] = Null => i # d.current
    /\ Foremost(d) => Foremost(e)

(* What a function of the driver does to it. *)
Follows(d, e) ==
    \/ Lost(e)
    \/ /\ Sound(e) /\ e.telling = d.telling
       /\ Running(e) <=> Running(d)
       /\ Sleeper = {} => SameObjects(d, e)

LEMMA DriverFacts ==
    ASSUME NEW d \in Driver
    PROVE  /\ d.obj \in [Item -> Cci \cup {Null}]
           /\ d.queue \in Seq(Item) /\ d.event \in BOOLEAN
           /\ d.current \in Item \cup {Null} /\ d.telling \in BOOLEAN
           /\ d.sendQueue \in Seq(Msg) /\ d.msg \in Msg \cup {NoMsg}
           /\ d.parked \in [Node -> Seq(Item)] /\ d.awake \in [Node -> BOOLEAN]
           /\ d.nodes \in SUBSET Node
           /\ ~Lost(d) /\ ~Crashed(d)
<1>1. d.queue \in Seq(Item)
  BY DEF Driver
<1>2. d.queue # <<Null>>
  <2> SUFFICES ASSUME d.queue = <<Null>> PROVE FALSE
    OBVIOUS
  <2>1. 1 \in DOMAIN d.queue /\ d.queue[1] = Null
    OBVIOUS
  <2>2. d.queue[1] \in Item
    BY <1>1, <2>1
  <2> QED
    BY <2>1, <2>2, CommandConstants
<1> QED
  BY <1>2 DEF Driver, Lost, Crashed

LEMMA FollowsOnce ==
    ASSUME NEW d, NEW e, NEW f, Sound(e), Follows(d, e), Follows(e, f)
    PROVE  Follows(d, f)
<1>1. ~Lost(e)
  BY DriverFacts DEF Sound, SoundBut
<1>2. ASSUME SameObjects(d, e), SameObjects(e, f) PROVE SameObjects(d, f)
  BY <1>2 DEF SameObjects
<1> QED
  BY <1>1, <1>2 DEF Follows

(* The items that exist, those on the queues and those that exist but for their      *)
(* contents.                                                                         *)
LEMMA SoundFacts ==
    ASSUME NEW d, Sound(d)
    PROVE  /\ ~Lost(d) /\ Follows(d, d)
           /\ Running(d) => /\ d.current \in Item /\ d.obj[d.current] \in Cci
                            /\ d.current \in Held(d) /\ Current(d) # Null
           /\ \A n \in Node : d.parked[n] \in Seq(Item)
           /\ d.queue \in Seq(Item)
<1>1. ~Lost(d)
  BY DriverFacts DEF Sound, SoundBut
<1>2. d.current \in Item \cup {Null} /\ d.obj \in [Item -> Cci \cup {Null}]
      /\ d.parked \in [Node -> Seq(Item)] /\ d.queue \in Seq(Item)
  BY DriverFacts DEF Sound, SoundBut
<1>3. Running(d) => d.current \in Held(d)
  BY DEF Sound, SoundBut, Owned, Queued, Telling, Everywhere
<1>4. SameObjects(d, d)
  BY DEF SameObjects
<1> QED
  BY <1>1, <1>2, <1>3, <1>4 DEF Follows, Running, Current, Held

(* A step that is not about the commands. *)
LEMMA OtherFieldsOnly ==
    ASSUME NEW d, NEW e, Sound(d), e \in Driver,
           e.obj = d.obj, e.queue = d.queue, e.event = d.event, e.current = d.current,
           e.telling = d.telling, e.parked = d.parked
    PROVE  Sound(e) /\ Follows(d, e)
<1>1. Owned(e, {}) /\ Queued(e)
  BY DEF Sound, SoundBut, Owned, Held, Everywhere, Telling, Queued, Running
<1>2. Woken(e)
  BY DEF Sound, SoundBut, Woken, Running, Current
<1>3. SameObjects(d, e)
  BY DEF SameObjects, Foremost, Running
<1> QED
  BY <1>1, <1>2, <1>3 DEF Sound, SoundBut, Follows, Running

(* A step that changes what is in objects that exist. *)
LEMMA ObjectsOnly ==
    ASSUME NEW d, NEW e, NEW hand, Owned(d, hand), Queued(d),
           e.queue = d.queue, e.current = d.current, e.telling = d.telling,
           e.parked = d.parked, Held(e) = Held(d)
    PROVE  Owned(e, hand) /\ Queued(e)
<1>1. Everywhere(e) = Everywhere(d) /\ Telling(e) = Telling(d)
  BY DEF Everywhere, Telling
<1> QED
  BY <1>1 DEF Owned, Queued, Running
-----------------------------------------------------------------------------
(* UpdateControllerState: the command in progress, and maybe the event.     *)
LEMMA EnteredFacts ==
    ASSUME NEW c \in Cci, NEW s \in State
    PROVE  /\ Entered(c, s) \in Cci /\ Entered(c, s) # Null
           /\ Entered(c, s).of = c.of /\ Entered(c, s).node = c.node
           /\ Entered(c, s).state = s /\ Entered(c, s).changed
           /\ Entered(c, s).done <=> c.done \/ s \in Final
<1>1. Entered(c, s) \in Cci
  BY DEF Entered, Cci
<1> QED
  BY <1>1, NullIsNoItem DEF Entered, Cci

LEMMA UpdateFields ==
    ASSUME NEW d \in Driver, NEW s \in State, Running(d), Current(d) \in Cci,
           Current(d).state # s
    PROVE  LET e == UpdateControllerState(d, s)
           IN /\ e \in Driver
              /\ e.queue = d.queue /\ e.current = d.current /\ e.telling = d.telling
              /\ e.sendQueue = d.sendQueue /\ e.msg = d.msg /\ e.parked = d.parked
              /\ e.awake = d.awake /\ e.nodes = d.nodes
              /\ e.event = (d.event \/ s \in Final)
              /\ e.obj = [d.obj EXCEPT ![d.current] = Entered(Current(d), s)]
<1> DEFINE new == Entered(Current(d), s)
           obj == [d.obj EXCEPT ![d.current] = new]
           e == UpdateControllerState(d, s)
           now == (d.event \/ s \in Final)
<1>1. d.current \in Item /\ d.obj \in [Item -> Cci \cup {Null}] /\ d.event \in BOOLEAN
  BY DriverFacts DEF Running
<1>2. new \in Cci
  BY EnteredFacts
<1>3. obj \in [Item -> Cci \cup {Null}] /\ now \in BOOLEAN
  BY <1>1, <1>2
<1>4. e = [d EXCEPT !.obj[d.current] = new, !.event = now]
  BY <1>1 DEF UpdateControllerState, Current
<1> HIDE DEF new
<1>5. e = [d EXCEPT !.obj = obj, !.event = now]
  BY <1>1, <1>4 DEF Driver
<1> HIDE DEF obj, e, now
<1>6. /\ e \in Driver
      /\ e.queue = d.queue /\ e.current = d.current /\ e.telling = d.telling
      /\ e.sendQueue = d.sendQueue /\ e.msg = d.msg /\ e.parked = d.parked
      /\ e.awake = d.awake /\ e.nodes = d.nodes
      /\ e.event = now /\ e.obj = obj
  BY <1>3, <1>5 DEF Driver
<1> QED
  BY <1>6 DEF obj, new, e, now

LEMMA UpdateFacts ==
    ASSUME NEW d, NEW hand, SoundBut(d, hand), NEW s \in State, hand \subseteq Item
    PROVE  LET e == UpdateControllerState(d, s)
           IN /\ SoundBut(e, hand) /\ SameObjects(d, e)
              /\ e.queue = d.queue /\ e.current = d.current /\ e.telling = d.telling
              /\ e.sendQueue = d.sendQueue /\ e.msg = d.msg /\ e.parked = d.parked
              /\ e.awake = d.awake /\ e.nodes = d.nodes
              /\ Held(e) = Held(d)
              /\ Running(d) => Current(e).of = Current(d).of /\ Current(e).node = Current(d).node
<1> DEFINE e == UpdateControllerState(d, s)
           c == Current(d)
<1>1. CASE ~Running(d) \/ c.state = s
  <2>1. e = d
    BY <1>1 DEF UpdateControllerState
  <2> QED
    BY <2>1 DEF SameObjects
<1>2. CASE Running(d) /\ c.state # s
  <2>1. /\ d \in Driver /\ Owned(d, hand) /\ Queued(d) /\ Woken(d)
        /\ d.obj \in [Item -> Cci \cup {Null}] /\ d.current \in Item
    BY <1>2, DriverFacts DEF SoundBut, Running
  <2>2. d.current \in Held(d) /\ c \in Cci /\ c # Null
    BY <1>2, <2>1 DEF Owned, Queued, Held, Everywhere, Telling, Current
  <2> DEFINE new == Entered(c, s)
  <2>3. /\ e \in Driver
        /\ e.queue = d.queue /\ e.current = d.current /\ e.telling = d.telling
        /\ e.sendQueue = d.sendQueue /\ e.msg = d.msg /\ e.parked = d.parked
        /\ e.awake = d.awake /\ e.nodes = d.nodes
        /\ e.event = (d.event \/ s \in Final)
        /\ e.obj = [d.obj EXCEPT ![d.current] = new]
    BY <1>2, <2>1, <2>2, UpdateFields
  <2>4. /\ new \in Cci /\ new # Null /\ new.of = c.of /\ new.node = c.node
        /\ new.changed /\ (new.done <=> c.done \/ s \in Final)
    BY <2>2, EnteredFacts
  <2> HIDE DEF e, new
  <2>5. Current(e) = new /\ Running(e)
    BY <1>2, <2>1, <2>3 DEF Current, Running
  <2>6. Held(e) = Held(d)
    BY <2>1, <2>2, <2>3, <2>4 DEF Held
  <2>7. SameObjects(d, e)
    BY <2>1, <2>2, <2>3, <2>4 DEF SameObjects, Foremost, Running, Current
  <2>8. Owned(e, hand) /\ Queued(e)
    BY <2>1, <2>3, <2>6, ObjectsOnly
  <2>9. Woken(e)
    <3> SUFFICES ASSUME ~e.event, e.queue # <<>>
                 PROVE  /\ ~e.telling /\ e.current = Head(e.queue)
                        /\ ~new.done /\ new.changed
      BY <2>5 DEF Woken
    <3>1. ~d.event /\ d.queue # <<>> /\ s \notin Final
      BY <2>3
    <3> QED
      BY <2>1, <2>3, <2>4, <3>1 DEF Woken
  <2> QED
    BY <2>3, <2>4, <2>5, <2>6, <2>7, <2>8, <2>9 DEF SoundBut, e
<1> QED
  BY <1>1, <1>2

LEMMA UpdateFollows ==
    ASSUME NEW d, NEW e, NEW s \in State, Sound(d), Follows(d, e)
    PROVE  Follows(d, UpdateControllerState(e, s))
<1> DEFINE f == UpdateControllerState(e, s)
<1>1. CASE Lost(e)
  <2>1. f = e
    BY <1>1 DEF Lost, UpdateControllerState, Running
  <2> QED
    BY <2>1
<1>2. CASE ~Lost(e)
  <2>1. Sound(e)
    BY <1>2 DEF Follows
  <2>2. Sound(f) /\ SameObjects(e, f) /\ f.telling = e.telling /\ f.current = e.current
    BY <2>1, UpdateFacts DEF Sound
  <2>3. Follows(e, f)
    BY <2>2 DEF Follows, Running
  <2> QED
    BY <2>1, <2>3, FollowsOnce
<1> QED
  BY <1>1, <1>2
-----------------------------------------------------------------------------
(* WakeUp::QueueMsg of items no queue has: those that are left are parked.  *)
LEMMA QueueMsgsFields ==
    ASSUME NEW d \in Driver, NEW n \in Node, NEW items \in Seq(Item)
    PROVE  LET e == QueueMsgs(d, n, items)
               gone == Replaced(d, n, items)
               left == Without(d.parked[n] \o items, gone)
           IN /\ e \in Driver
              /\ e.queue = d.queue /\ e.current = d.current /\ e.telling = d.telling
              /\ e.sendQueue = d.sendQueue /\ e.msg = d.msg /\ e.event = d.event
              /\ e.awake = d.awake /\ e.nodes = d.nodes
              /\ e.obj = [i \in Item |-> IF i \in gone THEN Null ELSE d.obj[i]]
              /\ e.parked = [d.parked EXCEPT ![n] = left]
              /\ left \in Seq(Item)
              /\ gone \subseteq Range(d.parked[n] \o items)
<1> DEFINE e == QueueMsgs(d, n, items)
           gone == Replaced(d, n, items)
           left == Without(d.parked[n] \o items, gone)
           obj == [i \in Item |-> IF i \in gone THEN Null ELSE d.obj[i]]
           parked == [d.parked EXCEPT ![n] = left]
<1>1. d.obj \in [Item -> Cci \cup {Null}] /\ d.parked \in [Node -> Seq(Item)]
  BY DriverFacts
<1>2. d.parked[n] \o items \in Seq(Item)
  BY <1>1, ConcatProperties
<1>3. left \in Seq(Item)
  BY <1>2, WithoutFacts
<1>4. gone \subseteq Range(d.parked[n] \o items)
  BY DEF Replaced, Range
<1>5. e = [d EXCEPT !.parked[n] = left, !.obj = obj]
  BY DEF QueueMsgs
<1> HIDE DEF left, gone
<1>6. obj \in [Item -> Cci \cup {Null}] /\ parked \in [Node -> Seq(Item)]
  BY <1>1, <1>3
<1> HIDE DEF e
<1>7. e = [d EXCEPT !.parked = parked, !.obj = obj]
  BY <1>5 DEF Driver
<1> HIDE DEF obj, parked
<1>8. /\ e \in Driver
      /\ e.queue = d.queue /\ e.current = d.current /\ e.telling = d.telling
      /\ e.sendQueue = d.sendQueue /\ e.msg = d.msg /\ e.event = d.event
      /\ e.awake = d.awake /\ e.nodes = d.nodes /\ e.obj = obj /\ e.parked = parked
  BY <1>6, <1>7 DEF Driver
<1> QED
  BY <1>3, <1>4, <1>8 DEF e, left, gone, obj, parked

LEMMA QueueMsgsFacts ==
    ASSUME NEW d \in Driver, NEW n \in Node, NEW items \in Seq(Item), IsInjective(items),
           Owned(d, Range(items))
    PROVE  LET e == QueueMsgs(d, n, items)
           IN /\ e \in Driver /\ Owned(e, {})
              /\ e.queue = d.queue /\ e.current = d.current /\ e.telling = d.telling
              /\ e.event = d.event /\ e.nodes = d.nodes
              /\ \A i \in Item : i \notin Range(d.parked[n]) \cup Range(items) =>
                    e.obj[i] = d.obj[i]
<1> DEFINE e == QueueMsgs(d, n, items)
           all == d.parked[n] \o items
           gone == Replaced(d, n, items)
           left == Without(all, gone)
<1>1. d.parked \in [Node -> Seq(Item)] /\ d.parked[n] \in Seq(Item) /\ d.queue \in Seq(Item)
      /\ d.current \in Item \cup {Null}
  BY DriverFacts
<1>2. /\ e \in Driver
      /\ e.queue = d.queue /\ e.current = d.current /\ e.telling = d.telling
      /\ e.event = d.event /\ e.nodes = d.nodes
      /\ e.obj = [i \in Item |-> IF i \in gone THEN Null ELSE d.obj[i]]
      /\ e.parked = [d.parked EXCEPT ![n] = left]
      /\ gone \subseteq Range(all)
  BY QueueMsgsFields
<1>3. /\ Range(all) = Range(d.parked[n]) \cup Range(items)
      /\ all \in Seq(Item) /\ IsInjective(all)
  <2>1. IsInjective(d.parked[n]) /\ Range(d.parked[n]) \cap Range(items) = {}
    BY DEF Owned, Everywhere
  <2> QED
    BY <1>1, <2>1, JoinTwo
<1>4. left \in Seq(Item) /\ Range(left) = Range(all) \ gone /\ IsInjective(left)
  BY <1>3, WithoutFacts
<1> HIDE DEF e, all, gone, left
<1> DEFINE P(m) == Range(d.parked[m])
           Q(m) == Range(e.parked[m])
           hand == Range(items)
<1>5. /\ Held(d) = Everywhere(d) \cup Telling(d) \cup hand
      /\ Telling(d) \cap Everywhere(d) = {}
      /\ hand \cap (Everywhere(d) \cup Telling(d)) = {}
      /\ IsInjective(d.queue)
      /\ \A m \in Node : IsInjective(d.parked[m])
      /\ \A m \in Node : Range(d.queue) \cap P(m) = {}
      /\ \A l, m \in Node : l # m => P(l) \cap P(m) = {}
      /\ d.telling => Running(d)
      /\ Everywhere(d) = Range(d.queue) \cup UNION {P(m) : m \in Node}
  BY DEF Owned, Everywhere
<1>6. /\ \A m \in Node : m # n => e.parked[m] = d.parked[m] /\ Q(m) = P(m)
      /\ e.parked[n] = left /\ Q(n) = (P(n) \cup hand) \ gone
      /\ gone \subseteq P(n) \cup hand
  BY <1>1, <1>2, <1>3, <1>4
<1>7. Telling(e) = Telling(d) /\ (e.telling => Running(e))
  BY <1>2, <1>5 DEF Telling, Running
<1>8. Everywhere(e) = Range(d.queue) \cup UNION {Q(m) : m \in Node}
  BY <1>2 DEF Everywhere
<1>9. Held(e) = Held(d) \ gone
  BY <1>2 DEF Held
<1>10. \A m \in Node : IsInjective(e.parked[m])
  BY <1>4, <1>5, <1>6
<1>11. \A i \in Item : i \notin Range(d.parked[n]) \cup Range(items) => e.obj[i] = d.obj[i]
  BY <1>2, <1>6
<1> HIDE DEF P, Q, hand
<1>12. \A m \in Node : Q(m) \cap gone = {} /\ Q(m) \subseteq P(m) \cup hand
  <2> SUFFICES ASSUME NEW m \in Node PROVE Q(m) \cap gone = {} /\ Q(m) \subseteq P(m) \cup hand
    OBVIOUS
  <2>1. CASE m = n
    BY <1>6, <2>1
  <2>2. CASE m # n
    <3>1. Q(m) = P(m) /\ P(m) \cap P(n) = {} /\ P(m) \cap hand = {}
      BY <1>5, <1>6, <2>2
    <3> QED
      BY <1>6, <3>1
  <2> QED
    BY <2>1, <2>2
<1>13. Range(d.queue) \cap gone = {} /\ Telling(d) \cap gone = {}
  BY <1>5, <1>6
<1>14. Everywhere(e) = (Everywhere(d) \cup hand) \ gone
  <2>1. ASSUME NEW x \in Everywhere(e) PROVE x \in (Everywhere(d) \cup hand) \ gone
    BY <1>5, <1>8, <1>12, <1>13, <2>1
  <2>2. ASSUME NEW x \in Range(d.queue) PROVE x \in Everywhere(e)
    BY <1>8, <2>2
  <2>3. ASSUME NEW x \in hand, x \notin gone PROVE x \in Everywhere(e)
    BY <1>6, <1>8, <2>3
  <2>4. ASSUME NEW x, x \notin gone, NEW m \in Node, x \in P(m) PROVE x \in Everywhere(e)
    <3>1. x \in Q(m)
      BY <1>6, <2>4
    <3> QED
      BY <1>8, <3>1
  <2> QED
    BY <1>5, <2>1, <2>2, <2>3, <2>4
<1>15. \A m \in Node : Range(d.queue) \cap Q(m) = {}
  BY <1>5, <1>12
<1>16. \A l, m \in Node : l # m => Q(l) \cap Q(m) = {}
  <2>0. SUFFICES ASSUME NEW l \in Node, NEW m \in Node, l # m PROVE Q(l) \cap Q(m) = {}
    OBVIOUS
  <2>1. P(l) \cap P(m) = {} /\ hand \cap P(l) = {} /\ hand \cap P(m) = {}
    BY <1>5, <2>0
  <2>2. l # n \/ m # n
    BY <2>0
  <2> QED
    BY <1>6, <1>12, <2>1, <2>2
<1>17. Owned(e, {})
  <2>1. /\ Held(e) = Everywhere(e) \cup Telling(e) \cup {}
        /\ Telling(e) \cap Everywhere(e) = {}
    BY <1>5, <1>7, <1>9, <1>13, <1>14
  <2> QED
    BY <1>2, <1>5, <1>7, <1>10, <1>15, <1>16, <2>1 DEF Owned, Q
<1> QED
  BY <1>2, <1>11, <1>17 DEF e

(* The command in progress is not on a wake-up queue: parking others changes nothing *)
(* about it.                                                                         *)
LEMMA ParkingKeepsFront ==
    ASSUME NEW d, NEW n \in Node, NEW items \in Seq(Item), IsInjective(items),
           SoundBut(d, Range(items))
    PROVE  Sound(QueueMsgs(d, n, items))
<1> DEFINE e == QueueMsgs(d, n, items)
<1>1. /\ e \in Driver /\ Owned(e, {})
      /\ e.queue = d.queue /\ e.current = d.current /\ e.telling = d.telling
      /\ e.event = d.event
      /\ \A i \in Item : i \notin Range(d.parked[n]) \cup Range(items) => e.obj[i] = d.obj[i]
  BY QueueMsgsFacts DEF SoundBut
<1> HIDE DEF e
<1>2. Queued(e)
  BY <1>1 DEF SoundBut, Queued, Running
<1>3. Woken(e)
  <2> SUFFICES ASSUME ~e.event, e.queue # <<>>
               PROVE  /\ Running(e) /\ ~e.telling /\ e.current = Head(e.queue)
                      /\ ~Current(e).done /\ (Current(e).state # "Normal" \/ Current(e).changed)
    BY DEF Woken
  <2>1. /\ Running(d) /\ ~d.telling /\ d.current = Head(d.queue)
        /\ ~Current(d).done /\ (Current(d).state # "Normal" \/ Current(d).changed)
    BY <1>1 DEF SoundBut, Woken
  <2>2. d.current \in Range(d.queue) /\ d.current \in Item
    BY <2>1, DriverFacts DEF SoundBut, Queued, Running
  <2>3. d.current \notin Range(d.parked[n]) \cup Range(items)
    BY <2>2 DEF SoundBut, Owned, Everywhere
  <2>4. Current(e) = Current(d) /\ Running(e)
    BY <1>1, <2>1, <2>2, <2>3 DEF Current, Running
  <2> QED
    BY <1>1, <2>1, <2>4
<1> QED
  BY <1>1, <1>2, <1>3 DEF Sound, SoundBut, e

(* A new object at a free address is in hand. *)
LEMMA CopyInHand ==
    ASSUME NEW d, Sound(d), NEW i \in Item, d.obj[i] = Null, NEW c \in Cci
    PROVE  LET e == [d EXCEPT !.obj[i] = c]
           IN SoundBut(e, {i}) /\ e.current = d.current /\ e.telling = d.telling
<1> DEFINE e == [d EXCEPT !.obj[i] = c]
<1>1. d \in Driver /\ Owned(d, {}) /\ Queued(d) /\ Woken(d)
      /\ d.obj \in [Item -> Cci \cup {Null}]
  BY DriverFacts DEF Sound, SoundBut
<1> DEFINE obj == [d.obj EXCEPT ![i] = c]
<1>2. obj \in [Item -> Cci \cup {Null}]
  BY <1>1
<1>3. e = [d EXCEPT !.obj = obj]
  BY <1>1 DEF Driver
<1>4. \A j \in Item : obj[j] = IF j = i THEN c ELSE d.obj[j]
  BY <1>1
<1> HIDE DEF obj, e
<1>5. /\ e \in Driver /\ e.obj = obj
      /\ e.queue = d.queue /\ e.current = d.current /\ e.telling = d.telling
      /\ e.parked = d.parked /\ e.event = d.event
  BY <1>1, <1>2, <1>3 DEF Driver
<1>6. Everywhere(e) = Everywhere(d) /\ Telling(e) = Telling(d)
  BY <1>5 DEF Everywhere, Telling
<1>7. Held(e) = Held(d) \cup {i} /\ i \notin Held(d)
  BY <1>4, <1>5, NullIsNoItem DEF Held
<1>8. Owned(e, {i}) /\ Queued(e)
  BY <1>1, <1>5, <1>6, <1>7 DEF Owned, Queued, Running
<1>9. Woken(e)
  <2>1. Running(d) => d.current # i /\ d.current \in Item
    BY <1>1, SoundFacts DEF Held
  <2>2. Running(d) => Current(e) = Current(d)
    BY <1>4, <1>5, <2>1 DEF Current
  <2> QED
    BY <1>1, <1>5, <2>2 DEF Woken, Running
<1> QED
  BY <1>5, <1>8, <1>9 DEF SoundBut, e

LEMMA FreeAddress ==
    ASSUME NEW d \in Driver, Free(d) # {}
    PROVE  NewAddress(d) \in Item /\ d.obj[NewAddress(d)] = Null
  BY DEF Free, NewAddress

LEMMA SendMsgFacts ==
    ASSUME NEW d, Sound(d), NEW m \in Msg,
           Asleep(d, m.node) => Free(d) # {}
    PROVE  Follows(d, SendMsg(d, m)) /\ Sound(SendMsg(d, m))
<1> DEFINE e == SendMsg(d, m)
<1>1. CASE ~Asleep(d, m.node)
  <2>1. e = [d EXCEPT !.sendQueue = Append(@, m)]
    BY <1>1 DEF SendMsg
  <2>2. d \in Driver /\ Append(d.sendQueue, m) \in Seq(Msg)
    BY DriverFacts, AppendProperties DEF Sound, SoundBut
  <2> HIDE DEF e
  <2>3. /\ e \in Driver /\ e.obj = d.obj /\ e.queue = d.queue /\ e.event = d.event
        /\ e.current = d.current /\ e.telling = d.telling /\ e.parked = d.parked
    BY <2>1, <2>2 DEF Driver
  <2>4. Sound(e) /\ Follows(d, e)
    BY <2>3, OtherFieldsOnly
  <2> QED
    BY <2>4 DEF e
<1>2. CASE Asleep(d, m.node) /\ ~Running(d)
  <2>1. e = d
    BY <1>2 DEF SendMsg
  <2> QED
    BY <2>1, SoundFacts
<1>3. CASE Asleep(d, m.node) /\ Running(d)
  <2> DEFINE i == NewAddress(d)
             copied == [d EXCEPT !.obj[i] = Current(d)]
             over == UpdateControllerState(copied, "Sleeping")
  <2>1. e = QueueMsgs(over, m.node, <<i>>)
    BY <1>3 DEF SendMsg
  <2>2. i \in Item /\ d.obj[i] = Null
    BY <1>3, FreeAddress DEF Sound, SoundBut
  <2>3. m.node \in Node /\ Sleeper # {}
    BY <1>3, DriverFacts DEF Sound, SoundBut, Asleep
  <2>4. Current(d) \in Cci
    BY <1>3, SoundFacts DEF Current
  <2> HIDE DEF i
  <2>5. SoundBut(copied, {i}) /\ copied.current = d.current /\ copied.telling = d.telling
    BY <2>2, <2>4, CopyInHand
  <2> HIDE DEF copied
  <2>6. SoundBut(over, {i}) /\ over.current = d.current /\ over.telling = d.telling
    BY <2>2, <2>5, UpdateFacts DEF State
  <2> HIDE DEF over
  <2>7. <<i>> \in Seq(Item) /\ IsInjective(<<i>>) /\ Range(<<i>>) = {i}
    BY <2>2 DEF IsInjective, Range
  <2>8. Sound(e)
    BY <2>1, <2>3, <2>6, <2>7, ParkingKeepsFront
  <2>9. e.current = d.current /\ e.telling = d.telling
    <3>1. over \in Driver
      BY <2>6 DEF SoundBut
    <3> DEFINE items == <<i>>
               n == m.node
    <3>2. n \in Node /\ items \in Seq(Item) /\ e = QueueMsgs(over, n, items)
      BY <2>1, <2>3, <2>7
    <3> HIDE DEF e, items, n
    <3>3. e.current = over.current /\ e.telling = over.telling
      BY <3>1, <3>2, QueueMsgsFields
    <3> QED
      BY <2>6, <3>3 DEF e
  <2> QED
    BY <2>3, <2>8, <2>9 DEF Follows, Running
<1> QED
  BY <1>1, <1>2, <1>3
-----------------------------------------------------------------------------
(* delete m_nodes[]: the command in progress stays, whatever node it is of. *)
LEMMA DeleteFields ==
    ASSUME NEW d \in Driver, NEW dying \in SUBSET Node, dying \cap d.nodes # {}
    PROVE  LET e == DeleteNodes(d, dying)
               which == dying \cap d.nodes
               left == Without(d.queue, OtherItemsOf(d, which))
               gone == OtherItemsOf(d, which) \cup UNION {Range(d.parked[n]) : n \in which}
           IN /\ e \in Driver
              /\ e.current = d.current /\ e.telling = d.telling
              /\ e.queue = left /\ e.event = (d.event /\ left # <<>>)
              /\ e.obj = [i \in Item |-> IF i \in gone THEN Null ELSE d.obj[i]]
              /\ e.parked = [n \in Node |-> IF n \in which THEN <<>> ELSE d.parked[n]]
<1> DEFINE e == DeleteNodes(d, dying)
           which == dying \cap d.nodes
           left == Without(d.queue, OtherItemsOf(d, which))
           gone == OtherItemsOf(d, which) \cup UNION {Range(d.parked[n]) : n \in which}
           nodes == d.nodes \ which
           msg == IF d.msg.node \in which THEN NoMsg ELSE d.msg
           sendQueue == Without(d.sendQueue, MessagesFor(d, which))
           event == EventAfter(d, left)
           obj == [i \in Item |-> IF i \in gone THEN Null ELSE d.obj[i]]
           parked == [n \in Node |-> IF n \in which THEN <<>> ELSE d.parked[n]]
           awake == [n \in Node |-> n \in which \/ d.awake[n]]
<1>1. /\ d.obj \in [Item -> Cci \cup {Null}] /\ d.event \in BOOLEAN
      /\ d.queue \in Seq(Item) /\ d.parked \in [Node -> Seq(Item)]
      /\ d.sendQueue \in Seq(Msg) /\ d.msg \in Msg \cup {NoMsg}
      /\ d.nodes \in SUBSET Node /\ d.awake \in [Node -> BOOLEAN]
  BY DriverFacts
<1>2. e = [d EXCEPT !.nodes = nodes, !.msg = msg, !.sendQueue = sendQueue, !.queue = left,
                    !.event = event, !.obj = obj, !.parked = parked, !.awake = awake]
  BY DEF DeleteNodes
<1>3. left \in Seq(Item) /\ sendQueue \in Seq(Msg)
  BY <1>1, WithoutFacts
<1>4. event \in BOOLEAN /\ nodes \in SUBSET Node /\ msg \in Msg \cup {NoMsg}
      /\ awake \in [Node -> BOOLEAN]
  BY <1>1 DEF EventAfter
<1>5. obj \in [Item -> Cci \cup {Null}]
  BY <1>1
<1>6. parked \in [Node -> Seq(Item)]
  BY <1>1
<1>7. event = (d.event /\ left # <<>>)
  BY DEF EventAfter
<1> HIDE DEF nodes, msg, sendQueue, left, event, obj, parked, awake, e
<1>8. /\ e \in Driver /\ e.current = d.current /\ e.telling = d.telling
      /\ e.queue = left /\ e.event = event /\ e.obj = obj /\ e.parked = parked
  BY <1>2, <1>3, <1>4, <1>5, <1>6 DEF Driver
<1> QED
  BY <1>7, <1>8 DEF e, left, obj, parked

LEMMA DeleteNodesFacts ==
    ASSUME NEW d, Sound(d), NEW dying \in SUBSET Node
    PROVE  LET e == DeleteNodes(d, dying)
           IN Sound(e) /\ Follows(d, e) /\ e.current = d.current /\ e.telling = d.telling
<1> DEFINE e == DeleteNodes(d, dying)
           which == dying \cap d.nodes
           off == OtherItemsOf(d, which)
           left == Without(d.queue, off)
           P(m) == Range(d.parked[m])
           Q(m) == Range(e.parked[m])
           gone == off \cup UNION {P(n) : n \in which}
<1>1. CASE which = {}
  <2>1. e = d
    BY <1>1 DEF DeleteNodes
  <2> QED
    BY <2>1, SoundFacts
<1>2. CASE which # {}
  <2>1. /\ d \in Driver /\ Owned(d, {}) /\ Queued(d) /\ Woken(d)
        /\ d.parked \in [Node -> Seq(Item)] /\ d.queue \in Seq(Item)
        /\ d.obj \in [Item -> Cci \cup {Null}] /\ which \subseteq Node
        /\ d.current \in Item \cup {Null} /\ d.event \in BOOLEAN /\ Null \notin Item
    BY DriverFacts, CommandConstants DEF Sound, SoundBut
  <2>2. /\ e \in Driver
        /\ e.current = d.current /\ e.telling = d.telling
        /\ e.queue = left /\ e.event = (d.event /\ left # <<>>)
        /\ e.obj = [i \in Item |-> IF i \in gone THEN Null ELSE d.obj[i]]
        /\ e.parked = [n \in Node |-> IF n \in which THEN <<>> ELSE d.parked[n]]
    BY <1>2, <2>1, DeleteFields
  <2>3. /\ left \in Seq(Item) /\ Range(left) = Range(d.queue) \ off
        /\ IsInjective(d.queue) => IsInjective(left)
        /\ d.queue # <<>> /\ Head(d.queue) \notin off => left # <<>> /\ Head(left) = Head(d.queue)
    BY <2>1, WithoutFacts
  <2>4. off \subseteq Range(d.queue) /\ d.current \notin off
    BY DEF OtherItemsOf
  <2>5. Everywhere(d) = Range(d.queue) \cup UNION {P(m) : m \in Node}
    BY DEF Everywhere
  <2>6. /\ Held(d) = Everywhere(d) \cup Telling(d)
        /\ Telling(d) \cap Everywhere(d) = {}
        /\ IsInjective(d.queue)
        /\ \A m \in Node : IsInjective(d.parked[m])
        /\ \A m \in Node : Range(d.queue) \cap P(m) = {}
        /\ \A l, m \in Node : l # m => P(l) \cap P(m) = {}
        /\ d.telling => Running(d)
    BY <2>1 DEF Owned
  <2>7. IsInjective(<<>>) /\ Range(<<>>) = {}
    BY DEF IsInjective, Range
  <2>8. \A m \in Node : /\ Q(m) = IF m \in which THEN {} ELSE P(m)
                        /\ IsInjective(e.parked[m])
    BY <2>2, <2>6, <2>7
  <2>9. Everywhere(e) = Range(left) \cup UNION {Q(m) : m \in Node}
    BY <2>2 DEF Everywhere
  <2>10. Telling(e) = Telling(d)
    BY <2>2 DEF Telling
  <2>11. Held(e) = Held(d) \ gone
    BY <2>2 DEF Held
  <2>12. d.telling => d.current \in Telling(d)
    BY DEF Telling
  <2> HIDE DEF e, which, off, left, P, Q
  <2>13. \A m \in Node \ which : P(m) \cap gone = {}
    <3> SUFFICES ASSUME NEW m \in Node \ which, NEW x \in P(m), x \in gone PROVE FALSE
      OBVIOUS
    <3>1. x \notin off
      BY <2>4, <2>6
    <3>2. PICK l \in which : x \in P(l)
      BY <3>1
    <3> QED
      BY <2>1, <2>6, <3>2
  <2>14. Range(left) = Range(d.queue) \ gone
    BY <2>1, <2>3, <2>6
  <2>15. Telling(d) \cap gone = {}
    BY <2>1, <2>4, <2>5, <2>6
  <2> HIDE DEF gone
  <2>17. \A n \in which : P(n) \subseteq gone
    BY DEF gone
  <2>18. Everywhere(e) = Everywhere(d) \ gone
    <3>1. ASSUME NEW x \in Everywhere(e) PROVE x \in Everywhere(d) \ gone
      <4>1. CASE x \in Range(left)
        BY <2>5, <2>14, <4>1
      <4>2. CASE x \notin Range(left)
        <5>1. PICK m \in Node : x \in Q(m)
          BY <2>9, <3>1, <4>2
        <5>2. m \notin which /\ x \in P(m)
          BY <2>8, <5>1
        <5> QED
          BY <2>5, <2>13, <5>2
      <4> QED
        BY <4>1, <4>2
    <3>2. ASSUME NEW x \in Everywhere(d), x \notin gone PROVE x \in Everywhere(e)
      <4>1. CASE x \in Range(d.queue)
        BY <2>9, <2>14, <3>2, <4>1
      <4>2. CASE x \notin Range(d.queue)
        <5>1. PICK m \in Node : x \in P(m)
          BY <2>5, <3>2, <4>2
        <5>2. m \notin which
          BY <2>17, <3>2, <5>1
        <5>3. x \in Q(m)
          BY <2>8, <5>1, <5>2
        <5> QED
          BY <2>9, <5>3
      <4> QED
        BY <4>1, <4>2
    <3> QED
      BY <3>1, <3>2
  <2>19. Owned(e, {})
    <3>1. Held(e) = Everywhere(e) \cup Telling(e) \cup {} /\ Telling(e) \cap Everywhere(e) = {}
      BY <2>6, <2>10, <2>11, <2>15, <2>18
    <3>2. IsInjective(e.queue) /\ (e.telling => Running(e))
      BY <2>2, <2>3, <2>6 DEF Running
    <3>3. \A m \in Node : Range(e.queue) \cap Q(m) = {}
      BY <2>2, <2>6, <2>8, <2>14
    <3>4. \A l, m \in Node : l # m => Q(l) \cap Q(m) = {}
      BY <2>6, <2>8
    <3> QED
      BY <2>8, <3>1, <3>2, <3>3, <3>4 DEF Owned, Q
  <2>20. Running(d) => d.current \in Item /\ d.current \in Held(d) /\ d.current \notin gone
    <3> SUFFICES ASSUME Running(d) PROVE d.current \in Item /\ d.current \in Held(d) /\ d.current \notin gone
      OBVIOUS
    <3>1. d.current \in Item /\ d.current \in Held(d)
      BY SoundFacts
    <3>2. CASE d.telling
      BY <2>12, <2>15, <3>1, <3>2
    <3>3. CASE ~d.telling
      <4>1. d.current \in Range(d.queue)
        BY <2>1, <3>3 DEF Queued
      <4>2. \A n \in which : d.current \notin P(n)
        BY <2>1, <2>6, <4>1
      <4> QED
        BY <2>4, <3>1, <4>2 DEF gone
    <3> QED
      BY <3>2, <3>3
  <2>21. Running(d) => Current(e) = Current(d) /\ Running(e)
    BY <2>2, <2>20 DEF Current, Running
  <2>22. Queued(e)
    BY <2>1, <2>2, <2>14, <2>20 DEF Queued, Running
  <2>23. Woken(e)
    <3> SUFFICES ASSUME ~e.event, e.queue # <<>>
                 PROVE  /\ Running(e) /\ ~e.telling /\ e.current = Head(e.queue)
                        /\ ~Current(e).done /\ (Current(e).state # "Normal" \/ Current(e).changed)
      BY DEF Woken
    <3>1. ~d.event
      BY <2>1, <2>2
    <3>2. d.queue # <<>>
      <4> SUFFICES ASSUME d.queue = <<>> PROVE FALSE
        OBVIOUS
      <4>1. Range(left) = {}
        BY <2>3, <2>7
      <4>2. Head(left) \in Range(left)
        BY <2>2, <2>3, TakeFirst
      <4> QED
        BY <4>1, <4>2
    <3>3. /\ Running(d) /\ ~d.telling /\ d.current = Head(d.queue)
          /\ ~Current(d).done /\ (Current(d).state # "Normal" \/ Current(d).changed)
      BY <2>1, <3>1, <3>2 DEF Woken
    <3> QED
      BY <2>2, <2>3, <2>4, <2>21, <3>2, <3>3
  <2>24. Foremost(d) => Foremost(e)
    <3> SUFFICES ASSUME Foremost(d), Running(e), ~e.telling
                 PROVE  e.queue # <<>> /\ Head(e.queue) = e.current
      BY DEF Foremost
    <3>1. d.queue # <<>> /\ Head(d.queue) = d.current
      BY <2>2 DEF Foremost, Running
    <3> QED
      BY <2>2, <2>3, <2>4, <3>1
  <2>25. SameObjects(d, e)
    <3>1. ASSUME NEW i \in Item, e.obj[i] # Null
          PROVE  d.obj[i] # Null /\ e.obj[i].of = d.obj[i].of
      BY <2>2, <3>1
    <3>2. ASSUME NEW i \in Item, d.obj[i] # Null, e.obj[i] = Null PROVE i # d.current
      <4>1. i \in gone
        BY <2>2, <3>2
      <4> QED
        BY <2>1, <2>20, <4>1 DEF Running
    <3> QED
      BY <2>2, <2>24, <3>1, <3>2 DEF SameObjects
  <2> QED
    BY <2>2, <2>19, <2>22, <2>23, <2>25 DEF Sound, SoundBut, Follows, Running, e
<1> QED
  BY <1>1, <1>2
-----------------------------------------------------------------------------
(* MoveMessagesToWakeUpQueue: the node's items go to its wake-up queue, and *)
(* a copy of the command in progress to the controller queue.               *)
LEMMA MoveItemsFacts ==
    ASSUME NEW d, Sound(d), NEW n \in Node
    PROVE  LET e == MoveControllerItems(d, n)
           IN /\ e \in Driver /\ Owned(e, {})
              /\ e.current = d.current /\ e.telling = d.telling
              /\ ~e.event /\ e.queue # <<>> => ~d.event /\ d.queue # <<>>
              /\ Held(e) \subseteq Held(d)
<1> DEFINE Of(here) == {i \in Range(d.queue) : (d.obj[i].node = n) = here}
           there == Of(TRUE)
           other == Of(FALSE)
           left == Without(d.queue, there)
           moved == Without(d.queue, other)
           event == EventAfter(d, left)
           f == [d EXCEPT !.queue = left, !.event = EventAfter(d, left)]
           e == QueueMsgs(f, n, moved)
<1>1. MoveControllerItems(d, n) = e
  BY DEF MoveControllerItems
<1>2. d \in Driver /\ Owned(d, {}) /\ d.queue \in Seq(Item) /\ d.event \in BOOLEAN
      /\ d.parked \in [Node -> Seq(Item)]
  BY DriverFacts DEF Sound, SoundBut
<1>3. there \cup other = Range(d.queue) /\ there \cap other = {}
  OBVIOUS
<1> HIDE DEF there, other
<1>4. /\ left \in Seq(Item) /\ Range(left) = Range(d.queue) \ there
      /\ IsInjective(d.queue) => IsInjective(left)
  BY <1>2, WithoutFacts
<1>5. /\ moved \in Seq(Item) /\ Range(moved) = Range(d.queue) \ other
      /\ IsInjective(d.queue) => IsInjective(moved)
  BY <1>2, WithoutFacts
<1>6. event \in BOOLEAN /\ event = (d.event /\ left # <<>>)
  BY <1>2 DEF EventAfter
<1>7. f = [d EXCEPT !.queue = left, !.event = event]
  OBVIOUS
<1>8. (left # <<>> => d.queue # <<>>)
  <2> SUFFICES ASSUME left # <<>>, d.queue = <<>> PROVE FALSE
    OBVIOUS
  <2>1. Head(left) \in Range(left) /\ Range(d.queue) = {}
    BY <1>4, TakeFirst DEF Range
  <2> QED
    BY <1>4, <2>1
<1> HIDE DEF left, moved, event, f
<1>9. /\ f \in Driver /\ f.obj = d.obj /\ f.queue = left /\ f.event = event
      /\ f.current = d.current /\ f.telling = d.telling /\ f.parked = d.parked
  BY <1>2, <1>4, <1>6, <1>7 DEF Driver
<1> DEFINE U == UNION {Range(d.parked[m]) : m \in Node}
<1>10. Owned(f, Range(moved))
  <2>1. Held(f) = Held(d) /\ Telling(f) = Telling(d)
        /\ Everywhere(f) = Range(left) \cup U /\ Everywhere(d) = Range(d.queue) \cup U
    BY <1>9 DEF Held, Telling, Everywhere
  <2>2. /\ Held(d) = Everywhere(d) \cup Telling(d)
        /\ Telling(d) \cap Everywhere(d) = {}
        /\ IsInjective(d.queue)
        /\ \A m \in Node : IsInjective(d.parked[m])
        /\ \A m \in Node : Range(d.queue) \cap Range(d.parked[m]) = {}
        /\ \A l, m \in Node : l # m => Range(d.parked[l]) \cap Range(d.parked[m]) = {}
        /\ d.telling => Running(d)
    BY <1>2 DEF Owned
  <2>3. Range(d.queue) \cap U = {}
    BY <2>2
  <2>4. Range(moved) \cup Range(left) = Range(d.queue) /\ Range(moved) \cap Range(left) = {}
    BY <1>3, <1>4, <1>5
  <2>5. \A m \in Node : Range(f.queue) \cap Range(f.parked[m]) = {}
    BY <1>9, <2>2, <2>4
  <2> HIDE DEF U
  <2>6. /\ Held(f) = Everywhere(f) \cup Telling(f) \cup Range(moved)
        /\ Telling(f) \cap Everywhere(f) = {}
        /\ Range(moved) \cap (Everywhere(f) \cup Telling(f)) = {}
    BY <2>1, <2>2, <2>3, <2>4
  <2> QED
    BY <1>4, <1>9, <2>2, <2>5, <2>6 DEF Owned, Running
<1>11. IsInjective(moved)
  BY <1>2, <1>5 DEF Owned
<1>12. /\ e \in Driver /\ Owned(e, {})
       /\ e.queue = f.queue /\ e.current = f.current /\ e.telling = f.telling
       /\ e.event = f.event
  BY <1>5, <1>9, <1>10, <1>11, QueueMsgsFacts
<1>13. Held(e) \subseteq Held(d)
  <2>1. e.obj = [i \in Item |-> IF i \in Replaced(f, n, moved) THEN Null ELSE f.obj[i]]
    BY <1>5, <1>9, QueueMsgsFields
  <2> HIDE DEF e
  <2> QED
    BY <1>9, <2>1 DEF Held
<1> HIDE DEF e
<1> QED
  BY <1>1, <1>6, <1>8, <1>9, <1>12, <1>13

LEMMA UpdateOwned ==
    ASSUME NEW d \in Driver, NEW s \in State, Owned(d, {}), Running(d), Current(d) # Null
    PROVE  LET e == UpdateControllerState(d, s)
           IN /\ e \in Driver /\ Owned(e, {}) /\ Held(e) = Held(d) /\ Current(e) \in Cci
              /\ e.queue = d.queue /\ e.current = d.current /\ e.telling = d.telling
<1> DEFINE e == UpdateControllerState(d, s)
<1>1. d.obj \in [Item -> Cci \cup {Null}] /\ d.current \in Item
      /\ Current(d) \in Cci /\ d.current \in Held(d)
  BY DriverFacts DEF Running, Current, Held
<1>2. CASE Current(d).state = s
  <2>1. e = d
    BY <1>2 DEF UpdateControllerState
  <2> QED
    BY <1>1, <2>1
<1>3. CASE Current(d).state # s
  <2> DEFINE new == Entered(Current(d), s)
  <2>1. /\ e \in Driver
        /\ e.queue = d.queue /\ e.current = d.current /\ e.telling = d.telling
        /\ e.parked = d.parked
        /\ e.obj = [d.obj EXCEPT ![d.current] = new]
    BY <1>1, <1>3, UpdateFields
  <2>2. new \in Cci /\ new # Null
    BY <1>1, EnteredFacts
  <2> HIDE DEF e, new
  <2>3. Held(e) = Held(d) /\ Current(e) \in Cci
    BY <1>1, <2>1, <2>2 DEF Held, Current
  <2>4. Everywhere(e) = Everywhere(d) /\ Telling(e) = Telling(d)
    BY <2>1 DEF Everywhere, Telling
  <2>5. Owned(e, {})
    BY <2>1, <2>3, <2>4 DEF Owned, Running
  <2> QED
    BY <2>1, <2>3, <2>5 DEF e
<1> QED
  BY <1>2, <1>3

LEMMA PutCopyBackFacts ==
    ASSUME NEW d \in Driver, Owned(d, {}), ~d.telling, Free(d) # {},
           ~Running(d) => d.event \/ d.queue = <<>>
    PROVE  LET e == PutCopyBack(d)
           IN \/ Lost(e)
              \/ Sound(e) /\ ~e.telling /\ (Running(e) <=> Running(d))
<1> DEFINE e == PutCopyBack(d)
<1>1. CASE ~Running(d)
  <2>1. e = d
    BY <1>1 DEF PutCopyBack
  <2>2. Sound(d)
    BY <1>1 DEF Sound, SoundBut, Queued, Woken
  <2> QED
    BY <2>1, <2>2
<1>2. CASE Running(d) /\ Current(d) = Null
  <2>1. e = Crash(d)
    BY <1>2 DEF PutCopyBack
  <2>2. Lost(Crash(d))
    BY DEF Lost, Crash, Driver
  <2> QED
    BY <2>1, <2>2
<1>3. CASE Running(d) /\ Current(d) # Null
  <2> DEFINE s == UpdateControllerState(d, "Sleeping")
             i == NewAddress(s)
             obj == [s.obj EXCEPT ![i] = Current(s)]
             queue == Append(s.queue, i)
  <2>1. e = [s EXCEPT !.obj[i] = Current(s), !.queue = Append(@, i), !.current = i,
                      !.event = TRUE]
    BY <1>3 DEF PutCopyBack
  <2>2. /\ s \in Driver /\ Owned(s, {}) /\ Held(s) = Held(d) /\ Current(s) \in Cci
        /\ s.telling = d.telling
    BY <1>3, UpdateOwned DEF State
  <2>3. Free(s) # {}
    BY <2>2 DEF Free, Held
  <2> HIDE DEF s
  <2>4. i \in Item /\ s.obj[i] = Null
    BY <2>2, <2>3, FreeAddress
  <2>5. s.obj \in [Item -> Cci \cup {Null}] /\ s.queue \in Seq(Item) /\ Null \notin Item
    BY <2>2, DriverFacts, CommandConstants
  <2> HIDE DEF i
  <2>6. obj \in [Item -> Cci \cup {Null}]
        /\ \A j \in Item : obj[j] = IF j = i THEN Current(s) ELSE s.obj[j]
    BY <2>2, <2>4, <2>5
  <2>7. /\ queue \in Seq(Item) /\ Range(queue) = Range(s.queue) \cup {i}
        /\ IsInjective(s.queue) /\ i \notin Range(s.queue) => IsInjective(queue)
    BY <2>4, <2>5, AppendOne
  <2>8. e = [s EXCEPT !.obj = obj, !.queue = queue, !.current = i, !.event = TRUE]
    BY <2>1, <2>2 DEF Driver
  <2> HIDE DEF obj, queue, e
  <2>9. /\ e \in Driver /\ e.obj = obj /\ e.queue = queue /\ e.current = i /\ e.event
        /\ e.telling = s.telling /\ e.parked = s.parked
    BY <2>2, <2>4, <2>6, <2>7, <2>8 DEF Driver
  <2>10. Held(e) = Held(s) \cup {i} /\ i \notin Held(s)
    BY <2>2, <2>4, <2>6, <2>9, NullIsNoItem DEF Held
  <2>11. Running(e)
    BY <2>4, <2>5, <2>9 DEF Running
  <2>12. Telling(e) = {} /\ Telling(s) = {}
    BY <2>2, <2>9 DEF Telling
  <2> DEFINE U == UNION {Range(s.parked[m]) : m \in Node}
  <2>13. Everywhere(e) = Range(queue) \cup U /\ Everywhere(s) = Range(s.queue) \cup U
    BY <2>9 DEF Everywhere
  <2>14. /\ Held(s) = Everywhere(s) \cup Telling(s)
         /\ IsInjective(s.queue)
         /\ \A m \in Node : IsInjective(s.parked[m])
         /\ \A m \in Node : Range(s.queue) \cap Range(s.parked[m]) = {}
         /\ \A l, m \in Node : l # m => Range(s.parked[l]) \cap Range(s.parked[m]) = {}
    BY <2>2 DEF Owned
  <2>15. i \notin U /\ i \notin Range(s.queue)
    BY <2>10, <2>13, <2>14
  <2>16. \A m \in Node : i \notin Range(s.parked[m])
    BY <2>15
  <2> HIDE DEF U
  <2>17. Held(e) = Everywhere(e) \cup Telling(e) \cup {}
    BY <2>7, <2>10, <2>12, <2>13, <2>14
  <2>18. \A m \in Node : Range(e.queue) \cap Range(e.parked[m]) = {}
    BY <2>7, <2>9, <2>14, <2>16
  <2>19. Owned(e, {})
    BY <2>7, <2>9, <2>11, <2>12, <2>14, <2>15, <2>17, <2>18 DEF Owned
  <2>20. Queued(e) /\ Woken(e)
    BY <2>7, <2>9 DEF Queued, Woken
  <2> QED
    BY <1>3, <2>2, <2>9, <2>11, <2>19, <2>20 DEF Sound, SoundBut, e
<1> QED
  BY <1>1, <1>2, <1>3

LEMMA MoveMessagesFacts ==
    ASSUME NEW d, Sound(d), ~d.telling, NEW n, Free(d) # {}
    PROVE  Follows(d, MoveMessagesToWakeUpQueue(d, n))
<1> DEFINE msg == IF Running(d) \/ d.msg.node = n THEN NoMsg ELSE d.msg
           left == Without(d.sendQueue, MessagesFor(d, {n}))
           awake == [d.awake EXCEPT ![n] = FALSE]
           asleep == [d EXCEPT !.awake = awake, !.msg = msg, !.sendQueue = left]
           e == PutCopyBack(MoveControllerItems(asleep, n))
<1>1. CASE n \notin d.nodes \cap Sleeper
  BY <1>1, SoundFacts DEF MoveMessagesToWakeUpQueue
<1>2. CASE n \in d.nodes \cap Sleeper
  <2>1. /\ d \in Driver /\ n \in Node /\ d.awake \in [Node -> BOOLEAN]
        /\ d.msg \in Msg \cup {NoMsg} /\ d.sendQueue \in Seq(Msg)
    BY <1>2, DriverFacts DEF Sound, SoundBut
  <2>2. MoveMessagesToWakeUpQueue(d, n) = e
    BY <1>2 DEF MoveMessagesToWakeUpQueue
  <2>3. left \in Seq(Msg)
    BY <2>1, WithoutFacts
  <2>4. awake \in [Node -> BOOLEAN] /\ msg \in Msg \cup {NoMsg}
    BY <2>1
  <2> HIDE DEF awake, msg, left
  <2>5. /\ asleep \in Driver /\ asleep.obj = d.obj /\ asleep.queue = d.queue
        /\ asleep.event = d.event /\ asleep.current = d.current
        /\ asleep.telling = d.telling /\ asleep.parked = d.parked
    BY <2>1, <2>3, <2>4 DEF Driver
  <2> HIDE DEF asleep
  <2>6. Sound(asleep)
    BY <2>5, OtherFieldsOnly
  <2> DEFINE f == MoveControllerItems(asleep, n)
  <2>7. /\ f \in Driver /\ Owned(f, {})
        /\ f.current = asleep.current /\ f.telling = asleep.telling
        /\ ~f.event /\ f.queue # <<>> => ~asleep.event /\ asleep.queue # <<>>
        /\ Held(f) \subseteq Held(asleep)
    BY <2>1, <2>6, MoveItemsFacts
  <2>8. Held(asleep) = Held(d)
    BY <2>5 DEF Held
  <2> HIDE DEF f
  <2>9. Free(f) # {}
    BY <2>7, <2>8 DEF Free, Held
  <2>10. ~Running(f) => f.event \/ f.queue = <<>>
    <3>1. ~d.event /\ d.queue # <<>> => Running(d)
      BY DEF Sound, SoundBut, Woken
    <3> QED
      BY <2>5, <2>7, <3>1, DriverFacts DEF Running
  <2>11. \/ Lost(e)
         \/ Sound(e) /\ ~e.telling /\ (Running(e) <=> Running(f))
    BY <2>5, <2>7, <2>9, <2>10, PutCopyBackFacts DEF f
  <2>12. Sleeper # {} /\ (Running(f) <=> Running(d))
    BY <1>2, <2>5, <2>7 DEF Running
  <2> HIDE DEF e
  <2>13. Follows(d, e)
    <3>1. Sound(e) => e.telling \in BOOLEAN
      BY DriverFacts DEF Sound, SoundBut
    <3>2. d.telling \in BOOLEAN
      BY DriverFacts DEF Sound, SoundBut
    <3> QED
      BY <2>11, <2>12, <3>1, <3>2 DEF Follows
  <2> QED
    BY <2>2, <2>13
<1> QED
  BY <1>1, <1>2

LEMMA HandleErrorFacts ==
    ASSUME NEW d, Sound(d), ~d.telling, NEW error, NEW sleepCheck \in BOOLEAN, Free(d) # {}
    PROVE  Follows(d, HandleErrorResponse(d, error, sleepCheck))
<1> DEFINE n == d.msg.node
           awake == [d.awake EXCEPT ![n] = FALSE]
           asleep == [d EXCEPT !.awake = awake]
<1>1. d \in Driver /\ d.awake \in [Node -> BOOLEAN]
  BY DriverFacts DEF Sound, SoundBut
<1>2. awake \in [Node -> BOOLEAN]
  BY <1>1
<1>3. [d EXCEPT !.awake[n] = FALSE] = asleep
  BY <1>1 DEF Driver
<1> HIDE DEF awake
<1>4. /\ asleep \in Driver /\ asleep.obj = d.obj /\ asleep.queue = d.queue
      /\ asleep.event = d.event /\ asleep.current = d.current
      /\ asleep.telling = d.telling /\ asleep.parked = d.parked
  BY <1>1, <1>2 DEF Driver
<1> HIDE DEF asleep
<1>5. Follows(d, asleep)
  BY <1>4, OtherFieldsOnly
<1>6. Follows(d, d) /\ Follows(d, MoveMessagesToWakeUpQueue(d, n))
  BY SoundFacts, MoveMessagesFacts
<1> QED
  BY <1>3, <1>5, <1>6 DEF HandleErrorResponse
-----------------------------------------------------------------------------
(* The smaller functions.                                                   *)
LEMMA Edited ==
    ASSUME NEW d, Sound(d), Running(d), NEW new \in Cci,
           new.of = Current(d).of, new.state = Current(d).state,
           new.changed = Current(d).changed, new.done = Current(d).done
    PROVE  LET e == [d EXCEPT !.obj[d.current] = new]
           IN Sound(e) /\ Follows(d, e) /\ e.current = d.current /\ e.telling = d.telling
              /\ Current(e) = new
<1> DEFINE obj == [d.obj EXCEPT ![d.current] = new]
           e == [d EXCEPT !.obj[d.current] = new]
<1>1. /\ d \in Driver /\ Owned(d, {}) /\ Queued(d) /\ Woken(d)
      /\ d.obj \in [Item -> Cci \cup {Null}] /\ d.current \in Item
      /\ Current(d) \in Cci /\ d.current \in Held(d)
  BY SoundFacts, DriverFacts DEF Sound, SoundBut, Running, Current
<1>2. obj \in [Item -> Cci \cup {Null}]
      /\ \A i \in Item : obj[i] = IF i = d.current THEN new ELSE d.obj[i]
  BY <1>1
<1>3. e = [d EXCEPT !.obj = obj]
  BY <1>1 DEF Driver
<1> HIDE DEF obj, e
<1>4. /\ e \in Driver /\ e.obj = obj /\ e.queue = d.queue
      /\ e.event = d.event /\ e.current = d.current
      /\ e.telling = d.telling /\ e.parked = d.parked
  BY <1>1, <1>2, <1>3 DEF Driver
<1>5. Held(e) = Held(d)
  BY <1>1, <1>2, <1>4, NullIsNoItem DEF Held
<1>6. Owned(e, {}) /\ Queued(e)
  BY <1>1, <1>4, <1>5, ObjectsOnly
<1>7. Current(e) = new /\ Running(e)
  BY <1>1, <1>2, <1>4 DEF Current, Running
<1>8. Woken(e)
  BY <1>1, <1>4, <1>7 DEF Woken
<1>9. SameObjects(d, e)
  <2>1. ASSUME NEW i \in Item, e.obj[i] # Null
        PROVE  d.obj[i] # Null /\ e.obj[i].of = d.obj[i].of
    <3>1. i \in Held(d)
      BY <1>5, <2>1 DEF Held
    <3> QED
      BY <1>2, <1>4, <3>1 DEF Held, Current
  <2>2. ASSUME NEW i \in Item, d.obj[i] # Null PROVE e.obj[i] # Null
    BY <1>5, <2>2 DEF Held
  <2> QED
    BY <1>4, <2>1, <2>2 DEF SameObjects, Foremost, Running
<1> QED
  BY <1>4, <1>6, <1>7, <1>8, <1>9 DEF Sound, SoundBut, Follows, e

(* The node a command is about, and whether it is a controller that was added. *)
LEMMA NodeEdited ==
    ASSUME NEW d, Sound(d), Running(d), NEW n \in Node \cup {Null, Broadcast}
    PROVE  LET e == [d EXCEPT !.obj[d.current].node = n]
           IN Sound(e) /\ Follows(d, e) /\ e.current = d.current /\ e.telling = d.telling
              /\ Current(e).of = Current(d).of
<1> DEFINE new == [Current(d) EXCEPT !.node = n]
<1>1. d \in Driver /\ d.current \in Item /\ Current(d) \in Cci
  BY SoundFacts DEF Sound, SoundBut, Running, Current
<1>2. /\ new \in Cci /\ new.of = Current(d).of /\ new.state = Current(d).state
      /\ new.changed = Current(d).changed /\ new.done = Current(d).done
  BY <1>1 DEF Cci
<1>3. [d EXCEPT !.obj[d.current].node = n] = [d EXCEPT !.obj[d.current] = new]
  BY <1>1 DEF Current
<1> HIDE DEF new
<1> QED
  BY <1>2, <1>3, Edited

LEMMA AddedEdited ==
    ASSUME NEW d, Sound(d), Running(d), NEW b \in BOOLEAN
    PROVE  LET e == [d EXCEPT !.obj[d.current].added = b]
           IN Sound(e) /\ Follows(d, e) /\ e.current = d.current /\ e.telling = d.telling
<1> DEFINE new == [Current(d) EXCEPT !.added = b]
<1>1. d \in Driver /\ d.current \in Item /\ Current(d) \in Cci
  BY SoundFacts DEF Sound, SoundBut, Running, Current
<1>2. /\ new \in Cci /\ new.of = Current(d).of /\ new.state = Current(d).state
      /\ new.changed = Current(d).changed /\ new.done = Current(d).done
  BY <1>1 DEF Cci
<1>3. [d EXCEPT !.obj[d.current].added = b] = [d EXCEPT !.obj[d.current] = new]
  BY <1>1 DEF Current
<1> HIDE DEF new
<1> QED
  BY <1>2, <1>3, Edited

LEMMA BothEdited ==
    ASSUME NEW d, Sound(d), Running(d), NEW b \in BOOLEAN, NEW n \in Node \cup {Null, Broadcast}
    PROVE  Follows(d, [d EXCEPT !.obj[d.current].added = b, !.obj[d.current].node = n])
<1> DEFINE new == [Current(d) EXCEPT !.added = b, !.node = n]
<1>1. d \in Driver /\ d.current \in Item /\ Current(d) \in Cci
      /\ d.obj \in [Item -> Cci \cup {Null}]
  BY SoundFacts, DriverFacts DEF Sound, SoundBut, Running, Current
<1>2. /\ new \in Cci /\ new.of = Current(d).of /\ new.state = Current(d).state
      /\ new.changed = Current(d).changed /\ new.done = Current(d).done
  BY <1>1 DEF Cci
<1>3. [d EXCEPT !.obj[d.current].added = b, !.obj[d.current].node = n]
         = [d EXCEPT !.obj[d.current] = new]
  BY <1>1 DEF Current, Driver
<1> HIDE DEF new
<1> QED
  BY <1>2, <1>3, Edited

LEMMA CrashIsLost == ASSUME NEW d \in Driver PROVE Lost(Crash(d))
  BY DEF Lost, Crash, Driver

LEMMA MessageType ==
    ASSUME NEW f \in Funcs \cup {"GetVersion", "GetRoutingInfo"}, NEW op \in {"start", "stop"},
           NEW n \in Node \cup {Null, Broadcast}, NEW callback \in BOOLEAN, NEW reply \in BOOLEAN
    PROVE  Message(f, op, n, callback, reply) \in Msg
           /\ Message(f, op, n, callback, reply).node = n
  BY DEF Message, Msg

LEMMA FuncType ==
    ASSUME NEW k \in ControllerCommandKind
    PROVE  Func(k) \in Funcs
  BY DEF Func, Funcs, ControllerCommandKind, LearnKinds, CannotCancel, NodeKinds

(* A message for the controller is never for a node that sleeps. *)
LEMMA SendToController ==
    ASSUME NEW d, Sound(d), NEW m \in Msg, m.node = Broadcast
    PROVE  Follows(d, SendMsg(d, m)) /\ Sound(SendMsg(d, m))
<1>1. ~Asleep(d, m.node)
  BY CommandConstants DEF Asleep
<1> QED
  BY <1>1, SendMsgFacts

LEMMA RemoveCurrentMsgFacts ==
    ASSUME NEW d, Sound(d)
    PROVE  Follows(d, RemoveCurrentMsg(d)) /\ Sound(RemoveCurrentMsg(d))
           /\ RemoveCurrentMsg(d).current = d.current /\ RemoveCurrentMsg(d).telling = d.telling
<1> DEFINE e == RemoveCurrentMsg(d)
<1>1. /\ e \in Driver /\ e.obj = d.obj /\ e.queue = d.queue /\ e.event = d.event
      /\ e.current = d.current /\ e.telling = d.telling /\ e.parked = d.parked
  BY DEF RemoveCurrentMsg, Driver, Sound, SoundBut
<1> HIDE DEF e
<1> QED
  BY <1>1, OtherFieldsOnly DEF e

LEMMA AddNodeStopFacts ==
    ASSUME NEW d, Sound(d), NEW f \in Funcs
    PROVE  Follows(d, AddNodeStop(d, f)) /\ Sound(AddNodeStop(d, f))
<1>1. /\ Message(f, "stop", Broadcast, FALSE, TRUE) \in Msg
      /\ Message(f, "stop", Broadcast, FALSE, TRUE).node = Broadcast
  BY MessageType
<1>2. CASE Running(d)
  BY <1>1, <1>2, SendToController DEF AddNodeStop
<1>3. CASE ~Running(d)
  BY <1>3, SoundFacts DEF AddNodeStop
<1> QED
  BY <1>2, <1>3

LEMMA EndLearnModeFacts ==
    ASSUME NEW d, Sound(d)
    PROVE  Follows(d, EndLearnMode(d)) /\ Sound(EndLearnMode(d))
<1>1. "ReceiveConfiguration" \in Funcs
  BY DEF Funcs, ControllerCommandKind
<1>2. /\ Message("ReceiveConfiguration", "stop", Broadcast, FALSE, FALSE) \in Msg
      /\ Message("ReceiveConfiguration", "stop", Broadcast, FALSE, FALSE).node = Broadcast
  BY <1>1, MessageType
<1> QED
  BY <1>2, SendToController DEF EndLearnMode

LEMMA InitNodeFacts ==
    ASSUME NEW d, Sound(d), NEW n \in Node
    PROVE  Follows(d, InitNode(d, n)) /\ Sound(InitNode(d, n))
<1> DEFINE f == DeleteNode(d, n)
           e == InitNode(d, n)
<1>1. Sound(f) /\ Follows(d, f)
  BY DeleteNodesFacts DEF DeleteNode
<1>2. f \in Driver /\ f.nodes \in SUBSET Node
  BY <1>1, DriverFacts DEF Sound, SoundBut
<1>3. e = [f EXCEPT !.nodes = f.nodes \cup {n}]
  BY DEF InitNode
<1> HIDE DEF e, f
<1>4. /\ e \in Driver /\ e.obj = f.obj /\ e.queue = f.queue /\ e.event = f.event
      /\ e.current = f.current /\ e.telling = f.telling /\ e.parked = f.parked
  BY <1>2, <1>3 DEF Driver
<1>5. Sound(e) /\ Follows(f, e)
  BY <1>1, <1>4, OtherFieldsOnly
<1>6. Follows(d, e)
  BY <1>1, <1>5, FollowsOnce
<1> QED
  BY <1>5, <1>6 DEF e

LEMMA InitAllNodesFacts ==
    ASSUME NEW d, Sound(d)
    PROVE  Follows(d, InitAllNodes(d)) /\ Sound(InitAllNodes(d))
<1> DEFINE f == DeleteNodes(d, Node)
           m == Message("GetVersion", "start", Broadcast, FALSE, TRUE)
<1>1. Sound(f) /\ Follows(d, f)
  BY DeleteNodesFacts
<1>2. m \in Msg /\ m.node = Broadcast
  BY MessageType
<1> HIDE DEF f, m
<1>3. Follows(f, SendMsg(f, m)) /\ Sound(SendMsg(f, m))
  BY <1>1, <1>2, SendToController
<1>4. Follows(d, SendMsg(f, m))
  BY <1>1, <1>3, FollowsOnce
<1> QED
  BY <1>3, <1>4 DEF InitAllNodes, f, m

LEMMA AddedNodeFacts ==
    ASSUME NEW d, Sound(d)
    PROVE  Follows(d, AddedNode(d)) /\ Sound(AddedNode(d))
  BY InitNodeFacts, SoundFacts DEF AddedNode

LEMMA RemovedNodeFacts ==
    ASSUME NEW d, Sound(d), Running(d), NEW n \in Node \cup {Null}
    PROVE  Follows(d, RemovedNode(d, n)) /\ Sound(RemovedNode(d, n))
<1> DEFINE f == IF Current(d).node = Null THEN [d EXCEPT !.obj[d.current].node = n] ELSE d
<1>1. Sound(f) /\ Follows(d, f)
  BY NodeEdited, SoundFacts
<1>2. RemovedNode(d, n)
         = IF Current(f).node \in Node THEN DeleteNode(f, Current(f).node) ELSE f
  BY DEF RemovedNode
<1> HIDE DEF f
<1>3. ASSUME NEW x \in Node PROVE Sound(DeleteNode(f, x)) /\ Follows(f, DeleteNode(f, x))
  BY <1>1, DeleteNodesFacts DEF DeleteNode
<1>4. ASSUME NEW x \in Node PROVE Follows(d, DeleteNode(f, x))
  BY <1>1, <1>3, FollowsOnce
<1> QED
  BY <1>1, <1>2, <1>3, <1>4

(* DoControllerCommand of a command that was not begun. *)
LEMMA DoCommandFacts ==
    ASSUME NEW d, Sound(d), Running(d), Free(d) # {}
    PROVE  Follows(d, DoControllerCommand(d))
<1> DEFINE c == Current(d)
           started == UpdateControllerState(d, "Starting")
<1>1. d \in Driver /\ c \in Cci /\ d.current \in Item
  BY SoundFacts DEF Sound, SoundBut, Current
<1>2. "Starting" \in State /\ "Error" \in State
  BY DEF State
<1>3. /\ Sound(started) /\ started.current = d.current /\ started.telling = d.telling
      /\ Held(started) = Held(d)
  BY <1>2, UpdateFacts DEF Sound
<1>4. Follows(d, started)
  BY <1>2, SoundFacts, UpdateFollows
<1>5. Free(started) # {}
  BY <1>3 DEF Free, Held
<1>6. Follows(d, UpdateControllerState(started, "Error"))
  BY <1>2, <1>4, UpdateFollows
<1>7. ASSUME NEW m \in Msg PROVE Follows(d, SendMsg(started, m))
  <2>1. Follows(started, SendMsg(started, m))
    BY <1>3, <1>5, SendMsgFacts
  <2> QED
    BY <1>3, <1>4, <2>1, FollowsOnce
<1>8. Kind[c.of] \in ControllerCommandKind /\ c.node \in Node \cup {Null, Broadcast}
  BY <1>1, CommandConstants DEF Cci
<1>9. /\ Func(Kind[c.of]) \in Funcs
      /\ (Kind[c.of] # "HasNodeFailed") \in BOOLEAN
      /\ (IF Kind[c.of] \in NodeKinds THEN c.node ELSE Broadcast) \in Node \cup {Null, Broadcast}
  BY <1>8, FuncType
<1>10. Message(Func(Kind[c.of]), "start", IF Kind[c.of] \in NodeKinds THEN c.node ELSE Broadcast,
               Kind[c.of] # "HasNodeFailed", TRUE) \in Msg
  BY <1>9, MessageType
<1> HIDE DEF started
<1> QED
  BY <1>6, <1>7, <1>10 DEF DoControllerCommand, started
-----------------------------------------------------------------------------
(* The handlers, with the statuses of their functions.                      *)
LEMMA UpdateAll ==
    ASSUME NEW d, NEW e, Sound(d), Follows(d, e)
    PROVE  \A s \in State : Follows(d, UpdateControllerState(e, s))
  BY UpdateFollows

LEMMA AddStatus ==
    ASSUME NEW d, Sound(d), NEW f \in Funcs, NEW n \in Node \cup {Null},
           NEW status \in {"READY", "FOUND", "SLAVE", "CONTROLLER", "PROTOCOL_DONE", "DONE",
                           "FAILED"}
    PROVE  Follows(d, CommonAddNodeStatusRequestHandler(d, f, status, n))
<1> DEFINE e == CommonAddNodeStatusRequestHandler(d, f, status, n)
<1>1. Follows(d, d) /\ Lost(Crash(d))
  BY SoundFacts, CrashIsLost DEF Sound, SoundBut
<1>2. /\ \A s \in State : Follows(d, UpdateControllerState(d, s))
      /\ {"Waiting", "InProgress", "Completed", "Failed"} \subseteq State
  BY <1>1, UpdateAll DEF State
<1>3. CASE status = "READY"
  <2>1. CASE ~Running(d)
    BY <1>1, <1>3, <2>1 DEF CommonAddNodeStatusRequestHandler, Follows
  <2>2. CASE Running(d)
    <3> DEFINE g == [d EXCEPT !.obj[d.current].added = FALSE]
    <3>1. Follows(d, g)
      BY <2>2, AddedEdited
    <3>2. e = UpdateControllerState(g, "Waiting")
      BY <1>3, <2>2 DEF CommonAddNodeStatusRequestHandler
    <3> HIDE DEF g
    <3> QED
      BY <1>2, <3>1, <3>2, UpdateAll
  <2> QED
    BY <2>1, <2>2
<1>4. CASE status = "FOUND"
  BY <1>2, <1>4 DEF CommonAddNodeStatusRequestHandler
<1>5. CASE status = "SLAVE"
  <2>1. CASE ~Running(d)
    BY <1>1, <1>5, <2>1 DEF CommonAddNodeStatusRequestHandler, Follows
  <2>2. CASE Running(d)
    <3> DEFINE g == [d EXCEPT !.obj[d.current].added = FALSE, !.obj[d.current].node = n]
    <3>1. Follows(d, g)
      BY <2>2, BothEdited
    <3>2. e = g
      BY <1>5, <2>2 DEF CommonAddNodeStatusRequestHandler
    <3> HIDE DEF g
    <3> QED
      BY <3>1, <3>2
  <2> QED
    BY <2>1, <2>2
<1>6. CASE status = "CONTROLLER"
  <2>1. CASE ~Running(d)
    BY <1>1, <1>6, <2>1 DEF CommonAddNodeStatusRequestHandler
  <2>2. CASE Running(d)
    <3> DEFINE g == [d EXCEPT !.obj[d.current].added = TRUE, !.obj[d.current].node = n]
    <3>1. Follows(d, g)
      BY <2>2, BothEdited
    <3>2. e = g
      BY <1>6, <2>2 DEF CommonAddNodeStatusRequestHandler
    <3> HIDE DEF g
    <3> QED
      BY <3>1, <3>2
  <2> QED
    BY <2>1, <2>2
<1>7. CASE status = "PROTOCOL_DONE"
  BY <1>7, AddNodeStopFacts DEF CommonAddNodeStatusRequestHandler
<1>8. CASE status = "DONE"
  <2>1. CASE StateNow(d) = "Failed" \/ ~Running(d)
    BY <1>2, <1>8, <2>1 DEF CommonAddNodeStatusRequestHandler
  <2>2. CASE ~(StateNow(d) = "Failed" \/ ~Running(d))
    <3> DEFINE a == AddedNode(d)
               g == IF f # "AddDevice" /\ Current(d).added THEN InitAllNodes(a) ELSE a
    <3>1. e = UpdateControllerState(g, "Completed")
      BY <1>8, <2>2 DEF CommonAddNodeStatusRequestHandler
    <3>2. Follows(d, a) /\ Sound(a)
      BY AddedNodeFacts
    <3>3. Follows(d, InitAllNodes(a))
      BY <3>2, InitAllNodesFacts, FollowsOnce
    <3>4. Follows(d, g)
      BY <3>2, <3>3
    <3> HIDE DEF g
    <3> QED
      BY <1>2, <3>1, <3>4, UpdateAll
  <2> QED
    BY <2>1, <2>2
<1>9. CASE status = "FAILED"
  <2> DEFINE r == RemoveCurrentMsg(d)
             a == AddNodeStop(r, f)
  <2>1. Follows(d, r) /\ Sound(r)
    BY RemoveCurrentMsgFacts
  <2>2. Follows(r, a)
    BY <2>1, AddNodeStopFacts
  <2>3. Follows(d, a)
    BY <2>1, <2>2, FollowsOnce
  <2>4. e = UpdateControllerState(a, "Failed")
    BY <1>9 DEF CommonAddNodeStatusRequestHandler
  <2> HIDE DEF a
  <2> QED
    BY <1>2, <2>3, <2>4, UpdateAll
<1> QED
  BY <1>3, <1>4, <1>5, <1>6, <1>7, <1>8, <1>9

LEMMA RemoveStatus ==
    ASSUME NEW d, Sound(d), NEW n \in Node \cup {Null},
           NEW status \in {"READY", "FOUND", "SLAVE", "CONTROLLER", "PROTOCOL_DONE", "DONE",
                           "FAILED"}
    PROVE  Follows(d, HandleRemoveNodeFromNetworkRequest(d, status, n))
<1> DEFINE e == HandleRemoveNodeFromNetworkRequest(d, status, n)
<1>1. Follows(d, d)
  BY SoundFacts
<1>2. /\ \A s \in State : Follows(d, UpdateControllerState(d, s))
      /\ {"Waiting", "InProgress", "Completed", "Failed"} \subseteq State
  BY <1>1, UpdateAll DEF State
<1>3. CASE ~Running(d)
  BY <1>1, <1>3 DEF HandleRemoveNodeFromNetworkRequest
<1>4. CASE Running(d)
  <2>1. CASE status = "READY"
    <3> DEFINE g == [d EXCEPT !.obj[d.current].node = Null]
    <3>1. Follows(d, g)
      BY <1>4, NodeEdited
    <3>2. e = UpdateControllerState(g, "Waiting")
      BY <1>4, <2>1 DEF HandleRemoveNodeFromNetworkRequest
    <3> HIDE DEF g
    <3> QED
      BY <1>2, <3>1, <3>2, UpdateAll
  <2>2. CASE status = "FOUND"
    BY <1>2, <1>4, <2>2 DEF HandleRemoveNodeFromNetworkRequest
  <2>3. CASE status = "SLAVE"
    <3>1. Follows(d, [d EXCEPT !.obj[d.current].node = n])
      BY <1>4, NodeEdited
    <3> QED
      BY <1>2, <1>4, <2>3, <3>1 DEF HandleRemoveNodeFromNetworkRequest
  <2>4. CASE status = "CONTROLLER"
    <3>1. Follows(d, [d EXCEPT !.obj[d.current].node = n])
      BY <1>4, NodeEdited
    <3> QED
      BY <1>4, <2>4, <3>1 DEF HandleRemoveNodeFromNetworkRequest
  <2>5. CASE status = "PROTOCOL_DONE"
    BY <1>1, <1>4, <2>5 DEF HandleRemoveNodeFromNetworkRequest
  <2>6. CASE status = "DONE"
    <3> DEFINE g == UpdateControllerState(d, "Completed")
    <3>1. Sound(g) /\ g.current = d.current
      BY <1>2, UpdateFacts DEF Sound
    <3>2. Follows(d, g)
      BY <1>2
    <3> HIDE DEF g
    <3>3. Follows(g, RemovedNode(g, n))
      BY <1>4, <3>1, RemovedNodeFacts DEF Running
    <3>4. Follows(d, RemovedNode(g, n))
      BY <3>1, <3>2, <3>3, FollowsOnce
    <3>5. e = IF Current(d).done THEN d ELSE RemovedNode(g, n)
      BY <1>4, <2>6 DEF HandleRemoveNodeFromNetworkRequest, g
    <3> QED
      BY <1>1, <3>4, <3>5
  <2>7. CASE status = "FAILED"
    BY <1>2, <1>4, <2>7 DEF HandleRemoveNodeFromNetworkRequest
  <2> QED
    BY <2>1, <2>2, <2>3, <2>4, <2>5, <2>6, <2>7
<1> QED
  BY <1>3, <1>4

LEMMA LearnStatus ==
    ASSUME NEW d, Sound(d), NEW status \in {"STARTED", "DONE", "FAILED", "DELETED"}
    PROVE  Follows(d, HandleSetLearnModeRequest(d, status))
<1>1. Follows(d, d)
  BY SoundFacts
<1>2. /\ \A s \in State : Follows(d, UpdateControllerState(d, s))
      /\ {"Waiting", "Completed", "Failed"} \subseteq State
  BY <1>1, UpdateAll DEF State
<1> DEFINE l == EndLearnMode(d)
<1>3. Sound(l) /\ Follows(d, l)
  BY EndLearnModeFacts
<1>4. Follows(l, InitAllNodes(l))
  BY <1>3, InitAllNodesFacts
<1>5. Follows(d, InitAllNodes(l))
  BY <1>3, <1>4, FollowsOnce
<1> HIDE DEF l
<1>6. \A s \in State : /\ Follows(d, UpdateControllerState(l, s))
                       /\ Follows(d, UpdateControllerState(InitAllNodes(l), s))
  BY <1>3, <1>5, UpdateAll
<1> QED
  BY <1>1, <1>2, <1>6 DEF HandleSetLearnModeRequest, l

LEMMA RemoveFailedStatus ==
    ASSUME NEW d, Sound(d), NEW status \in {"OK", "REMOVED", "FAILED"}
    PROVE  Follows(d, HandleRemoveFailedNodeRequest(d, status))
<1> DEFINE g == IF Current(d).node \in Node THEN DeleteNode(d, Current(d).node) ELSE d
<1>1. Follows(d, d) /\ Lost(Crash(d))
  BY SoundFacts, CrashIsLost DEF Sound, SoundBut
<1>2. Follows(d, g)
  BY <1>1, DeleteNodesFacts DEF DeleteNode
<1> HIDE DEF g
<1>3. /\ \A s \in State : /\ Follows(d, UpdateControllerState(d, s))
                          /\ Follows(d, UpdateControllerState(g, s))
      /\ {"NodeOK", "Completed", "Failed"} \subseteq State
  BY <1>1, <1>2, UpdateAll DEF State
<1>4. CASE ~Running(d)
  BY <1>1, <1>4 DEF HandleRemoveFailedNodeRequest, Follows
<1>5. CASE Running(d)
  BY <1>3, <1>5 DEF HandleRemoveFailedNodeRequest, g
<1> QED
  BY <1>4, <1>5

LEMMA ReplaceFailedStatus ==
    ASSUME NEW d, Sound(d), NEW status \in {"OK", "STARTED", "DONE", "FAILED"}
    PROVE  Follows(d, HandleReplaceFailedNodeRequest(d, status))
<1> DEFINE g == IF Running(d) THEN AddedNode(d) ELSE d
<1>1. Follows(d, d)
  BY SoundFacts
<1>2. Follows(d, g)
  BY <1>1, AddedNodeFacts
<1> HIDE DEF g
<1>3. /\ \A s \in State : /\ Follows(d, UpdateControllerState(d, s))
                          /\ Follows(d, UpdateControllerState(g, s))
      /\ {"NodeOK", "Waiting", "Completed", "Failed"} \subseteq State
  BY <1>1, <1>2, UpdateAll DEF State
<1> QED
  BY <1>3 DEF HandleReplaceFailedNodeRequest, g

LEMMA NeighborStatus ==
    ASSUME NEW d, Sound(d), Free(d) # {}, NEW status \in {"STARTED", "DONE", "FAILED", "OTHER"}
    PROVE  Follows(d, HandleNodeNeighborUpdateRequest(d, status))
<1> DEFINE m == Message("GetRoutingInfo", "start", Current(d).node, FALSE, TRUE)
           g == IF Running(d) THEN SendMsg(d, m) ELSE d
<1>1. Follows(d, d)
  BY SoundFacts
<1>2. Follows(d, g)
  <2>1. ASSUME Running(d) PROVE Current(d).node \in Node \cup {Null, Broadcast}
    BY <2>1, SoundFacts DEF Current, Cci
  <2>2. ASSUME Running(d) PROVE m \in Msg
    BY <2>1, <2>2, MessageType
  <2> HIDE DEF m
  <2> QED
    BY <1>1, <2>2, SendMsgFacts
<1>3. /\ \A s \in State : /\ Follows(d, UpdateControllerState(d, s))
                          /\ Follows(d, UpdateControllerState(g, s))
      /\ {"InProgress", "Completed", "Failed", "Normal"} \subseteq State
  <2> HIDE DEF g
  <2> QED
    BY <1>1, <1>2, UpdateAll DEF State
<1>4. CASE status = "DONE"
  <2>1. HandleNodeNeighborUpdateRequest(d, status) = UpdateControllerState(g, "Completed")
    BY <1>4 DEF HandleNodeNeighborUpdateRequest
  <2> HIDE DEF g
  <2> QED
    BY <1>3, <2>1
<1> QED
  BY <1>3, <1>4 DEF HandleNodeNeighborUpdateRequest

LEMMA TransmittedStatus ==
    ASSUME NEW d, Sound(d), ~d.telling, Free(d) # {}, NEW status,
           NEW sleepCheck \in BOOLEAN
    PROVE  Follows(d, HandleTransmitted(d, status, sleepCheck))
<1> DEFINE g == HandleErrorResponse(d, status, sleepCheck)
<1>1. Follows(d, d) /\ Follows(d, g)
  BY SoundFacts, HandleErrorFacts
<1> HIDE DEF g
<1>2. /\ \A s \in State : /\ Follows(d, UpdateControllerState(d, s))
                          /\ Follows(d, UpdateControllerState(g, s))
      /\ {"Completed", "Failed"} \subseteq State
  BY <1>1, UpdateAll DEF State
<1> QED
  BY <1>1, <1>2 DEF HandleTransmitted, g

(* Rank gives the statuses of every function. *)
LEMMA HandledFacts ==
    ASSUME NEW d, Sound(d), ~d.telling, Free(d) # {}, NEW f \in Funcs,
           NEW status \in DOMAIN Rank(f), NEW n \in Node \cup {Null}
    PROVE  Follows(d, Handled(d, f, status, n))
<1>1. CASE f \in LearnKinds
  <2>1. status \in {"READY", "FOUND", "SLAVE", "CONTROLLER", "PROTOCOL_DONE", "DONE", "FAILED"}
    BY <1>1 DEF Rank, LearnKinds
  <2> QED
    BY <1>1, <2>1, AddStatus DEF Handled, LearnKinds
<1>2. CASE f = "RemoveDevice"
  <2>1. status \in {"READY", "FOUND", "SLAVE", "CONTROLLER", "PROTOCOL_DONE", "DONE", "FAILED"}
    BY <1>2 DEF Rank
  <2> QED
    BY <1>2, <2>1, RemoveStatus DEF Handled, LearnKinds
<1>3. CASE f = "ReceiveConfiguration"
  <2>1. status \in {"STARTED", "DONE", "FAILED", "DELETED"}
    BY <1>3 DEF Rank, LearnKinds
  <2> QED
    BY <1>3, <2>1, LearnStatus DEF Handled, LearnKinds
<1>4. CASE f = "RemoveFailedNode"
  <2>1. status \in {"OK", "REMOVED", "FAILED"}
    BY <1>4 DEF Rank, LearnKinds
  <2> QED
    BY <1>4, <2>1, RemoveFailedStatus DEF Handled, LearnKinds
<1>5. CASE f = "ReplaceFailedNode"
  <2>1. status \in {"OK", "STARTED", "DONE", "FAILED"}
    BY <1>5 DEF Rank, LearnKinds
  <2> QED
    BY <1>5, <2>1, ReplaceFailedStatus DEF Handled, LearnKinds
<1>6. CASE f = "RequestNodeNeighborUpdate"
  <2>1. status \in {"STARTED", "DONE", "FAILED", "OTHER"}
    BY <1>6 DEF Rank, LearnKinds
  <2> QED
    BY <1>6, <2>1, NeighborStatus DEF Handled, LearnKinds
<1>7. CASE f = "SendNodeInformation"
  BY <1>7, TransmittedStatus DEF Handled, LearnKinds
<1>8. CASE f \in {"AssignReturnRoute", "DeleteAllReturnRoutes"}
  BY <1>8, TransmittedStatus DEF Handled, LearnKinds
<1>9. CASE f = "RequestNetworkUpdate"
  <2>1. "Completed" \in State /\ "Failed" \in State
    BY DEF State
  <2>2. \A s \in State : Follows(d, UpdateControllerState(d, s))
    BY SoundFacts, UpdateAll
  <2> QED
    BY <1>9, <2>1, <2>2 DEF Handled, LearnKinds
<1>10. CASE f = "HasNodeFailed"
  <2>1. DOMAIN Rank(f) = {}
    BY <1>10 DEF Rank, LearnKinds
  <2> QED
    BY <2>1
<1> QED
  BY <1>1, <1>2, <1>3, <1>4, <1>5, <1>6, <1>7, <1>8, <1>9, <1>10
  DEF Funcs, ControllerCommandKind, LearnKinds, CannotCancel, NodeKinds

LEMMA AnsweredFacts ==
    ASSUME NEW d, NEW e, Sound(d), Follows(d, e), NEW f, NEW hit
    PROVE  Follows(d, HandleCallback(e, f, hit))
<1>1. CASE Lost(e)
  <2>1. Lost(RemoveCurrentMsg(e))
    BY <1>1 DEF Lost, RemoveCurrentMsg
  <2> QED
    BY <1>1, <2>1 DEF HandleCallback, Follows
<1>2. CASE ~Lost(e)
  <2>1. Sound(e)
    BY <1>2 DEF Follows
  <2>2. Follows(e, RemoveCurrentMsg(e))
    BY <2>1, RemoveCurrentMsgFacts
  <2>3. Follows(d, RemoveCurrentMsg(e))
    BY <2>1, <2>2, FollowsOnce
  <2> QED
    BY <2>3 DEF HandleCallback
<1> QED
  BY <1>1, <1>2
-----------------------------------------------------------------------------
(* What the other steps do to the driver.                                   *)
LEMMA NewItemType ==
    ASSUME NEW c \in Command
    PROVE  NewItem(c) \in Cci /\ NewItem(c).of = c /\ NewItem(c) # Null
<1>1. NewItem(c) \in Cci
  BY CommandConstants DEF NewItem, Cci, State, Final
<1> QED
  BY <1>1, NullIsNoItem DEF NewItem

LEMMA BegunFacts ==
    ASSUME NEW d, Sound(d), NEW i \in Item, d.obj[i] = Null, NEW c \in Command
    PROVE  LET e == Begun(d, i, c)
           IN /\ Sound(e) /\ e.current = d.current /\ e.telling = d.telling
              /\ \A j \in Item : e.obj[j] = IF j = i THEN NewItem(c) ELSE d.obj[j]
              /\ Foremost(d) => Foremost(e)
<1> DEFINE new == NewItem(c)
           obj == [d.obj EXCEPT ![i] = new]
           queue == Append(d.queue, i)
           e == Begun(d, i, c)
<1>1. /\ d \in Driver /\ Owned(d, {}) /\ Queued(d)
      /\ d.obj \in [Item -> Cci \cup {Null}] /\ d.queue \in Seq(Item)
  BY DriverFacts DEF Sound, SoundBut
<1>2. new \in Cci /\ new # Null
  BY NewItemType
<1>3. e = [d EXCEPT !.obj[i] = new, !.queue = queue, !.event = TRUE]
  BY DEF Begun
<1> HIDE DEF new
<1>4. obj \in [Item -> Cci \cup {Null}]
      /\ \A j \in Item : obj[j] = IF j = i THEN new ELSE d.obj[j]
  BY <1>1, <1>2
<1>5. /\ queue \in Seq(Item) /\ Range(queue) = Range(d.queue) \cup {i} /\ queue # <<>>
      /\ IsInjective(d.queue) /\ i \notin Range(d.queue) => IsInjective(queue)
      /\ d.queue # <<>> => Head(queue) = Head(d.queue)
  BY <1>1, AppendOne
<1> HIDE DEF e
<1>6. e = [d EXCEPT !.obj = obj, !.queue = queue, !.event = TRUE]
  BY <1>1, <1>3 DEF Driver
<1> HIDE DEF obj, queue
<1>7. /\ e \in Driver /\ e.obj = obj /\ e.queue = queue /\ e.event
      /\ e.current = d.current /\ e.telling = d.telling /\ e.parked = d.parked
  BY <1>1, <1>4, <1>5, <1>6 DEF Driver
<1> DEFINE U == UNION {Range(d.parked[m]) : m \in Node}
<1>8. Everywhere(e) = Range(queue) \cup U /\ Everywhere(d) = Range(d.queue) \cup U
      /\ Telling(e) = Telling(d)
  BY <1>7 DEF Everywhere, Telling
<1>9. Held(e) = Held(d) \cup {i} /\ i \notin Held(d)
  BY <1>2, <1>4, <1>7 DEF Held
<1>10. /\ Held(d) = Everywhere(d) \cup Telling(d)
       /\ Telling(d) \cap Everywhere(d) = {}
       /\ IsInjective(d.queue)
       /\ \A m \in Node : IsInjective(d.parked[m])
       /\ \A m \in Node : Range(d.queue) \cap Range(d.parked[m]) = {}
       /\ \A l, m \in Node : l # m => Range(d.parked[l]) \cap Range(d.parked[m]) = {}
       /\ d.telling => Running(d)
  BY <1>1 DEF Owned
<1>11. i \notin U /\ i \notin Range(d.queue) /\ i \notin Telling(d)
  BY <1>8, <1>9, <1>10
<1>12. \A m \in Node : i \notin Range(d.parked[m])
  BY <1>11
<1> HIDE DEF U
<1>13. /\ Held(e) = Everywhere(e) \cup Telling(e) \cup {}
       /\ Telling(e) \cap Everywhere(e) = {}
  BY <1>5, <1>8, <1>9, <1>10, <1>11
<1>14. \A m \in Node : Range(e.queue) \cap Range(e.parked[m]) = {}
  BY <1>5, <1>7, <1>10, <1>12
<1>15. Owned(e, {})
  BY <1>5, <1>7, <1>10, <1>11, <1>13, <1>14 DEF Owned, Running
<1>16. Queued(e) /\ Woken(e)
  BY <1>1, <1>5, <1>7 DEF Queued, Woken, Running
<1>17. Foremost(d) => Foremost(e)
  BY <1>5, <1>7 DEF Foremost, Running
<1> QED
  BY <1>4, <1>7, <1>15, <1>16, <1>17 DEF Sound, SoundBut, e, new

LEMMA RebeginFacts ==
    ASSUME NEW d, Sound(d), NEW n \in Node
    PROVE  Sound(Rebegin(d, n))
<1> DEFINE again == Range(d.parked[n])
           obj == [i \in Item |-> IF i \in again
                                  THEN [NewItem(d.obj[i].of) EXCEPT !.node = d.obj[i].node]
                                  ELSE d.obj[i]]
           queue == d.queue \o d.parked[n]
           parked == [d.parked EXCEPT ![n] = <<>>]
           awake == [d.awake EXCEPT ![n] = TRUE]
           event == (d.event \/ d.parked[n] # <<>>)
           e == Rebegin(d, n)
<1>1. /\ d \in Driver /\ Owned(d, {}) /\ Queued(d) /\ Woken(d)
      /\ d.obj \in [Item -> Cci \cup {Null}] /\ d.queue \in Seq(Item)
      /\ d.parked \in [Node -> Seq(Item)] /\ d.awake \in [Node -> BOOLEAN]
      /\ d.event \in BOOLEAN /\ d.parked[n] \in Seq(Item)
  BY DriverFacts DEF Sound, SoundBut
<1>2. e = [d EXCEPT !.awake[n] = TRUE, !.parked[n] = <<>>, !.queue = queue,
                    !.event = event, !.obj = obj]
  BY DEF Rebegin
<1> HIDE DEF obj
<1>3. e = [d EXCEPT !.awake = awake, !.parked = parked, !.queue = queue,
                    !.event = event, !.obj = obj]
  BY <1>1, <1>2 DEF Driver
<1>4. \A i \in again : i \in Item /\ d.obj[i] # Null /\ i \in Everywhere(d)
  <2>1. again \subseteq Item
    BY <1>1, RangeOfSeq
  <2>2. again \subseteq Held(d) /\ again \subseteq Everywhere(d)
    BY <1>1 DEF Owned, Everywhere
  <2> QED
    BY <2>1, <2>2 DEF Held
<1>5. obj \in [Item -> Cci \cup {Null}] /\ \A i \in Item : obj[i] = Null <=> d.obj[i] = Null
  <2>1. ASSUME NEW i \in Item
        PROVE  /\ obj[i] \in Cci \cup {Null}
               /\ obj[i] = Null <=> d.obj[i] = Null
    <3>1. CASE i \notin again
      BY <1>1, <3>1 DEF obj
    <3>2. CASE i \in again
      <4>1. d.obj[i] \in Cci /\ d.obj[i] # Null
        BY <1>1, <1>4, <3>2
      <4>2. obj[i] = [NewItem(d.obj[i].of) EXCEPT !.node = d.obj[i].node]
        BY <3>2 DEF obj
      <4>3. d.obj[i].of \in Command /\ d.obj[i].node \in Node \cup {Null, Broadcast}
        BY <4>1 DEF Cci
      <4>4. NewItem(d.obj[i].of) \in Cci
        BY <4>3, NewItemType
      <4>5. obj[i] \in Cci
        BY <4>2, <4>3, <4>4 DEF Cci
      <4> QED
        BY <4>1, <4>5, NullIsNoItem
    <3> QED
      BY <3>1, <3>2
  <2>2. obj = [i \in Item |-> obj[i]]
    BY DEF obj
  <2> QED
    BY <2>1, <2>2
<1>6. /\ queue \in Seq(Item) /\ Range(queue) = Range(d.queue) \cup again
      /\ IsInjective(d.queue) /\ IsInjective(d.parked[n]) /\ Range(d.queue) \cap again = {} =>
            IsInjective(queue)
      /\ d.parked[n] = <<>> => queue = d.queue
  <2>1. d.parked[n] = <<>> => queue = d.queue
    BY <1>1, ConcatEmptySeq
  <2>2. /\ queue \in Seq(Item) /\ Range(queue) = Range(d.queue) \cup Range(d.parked[n])
        /\ IsInjective(d.queue) /\ IsInjective(d.parked[n])
           /\ Range(d.queue) \cap Range(d.parked[n]) = {} => IsInjective(queue)
    BY <1>1, JoinTwo
  <2> QED
    BY <2>1, <2>2
<1>7. /\ parked \in [Node -> Seq(Item)] /\ awake \in [Node -> BOOLEAN] /\ event \in BOOLEAN
      /\ \A m \in Node : parked[m] = IF m = n THEN <<>> ELSE d.parked[m]
  BY <1>1
<1>8. \A i \in Item \ again : obj[i] = d.obj[i]
  BY DEF obj
<1> DEFINE P(m) == Range(d.parked[m])
           Q(m) == Range(parked[m])
<1>9. /\ Held(d) = Everywhere(d) \cup Telling(d)
      /\ Telling(d) \cap Everywhere(d) = {}
      /\ IsInjective(d.queue)
      /\ \A m \in Node : IsInjective(d.parked[m])
      /\ \A m \in Node : Range(d.queue) \cap P(m) = {}
      /\ \A l, m \in Node : l # m => P(l) \cap P(m) = {}
      /\ d.telling => Running(d)
  BY <1>1 DEF Owned
<1>10. IsInjective(<<>>) /\ Range(<<>>) = {}
  BY DEF IsInjective, Range
<1>11. \A m \in Node : /\ Q(m) = IF m = n THEN {} ELSE P(m)
                       /\ IsInjective(parked[m])
  BY <1>7, <1>9, <1>10
<1>12. again = P(n) /\ event = (d.event \/ d.parked[n] # <<>>)
  OBVIOUS
<1> HIDE DEF e, obj, queue, parked, awake, event, again
<1>13. /\ e \in Driver /\ e.obj = obj /\ e.queue = queue /\ e.event = event
       /\ e.current = d.current /\ e.telling = d.telling /\ e.parked = parked
  BY <1>1, <1>3, <1>5, <1>6, <1>7 DEF Driver
<1>14. Everywhere(e) = Range(queue) \cup UNION {Q(m) : m \in Node}
       /\ Everywhere(d) = Range(d.queue) \cup UNION {P(m) : m \in Node}
       /\ Telling(e) = Telling(d)
  BY <1>13 DEF Everywhere, Telling
<1>15. Held(e) = Held(d)
  BY <1>5, <1>13 DEF Held
<1> HIDE DEF P, Q
<1>16. UNION {P(m) : m \in Node} = again \cup UNION {Q(m) : m \in Node}
  <2>1. ASSUME NEW x \in UNION {P(m) : m \in Node}
        PROVE  x \in again \cup UNION {Q(m) : m \in Node}
    <3>1. PICK m \in Node : x \in P(m)
      BY <2>1
    <3>2. x \in Q(m) \/ x \in again
      BY <1>11, <1>12, <3>1
    <3> QED
      BY <3>2
  <2>2. ASSUME NEW x \in UNION {Q(m) : m \in Node}
        PROVE  x \in UNION {P(m) : m \in Node}
    <3>1. PICK m \in Node : x \in Q(m)
      BY <2>2
    <3>2. x \in P(m)
      BY <1>11, <3>1
    <3> QED
      BY <3>2
  <2>3. again \subseteq UNION {P(m) : m \in Node}
    BY <1>12
  <2> QED
    BY <2>1, <2>2, <2>3
<1>17. Everywhere(e) = Everywhere(d)
  BY <1>6, <1>14, <1>16
<1>18. \A m \in Node : Range(queue) \cap Q(m) = {}
  BY <1>6, <1>9, <1>11, <1>12
<1>19. \A l, m \in Node : l # m => Q(l) \cap Q(m) = {}
  BY <1>9, <1>11
<1>20. Held(e) = Everywhere(e) \cup Telling(e) \cup {} /\ Telling(e) \cap Everywhere(e) = {}
  BY <1>9, <1>14, <1>15, <1>17
<1>21. IsInjective(queue)
  BY <1>6, <1>9, <1>12
<1>22. Owned(e, {})
  BY <1>9, <1>11, <1>13, <1>18, <1>19, <1>20, <1>21 DEF Owned, Running, Q
<1>23. Queued(e)
  BY <1>1, <1>6, <1>13 DEF Queued, Running
<1>24. Woken(e)
  <2> SUFFICES ASSUME ~e.event, e.queue # <<>>
               PROVE  /\ Running(e) /\ ~e.telling /\ e.current = Head(e.queue)
                      /\ ~Current(e).done /\ (Current(e).state # "Normal" \/ Current(e).changed)
    BY DEF Woken
  <2>1. ~d.event /\ queue = d.queue
    BY <1>6, <1>12, <1>13
  <2>2. /\ Running(d) /\ ~d.telling /\ d.current = Head(d.queue)
        /\ ~Current(d).done /\ (Current(d).state # "Normal" \/ Current(d).changed)
    BY <1>1, <1>13, <2>1 DEF Woken
  <2>3. d.current \in Item /\ d.current \in Range(d.queue)
    BY <1>1, <2>2, SoundFacts DEF Queued
  <2>4. d.current \notin again
    BY <1>9, <1>12, <2>3
  <2> QED
    BY <1>8, <1>13, <2>1, <2>2, <2>3, <2>4 DEF Current, Running
<1> QED
  BY <1>13, <1>22, <1>23, <1>24 DEF Sound, SoundBut, e

LEMMA StoppedFacts ==
    ASSUME NEW d, Sound(d), Running(d)
    PROVE  Follows(d, Stopped(d))
<1> DEFINE k == Kind[Current(d).of]
           f == NodeForgotten(d)
<1>1. Current(d) \in Cci
  BY SoundFacts DEF Current
<1>2. k \in ControllerCommandKind
  BY <1>1, CommandConstants DEF Cci
<1>3. Sound(f) /\ Follows(d, f)
  BY NodeEdited DEF NodeForgotten
<1>4. Follows(f, AddNodeStop(f, Func(k)))
  BY <1>2, <1>3, FuncType, AddNodeStopFacts
<1>5. Follows(d, AddNodeStop(f, Func(k)))
  BY <1>3, <1>4, FollowsOnce
<1>6. ASSUME k \in {"CreateNewPrimary", "TransferPrimaryRole"}
      PROVE  Follows(d, SendMsg(d, Message(k, "stop", Broadcast, TRUE, TRUE)))
  <2>1. k \in Funcs
    BY <1>2, <1>6 DEF Funcs
  <2>2. /\ Message(k, "stop", Broadcast, TRUE, TRUE) \in Msg
        /\ Message(k, "stop", Broadcast, TRUE, TRUE).node = Broadcast
    BY <2>1, MessageType
  <2> QED
    BY <2>2, SendToController
<1>7. Follows(d, d) /\ Follows(d, EndLearnMode(d))
  BY SoundFacts, EndLearnModeFacts
<1> QED
  BY <1>5, <1>6, <1>7 DEF Stopped

(* The front of the queue becomes the command in progress. *)
LEMMA TakenFacts ==
    ASSUME Sound(drv), ~drv.telling, drv.event, drv.queue # <<>>
    PROVE  /\ Sound(Taken) /\ Running(Taken) /\ Taken.current = Head(drv.queue)
           /\ Taken.current \in Item /\ Current(Taken) \in Cci
           /\ Taken.obj = drv.obj /\ Taken.queue = drv.queue /\ Taken.event
           /\ ~Taken.telling /\ Taken.parked = drv.parked
           /\ Taken = [drv EXCEPT !.current = Taken.current]
<1> DEFINE i == Head(drv.queue)
           d == Taken
<1>1. /\ drv \in Driver /\ Owned(drv, {}) /\ drv.queue \in Seq(Item)
      /\ drv.obj \in [Item -> Cci \cup {Null}]
  BY DriverFacts DEF Sound, SoundBut
<1>2. i \in Item /\ i \in Range(drv.queue) /\ i # Null
  BY <1>1, TakeFirst, CommandConstants
<1>3. /\ d \in Driver /\ d.obj = drv.obj /\ d.queue = drv.queue /\ d.event
      /\ d.current = i /\ ~d.telling /\ d.parked = drv.parked
      /\ d = [drv EXCEPT !.current = i]
  BY <1>1, <1>2 DEF Taken, Driver
<1> HIDE DEF i, d
<1>4. Owned(d, {})
  <2>1. /\ Held(d) = Held(drv) /\ Everywhere(d) = Everywhere(drv)
        /\ Telling(d) = {} /\ Telling(drv) = {}
    BY <1>3 DEF Held, Everywhere, Telling
  <2> QED
    BY <1>1, <1>3, <2>1 DEF Owned
<1>5. Queued(d) /\ Woken(d) /\ Running(d)
  BY <1>2, <1>3 DEF Queued, Woken, Running
<1>6. Sound(d)
  BY <1>3, <1>4, <1>5 DEF Sound, SoundBut
<1>7. Current(d) \in Cci
  BY <1>5, <1>6, SoundFacts DEF Current
<1> QED
  BY <1>2, <1>3, <1>5, <1>6, <1>7 DEF i, d

LEMMA ReportProgressFacts ==
    ASSUME Sound(drv), ~drv.telling, drv.event, drv.queue # <<>>,
           Current(Taken).state # "Normal"
    PROVE  LET e == [Taken EXCEPT !.obj[Taken.current].changed = FALSE]
               d == Taken
           IN /\ Sound(e) /\ e.current = d.current /\ ~e.telling /\ e.queue = drv.queue
              /\ Held(e) = Held(drv)
              /\ \A i \in Held(e) : e.obj[i].of = drv.obj[i].of
<1> DEFINE d == Taken
           c == Current(d)
           new == [c EXCEPT !.changed = FALSE]
           obj == [d.obj EXCEPT ![d.current] = new]
           e == [Taken EXCEPT !.obj[Taken.current].changed = FALSE]
<1>1. /\ Sound(d) /\ Running(d) /\ d.current \in Item /\ c \in Cci /\ d.event
      /\ d.current = Head(d.queue) /\ ~d.telling /\ d.obj = drv.obj /\ d.queue = drv.queue
  BY TakenFacts
<1>2. /\ d \in Driver /\ Owned(d, {}) /\ Queued(d) /\ d.current \in Held(d)
      /\ d.obj \in [Item -> Cci \cup {Null}]
  BY <1>1, SoundFacts, DriverFacts DEF Sound, SoundBut
<1>3. new \in Cci /\ new.of = c.of
  BY <1>1 DEF Cci
<1> HIDE DEF d
<1>4. [d EXCEPT !.obj[d.current].changed = FALSE] = [d EXCEPT !.obj = obj]
  BY <1>1, <1>2 DEF Current, Driver
<1> HIDE DEF new
<1>5. obj \in [Item -> Cci \cup {Null}]
      /\ \A i \in Item : obj[i] = IF i = d.current THEN new ELSE d.obj[i]
  BY <1>2, <1>3
<1>6. e = [d EXCEPT !.obj = obj]
  BY <1>4 DEF d
<1> HIDE DEF obj, e
<1>7. /\ e \in Driver /\ e.obj = obj /\ e.queue = d.queue /\ e.event
      /\ e.current = d.current /\ e.telling = d.telling /\ e.parked = d.parked
  BY <1>1, <1>2, <1>5, <1>6 DEF Driver
<1>8. Held(e) = Held(d) /\ Held(d) = Held(drv)
  BY <1>1, <1>2, <1>3, <1>5, <1>7, NullIsNoItem DEF Held
<1>9. Owned(e, {}) /\ Queued(e)
  BY <1>2, <1>7, <1>8, ObjectsOnly
<1>10. Woken(e)
  BY <1>7 DEF Woken
<1>11. \A i \in Held(e) : e.obj[i].of = drv.obj[i].of
  BY <1>1, <1>3, <1>5, <1>7 DEF Held, Current
<1> QED
  BY <1>1, <1>7, <1>8, <1>9, <1>10, <1>11 DEF Sound, SoundBut, d, e

LEMMA NothingToDoFacts ==
    ASSUME Sound(drv), ~drv.telling, drv.event, drv.queue # <<>>,
           ~Over(Current(Taken)), Current(Taken).state # "Normal"
    PROVE  LET e == [Taken EXCEPT !.event = FALSE]
               d == Taken
           IN /\ Sound(e) /\ e.current = d.current /\ ~e.telling /\ e.queue = drv.queue
              /\ e.obj = drv.obj
<1> DEFINE d == Taken
           e == [d EXCEPT !.event = FALSE]
<1>1. /\ Sound(d) /\ Running(d) /\ d.current \in Item
      /\ d.current = Head(d.queue) /\ ~d.telling /\ d.obj = drv.obj /\ d.queue = drv.queue
      /\ ~Current(d).done /\ Current(d).state # "Normal"
  BY TakenFacts DEF Over
<1>2. d \in Driver /\ Owned(d, {}) /\ Queued(d)
  BY <1>1 DEF Sound, SoundBut
<1> HIDE DEF d
<1>3. /\ e \in Driver /\ e.obj = d.obj /\ e.queue = d.queue
      /\ e.current = d.current /\ e.telling = d.telling /\ e.parked = d.parked
  BY <1>2 DEF Driver
<1> HIDE DEF e
<1>4. Owned(e, {}) /\ Queued(e)
  <2>1. Held(e) = Held(d)
    BY <1>3 DEF Held
  <2> QED
    BY <1>2, <1>3, <2>1, ObjectsOnly
<1>5. Woken(e)
  BY <1>1, <1>3 DEF Woken, Running, Current
<1> QED
  BY <1>1, <1>3, <1>4, <1>5 DEF Sound, SoundBut, d, e

LEMMA ReportEndFacts ==
    ASSUME Sound(drv), ~drv.telling, drv.event, drv.queue # <<>>
    PROVE  LET e == [Taken EXCEPT !.queue = Tail(@),
                                  !.event = EventAfter(drv, Tail(drv.queue)),
                                  !.telling = TRUE]
               d == Taken
           IN Sound(e) /\ e.current = d.current /\ e.telling /\ e.obj = drv.obj
<1> DEFINE d == Taken
           event == EventAfter(drv, Tail(drv.queue))
           e == [d EXCEPT !.queue = Tail(@), !.event = event, !.telling = TRUE]
           i == Head(drv.queue)
           t == Tail(drv.queue)
           U == UNION {Range(d.parked[m]) : m \in Node}
<1>1. /\ Sound(d) /\ Running(d) /\ d.current = i /\ d.obj = drv.obj /\ d.queue = drv.queue
      /\ ~d.telling
  BY TakenFacts
<1>2. d \in Driver /\ Owned(d, {}) /\ drv.queue \in Seq(Item)
  BY <1>1, DriverFacts DEF Sound, SoundBut
<1>3. /\ t \in Seq(Item) /\ i \in Item /\ Range(drv.queue) = Range(t) \cup {i}
      /\ IsInjective(drv.queue) => IsInjective(t) /\ i \notin Range(t)
  BY <1>2, TakeFirst
<1>4. event = (t # <<>>) /\ event \in BOOLEAN
  BY DEF EventAfter
<1>5. e = [d EXCEPT !.queue = t, !.event = event, !.telling = TRUE]
  BY <1>1
<1> HIDE DEF d, event, e, i, t
<1>6. /\ e \in Driver /\ e.obj = d.obj /\ e.queue = t /\ e.event = event
      /\ e.current = d.current /\ e.telling /\ e.parked = d.parked
  BY <1>2, <1>3, <1>4, <1>5 DEF Driver
<1>7. /\ Everywhere(e) = Range(t) \cup U /\ Everywhere(d) = Range(drv.queue) \cup U
      /\ Telling(e) = {i} /\ Telling(d) = {} /\ Held(e) = Held(d)
  BY <1>1, <1>6 DEF Everywhere, Telling, Held
<1>8. /\ Held(d) = Everywhere(d) \cup Telling(d)
      /\ IsInjective(drv.queue)
      /\ \A m \in Node : IsInjective(d.parked[m])
      /\ \A m \in Node : Range(drv.queue) \cap Range(d.parked[m]) = {}
      /\ \A l, m \in Node : l # m => Range(d.parked[l]) \cap Range(d.parked[m]) = {}
  BY <1>1, <1>2 DEF Owned
<1>9. Range(drv.queue) \cap U = {}
  BY <1>8
<1> HIDE DEF U
<1>10. /\ Held(e) = Everywhere(e) \cup Telling(e) \cup {}
       /\ Telling(e) \cap Everywhere(e) = {}
  BY <1>3, <1>7, <1>8, <1>9
<1>11. Owned(e, {})
  BY <1>1, <1>3, <1>6, <1>8, <1>10 DEF Owned, Running
<1>12. Queued(e) /\ Woken(e)
  BY <1>4, <1>6 DEF Queued, Woken
<1> QED
  BY <1>1, <1>6, <1>11, <1>12 DEF Sound, SoundBut, d, e, event

LEMMA DeleteCommandFacts ==
    ASSUME NEW d, Sound(d), d.telling
    PROVE  LET e == [d EXCEPT !.obj[d.current] = Null, !.current = Null, !.telling = FALSE]
           IN /\ Sound(e) /\ ~Running(e) /\ ~e.telling
              /\ Held(e) = Held(d) \ {d.current}
              /\ \A i \in Held(e) : e.obj[i] = d.obj[i]
<1> DEFINE obj == [d.obj EXCEPT ![d.current] = Null]
           e == [d EXCEPT !.obj[d.current] = Null, !.current = Null, !.telling = FALSE]
<1>1. /\ d \in Driver /\ Owned(d, {}) /\ Woken(d)
      /\ d.obj \in [Item -> Cci \cup {Null}] /\ d.current \in Item
  BY SoundFacts, DriverFacts DEF Sound, SoundBut, Owned
<1>2. obj \in [Item -> Cci \cup {Null}]
      /\ \A i \in Item : obj[i] = IF i = d.current THEN Null ELSE d.obj[i]
  BY <1>1
<1>3. e = [d EXCEPT !.obj = obj, !.current = Null, !.telling = FALSE]
  BY <1>1 DEF Driver
<1> HIDE DEF obj, e
<1>4. /\ e \in Driver /\ e.obj = obj /\ e.queue = d.queue /\ e.event = d.event
      /\ e.current = Null /\ ~e.telling /\ e.parked = d.parked
  BY <1>1, <1>2, <1>3 DEF Driver
<1>5. Held(e) = Held(d) \ {d.current} /\ \A i \in Held(e) : e.obj[i] = d.obj[i]
  BY <1>2, <1>4 DEF Held
<1>6. Everywhere(e) = Everywhere(d) /\ Telling(e) = {} /\ Telling(d) = {d.current}
  BY <1>4 DEF Everywhere, Telling
<1>7. Owned(e, {})
  BY <1>1, <1>4, <1>5, <1>6 DEF Owned
<1>8. Queued(e) /\ Woken(e) /\ ~Running(e)
  BY <1>1, <1>4 DEF Queued, Woken, Running
<1> QED
  BY <1>4, <1>5, <1>7, <1>8 DEF Sound, SoundBut, e
-----------------------------------------------------------------------------
(* The invariant, and that every step keeps it.                             *)
Counted ==
    /\ chip \in [Funcs -> 0..6]
    /\ begun \subseteq Command
    /\ told \in [Command -> Told]
    /\ cancel \in [Cancellers -> {"idle", "stop", "update", "done"}]
    /\ frames \in 0..MaxFrames /\ sleeps \in 0..MaxSleeps
    /\ undefined \in BOOLEAN

CommandInv == Sound(drv) /\ Counted

LEMMA SoundOfNext == Sound(drv)' <=> Sound(drv')
  BY DEF Sound, SoundBut, Owned, Queued, Woken, Held, Everywhere, Telling, Running, Current

LEMMA BecomesSound ==
    ASSUME NEW d, Sound(drv), Sound(d) \/ Lost(d), Becomes(d)
    PROVE  Sound(drv)' /\ undefined' \in BOOLEAN
<1>1. Sound(d) => ~Crashed(d)
  BY DriverFacts DEF Sound, SoundBut
<1>2. Lost(d) => Crashed(d)
  BY DEF Lost, Crashed
<1>3. Sound(drv')
  BY <1>1, <1>2 DEF Becomes
<1>4. undefined' \in BOOLEAN
  BY DEF Becomes, Crashed
<1> QED
  BY <1>3, <1>4, SoundOfNext

LEMMA BecomesFollowing ==
    ASSUME NEW d, Sound(drv), Follows(drv, d), Becomes(d)
    PROVE  Sound(drv)' /\ undefined' \in BOOLEAN /\ Follows(drv, drv')
<1>1. Sound(drv)' /\ undefined' \in BOOLEAN
  BY BecomesSound DEF Follows
<1>2. Lost(d) => drv' = drv
  BY DEF Lost, Crashed, Becomes
<1>3. Sound(d) => drv' = d
  <2>1. Sound(d) => ~Crashed(d)
    BY DriverFacts DEF Sound, SoundBut
  <2> QED
    BY <2>1 DEF Becomes
<1>4. Follows(drv, drv)
  BY SoundFacts
<1>5. Follows(drv, drv')
  BY <1>2, <1>3, <1>4 DEF Follows
<1> QED
  BY <1>1, <1>5

LEMMA InitInv == Init => CommandInv
<1> SUFFICES ASSUME Init PROVE CommandInv
  OBVIOUS
<1>1. drv \in Driver
  BY CommandConstants DEF Init, Driver
<1>2. /\ drv.queue = <<>> /\ drv.current = Null /\ ~drv.telling
      /\ drv.obj = [i \in Item |-> Null] /\ drv.parked = [n \in Node |-> <<>>]
  BY DEF Init
<1>3. IsInjective(<<>>) /\ Range(<<>>) = {}
  BY DEF IsInjective, Range
<1>4. \A n \in Node : IsInjective(drv.parked[n]) /\ Range(drv.parked[n]) = {}
  BY <1>2, <1>3
<1>5. Held(drv) = {} /\ Telling(drv) = {} /\ Everywhere(drv) = {}
  BY <1>2, <1>3, <1>4 DEF Held, Telling, Everywhere
<1>6. Owned(drv, {})
  BY <1>2, <1>3, <1>4, <1>5 DEF Owned
<1>7. Queued(drv) /\ Woken(drv)
  BY <1>2 DEF Queued, Woken, Running
<1>8. Counted
  <2>1. chip \in [Funcs -> 0..6]
    BY DEF Init
  <2>2. told \in [Command -> Told]
    BY DEF Init, Told
  <2>3. cancel \in [Cancellers -> {"idle", "stop", "update", "done"}]
    BY DEF Init
  <2>4. frames \in 0..MaxFrames /\ sleeps \in 0..MaxSleeps
    BY CommandConstants DEF Init
  <2> QED
    BY <2>1, <2>2, <2>3, <2>4 DEF Init, Counted
<1> QED
  BY <1>1, <1>6, <1>7, <1>8 DEF CommandInv, Sound, SoundBut

(* Beginning a command. *)
LEMMA BeginKeeps ==
    ASSUME CommandInv, NEW c \in Command, BeginControllerCommand(c)
    PROVE  CommandInv'
<1> DEFINE e == Begun(drv, NewAddress(drv), c)
<1>1. Sound(drv) /\ Free(drv) # {} /\ drv \in Driver
  BY DEF CommandInv, BeginControllerCommand, RoomForCopy, Sound, SoundBut
<1>2. NewAddress(drv) \in Item /\ drv.obj[NewAddress(drv)] = Null
  BY <1>1, FreeAddress
<1>3. Sound(e)
  BY <1>1, <1>2, BegunFacts
<1>4. Becomes(e)
  BY DEF BeginControllerCommand
<1> HIDE DEF e
<1>5. Sound(drv)' /\ undefined' \in BOOLEAN
  BY <1>1, <1>3, <1>4, BecomesSound
<1>6. Counted'
  BY <1>5 DEF CommandInv, Counted, BeginControllerCommand
<1> QED
  BY <1>5, <1>6 DEF CommandInv

(* WriteNextMsg. *)
LEMMA WriteKeeps ==
    ASSUME CommandInv, WriteNextMsg
    PROVE  CommandInv'
<1>1. Sound(drv) /\ drv \in Driver
  BY DEF CommandInv, Sound, SoundBut
<1> DEFINE same == UNCHANGED <<chip, begun, cancel, frames, sleeps>>
           quiet == same /\ UNCHANGED told
<1>2. ASSUME NEW d, Sound(d) \/ Lost(d), Becomes(d), same, told' \in [Command -> Told]
      PROVE  CommandInv'
  <2>1. Sound(drv)' /\ undefined' \in BOOLEAN
    BY <1>1, <1>2, BecomesSound
  <2>2. Counted'
    BY <1>2, <2>1 DEF CommandInv, Counted
  <2> QED
    BY <2>1, <2>2 DEF CommandInv
<1>3. told \in [Command -> Told]
  BY DEF CommandInv, Counted
<1>4. ASSUME NEW i \in Cci, told' = [told EXCEPT ![i.of] = Outcome(i)]
      PROVE  told' \in [Command -> Told]
  <2>1. Outcome(i) \in Told
    BY DEF Outcome, Told, Ending
  <2> QED
    BY <1>3, <1>4, <2>1
<1>5. CASE WriteCommandMsg
  <2> DEFINE d == [drv EXCEPT !.msg = Head(drv.sendQueue), !.sendQueue = Tail(@)]
  <2>1. drv.sendQueue \in Seq(Msg) /\ drv.sendQueue # <<>>
    BY <1>1, <1>5, DriverFacts DEF WriteCommandMsg
  <2>2. Head(drv.sendQueue) \in Msg /\ Tail(drv.sendQueue) \in Seq(Msg)
    BY <2>1, TakeFirst
  <2>3. /\ d \in Driver /\ d.obj = drv.obj /\ d.queue = drv.queue /\ d.event = drv.event
        /\ d.current = drv.current /\ d.telling = drv.telling /\ d.parked = drv.parked
    BY <1>1, <2>2 DEF Driver
  <2>4. Becomes(d) /\ quiet
    BY <1>5 DEF WriteCommandMsg
  <2> HIDE DEF d
  <2>5. Sound(d)
    BY <1>1, <2>3, OtherFieldsOnly
  <2> QED
    BY <1>2, <1>3, <2>4, <2>5
<1>6. CASE NothingQueued
  <2>1. Becomes(Crash(drv)) /\ quiet
    BY <1>6 DEF NothingQueued
  <2>2. Lost(Crash(drv))
    BY <1>1, CrashIsLost
  <2> QED
    BY <1>2, <1>3, <2>1, <2>2
<1>7. ASSUME ControllerTurn, drv.queue # <<>>
      PROVE  /\ drv.event /\ ~drv.telling
             /\ Sound(Taken) /\ Running(Taken) /\ Current(Taken) \in Cci /\ Held(Taken) = Held(drv)
  BY <1>1, <1>7, TakenFacts DEF ControllerTurn, Idle, DriverThread, Held
<1>8. CASE StartCommand
  <2> DEFINE d == DoControllerCommand(Taken)
  <2>1. Sound(Taken) /\ Running(Taken) /\ Free(Taken) # {}
    BY <1>7, <1>8 DEF StartCommand, RoomForCopy, Free, Held
  <2>2. Sound(d) \/ Lost(d)
    BY <2>1, DoCommandFacts DEF Follows
  <2>3. Becomes(d) /\ quiet
    BY <1>8 DEF StartCommand
  <2> HIDE DEF d
  <2> QED
    BY <1>2, <1>3, <2>2, <2>3
<1>9. CASE ReportProgress
  <2> DEFINE d == [Taken EXCEPT !.obj[Taken.current].changed = FALSE]
  <2>1. Sound(d)
    BY <1>1, <1>7, <1>9, ReportProgressFacts DEF ReportProgress
  <2>2. Becomes(d) /\ same /\ Report(Taken)
    BY <1>9 DEF ReportProgress
  <2>3. told' \in [Command -> Told]
    BY <1>4, <1>7, <1>9, <2>2 DEF ReportProgress, Report
  <2> HIDE DEF d
  <2> QED
    BY <1>2, <2>1, <2>2, <2>3
<1>10. CASE NothingToDo
  <2> DEFINE d == [Taken EXCEPT !.event = FALSE]
  <2>1. Sound(d)
    BY <1>1, <1>7, <1>10, NothingToDoFacts DEF NothingToDo
  <2>2. Becomes(d) /\ quiet
    BY <1>10 DEF NothingToDo
  <2> HIDE DEF d
  <2> QED
    BY <1>2, <1>3, <2>1, <2>2
<1>11. CASE ReportEnd
  <2> DEFINE d == [Taken EXCEPT !.queue = Tail(@),
                                !.event = EventAfter(drv, Tail(drv.queue)),
                                !.telling = TRUE]
  <2>1. Sound(d)
    BY <1>1, <1>7, <1>11, ReportEndFacts DEF ReportEnd
  <2>2. Becomes(d) /\ same /\ Report(Taken)
    BY <1>11 DEF ReportEnd
  <2>3. told' \in [Command -> Told]
    BY <1>4, <1>7, <1>11, <2>2 DEF ReportEnd, Report
  <2> HIDE DEF d
  <2> QED
    BY <1>2, <2>1, <2>2, <2>3
<1>12. CASE DeleteCommand
  <2> DEFINE d == [drv EXCEPT !.obj[drv.current] = Null, !.current = Null, !.telling = FALSE]
  <2>1. Sound(d)
    BY <1>1, <1>12, DeleteCommandFacts DEF DeleteCommand
  <2>2. Becomes(d) /\ quiet
    BY <1>12 DEF DeleteCommand
  <2> HIDE DEF d
  <2> QED
    BY <1>2, <1>3, <2>1, <2>2
<1> QED
  BY <1>5, <1>6, <1>8, <1>9, <1>10, <1>11, <1>12 DEF WriteNextMsg

(* A message that is given up or acknowledged, and the application's cancelling. *)
LEMMA GivenUpFacts ==
    ASSUME NEW d, Sound(d)
    PROVE  Follows(d, GivenUp(d))
<1> DEFINE e == UpdateControllerState(d, "Error")
<1>1. Sound(e)
  BY UpdateFacts DEF Sound, State
<1>2. Follows(d, e)
  BY SoundFacts, UpdateFollows DEF State
<1>3. Follows(e, RemoveCurrentMsg(e))
  BY <1>1, RemoveCurrentMsgFacts
<1> QED
  BY <1>1, <1>2, <1>3, FollowsOnce DEF GivenUp

LEMMA MessageKeeps ==
    ASSUME CommandInv, WriteMsgGivesUp \/ AckCompletes
    PROVE  CommandInv' /\ Follows(drv, drv')
<1>1. Sound(drv)
  BY DEF CommandInv
<1>2. Follows(drv, GivenUp(drv)) /\ Follows(drv, RemoveCurrentMsg(drv))
  BY <1>1, GivenUpFacts, RemoveCurrentMsgFacts
<1>3. Sound(drv)' /\ undefined' \in BOOLEAN /\ Follows(drv, drv')
  BY <1>1, <1>2, BecomesFollowing DEF WriteMsgGivesUp, AckCompletes
<1>4. Counted'
  BY <1>3 DEF CommandInv, Counted, WriteMsgGivesUp, AckCompletes
<1> QED
  BY <1>3, <1>4 DEF CommandInv

LEMMA CancelFollows ==
    ASSUME Sound(drv)
    PROVE  /\ Follows(drv, IF Running(drv) THEN Stopped(drv) ELSE Crash(drv))
           /\ Follows(drv, UpdateControllerState(drv, "Cancel"))
<1>1. Lost(Crash(drv))
  BY CrashIsLost DEF Sound, SoundBut
<1>2. Running(drv) => Follows(drv, Stopped(drv))
  BY StoppedFacts
<1>3. Follows(drv, UpdateControllerState(drv, "Cancel"))
  BY SoundFacts, UpdateFollows DEF State
<1> QED
  BY <1>1, <1>2, <1>3 DEF Follows

LEMMA CancelKeeps ==
    ASSUME CommandInv, NEW t \in Cancellers,
           CancelTests(t) \/ CancelStops(t) \/ CancelUpdates(t)
    PROVE  CommandInv' /\ Follows(drv, drv')
<1>1. Sound(drv) /\ Counted
  BY DEF CommandInv
<1>2. CASE CancelTests(t)
  <2>1. Sound(drv)'
    BY <1>1, <1>2, SoundOfNext DEF CancelTests
  <2>2. Counted'
    BY <1>1, <1>2 DEF CancelTests, Counted
  <2>3. Follows(drv, drv')
    BY <1>1, <1>2, SoundFacts DEF CancelTests
  <2> QED
    BY <2>1, <2>2, <2>3 DEF CommandInv
<1>3. CASE CancelStops(t)
  <2> DEFINE d == IF Running(drv) THEN Stopped(drv) ELSE Crash(drv)
  <2>1. Follows(drv, d) /\ Becomes(d)
    BY <1>1, <1>3, CancelFollows DEF CancelStops
  <2> HIDE DEF d
  <2>2. Sound(drv)' /\ undefined' \in BOOLEAN /\ Follows(drv, drv')
    BY <1>1, <2>1, BecomesFollowing
  <2>3. cancel' \in [Cancellers -> {"idle", "stop", "update", "done"}]
    BY <1>1, <1>3 DEF CancelStops, Counted
  <2>4. Counted'
    BY <1>1, <1>3, <2>2, <2>3 DEF CancelStops, Counted
  <2> QED
    BY <2>2, <2>4 DEF CommandInv
<1>4. CASE CancelUpdates(t)
  <2>1. Sound(drv)' /\ undefined' \in BOOLEAN /\ Follows(drv, drv')
    BY <1>1, <1>4, CancelFollows, BecomesFollowing DEF CancelUpdates
  <2>2. Counted'
    BY <1>1, <1>4, <2>1 DEF CancelUpdates, Counted
  <2> QED
    BY <2>1, <2>2 DEF CommandInv
<1> QED
  BY <1>2, <1>3, <1>4

(* The controller. *)
LEMMA BegunUnder ==
    ASSUME NEW d, Sound(d), NEW f, NEW c \in Command, Free(d) # {}
    PROVE  LET a == HandleCallback(d, f, FALSE)
               b == Begun(a, NewAddress(d), c)
           IN /\ Sound(a) /\ a.obj = d.obj /\ a.current = d.current /\ a.telling = d.telling
              /\ NewAddress(d) \in Item /\ d.obj[NewAddress(d)] = Null
              /\ Sound(b) /\ Sound(UpdateControllerState(b, "Completed"))
              /\ Foremost(d) => Foremost(a)
<1> DEFINE a == HandleCallback(d, f, FALSE)
           i == NewAddress(d)
           b == Begun(a, i, c)
<1>1. i \in Item /\ d.obj[i] = Null /\ d \in Driver
  BY FreeAddress DEF Sound, SoundBut
<1>2. RemoveCurrentMsg(d).obj = d.obj /\ RemoveCurrentMsg(d).queue = d.queue
  BY <1>1 DEF RemoveCurrentMsg, Driver
<1>3. /\ Sound(a) /\ a.obj = d.obj /\ a.current = d.current /\ a.telling = d.telling
      /\ a.queue = d.queue
  BY <1>2, RemoveCurrentMsgFacts DEF HandleCallback
<1> HIDE DEF a, i
<1>4. Sound(b)
  BY <1>1, <1>3, BegunFacts
<1> HIDE DEF b
<1>5. Sound(UpdateControllerState(b, "Completed"))
  BY <1>4, UpdateFacts DEF Sound, State
<1> QED
  BY <1>1, <1>3, <1>4, <1>5 DEF a, b, i, Foremost, Running

LEMMA RequestKeeps ==
    ASSUME CommandInv, NEW f \in Funcs, ProcessRequest(f)
    PROVE  CommandInv' /\ Follows(drv, drv')
<1>1. Sound(drv) /\ ~drv.telling /\ Free(drv) # {} /\ Counted
      /\ frames < MaxFrames /\ frames' = frames + 1
  BY DEF CommandInv, ProcessRequest, FrameArrives, DriverThread, RoomForCopy
<1>2. PICK status \in DOMAIN Rank(f) :
         LET r == Rank(f)[status] IN
         /\ chip[f] \in 1..r
         /\ chip' = [chip EXCEPT ![f] = IF r = 6 THEN 0 ELSE r + 1]
         /\ \E n \in About(f, status), hit \in BOOLEAN :
               Becomes(HandleCallback(Handled(drv, f, status, n), f, hit))
  BY DEF ProcessRequest
<1>3. PICK n \in About(f, status), hit \in BOOLEAN :
         Becomes(HandleCallback(Handled(drv, f, status, n), f, hit))
  BY <1>2
<1>4. n \in Node \cup {Null}
  BY <1>3, CommandConstants DEF About
<1>5. Follows(drv, Handled(drv, f, status, n))
  BY <1>1, <1>4, HandledFacts
<1>6. Follows(drv, HandleCallback(Handled(drv, f, status, n), f, hit))
  BY <1>1, <1>5, AnsweredFacts
<1>7. Sound(drv)' /\ undefined' \in BOOLEAN /\ Follows(drv, drv')
  BY <1>1, <1>3, <1>6, BecomesFollowing
<1>8. Rank(f)[status] \in 2..6
  BY DEF Rank, LearnKinds
<1>9. chip' \in [Funcs -> 0..6]
  BY <1>1, <1>2, <1>8 DEF Counted
<1>10. Counted'
  BY <1>1, <1>7, <1>9, CommandConstants DEF Counted, ProcessRequest
<1> QED
  BY <1>7, <1>10 DEF CommandInv

LEMMA ResponseKeeps ==
    ASSUME CommandInv, NEW f \in Funcs, ProcessResponse(f)
    PROVE  CommandInv' /\ Follows(drv, drv')
<1>1. Sound(drv) /\ Counted /\ frames < MaxFrames /\ frames' = frames + 1
  BY DEF CommandInv, ProcessResponse, FrameArrives
<1> DEFINE g == UpdateControllerState(drv, "Failed")
<1>2. Sound(g) /\ Follows(drv, g) /\ Follows(drv, UpdateControllerState(drv, "InProgress"))
  <2>1. "Failed" \in State /\ "InProgress" \in State
    BY DEF State
  <2>2. Sound(g)
    BY <1>1, <2>1, UpdateFacts DEF Sound
  <2> QED
    BY <1>1, <2>1, <2>2, SoundFacts, UpdateFollows
<1>3. Follows(g, RemoveCurrentMsg(g))
  BY <1>2, RemoveCurrentMsgFacts
<1>4. Follows(drv, RemoveCurrentMsg(g))
  BY <1>1, <1>2, <1>3, FollowsOnce
<1>5. Sound(drv)' /\ undefined' \in BOOLEAN /\ Follows(drv, drv')
  BY <1>1, <1>2, <1>4, BecomesFollowing DEF ProcessResponse
<1>6. chip' \in [Funcs -> 0..6]
  BY <1>1 DEF Counted, ProcessResponse
<1>7. Counted'
  BY <1>1, <1>5, <1>6, CommandConstants DEF Counted, ProcessResponse
<1> QED
  BY <1>5, <1>7 DEF CommandInv

LEMMA FailedNodeKeeps ==
    ASSUME CommandInv, ProcessIsFailedNode
    PROVE  CommandInv'
<1>1. Sound(drv) /\ Counted /\ Free(drv) # {} /\ frames < MaxFrames /\ frames' = frames + 1
  BY DEF CommandInv, ProcessIsFailedNode, FrameArrives, RoomForCopy
<1> DEFINE a == HandleCallback(drv, "HasNodeFailed", FALSE)
<1>2. chip' \in [Funcs -> 0..6]
  <2>1. chip' = [chip EXCEPT !["HasNodeFailed"] = 0]
    BY DEF ProcessIsFailedNode
  <2>2. "HasNodeFailed" \in Funcs
    BY DEF Funcs, ControllerCommandKind, CannotCancel
  <2> QED
    BY <1>1, <2>1, <2>2 DEF Counted
<1>3. ASSUME NEW s \in {"NodeOK", "NodeFailed"}, Becomes(UpdateControllerState(a, s))
      PROVE  Sound(drv)' /\ undefined' \in BOOLEAN
  <2>1. Follows(drv, a)
    BY <1>1, SoundFacts, AnsweredFacts
  <2> HIDE DEF a
  <2>2. Follows(drv, UpdateControllerState(a, s))
    BY <1>1, <2>1, UpdateFollows DEF State
  <2> QED
    BY <1>1, <1>3, <2>2, BecomesFollowing
<1>4. ASSUME NEW c \in ResetCommand,
             Becomes(UpdateControllerState(Begun(a, NewAddress(drv), c), "Completed"))
      PROVE  Sound(drv)' /\ undefined' \in BOOLEAN
  <2>1. c \in Command
    BY CommandConstants
  <2>2. Sound(UpdateControllerState(Begun(a, NewAddress(drv), c), "Completed"))
    BY <1>1, <2>1, BegunUnder
  <2> QED
    BY <1>1, <1>4, <2>2, BecomesSound
<1>5. /\ \/ /\ \E state \in {"NodeOK", "NodeFailed"} : Becomes(UpdateControllerState(a, state))
            /\ UNCHANGED begun
         \/ \E c \in ResetCommand \ begun :
               /\ begun' = begun \cup {c}
               /\ Becomes(UpdateControllerState(Begun(a, NewAddress(drv), c), "Completed"))
      /\ UNCHANGED <<told, cancel, sleeps>>
  BY DEF ProcessIsFailedNode
<1>6. Sound(drv)' /\ undefined' \in BOOLEAN
  <2> HIDE DEF a
  <2>1. CASE \E state \in {"NodeOK", "NodeFailed"} : Becomes(UpdateControllerState(a, state))
    <3>1. PICK s \in {"NodeOK", "NodeFailed"} : Becomes(UpdateControllerState(a, s))
      BY <2>1
    <3> QED
      BY <1>3, <3>1
  <2>2. CASE \E c \in ResetCommand \ begun :
               /\ begun' = begun \cup {c}
               /\ Becomes(UpdateControllerState(Begun(a, NewAddress(drv), c), "Completed"))
    <3>1. PICK c \in ResetCommand :
             Becomes(UpdateControllerState(Begun(a, NewAddress(drv), c), "Completed"))
      BY <2>2
    <3> QED
      BY <1>4, <3>1
  <2> QED
    BY <1>5, <2>1, <2>2
<1>7. begun' \subseteq Command
  BY <1>1, <1>5, CommandConstants DEF Counted
<1>8. Counted'
  BY <1>1, <1>2, <1>5, <1>6, <1>7, CommandConstants DEF Counted
<1> QED
  BY <1>6, <1>8 DEF CommandInv

LEMMA FrameKeeps ==
    ASSUME CommandInv, ChipHears \/ ProcessOtherReply \/ NodeInfoRequestFailed
    PROVE  CommandInv' /\ Follows(drv, drv')
<1>1. Sound(drv) /\ Counted
  BY DEF CommandInv
<1>2. CASE ChipHears
  <2>1. Sound(drv)'
    BY <1>1, <1>2, SoundOfNext DEF ChipHears
  <2>2. Counted'
    BY <1>1, <1>2 DEF ChipHears, Counted
  <2>3. Follows(drv, drv')
    BY <1>1, <1>2, SoundFacts DEF ChipHears
  <2> QED
    BY <2>1, <2>2, <2>3 DEF CommandInv
<1>3. CASE ProcessOtherReply
  <2>1. Follows(drv, RemoveCurrentMsg(drv))
    BY <1>1, RemoveCurrentMsgFacts
  <2>2. Sound(drv)' /\ undefined' \in BOOLEAN /\ Follows(drv, drv')
    BY <1>1, <1>3, <2>1, BecomesFollowing DEF ProcessOtherReply
  <2>3. Counted'
    BY <1>1, <1>3, <2>2 DEF ProcessOtherReply, Counted
  <2> QED
    BY <2>2, <2>3 DEF CommandInv
<1>4. CASE NodeInfoRequestFailed
  <2>1. ~drv.telling /\ Free(drv) # {} /\ frames < MaxFrames /\ frames' = frames + 1
    BY <1>4 DEF NodeInfoRequestFailed, FrameArrives, DriverThread, RoomForCopy
  <2>2. Follows(drv, MoveMessagesToWakeUpQueue(drv, drv.msg.node))
    BY <1>1, <2>1, MoveMessagesFacts
  <2>3. Sound(drv)' /\ undefined' \in BOOLEAN /\ Follows(drv, drv')
    BY <1>1, <1>4, <2>2, BecomesFollowing DEF NodeInfoRequestFailed
  <2>4. Counted'
    BY <1>1, <1>4, <2>1, <2>3, CommandConstants DEF NodeInfoRequestFailed, Counted
  <2> QED
    BY <2>3, <2>4 DEF CommandInv
<1> QED
  BY <1>2, <1>3, <1>4

(* The steps that neither begin nor report a command. *)
Driven ==
    \/ WriteMsgGivesUp \/ AckCompletes
    \/ ChipHears \/ ProcessOtherReply \/ NodeInfoRequestFailed
    \/ \E f \in Funcs : ProcessRequest(f) \/ ProcessResponse(f)
    \/ \E t \in Cancellers : CancelTests(t) \/ CancelStops(t) \/ CancelUpdates(t)

LEMMA DrivenKeeps ==
    ASSUME CommandInv, Driven
    PROVE  CommandInv' /\ Follows(drv, drv') /\ UNCHANGED <<begun, told>>
<1>1. CommandInv' /\ Follows(drv, drv')
  BY MessageKeeps, FrameKeeps, RequestKeeps, ResponseKeeps, CancelKeeps DEF Driven
<1>2. UNCHANGED <<begun, told>>
  BY DEF Driven, WriteMsgGivesUp, AckCompletes, ChipHears, ProcessOtherReply,
         NodeInfoRequestFailed, ProcessRequest, ProcessResponse,
         CancelTests, CancelStops, CancelUpdates
<1> QED
  BY <1>1, <1>2

(* The nodes. *)
LEMMA NodeKeeps ==
    ASSUME CommandInv, NEW n \in Node, MessageForSleeper(n) \/ NodeSleeps(n) \/ NodeWakes(n)
    PROVE  CommandInv'
<1>1. Sound(drv) /\ Counted /\ drv \in Driver
  BY DEF CommandInv, Sound, SoundBut
<1>2. CASE MessageForSleeper(n)
  <2> DEFINE m == Message("GetRoutingInfo", "start", n, FALSE, TRUE)
  <2>1. Free(drv) # {} /\ frames < MaxFrames /\ frames' = frames + 1
    BY <1>2 DEF MessageForSleeper, FrameArrives, RoomForCopy
  <2>2. m \in Msg
    BY MessageType
  <2>3. Becomes(SendMsg(drv, m))
    BY <1>2 DEF MessageForSleeper
  <2> HIDE DEF m
  <2>4. Follows(drv, SendMsg(drv, m))
    BY <1>1, <2>1, <2>2, SendMsgFacts
  <2>5. Sound(drv)' /\ undefined' \in BOOLEAN
    BY <1>1, <2>3, <2>4, BecomesFollowing
  <2>6. Counted'
    BY <1>1, <1>2, <2>1, <2>5, CommandConstants DEF MessageForSleeper, Counted
  <2> QED
    BY <2>5, <2>6 DEF CommandInv
<1>3. CASE NodeSleeps(n)
  <2> DEFINE awake == [drv.awake EXCEPT ![n] = FALSE]
             d == [drv EXCEPT !.awake = awake]
  <2>1. awake \in [Node -> BOOLEAN] /\ [drv EXCEPT !.awake[n] = FALSE] = d
    BY <1>1, DriverFacts DEF Driver
  <2> HIDE DEF awake
  <2>2. /\ d \in Driver /\ d.obj = drv.obj /\ d.queue = drv.queue /\ d.event = drv.event
        /\ d.current = drv.current /\ d.telling = drv.telling /\ d.parked = drv.parked
    BY <1>1, <2>1 DEF Driver
  <2>3. Becomes(d)
    BY <1>3, <2>1 DEF NodeSleeps
  <2> HIDE DEF d
  <2>4. Sound(d)
    BY <1>1, <2>2, OtherFieldsOnly
  <2>5. Sound(drv)' /\ undefined' \in BOOLEAN
    BY <1>1, <2>3, <2>4, BecomesSound
  <2>6. Counted'
    BY <1>1, <1>3, <2>5, CommandConstants DEF NodeSleeps, Counted
  <2> QED
    BY <2>5, <2>6 DEF CommandInv
<1>4. CASE NodeWakes(n)
  <2>1. Sound(Rebegin(drv, n))
    BY <1>1, RebeginFacts
  <2>2. Sound(drv)' /\ undefined' \in BOOLEAN
    BY <1>1, <1>4, <2>1, BecomesSound DEF NodeWakes
  <2>3. Counted'
    BY <1>1, <1>4, <2>2 DEF NodeWakes, Counted
  <2> QED
    BY <2>2, <2>3 DEF CommandInv
<1> QED
  BY <1>2, <1>3, <1>4

LEMMA StutterKeeps ==
    ASSUME CommandInv, UNCHANGED vars
    PROVE  CommandInv'
<1>1. Sound(drv)' /\ Counted'
  BY SoundOfNext DEF vars, CommandInv, Counted
<1> QED
  BY <1>1 DEF CommandInv

LEMMA NextKeeps == CommandInv /\ [Next]_vars => CommandInv'
<1> SUFFICES ASSUME CommandInv, [Next]_vars PROVE CommandInv'
  OBVIOUS
<1> QED
  BY BeginKeeps, WriteKeeps, DrivenKeeps, FailedNodeKeeps, NodeKeeps, StutterKeeps
  DEF Next, Controller, Driven

LEMMA InvHolds == Spec => []CommandInv
<1>1. CommandInv /\ [Next]_vars => CommandInv'
  BY NextKeeps
<1> QED
  BY <1>1, InitInv, PTL DEF Spec

(***************************************************************************)
(* A pointer of the driver always points to an object that exists, and     *)
(* everything keeps its type, for any commands, nodes and bounds: whatever *)
(* the controller reports and whenever an application cancels, no handler  *)
(* of Driver.cpp leaves a queue with a command that was deleted.           *)
(***************************************************************************)
THEOREM TypeCorrect == Spec => []TypeOK
<1>1. CommandInv => TypeOK
  <2> SUFFICES ASSUME CommandInv PROVE TypeOK
    OBVIOUS
  <2>1. Sound(drv) /\ Counted /\ Owned(drv, {})
    BY DEF CommandInv, Sound, SoundBut
  <2>2. \A i \in Everywhere(drv) : drv.obj[i] # Null
    BY <2>1 DEF Owned, Held
  <2>3. Running(drv) => Current(drv) # Null
    BY <2>1, SoundFacts
  <2> QED
    BY <2>1, <2>2, <2>3, DriverFacts DEF TypeOK, Sound, SoundBut, Counted
<1> QED
  BY <1>1, InvHolds, PTL

(***************************************************************************)
(* Every ControllerCommandItem is on one queue, once, or in its last       *)
(* callback: BeginControllerCommand, QueueMsg, SendPending, RemoveQueues   *)
(* and MoveMessagesToWakeUpQueue neither lose one nor share one.           *)
(***************************************************************************)
THEOREM OneOwnerCorrect == Spec => []OneOwner
<1>1. CommandInv => OneOwner
  BY DEF CommandInv, Sound, SoundBut, Owned, Queued, OneOwner, Held, Telling, Reported
<1> QED
  BY <1>1, InvHolds, PTL

(***************************************************************************)
(* The driver thread is woken for a command that is over, or not begun     *)
(* yet: none of the places that set and reset the queue's event forgets it.*)
(***************************************************************************)
THEOREM DoneIsSignalledCorrect == Spec => []DoneIsSignalled
<1>1. CommandInv => DoneIsSignalled
  BY DEF CommandInv, Sound, SoundBut, Woken, DoneIsSignalled, Current
<1> QED
  BY <1>1, InvHolds, PTL
-----------------------------------------------------------------------------
(* What the application is told, where no node sleeps. Distinct objects are *)
(* of distinct commands, and only the one in progress was told of.          *)
Apart(d, b, t) ==
    /\ Foremost(d)
    /\ \A i, j \in Held(d) : d.obj[i].of = d.obj[j].of => i = j
    /\ \A i \in Held(d) : d.obj[i].of \in b
    /\ \A i \in Held(d) : i # d.current => t[d.obj[i].of] = "Nothing"
    /\ \A c \in Command : c \notin b => t[c] = "Nothing"

(* The commands that are begun and not over. *)
Opened(d) == {d.obj[i].of : i \in Held(d) \ Telling(d)}

ReportInv == CommandInv /\ Apart(drv, begun, told)

LEMMA OpenedType ==
    ASSUME NEW d, Sound(d)
    PROVE  Opened(d) \subseteq Command /\ Telling(d) \subseteq Held(d)
<1>1. d.obj \in [Item -> Cci \cup {Null}] /\ Owned(d, {})
  BY DriverFacts DEF Sound, SoundBut
<1>2. \A i \in Held(d) : d.obj[i] \in Cci
  BY <1>1 DEF Held
<1>3. \A i \in Held(d) : d.obj[i].of \in Command
  BY <1>2 DEF Cci
<1>4. Telling(d) \subseteq Held(d)
  BY <1>1 DEF Owned
<1> QED
  BY <1>3, <1>4 DEF Opened

LEMMA SameKeeps ==
    ASSUME NEW d, NEW e, SameObjects(d, e), e.telling = d.telling, NEW b, NEW t,
           Apart(d, b, t)
    PROVE  /\ Apart(e, b, t)
           /\ Opened(e) \subseteq Opened(d)
           /\ \A c \in Opened(d) \ Opened(e) : t[c] = "Nothing"
           /\ Held(e) = Held(d) => Opened(e) = Opened(d)
<1>1. /\ e.current = d.current /\ Telling(e) = Telling(d)
      /\ \A i \in Held(e) : i \in Held(d) /\ e.obj[i].of = d.obj[i].of
      /\ \A i \in Held(d) \ Held(e) : i # d.current
      /\ Foremost(d) => Foremost(e)
  BY DEF SameObjects, Telling, Held
<1>2. Apart(e, b, t)
  BY <1>1 DEF Apart
<1>3. Opened(e) \subseteq Opened(d)
  BY <1>1 DEF Opened
<1>4. ASSUME NEW c \in Opened(d) \ Opened(e) PROVE t[c] = "Nothing"
  <2>1. PICK i \in Held(d) \ Telling(d) : d.obj[i].of = c
    BY DEF Opened
  <2>2. i \notin Held(e)
    BY <1>1, <2>1 DEF Opened
  <2> QED
    BY <1>1, <2>1, <2>2 DEF Apart
<1>5. Held(e) = Held(d) => Opened(e) = Opened(d)
  BY <1>1 DEF Opened
<1> QED
  BY <1>2, <1>3, <1>4, <1>5

(* e is d with a new object, at the address i, of a command that was not begun. *)
Adds(d, e, i, c, b) ==
    /\ Sound(d) /\ i \in Item /\ d.obj[i] = Null /\ c \in Command /\ c \notin b
    /\ \A j \in Item : e.obj[j] = IF j = i THEN NewItem(c) ELSE d.obj[j]
    /\ e.current = d.current /\ e.telling = d.telling
    /\ Foremost(d) => Foremost(e)

LEMMA BegunApart ==
    ASSUME NEW d, NEW e, NEW i, NEW c, NEW b, NEW t, Adds(d, e, i, c, b), Apart(d, b, t)
    PROVE  Apart(e, b \cup {c}, t) /\ Opened(e) = Opened(d) \cup {c}
<1> DEFINE new == NewItem(c)
<1>0. /\ Sound(d) /\ i \in Item /\ d.obj[i] = Null /\ c \in Command /\ c \notin b
      /\ \A j \in Item : e.obj[j] = IF j = i THEN new ELSE d.obj[j]
      /\ e.current = d.current /\ e.telling = d.telling
      /\ Foremost(d) => Foremost(e)
  BY DEF Adds
<1>1. new.of = c /\ new # Null
  BY <1>0, NewItemType
<1> HIDE DEF new
<1>2. d.obj \in [Item -> Cci \cup {Null}] /\ Telling(d) \subseteq Held(d)
  BY <1>0, DriverFacts, OpenedType DEF Sound, SoundBut
<1>4. Held(e) = Held(d) \cup {i} /\ i \notin Held(d) /\ Telling(e) = Telling(d)
  BY <1>0, <1>1 DEF Held, Telling
<1>5. e.obj[i].of = c /\ \A j \in Held(d) : e.obj[j].of = d.obj[j].of
  BY <1>0, <1>1, <1>4 DEF Held
<1>6. \A j \in Held(d) : d.obj[j].of # c
  BY <1>0 DEF Apart
<1>7. Apart(e, b \cup {c}, t)
  <2>1. /\ \A j, k \in Held(d) : d.obj[j].of = d.obj[k].of => j = k
        /\ \A j \in Held(d) : d.obj[j].of \in b
        /\ \A j \in Held(d) : j # d.current => t[d.obj[j].of] = "Nothing"
        /\ \A x \in Command : x \notin b => t[x] = "Nothing"
        /\ Foremost(d)
    BY DEF Apart
  <2>2. \A j, k \in Held(e) : e.obj[j].of = e.obj[k].of => j = k
    BY <1>4, <1>5, <1>6, <2>1
  <2>3. \A j \in Held(e) : e.obj[j].of \in b \cup {c}
    BY <1>4, <1>5, <2>1
  <2>4. \A j \in Held(e) : j # e.current => t[e.obj[j].of] = "Nothing"
    BY <1>0, <1>4, <1>5, <2>1
  <2> QED
    BY <1>0, <2>1, <2>2, <2>3, <2>4 DEF Apart
<1>8. Opened(e) = Opened(d) \cup {c}
  <2>1. ASSUME NEW x \in Opened(e) PROVE x \in Opened(d) \cup {c}
    <3>1. PICK j \in Held(e) \ Telling(e) : x = e.obj[j].of
      BY DEF Opened
    <3> QED
      BY <1>4, <1>5, <3>1 DEF Opened
  <2>2. ASSUME NEW x \in Opened(d) PROVE x \in Opened(e)
    <3>1. PICK j \in Held(d) \ Telling(d) : x = d.obj[j].of
      BY DEF Opened
    <3>2. j \in Held(e) \ Telling(e) /\ e.obj[j].of = x
      BY <1>4, <1>5, <3>1
    <3> QED
      BY <3>2 DEF Opened
  <2>3. c \in Opened(e)
    <3>1. i \in Held(e) \ Telling(e) /\ e.obj[i].of = c
      BY <1>2, <1>4, <1>5
    <3> QED
      BY <3>1 DEF Opened
  <2> QED
    BY <2>1, <2>2, <2>3
<1> QED
  BY <1>7, <1>8

(* The abstract steps. *)
LEMMA LifeIs ==
    /\ Life = [c \in Command |-> IF c \notin begun THEN "idle"
                                 ELSE IF c \in Opened(drv) THEN "open" ELSE "over"]
    /\ Life' = [c \in Command |-> IF c \notin begun' THEN "idle"
                                  ELSE IF c \in Opened(drv') THEN "open" ELSE "over"]
<1>1. \A c \in Command : Open(c) <=> c \in Opened(drv)
  BY DEF Open, Opened, Held, Reported, Telling
<1>2. \A c \in Command : Open(c)' <=> c \in Opened(drv')
  BY DEF Open, Opened, Held, Reported, Telling
<1> QED
  BY <1>1, <1>2 DEF Life

LEMMA QuietStep ==
    ASSUME Opened(drv) \subseteq begun \cap Command, UNCHANGED <<begun, told>>,
           Opened(drv') \subseteq Opened(drv),
           \A c \in Opened(drv) \ Opened(drv') : told[c] = "Nothing"
    PROVE  [Reports!Next]_<<Life, told>>
<1> DEFINE gone == Opened(drv) \ Opened(drv')
<1>1. gone \in SUBSET Command /\ \A c \in gone : c \in begun /\ told[c] = "Nothing"
  OBVIOUS
<1>2. \A c \in Command : c \in gone <=> c \in Opened(drv) /\ c \notin Opened(drv')
  OBVIOUS
<1>3. Opened(drv') \subseteq Opened(drv) /\ begun' = begun /\ told' = told
  OBVIOUS
<1> HIDE DEF gone
<1>4. \A c \in gone : Life[c] = "open"
  BY <1>1, <1>2, LifeIs
<1>5. Life' = [c \in Command |-> IF c \in gone THEN "over" ELSE Life[c]]
  BY <1>1, <1>2, <1>3, LifeIs
<1>6. CASE gone = {}
  <2>1. Life' = Life
    BY <1>5, <1>6, LifeIs
  <2> QED
    BY <1>3, <2>1
<1>7. CASE gone # {}
  <2>1. Reports!Dismiss(gone)
    BY <1>1, <1>3, <1>4, <1>5, <1>7 DEF Reports!Dismiss
  <2> QED
    BY <1>1, <2>1 DEF Reports!Next
<1> QED
  BY <1>6, <1>7

LEMMA BeginStep ==
    ASSUME NEW c \in Command, c \notin begun, begun' = begun \cup {c}, told' = told,
           Opened(drv') = Opened(drv) \cup {c}
    PROVE  [Reports!Next]_<<Life, told>>
<1>1. Life[c] = "idle"
  BY LifeIs
<1>2. Life' = [Life EXCEPT ![c] = "open"]
  BY LifeIs
<1>3. Reports!Begin(c)
  BY <1>1, <1>2 DEF Reports!Begin
<1> QED
  BY <1>3 DEF Reports!Next

(* The invariant with the reports, and the abstract step, of every step of Next. *)
LEMMA NextState ==
    ASSUME NEW d, Sound(d), Becomes(d)
    PROVE  drv' = d
<1>1. ~Crashed(d)
  BY DriverFacts DEF Sound, SoundBut
<1> QED
  BY <1>1 DEF Becomes

LEMMA ApartNext == Apart(drv, begun, told)' <=> Apart(drv', begun', told')
  BY DEF Apart, Foremost, Running, Held

LEMMA OpenedBegun ==
    ASSUME ReportInv
    PROVE  Opened(drv) \subseteq begun \cap Command /\ Sound(drv)
<1>1. Sound(drv)
  BY DEF ReportInv, CommandInv
<1> QED
  BY <1>1, OpenedType DEF ReportInv, Apart, Opened

LEMMA SameReports ==
    ASSUME ReportInv, SameObjects(drv, drv'), drv'.telling = drv.telling,
           UNCHANGED <<begun, told>>
    PROVE  Apart(drv, begun, told)' /\ [Reports!Next]_<<Life, told>>
<1>1. Apart(drv, begun, told)
  BY DEF ReportInv
<1> DEFINE e == drv'
<1>2. e = drv'
  OBVIOUS
<1> HIDE DEF e
<1>3. /\ Apart(e, begun, told)
      /\ Opened(e) \subseteq Opened(drv)
      /\ \A c \in Opened(drv) \ Opened(e) : told[c] = "Nothing"
  BY <1>1, <1>2, SameKeeps
<1>4. Apart(drv, begun, told)'
  BY <1>2, <1>3, ApartNext
<1>5. [Reports!Next]_<<Life, told>>
  BY <1>2, <1>3, OpenedBegun, QuietStep
<1> QED
  BY <1>4, <1>5

LEMMA DrivenReports ==
    ASSUME ReportInv, Sleeper = {}, Driven
    PROVE  Apart(drv, begun, told)' /\ [Reports!Next]_<<Life, told>>
<1>1. Follows(drv, drv') /\ CommandInv' /\ UNCHANGED <<begun, told>>
  BY DrivenKeeps DEF ReportInv
<1>2. ~Lost(drv')
  <2>1. Sound(drv')
    BY <1>1, SoundOfNext DEF CommandInv
  <2> QED
    BY <2>1, DriverFacts DEF Sound, SoundBut
<1>3. SameObjects(drv, drv') /\ drv'.telling = drv.telling
  BY <1>1, <1>2, Sleeper = {} DEF Follows
<1> QED
  BY <1>1, <1>3, SameReports

LEMMA StutterReports ==
    ASSUME ReportInv, drv' = drv, UNCHANGED <<begun, told>>
    PROVE  Apart(drv, begun, told)' /\ [Reports!Next]_<<Life, told>>
<1>1. SameObjects(drv, drv')
  BY DEF SameObjects
<1> QED
  BY <1>1, SameReports

LEMMA BeginReports ==
    ASSUME ReportInv, NEW c \in Command, BeginControllerCommand(c)
    PROVE  Apart(drv, begun, told)' /\ [Reports!Next]_<<Life, told>>
<1> DEFINE i == NewAddress(drv)
           e == Begun(drv, i, c)
<1>1. Sound(drv) /\ Free(drv) # {} /\ drv \in Driver
      /\ c \notin begun /\ begun' = begun \cup {c} /\ told' = told /\ Becomes(e)
      /\ Apart(drv, begun, told)
  BY DEF ReportInv, CommandInv, BeginControllerCommand, RoomForCopy, Sound, SoundBut
<1>2. i \in Item /\ drv.obj[i] = Null
  BY <1>1, FreeAddress
<1> HIDE DEF i
<1>3. /\ Sound(e) /\ e.current = drv.current /\ e.telling = drv.telling
      /\ \A j \in Item : e.obj[j] = IF j = i THEN NewItem(c) ELSE drv.obj[j]
      /\ Foremost(drv) => Foremost(e)
  BY <1>1, <1>2, BegunFacts
<1> HIDE DEF e
<1>4. drv' = e
  BY <1>1, <1>3, NextState
<1>5. Apart(e, begun \cup {c}, told) /\ Opened(e) = Opened(drv) \cup {c}
  <2>1. Adds(drv, e, i, c, begun)
    BY <1>1, <1>2, <1>3 DEF Adds
  <2> QED
    BY <1>1, <2>1, BegunApart
<1>6. Apart(drv, begun, told)'
  BY <1>1, <1>4, <1>5, ApartNext
<1>7. [Reports!Next]_<<Life, told>>
  BY <1>1, <1>4, <1>5, BeginStep
<1> QED
  BY <1>6, <1>7

LEMMA FailedNodeReports ==
    ASSUME ReportInv, Sleeper = {}, ProcessIsFailedNode
    PROVE  Apart(drv, begun, told)' /\ [Reports!Next]_<<Life, told>>
<1> DEFINE a == HandleCallback(drv, "HasNodeFailed", FALSE)
           i == NewAddress(drv)
<1>1. Sound(drv) /\ Free(drv) # {} /\ Apart(drv, begun, told)
  BY DEF ReportInv, CommandInv, ProcessIsFailedNode, FrameArrives, RoomForCopy
<1>2. told' = told
  BY DEF ProcessIsFailedNode
<1>3. ASSUME NEW s \in {"NodeOK", "NodeFailed"}, Becomes(UpdateControllerState(a, s)),
             begun' = begun
      PROVE  Apart(drv, begun, told)' /\ [Reports!Next]_<<Life, told>>
  <2>1. Follows(drv, a)
    BY <1>1, SoundFacts, AnsweredFacts
  <2> HIDE DEF a
  <2>2. Follows(drv, UpdateControllerState(a, s))
    BY <1>1, <2>1, UpdateFollows DEF State
  <2>3. Follows(drv, drv') /\ Sound(drv')
    BY <1>1, <1>3, <2>2, BecomesFollowing, SoundOfNext
  <2>4. SameObjects(drv, drv') /\ drv'.telling = drv.telling
    BY <2>3, Sleeper = {}, DriverFacts DEF Follows, Sound, SoundBut
  <2> QED
    BY <1>2, <1>3, <2>4, SameReports
<1>4. ASSUME NEW c \in ResetCommand \ begun, begun' = begun \cup {c},
             Becomes(UpdateControllerState(Begun(a, i, c), "Completed"))
      PROVE  Apart(drv, begun, told)' /\ [Reports!Next]_<<Life, told>>
  <2> DEFINE b == Begun(a, i, c)
             u == UpdateControllerState(b, "Completed")
  <2>1. c \in Command /\ c \notin begun
    BY CommandConstants
  <2>2. /\ Sound(a) /\ a.obj = drv.obj /\ a.current = drv.current /\ a.telling = drv.telling
        /\ i \in Item /\ drv.obj[i] = Null
        /\ Sound(b) /\ Sound(u)
        /\ Foremost(drv) => Foremost(a)
    BY <1>1, <2>1, BegunUnder
  <2> HIDE DEF a, i
  <2>3. /\ b.current = a.current /\ b.telling = a.telling
        /\ \A j \in Item : b.obj[j] = IF j = i THEN NewItem(c) ELSE a.obj[j]
        /\ Foremost(a) => Foremost(b)
    BY <2>1, <2>2, BegunFacts
  <2> HIDE DEF b
  <2>4. Apart(b, begun \cup {c}, told) /\ Opened(b) = Opened(drv) \cup {c}
    <3>1. Adds(drv, b, i, c, begun)
      BY <1>1, <2>1, <2>2, <2>3 DEF Adds
    <3> QED
      BY <1>1, <3>1, BegunApart
  <2>5. SameObjects(b, u) /\ u.telling = b.telling /\ Held(u) = Held(b)
    BY <2>2, UpdateFacts DEF Sound, State
  <2>6. drv' = u
    BY <1>4, <2>2, NextState DEF b
  <2> HIDE DEF u
  <2>7. Apart(u, begun \cup {c}, told) /\ Opened(u) = Opened(drv) \cup {c}
    BY <2>4, <2>5, SameKeeps
  <2>8. Apart(drv, begun, told)'
    BY <1>2, <1>4, <2>6, <2>7, ApartNext
  <2>9. [Reports!Next]_<<Life, told>>
    BY <1>2, <1>4, <2>1, <2>6, <2>7, BeginStep
  <2> QED
    BY <2>8, <2>9
<1>5. CASE /\ \E state \in {"NodeOK", "NodeFailed"} : Becomes(UpdateControllerState(a, state))
           /\ UNCHANGED begun
  <2> HIDE DEF a
  <2>1. PICK s \in {"NodeOK", "NodeFailed"} : Becomes(UpdateControllerState(a, s))
    BY <1>5
  <2> QED
    BY <1>3, <1>5, <2>1
<1>6. CASE \E c \in ResetCommand \ begun :
              /\ begun' = begun \cup {c}
              /\ Becomes(UpdateControllerState(Begun(a, i, c), "Completed"))
  <2> HIDE DEF a, i
  <2>1. PICK c \in ResetCommand \ begun :
              /\ begun' = begun \cup {c}
              /\ Becomes(UpdateControllerState(Begun(a, i, c), "Completed"))
    BY <1>6
  <2> QED
    BY <1>4, <2>1
<1>7. \/ /\ \E state \in {"NodeOK", "NodeFailed"} : Becomes(UpdateControllerState(a, state))
         /\ UNCHANGED begun
      \/ \E c \in ResetCommand \ begun :
              /\ begun' = begun \cup {c}
              /\ Becomes(UpdateControllerState(Begun(a, i, c), "Completed"))
  BY DEF ProcessIsFailedNode
<1> QED
  BY <1>5, <1>6, <1>7

(* WriteNextMsg. *)
LEMMA TakenApart ==
    ASSUME Sound(drv), Apart(drv, begun, told), ~drv.telling, drv.event, drv.queue # <<>>
    PROVE  /\ Apart(Taken, begun, told) /\ Opened(Taken) = Opened(drv)
           /\ Taken.current \in Held(drv) /\ Held(Taken) = Held(drv)
           /\ Current(Taken) = drv.obj[Taken.current]
<1> DEFINE d == Taken
<1>1. /\ Sound(d) /\ Running(d) /\ d.current = Head(drv.queue) /\ d.current \in Item
      /\ d.obj = drv.obj /\ d.queue = drv.queue /\ ~d.telling
  BY TakenFacts
<1> HIDE DEF d
<1>2. Held(d) = Held(drv) /\ Telling(d) = {} /\ Telling(drv) = {} /\ d.current \in Held(d)
  BY <1>1, SoundFacts DEF Held, Telling
<1>3. Foremost(d)
  BY <1>1 DEF Foremost
<1>4. ASSUME NEW i \in Held(drv), i # d.current PROVE i # drv.current
  <2>1. i # Null
    BY CommandConstants DEF Held
  <2>2. Running(drv) => drv.current = d.current
    BY <1>1 DEF Apart, Foremost
  <2> QED
    BY <1>4, <2>1, <2>2 DEF Running
<1>5. Apart(d, begun, told)
  BY <1>1, <1>2, <1>3, <1>4 DEF Apart
<1>6. Opened(d) = Opened(drv)
  BY <1>1, <1>2 DEF Opened
<1> QED
  BY <1>1, <1>2, <1>5, <1>6 DEF d, Current

LEMMA ReportProgressStep ==
    ASSUME ReportInv, ReportProgress
    PROVE  Apart(drv, begun, told)' /\ [Reports!Next]_<<Life, told>>
<1> DEFINE d == Taken
           i == d.current
           c == drv.obj[i].of
           e == [Taken EXCEPT !.obj[Taken.current].changed = FALSE]
<1>1. /\ Sound(drv) /\ Apart(drv, begun, told) /\ told \in [Command -> Told]
      /\ ~drv.telling /\ drv.event /\ drv.queue # <<>>
      /\ ~Over(Current(d)) /\ Current(d).state # "Normal"
      /\ Report(d) /\ Becomes(e) /\ begun' = begun
  BY DEF ReportInv, CommandInv, Counted, ReportProgress, ControllerTurn, Idle, DriverThread
<1>2. /\ Apart(d, begun, told) /\ Opened(d) = Opened(drv) /\ Held(d) = Held(drv)
      /\ i \in Held(drv) /\ Current(d) = drv.obj[i] /\ Current(d) \in Cci /\ d.obj = drv.obj
      /\ d.queue = drv.queue /\ Running(d) /\ ~d.telling
  BY <1>1, TakenApart, TakenFacts
<1>3. /\ Sound(e) /\ e.current = i /\ ~e.telling /\ e.queue = drv.queue
      /\ Held(e) = Held(drv)
      /\ \A j \in Held(e) : e.obj[j].of = drv.obj[j].of
  BY <1>1, ReportProgressFacts
<1>4. drv' = e
  BY <1>1, <1>3, NextState
<1>5. Outcome(Current(d)) = "Progress"
  <2>1. Current(d).state \notin Final /\ ~Current(d).done
    BY <1>1, <1>2 DEF Over, Cci
  <2> QED
    BY <2>1 DEF Outcome
<1>6. told' = [told EXCEPT ![c] = "Progress"] /\ c \in Command
  <2>1. c \in Command
    BY <1>2 DEF Cci
  <2> QED
    BY <1>1, <1>2, <1>5, <2>1 DEF Report
<1> HIDE DEF d, e, i
<1>7. /\ \A j, k \in Held(drv) : drv.obj[j].of = drv.obj[k].of => j = k
      /\ \A j \in Held(drv) : drv.obj[j].of \in begun
      /\ \A j \in Held(drv) : j # i => told[drv.obj[j].of] = "Nothing"
      /\ \A x \in Command : x \notin begun => told[x] = "Nothing"
      /\ d.queue # <<>> /\ Head(d.queue) = i
  BY <1>2 DEF Apart, Foremost, i
<1>8. \A j \in Held(drv) : drv.obj[j].of \in Command
  <2>1. \A j \in Held(drv) : drv.obj[j] \in Cci
    BY <1>1, DriverFacts DEF Held, Sound, SoundBut
  <2> QED
    BY <2>1 DEF Cci
<1>9. Apart(e, begun, told')
  <2>1. Foremost(e)
    BY <1>2, <1>3, <1>7 DEF Foremost
  <2>2. \A j \in Held(e) : j # e.current => told'[e.obj[j].of] = "Nothing"
    BY <1>1, <1>2, <1>3, <1>6, <1>7, <1>8
  <2>3. \A x \in Command : x \notin begun => told'[x] = "Nothing"
    BY <1>1, <1>2, <1>6, <1>7
  <2>4. \A j, k \in Held(e) : e.obj[j].of = e.obj[k].of => j = k
    BY <1>3, <1>7
  <2>5. \A j \in Held(e) : e.obj[j].of \in begun
    BY <1>3, <1>7
  <2> QED
    BY <2>1, <2>2, <2>3, <2>4, <2>5 DEF Apart
<1>10. Apart(drv, begun, told)'
  BY <1>1, <1>4, <1>9, ApartNext
<1>11. Telling(drv) = {} /\ Telling(e) = {}
  BY <1>1, <1>3 DEF Telling
<1>12. Opened(drv') = Opened(drv)
  BY <1>3, <1>4, <1>11 DEF Opened
<1>13. c \in Opened(drv) /\ c \in begun
  BY <1>2, <1>7, <1>11 DEF Opened
<1>14. Life[c] = "open" /\ Life' = Life
  BY <1>1, <1>6, <1>12, <1>13, LifeIs
<1>15. Reports!Progress(c)
  BY <1>6, <1>14 DEF Reports!Progress
<1> QED
  BY <1>6, <1>10, <1>15 DEF Reports!Next

LEMMA ReportEndStep ==
    ASSUME ReportInv, ReportEnd
    PROVE  Apart(drv, begun, told)' /\ [Reports!Next]_<<Life, told>>
<1> DEFINE d == Taken
           i == d.current
           c == drv.obj[i].of
           s == Outcome(Current(d))
           e == [Taken EXCEPT !.queue = Tail(@),
                              !.event = EventAfter(drv, Tail(drv.queue)),
                              !.telling = TRUE]
<1>1. /\ Sound(drv) /\ Apart(drv, begun, told) /\ told \in [Command -> Told]
      /\ ~drv.telling /\ drv.event /\ drv.queue # <<>>
      /\ Over(Current(d)) /\ Report(d) /\ Becomes(e) /\ begun' = begun
  BY DEF ReportInv, CommandInv, Counted, ReportEnd, ControllerTurn, Idle, DriverThread
<1>2. /\ Apart(d, begun, told) /\ Opened(d) = Opened(drv) /\ Held(d) = Held(drv)
      /\ i \in Held(drv) /\ Current(d) = drv.obj[i] /\ Current(d) \in Cci /\ d.obj = drv.obj
  BY <1>1, TakenApart, TakenFacts
<1>3. Sound(e) /\ e.current = i /\ e.telling /\ e.obj = drv.obj
  BY <1>1, ReportEndFacts
<1>4. drv' = e
  BY <1>1, <1>3, NextState
<1>5. s \in Ending
  BY <1>1 DEF Over, Outcome, Ending
<1>6. told' = [told EXCEPT ![c] = s] /\ c \in Command
  <2>1. c \in Command
    BY <1>2 DEF Cci
  <2> QED
    BY <1>1, <1>2, <2>1 DEF Report
<1> HIDE DEF d, e, i, s
<1>7. /\ \A j, k \in Held(drv) : drv.obj[j].of = drv.obj[k].of => j = k
      /\ \A j \in Held(drv) : drv.obj[j].of \in begun
      /\ \A j \in Held(drv) : j # i => told[drv.obj[j].of] = "Nothing"
      /\ \A x \in Command : x \notin begun => told[x] = "Nothing"
  BY <1>2 DEF Apart, i
<1>8. \A j \in Held(drv) : drv.obj[j].of \in Command
  <2>1. \A j \in Held(drv) : drv.obj[j] \in Cci
    BY <1>1, DriverFacts DEF Held, Sound, SoundBut
  <2> QED
    BY <2>1 DEF Cci
<1>9. Held(e) = Held(drv) /\ Telling(drv) = {} /\ Telling(e) = {i}
  BY <1>1, <1>3 DEF Held, Telling
<1>10. Apart(e, begun, told')
  <2>1. Foremost(e)
    BY <1>3 DEF Foremost
  <2>2. \A j \in Held(e) : j # e.current => told'[e.obj[j].of] = "Nothing"
    BY <1>1, <1>2, <1>3, <1>6, <1>7, <1>8, <1>9
  <2>3. \A x \in Command : x \notin begun => told'[x] = "Nothing"
    BY <1>1, <1>2, <1>6, <1>7
  <2>4. \A j, k \in Held(e) : e.obj[j].of = e.obj[k].of => j = k
    BY <1>3, <1>7, <1>9
  <2>5. \A j \in Held(e) : e.obj[j].of \in begun
    BY <1>3, <1>7, <1>9
  <2> QED
    BY <2>1, <2>2, <2>3, <2>4, <2>5 DEF Apart
<1>11. Apart(drv, begun, told)'
  BY <1>1, <1>4, <1>10, ApartNext
<1>12. Opened(drv') = Opened(drv) \ {c}
  BY <1>2, <1>3, <1>4, <1>7, <1>9 DEF Opened
<1>13. c \in Opened(drv) /\ c \in begun
  BY <1>2, <1>7, <1>9 DEF Opened
<1>14. Life[c] = "open" /\ Life' = [Life EXCEPT ![c] = "over"]
  BY <1>1, <1>6, <1>12, <1>13, LifeIs
<1>15. Reports!End(c)
  BY <1>5, <1>6, <1>14 DEF Reports!End
<1> QED
  BY <1>6, <1>11, <1>15 DEF Reports!Next

LEMMA NothingToDoReports ==
    ASSUME ReportInv, NothingToDo
    PROVE  Apart(drv, begun, told)' /\ [Reports!Next]_<<Life, told>>
<1> DEFINE d == Taken
           e == [Taken EXCEPT !.event = FALSE]
<1>1. /\ Sound(drv) /\ Apart(drv, begun, told)
      /\ ~drv.telling /\ drv.event /\ drv.queue # <<>>
      /\ ~Over(Current(d)) /\ Current(d).state # "Normal"
      /\ Becomes(e) /\ begun' = begun /\ told' = told
  BY DEF ReportInv, CommandInv, NothingToDo, ControllerTurn, Idle, DriverThread
<1>2. Apart(d, begun, told) /\ d.obj = drv.obj /\ d.queue = drv.queue /\ ~d.telling
  BY <1>1, TakenApart, TakenFacts
<1>3. Sound(e) /\ e.current = d.current /\ ~e.telling /\ e.queue = drv.queue /\ e.obj = drv.obj
  BY <1>1, NothingToDoFacts
<1>4. drv' = e
  BY <1>1, <1>3, NextState
<1> HIDE DEF d, e
<1>5. Apart(e, begun, told)
  <2>1. Held(e) = Held(d) /\ e.obj = d.obj /\ e.current = d.current
    BY <1>2, <1>3 DEF Held
  <2>2. Foremost(e)
    BY <1>2, <1>3 DEF Apart, Foremost, Running
  <2> QED
    BY <1>2, <2>1, <2>2 DEF Apart
<1>6. Opened(e) = Opened(drv)
  BY <1>1, <1>3 DEF Opened, Held, Telling
<1>7. Apart(drv, begun, told)'
  BY <1>1, <1>4, <1>5, ApartNext
<1>8. [Reports!Next]_<<Life, told>>
  BY <1>1, <1>4, <1>6, OpenedBegun, QuietStep
<1> QED
  BY <1>7, <1>8

LEMMA DeleteCommandReports ==
    ASSUME ReportInv, DeleteCommand
    PROVE  Apart(drv, begun, told)' /\ [Reports!Next]_<<Life, told>>
<1> DEFINE e == [drv EXCEPT !.obj[drv.current] = Null, !.current = Null, !.telling = FALSE]
<1>1. /\ Sound(drv) /\ Apart(drv, begun, told) /\ drv.telling
      /\ Becomes(e) /\ begun' = begun /\ told' = told
  BY DEF ReportInv, CommandInv, DeleteCommand
<1>2. /\ Sound(e) /\ ~Running(e) /\ ~e.telling
      /\ Held(e) = Held(drv) \ {drv.current}
      /\ \A i \in Held(e) : e.obj[i] = drv.obj[i]
  BY <1>1, DeleteCommandFacts
<1>3. drv' = e
  BY <1>1, <1>2, NextState
<1> HIDE DEF e
<1>4. Apart(e, begun, told)
  BY <1>1, <1>2 DEF Apart, Foremost
<1>5. Opened(e) = Opened(drv)
  BY <1>1, <1>2 DEF Opened, Telling
<1>6. Apart(drv, begun, told)'
  BY <1>1, <1>3, <1>4, ApartNext
<1>7. [Reports!Next]_<<Life, told>>
  BY <1>1, <1>3, <1>5, OpenedBegun, QuietStep
<1> QED
  BY <1>6, <1>7

LEMMA StartCommandReports ==
    ASSUME ReportInv, Sleeper = {}, StartCommand
    PROVE  Apart(drv, begun, told)' /\ [Reports!Next]_<<Life, told>>
<1> DEFINE d == Taken
           e == DoControllerCommand(Taken)
<1>1. /\ Sound(drv) /\ Apart(drv, begun, told)
      /\ ~drv.telling /\ drv.event /\ drv.queue # <<>> /\ Free(drv) # {}
      /\ Becomes(e) /\ begun' = begun /\ told' = told
  BY DEF ReportInv, CommandInv, StartCommand, ControllerTurn, Idle, DriverThread, RoomForCopy
<1>2. /\ Apart(d, begun, told) /\ Opened(d) = Opened(drv)
      /\ Sound(d) /\ Running(d) /\ d.obj = drv.obj /\ ~d.telling
  BY <1>1, TakenApart, TakenFacts
<1>3. Free(d) # {}
  BY <1>1, <1>2 DEF Free
<1>4. Follows(d, e)
  BY <1>2, <1>3, DoCommandFacts
<1> HIDE DEF d, e
<1>5. CASE Lost(e)
  <2>1. drv' = drv
    BY <1>1, <1>5 DEF Becomes, Lost, Crashed
  <2> QED
    BY <1>1, <2>1, StutterReports
<1>6. CASE ~Lost(e)
  <2>1. Sound(e) /\ SameObjects(d, e) /\ e.telling = d.telling
    BY <1>4, <1>6, Sleeper = {} DEF Follows
  <2>2. drv' = e
    BY <1>1, <2>1, NextState
  <2>3. /\ Apart(e, begun, told)
        /\ Opened(e) \subseteq Opened(d)
        /\ \A c \in Opened(d) \ Opened(e) : told[c] = "Nothing"
    BY <1>2, <2>1, SameKeeps
  <2>4. Apart(drv, begun, told)'
    BY <1>1, <2>2, <2>3, ApartNext
  <2>5. [Reports!Next]_<<Life, told>>
    BY <1>1, <1>2, <2>2, <2>3, OpenedBegun, QuietStep
  <2> QED
    BY <2>4, <2>5
<1> QED
  BY <1>5, <1>6

LEMMA WriteReports ==
    ASSUME ReportInv, Sleeper = {}, WriteNextMsg
    PROVE  Apart(drv, begun, told)' /\ [Reports!Next]_<<Life, told>>
<1>1. CASE WriteCommandMsg
  <2> DEFINE d == [drv EXCEPT !.msg = Head(drv.sendQueue), !.sendQueue = Tail(@)]
  <2>1. Sound(drv) /\ drv \in Driver
    BY DEF ReportInv, CommandInv, Sound, SoundBut
  <2>2. drv.sendQueue \in Seq(Msg) /\ drv.sendQueue # <<>>
    BY <1>1, <2>1, DriverFacts DEF WriteCommandMsg
  <2>3. Head(drv.sendQueue) \in Msg /\ Tail(drv.sendQueue) \in Seq(Msg)
    BY <2>2, TakeFirst
  <2>4. /\ d \in Driver /\ d.obj = drv.obj /\ d.queue = drv.queue /\ d.event = drv.event
        /\ d.current = drv.current /\ d.telling = drv.telling /\ d.parked = drv.parked
    BY <2>1, <2>3 DEF Driver
  <2>5. Becomes(d) /\ UNCHANGED <<begun, told>>
    BY <1>1 DEF WriteCommandMsg
  <2> HIDE DEF d
  <2>6. Sound(d)
    BY <2>1, <2>4, OtherFieldsOnly
  <2>7. drv' = d
    BY <2>5, <2>6, NextState
  <2>8. SameObjects(drv, d)
    BY <2>4 DEF SameObjects, Held, Foremost, Running
  <2> QED
    BY <2>4, <2>5, <2>7, <2>8, SameReports
<1>2. CASE NothingQueued
  <2>1. drv' = drv
    BY <1>2 DEF NothingQueued, Becomes, Crash, Crashed, ReportInv, CommandInv, Sound, SoundBut, Driver
  <2> QED
    BY <1>2, <2>1, StutterReports DEF NothingQueued
<1> QED
  BY <1>1, <1>2, StartCommandReports, ReportProgressStep, NothingToDoReports, ReportEndStep,
     DeleteCommandReports DEF WriteNextMsg

LEMMA NextReports ==
    ASSUME ReportInv, Sleeper = {}, [Next]_vars
    PROVE  ReportInv' /\ [Reports!Next]_<<Life, told>>
<1>1. CommandInv'
  BY NextKeeps DEF ReportInv
<1>2. ASSUME NEW n \in Node PROVE ~(MessageForSleeper(n) \/ NodeSleeps(n) \/ NodeWakes(n))
  BY Sleeper = {} DEF MessageForSleeper, NodeSleeps, NodeWakes, Asleep
<1> DEFINE goal == Apart(drv, begun, told)' /\ [Reports!Next]_<<Life, told>>
<1>3. ASSUME UNCHANGED vars PROVE goal
  <2>1. drv' = drv /\ UNCHANGED <<begun, told>>
    BY <1>3 DEF vars
  <2> QED
    BY <2>1, StutterReports
<1>4. ASSUME \E c \in Command : BeginControllerCommand(c) PROVE goal
  BY <1>4, BeginReports
<1>5. ASSUME WriteNextMsg PROVE goal
  BY <1>5, WriteReports
<1>6. ASSUME Driven PROVE goal
  BY <1>6, DrivenReports
<1>7. ASSUME ProcessIsFailedNode PROVE goal
  BY <1>7, FailedNodeReports
<1> HIDE DEF goal
<1>8. goal
  BY <1>2, <1>3, <1>4, <1>5, <1>6, <1>7 DEF Next, Controller, Driven
<1> QED
  BY <1>1, <1>8 DEF ReportInv, goal

LEMMA InitReports == Init => ReportInv /\ Reports!Init
<1> SUFFICES ASSUME Init PROVE ReportInv /\ Reports!Init
  OBVIOUS
<1>1. CommandInv
  BY InitInv
<1>2. drv.obj = [i \in Item |-> Null] /\ drv.queue = <<>> /\ drv.current = Null /\ ~drv.telling
  BY DEF Init
<1>3. Held(drv) = {} /\ ~Running(drv) /\ begun = {} /\ told = [c \in Command |-> "Nothing"]
  BY <1>2 DEF Init, Held, Running
<1>4. Apart(drv, begun, told)
  BY <1>3 DEF Apart, Foremost
<1>5. Life = [c \in Command |-> "idle"]
  BY <1>3, LifeIs
<1> QED
  BY <1>1, <1>3, <1>4, <1>5 DEF ReportInv, Reports!Init

(***************************************************************************)
(* Each command's callback is given reports of progress, one report of the *)
(* end and nothing after it, and a command that is deleted without a word  *)
(* was never started: the steps of Driver.cpp are those of CommandReports. *)
(* It is so where no node sleeps; a command that moves to the wake-up      *)
(* queue of a node is reported as sleeping and then begun and reported     *)
(* anew.                                                                   *)
(***************************************************************************)
THEOREM ReportsOnceCorrect ==
    ASSUME Sleeper = {}
    PROVE  Spec => ReportsOnce
<1>1. ReportInv /\ [Next]_vars => ReportInv' /\ [Reports!Next]_<<Life, told>>
  BY NextReports
<1>2. Init => ReportInv /\ Reports!Init
  BY InitReports
<1> QED
  BY <1>1, <1>2, PTL DEF Spec, ReportsOnce, Reports!Spec
=============================================================================
