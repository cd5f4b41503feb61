--------------------------- MODULE SequenceLemmas ---------------------------
(***************************************************************************)
(* Facts about sequences that the proofs about queues and lists share.     *)
(***************************************************************************)
EXTENDS Lists, SequencesExt, SequenceTheorems, FiniteSetTheorems, WellFoundedInduction,
        TLAPS

(* A set of numbers has a smallest one. *)
LEMMA SmallestExists ==
    ASSUME NEW T, T \subseteq Nat, T # {}
    PROVE  \E m \in T : \A k \in T : m <= k
<1> DEFINE R == {ss \in Nat \X Nat : ss[1] < ss[2]}
<1>1. IsWellFoundedOn(R, Nat)
  BY NatLessThanWellFounded DEF OpToRel
<1>2. PICK m \in T : \A k \in T : <<k, m>> \notin R
  <2> HIDE DEF R
  <2> QED
    BY <1>1, WFMin
<1>3. \A k \in T : ~(k < m)
  BY <1>2
<1> QED
  BY <1>3

(* Removing one element of a sequence leaves a sequence of the others. *)
LEMMA RemoveAtType ==
    ASSUME NEW S, NEW s \in Seq(S), NEW i \in 1..Len(s)
    PROVE  /\ RemoveAt(s, i) \in Seq(S)
           /\ Len(RemoveAt(s, i)) = Len(s) - 1
           /\ \A j \in 1..(Len(s) - 1) :
                 RemoveAt(s, i)[j] = IF j < i THEN s[j] ELSE s[j + 1]
<1>1. Len(s) \in Nat
  BY LenProperties
<1> DEFINE a == SubSeq(s, 1, i - 1)
           b == SubSeq(s, i + 1, Len(s))
<1>2. a \in Seq(S) /\ Len(a) = i - 1 /\ \A j \in 1..(i - 1) : a[j] = s[j]
  BY <1>1
<1>3. b \in Seq(S) /\ Len(b) = Len(s) - i /\ \A j \in 1..(Len(s) - i) : b[j] = s[i + j]
  BY <1>1
<1> HIDE DEF a, b
<1>4. /\ a \o b \in Seq(S)
      /\ Len(a \o b) = Len(a) + Len(b)
      /\ \A j \in 1..(Len(a) + Len(b)) :
            (a \o b)[j] = IF j <= Len(a) THEN a[j] ELSE b[j - Len(a)]
  BY <1>2, <1>3, ConcatProperties
<1>5. Len(a) + Len(b) = Len(s) - 1
  BY <1>1, <1>2, <1>3
<1>6. \A j \in 1..(Len(s) - 1) : (a \o b)[j] = IF j < i THEN s[j] ELSE s[j + 1]
  <2> SUFFICES ASSUME NEW j \in 1..(Len(s) - 1)
               PROVE  (a \o b)[j] = IF j < i THEN s[j] ELSE s[j + 1]
    OBVIOUS
  <2>1. CASE j < i
    BY <1>1, <1>2, <1>4, <1>5, <2>1
  <2>2. CASE ~(j < i)
    <3>1. j - (i - 1) \in 1..(Len(s) - i) /\ i + (j - (i - 1)) = j + 1
      BY <1>1, <2>2
    <3>2. (a \o b)[j] = b[j - (i - 1)]
      BY <1>1, <1>2, <1>4, <1>5, <2>2
    <3> QED
      BY <1>3, <2>2, <3>1, <3>2
  <2> QED
    BY <2>1, <2>2
<1> QED
  BY <1>4, <1>5, <1>6 DEF RemoveAt, a, b
-----------------------------------------------------------------------------
(* A sequence of objects with an id, and whether the one with the id m is in it. *)
In(s, m)   == \E i \in DOMAIN s : s[i].id = m
Once(s, m) == \A i, j \in DOMAIN s : s[i].id = m /\ s[j].id = m => i = j

(* push_back *)
LEMMA AppendHolds ==
    ASSUME NEW S, NEW s \in Seq(S), NEW x \in S, NEW m
    PROVE  /\ In(Append(s, x), m) <=> In(s, m) \/ x.id = m
           /\ Once(s, m) /\ (x.id = m => ~In(s, m)) => Once(Append(s, x), m)
<1> DEFINE r == Append(s, x)
<1>1. Len(s) \in Nat /\ DOMAIN s = 1..Len(s)
  BY LenProperties
<1>2. /\ DOMAIN r = 1..(Len(s) + 1) /\ r[Len(s) + 1] = x
      /\ \A i \in 1..Len(s) : r[i] = s[i]
  <2>1. r \in Seq(S) /\ Len(r) = Len(s) + 1 /\ \A i \in 1..Len(s) : r[i] = s[i]
    BY <1>1, AppendProperties
  <2>2. r[Len(s) + 1] = x
    BY AppendProperties
  <2> HIDE DEF r
  <2> QED
    BY <2>1, <2>2, LenProperties
<1> HIDE DEF r
<1>3. Len(s) + 1 \in DOMAIN r /\ \A i \in DOMAIN s : i \in DOMAIN r
  BY <1>1, <1>2
<1>4. \A i \in DOMAIN r : i \in DOMAIN s \/ i = Len(s) + 1
  BY <1>1, <1>2
<1>5. In(r, m) <=> In(s, m) \/ x.id = m
  BY <1>1, <1>2, <1>3, <1>4 DEF In
<1>6. Once(s, m) /\ (x.id = m => ~In(s, m)) => Once(r, m)
  BY <1>1, <1>2, <1>4 DEF In, Once
<1> QED
  BY <1>5, <1>6 DEF r

(* front and pop_front *)
LEMMA TailHolds ==
    ASSUME NEW S, NEW s \in Seq(S), s # <<>>, NEW m
    PROVE  /\ In(s, m) <=> Head(s).id = m \/ In(Tail(s), m)
           /\ Once(s, m) => /\ Once(Tail(s), m)
                            /\ Head(s).id = m => ~In(Tail(s), m)
<1> DEFINE r == Tail(s)
<1>1. Len(s) \in Nat /\ Len(s) > 0 /\ DOMAIN s = 1..Len(s) /\ Head(s) = s[1]
  BY LenProperties, HeadTailProperties, EmptySeq
<1>2. DOMAIN r = 1..(Len(s) - 1) /\ \A i \in 1..(Len(s) - 1) : r[i] = s[i + 1]
  <2>1. r \in Seq(S) /\ Len(r) = Len(s) - 1 /\ \A i \in 1..Len(r) : r[i] = s[i + 1]
    BY HeadTailProperties
  <2> QED
    BY <2>1, LenProperties
<1> HIDE DEF r
<1>3. 1 \in DOMAIN s /\ \A i \in DOMAIN r : i + 1 \in DOMAIN s /\ i + 1 # 1 /\ r[i] = s[i + 1]
  BY <1>1, <1>2
<1>4. \A i \in DOMAIN s : i = 1 \/ (i - 1 \in DOMAIN r /\ r[i - 1] = s[i])
  BY <1>1, <1>2
<1>5. In(s, m) <=> Head(s).id = m \/ In(r, m)
  BY <1>1, <1>3, <1>4 DEF In
<1>6. Once(s, m) => Once(r, m)
  BY <1>2, <1>3 DEF Once
<1>7. Once(s, m) /\ Head(s).id = m => ~In(r, m)
  BY <1>1, <1>3 DEF Once, In
<1> QED
  BY <1>5, <1>6, <1>7 DEF r

(* erase *)
LEMMA RemoveAtHolds ==
    ASSUME NEW S, NEW s \in Seq(S), NEW k \in 1..Len(s), NEW m
    PROVE  /\ In(s, m) <=> s[k].id = m \/ In(RemoveAt(s, k), m)
           /\ Once(s, m) => /\ Once(RemoveAt(s, k), m)
                            /\ s[k].id = m => ~In(RemoveAt(s, k), m)
<1> DEFINE r == RemoveAt(s, k)
           up(j) == IF j < k THEN j ELSE j + 1
<1>1. Len(s) \in Nat /\ DOMAIN s = 1..Len(s)
  BY LenProperties
<1>2. DOMAIN r = 1..(Len(s) - 1) /\ \A j \in DOMAIN r : r[j] = s[up(j)]
  <2>1. r \in Seq(S) /\ Len(r) = Len(s) - 1
        /\ \A j \in 1..(Len(s) - 1) : r[j] = IF j < k THEN s[j] ELSE s[j + 1]
    BY RemoveAtType
  <2> HIDE DEF r
  <2>2. DOMAIN r = 1..(Len(s) - 1)
    BY <2>1, LenProperties
  <2> QED
    BY <2>1, <2>2
<1> HIDE DEF r
<1>3. \A j \in DOMAIN r : up(j) \in DOMAIN s /\ up(j) # k
  BY <1>1, <1>2
<1>4. \A i, j \in DOMAIN r : up(i) = up(j) => i = j
  BY <1>1, <1>2
<1>5. \A i \in DOMAIN s : i = k \/ \E j \in DOMAIN r : up(j) = i
  <2> SUFFICES ASSUME NEW i \in 1..Len(s), i # k PROVE \E j \in DOMAIN r : up(j) = i
    BY <1>1
  <2>1. CASE i < k
    <3>1. i \in 1..(Len(s) - 1) /\ up(i) = i
      BY <1>1, <2>1
    <3> QED
      BY <1>2, <3>1
  <2>2. CASE i > k
    <3>1. i - 1 \in 1..(Len(s) - 1) /\ up(i - 1) = i
      BY <1>1, <2>2
    <3> QED
      BY <1>2, <3>1
  <2> QED
    BY <1>1, <2>1, <2>2
<1> HIDE DEF up
<1>6. In(s, m) <=> s[k].id = m \/ In(r, m)
  BY <1>1, <1>2, <1>3, <1>5 DEF In
<1>7. Once(s, m) => Once(r, m)
  BY <1>2, <1>3, <1>4 DEF Once
<1>8. Once(s, m) /\ s[k].id = m => ~In(r, m)
  BY <1>1, <1>2, <1>3 DEF Once, In
<1> QED
  BY <1>6, <1>7, <1>8 DEF r

(* What is in a list, and that nothing is in it twice, when one is put at its end,    *)
(* when two are joined and when the first is taken off.                              *)
LEMMA AppendOne ==
    ASSUME NEW S, NEW s \in Seq(S), NEW x \in S
    PROVE  /\ Append(s, x) \in Seq(S) /\ Append(s, x) # <<>>
           /\ Range(Append(s, x)) = Range(s) \cup {x}
           /\ IsInjective(s) /\ x \notin Range(s) => IsInjective(Append(s, x))
           /\ Head(Append(s, x)) = IF s = <<>> THEN x ELSE Head(s)
<1> DEFINE r == Append(s, x)
<1>1. Len(s) \in Nat /\ DOMAIN s = 1..Len(s)
  BY LenProperties
<1>2. /\ r \in Seq(S) /\ r # <<>> /\ Len(r) = Len(s) + 1 /\ DOMAIN r = 1..(Len(s) + 1)
      /\ \A i \in 1..Len(s) : r[i] = s[i]
      /\ r[Len(s) + 1] = x
  BY AppendProperties, LenProperties
<1>3. Head(r) = r[1] /\ (s # <<>> => Head(s) = s[1] /\ Len(s) > 0) /\ (s = <<>> => Len(s) = 0)
  BY <1>1, <1>2, EmptySeq, HeadTailProperties
<1> HIDE DEF r
<1>4. Range(r) = Range(s) \cup {x}
  <2>1. ASSUME NEW y \in Range(r) PROVE y \in Range(s) \cup {x}
    BY <1>1, <1>2, <2>1 DEF Range
  <2>2. ASSUME NEW y \in Range(s) \cup {x} PROVE y \in Range(r)
    <3>1. \A i \in 1..Len(s) : i \in 1..(Len(s) + 1)
      BY <1>1
    <3>2. Len(s) + 1 \in 1..(Len(s) + 1)
      BY <1>1
    <3> QED
      BY <1>1, <1>2, <2>2, <3>1, <3>2 DEF Range
  <2> QED
    BY <2>1, <2>2
<1>5. ASSUME IsInjective(s), x \notin Range(s) PROVE IsInjective(r)
  BY <1>1, <1>2, <1>5 DEF IsInjective, Range
<1>6. Head(r) = IF s = <<>> THEN x ELSE Head(s)
  BY <1>1, <1>2, <1>3
<1> QED
  BY <1>2, <1>4, <1>5, <1>6 DEF r

LEMMA JoinTwo ==
    ASSUME NEW S, NEW s \in Seq(S), NEW t \in Seq(S)
    PROVE  /\ s \o t \in Seq(S)
           /\ Range(s \o t) = Range(s) \cup Range(t)
           /\ IsInjective(s) /\ IsInjective(t) /\ Range(s) \cap Range(t) = {} =>
                 IsInjective(s \o t)
           /\ s # <<>> => s \o t # <<>> /\ Head(s \o t) = Head(s)
           /\ t # <<>> => s \o t # <<>>
<1> DEFINE r == s \o t
<1>1. /\ Len(s) \in Nat /\ DOMAIN s = 1..Len(s) /\ Len(t) \in Nat /\ DOMAIN t = 1..Len(t)
      /\ (s # <<>> => Len(s) > 0 /\ Head(s) = s[1]) /\ (t # <<>> => Len(t) > 0)
  BY LenProperties, EmptySeq, HeadTailProperties
<1>2. /\ r \in Seq(S) /\ Len(r) = Len(s) + Len(t) /\ DOMAIN r = 1..(Len(s) + Len(t))
      /\ \A i \in 1..(Len(s) + Len(t)) : r[i] = IF i <= Len(s) THEN s[i] ELSE t[i - Len(s)]
  BY ConcatProperties, LenProperties
<1>3. Len(r) > 0 => r # <<>> /\ Head(r) = r[1]
  BY <1>2, EmptySeq, HeadTailProperties
<1>4. Range(r) = Range(s) \cup Range(t)
  BY RangeConcatenation
<1> HIDE DEF r
<1>5. ASSUME IsInjective(s), IsInjective(t), Range(s) \cap Range(t) = {} PROVE IsInjective(r)
  <2> SUFFICES ASSUME NEW i \in DOMAIN r, NEW j \in DOMAIN r, r[i] = r[j] PROVE i = j
    BY DEF IsInjective
  <2>1. \A k \in DOMAIN r : IF k <= Len(s) THEN k \in DOMAIN s /\ r[k] \in Range(s)
                            ELSE k - Len(s) \in DOMAIN t /\ r[k] \in Range(t)
    BY <1>1, <1>2 DEF Range
  <2>2. i <= Len(s) <=> j <= Len(s)
    BY <1>5, <2>1
  <2>3. CASE i <= Len(s)
    BY <1>2, <1>5, <2>1, <2>2, <2>3 DEF IsInjective
  <2>4. CASE ~(i <= Len(s))
    <3>1. i - Len(s) = j - Len(s)
      BY <1>2, <1>5, <2>1, <2>2, <2>4 DEF IsInjective
    <3> QED
      BY <1>1, <1>2, <3>1
  <2> QED
    BY <2>3, <2>4
<1> QED
  BY <1>1, <1>2, <1>3, <1>4, <1>5 DEF r

LEMMA TakeFirst ==
    ASSUME NEW S, NEW s \in Seq(S), s # <<>>
    PROVE  /\ Tail(s) \in Seq(S) /\ Head(s) \in S /\ Head(s) \in Range(s)
           /\ Range(s) = Range(Tail(s)) \cup {Head(s)}
           /\ IsInjective(s) => IsInjective(Tail(s)) /\ Head(s) \notin Range(Tail(s))
<1> DEFINE r == Tail(s)
<1>1. Len(s) \in Nat /\ Len(s) > 0 /\ DOMAIN s = 1..Len(s) /\ Head(s) = s[1]
  BY LenProperties, EmptySeq, HeadTailProperties
<1>2. /\ r \in Seq(S) /\ DOMAIN r = 1..(Len(s) - 1) /\ s[1] \in S
      /\ \A i \in 1..(Len(s) - 1) : r[i] = s[i + 1]
  BY <1>1, LenProperties, HeadTailProperties
<1> HIDE DEF r
<1>3. ASSUME NEW y \in Range(s) PROVE y \in Range(r) \cup {s[1]}
  <2>1. PICK i \in 1..Len(s) : s[i] = y
    BY <1>1 DEF Range
  <2>2. CASE i > 1
    <3>1. i - 1 \in 1..(Len(s) - 1) /\ (i - 1) + 1 = i
      BY <1>1, <2>2
    <3> QED
      BY <1>2, <2>1, <3>1 DEF Range
  <2> QED
    BY <1>1, <2>1, <2>2
<1>4. ASSUME NEW y \in Range(r) PROVE \E i \in DOMAIN s : i # 1 /\ s[i] = y
  <2>1. PICK i \in 1..(Len(s) - 1) : s[i + 1] = y
    BY <1>2 DEF Range
  <2>2. i + 1 \in 1..Len(s) /\ i + 1 # 1
    BY <1>1
  <2> QED
    BY <1>1, <2>1, <2>2
<1>5. s[1] \in Range(s) /\ 1 \in DOMAIN s
  BY <1>1 DEF Range
<1>6. Range(s) = Range(r) \cup {s[1]}
  BY <1>3, <1>4, <1>5 DEF Range
<1>7. ASSUME IsInjective(s) PROVE IsInjective(r) /\ s[1] \notin Range(r)
  <2>1. ASSUME NEW i \in DOMAIN r, NEW j \in DOMAIN r, r[i] = r[j] PROVE i = j
    <3>1. i + 1 \in DOMAIN s /\ j + 1 \in DOMAIN s /\ s[i + 1] = s[j + 1]
      BY <1>1, <1>2, <2>1
    <3>2. i + 1 = j + 1
      BY <1>7, <3>1 DEF IsInjective
    <3> QED
      BY <1>2, <3>2
  <2>2. s[1] \notin Range(r)
    BY <1>4, <1>5, <1>7 DEF IsInjective
  <2> QED
    BY <2>1, <2>2 DEF IsInjective
<1> QED
  BY <1>1, <1>2, <1>5, <1>6, <1>7 DEF r
-----------------------------------------------------------------------------
(* What Sublist leaves of a list: Upto is the number of places kept that are *)
(* not after a place.                                                       *)
Upto(kept, k) == Cardinality({l \in kept : l <= k})

LEMMA UptoFacts ==
    ASSUME NEW S, NEW list \in Seq(S), NEW kept, kept \subseteq DOMAIN list
    PROVE  /\ Cardinality(kept) \in Nat
           /\ \A k \in 0..Len(list) : Upto(kept, k) \in Nat
           /\ Upto(kept, 0) = 0
           /\ Upto(kept, Len(list)) = Cardinality(kept)
           /\ \A k \in 1..Len(list) :
                 Upto(kept, k) = IF k \in kept THEN Upto(kept, k - 1) + 1
                                 ELSE Upto(kept, k - 1)
           /\ \A k \in kept : Upto(kept, k) \in 1..Cardinality(kept)
           /\ \A j, k \in kept : j < k => Upto(kept, j) < Upto(kept, k)
<1> DEFINE Till(k) == {l \in kept : l <= k}
           U(k) == Upto(kept, k)
<1>1. Len(list) \in Nat /\ DOMAIN list = 1..Len(list) /\ kept \subseteq 1..Len(list)
  BY LenProperties
<1>2. IsFiniteSet(kept) /\ Cardinality(kept) \in Nat
  <2>1. IsFiniteSet(1..Len(list)) /\ kept \in SUBSET (1..Len(list))
    BY <1>1, FS_Interval
  <2>2. IsFiniteSet(kept)
    BY <2>1, FS_Subset
  <2> QED
    BY <2>2, FS_CardinalityType
<1>3. ASSUME NEW k \in Int
      PROVE  IsFiniteSet(Till(k)) /\ Cardinality(Till(k)) \in Nat /\ U(k) = Cardinality(Till(k))
  <2>1. IsFiniteSet(Till(k))
    BY <1>2, FS_Subset
  <2> QED
    BY <2>1, FS_CardinalityType DEF Upto
<1>4. U(0) = 0
  <2>1. Till(0) = {}
    BY <1>1
  <2> QED
    BY <1>3, <2>1, FS_EmptySet
<1>5. U(Len(list)) = Cardinality(kept)
  <2>1. Till(Len(list)) = kept
    BY <1>1
  <2> QED
    BY <1>1, <1>3, <2>1
<1>6. ASSUME NEW k \in 1..Len(list)
      PROVE  U(k) = IF k \in kept THEN U(k - 1) + 1 ELSE U(k - 1)
  <2>1. k \in Int /\ k - 1 \in Int
    OBVIOUS
  <2>2. Till(k) = IF k \in kept THEN Till(k - 1) \cup {k} ELSE Till(k - 1)
    BY <1>1
  <2>3. k \notin Till(k - 1)
    BY <1>1
  <2> DEFINE before == Till(k - 1)
  <2>4. /\ IsFiniteSet(before) /\ Cardinality(before) \in Nat /\ U(k - 1) = Cardinality(before)
        /\ U(k) = Cardinality(Till(k)) /\ k \notin before
        /\ Till(k) = IF k \in kept THEN before \cup {k} ELSE before
    BY <1>3, <2>1, <2>2, <2>3
  <2> HIDE DEF before, Till, U
  <2>5. Cardinality(before \cup {k}) = Cardinality(before) + 1
    BY <2>4, FS_AddElement
  <2> QED
    BY <2>4, <2>5
<1>7. ASSUME NEW j \in Int, NEW k \in Int, j <= k PROVE U(j) <= U(k)
  <2>1. Till(j) \in SUBSET Till(k)
    BY <1>1, <1>7
  <2>2. IsFiniteSet(Till(k)) /\ U(j) = Cardinality(Till(j)) /\ U(k) = Cardinality(Till(k))
    BY <1>3
  <2> HIDE DEF Till, U
  <2> QED
    BY <2>1, <2>2, FS_Subset
<1>8. ASSUME NEW k \in kept PROVE U(k) \in 1..Cardinality(kept)
  <2>1. k \in 1..Len(list) /\ k \in Int /\ k - 1 \in Int /\ Len(list) \in Int /\ k <= Len(list)
    BY <1>1
  <2>2. U(k) = U(k - 1) + 1 /\ U(k - 1) \in Nat /\ U(k) <= U(Len(list))
    BY <1>3, <1>6, <1>7, <2>1
  <2> HIDE DEF U
  <2> QED
    BY <1>2, <1>5, <2>2
<1>9. ASSUME NEW j \in kept, NEW k \in kept, j < k PROVE U(j) < U(k)
  <2>1. k \in 1..Len(list) /\ j \in Int /\ k - 1 \in Int /\ j <= k - 1
    BY <1>1, <1>9
  <2>2. U(k) = U(k - 1) + 1 /\ U(j) <= U(k - 1) /\ U(j) \in Nat /\ U(k - 1) \in Nat
    BY <1>3, <1>6, <1>7, <2>1
  <2> HIDE DEF U
  <2> QED
    BY <2>2
<1> QED
  <2>1. \A k \in 0..Len(list) : U(k) \in Nat
    <3>1. \A k \in 0..Len(list) : k \in Int
      BY <1>1
    <3> HIDE DEF Till, U
    <3> QED
      BY <1>3, <3>1
  <2> HIDE DEF Till
  <2> QED
    BY <1>2, <1>4, <1>5, <1>6, <1>8, <1>9, <2>1

(* Every rank is that of one place. *)
LEMMA PlaceExists ==
    ASSUME NEW S, NEW list \in Seq(S), NEW kept, kept \subseteq DOMAIN list,
           NEW j \in 1..Cardinality(kept)
    PROVE  \E k \in kept : Upto(kept, k) = j
<1> DEFINE U(k) == Upto(kept, k)
           T == {k \in 0..Len(list) : U(k) >= j}
<1>1. /\ Len(list) \in Nat /\ Cardinality(kept) \in Nat
      /\ \A k \in 0..Len(list) : U(k) \in Nat
      /\ U(0) = 0 /\ U(Len(list)) = Cardinality(kept)
      /\ \A k \in 1..Len(list) : U(k) = IF k \in kept THEN U(k - 1) + 1 ELSE U(k - 1)
  BY UptoFacts
<1> HIDE DEF U
<1>2. T \subseteq Nat /\ Len(list) \in T
  BY <1>1
<1>3. PICK m \in T : \A k \in T : m <= k
  BY <1>2, SmallestExists
<1>4. m \in 1..Len(list) /\ m - 1 \in 0..Len(list)
  BY <1>1, <1>3
<1>5. U(m - 1) < j
  BY <1>1, <1>3, <1>4
<1>6. m \in kept /\ U(m) = j
  BY <1>1, <1>3, <1>4, <1>5
<1> QED
  BY <1>6 DEF U

(* Sublist keeps the elements at the places kept, in their order: s[j] is the *)
(* element that was at place[j].                                            *)
Picks(s, list, kept, place) ==
    /\ place \in [DOMAIN s -> kept]
    /\ \A j \in DOMAIN s : s[j] = list[place[j]]
    /\ \A i, j \in DOMAIN s : i < j => place[i] < place[j]
    /\ \A k \in kept : \E j \in DOMAIN s : place[j] = k

LEMMA SublistPlaces ==
    ASSUME NEW S, NEW list \in Seq(S), NEW kept, kept \subseteq DOMAIN list
    PROVE  /\ Sublist(list, kept) \in Seq(S)
           /\ \E place : Picks(Sublist(list, kept), list, kept, place)
<1> DEFINE U(k) == Upto(kept, k)
           size == Cardinality(kept)
           Place(j) == CHOOSE k \in kept : U(k) = j
           w == [j \in 1..size |-> list[Place(j)]]
           f == [j \in 1..size |-> Place(j)]
           id == [k \in kept |-> k]
<1>1. Sublist(list, kept) = IF kept = DOMAIN list THEN list ELSE w
  BY DEF Sublist, Upto
<1>2. /\ Len(list) \in Nat /\ DOMAIN list = 1..Len(list) /\ kept \subseteq 1..Len(list)
      /\ \A k \in 1..Len(list) : list[k] \in S
  BY LenProperties
<1>3. /\ size \in Nat
      /\ \A k \in kept : U(k) \in 1..size
      /\ \A j, k \in kept : j < k => U(j) < U(k)
  BY UptoFacts
<1>4. \A j \in 1..size : \E k \in kept : U(k) = j
  BY PlaceExists
<1> HIDE DEF U, size
<1>5. \A j \in 1..size : Place(j) \in kept /\ U(Place(j)) = j
  BY <1>4
<1>6. \A k \in kept : Place(U(k)) = k
  <2> SUFFICES ASSUME NEW k \in kept PROVE Place(U(k)) = k
    OBVIOUS
  <2>1. Place(U(k)) \in kept /\ U(Place(U(k))) = U(k) /\ U(k) \in Int
    BY <1>3, <1>5
  <2>2. \A l \in kept : l \in Int
    BY <1>2
  <2> HIDE DEF Place
  <2>3. ~(Place(U(k)) < k) /\ ~(k < Place(U(k)))
    BY <1>3, <2>1
  <2> QED
    BY <2>1, <2>2, <2>3
<1>7. ASSUME NEW i \in 1..size, NEW j \in 1..size, i < j PROVE Place(i) < Place(j)
  <2>1. Place(i) \in kept /\ U(Place(i)) = i /\ Place(j) \in kept /\ U(Place(j)) = j
    BY <1>5
  <2>2. \A l \in kept : l \in Int
    BY <1>2
  <2> HIDE DEF Place
  <2>3. ~(Place(j) < Place(i)) /\ Place(i) # Place(j)
    BY <1>3, <1>7, <2>1
  <2> QED
    BY <2>1, <2>2, <2>3
<1>8. w \in Seq(S) /\ DOMAIN w = 1..size /\ f \in [1..size -> kept]
  <2>1. \A j \in 1..size : list[Place(j)] \in S
    BY <1>2, <1>5
  <2>2. w \in [1..size -> S]
    BY <2>1
  <2>3. f \in [1..size -> kept]
    BY <1>5
  <2>4. DOMAIN w = 1..size
    OBVIOUS
  <2> HIDE DEF w, f
  <2>5. w \in Seq(S)
    BY <1>3, <2>2, SeqDef
  <2> QED
    BY <2>3, <2>4, <2>5
<1>9. CASE kept = DOMAIN list
  <2>1. Sublist(list, kept) = list /\ id \in [DOMAIN list -> kept]
    BY <1>1, <1>9
  <2>2. \A j \in DOMAIN list : id[j] = j
    BY <1>9
  <2> HIDE DEF id
  <2>3. Picks(list, list, kept, id)
    BY <1>9, <2>1, <2>2 DEF Picks
  <2> QED
    BY <2>1, <2>3
<1>10. CASE kept # DOMAIN list
  <2>1. Sublist(list, kept) = w
    BY <1>1, <1>10
  <2>2. \A j \in 1..size : w[j] = list[f[j]] /\ f[j] = Place(j)
    OBVIOUS
  <2> HIDE DEF w, f, Place
  <2>3. \A k \in kept : U(k) \in 1..size /\ f[U(k)] = k
    BY <1>3, <1>6, <2>2
  <2>4. \A i, j \in 1..size : i < j => f[i] < f[j]
    BY <1>7, <2>2
  <2>5. \A k \in kept : \E j \in 1..size : f[j] = k
    BY <2>3
  <2>6. Picks(w, list, kept, f)
    BY <1>8, <2>2, <2>4, <2>5 DEF Picks
  <2> QED
    BY <1>8, <2>1, <2>6
<1> QED
  BY <1>9, <1>10

(* So the values kept are the ones at the places kept. *)
LEMMA SublistRange ==
    ASSUME NEW S, NEW list \in Seq(S), NEW kept, kept \subseteq DOMAIN list
    PROVE  /\ Sublist(list, kept) \in Seq(S)
           /\ Range(Sublist(list, kept)) = {list[k] : k \in kept}
<1> DEFINE w == Sublist(list, kept)
<1>1. w \in Seq(S)
  BY SublistPlaces
<1>2. PICK place : Picks(w, list, kept, place)
  BY SublistPlaces
<1> HIDE DEF w
<1>3. ASSUME NEW x \in Range(w) PROVE x \in {list[k] : k \in kept}
  <2>1. PICK j \in DOMAIN w : w[j] = x
    BY DEF Range
  <2> QED
    BY <1>2, <2>1 DEF Picks
<1>4. ASSUME NEW k \in kept PROVE list[k] \in Range(w)
  <2>1. PICK j \in DOMAIN w : place[j] = k
    BY <1>2 DEF Picks
  <2>2. w[j] = list[k]
    BY <1>2, <2>1 DEF Picks
  <2> QED
    BY <2>2 DEF Range
<1> QED
  BY <1>1, <1>3, <1>4 DEF w
=============================================================================
