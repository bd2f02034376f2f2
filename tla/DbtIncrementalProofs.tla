------------------------ MODULE DbtIncrementalProofs ------------------------
(***************************************************************************)
(* Proofs about DbtIncremental for every number of dates and faults.  What *)
(* the models compute from the observations of a table only depends on the *)
(* set that staging leaves of them, so the first part is about such sets:  *)
(* how a newer observation changes the set, its versions and the version   *)
(* in effect at a date.  The second part is the joins: which tables can be *)
(* in Bronze without which others.  The third is the facts.                *)
(***************************************************************************)
EXTENDS DbtIncremental, FiniteSetTheorems, WellFoundedInduction, TLAPS

-----------------------------------------------------------------------------
(* The models over a set of observations.                                  *)

StagedOf(q) ==
  {q[i] : i \in
     {j \in DOMAIN q :
        /\ ~q[j].rejected
        /\ \A k \in DOMAIN q : ~q[k].rejected /\ q[k].at = q[j].at => k <= j}}

CurrentOf(S) == {o \in S : \A p \in S : p.at <= o.at}

VersionsOf(S) ==
  {o \in S : \A p \in S :
     p.at < o.at /\ (\A q \in S : q.at <= p.at \/ o.at <= q.at)
       => p.attr # o.attr}

FromOf(S, v) == IF \A p \in S : v.at <= p.at THEN 0 ELSE v.at

KeyOf(S, v) == [from |-> FromOf(S, v), attr |-> v.attr]

DimKeysOf(S) == {KeyOf(S, v) : v \in VersionsOf(S)}

BegunOf(S, d) == {v \in VersionsOf(S) : FromOf(S, v) <= d}

LatestOf(V) == CHOOSE v \in V : \A p \in V : p.at <= v.at

KeyAtOf(S, d) ==
  IF BegunOf(S, d) = {} THEN NoKey ELSE KeyOf(S, LatestOf(BegunOf(S, d)))

\* The observations of one table have different timestamps.
Distinct(S) == \A a, b \in S : a.at = b.at => a = b

\* A set of observations after a newer one, or the newest one again.
Observed(S, x) == {o \in S : o.at # x.at} \cup {x}

MayObserve(S, x) ==
  \A o \in S : o.at <= x.at /\ (o.at = x.at => o.attr = x.attr)

\* The facts from what is current in the two tables and the keys of the first.
FactOf(k, name, root, second, keys) ==
  [fact |-> name, root |-> At(root),
   detail |-> IF k = "order" THEN At(second) ELSE 0, keys |-> keys]

FullOf(k, root, second, keys) ==
  IF k = "order"
  THEN {FactOf(k, "root", root, second, keys) : o \in root}
         \cup {FactOf(k, "detail", root, second, keys) : o \in second}
  ELSE {FactOf(k, "root", root, second, keys) : o \in
          {p \in root : second # {} /\ \A t \in DOMAIN keys : keys[t] # NoKey}}

FactKeys ==
  IF CurrentOf(StagedOf(bronze[Root])) = {} THEN [t \in Axes |-> NoKey]
  ELSE [t \in Axes |-> KeyAtOf(StagedOf(bronze[t]), born)]

\* These are the operators of DbtIncremental.
LEMMA StagedIs ==
  ASSUME NEW t
  PROVE  Staged(t) = StagedOf(bronze[t])
  BY DEF Staged, StagedOf

LEMMA ModelsAre ==
  ASSUME NEW t
  PROVE  /\ Current(t) = CurrentOf(StagedOf(bronze[t]))
         /\ DimKeys(t) = DimKeysOf(StagedOf(bronze[t]))
         /\ KeyAt(t) = KeyAtOf(StagedOf(bronze[t]), born)
<1>1. Versions(t) = VersionsOf(StagedOf(bronze[t]))
  BY StagedIs DEF Versions, VersionsOf
<1>2. \A v : /\ EffectiveFrom(t, v) = FromOf(StagedOf(bronze[t]), v)
             /\ VersionKey(t, v) = KeyOf(StagedOf(bronze[t]), v)
  BY StagedIs DEF EffectiveFrom, VersionKey, IsFirst, FromOf, KeyOf
<1>3. DimKeys(t) = DimKeysOf(StagedOf(bronze[t]))
  BY <1>1, <1>2 DEF DimKeys, DimKeysOf
<1>4. KeyAt(t) = KeyAtOf(StagedOf(bronze[t]), born)
  <2> DEFINE begun == {v \in Versions(t) : EffectiveFrom(t, v) <= born}
  <2>1. KeyAt(t) = IF begun = {} THEN NoKey
                   ELSE VersionKey(t, LatestOf(begun))
    BY DEF KeyAt, LatestOf
  <2>2. begun = BegunOf(StagedOf(bronze[t]), born)
    BY <1>1, <1>2 DEF BegunOf
  <2> QED
    BY <1>2, <2>1, <2>2 DEF KeyAtOf
<1>5. Current(t) = CurrentOf(StagedOf(bronze[t]))
  BY StagedIs DEF Current, CurrentOf
<1> QED
  BY <1>3, <1>4, <1>5

LEMMA FullIs ==
  Full = FullOf(kind, CurrentOf(StagedOf(bronze[Root])),
                CurrentOf(StagedOf(bronze[Second])), FactKeys)
<1>1. /\ Current(Root) = CurrentOf(StagedOf(bronze[Root]))
      /\ Current(Second) = CurrentOf(StagedOf(bronze[Second]))
      /\ Keys = [t \in Axes |-> KeyAtOf(StagedOf(bronze[t]), born)]
  BY ModelsAre DEF Keys
<1> QED
  BY <1>1, ModelsAre DEF Full, FullOf, FactOf, FactKeys

\* And in the next state.
LEMMA ModelsNext ==
  ASSUME NEW t
  PROVE  /\ Staged(t)' = StagedOf(bronze'[t])
         /\ Current(t)' = CurrentOf(StagedOf(bronze'[t]))
         /\ DimKeys(t)' = DimKeysOf(StagedOf(bronze'[t]))
         /\ KeyAt(t)' = KeyAtOf(StagedOf(bronze'[t]), born')
<1> DEFINE S == StagedOf(bronze'[t])
<1>1. Staged(t)' = S
  BY DEF Staged, StagedOf
<1>2. Versions(t)' = VersionsOf(S)
  BY <1>1 DEF Versions, VersionsOf
<1>3. \A v : /\ EffectiveFrom(t, v)' = FromOf(S, v)
             /\ VersionKey(t, v)' = KeyOf(S, v)
  BY <1>1 DEF EffectiveFrom, VersionKey, IsFirst, FromOf, KeyOf
<1>4. DimKeys(t)' = DimKeysOf(S)
  BY <1>2, <1>3 DEF DimKeys, DimKeysOf
<1>5. KeyAt(t)' = KeyAtOf(S, born')
  <2> DEFINE begun == {v \in Versions(t)' : EffectiveFrom(t, v)' <= born'}
  <2>1. KeyAt(t)' = IF begun = {} THEN NoKey
                    ELSE KeyOf(S, LatestOf(begun))
    BY <1>1, Zenon DEF KeyAt, LatestOf, VersionKey, IsFirst, KeyOf, FromOf
  <2>2. begun = BegunOf(S, born')
    BY <1>2, <1>3 DEF BegunOf
  <2> QED
    BY <2>1, <2>2 DEF KeyAtOf
<1>6. Current(t)' = CurrentOf(S)
  BY <1>1 DEF Current, CurrentOf
<1> QED
  BY <1>1, <1>4, <1>5, <1>6

LEMMA FullNext ==
  Full' = FullOf(kind', CurrentOf(StagedOf(bronze'[Root'])),
                 CurrentOf(StagedOf(bronze'[Second'])), FactKeys')
<1>1. /\ Current(Root)' = CurrentOf(StagedOf(bronze'[Root']))
      /\ Current(Second)' = CurrentOf(StagedOf(bronze'[Second']))
  BY DEF Current, CurrentOf, Staged, StagedOf
<1>2. Keys' = [t \in Axes' |-> KeyAtOf(StagedOf(bronze'[t]), born')]
  BY ModelsNext DEF Keys
<1> QED
  BY <1>1, <1>2, ModelsNext DEF Full, FullOf, FactOf, FactKeys

-----------------------------------------------------------------------------
(* First and latest observations.                                          *)

LEMMA ObjectFields ==
  ASSUME NEW o \in Object
  PROVE  /\ o.at \in Nat /\ o.at >= 1 /\ o.at <= MaxDate
         /\ o.batch \in Nat /\ o.attr \in Levels /\ o.rejected \in BOOLEAN
  BY BoundsAssumption DEF Object, Dates

\* A nonempty set of natural numbers has a least element.
LEMMA LeastNatural ==
  ASSUME NEW T \in SUBSET Nat, T # {}
  PROVE  \E n \in T : \A m \in T : n <= m
<1> DEFINE R == OpToRel(<, Nat)
<1>1. IsWellFoundedOn(R, Nat)
  BY NatLessThanWellFounded, Zenon
<1>2. \A x, y \in Nat : y < x => <<y, x>> \in R
  BY DEF OpToRel
<1> HIDE DEF R
<1>3. PICK x \in T : \A y \in T : ~(<<y, x>> \in R)
  BY <1>1, WFMin
<1>4. x \in Nat /\ \A y \in T : y \in Nat /\ ~(y < x)
  BY <1>2, <1>3
<1> QED
  BY <1>4

LEMMA FirstObservation ==
  ASSUME NEW S \in SUBSET Object, S # {}
  PROVE  \E v \in S : \A p \in S : v.at <= p.at
<1> DEFINE T == {v.at : v \in S}
<1>1. T \in SUBSET Nat /\ T # {}
  BY ObjectFields
<1> HIDE DEF T
<1>2. PICK n \in T : \A m \in T : n <= m
  BY <1>1, LeastNatural
<1> QED
  BY <1>2 DEF T

LEMMA LatestObservation ==
  ASSUME NEW V \in SUBSET Object, V # {}
  PROVE  LatestOf(V) \in V /\ \A p \in V : p.at <= LatestOf(V).at
<1> DEFINE T == {MaxDate - v.at : v \in V}
<1>1. T \in SUBSET Nat /\ T # {}
  BY ObjectFields, BoundsAssumption
<1> HIDE DEF T
<1>2. PICK n \in T : \A m \in T : n <= m
  BY <1>1, LeastNatural
<1>3. PICK v \in V : n = MaxDate - v.at
  BY <1>2 DEF T
<1>4. \A p \in V : MaxDate - v.at <= MaxDate - p.at
  BY <1>2, <1>3 DEF T
<1>5. \A p \in V : p.at <= v.at
  BY <1>4, ObjectFields, BoundsAssumption
<1> QED
  BY <1>5, Zenon DEF LatestOf

LEMMA CurrentExists ==
  ASSUME NEW S \in SUBSET Object, S # {}
  PROVE  /\ CurrentOf(S) # {}
         /\ At(CurrentOf(S)) \in Dates
<1>1. CurrentOf(S) # {}
  BY LatestObservation DEF CurrentOf
<1>2. PICK o \in CurrentOf(S) : At(CurrentOf(S)) = o.at
  BY <1>1, Zenon DEF At
<1>3. o \in Object
  BY DEF CurrentOf
<1> QED
  BY <1>1, <1>2, <1>3, BoundsAssumption DEF Object

LEMMA NothingCurrent ==
  /\ CurrentOf({}) = {} /\ At({}) = 0
  /\ \A d : KeyAtOf({}, d) = NoKey
  BY DEF CurrentOf, At, KeyAtOf, BegunOf, VersionsOf

LEMMA DimKeysTyped ==
  ASSUME NEW S \in SUBSET Object
  PROVE  DimKeysOf(S) \subseteq Key /\ NoKey \notin DimKeysOf(S)
<1> SUFFICES ASSUME NEW v \in S
             PROVE  KeyOf(S, v) \in Key /\ KeyOf(S, v) # NoKey
  BY DEF DimKeysOf, VersionsOf
<1>1. v.at \in 0..MaxDate /\ v.attr \in Levels
  BY ObjectFields, BoundsAssumption
<1>2. FromOf(S, v) \in 0..MaxDate
  BY <1>1, BoundsAssumption DEF FromOf
<1> QED
  BY <1>1, <1>2 DEF KeyOf, Key, NoKey, Levels

\* Some version is in effect at every date, as the first one always was.
LEMMA KeyAtExists ==
  ASSUME NEW S \in SUBSET Object, S # {}, NEW d \in Nat
  PROVE  KeyAtOf(S, d) \in DimKeysOf(S) /\ KeyAtOf(S, d) # NoKey
<1>1. PICK v \in S : \A p \in S : v.at <= p.at
  BY FirstObservation
<1>2. v \in VersionsOf(S)
  BY <1>1, ObjectFields DEF VersionsOf
<1>3. v \in BegunOf(S, d)
  BY <1>1, <1>2 DEF BegunOf, FromOf
<1>4. BegunOf(S, d) \in SUBSET Object /\ BegunOf(S, d) \subseteq VersionsOf(S)
  BY DEF BegunOf, VersionsOf
<1>5. LatestOf(BegunOf(S, d)) \in VersionsOf(S)
  BY <1>3, <1>4, LatestObservation
<1>6. KeyAtOf(S, d) \in DimKeysOf(S)
  BY <1>3, <1>5 DEF KeyAtOf, DimKeysOf
<1> QED
  BY <1>6, DimKeysTyped

-----------------------------------------------------------------------------
(* A newer observation.                                                    *)

LEMMA ObservedSet ==
  ASSUME NEW S \in SUBSET Object, NEW x \in Object, Distinct(S),
         MayObserve(S, x)
  PROVE  /\ Observed(S, x) \in SUBSET Object
         /\ Distinct(Observed(S, x))
         /\ CurrentOf(Observed(S, x)) = {x}
<1>1. Observed(S, x) \in SUBSET Object /\ Distinct(Observed(S, x))
  BY DEF Observed, Distinct
<1>2. \A o \in S : o.at # x.at => ~(x.at <= o.at)
  BY ObjectFields DEF MayObserve
<1>3. x.at <= x.at /\ \A o \in S : o.at <= x.at
  BY ObjectFields DEF MayObserve
<1>4. CurrentOf(Observed(S, x)) = {x}
  BY <1>2, <1>3 DEF CurrentOf, Observed
<1> QED
  BY <1>1, <1>4

\* Older versions keep their keys.
LEMMA OlderVersions ==
  ASSUME NEW S \in SUBSET Object, NEW x \in Object, MayObserve(S, x),
         NEW o \in S, o.at # x.at
  PROVE  /\ o \in VersionsOf(Observed(S, x)) <=> o \in VersionsOf(S)
         /\ FromOf(Observed(S, x), o) = FromOf(S, o)
         /\ KeyOf(Observed(S, x), o) = KeyOf(S, o)
<1> DEFINE T == Observed(S, x)
<1>1. /\ o \in T /\ x \in T
      /\ \A p \in S : p.at # x.at => p \in T
      /\ \A p \in T : p = x \/ (p \in S /\ p.at # x.at)
  BY DEF Observed
<1> HIDE DEF T
<1>2. /\ o.at \in Nat /\ x.at \in Nat /\ o.at < x.at
      /\ \A p \in S : p.at \in Nat /\ p.at <= x.at
  BY ObjectFields DEF MayObserve
<1>3. (\A p \in T : o.at <= p.at) <=> (\A p \in S : o.at <= p.at)
  BY <1>1, <1>2
<1>4. FromOf(T, o) = FromOf(S, o)
  BY <1>3 DEF FromOf
<1>5. ASSUME NEW p \in S, p.at < o.at
      PROVE  /\ p \in T
             /\ (\A q \in S : q.at <= p.at \/ o.at <= q.at)
                  <=> (\A q \in T : q.at <= p.at \/ o.at <= q.at)
  BY <1>1, <1>2, <1>5
<1>6. ASSUME NEW p \in T, p.at < o.at PROVE p \in S
  BY <1>1, <1>2, <1>6
<1>7. o \in VersionsOf(T) <=> o \in VersionsOf(S)
  BY <1>1, <1>5, <1>6 DEF VersionsOf
<1> QED
  BY <1>4, <1>7 DEF KeyOf, T

\* A version that is observed again keeps its key.
LEMMA SameVersion ==
  ASSUME NEW S \in SUBSET Object, NEW x \in Object, MayObserve(S, x),
         Distinct(S), NEW o \in S, o.at = x.at
  PROVE  /\ x \in VersionsOf(Observed(S, x)) <=> o \in VersionsOf(S)
         /\ FromOf(Observed(S, x), x) = FromOf(S, o)
         /\ KeyOf(Observed(S, x), x) = KeyOf(S, o)
<1> DEFINE T == Observed(S, x)
<1>1. /\ x \in T
      /\ \A p \in S : p = o \/ p \in T
      /\ \A p \in T : p = x \/ (p \in S /\ p.at # x.at)
  BY DEF Observed, Distinct
<1> HIDE DEF T
<1>2. /\ o.at \in Nat /\ x.at \in Nat /\ o.attr = x.attr
      /\ \A p \in S : p.at \in Nat /\ p.at <= x.at
  BY ObjectFields DEF MayObserve
<1>3. (\A p \in T : x.at <= p.at) <=> (\A p \in S : o.at <= p.at)
  BY <1>1, <1>2
<1>4. FromOf(T, x) = FromOf(S, o)
  BY <1>3 DEF FromOf
<1>5. ASSUME NEW p \in S, p.at < o.at
      PROVE  /\ p \in T
             /\ (\A q \in S : q.at <= p.at \/ o.at <= q.at)
                  <=> (\A q \in T : q.at <= p.at \/ x.at <= q.at)
  BY <1>1, <1>2, <1>5
<1>6. ASSUME NEW p \in T, p.at < x.at PROVE p \in S
  BY <1>1, <1>2, <1>6
<1>7. x \in VersionsOf(T) <=> o \in VersionsOf(S)
  BY <1>1, <1>2, <1>5, <1>6 DEF VersionsOf
<1> QED
  BY <1>2, <1>4, <1>7 DEF KeyOf, T

\* No version a fact refers to disappears from its dimension.
LEMMA ObservedKeys ==
  ASSUME NEW S \in SUBSET Object, NEW x \in Object, Distinct(S),
         MayObserve(S, x)
  PROVE  DimKeysOf(S) \subseteq DimKeysOf(Observed(S, x))
<1> SUFFICES ASSUME NEW o \in VersionsOf(S)
             PROVE  KeyOf(S, o) \in DimKeysOf(Observed(S, x))
  BY DEF DimKeysOf
<1>1. o \in S
  BY DEF VersionsOf
<1>2. CASE o.at = x.at
  BY <1>1, <1>2, SameVersion DEF DimKeysOf
<1>3. CASE o.at # x.at
  BY <1>1, <1>3, OlderVersions DEF DimKeysOf
<1> QED
  BY <1>2, <1>3

\* An observation that is newer than the fact leaves the version in effect
\* when the fact happened, unless it is the first one.
LEMMA ObservedKeyAt ==
  ASSUME NEW S \in SUBSET Object, NEW x \in Object, Distinct(S),
         MayObserve(S, x), S # {}, NEW d \in Nat, d < x.at
  PROVE  KeyAtOf(Observed(S, x), d) = KeyAtOf(S, d)
<1> DEFINE T == Observed(S, x)
<1>1. /\ x \in T
      /\ \A p \in S : p.at # x.at => p \in T
      /\ \A p \in T : p = x \/ (p \in S /\ p.at # x.at)
  BY DEF Observed
<1>2. /\ x.at \in Nat
      /\ \A p \in S : p.at \in Nat /\ p.at <= x.at
  BY ObjectFields DEF MayObserve
<1>3. CASE \A p \in T : x.at <= p.at
  <2>1. PICK o \in S : TRUE
    OBVIOUS
  <2>2. \A p \in S : p.at = x.at
    BY <1>1, <1>2, <1>3
  <2>same. \A p \in S : p = o
    BY <2>1, <2>2 DEF Distinct
  <2>3. S = {o} /\ T = {x}
    BY <1>1, <2>1, <2>2, <2>same
  <2>4. FromOf(T, x) = 0 /\ x \in VersionsOf(T)
    <3>1. FromOf(T, x) = 0
      BY <1>3 DEF FromOf
    <3>2. ~(x.at < x.at)
      BY <1>2
    <3>3. x \in VersionsOf({x})
      BY <3>2 DEF VersionsOf
    <3> QED
      BY <2>3, <3>1, <3>3
  <2>5. /\ o \in VersionsOf(S) /\ FromOf(S, o) = 0
        /\ KeyOf(T, x) = KeyOf(S, o)
    BY <2>1, <2>2, <2>4, SameVersion
  <2>6. BegunOf(T, d) = {x} /\ BegunOf(S, d) = {o}
    BY <2>3, <2>4, <2>5 DEF BegunOf, VersionsOf
  <2>7. LatestOf({x}) = x /\ LatestOf({o}) = o
    BY LatestObservation
  <2> QED
    BY <2>5, <2>6, <2>7 DEF KeyAtOf
<1>4. CASE ~(\A p \in T : x.at <= p.at)
  <2>1. FromOf(T, x) = x.at
    BY <1>4 DEF FromOf
  <2>2. ~(FromOf(T, x) <= d)
    BY <1>2, <2>1
  <2>3. ASSUME NEW v \in BegunOf(T, d)
        PROVE  v \in BegunOf(S, d) /\ v \in S /\ v.at # x.at
    <3>1. v \in T /\ v # x
      BY <2>2, <2>3 DEF BegunOf, VersionsOf
    <3>2. v \in S /\ v.at # x.at
      BY <1>1, <3>1
    <3> QED
      BY <2>3, <3>2, OlderVersions DEF BegunOf
  <2>4. ASSUME NEW v \in BegunOf(S, d) PROVE v \in BegunOf(T, d)
    <3>1. v \in S
      BY <2>4 DEF BegunOf, VersionsOf
    <3>2. v.at # x.at
      <4>1. SUFFICES ASSUME v.at = x.at PROVE FALSE
        OBVIOUS
      <4>2. FromOf(T, x) = FromOf(S, v)
        BY <3>1, <4>1, SameVersion
      <4> QED
        BY <2>2, <2>4, <4>2 DEF BegunOf
    <3> QED
      BY <2>4, <3>1, <3>2, OlderVersions DEF BegunOf
  <2>5. BegunOf(T, d) = BegunOf(S, d)
    BY <2>3, <2>4
  <2>6. CASE BegunOf(S, d) = {}
    BY <2>5, <2>6 DEF KeyAtOf
  <2>7. CASE BegunOf(S, d) # {}
    <3>1. BegunOf(S, d) \in SUBSET Object
      BY DEF BegunOf, VersionsOf
    <3>2. LatestOf(BegunOf(S, d)) \in BegunOf(T, d)
      BY <2>5, <2>7, <3>1, LatestObservation
    <3>3. KeyOf(T, LatestOf(BegunOf(S, d))) = KeyOf(S, LatestOf(BegunOf(S, d)))
      BY <2>3, <3>2, OlderVersions
    <3> QED
      BY <2>5, <2>7, <3>3 DEF KeyAtOf
  <2> QED
    BY <2>6, <2>7
<1> QED
  BY <1>3, <1>4

-----------------------------------------------------------------------------
(* Staging a table's objects.                                              *)

LEMMA RangeOfSeq ==
  ASSUME NEW q \in Seq(Object)
  PROVE  /\ Range(q) \in SUBSET Object
         /\ Range(q) = {q[i] : i \in 1..Len(q)}
  BY DEF Range

LEMMA StagedSet ==
  ASSUME NEW q \in Seq(Object)
  PROVE  /\ StagedOf(q) \in SUBSET Object
         /\ StagedOf(q) \subseteq Range(q)
         /\ Distinct(StagedOf(q))
<1>1. StagedOf(q) \subseteq Range(q)
  BY DEF StagedOf, Range
<1>2. ASSUME NEW a \in StagedOf(q), NEW b \in StagedOf(q), a.at = b.at
      PROVE  a = b
  <2>1. PICK i \in DOMAIN q :
           /\ a = q[i] /\ ~q[i].rejected
           /\ \A k \in DOMAIN q : ~q[k].rejected /\ q[k].at = q[i].at => k <= i
    BY <1>2 DEF StagedOf
  <2>2. PICK j \in DOMAIN q :
           /\ b = q[j] /\ ~q[j].rejected
           /\ \A k \in DOMAIN q : ~q[k].rejected /\ q[k].at = q[j].at => k <= j
    BY <1>2 DEF StagedOf
  <2>3. i <= j /\ j <= i /\ i \in Nat /\ j \in Nat
    BY <1>2, <2>1, <2>2
  <2> QED
    BY <2>1, <2>2, <2>3
<1> QED
  BY <1>1, <1>2, RangeOfSeq DEF Distinct

LEMMA StagedExists ==
  ASSUME NEW q \in Seq(Object), NEW o \in Range(q), ~o.rejected
  PROVE  StagedOf(q) # {}
<1> DEFINE good == {i \in 1..Len(q) : ~q[i].rejected}
           T    == {Len(q) - i : i \in good}
<1>1. Len(q) \in Nat /\ DOMAIN q = 1..Len(q)
  OBVIOUS
<1>2. PICK i \in 1..Len(q) : o = q[i]
  BY RangeOfSeq
<1>3. T # {} /\ T \in SUBSET Nat
  BY <1>1, <1>2
<1>4. PICK n \in T : \A m \in T : n <= m
  BY <1>3, LeastNatural
<1>5. PICK j \in good : n = Len(q) - j
  BY <1>4
<1>6. ASSUME NEW k \in good PROVE k <= j
  <2>1. Len(q) - k \in T
    OBVIOUS
  <2>2. Len(q) - j <= Len(q) - k
    BY <1>4, <1>5, <2>1
  <2>3. k \in Nat /\ j \in Nat /\ Len(q) \in Nat
    BY <1>1
  <2> QED
    BY <2>2, <2>3
<1>7. q[j] \in StagedOf(q)
  BY <1>1, <1>6 DEF StagedOf
<1> QED
  BY <1>7

LEMMA AppendFacts ==
  ASSUME NEW q \in Seq(Object), NEW x \in Object
  PROVE  /\ Append(q, x) \in Seq(Object)
         /\ DOMAIN Append(q, x) = 1..(Len(q) + 1)
         /\ DOMAIN q = 1..Len(q) /\ Len(q) \in Nat
         /\ \A i \in 1..Len(q) : Append(q, x)[i] = q[i]
         /\ Append(q, x)[Len(q) + 1] = x
  OBVIOUS

LEMMA AppendRange ==
  ASSUME NEW q \in Seq(Object), NEW x \in Object
  PROVE  /\ Range(Append(q, x)) = Range(q) \cup {x}
         /\ Append(q, x) # <<>>
         /\ q # <<>> => Head(Append(q, x)) = Head(q)
<1> DEFINE r == Append(q, x)
<1>1. /\ r \in Seq(Object) /\ DOMAIN r = 1..(Len(q) + 1)
      /\ DOMAIN q = 1..Len(q) /\ Len(q) \in Nat
      /\ \A i \in 1..Len(q) : r[i] = q[i]
      /\ r[Len(q) + 1] = x
  BY AppendFacts
<1> HIDE DEF r
<1>2. \A i : i \in 1..(Len(q) + 1) <=> i \in 1..Len(q) \/ i = Len(q) + 1
  BY <1>1
<1>3. Range(r) = Range(q) \cup {x}
  <2>1. ASSUME NEW o \in Range(r) PROVE o \in Range(q) \cup {x}
    BY <1>1, <1>2 DEF Range
  <2>2. ASSUME NEW o \in Range(q) PROVE o \in Range(r)
    <3>1. PICK i \in 1..Len(q) : o = q[i]
      BY <1>1 DEF Range
    <3> QED
      BY <1>1, <1>2, <3>1 DEF Range
  <2>3. x \in Range(r)
    BY <1>1, <1>2 DEF Range
  <2> QED
    BY <2>1, <2>2, <2>3
<1>4. r # <<>>
  <2>1. 1 \in DOMAIN r
    BY <1>1
  <2>2. 1 \notin DOMAIN << >>
    OBVIOUS
  <2> QED
    BY <2>1, <2>2, Zenon
<1>5. q # <<>> => Head(r) = Head(q)
  BY <1>1
<1> QED
  BY <1>3, <1>4, <1>5 DEF r

LEMMA StagedRejected ==
  ASSUME NEW q \in Seq(Object), NEW x \in Object, x.rejected
  PROVE  StagedOf(Append(q, x)) = StagedOf(q)
<1> DEFINE r == Append(q, x)
           n == Len(q) + 1
<1>1. /\ DOMAIN r = 1..n /\ DOMAIN q = 1..Len(q) /\ Len(q) \in Nat
      /\ \A i \in DOMAIN q : r[i] = q[i]
      /\ r[n] = x
  BY AppendFacts
<1> HIDE DEF r
<1>2. \A i : i \in DOMAIN r <=> i \in DOMAIN q \/ i = n
  BY <1>1
<1> HIDE DEF n
<1> DEFINE Last(s, j) ==
             /\ ~s[j].rejected
             /\ \A k \in DOMAIN s : ~s[k].rejected /\ s[k].at = s[j].at => k <= j
<1>3. ~Last(r, n)
  BY <1>1
<1>4. ASSUME NEW j \in DOMAIN q PROVE Last(r, j) <=> Last(q, j)
  <2>1. r[j] = q[j] /\ j \in DOMAIN r
    BY <1>1, <1>2
  <2>2. ASSUME NEW k \in DOMAIN r, ~r[k].rejected
        PROVE  k \in DOMAIN q /\ r[k] = q[k]
    BY <1>1, <1>2, <2>2
  <2>3. ASSUME NEW k \in DOMAIN q PROVE k \in DOMAIN r /\ r[k] = q[k]
    BY <1>1, <1>2
  <2> QED
    BY <2>1, <2>2, <2>3
<1>5. StagedOf(r) = {r[j] : j \in {i \in DOMAIN r : Last(r, i)}}
  BY DEF StagedOf
<1>6. StagedOf(q) = {q[j] : j \in {i \in DOMAIN q : Last(q, i)}}
  BY DEF StagedOf
<1> HIDE DEF Last
<1>7. {i \in DOMAIN r : Last(r, i)} = {i \in DOMAIN q : Last(q, i)}
  BY <1>2, <1>3, <1>4
<1>8. \A j \in {i \in DOMAIN q : Last(q, i)} : r[j] = q[j]
  BY <1>1
<1> QED
  BY <1>5, <1>6, <1>7, <1>8, Zenon DEF r

LEMMA StagedLoaded ==
  ASSUME NEW q \in Seq(Object), NEW x \in Object, ~x.rejected
  PROVE  StagedOf(Append(q, x)) = Observed(StagedOf(q), x)
<1> DEFINE r == Append(q, x)
           n == Len(q) + 1
<1>1. /\ DOMAIN r = 1..n /\ DOMAIN q = 1..Len(q) /\ Len(q) \in Nat
      /\ \A i \in DOMAIN q : r[i] = q[i]
      /\ r[n] = x
  BY AppendFacts
<1> HIDE DEF r
<1>2. /\ \A i : i \in DOMAIN r <=> i \in DOMAIN q \/ i = n
      /\ \A i \in DOMAIN q : ~(n <= i)
      /\ \A i \in DOMAIN r : i <= n
      /\ n \in DOMAIN r
  BY <1>1
<1> HIDE DEF n
<1> DEFINE Last(s, j) ==
             /\ ~s[j].rejected
             /\ \A k \in DOMAIN s : ~s[k].rejected /\ s[k].at = s[j].at => k <= j
<1>3. Last(r, n)
  BY <1>1, <1>2
<1>4. ASSUME NEW j \in DOMAIN q
      PROVE  Last(r, j) <=> Last(q, j) /\ q[j].at # x.at
  BY <1>1, <1>2
<1>5. StagedOf(r) = {r[j] : j \in {i \in DOMAIN r : Last(r, i)}}
  BY DEF StagedOf
<1>6. StagedOf(q) = {q[j] : j \in {i \in DOMAIN q : Last(q, i)}}
  BY DEF StagedOf
<1> HIDE DEF Last
<1>7. ASSUME NEW o \in StagedOf(r) PROVE o \in Observed(StagedOf(q), x)
  <2>1. PICK j \in DOMAIN r : o = r[j] /\ Last(r, j)
    BY <1>5
  <2> QED
    BY <1>1, <1>2, <1>4, <1>6, <2>1 DEF Observed
<1>8. ASSUME NEW o \in StagedOf(q), o.at # x.at PROVE o \in StagedOf(r)
  <2>1. PICK j \in DOMAIN q : o = q[j] /\ Last(q, j)
    BY <1>6
  <2> QED
    BY <1>1, <1>2, <1>4, <1>5, <1>8, <2>1
<1>9. x \in StagedOf(r)
  BY <1>1, <1>2, <1>3, <1>5
<1> QED
  BY <1>7, <1>8, <1>9 DEF Observed, r

-----------------------------------------------------------------------------
(* The invariants of the source and of Bronze.                             *)

\* An object shows the source row, or an earlier version of it.
BronzeInv ==
  \A t \in Tables : \A o \in Range(bronze[t]) :
    /\ o.batch <= last
    /\ o.at <= source[t].at
    /\ o.at = source[t].at => o.attr = source[t].attr

\* What the watermark has passed left an object.
WatermarkLoaded == \A t \in Tables : wm[t] # 0 => bronze[t] # <<>>

\* The rows a row of the source refers to exist.
SourceJoined ==
  /\ kind = "order" => \A t, u \in Tables : Exists(t) => Exists(u)
  /\ kind = "payment" => /\ clock # 0 => Exists(Tier)
                         /\ Exists(Root) => Exists(Second)

\* Rows with a UUID cannot be rejected.
NeverRejected == kind = "payment" => NoReject(Root) /\ NoReject(Second)

\* So do the tables a table refers to when verify_bronze_commit passes.
VerifiedJoined ==
  phase = "verified" =>
    /\ kind = "order" =>
         \A t, u \in Tables : bronze[t] # <<>> => bronze[u] # <<>>
    /\ kind = "payment" => /\ bronze[Tier] # <<>>
                           /\ bronze[Root] # <<>> => bronze[Second] # <<>>

\* What was published passed its tests and would pass them again: dimensions
\* do not lose keys.
Tested == TestsPass(facts)

SourceInv == TypeOK /\ SourceJoined
StoreInv  == BronzeInv /\ WatermarkLoaded /\ NeverRejected /\ VerifiedJoined
BaseInv   == SourceInv /\ StoreInv /\ Tested

LEMMA KindFixed ==
  ASSUME [Next]_vars
  PROVE  kind' = kind
  BY DEF Next, vars, sourceVars, Generate, Ingest, Rewind, Build, BuildFails

LEMMA NamesFixed ==
  ASSUME kind' = kind
  PROVE  /\ Root' = Root /\ Second' = Second /\ Tier' = Tier
         /\ Tables' = Tables /\ Axes' = Axes
  BY DEF Root, Second, Tier, Tables, Axes

LEMMA NamesAre ==
  ASSUME TypeOK
  PROVE  /\ Root \in Tables /\ Second \in Tables /\ Tier \in Tables
         /\ Root # Second /\ Root # Tier /\ Second # Tier
         /\ Tables = {Root, Second, Tier}
         /\ Tier \in Axes /\ Axes \subseteq Tables
         /\ kind = "order" => Axes = {Tier}
         /\ kind = "payment" => Axes = {Second, Tier}
         /\ \A t \in Tables : (t \in {"customer_subscriptions",
                                      "subscription_payments"})
                                <=> (kind = "payment" /\ t # Tier)
<1>1. CASE kind = "order"
  BY <1>1 DEF Root, Second, Tier, Tables, Axes
<1>2. CASE kind = "payment"
  BY <1>2 DEF Root, Second, Tier, Tables, Axes
<1> QED
  BY <1>1, <1>2 DEF TypeOK

LEMMA InitBase ==
  ASSUME Init
  PROVE  BaseInv
<1>1. TypeOK
  <2>1. /\ 0 \in 0..MaxDate /\ 0 \in 0..MaxFaults /\ 0 \in Levels /\ 0 \in 0..0
    BY BoundsAssumption DEF Levels
  <2>2. \A t \in Tables : bronze[t] \in Seq(Object)
    BY DEF Init
  <2>3. [at |-> 0, attr |-> 0] \in Row
    BY <2>1 DEF Row
  <2>4. source \in [Tables -> Row] /\ wm \in [Tables -> 0..MaxDate]
    BY <2>1, <2>3, Zenon DEF Init
  <2>5. \A t \in Tables : wm[t] <= source[t].at /\ source[t].at <= clock
    BY DEF Init
  <2>6. facts = {} /\ DOMAIN bronze = Tables
    BY DEF Init
  <2> QED
    BY <2>1, <2>2, <2>4, <2>5, <2>6 DEF Init, TypeOK
<1>2. SourceJoined
  <2>1. \A t \in Tables : source[t].at = 0
    BY DEF Init
  <2> QED
    BY <1>1, <2>1, NamesAre DEF Init, SourceJoined, Exists
<1>3. BronzeInv /\ NeverRejected
  <2>1. \A t \in Tables : Range(bronze[t]) = {}
    BY DEF Init, Range
  <2> QED
    BY <1>1, <2>1, NamesAre DEF BronzeInv, NeverRejected, NoReject
<1>4. WatermarkLoaded /\ VerifiedJoined /\ Tested
  BY <1>1, NamesAre DEF Init, WatermarkLoaded, VerifiedJoined, Tested, TestsPass
<1> QED
  BY <1>1, <1>2, <1>3, <1>4 DEF BaseInv, SourceInv, StoreInv

-----------------------------------------------------------------------------
(* The Generator                                                           *)

LEMMA TestsAre ==
  ASSUME NEW rows
  PROVE  TestsPass(rows) <=>
           \A f \in rows :
             /\ f.root # 0
             /\ \A t \in Axes : f.keys[t] \in DimKeysOf(StagedOf(bronze[t]))
             /\ \E g \in rows : g.fact = "root"
  BY ModelsAre DEF TestsPass

LEMMA TestedNext ==
  Tested' <=>
    \A f \in facts' :
      /\ f.root # 0
      /\ \A t \in Axes' : f.keys[t] \in DimKeysOf(StagedOf(bronze'[t]))
      /\ \E g \in facts' : g.fact = "root"
  BY ModelsNext DEF Tested, TestsPass

\* What a Generator run writes.
LEMMA GenerateWrites ==
  ASSUME TypeOK, Generate
  PROVE  \E tables \in SUBSET Tables : \E attr \in [tables -> Levels] :
           /\ MayWrite(tables)
           /\ \A t \in Tables : source'[t] =
                IF t \in tables THEN [at |-> clock + 1, attr |-> attr[t]]
                ELSE source[t]
           /\ source' \in [Tables -> Row]
           /\ clock' = clock + 1 /\ clock \in Nat /\ clock + 1 <= MaxDate
           /\ born' # born => Root \in tables /\ ~Exists(Root)
           /\ born' \in 0..clock'
<1>1. clock' = clock + 1 /\ clock \in Nat /\ clock + 1 <= MaxDate
  BY BoundsAssumption DEF Generate, TypeOK
<1>2. PICK tables \in SUBSET Tables :
        /\ MayWrite(tables)
        /\ \E attr \in [tables -> Levels] :
             /\ \A t \in tables : MayBecome(t, attr[t])
             /\ source' = [t \in Tables |->
                  IF t \in tables THEN [at |-> clock', attr |-> attr[t]]
                  ELSE source[t]]
        /\ IF Root \in tables /\ ~Exists(Root)
           THEN born' \in BusinessDates(clock')
           ELSE UNCHANGED born
  BY DEF Generate
<1>3. PICK attr \in [tables -> Levels] :
        source' = [t \in Tables |->
          IF t \in tables THEN [at |-> clock', attr |-> attr[t]]
          ELSE source[t]]
  BY <1>2
<1>4. \A t \in tables : [at |-> clock', attr |-> attr[t]] \in Row
  BY <1>1, BoundsAssumption DEF Row
<1>5. source' \in [Tables -> Row]
  BY <1>3, <1>4 DEF TypeOK
<1>6. born' # born => Root \in tables /\ ~Exists(Root)
  BY <1>2
<1>7. born' \in 0..clock'
  BY <1>1, <1>2 DEF TypeOK, BusinessDates
<1> QED
  BY <1>1, <1>2, <1>3, <1>5, <1>6, <1>7

LEMMA GenerateBase ==
  ASSUME BaseInv, Generate
  PROVE  BaseInv'
<1> USE DEF BaseInv, SourceInv, StoreInv
<1>1. /\ kind' = kind /\ wm' = wm /\ bronze' = bronze /\ last' = last
      /\ phase' = phase /\ processed' = processed /\ built' = built
      /\ facts' = facts /\ faults' = faults
  BY DEF Generate, martVars
<1>2. /\ Root' = Root /\ Second' = Second /\ Tier' = Tier
      /\ Tables' = Tables /\ Axes' = Axes
  BY <1>1, NamesFixed
<1>3. PICK tables \in SUBSET Tables : \E attr \in [tables -> Levels] :
           /\ MayWrite(tables)
           /\ \A t \in Tables : source'[t] =
                IF t \in tables THEN [at |-> clock + 1, attr |-> attr[t]]
                ELSE source[t]
           /\ source' \in [Tables -> Row]
           /\ clock' = clock + 1 /\ clock \in Nat /\ clock + 1 <= MaxDate
           /\ born' # born => Root \in tables /\ ~Exists(Root)
           /\ born' \in 0..clock'
  BY GenerateWrites
<1>4. /\ MayWrite(tables) /\ source' \in [Tables -> Row]
      /\ clock' = clock + 1 /\ clock \in Nat /\ clock + 1 <= MaxDate
      /\ born' \in 0..clock'
  BY <1>3
<1>5. \A t \in Tables :
        /\ source[t].at \in Nat /\ source[t].at <= clock
        /\ t \in tables => source'[t].at = clock + 1
        /\ t \notin tables => source'[t] = source[t]
  BY <1>3, BoundsAssumption DEF TypeOK, Row
<1>6. \A t \in Tables : wm'[t] <= source'[t].at /\ source'[t].at <= clock'
  BY <1>1, <1>4, <1>5, BoundsAssumption DEF TypeOK
<1>7. TypeOK'
  <2>1. clock' \in 0..MaxDate
    BY <1>4, BoundsAssumption
  <2> QED
    BY <1>1, <1>2, <1>4, <1>6, <2>1 DEF TypeOK
<1>8. BronzeInv'
  <2>1. SUFFICES ASSUME NEW t \in Tables, NEW o \in Range(bronze[t])
                 PROVE  /\ o.batch <= last
                        /\ o.at <= source'[t].at
                        /\ o.at = source'[t].at => o.attr = source'[t].attr
    BY <1>1, <1>2 DEF BronzeInv
  <2>2. o \in Object
    BY RangeOfSeq DEF TypeOK
  <2>3. o.at \in Nat
    BY <2>2, ObjectFields
  <2>4. /\ o.batch <= last /\ o.at <= source[t].at
        /\ o.at = source[t].at => o.attr = source[t].attr
    BY DEF BronzeInv
  <2> QED
    BY <1>4, <1>5, <2>3, <2>4
<1>9. SourceJoined'
  <2>1. \A t \in Tables : source'[t].at # 0 <=> t \in tables \/ source[t].at # 0
    BY <1>4, <1>5
  <2>2. CASE kind = "order"
    <3>1. ~Exists(Root) => tables = {} \/ tables = Tables
      BY <1>4, <2>2 DEF MayWrite
    <3>2. \A t, u \in Tables : source'[t].at # 0 => source'[u].at # 0
      BY <2>1, <2>2, <3>1, NamesAre DEF SourceJoined, Exists
    <3> QED
      BY <1>1, <1>2, <2>2, <3>2 DEF SourceJoined, Exists
  <2>3. CASE kind = "payment"
    <3>1. /\ ~Exists(Tier) => Tier \in tables
          /\ Root \in tables => Exists(Second)
      BY <1>4, <2>3 DEF MayWrite
    <3>2. /\ source'[Tier].at # 0
          /\ source'[Root].at # 0 => source'[Second].at # 0
      BY <2>1, <2>3, <3>1, NamesAre DEF SourceJoined, Exists
    <3> QED
      BY <1>1, <1>2, <2>3, <3>2 DEF SourceJoined, Exists
  <2> QED
    BY <2>2, <2>3 DEF TypeOK
<1>10. WatermarkLoaded' /\ NeverRejected' /\ VerifiedJoined'
  BY <1>1, <1>2 DEF WatermarkLoaded, NeverRejected, NoReject, VerifiedJoined
<1>11. Tested'
  BY <1>1, <1>2, TestsAre, TestedNext DEF Tested
<1> QED
  BY <1>7, <1>8, <1>9, <1>10, <1>11

-----------------------------------------------------------------------------
(* Warehouse runs                                                          *)

\* What a batch does to one table.
Keeps(t) == bronze'[t] = bronze[t] /\ wm'[t] = wm[t]

Loads(t, b, x) ==
  /\ bronze'[t] = Append(bronze[t], x)
  /\ wm'[t] = source[t].at /\ Exists(t)
  /\ x \in Object
  /\ x.batch = b /\ x.at = source[t].at /\ x.attr = source[t].attr
  /\ x.rejected => ~(kind = "payment" /\ t # Tier)

LEMMA IngestFrame ==
  ASSUME TypeOK, NEW b \in 1..clock, Ingest(b)
  PROVE  /\ kind' = kind /\ clock' = clock /\ source' = source /\ born' = born
         /\ processed' = processed /\ built' = built /\ facts' = facts
         /\ b \in Dates /\ b \in Nat /\ clock # 0
         /\ last' = IF b > last THEN b ELSE last
         /\ last' \in 0..MaxDate /\ last <= last' /\ b <= last'
         /\ phase' \in {"failed", "verified"}
         /\ faults' \in 0..MaxFaults
         /\ DOMAIN bronze' = Tables /\ DOMAIN wm' = Tables
<1>1. /\ kind' = kind /\ clock' = clock /\ source' = source /\ born' = born
      /\ processed' = processed /\ built' = built /\ facts' = facts
      /\ last' = IF b > last THEN b ELSE last
  BY DEF Ingest, sourceVars, martVars
<1>2. b \in Dates /\ b \in Nat /\ clock # 0 /\ last \in 0..MaxDate
  BY BoundsAssumption DEF TypeOK, Dates
<1>3. last' \in 0..MaxDate /\ last <= last' /\ b <= last'
  BY <1>1, <1>2, BoundsAssumption DEF Dates
<1>4. PICK out \in [Tables -> {"fail", "done", "load", "reject"}] :
        /\ faults' =
             faults + Cardinality({t \in Tables : out[t] \in {"fail", "reject"}})
        /\ faults' <= MaxFaults
        /\ bronze' = [t \in Tables |->
             IF out[t] \in {"load", "reject"}
             THEN Append(bronze[t],
                    [batch |-> b, at |-> source[t].at, attr |-> source[t].attr,
                     rejected |-> out[t] = "reject"])
             ELSE bronze[t]]
        /\ wm' = [t \in Tables |->
             IF out[t] \in {"load", "reject"} THEN source[t].at ELSE wm[t]]
        /\ phase' = IF \E t \in Tables : out[t] = "fail" THEN "failed"
                    ELSE "verified"
  BY DEF Ingest
<1>5. phase' \in {"failed", "verified"} /\ DOMAIN bronze' = Tables /\ DOMAIN wm' = Tables
  BY <1>4
<1>6. faults' \in 0..MaxFaults
  <2>1. IsFiniteSet(Tables)
    <3>1. Tables = (({} \cup {Root}) \cup {Second}) \cup {Tier}
      BY DEF Tables
    <3>2. IsFiniteSet({} \cup {Root})
      BY FS_EmptySet, FS_AddElement
    <3>3. IsFiniteSet(({} \cup {Root}) \cup {Second})
      BY <3>2, FS_AddElement
    <3> QED
      BY <3>1, <3>3, FS_AddElement
  <2>2. Cardinality({t \in Tables : out[t] \in {"fail", "reject"}}) \in Nat
    BY <2>1, FS_Subset, FS_CardinalityType
  <2> QED
    BY <1>4, <2>2, BoundsAssumption DEF TypeOK
<1> QED
  BY <1>1, <1>2, <1>3, <1>5, <1>6

LEMMA IngestTable ==
  ASSUME TypeOK, NEW b \in 1..clock, Ingest(b), NEW t \in Tables
  PROVE  /\ Keeps(t) \/ \E x : Loads(t, b, x)
         /\ phase' = "verified" /\ Exists(t) /\ WatermarkLoaded
              => bronze'[t] # <<>>
<1>1. PICK out \in [Tables -> {"fail", "done", "load", "reject"}] :
        /\ \A u \in Tables : out[u] \in Outcomes(u, b)
        /\ bronze' = [u \in Tables |->
             IF out[u] \in {"load", "reject"}
             THEN Append(bronze[u],
                    [batch |-> b, at |-> source[u].at, attr |-> source[u].attr,
                     rejected |-> out[u] = "reject"])
             ELSE bronze[u]]
        /\ wm' = [u \in Tables |->
             IF out[u] \in {"load", "reject"} THEN source[u].at ELSE wm[u]]
        /\ phase' = IF \E u \in Tables : out[u] = "fail" THEN "failed"
                    ELSE "verified"
  BY DEF Ingest
<1>2. /\ source[t].at \in Nat /\ wm[t] \in Nat /\ source[t] \in Row
      /\ source[t].at <= MaxDate /\ bronze[t] \in Seq(Object)
  BY BoundsAssumption DEF TypeOK, Row
<1>3. out[t] \in Outcomes(t, b)
  BY <1>1
<1>4. CASE out[t] \in {"load", "reject"}
  <2> DEFINE x == [batch |-> b, at |-> source[t].at, attr |-> source[t].attr,
                   rejected |-> out[t] = "reject"]
  <2>1. bronze'[t] = Append(bronze[t], x) /\ wm'[t] = source[t].at
    BY <1>1, <1>4
  <2>2. /\ ~(source[t].at <= wm[t])
        /\ out[t] = "reject" =>
             t \notin {"customer_subscriptions", "subscription_payments"}
    BY <1>3, <1>4 DEF Outcomes
  <2>3. Exists(t)
    BY <1>2, <2>2 DEF Exists
  <2>4. x \in Object
    <3>1. b \in Dates /\ source[t].at \in Dates /\ source[t].attr \in Levels
      BY <1>2, <2>3, IngestFrame, BoundsAssumption DEF Exists, Dates, Row
    <3> QED
      BY <3>1 DEF Object
  <2>5. x.rejected => ~(kind = "payment" /\ t # Tier)
    BY <2>2, NamesAre
  <2>6. Loads(t, b, x)
    BY <2>1, <2>3, <2>4, <2>5 DEF Loads
  <2>7. bronze'[t] # <<>>
    BY <1>2, <2>1, <2>4, AppendRange
  <2> QED
    BY <2>6, <2>7
<1>5. CASE out[t] \notin {"load", "reject"}
  <2>1. Keeps(t)
    BY <1>1, <1>5 DEF Keeps
  <2>2. ASSUME phase' = "verified", Exists(t), WatermarkLoaded
        PROVE  bronze'[t] # <<>>
    <3>1. out[t] # "fail"
      BY <1>1, <2>2
    <3>2. out[t] = "done"
      BY <1>5, <3>1
    <3>3. Committed(t, b) # {} \/ source[t].at <= wm[t]
      BY <1>3, <3>2 DEF Outcomes
    <3>4. CASE Committed(t, b) # {}
      <4>1. Range(bronze[t]) # {}
        BY <3>4 DEF Committed
      <4>2. Range(<<>>) = {}
        BY DEF Range
      <4>3. bronze[t] # <<>>
        BY <4>1, <4>2
      <4> QED
        BY <2>1, <4>3 DEF Keeps
    <3>5. CASE source[t].at <= wm[t]
      BY <1>2, <2>1, <2>2, <3>5 DEF Keeps, Exists, WatermarkLoaded
    <3> QED
      BY <3>3, <3>4, <3>5
  <2> QED
    BY <2>1, <2>2
<1> QED
  BY <1>4, <1>5

\* What a batch does to what is staged of a table.
Observes(S, T, b) ==
  \E x \in Object : x.batch = b /\ MayObserve(S, x) /\ T = Observed(S, x)

LEMMA StagedStep ==
  ASSUME TypeOK, BronzeInv, NEW b \in 1..clock, Ingest(b), NEW t \in Tables
  PROVE  \/ StagedOf(bronze'[t]) = StagedOf(bronze[t])
         \/ Observes(StagedOf(bronze[t]), StagedOf(bronze'[t]), b)
<1>1. CASE Keeps(t)
  BY <1>1 DEF Keeps
<1>2. ASSUME NEW x, Loads(t, b, x)
      PROVE  \/ StagedOf(bronze'[t]) = StagedOf(bronze[t])
             \/ Observes(StagedOf(bronze[t]), StagedOf(bronze'[t]), b)
  <2>1. bronze[t] \in Seq(Object)
    BY DEF TypeOK
  <2>2. /\ x \in Object /\ bronze'[t] = Append(bronze[t], x)
        /\ x.batch = b /\ x.at = source[t].at /\ x.attr = source[t].attr
    BY <1>2 DEF Loads
  <2>3. MayObserve(StagedOf(bronze[t]), x)
    BY <2>1, <2>2, StagedSet DEF MayObserve, BronzeInv
  <2>4. CASE x.rejected
    BY <2>1, <2>2, <2>4, StagedRejected
  <2>5. CASE ~x.rejected
    BY <2>1, <2>2, <2>3, <2>5, StagedLoaded DEF Observes
  <2> QED
    BY <2>4, <2>5
<1> QED
  BY <1>1, <1>2, IngestTable

LEMMA IngestBase ==
  ASSUME BaseInv, NEW b \in 1..clock, Ingest(b)
  PROVE  BaseInv'
<1> USE DEF BaseInv, SourceInv, StoreInv
<1>1. /\ kind' = kind /\ clock' = clock /\ source' = source /\ born' = born
      /\ processed' = processed /\ built' = built /\ facts' = facts
      /\ b \in Nat /\ clock # 0
      /\ last' \in 0..MaxDate /\ last <= last' /\ b <= last'
      /\ phase' \in {"failed", "verified"}
      /\ faults' \in 0..MaxFaults
      /\ DOMAIN bronze' = Tables /\ DOMAIN wm' = Tables
  BY IngestFrame
<1>2. /\ Root' = Root /\ Second' = Second /\ Tier' = Tier
      /\ Tables' = Tables /\ Axes' = Axes
  BY <1>1, NamesFixed
<1>3. ASSUME NEW t \in Tables
      PROVE  /\ bronze'[t] \in Seq(Object)
             /\ wm'[t] \in 0..MaxDate /\ wm'[t] <= source[t].at
             /\ wm'[t] # 0 => bronze'[t] # <<>>
             /\ bronze'[t] # <<>> => Exists(t)
             /\ kind = "payment" /\ t # Tier =>
                  \A o \in Range(bronze'[t]) : ~o.rejected
             /\ \A o \in Range(bronze'[t]) :
                  /\ o.batch <= last'
                  /\ o.at <= source[t].at
                  /\ o.at = source[t].at => o.attr = source[t].attr
  <2>1. /\ bronze[t] \in Seq(Object) /\ wm[t] \in 0..MaxDate
        /\ source[t].at \in 0..MaxDate /\ wm[t] <= source[t].at
        /\ wm[t] # 0 => bronze[t] # <<>>
    BY DEF TypeOK, Row, WatermarkLoaded
  <2>2. kind = "payment" /\ t # Tier => \A o \in Range(bronze[t]) : ~o.rejected
    BY NamesAre DEF NeverRejected, NoReject
  <2>3. ASSUME NEW o \in Range(bronze[t])
        PROVE  /\ o.batch <= last' /\ o.at <= source[t].at /\ Exists(t)
               /\ o.at = source[t].at => o.attr = source[t].attr
    <3>1. o \in Object
      BY <2>1, RangeOfSeq
    <3>2. /\ o.batch <= last /\ o.at <= source[t].at
          /\ o.at = source[t].at => o.attr = source[t].attr
      BY DEF BronzeInv
    <3>3. o.batch \in Nat /\ o.at \in Nat /\ o.at >= 1
      BY <3>1, ObjectFields
    <3>4. last \in Nat /\ last' \in Nat
      BY <1>1, BoundsAssumption DEF TypeOK
    <3> QED
      BY <1>1, <2>1, <3>2, <3>3, <3>4, BoundsAssumption DEF Exists
  <2>4. bronze[t] # <<>> => Exists(t)
    <3>1. bronze[t] # <<>> => Head(bronze[t]) \in Range(bronze[t])
      BY <2>1, RangeOfSeq
    <3> QED
      BY <2>3, <3>1
  <2>5. CASE Keeps(t)
    BY <2>1, <2>2, <2>3, <2>4, <2>5 DEF Keeps
  <2>6. CASE \E x : Loads(t, b, x)
    <3>0. PICK x : Loads(t, b, x)
      BY <2>6
    <3>1. /\ x \in Object /\ bronze'[t] = Append(bronze[t], x)
          /\ wm'[t] = source[t].at /\ Exists(t)
          /\ x.batch = b /\ x.at = source[t].at /\ x.attr = source[t].attr
          /\ x.rejected => ~(kind = "payment" /\ t # Tier)
      BY <3>0 DEF Loads
    <3>2. /\ Range(bronze'[t]) = Range(bronze[t]) \cup {x}
          /\ bronze'[t] # <<>> /\ bronze'[t] \in Seq(Object)
      BY <2>1, <3>1, AppendRange, AppendFacts
    <3>3. source[t].at \in Nat
      BY <2>1, BoundsAssumption
    <3> QED
      BY <1>1, <2>1, <2>2, <2>3, <3>1, <3>2, <3>3
  <2> QED
    BY <2>5, <2>6, IngestTable
<1>4. TypeOK'
  <2>1. \A t \in Tables : wm'[t] <= source'[t].at /\ source'[t].at <= clock'
    BY <1>1, <1>3 DEF TypeOK
  <2>2. processed' \in 0..last'
    BY <1>1, BoundsAssumption DEF TypeOK
  <2>3. wm' \in [Tables -> 0..MaxDate]
    <3>1. wm' = [t \in Tables |-> wm'[t]]
      BY DEF Ingest
    <3> QED
      BY <1>3, <3>1
  <2>4. \A t \in Tables : bronze'[t] \in Seq(Object)
    BY <1>3
  <2> QED
    BY <1>1, <1>2, <2>1, <2>2, <2>3, <2>4 DEF TypeOK
<1>5. SourceJoined'
  BY <1>1, <1>2 DEF SourceJoined, Exists
<1>6. BronzeInv' /\ WatermarkLoaded'
  BY <1>1, <1>2, <1>3 DEF BronzeInv, WatermarkLoaded
<1>7. NeverRejected'
  BY <1>1, <1>2, <1>3, NamesAre DEF NeverRejected, NoReject
<1>8. VerifiedJoined'
  <2>1. phase' = "verified" => \A t \in Tables : Exists(t) => bronze'[t] # <<>>
    BY IngestTable
  <2>2. \A t \in Tables : bronze'[t] # <<>> => Exists(t)
    BY <1>3
  <2>3. CASE kind = "order"
    BY <1>1, <1>2, <2>1, <2>2, <2>3 DEF VerifiedJoined, SourceJoined
  <2>4. CASE kind = "payment"
    BY <1>1, <1>2, <2>1, <2>2, <2>4, NamesAre DEF VerifiedJoined, SourceJoined
  <2> QED
    BY <2>3, <2>4 DEF TypeOK
<1>9. Tested'
  <2>1. ASSUME NEW t \in Axes
        PROVE  DimKeysOf(StagedOf(bronze[t])) \subseteq DimKeysOf(StagedOf(bronze'[t]))
    <3>1. t \in Tables /\ bronze[t] \in Seq(Object)
      BY NamesAre DEF TypeOK
    <3> QED
      BY <3>1, StagedStep, StagedSet, ObservedKeys DEF Observes
  <2> QED
    BY <1>1, <1>2, <2>1, TestsAre, TestedNext DEF Tested
<1> QED
  BY <1>4, <1>5, <1>6, <1>7, <1>8, <1>9

-----------------------------------------------------------------------------
(* The facts of a full refresh.                                            *)

StagedRoot   == StagedOf(bronze[Root])
StagedSecond == StagedOf(bronze[Second])

LEMMA StagedTyped ==
  ASSUME TypeOK, NEW t \in Tables
  PROVE  /\ StagedOf(bronze[t]) \in SUBSET Object
         /\ Distinct(StagedOf(bronze[t]))
         /\ StagedOf(bronze[t]) \subseteq Range(bronze[t])
  BY StagedSet DEF TypeOK

\* Which facts there are.
RootFact   == /\ StagedRoot # {}
              /\ kind = "payment" => \A t \in Axes : StagedOf(bronze[t]) # {}
DetailFact == kind = "order" /\ StagedSecond # {}

TheFact(name) ==
  FactOf(kind, name, CurrentOf(StagedRoot), CurrentOf(StagedSecond), FactKeys)

LEMMA CurrentIff ==
  ASSUME TypeOK, NEW t \in Tables
  PROVE  CurrentOf(StagedOf(bronze[t])) = {} <=> StagedOf(bronze[t]) = {}
  BY StagedTyped, CurrentExists, NothingCurrent

LEMMA KeyAtIff ==
  ASSUME TypeOK, NEW t \in Tables
  PROVE  KeyAtOf(StagedOf(bronze[t]), born) = NoKey <=> StagedOf(bronze[t]) = {}
<1>1. born \in Nat
  BY BoundsAssumption DEF TypeOK
<1> QED
  BY <1>1, StagedTyped, KeyAtExists, NothingCurrent

LEMMA FactKeysAre ==
  ASSUME TypeOK
  PROVE  /\ DOMAIN FactKeys = Axes
         /\ FactKeys = [t \in Axes |-> FactKeys[t]]
         /\ StagedRoot # {} => \A t \in Axes :
              FactKeys[t] = KeyAtOf(StagedOf(bronze[t]), born)
<1>1. CurrentOf(StagedOf(bronze[Root])) = {} <=> StagedRoot = {}
  BY CurrentIff, NamesAre DEF StagedRoot
<1> QED
  BY <1>1 DEF FactKeys

LEMMA FullFacts ==
  ASSUME TypeOK
  PROVE  \A f : f \in Full <=> \/ RootFact /\ f = TheFact("root")
                               \/ DetailFact /\ f = TheFact("detail")
<1>1. /\ CurrentOf(StagedRoot) = {} <=> StagedRoot = {}
      /\ CurrentOf(StagedSecond) = {} <=> StagedSecond = {}
  BY CurrentIff, NamesAre DEF StagedRoot, StagedSecond
<1>2. Full = FullOf(kind, CurrentOf(StagedRoot), CurrentOf(StagedSecond), FactKeys)
  BY FullIs DEF StagedRoot, StagedSecond
<1>3. CASE kind = "order"
  <2>1. Full = {TheFact("root") : o \in CurrentOf(StagedRoot)}
                 \cup {TheFact("detail") : o \in CurrentOf(StagedSecond)}
    BY <1>2, <1>3 DEF FullOf, TheFact
  <2> QED
    BY <1>1, <1>3, <2>1 DEF RootFact, DetailFact
<1>4. CASE kind = "payment"
  <2>1. Full = {TheFact("root") : o \in
                  {p \in CurrentOf(StagedRoot) :
                     /\ CurrentOf(StagedSecond) # {}
                     /\ \A t \in DOMAIN FactKeys : FactKeys[t] # NoKey}}
    BY <1>2, <1>4 DEF FullOf, TheFact
  <2>2. StagedRoot # {} =>
          ((\A t \in DOMAIN FactKeys : FactKeys[t] # NoKey)
             <=> \A t \in Axes : StagedOf(bronze[t]) # {})
    BY FactKeysAre, KeyAtIff, NamesAre
  <2>3. (\A t \in Axes : StagedOf(bronze[t]) # {}) => StagedSecond # {}
    BY <1>4, NamesAre DEF StagedSecond
  <2> QED
    BY <1>1, <1>4, <2>1, <2>2, <2>3 DEF RootFact, DetailFact
<1> QED
  BY <1>3, <1>4 DEF TypeOK

LEMMA FactFields ==
  ASSUME TypeOK, NEW name
  PROVE  /\ TheFact(name).fact = name
         /\ TheFact(name).keys = FactKeys
         /\ TheFact(name).root = IF StagedRoot = {} THEN 0
                                 ELSE At(CurrentOf(StagedRoot))
         /\ StagedRoot # {} => At(CurrentOf(StagedRoot)) \in Dates
         /\ TheFact(name).detail \in 0..MaxDate
<1>1. /\ StagedRoot \in SUBSET Object /\ StagedSecond \in SUBSET Object
  BY StagedTyped, NamesAre DEF StagedRoot, StagedSecond
<1>2. /\ At(CurrentOf(StagedSecond)) \in 0..MaxDate
      /\ StagedRoot = {} => At(CurrentOf(StagedRoot)) = 0
      /\ StagedRoot # {} => At(CurrentOf(StagedRoot)) \in Dates
  <2>1. StagedSecond = {} => At(CurrentOf(StagedSecond)) = 0
    BY NothingCurrent
  <2>2. StagedSecond # {} => At(CurrentOf(StagedSecond)) \in Dates
    BY <1>1, CurrentExists
  <2>3. StagedRoot # {} => At(CurrentOf(StagedRoot)) \in Dates
    BY <1>1, CurrentExists
  <2> QED
    BY <2>1, <2>2, <2>3, NothingCurrent, BoundsAssumption DEF Dates
<1>3. 0 \in 0..MaxDate
  BY BoundsAssumption
<1> QED
  BY <1>2, <1>3 DEF TheFact, FactOf

-----------------------------------------------------------------------------
(* Rewinds and builds                                                      *)

LEMMA RewindBase ==
  ASSUME BaseInv, NEW t \in Tables, Rewind(t)
  PROVE  BaseInv'
<1> USE DEF BaseInv, SourceInv, StoreInv
<1>1. /\ kind' = kind /\ clock' = clock /\ source' = source /\ born' = born
      /\ bronze' = bronze /\ last' = last /\ phase' = phase
      /\ processed' = processed /\ built' = built /\ facts' = facts
      /\ wm' = [wm EXCEPT ![t] = 0] /\ faults' \in 0..MaxFaults
  BY BoundsAssumption DEF Rewind, sourceVars, martVars, TypeOK
<1>2. /\ Root' = Root /\ Second' = Second /\ Tier' = Tier
      /\ Tables' = Tables /\ Axes' = Axes
  BY <1>1, NamesFixed
<1>3. /\ wm' \in [Tables -> 0..MaxDate]
      /\ \A u \in Tables : wm'[u] = wm[u] \/ wm'[u] = 0
  BY <1>1, BoundsAssumption DEF TypeOK
<1>4. \A u \in Tables : wm'[u] <= source'[u].at /\ source'[u].at <= clock'
  BY <1>1, <1>3, BoundsAssumption DEF TypeOK, Row
<1>5. TypeOK'
  BY <1>1, <1>2, <1>3, <1>4 DEF TypeOK
<1>6. SourceJoined' /\ BronzeInv' /\ NeverRejected' /\ VerifiedJoined'
  BY <1>1, <1>2 DEF SourceJoined, Exists, BronzeInv, NeverRejected, NoReject,
                    VerifiedJoined
<1>7. WatermarkLoaded'
  BY <1>1, <1>2, <1>3 DEF WatermarkLoaded
<1>8. Tested'
  BY <1>1, <1>2, TestsAre, TestedNext DEF Tested
<1> QED
  BY <1>5, <1>6, <1>7, <1>8

LEMMA StutterBase ==
  ASSUME BaseInv, UNCHANGED <<sourceVars, wm, bronze, last, martVars, faults>>,
         phase' = phase \/ phase' = "failed"
  PROVE  BaseInv'
<1> USE DEF BaseInv, SourceInv, StoreInv
<1>1. /\ kind' = kind /\ clock' = clock /\ source' = source /\ born' = born
      /\ bronze' = bronze /\ last' = last /\ wm' = wm /\ faults' = faults
      /\ processed' = processed /\ built' = built /\ facts' = facts
  BY DEF sourceVars, martVars
<1>2. /\ Root' = Root /\ Second' = Second /\ Tier' = Tier
      /\ Tables' = Tables /\ Axes' = Axes
  BY <1>1, NamesFixed
<1>3. TypeOK'
  BY <1>1, <1>2 DEF TypeOK
<1>4. SourceJoined' /\ BronzeInv' /\ NeverRejected' /\ WatermarkLoaded'
  BY <1>1, <1>2 DEF SourceJoined, Exists, BronzeInv, NeverRejected, NoReject,
                    WatermarkLoaded
<1>5. VerifiedJoined'
  BY <1>1, <1>2 DEF VerifiedJoined
<1>6. Tested'
  BY <1>1, <1>2, TestsAre, TestedNext DEF Tested
<1> QED
  BY <1>3, <1>4, <1>5, <1>6

\* advance_processed_batch_watermark stays within the batches that ran and
\* passes everything that is staged.
LEMMA AdvancedBounds ==
  ASSUME TypeOK, BronzeInv, NEW b \in 0..MaxDate, Advanced(b)
  PROVE  /\ b \in 0..last
         /\ \A t \in Tables : \A o \in StagedOf(bronze[t]) : o.batch <= b
<1>1. \A t \in Tables : \A o \in StagedOf(bronze[t]) : o.batch \in StagedBatches
  BY StagedIs DEF StagedBatches
<1>2. \A s \in StagedBatches : s <= last
  <2>1. \A s \in StagedBatches :
          \E t \in Tables : \E o \in StagedOf(bronze[t]) : s = o.batch
    BY StagedIs DEF StagedBatches
  <2> QED
    BY <2>1, StagedTyped DEF BronzeInv
<1>3. processed <= last /\ last \in Nat
  BY BoundsAssumption DEF TypeOK
<1>4. b <= last
  BY <1>2, <1>3 DEF Advanced
<1>5. b \in 0..last
  BY <1>3, <1>4, BoundsAssumption
<1>6. \A s \in StagedBatches : s <= b
  BY DEF Advanced
<1> QED
  BY <1>1, <1>5, <1>6

LEMMA RebuiltFrom ==
  ASSUME NEW full \in BOOLEAN
  PROVE  Rebuilt(full) \subseteq Full \cup facts
  BY DEF Rebuilt

LEMMA BuildBase ==
  ASSUME BaseInv, NEW full \in BOOLEAN, Build(full)
  PROVE  BaseInv'
<1> USE DEF BaseInv, SourceInv, StoreInv
<1>1. /\ kind' = kind /\ clock' = clock /\ source' = source /\ born' = born
      /\ bronze' = bronze /\ last' = last /\ wm' = wm /\ faults' = faults
      /\ phase' = "built" /\ built' = TRUE /\ facts' = Rebuilt(full)
  BY DEF Build, sourceVars
<1>passed. TestsPass(Rebuilt(full))
  BY DEF Build
<1>2. /\ Root' = Root /\ Second' = Second /\ Tier' = Tier
      /\ Tables' = Tables /\ Axes' = Axes
  BY <1>1, NamesFixed
<1>3. processed' \in 0..last
  BY AdvancedBounds DEF Build
<1>4. Tested'
  <2>1. \A f \in Rebuilt(full) :
           /\ f.root # 0
           /\ \A t \in Axes : f.keys[t] \in DimKeysOf(StagedOf(bronze[t]))
           /\ \E g \in Rebuilt(full) : g.fact = "root"
    BY <1>passed, TestsAre
  <2> QED
    BY <1>1, <1>2, <2>1, TestedNext
<1>5. ASSUME NEW f \in facts'
      PROVE  /\ f.fact \in {"root", "detail"}
             /\ f.root \in Dates
             /\ f.detail \in 0..MaxDate
             /\ f.keys \in [Axes -> Key]
  <2>1. f \in Full \/ f \in facts
    BY <1>1, RebuiltFrom
  <2>2. CASE f \in facts
    BY <2>2 DEF TypeOK
  <2>3. CASE f \in Full
    <3>1. PICK name \in {"root", "detail"} : f = TheFact(name)
      BY <2>3, FullFacts
    <3>2. f.root # 0 /\ \A t \in Axes : f.keys[t] \in DimKeysOf(StagedOf(bronze[t]))
      BY <1>1, <1>passed, TestsAre
    <3>3. \A t \in Axes : f.keys[t] \in Key
      BY <3>2, DimKeysTyped, StagedTyped, NamesAre
    <3>4. f.keys = FactKeys
      BY <3>1, FactFields
    <3>5. f.keys \in [Axes -> Key]
      BY <3>3, <3>4, FactKeysAre
    <3> QED
      BY <3>1, <3>2, <3>5, FactFields
  <2> QED
    BY <2>1, <2>2, <2>3
<1>6. TypeOK'
  BY <1>1, <1>2, <1>3, <1>5 DEF TypeOK
<1>7. SourceJoined' /\ BronzeInv' /\ NeverRejected' /\ WatermarkLoaded'
  BY <1>1, <1>2 DEF SourceJoined, Exists, BronzeInv, NeverRejected, NoReject,
                    WatermarkLoaded
<1>8. VerifiedJoined'
  BY <1>1 DEF VerifiedJoined
<1> QED
  BY <1>4, <1>6, <1>7, <1>8

LEMMA NextBase ==
  ASSUME BaseInv, [Next]_vars
  PROVE  BaseInv'
<1>1. CASE Generate
  BY <1>1, GenerateBase
<1>2. ASSUME NEW b \in 1..clock, Ingest(b) PROVE BaseInv'
  BY <1>2, IngestBase
<1>3. ASSUME NEW t \in Tables, Rewind(t) PROVE BaseInv'
  BY <1>3, RewindBase
<1>4. ASSUME NEW full \in BOOLEAN, Build(full) PROVE BaseInv'
  BY <1>4, BuildBase
<1>5. ASSUME NEW full \in BOOLEAN, BuildFails(full) PROVE BaseInv'
  BY <1>5, StutterBase DEF BuildFails
<1>6. CASE UNCHANGED vars
  BY <1>6, StutterBase DEF vars
<1> QED
  BY <1>1, <1>2, <1>3, <1>4, <1>5, <1>6 DEF Next

\* Bronze, the joins and the tests of what was published.
LEMMA BaseCorrect == Spec => []BaseInv
<1>1. Init => BaseInv
  BY InitBase
<1>2. BaseInv /\ [Next]_vars => BaseInv'
  BY NextBase
<1> QED
  BY <1>1, <1>2, PTL DEF Spec

\* Every variable keeps its type; in particular a published fact has a key of
\* every dimension, and no more batches count as processed than have run.
THEOREM TypeCorrect == Spec => []TypeOK
<1>1. BaseInv => TypeOK
  BY DEF BaseInv, SourceInv
<1> QED
  BY <1>1, BaseCorrect, PTL

-----------------------------------------------------------------------------
(* A verified batch builds                                                 *)

\* A published fact has a successor in every later full refresh, so
\* delete+insert never leaves one behind.
Named ==
  \A f \in facts : /\ f.fact = "root" => RootFact
                   /\ f.fact = "detail" => DetailFact

\* What is staged stays staged.
LEMMA StagedGrows ==
  ASSUME TypeOK, BronzeInv, NEW b \in 1..clock, Ingest(b), NEW t \in Tables,
         StagedOf(bronze[t]) # {}
  PROVE  StagedOf(bronze'[t]) # {}
  BY StagedStep DEF Observes, Observed

\* A build recomputes the facts, or leaves them as they are.
LEMMA RebuiltIs ==
  ASSUME TypeOK, Named, NEW full \in BOOLEAN
  PROVE  \/ Rebuilt(full) = Full
         \/ built /\ ~Affected /\ Rebuilt(full) = facts
<1>1. ASSUME NEW f \in facts PROVE \E g \in Full : g.fact = f.fact
  <2>1. CASE f.fact = "root"
    <3>1. TheFact("root") \in Full
      BY <2>1, FullFacts DEF Named
    <3> QED
      BY <2>1, <3>1, FactFields
  <2>2. CASE f.fact = "detail"
    <3>1. TheFact("detail") \in Full
      BY <2>2, FullFacts DEF Named
    <3> QED
      BY <2>2, <3>1, FactFields
  <2> QED
    BY <2>1, <2>2 DEF TypeOK
<1>2. {f \in facts : \A g \in Full : g.fact # f.fact} = {}
  BY <1>1
<1> QED
  BY <1>2 DEF Rebuilt

LEMMA NextNamed ==
  ASSUME BaseInv, Named, [Next]_vars
  PROVE  Named'
<1> USE DEF BaseInv, SourceInv, StoreInv
<1>1. kind' = kind
  BY KindFixed
<1>2. Root' = Root /\ Second' = Second /\ Tables' = Tables /\ Axes' = Axes
  BY <1>1, NamesFixed
<1>3. CASE bronze' = bronze /\ facts' = facts
  BY <1>1, <1>2, <1>3 DEF Named, RootFact, DetailFact, StagedRoot, StagedSecond
<1>4. ASSUME NEW b \in 1..clock, Ingest(b) PROVE Named'
  <2>1. facts' = facts
    BY <1>4, IngestFrame
  <2>2. \A t \in Tables :
          StagedOf(bronze[t]) # {} => StagedOf(bronze'[t]) # {}
    BY <1>4, StagedGrows
  <2>3. RootFact => RootFact'
    BY <1>1, <1>2, <2>2, NamesAre DEF RootFact, StagedRoot
  <2>4. DetailFact => DetailFact'
    BY <1>1, <1>2, <2>2, NamesAre DEF DetailFact, StagedSecond
  <2> QED
    BY <2>1, <2>3, <2>4 DEF Named
<1>5. ASSUME NEW full \in BOOLEAN, Build(full) PROVE Named'
  <2>1. bronze' = bronze /\ facts' = Rebuilt(full)
    BY <1>5 DEF Build
  <2>2. RootFact' = RootFact /\ DetailFact' = DetailFact
    BY <1>1, <1>2, <2>1 DEF RootFact, DetailFact, StagedRoot, StagedSecond
  <2>3. ASSUME NEW f \in facts'
        PROVE  /\ f.fact = "root" => RootFact
               /\ f.fact = "detail" => DetailFact
    <3>1. CASE f \in facts
      BY <3>1 DEF Named
    <3>2. CASE f \in Full
      BY <3>2, FullFacts, FactFields
    <3> QED
      BY <2>1, <3>1, <3>2, RebuiltFrom
  <2> QED
    BY <2>2, <2>3 DEF Named
<1> QED
  BY <1>3, <1>4, <1>5
     DEF Next, vars, martVars, Generate, Rewind, BuildFails

LEMMA VerifiedBuilds ==
  ASSUME BaseInv, Named
  PROVE  VerifiedBatchBuilds
<1> USE DEF BaseInv, SourceInv, StoreInv
<1>1. SUFFICES ASSUME phase = "verified", \A t \in Tables : NoReject(t),
                      NEW full \in BOOLEAN
               PROVE  TestsPass(Rebuilt(full))
  BY DEF VerifiedBatchBuilds
<1>2. ASSUME NEW t \in Tables
      PROVE  StagedOf(bronze[t]) # {} <=> bronze[t] # <<>>
  <2>1. bronze[t] \in Seq(Object)
    BY DEF TypeOK
  <2>2. bronze[t] # <<>> => Head(bronze[t]) \in Range(bronze[t])
    BY <2>1, RangeOfSeq
  <2>3. bronze[t] # <<>> => StagedOf(bronze[t]) # {}
    BY <1>1, <2>1, <2>2, StagedExists DEF NoReject
  <2>4. Range(<<>>) = {}
    BY DEF Range
  <2> QED
    BY <2>1, <2>3, <2>4, StagedSet
<1>3. RootFact \/ DetailFact =>
        /\ RootFact /\ StagedRoot # {}
        /\ \A t \in Axes : StagedOf(bronze[t]) # {}
  <2>1. CASE kind = "order"
    BY <1>1, <1>2, <2>1, NamesAre
       DEF VerifiedJoined, RootFact, DetailFact, StagedRoot, StagedSecond
  <2>2. CASE kind = "payment"
    BY <2>2 DEF RootFact, DetailFact
  <2> QED
    BY <2>1, <2>2 DEF TypeOK
<1>4. ASSUME NEW f \in Full
      PROVE  /\ f.root # 0
             /\ \A t \in Axes : f.keys[t] \in DimKeysOf(StagedOf(bronze[t]))
             /\ \E g \in Full : g.fact = "root"
  <2>1. /\ RootFact /\ StagedRoot # {}
        /\ \A t \in Axes : StagedOf(bronze[t]) # {}
    BY <1>3, FullFacts
  <2>2. TheFact("root") \in Full
    BY <2>1, FullFacts
  <2>3. PICK name \in {"root", "detail"} : f = TheFact(name)
    BY FullFacts
  <2>4. f.root # 0
    BY <2>1, <2>3, FactFields DEF Dates
  <2>5. born \in Nat
    BY BoundsAssumption DEF TypeOK
  <2>6. \A t \in Axes : f.keys[t] \in DimKeysOf(StagedOf(bronze[t]))
    BY <2>1, <2>3, <2>5, FactFields, FactKeysAre, KeyAtExists, StagedTyped, NamesAre
  <2> QED
    BY <2>2, <2>4, <2>6, FactFields
<1>5. TestsPass(Full)
  BY <1>4, TestsAre
<1> QED
  BY <1>5, RebuiltIs DEF Tested

\* A verified batch can be built when no row was rejected, incrementally and
\* from nothing, also when batches come late: the tests of the facts never
\* stop the pipeline by what the dimensions or the choice of affected keys do.
THEOREM VerifiedCorrect == Spec => []VerifiedBatchBuilds
<1>1. Init => Named
  BY DEF Init, Named
<1>2. BaseInv /\ Named /\ [Next]_vars => Named'
  BY NextNamed
<1>3. BaseInv /\ Named => VerifiedBatchBuilds
  BY VerifiedBuilds
<1> QED
  BY <1>1, <1>2, <1>3, BaseCorrect, PTL DEF Spec

-----------------------------------------------------------------------------
(* Incremental builds publish what a full refresh would                    *)

\* A run that is not built yet has a batch above the processed ones.
BatchesAhead == phase # "built" => processed < last \/ last = 0

\* A build has seen everything that is staged.
BuiltAll ==
  phase = "built" =>
    built /\ \A t \in Tables : \A o \in StagedOf(bronze[t]) : o.batch <= processed

FirstTierKept ==
  kind = "payment" /\ bronze[Tier] # <<>> => ~Head(bronze[Tier]).rejected

\* A row that a build has seen had the rows it is joined with.
OldRootJoined ==
  (\E o \in CurrentOf(StagedRoot) : o.batch <= processed) =>
    /\ kind = "order" => StagedOf(bronze[Tier]) # {}
    /\ kind = "payment" => StagedSecond # {} /\ bronze[Tier] # <<>>

\* Affected, over sets of observations.
Touched ==
  /\ StagedRoot # {}
  /\ kind = "payment" => StagedSecond # {}
  /\ \/ \E o \in CurrentOf(StagedRoot) : o.batch > processed
     \/ kind = "order" /\ \E o \in CurrentOf(StagedSecond) : o.batch > processed
     \/ \E t \in Axes : \E o \in StagedOf(bronze[t]) :
          o.batch > processed /\ o.at <= born

\* The facts are up to date, or the next build recomputes them.
FactsCurrent ==
  built /\ FirstTierKept => Touched \/ facts = Full \/ StagedRoot = {}

IncInv == BatchesAhead /\ BuiltAll /\ OldRootJoined /\ FactsCurrent

LEMMA AffectedIs ==
  ASSUME TypeOK
  PROVE  Affected <=> Touched
<1>1. /\ CurrentOf(StagedRoot) = {} <=> StagedRoot = {}
      /\ CurrentOf(StagedSecond) = {} <=> StagedSecond = {}
  BY CurrentIff, NamesAre DEF StagedRoot, StagedSecond
<1>2. /\ Current(Root) = CurrentOf(StagedRoot)
      /\ Current(Second) = CurrentOf(StagedSecond)
  BY ModelsAre DEF StagedRoot, StagedSecond
<1>3. \A t : AxisChanged(t) <=>
        \E o \in StagedOf(bronze[t]) : o.batch > processed /\ o.at <= born
  BY StagedIs DEF AxisChanged, New
<1> QED
  BY <1>1, <1>2, <1>3 DEF Affected, Touched, New

\* A published detail has its root.
LEMMA NoRootNoFacts ==
  ASSUME Tested, Named, StagedRoot = {}
  PROVE  facts = {}
  BY DEF Tested, TestsPass, Named, RootFact

LEMMA UpToDate ==
  ASSUME BaseInv, Named, IncInv
  PROVE  IncrementalEqualsFull
<1> USE DEF BaseInv, SourceInv, StoreInv, IncInv
<1>1. SUFFICES ASSUME phase = "built", TestsPass(Full), FirstTierKept
               PROVE  facts = Full
  BY DEF IncrementalEqualsFull, FirstTierKept
<1>2. ~Touched
  <2>1. \A t \in Tables : \A o \in StagedOf(bronze[t]) :
          o.batch <= processed /\ o.batch \in Nat /\ processed \in Nat
    BY <1>1, StagedTyped, ObjectFields, BoundsAssumption DEF BuiltAll, TypeOK
  <2>2. \A t \in Tables : \A o \in StagedOf(bronze[t]) : ~(o.batch > processed)
    BY <2>1
  <2>3. /\ CurrentOf(StagedRoot) \subseteq StagedOf(bronze[Root])
        /\ CurrentOf(StagedSecond) \subseteq StagedOf(bronze[Second])
    BY DEF CurrentOf, StagedRoot, StagedSecond
  <2> QED
    BY <2>2, <2>3, NamesAre DEF Touched
<1>3. CASE StagedRoot = {}
  <2>1. facts = {}
    BY <1>3, NoRootNoFacts
  <2>2. ASSUME NEW f \in Full PROVE FALSE
    <3>1. PICK name \in {"root", "detail"} : f = TheFact(name)
      BY FullFacts
    <3>2. f.root = 0
      BY <1>3, <3>1, FactFields
    <3> QED
      BY <1>1, <3>2 DEF TestsPass
  <2> QED
    BY <2>1, <2>2
<1> QED
  BY <1>1, <1>2, <1>3 DEF FactsCurrent, BuiltAll

\* With batches in order a new object is above the processed batches.
LEMMA BatchIsNew ==
  ASSUME TypeOK, BatchesAhead, ~Late, NEW b \in 1..clock, Ingest(b)
  PROVE  b > processed /\ processed \in Nat
<1>1. b \in Nat /\ b >= 1 /\ processed \in Nat /\ last \in Nat /\ processed <= last
  BY IngestFrame, BoundsAssumption DEF TypeOK
<1>2. b > last \/ (b = last /\ phase = "failed")
  BY DEF Ingest, InOrder
<1> QED
  BY <1>1, <1>2 DEF BatchesAhead

LEMMA NewStep ==
  ASSUME TypeOK, BronzeInv, BatchesAhead, ~Late, NEW b \in 1..clock, Ingest(b),
         NEW t \in Tables
  PROVE  \/ StagedOf(bronze'[t]) = StagedOf(bronze[t])
         \/ \E x \in Object :
              /\ x.batch > processed
              /\ MayObserve(StagedOf(bronze[t]), x)
              /\ StagedOf(bronze'[t]) = Observed(StagedOf(bronze[t]), x)
              /\ x \in StagedOf(bronze'[t])
              /\ CurrentOf(StagedOf(bronze'[t])) = {x}
<1>1. SUFFICES ASSUME Observes(StagedOf(bronze[t]), StagedOf(bronze'[t]), b)
               PROVE  \E x \in Object :
                        /\ x.batch > processed
                        /\ MayObserve(StagedOf(bronze[t]), x)
                        /\ StagedOf(bronze'[t]) = Observed(StagedOf(bronze[t]), x)
                        /\ x \in StagedOf(bronze'[t])
                        /\ CurrentOf(StagedOf(bronze'[t])) = {x}
  BY StagedStep
<1>2. PICK x \in Object :
        /\ x.batch = b /\ MayObserve(StagedOf(bronze[t]), x)
        /\ StagedOf(bronze'[t]) = Observed(StagedOf(bronze[t]), x)
  BY <1>1 DEF Observes
<1>3. x.batch > processed
  BY <1>2, BatchIsNew
<1>4. CurrentOf(StagedOf(bronze'[t])) = {x}
  BY <1>2, StagedTyped, ObservedSet
<1>5. x \in StagedOf(bronze'[t])
  BY <1>2 DEF Observed
<1> QED
  BY <1>2, <1>3, <1>4, <1>5

\* The current row of a table that no batch above the processed ones shows
\* is the one that was staged before.
LEMMA OldCurrent ==
  ASSUME TypeOK, BronzeInv, BatchesAhead, ~Late, NEW b \in 1..clock, Ingest(b),
         NEW t \in Tables,
         \E o \in CurrentOf(StagedOf(bronze'[t])) : ~(o.batch > processed)
  PROVE  StagedOf(bronze'[t]) = StagedOf(bronze[t])
  BY NewStep

\* What was to be recomputed is still to be recomputed.
LEMMA StaysTouched ==
  ASSUME TypeOK, BronzeInv, BatchesAhead, ~Late, NEW b \in 1..clock, Ingest(b),
         Touched
  PROVE  Touched'
<1>1. /\ kind' = kind /\ processed' = processed /\ born' = born
  BY IngestFrame
<1>2. Root' = Root /\ Second' = Second /\ Tables' = Tables /\ Axes' = Axes
  BY <1>1, NamesFixed
<1>3. \A t \in Tables : StagedOf(bronze[t]) # {} => StagedOf(bronze'[t]) # {}
  BY StagedGrows
<1>4. StagedRoot' # {} /\ (kind = "payment" => StagedSecond' # {})
  BY <1>2, <1>3, NamesAre DEF Touched, StagedRoot, StagedSecond
<1>5. ASSUME NEW t \in Tables,
             \E o \in CurrentOf(StagedOf(bronze[t])) : o.batch > processed
      PROVE  \E o \in CurrentOf(StagedOf(bronze'[t])) : o.batch > processed
  BY <1>5, NewStep
<1>6. ASSUME NEW t \in Tables, NEW o \in StagedOf(bronze[t]),
             o.batch > processed, o.at <= born
      PROVE  \E p \in StagedOf(bronze'[t]) : p.batch > processed /\ p.at <= born
  <2>1. CASE StagedOf(bronze'[t]) = StagedOf(bronze[t])
    BY <1>6, <2>1
  <2>2. ASSUME NEW x \in Object, x.batch > processed, x \in StagedOf(bronze'[t]),
               StagedOf(bronze'[t]) = Observed(StagedOf(bronze[t]), x)
        PROVE  \E p \in StagedOf(bronze'[t]) :
                 p.batch > processed /\ p.at <= born
    <3>1. CASE o.at = x.at
      BY <1>6, <2>2, <3>1
    <3>2. CASE o.at # x.at
      BY <1>6, <2>2, <3>2 DEF Observed
    <3> QED
      BY <3>1, <3>2
  <2> QED
    BY <2>1, <2>2, NewStep
<1>7. \/ \E o \in CurrentOf(StagedOf(bronze[Root])) : o.batch > processed
      \/ kind = "order" /\ \E o \in CurrentOf(StagedOf(bronze[Second])) :
                             o.batch > processed
      \/ \E t \in Axes : \E o \in StagedOf(bronze[t]) :
           o.batch > processed /\ o.at <= born
  BY DEF Touched, StagedRoot, StagedSecond
<1>8. \/ \E o \in CurrentOf(StagedOf(bronze'[Root])) : o.batch > processed
      \/ kind = "order" /\ \E o \in CurrentOf(StagedOf(bronze'[Second])) :
                             o.batch > processed
      \/ \E t \in Axes : \E o \in StagedOf(bronze'[t]) :
           o.batch > processed /\ o.at <= born
  <2>1. CASE \E o \in CurrentOf(StagedOf(bronze[Root])) : o.batch > processed
    BY <1>5, <2>1, NamesAre
  <2>2. CASE kind = "order" /\ \E o \in CurrentOf(StagedOf(bronze[Second])) :
                                 o.batch > processed
    BY <1>5, <2>2, NamesAre
  <2>3. CASE \E t \in Axes : \E o \in StagedOf(bronze[t]) :
               o.batch > processed /\ o.at <= born
    BY <1>6, <2>3, NamesAre
  <2> QED
    BY <1>7, <2>1, <2>2, <2>3
<1> QED
  BY <1>1, <1>2, <1>4, <1>8 DEF Touched, StagedRoot, StagedSecond

\* The first object of a table stays the first.
LEMMA FirstStays ==
  ASSUME TypeOK, NEW b \in 1..clock, Ingest(b), NEW t \in Tables,
         bronze[t] # <<>>
  PROVE  bronze'[t] # <<>> /\ Head(bronze'[t]) = Head(bronze[t])
<1>1. bronze[t] \in Seq(Object)
  BY DEF TypeOK
<1>2. CASE Keeps(t)
  BY <1>2 DEF Keeps
<1>3. CASE \E x : Loads(t, b, x)
  BY <1>1, <1>3, AppendRange DEF Loads
<1> QED
  BY <1>2, <1>3, IngestTable

\* A batch that does not touch a fact leaves what a full refresh makes of it.
LEMMA UntouchedFull ==
  ASSUME TypeOK, BronzeInv, BatchesAhead, OldRootJoined, FirstTierKept, ~Late,
         NEW b \in 1..clock, Ingest(b), ~Touched', StagedRoot' # {}
  PROVE  Full' = Full
<1>1. kind' = kind /\ processed' = processed /\ born' = born
  BY IngestFrame
<1>2. Root' = Root /\ Second' = Second /\ Tables' = Tables /\ Axes' = Axes
  BY <1>1, NamesFixed
<1>3. \A t \in Tables : StagedOf(bronze[t]) # {} => StagedOf(bronze'[t]) # {}
  BY StagedGrows
<1>4. /\ Full = FullOf(kind, CurrentOf(StagedOf(bronze[Root])),
                       CurrentOf(StagedOf(bronze[Second])), FactKeys)
      /\ Full' = FullOf(kind, CurrentOf(StagedOf(bronze'[Root])),
                        CurrentOf(StagedOf(bronze'[Second])), FactKeys')
  BY <1>1, <1>2, FullIs, FullNext
<1>5. StagedRoot' = StagedOf(bronze'[Root]) /\ StagedSecond' = StagedOf(bronze'[Second])
  BY <1>2 DEF StagedRoot, StagedSecond
<1>6. CASE kind = "payment" /\ StagedSecond' = {}
  <2>1. StagedOf(bronze[Second]) = {} /\ StagedOf(bronze'[Second]) = {}
    BY <1>3, <1>5, <1>6, NamesAre
  <2> QED
    BY <1>4, <1>6, <2>1, NothingCurrent DEF FullOf
<1>7. CASE ~(kind = "payment" /\ StagedSecond' = {})
  <2>1. /\ ~\E o \in CurrentOf(StagedOf(bronze'[Root])) : o.batch > processed
        /\ kind = "order" =>
             ~\E o \in CurrentOf(StagedOf(bronze'[Second])) : o.batch > processed
        /\ \A t \in Axes : \A o \in StagedOf(bronze'[t]) :
             ~(o.batch > processed /\ o.at <= born)
    BY <1>1, <1>2, <1>5, <1>7 DEF Touched
  <2>2. PICK o \in CurrentOf(StagedOf(bronze'[Root])) : TRUE
    <3>1. StagedOf(bronze'[Root]) \in SUBSET Object
      BY NewStep, StagedTyped, ObservedSet, NamesAre
    <3> QED
      BY <1>5, <3>1, CurrentExists
  <2>3. StagedOf(bronze'[Root]) = StagedOf(bronze[Root])
    BY <2>1, <2>2, OldCurrent, NamesAre
  <2>4. o \in Object /\ o.batch <= processed
    <3>1. o \in Object
      BY <2>2, <2>3, StagedTyped, NamesAre DEF CurrentOf
    <3>2. o.batch \in Nat /\ processed \in Nat
      BY <3>1, ObjectFields, BatchIsNew
    <3> QED
      BY <2>1, <2>2, <3>1, <3>2
  <2>5. /\ kind = "order" => StagedOf(bronze[Tier]) # {}
        /\ kind = "payment" => StagedSecond # {} /\ bronze[Tier] # <<>>
    BY <2>2, <2>3, <2>4 DEF OldRootJoined, StagedRoot
  <2>6. StagedOf(bronze[Tier]) # {}
    <3>1. bronze[Tier] \in Seq(Object)
      BY NamesAre DEF TypeOK
    <3>2. ASSUME kind = "payment" PROVE StagedOf(bronze[Tier]) # {}
      <4>1. bronze[Tier] # <<>> /\ ~Head(bronze[Tier]).rejected
        BY <2>5, <3>2 DEF FirstTierKept
      <4>2. Head(bronze[Tier]) \in Range(bronze[Tier])
        BY <3>1, <4>1, RangeOfSeq
      <4> QED
        BY <3>1, <4>1, <4>2, StagedExists
    <3> QED
      BY <2>5, <3>2 DEF TypeOK
  <2>7. ASSUME NEW t \in Axes
        PROVE  KeyAtOf(StagedOf(bronze'[t]), born') = KeyAtOf(StagedOf(bronze[t]), born)
    <3>1. t \in Tables /\ StagedOf(bronze[t]) # {}
      BY <2>5, <2>6, NamesAre DEF TypeOK, StagedSecond
    <3>2. CASE StagedOf(bronze'[t]) = StagedOf(bronze[t])
      BY <1>1, <3>2
    <3>3. ASSUME NEW x \in Object, x.batch > processed, x \in StagedOf(bronze'[t]),
                 MayObserve(StagedOf(bronze[t]), x),
                 StagedOf(bronze'[t]) = Observed(StagedOf(bronze[t]), x)
          PROVE  KeyAtOf(StagedOf(bronze'[t]), born')
                   = KeyAtOf(StagedOf(bronze[t]), born)
      <4>1. born \in Nat /\ x.at \in Nat /\ ~(x.at <= born)
        BY <2>1, <3>3, ObjectFields, BoundsAssumption DEF TypeOK
      <4>2. born < x.at
        BY <4>1
      <4>3. KeyAtOf(Observed(StagedOf(bronze[t]), x), born)
              = KeyAtOf(StagedOf(bronze[t]), born)
        BY <3>1, <3>3, <4>1, <4>2, StagedTyped, ObservedKeyAt
      <4> QED
        BY <1>1, <3>3, <4>3
    <3> QED
      BY <3>1, <3>2, <3>3, NewStep
  <2>8. FactKeys' = FactKeys
    <3>1. CurrentOf(StagedOf(bronze'[Root])) # {}
      BY <2>2
    <3>2. FactKeys' = [t \in Axes |-> KeyAtOf(StagedOf(bronze'[t]), born')]
      BY <1>2, <3>1 DEF FactKeys
    <3>3. FactKeys = [t \in Axes |-> KeyAtOf(StagedOf(bronze[t]), born)]
      BY <2>3, <3>1 DEF FactKeys
    <3> QED
      BY <2>7, <3>2, <3>3
  <2>9. CASE kind = "order"
    <3>1. CurrentOf(StagedOf(bronze'[Second])) = CurrentOf(StagedOf(bronze[Second]))
      <4>1. CASE CurrentOf(StagedOf(bronze'[Second])) = {}
        <5>1. StagedOf(bronze'[Second]) = StagedOf(bronze[Second])
          BY <4>1, NewStep, NamesAre
        <5> QED
          BY <5>1
      <4>2. CASE CurrentOf(StagedOf(bronze'[Second])) # {}
        BY <2>1, <2>9, <4>2, OldCurrent, NamesAre
      <4> QED
        BY <4>1, <4>2
    <3> QED
      BY <1>4, <2>3, <2>8, <3>1
  <2>10. CASE kind = "payment"
    <3>1. StagedOf(bronze[Second]) # {} /\ StagedOf(bronze'[Second]) # {}
      BY <1>3, <2>5, <2>10, NamesAre DEF StagedSecond
    <3>2. CurrentOf(StagedOf(bronze[Second])) # {}
      BY <3>1, CurrentIff, NamesAre
    <3>3. CurrentOf(StagedOf(bronze'[Second])) # {}
      BY <3>2, NewStep, NamesAre
    <3> QED
      BY <1>4, <2>3, <2>8, <2>10, <3>2, <3>3 DEF FullOf, FactOf
  <2> QED
    BY <2>9, <2>10 DEF TypeOK
<1> QED
  BY <1>6, <1>7

LEMMA IngestInc ==
  ASSUME BaseInv, Named, IncInv, ~Late, NEW b \in 1..clock, Ingest(b)
  PROVE  IncInv'
<1> USE DEF BaseInv, SourceInv, StoreInv, IncInv
<1>1. /\ kind' = kind /\ processed' = processed /\ born' = born
      /\ built' = built /\ facts' = facts
      /\ b \in Nat /\ last' \in Nat /\ b <= last'
      /\ phase' \in {"failed", "verified"}
  BY IngestFrame, BoundsAssumption
<1>2. /\ Root' = Root /\ Second' = Second /\ Tier' = Tier
      /\ Tables' = Tables /\ Axes' = Axes
  BY <1>1, NamesFixed
<1>3. BatchesAhead'
  BY <1>1, BatchIsNew DEF BatchesAhead
<1>4. BuiltAll'
  BY <1>1 DEF BuiltAll
<1>5. \A t \in Tables : StagedOf(bronze[t]) # {} => StagedOf(bronze'[t]) # {}
  BY StagedGrows
<1>6. OldRootJoined'
  <2>1. SUFFICES ASSUME NEW o \in CurrentOf(StagedOf(bronze'[Root])),
                        o.batch <= processed
                 PROVE  /\ kind = "order" => StagedOf(bronze'[Tier]) # {}
                        /\ kind = "payment" => /\ StagedOf(bronze'[Second]) # {}
                                               /\ bronze'[Tier] # <<>>
    BY <1>1, <1>2 DEF OldRootJoined, StagedRoot, StagedSecond
  <2>2. StagedOf(bronze'[Root]) \in SUBSET Object
    BY NewStep, StagedTyped, ObservedSet, NamesAre
  <2>3. o.batch \in Nat /\ processed \in Nat
    BY <2>1, <2>2, ObjectFields, BatchIsNew DEF CurrentOf
  <2>4. ~(o.batch > processed)
    BY <2>1, <2>3
  <2>5. StagedOf(bronze'[Root]) = StagedOf(bronze[Root])
    BY <2>1, <2>4, OldCurrent, NamesAre
  <2>6. /\ kind = "order" => StagedOf(bronze[Tier]) # {}
        /\ kind = "payment" => StagedSecond # {} /\ bronze[Tier] # <<>>
    BY <2>1, <2>5 DEF OldRootJoined, StagedRoot
  <2> QED
    BY <1>5, <2>6, FirstStays, NamesAre DEF StagedSecond
<1>7. FactsCurrent'
  <2>1. SUFFICES ASSUME built, FirstTierKept', ~Touched', StagedRoot' # {}
                 PROVE  facts = Full'
    BY <1>1 DEF FactsCurrent
  <2>2. FirstTierKept
    BY <1>1, <1>2, <2>1, FirstStays, NamesAre DEF FirstTierKept
  <2>3. Full' = Full
    BY <2>1, <2>2, UntouchedFull
  <2>4. ~Touched
    BY <2>1, StaysTouched
  <2>5. CASE facts = Full
    BY <2>3, <2>5
  <2>6. CASE StagedRoot = {}
    <3>1. \E o \in CurrentOf(StagedOf(bronze'[Root])) : o.batch > processed
      <4>1. StagedOf(bronze'[Root]) # StagedOf(bronze[Root])
        BY <1>2, <2>1, <2>6 DEF StagedRoot
      <4> QED
        BY <4>1, NewStep, NamesAre
    <3>2. kind = "payment"
      BY <1>1, <1>2, <2>1, <3>1 DEF Touched, StagedRoot
    <3>3. Full = {}
      BY <2>6, <3>2, FullFacts DEF RootFact, DetailFact
    <3> QED
      BY <2>3, <2>6, <3>3, NoRootNoFacts
  <2> QED
    BY <2>1, <2>2, <2>4, <2>5, <2>6 DEF FactsCurrent
<1> QED
  BY <1>3, <1>4, <1>6, <1>7

LEMMA BuildInc ==
  ASSUME BaseInv, Named, IncInv, NEW full \in BOOLEAN, Build(full)
  PROVE  IncInv'
<1> USE DEF BaseInv, SourceInv, StoreInv, IncInv
<1>1. /\ kind' = kind /\ born' = born /\ bronze' = bronze
      /\ phase = "verified" /\ phase' = "built" /\ built' = TRUE
      /\ facts' = Rebuilt(full) /\ TestsPass(Rebuilt(full))
  BY DEF Build, sourceVars
<1>2. /\ Root' = Root /\ Second' = Second /\ Tier' = Tier
      /\ Tables' = Tables /\ Axes' = Axes
  BY <1>1, NamesFixed
<1>3. \A t \in Tables : \A o \in StagedOf(bronze[t]) : o.batch <= processed'
  BY AdvancedBounds DEF Build
<1>4. BatchesAhead'
  BY <1>1 DEF BatchesAhead
<1>5. BuiltAll'
  BY <1>1, <1>2, <1>3 DEF BuiltAll
<1>6. Rebuilt(full) = Full \/ (built /\ ~Touched /\ Rebuilt(full) = facts)
  BY RebuiltIs, AffectedIs
<1>7. OldRootJoined'
  <2>1. SUFFICES ASSUME NEW o \in CurrentOf(StagedRoot)
                 PROVE  /\ kind = "order" => StagedOf(bronze[Tier]) # {}
                        /\ kind = "payment" => StagedSecond # {} /\ bronze[Tier] # <<>>
    BY <1>1, <1>2 DEF OldRootJoined, StagedRoot, StagedSecond
  <2>2. o \in StagedRoot /\ o \in StagedOf(bronze[Root])
    BY DEF CurrentOf, StagedRoot
  <2>3. CASE kind = "order"
    <3>1. CASE Rebuilt(full) = Full
      <4>1. TheFact("root") \in Full
        BY <2>2, <2>3, FullFacts DEF RootFact
      <4>2. TheFact("root").keys[Tier] \in DimKeysOf(StagedOf(bronze[Tier]))
        BY <1>1, <3>1, <4>1, TestsAre, NamesAre
      <4> QED
        BY <2>3, <4>2 DEF DimKeysOf, VersionsOf
    <3>2. CASE ~Touched
      <4>1. ~(o.batch > processed)
        BY <2>1, <2>2, <2>3, <3>2 DEF Touched
      <4>2. o \in Object
        BY <2>2, StagedTyped, NamesAre
      <4>3. o.batch <= processed
        BY <4>1, <4>2, ObjectFields, BoundsAssumption DEF TypeOK
      <4> QED
        BY <2>1, <2>3, <4>3 DEF OldRootJoined
    <3> QED
      BY <1>6, <3>1, <3>2
  <2>4. CASE kind = "payment"
    <3>1. /\ bronze[Root] \in Seq(Object) /\ bronze[Second] \in Seq(Object)
      BY NamesAre DEF TypeOK
    <3>2. bronze[Root] # <<>>
      <4>1. Range(<<>>) = {}
        BY DEF Range
      <4> QED
        BY <2>2, <3>1, <4>1, StagedSet
    <3>3. bronze[Tier] # <<>> /\ bronze[Second] # <<>>
      BY <1>1, <2>4, <3>2 DEF VerifiedJoined
    <3>4. Head(bronze[Second]) \in Range(bronze[Second])
      BY <3>1, <3>3, RangeOfSeq
    <3>5. StagedSecond # {}
      BY <2>4, <3>1, <3>4, StagedExists DEF NeverRejected, NoReject, StagedSecond
    <3> QED
      BY <2>4, <3>3, <3>5
  <2> QED
    BY <2>3, <2>4 DEF TypeOK
<1>8. FactsCurrent'
  <2>1. FactKeys' = FactKeys /\ StagedRoot' = StagedRoot
    BY <1>1, <1>2 DEF FactKeys, StagedRoot
  <2>2. Full' = Full
    BY <1>1, <1>2, <2>1, FullIs, FullNext
  <2>3. FirstTierKept' = FirstTierKept
    BY <1>1, <1>2 DEF FirstTierKept
  <2> QED
    BY <1>1, <1>6, <2>1, <2>2, <2>3 DEF FactsCurrent
<1> QED
  BY <1>4, <1>5, <1>7, <1>8

\* Steps that change neither Bronze nor the marts, nor what is staged of a
\* fact that has happened.
LEMMA QuietInc ==
  ASSUME BaseInv, IncInv, kind' = kind,
         UNCHANGED <<bronze, last, martVars>>,
         born' = born \/ StagedRoot = {},
         phase' = phase \/ (phase' = "failed" /\ phase # "built")
  PROVE  IncInv'
<1> USE DEF BaseInv, SourceInv, StoreInv, IncInv
<1>1. /\ bronze' = bronze /\ last' = last /\ processed' = processed
      /\ built' = built /\ facts' = facts
  BY DEF martVars
<1>2. /\ Root' = Root /\ Second' = Second /\ Tier' = Tier
      /\ Tables' = Tables /\ Axes' = Axes
  BY NamesFixed
<1>3. BatchesAhead' /\ BuiltAll'
  BY <1>1, <1>2 DEF BatchesAhead, BuiltAll
<1>4. StagedRoot' = StagedRoot /\ StagedSecond' = StagedSecond
  BY <1>1, <1>2 DEF StagedRoot, StagedSecond
<1>5. OldRootJoined'
  BY <1>1, <1>2, <1>4 DEF OldRootJoined
<1>6. FirstTierKept' = FirstTierKept
  BY <1>1, <1>2 DEF FirstTierKept
<1>7. ASSUME born' = born PROVE Full' = Full /\ (Touched => Touched')
  <2>1. FactKeys' = FactKeys
    BY <1>1, <1>2, <1>7 DEF FactKeys
  <2>2. Full' = Full
    BY <1>1, <1>2, <2>1, FullIs, FullNext
  <2> QED
    BY <1>1, <1>2, <1>4, <1>7, <2>2 DEF Touched
<1>8. FactsCurrent'
  BY <1>1, <1>4, <1>6, <1>7 DEF FactsCurrent
<1> QED
  BY <1>3, <1>5, <1>8

LEMMA GenerateInc ==
  ASSUME BaseInv, IncInv, Generate
  PROVE  IncInv'
<1> USE DEF BaseInv, SourceInv, StoreInv
<1>1. /\ kind' = kind /\ phase' = phase
      /\ UNCHANGED <<bronze, last, martVars>>
  BY DEF Generate
<1>2. born' # born => ~Exists(Root)
  BY GenerateWrites
<1>3. ~Exists(Root) => StagedRoot = {}
  <2>1. SUFFICES ASSUME ~Exists(Root), NEW o \in StagedOf(bronze[Root]) PROVE FALSE
    BY DEF StagedRoot
  <2>2. o \in Object /\ o \in Range(bronze[Root])
    BY StagedTyped, NamesAre
  <2>3. o.at <= source[Root].at
    BY <2>2, NamesAre DEF BronzeInv
  <2> QED
    BY <2>1, <2>2, <2>3, ObjectFields DEF Exists
<1> QED
  BY <1>1, <1>2, <1>3, QuietInc

LEMMA NextInc ==
  ASSUME BaseInv, Named, IncInv, ~Late, [Next]_vars
  PROVE  IncInv'
<1>1. CASE Generate
  BY <1>1, GenerateInc
<1>2. ASSUME NEW b \in 1..clock, Ingest(b) PROVE IncInv'
  BY <1>2, IngestInc
<1>3. ASSUME NEW t \in Tables, Rewind(t) PROVE IncInv'
  BY <1>3, QuietInc DEF Rewind, sourceVars
<1>4. ASSUME NEW full \in BOOLEAN, Build(full) PROVE IncInv'
  BY <1>4, BuildInc
<1>5. ASSUME NEW full \in BOOLEAN, BuildFails(full) PROVE IncInv'
  BY <1>5, QuietInc DEF BuildFails, sourceVars
<1>6. CASE UNCHANGED vars
  BY <1>6, QuietInc DEF vars, sourceVars
<1> QED
  BY <1>1, <1>2, <1>3, <1>4, <1>5, <1>6 DEF Next

LEMMA InitInc ==
  ASSUME Init
  PROVE  IncInv
<1>1. TypeOK
  BY InitBase DEF BaseInv, SourceInv
<1>2. StagedRoot = {}
  BY <1>1, NamesAre DEF Init, StagedRoot, StagedOf
<1> QED
  BY <1>2 DEF Init, IncInv, BatchesAhead, BuiltAll, OldRootJoined, FactsCurrent,
              CurrentOf

\* As long as batches come in the order of their dates, the facts a build
\* publishes are those of a full refresh of the same Bronze objects, whatever
\* failed, was rejected, was rewound or was loaded in different batches.
THEOREM IncrementalCorrect == ~Late => (Spec => []IncrementalEqualsFull)
<1> SUFFICES ASSUME ~Late PROVE Spec => []IncrementalEqualsFull
  OBVIOUS
<1>1. Init => Named /\ IncInv
  BY InitInc DEF Init, Named
<1>2. BaseInv /\ Named /\ IncInv /\ [Next]_vars => Named' /\ IncInv'
  BY NextNamed, NextInc
<1>3. BaseInv /\ Named /\ IncInv => IncrementalEqualsFull
  BY UpToDate
<1> QED
  BY <1>1, <1>2, <1>3, BaseCorrect, PTL DEF Spec

=============================================================================
