-------------------------- MODULE ExtractionProofs --------------------------
(***************************************************************************)
(* Proofs about Extraction for every snapshot, watermark, page size,       *)
(* corruption plan and reject rate.  The two files always hold exactly the *)
(* rows up to the lower bound of the next page (Delivered), and the        *)
(* ordinals that were given out lie below the count of rows (Numbered).    *)
(***************************************************************************)
EXTENDS Extraction, FiniteSetTheorems, WellFoundedInduction, TLAPS

Positions == Nat \X Nat
Active    == pc \in {"paging", "read", "ready"}
Files     == bronze \cup quarantine

\* The upper bound is the last row of the snapshot and above the watermark,
\* and the reading goes up from the watermark.
BoundsSet ==
  Active => /\ upper \in rows /\ Less(before, upper)
            /\ \A r \in rows : ~Less(upper, r)
            /\ lower = before \/ Less(before, lower)

\* Exactly the rows up to the lower bound have been written, each once.
Delivered ==
  Active =>
    /\ \A r \in rows : Less(before, r) /\ ~Less(lower, r)
                         <=> \E rec \in Files : rec.row = r
    /\ \A rec \in Files : rec.row \in rows
    /\ \A a, b \in Files : a.row = b.row => a = b

\* They are numbered in the order of their cursors, below the next ordinal.
Numbered ==
  Active =>
    /\ \A rec \in Files : rec.ordinal < count
    /\ \A a, b \in Files : Less(a.row, b.row) => a.ordinal < b.ordinal

\* Nothing is left to read behind the last page.
AllRead == pc \in {"read", "ready"} => Ahead = {}

\* A record without errors goes to one file, a record with errors to the other.
Sorted ==
  /\ \A rec \in bronze : rec.codes = {}
  /\ \A rec \in quarantine : rec.codes # {}

\* The keys in the Bronze file are among those that validation remembers.
KeysSeen == \A rec \in bronze : rec.pk \in seen

IInv == TypeOK /\ BoundsSet /\ Delivered /\ Numbered /\ AllRead /\ Sorted

-----------------------------------------------------------------------------
(* The order of cursors.                                                   *)

\* The comparison of row values in SQL is a strict total order.
LEMMA LessOrder ==
  ASSUME NEW a \in Positions, NEW b \in Positions, NEW c \in Positions
  PROVE  /\ ~Less(a, a)
         /\ Less(a, b) /\ Less(b, c) => Less(a, c)
         /\ a # b => Less(a, b) \/ Less(b, a)
         /\ Less(a, b) => ~Less(b, a)
<1>1. /\ a[1] \in Nat /\ a[2] \in Nat /\ a = <<a[1], a[2]>>
      /\ b[1] \in Nat /\ b[2] \in Nat /\ b = <<b[1], b[2]>>
      /\ c[1] \in Nat /\ c[2] \in Nat
  BY DEF Positions
<1>2. a # b => a[1] # b[1] \/ a[2] # b[2]
  BY <1>1
<1> QED
  BY <1>1, <1>2 DEF Less

\* Cursors and the empty watermark are positions.
LEMMA CursorsArePositions ==
  Cursors \subseteq Positions /\ NoCursor \in Positions
  BY SizesAssumption DEF Cursors, NoCursor, Positions

\* There are finitely many cursors, so pages are finite.
LEMMA CursorsFinite ==
  ASSUME NEW S \in SUBSET Cursors
  PROVE  IsFiniteSet(S) /\ Cardinality(S) \in Nat
<1>1. IsFiniteSet(1..MaxTime) /\ IsFiniteSet(1..MaxKey)
  BY SizesAssumption, FS_Interval
<1>2. IsFiniteSet(Cursors)
  BY <1>1, FS_Product DEF Cursors
<1> QED
  BY <1>2, FS_Subset, FS_CardinalityType

\* A set of cursors with one element more has the greater cardinality.
LEMMA StrictSubset ==
  ASSUME NEW S \in SUBSET Cursors, NEW T \in SUBSET S, NEW r \in S, r \notin T
  PROVE  Cardinality(T) < Cardinality(S)
<1>1. IsFiniteSet(S) /\ Cardinality(S) \in Nat /\ Cardinality(T) \in Nat
  BY CursorsFinite
<1>2. Cardinality(T) <= Cardinality(S) /\ Cardinality(T) # Cardinality(S)
  BY <1>1, FS_Subset
<1> QED
  BY <1>1, <1>2

\* A nonempty set of natural numbers has a least element.
LEMMA LeastNatural ==
  ASSUME NEW T \in SUBSET Nat, T # {}
  PROVE  \E n \in T : \A m \in T : n <= m
<1> DEFINE R == OpToRel(<, Nat)
<1>1. IsWellFoundedOn(R, Nat)
  BY NatLessThanWellFounded, Zenon
<1>2. \A x, y \in Nat : y < x => <<y, x>> \in R
  BY DEF OpToRel
<1> HIDE DEF R
<1>3. \E x \in T : \A y \in T : ~(<<y, x>> \in R)
  BY <1>1, WFMin
<1>4. PICK x \in T : \A y \in T : ~(<<y, x>> \in R)
  BY <1>3
<1>5. x \in Nat /\ \A y \in T : y \in Nat /\ ~(y < x)
  BY <1>2, <1>4
<1> QED
  BY <1>5

\* A nonempty set of cursors has a last and a first one.
LEMMA LastCursor ==
  ASSUME NEW S \in SUBSET Cursors, S # {}
  PROVE  \E m \in S : \A q \in S : ~Less(m, q)
<1> DEFINE over(q) == {s \in S : Less(q, s)}
           T == {Cardinality(over(q)) : q \in S}
<1>1. T \in SUBSET Nat /\ T # {}
  BY CursorsFinite
<1>2. PICK m \in S : \A q \in S : Cardinality(over(m)) <= Cardinality(over(q))
  <2>1. PICK n \in T : \A k \in T : n <= k
    BY <1>1, LeastNatural
  <2>2. \A q \in S : Cardinality(over(q)) \in T
    OBVIOUS
  <2>3. PICK m \in S : n = Cardinality(over(m))
    BY <2>1
  <2> QED
    BY <2>1, <2>2, <2>3
<1>3. ASSUME NEW q \in S, Less(m, q) PROVE FALSE
  <2>1. over(q) \in SUBSET over(m) /\ q \in over(m) /\ q \notin over(q)
    BY <1>3, LessOrder, CursorsArePositions
  <2>2. Cardinality(over(q)) < Cardinality(over(m))
    BY <2>1, StrictSubset
  <2>3. Cardinality(over(q)) \in Nat /\ Cardinality(over(m)) \in Nat
    BY CursorsFinite
  <2> QED
    BY <1>2, <2>2, <2>3
<1> QED
  BY <1>2, <1>3

\* The same for the first one.
LEMMA FirstCursor ==
  ASSUME NEW S \in SUBSET Cursors, S # {}
  PROVE  \E m \in S : \A q \in S : ~Less(q, m)
<1> DEFINE under(q) == {s \in S : Less(s, q)}
           T == {Cardinality(under(q)) : q \in S}
<1>1. T \in SUBSET Nat /\ T # {}
  BY CursorsFinite
<1>2. PICK m \in S : \A q \in S : Cardinality(under(m)) <= Cardinality(under(q))
  <2>1. PICK n \in T : \A k \in T : n <= k
    BY <1>1, LeastNatural
  <2>2. \A q \in S : Cardinality(under(q)) \in T
    OBVIOUS
  <2>3. PICK m \in S : n = Cardinality(under(m))
    BY <2>1
  <2> QED
    BY <2>1, <2>2, <2>3
<1>3. ASSUME NEW q \in S, Less(q, m) PROVE FALSE
  <2>1. under(q) \in SUBSET under(m) /\ q \in under(m) /\ q \notin under(q)
    BY <1>3, LessOrder, CursorsArePositions
  <2>2. Cardinality(under(q)) < Cardinality(under(m))
    BY <2>1, StrictSubset
  <2>3. Cardinality(under(q)) \in Nat /\ Cardinality(under(m)) \in Nat
    BY CursorsFinite
  <2> QED
    BY <1>2, <2>2, <2>3
<1> QED
  BY <1>2, <1>3

-----------------------------------------------------------------------------
(* The records of a page.                                                  *)

\* Ordinals are numbers.
LEMMA OrdinalType ==
  ASSUME count \in Nat, NEW page \in SUBSET Cursors, NEW r
  PROVE  Ordinal(page, r) \in Nat
<1>1. Cardinality({q \in page : Less(q, r)}) \in Nat
  BY CursorsFinite
<1> QED
  BY <1>1 DEF Ordinal

\* Unless the plan raises, every duplicate has a record before it whose key it
\* takes: the first record of the page is no duplicate.
LEMMA KeySourceExists ==
  ASSUME NEW page \in SUBSET Cursors, ~PlanRaises(page), NEW r \in page
  PROVE  KeySource(page, r) \in page
<1> DEFINE dup(q) == Kind(Ordinal(page, q)) = "DUPLICATE_PRIMARY_KEY"
           Q == {q \in page : ~Less(r, q) /\ ~dup(q)}
           ok(q) == /\ ~Less(r, q)
                    /\ ~dup(q)
                    /\ \A s \in page : Less(q, s) /\ ~Less(r, s) => dup(s)
<1>1. PICK f \in page : \A q \in page : ~Less(q, f)
  BY FirstCursor
<1>2. ~dup(f)
  BY <1>1 DEF PlanRaises
<1> HIDE DEF dup
<1>3. f \in Q
  BY <1>1, <1>2
<1>4. PICK q \in Q : \A s \in Q : ~Less(q, s)
  <2>1. Q \in SUBSET Cursors /\ Q # {}
    BY <1>3
  <2> QED
    BY <2>1, LastCursor
<1>5. q \in page /\ ok(q)
  BY <1>4
<1>6. KeySource(page, r) = CHOOSE p \in page : ok(p)
  BY DEF KeySource, dup
<1> HIDE DEF ok
<1>7. (CHOOSE p \in page : ok(p)) \in page
  BY <1>5
<1> QED
  BY <1>6, <1>7

\* So every record has a primary key.
LEMMA KeyType ==
  ASSUME count \in Nat, NEW page \in SUBSET Cursors, ~PlanRaises(page),
         NEW r \in page
  PROVE  Key(page, r) \in KeyColumn \X KeyColumn
<1> DEFINE q == KeySource(page, r)
<1>1. q \in page /\ q[2] \in Nat
  BY KeySourceExists, SizesAssumption DEF Cursors
<1>2. Ordinal(page, q) \in Nat
  BY OrdinalType
<1>3. Key(page, r) = AppliedKey(q, Ordinal(page, q))
  BY DEF Key
<1> HIDE DEF q
<1>4. Object(Ordinal(page, q)) \in Nat /\ MissingParent \in Nat /\ Null \in Nat
  BY <1>2, SizesAssumption DEF Object, MissingParent, Null
<1> QED
  BY <1>1, <1>3, <1>4 DEF AppliedKey, KeyColumn

\* Validation turns a page into records, one for each of its rows.
LEMMA ValidatedType ==
  ASSUME count \in Nat, NEW page \in SUBSET Cursors, ~PlanRaises(page)
  PROVE  Validated(page) \in SUBSET Record
<1> SUFFICES ASSUME NEW r \in page
             PROVE  [row |-> r, ordinal |-> Ordinal(page, r),
                     pk |-> Key(page, r), codes |-> ErrorCodes(page, r)]
                      \in Record
  BY DEF Validated
<1>1. ErrorCodes(page, r) \in SUBSET RowErrorCodes
  BY DEF ErrorCodes
<1> QED
  BY <1>1, OrdinalType, KeyType DEF Record

\* A page that raises nothing fits the plan.
LEMMA RaisedNothing ==
  ASSUME NEW page, Raised(page) = ""
  PROVE  ~PlanRaises(page)
  BY DEF Raised

-----------------------------------------------------------------------------
(* Type correctness.                                                       *)

\* The initial states have the right types.
LEMMA InitTypeOK == Init => TypeOK
<1>1. 0 \in Nat
  OBVIOUS
<1> QED
  BY <1>1, Zenon DEF Init, TypeOK

\* Every step keeps every variable in its type.
LEMMA NextTypeOK == TypeOK /\ [Next]_vars => TypeOK'
<1> SUFFICES ASSUME TypeOK, [Next]_vars PROVE TypeOK'
  OBVIOUS
<1> USE DEF TypeOK, inputs
<1>1. CASE OpenSnapshot
  BY <1>1 DEF OpenSnapshot
<1>2. CASE ReadPage
  <2>1. PICK page \in SUBSET Ahead :
          /\ IsPage(page)
          /\ Raised(page) = ""
          /\ bronze' = bronze \cup Valid(page)
          /\ quarantine' = quarantine \cup Rejected(page)
          /\ seen' = seen \cup {pk \in {Key(page, r) : r \in page} :
                                  pk[1] # Null}
          /\ count' = count + Cardinality(page)
          /\ \E last \in page : IsLast(last, page) /\ lower' = NextLower(last)
          /\ pc' = IF Cardinality(page) < PageSize THEN "read" ELSE "paging"
    BY <1>2 DEF ReadPage
  <2>2. UNCHANGED <<inputs, upper, why>>
    BY <1>2 DEF ReadPage
  <2>3. page \in SUBSET rows /\ page \in SUBSET Cursors
    BY DEF Ahead, Within
  <2>4. ~PlanRaises(page)
    BY <2>1, RaisedNothing
  <2>5. Validated(page) \in SUBSET Record
    BY <2>3, <2>4, ValidatedType
  <2>6. bronze' \in SUBSET Record /\ quarantine' \in SUBSET Record
    BY <2>1, <2>5 DEF Valid, Rejected
  <2>7. seen' \in SUBSET (KeyColumn \X KeyColumn)
    BY <2>1, <2>3, <2>4, KeyType
  <2>8. count' \in Nat
    <3>1. Cardinality(page) \in Nat
      BY <2>3, CursorsFinite
    <3>2. count' = count + Cardinality(page)
      BY <2>1, Zenon
    <3>3. count \in Nat
      BY Zenon
    <3> HIDE DEF TypeOK
    <3> QED
      BY <3>1, <3>2, <3>3
  <2>9. lower' \in rows
    BY <2>1, <2>3 DEF NextLower
  <2>10. pc' \in {"read", "paging"}
    BY <2>1
  <2> QED
    BY <2>2, <2>6, <2>7, <2>8, <2>9, <2>10
<1>3. CASE NoMorePages
  BY <1>3 DEF NoMorePages
<1>4. CASE PageRaises
  BY <1>4 DEF PageRaises, Raise, Raised
<1>5. CASE Accept
  BY <1>5 DEF Accept
<1>6. CASE TooManyRejects
  BY <1>6 DEF TooManyRejects, Raise
<1>7. CASE UNCHANGED vars
  BY <1>7 DEF vars
<1> QED
  BY <1>1, <1>2, <1>3, <1>4, <1>5, <1>6, <1>7 DEF Next

\* Every variable keeps its type: in particular every record of the files has
\* a primary key, also the duplicates a plan makes.
THEOREM TypeCorrect == Spec => []TypeOK
  BY InitTypeOK, NextTypeOK, PTL DEF Spec

-----------------------------------------------------------------------------
(* Primary keys of the Bronze file.                                        *)

\* The record that validation makes of a row of the page.
RecordOf(page, r) ==
  [row |-> r, ordinal |-> Ordinal(page, r), pk |-> Key(page, r),
   codes |-> ErrorCodes(page, r)]

\* A record that passes has a key, and nobody had this key before.
LEMMA ValidKey ==
  ASSUME NEW page, NEW rec \in Valid(page)
  PROVE  \E r \in page : /\ rec = RecordOf(page, r)
                         /\ Key(page, r)[1] # Null
                         /\ ~SeenBefore(page, r)
<1>1. PICK r \in page : rec = RecordOf(page, r)
  BY DEF Valid, Validated, RecordOf
<1>2. ErrorCodes(page, r) = {}
  BY <1>1 DEF Valid, RecordOf
<1>3. Key(page, r)[1] # Null
  <2>1. "KEY_NULL" \in RowErrorCodes
    BY DEF RowErrorCodes
  <2> QED
    BY <1>2, <2>1 DEF ErrorCodes
<1>4. ~SeenBefore(page, r)
  <2>1. "BATCH_DUPLICATE" \in RowErrorCodes
    BY DEF RowErrorCodes
  <2> QED
    BY <1>2, <1>3, <2>1 DEF ErrorCodes
<1> QED
  BY <1>1, <1>3, <1>4

\* Two records of a page that pass have different keys: the later of them
\* would have found the key of the earlier one.
LEMMA ValidKeysDiffer ==
  ASSUME NEW page \in SUBSET Cursors, NEW a \in Valid(page),
         NEW b \in Valid(page), a.pk = b.pk
  PROVE  a = b
<1>1. PICK r \in page : a = RecordOf(page, r) /\ ~SeenBefore(page, r)
  BY ValidKey
<1>2. PICK q \in page : b = RecordOf(page, q) /\ ~SeenBefore(page, q)
  BY ValidKey
<1>3. Key(page, r) = Key(page, q)
  BY <1>1, <1>2 DEF RecordOf
<1>4. ~Less(q, r) /\ ~Less(r, q)
  BY <1>1, <1>2, <1>3 DEF SeenBefore
<1>5. r = q
  BY <1>4, LessOrder, CursorsArePositions
<1> QED
  BY <1>1, <1>2, <1>5

\* A record that passes has a key that was not remembered before its page and
\* is remembered after it.
LEMMA ValidKeyRemembered ==
  ASSUME NEW page, NEW rec \in Valid(page)
  PROVE  /\ rec.pk \notin seen
         /\ rec.pk \in {pk \in {Key(page, r) : r \in page} : pk[1] # Null}
<1>1. PICK r \in page : /\ rec = RecordOf(page, r)
                        /\ Key(page, r)[1] # Null
                        /\ ~SeenBefore(page, r)
  BY ValidKey
<1>2. rec.pk = Key(page, r)
  BY <1>1 DEF RecordOf
<1> QED
  BY <1>1, <1>2 DEF SeenBefore

\* Every step keeps the keys of the Bronze file distinct and remembered.
LEMMA NextKeys ==
  ASSUME TypeOK, KeysSeen, BronzeKeysUnique, [Next]_vars
  PROVE  KeysSeen' /\ BronzeKeysUnique'
<1>1. CASE ReadPage
  <2>1. PICK page \in SUBSET Ahead :
          /\ bronze' = bronze \cup Valid(page)
          /\ seen' = seen \cup {pk \in {Key(page, r) : r \in page} :
                                  pk[1] # Null}
    BY <1>1 DEF ReadPage
  <2>2. page \in SUBSET Cursors
    BY DEF TypeOK, Ahead, Within
  <2>3. KeysSeen'
    BY <2>1, ValidKeyRemembered DEF KeysSeen
  <2>4. BronzeKeysUnique'
    <3> SUFFICES ASSUME NEW a \in bronze', NEW b \in bronze', a.pk = b.pk
                 PROVE  a = b
      BY DEF BronzeKeysUnique
    <3>1. CASE a \in bronze /\ b \in bronze
      BY <3>1 DEF BronzeKeysUnique
    <3>2. CASE a \in Valid(page) /\ b \in Valid(page)
      BY <2>2, <3>2, ValidKeysDiffer
    <3>3. ~(a \in bronze /\ b \in Valid(page))
      BY ValidKeyRemembered DEF KeysSeen
    <3>4. ~(b \in bronze /\ a \in Valid(page))
      BY ValidKeyRemembered DEF KeysSeen
    <3> QED
      BY <2>1, <3>1, <3>2, <3>3, <3>4
  <2> QED
    BY <2>3, <2>4
<1>2. CASE PageRaises \/ TooManyRejects
  BY <1>2 DEF PageRaises, TooManyRejects, Raise, KeysSeen, BronzeKeysUnique
<1>3. CASE OpenSnapshot \/ NoMorePages \/ Accept \/ UNCHANGED vars
  BY <1>3
  DEF OpenSnapshot, NoMorePages, Accept, vars, KeysSeen, BronzeKeysUnique
<1> QED
  BY <1>1, <1>2, <1>3 DEF Next

\* No two records of the Bronze file have one primary key, whatever pages they
\* came in and whatever the plan made of their keys.
THEOREM KeysUniqueCorrect == Spec => []BronzeKeysUnique
<1> DEFINE Inv == TypeOK /\ KeysSeen /\ BronzeKeysUnique
<1>1. Init => Inv
  <2>1. Init => KeysSeen /\ BronzeKeysUnique
    BY Zenon DEF Init, KeysSeen, BronzeKeysUnique
  <2> QED
    BY <2>1, InitTypeOK
<1>2. Inv /\ [Next]_vars => Inv'
  BY NextTypeOK, NextKeys
<1>3. Inv => BronzeKeysUnique
  OBVIOUS
<1> HIDE DEF Inv
<1> QED
  BY <1>1, <1>2, <1>3, PTL DEF Spec

-----------------------------------------------------------------------------
(* The range is delivered.                                                 *)

\* The two files together grow by the records of the page.
LEMMA PageToFiles ==
  ASSUME TypeOK, ReadPage
  PROVE  \E page \in SUBSET Ahead :
           /\ IsPage(page)
           /\ Files' = Files \cup Validated(page)
           /\ bronze' = bronze \cup Valid(page)
           /\ quarantine' = quarantine \cup Rejected(page)
           /\ count' = count + Cardinality(page)
           /\ IsLast(lower', page)
           /\ pc' = IF Cardinality(page) < PageSize THEN "read" ELSE "paging"
<1>1. PICK page \in SUBSET Ahead :
        /\ IsPage(page)
        /\ bronze' = bronze \cup Valid(page)
        /\ quarantine' = quarantine \cup Rejected(page)
        /\ count' = count + Cardinality(page)
        /\ \E last \in page : IsLast(last, page) /\ lower' = NextLower(last)
        /\ pc' = IF Cardinality(page) < PageSize THEN "read" ELSE "paging"
  BY Zenon DEF ReadPage
<1>2. Files' = Files \cup Validated(page)
  BY <1>1 DEF Files, Valid, Rejected
<1>3. IsLast(lower', page)
  BY <1>1 DEF NextLower
<1> QED
  BY <1>1, <1>2, <1>3, Zenon

\* A page holds all rows between two lower bounds, and a short page is the last
\* one.
LEMMA PageIsRange ==
  ASSUME TypeOK, BoundsSet, pc = "paging",
         NEW page \in SUBSET Ahead, IsPage(page), NEW last, IsLast(last, page)
  PROVE  /\ last \in rows /\ Less(before, last) /\ Less(lower, last)
         /\ \A r \in rows : r \in page <=> Less(lower, r) /\ ~Less(last, r)
         /\ \A r \in page : r \in rows /\ Less(before, r)
         /\ Cardinality(page) < PageSize => \A r \in rows : ~Less(last, r)
<1>1. /\ rows \in SUBSET Positions
      /\ before \in Positions /\ lower \in Positions /\ upper \in Positions
  BY CursorsArePositions DEF TypeOK
<1>2. /\ last \in page /\ \A q \in page : ~Less(last, q)
      /\ page \subseteq rows
      /\ \A r \in page : Less(lower, r)
  BY DEF IsLast, Ahead, Within
<1>3. \A r \in rows : Less(lower, r) => r \in Ahead
  BY DEF BoundsSet, Active, Ahead, Within
<1>4. \A r \in page : Less(before, r)
  <2>1. lower = before \/ Less(before, lower)
    BY DEF BoundsSet, Active
  <2> QED
    BY <1>1, <1>2, <2>1, LessOrder
<1>5. ASSUME NEW r \in rows, Less(lower, r), ~Less(last, r) PROVE r \in page
  BY <1>2, <1>3, <1>5 DEF IsPage
<1>6. ASSUME Cardinality(page) < PageSize, NEW r \in rows PROVE ~Less(last, r)
  <2>1. page = Ahead
    <3>1. PageSize \in Nat /\ Cardinality(page) # PageSize
      BY <1>6, SizesAssumption
    <3> QED
      BY <3>1 DEF IsPage
  <2>2. CASE Less(lower, r)
    BY <1>2, <1>3, <2>1, <2>2
  <2>3. CASE ~Less(lower, r)
    <3>1. Less(lower, last) /\ last \in rows
      BY <1>2
    <3>2. ASSUME Less(last, r) PROVE FALSE
      BY <1>1, <2>3, <3>1, <3>2, LessOrder
    <3> QED
      BY <3>2
  <2> QED
    BY <2>2, <2>3
<1> QED
  BY <1>2, <1>4, <1>5, <1>6

\* The records of a page have its rows, each once.
LEMMA ValidatedRows ==
  ASSUME NEW page
  PROVE  /\ \A rec \in Validated(page) :
              rec.row \in page /\ rec = RecordOf(page, rec.row)
         /\ \A r \in page : RecordOf(page, r) \in Validated(page)
                            /\ RecordOf(page, r).row = r
                            /\ RecordOf(page, r).ordinal = Ordinal(page, r)
  BY DEF Validated, RecordOf

\* The ordinals of a page follow the order of its rows, from the count of the
\* rows before it up.
LEMMA OrdinalsOfPage ==
  ASSUME count \in Nat, NEW page \in SUBSET Cursors, NEW r \in page
  PROVE  /\ Ordinal(page, r) \in Nat /\ Cardinality(page) \in Nat
         /\ count <= Ordinal(page, r)
         /\ Ordinal(page, r) < count + Cardinality(page)
         /\ \A q \in page : Less(q, r) => Ordinal(page, q) < Ordinal(page, r)
<1> DEFINE below(s) == {q \in page : Less(q, s)}
<1>1. Cardinality(page) \in Nat /\ \A s : Cardinality(below(s)) \in Nat
  BY CursorsFinite
<1>2. Cardinality(below(r)) < Cardinality(page)
  <2>1. r \notin below(r)
    BY LessOrder, CursorsArePositions
  <2> QED
    BY <2>1, StrictSubset
<1>3. ASSUME NEW q \in page, Less(q, r)
      PROVE  Cardinality(below(q)) < Cardinality(below(r))
  <2>1. below(q) \in SUBSET below(r) /\ q \in below(r) /\ q \notin below(q)
    BY <1>3, LessOrder, CursorsArePositions
  <2> QED
    BY <2>1, StrictSubset
<1>4. \A s : Ordinal(page, s) = count + Cardinality(below(s))
  BY DEF Ordinal
<1> HIDE DEF below
<1> QED
  BY <1>1, <1>2, <1>3, <1>4

\* A page that was read extends the delivered rows to its last row.
LEMMA ReadPageInv ==
  ASSUME IInv, ReadPage
  PROVE  BoundsSet' /\ Delivered' /\ Numbered' /\ AllRead' /\ Sorted'
<1>t. TypeOK /\ BoundsSet /\ Delivered /\ Numbered /\ AllRead /\ Sorted
  BY DEF IInv
<1>1. PICK page \in SUBSET Ahead :
        /\ IsPage(page)
        /\ Files' = Files \cup Validated(page)
        /\ bronze' = bronze \cup Valid(page)
        /\ quarantine' = quarantine \cup Rejected(page)
        /\ count' = count + Cardinality(page)
        /\ IsLast(lower', page)
        /\ pc' = IF Cardinality(page) < PageSize THEN "read" ELSE "paging"
  BY <1>t, PageToFiles
<1>2. pc = "paging" /\ UNCHANGED <<rows, before, upper>>
  BY DEF ReadPage, inputs
<1>3. /\ lower' \in rows /\ Less(before, lower') /\ Less(lower, lower')
      /\ \A r \in rows : r \in page <=> Less(lower, r) /\ ~Less(lower', r)
      /\ \A r \in page : r \in rows /\ Less(before, r)
      /\ Cardinality(page) < PageSize => \A r \in rows : ~Less(lower', r)
  BY <1>t, <1>1, <1>2, PageIsRange
<1>4. /\ rows \in SUBSET Positions /\ rows \in SUBSET Cursors
      /\ before \in Positions /\ lower \in Positions /\ count \in Nat
  BY <1>t, CursorsArePositions DEF TypeOK
<1>5. Active /\ Active' /\ page \in SUBSET Cursors
  BY <1>1, <1>2, <1>3, <1>4 DEF Active
<1>6. /\ \A rec \in Validated(page) :
           rec.row \in page /\ rec = RecordOf(page, rec.row)
      /\ \A r \in page : RecordOf(page, r) \in Validated(page)
                         /\ RecordOf(page, r).row = r
                         /\ RecordOf(page, r).ordinal = Ordinal(page, r)
  BY ValidatedRows
<1>7. /\ \A r \in rows : Less(before, r) /\ ~Less(lower, r)
                           <=> \E rec \in Files : rec.row = r
      /\ \A rec \in Files : rec.row \in rows
      /\ \A a, b \in Files : a.row = b.row => a = b
  BY <1>t, <1>5 DEF Delivered
<1>8. \A rec \in Files : rec.row \in rows /\ ~Less(lower, rec.row)
  BY <1>7
<1>9. BoundsSet'
  BY <1>t, <1>2, <1>3, <1>5 DEF BoundsSet
<1>10. Delivered'
  <2>1. ASSUME NEW r \in rows
        PROVE  Less(before, r) /\ ~Less(lower', r)
                 <=> \E rec \in Files' : rec.row = r
    <3>1. ~Less(lower, r) => ~Less(lower', r)
      BY <1>3, <1>4, LessOrder
    <3>2. (\E rec \in Files' : rec.row = r)
             <=> (\E rec \in Files : rec.row = r) \/ r \in page
      BY <1>1, <1>6
    <3> QED
      BY <1>3, <1>7, <3>1, <3>2
  <2>2. \A rec \in Files' : rec.row \in rows
    BY <1>1, <1>3, <1>6, <1>7
  <2>3. ASSUME NEW a \in Files', NEW b \in Files', a.row = b.row
        PROVE  a = b
    <3>1. CASE a \in Files /\ b \in Files
      BY <1>7, <2>3, <3>1
    <3>2. CASE a \in Validated(page) /\ b \in Validated(page)
      BY <1>6, <2>3, <3>2
    <3>3. ~(a \in Files /\ b \in Validated(page))
      BY <1>3, <1>6, <1>8, <2>3
    <3>4. ~(b \in Files /\ a \in Validated(page))
      BY <1>3, <1>6, <1>8, <2>3
    <3> QED
      BY <1>1, <3>1, <3>2, <3>3, <3>4
  <2> QED
    BY <1>2, <2>1, <2>2, <2>3 DEF Delivered
<1>11. Numbered'
  <2>1. \A rec \in Files : rec.ordinal \in Nat
    BY <1>t DEF TypeOK, Files, Record
  <2>2. /\ \A rec \in Files : rec.ordinal < count
        /\ \A a, b \in Files : Less(a.row, b.row) => a.ordinal < b.ordinal
    BY <1>t, <1>5 DEF Numbered
  <2>3. \A rec \in Validated(page) :
          /\ rec.ordinal \in Nat /\ Cardinality(page) \in Nat
          /\ count <= rec.ordinal
          /\ rec.ordinal < count + Cardinality(page)
    BY <1>4, <1>5, <1>6, OrdinalsOfPage
  <2>4. Cardinality(page) \in Nat
    BY <1>5, CursorsFinite
  <2>5. \A rec \in Files' : rec.ordinal < count'
    BY <1>1, <1>4, <2>1, <2>2, <2>3, <2>4
  <2>6. ASSUME NEW a \in Files', NEW b \in Files', Less(a.row, b.row)
        PROVE  a.ordinal < b.ordinal
    <3>1. CASE a \in Files /\ b \in Files
      BY <2>2, <2>6, <3>1
    <3>2. CASE a \in Validated(page) /\ b \in Validated(page)
      BY <1>4, <1>5, <1>6, <2>6, <3>2, OrdinalsOfPage
    <3>3. CASE a \in Files /\ b \in Validated(page)
      BY <1>4, <2>1, <2>2, <2>3, <3>3
    <3>4. ~(a \in Validated(page) /\ b \in Files)
      <4>1. ASSUME a \in Validated(page), b \in Files PROVE FALSE
        <5>1. a.row \in Positions /\ b.row \in Positions
          BY <1>3, <1>4, <1>6, <1>8, <4>1
        <5>2. Less(lower, a.row) /\ ~Less(lower, b.row)
          BY <1>3, <1>6, <1>8, <4>1
        <5> QED
          BY <1>4, <2>6, <5>1, <5>2, LessOrder
      <4> QED
        BY <4>1
    <3> QED
      BY <1>1, <3>1, <3>2, <3>3, <3>4
  <2> QED
    BY <2>5, <2>6 DEF Numbered
<1>12. AllRead'
  <2>1. pc' # "ready" /\ (pc' = "read" => Cardinality(page) < PageSize)
    BY <1>1
  <2> QED
    BY <1>2, <1>3, <2>1 DEF AllRead, Ahead, Within
<1>13. Sorted'
  BY <1>t, <1>1 DEF Sorted, Valid, Rejected
<1> QED
  BY <1>9, <1>10, <1>11, <1>12, <1>13

\* Opening the snapshot fixes the range, of which nothing has been delivered.
LEMMA OpenSnapshotInv ==
  ASSUME IInv, bronze = {}, quarantine = {}, lower = before, OpenSnapshot
  PROVE  BoundsSet' /\ Delivered' /\ Numbered' /\ AllRead' /\ Sorted'
<1>1. /\ UNCHANGED <<rows, before, lower, count, bronze, quarantine>>
      /\ pc' \in {"nodata", "paging"}
      /\ pc' = "paging" => /\ upper' \in rows /\ Less(before, upper')
                           /\ \A r \in rows : ~Less(upper', r)
  BY DEF OpenSnapshot, inputs
<1>2. Files' = {}
  BY <1>1 DEF Files
<1> QED
  BY <1>1, <1>2
  DEF BoundsSet, Delivered, Numbered, AllRead, Sorted, Active

\* Before the snapshot is opened nothing was written and nothing passed.
Untouched ==
  pc = "idle" => bronze = {} /\ quarantine = {} /\ lower = before

\* The invariant is inductive.
LEMMA NextInv ==
  ASSUME IInv, Untouched, [Next]_vars
  PROVE  IInv' /\ Untouched'
<1>1. TypeOK'
  BY NextTypeOK DEF IInv
<1>2. CASE OpenSnapshot
  BY <1>1, <1>2, OpenSnapshotInv DEF IInv, Untouched, OpenSnapshot
<1>3. CASE ReadPage
  <2>1. pc' # "idle"
    BY <1>3, PageToFiles DEF IInv
  <2> QED
    BY <1>1, <1>3, <2>1, ReadPageInv DEF IInv, Untouched
<1>4. CASE NoMorePages \/ Accept
  <2>1. /\ UNCHANGED <<rows, before, upper, lower, count, bronze, quarantine>>
        /\ pc' \in {"read", "ready"} /\ Active
    BY <1>4 DEF NoMorePages, Accept, inputs, Active
  <2>2. Ahead' = {}
    BY <1>4 DEF NoMorePages, Accept, inputs, IInv, AllRead, Ahead, Within
  <2>3. Active' /\ Files' = Files
    BY <2>1 DEF Active, Files
  <2>4. BoundsSet' /\ Delivered' /\ Numbered' /\ Sorted'
    BY <2>1, <2>3 DEF IInv, BoundsSet, Delivered, Numbered, Sorted
  <2> QED
    BY <1>1, <2>1, <2>2, <2>4 DEF IInv, AllRead, Untouched
<1>5. CASE PageRaises \/ TooManyRejects
  BY <1>1, <1>5
  DEF PageRaises, TooManyRejects, Raise, IInv, BoundsSet, Delivered, Numbered,
      AllRead, Sorted, Active, Untouched
<1>6. CASE UNCHANGED vars
  BY <1>1, <1>6
  DEF vars, inputs, IInv, BoundsSet, Delivered, Numbered, AllRead, Sorted,
      Active, Untouched, Files, Ahead, Within
<1> QED
  BY <1>2, <1>3, <1>4, <1>5, <1>6 DEF Next

\* Once everything is read, the delivered rows are the range.
LEMMA ReadIsDelivered ==
  ASSUME IInv, pc = "ready"
  PROVE  RangeDelivered
<1>t. /\ TypeOK /\ Active
      /\ rows \in SUBSET Positions /\ lower \in Positions
  BY CursorsArePositions DEF IInv, TypeOK, Active
<1>1. \A r \in rows : ~Less(lower, r)
  BY <1>t DEF IInv, AllRead, Ahead, Within, BoundsSet
<1>2. \A r \in rows : Less(before, r) <=> \E rec \in Files : rec.row = r
  BY <1>t, <1>1 DEF IInv, Delivered
<1>3. ASSUME NEW a \in Files, NEW b \in Files
      PROVE  /\ a.row = b.row => a = b
             /\ Less(a.row, b.row) <=> a.ordinal < b.ordinal
  <2>1. a.row \in Positions /\ b.row \in Positions
    BY <1>t DEF IInv, Delivered
  <2>2. a.ordinal \in Nat /\ b.ordinal \in Nat
    BY <1>t DEF TypeOK, Files, Record
  <2>3. /\ a.row = b.row => a = b
        /\ Less(a.row, b.row) => a.ordinal < b.ordinal
        /\ Less(b.row, a.row) => b.ordinal < a.ordinal
    BY <1>t DEF IInv, Delivered, Numbered
  <2>4. a.row # b.row => Less(a.row, b.row) \/ Less(b.row, a.row)
    BY <2>1, LessOrder
  <2> QED
    BY <2>2, <2>3, <2>4
<1>4. bronze \cap quarantine = {}
  BY DEF IInv, Sorted
<1> QED
  BY <1>2, <1>3, <1>4 DEF RangeDelivered, Files

\* What a run is about to upload is its range: every row above the watermark
\* and up to the upper bound is in exactly one of the two files, once, and the
\* ordinals follow the cursors, wherever the pages end.
THEOREM RangeCorrect == Spec => []RangeDelivered
<1> DEFINE Inv == IInv /\ Untouched
<1>1. Init => Inv
  <2>1. Init => TypeOK
    BY InitTypeOK
  <2>2. Init => /\ Untouched /\ BoundsSet /\ Delivered /\ Numbered /\ AllRead
                /\ Sorted
    BY Zenon
    DEF Init, Untouched, BoundsSet, Delivered, Numbered, AllRead, Sorted,
        Active
  <2> QED
    BY <2>1, <2>2 DEF IInv
<1>2. Inv /\ [Next]_vars => Inv'
  BY NextInv
<1>3. Inv => RangeDelivered
  BY ReadIsDelivered DEF RangeDelivered
<1> HIDE DEF Inv
<1> QED
  BY <1>1, <1>2, <1>3, PTL DEF Spec

=============================================================================
