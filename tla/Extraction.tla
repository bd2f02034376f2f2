----------------------------- MODULE Extraction -----------------------------
(***************************************************************************)
(* One table run between its watermark and its upload: the fixed range of  *)
(* a snapshot is read in keyset pages (src/ingestion/extraction/extract.py)*)
(* and every row goes to the local Bronze file or to the local quarantine  *)
(* file (validation.py, references.py, quarantine.py, and the loop of      *)
(* _write_local_artifacts in service.py).                                  *)
(*                                                                         *)
(* The snapshot does not change while it is read.  A row is its cursor,    *)
(* the pair of its timestamp and its key; timestamps are often equal, since*)
(* a Generator run stamps all its rows alike.  TableIngestion takes what   *)
(* is shown here as one step.                                              *)
(***************************************************************************)
EXTENDS Naturals, FiniteSets

CONSTANTS
  MaxTime,        \* timestamps are 1..MaxTime
  MaxKey,         \* keys are 1..MaxKey
  PageSize,       \* INGESTION_PAGE_SIZE
  RejectPercent,  \* MAX_REJECT_RATE
  ChildTable,     \* is it order_items or order_payments
  UuidColumns,    \* is it customer_subscriptions or subscription_payments
  Plans           \* the rules of corruption plans: ordinals to kinds

ASSUME SizesAssumption ==
  /\ MaxTime \in Nat /\ MaxKey \in Nat
  /\ PageSize \in Nat \ {0}
  /\ RejectPercent \in 0..100
ASSUME TableAssumption == ChildTable \in BOOLEAN /\ UuidColumns \in BOOLEAN

VARIABLES
  rows,        \* cursors of the rows of the snapshot
  bad,         \* those with a value outside its status domain or minimum
  plan,        \* corruption_plan of the request
  before,      \* watermark_before
  pc,          \* where the run is
  upper,       \* extract_upper_bound
  lower,       \* lower_bound of the next page
  count,       \* rows_extracted, which is also _next_ordinal
  seen,        \* _seen_primary_keys
  bronze,      \* records of the local Bronze file
  quarantine,  \* records of the local quarantine file
  why          \* what made the run fail

inputs == <<rows, bad, plan, before>>
vars == <<inputs, pc, upper, lower, count, seen, bronze, quarantine, why>>

-----------------------------------------------------------------------------
Cursors  == (1..MaxTime) \X (1..MaxKey)
NoCursor == <<0, 0>>            \* CursorPosition(None)

\* INVALID_VALUE is INVALID_STATUS or NEGATIVE_NUMERIC, on a table that has a
\* column for it.  That column may be part of the key; its row is rejected
\* with the key it had as well as with the one it gets.
Kinds ==
  {"NULL_PRIMARY_KEY", "INVALID_VALUE", "TYPE_MISMATCH", "BROKEN_REFERENCE",
   "DUPLICATE_PRIMARY_KEY"}
RowErrorCodes ==
  {"REQUIRED_NULL", "TYPE_MISMATCH", "KEY_NULL", "BATCH_DUPLICATE",
   "VALUE_INVALID", "BROKEN_REFERENCE"}

ASSUME PlansAssumption ==
  \A p \in Plans : \A o \in DOMAIN p : o \in Nat /\ p[o] \in Kinds

\* SQL row comparison, and the same comparison of tuples in Python.
Less(a, b) == a[1] < b[1] \/ (a[1] = b[1] /\ a[2] < b[2])

Within(low, high) == {r \in rows : Less(low, r) /\ ~Less(high, r)}

\* Primary keys are pairs of the first and the last key column.  These stand
\* for a column that is NULL, that names a parent which does not exist, and
\* that holds the object() of a TYPE_MISMATCH.
Null          == 0
MissingParent == MaxKey + 1
Object(o)     == MaxKey + 2 + o

KeyColumn == Nat
Record == [row : Cursors, ordinal : Nat, pk : KeyColumn \X KeyColumn,
           codes : SUBSET RowErrorCodes]

TypeOK ==
  /\ rows \in SUBSET Cursors
  /\ bad \in SUBSET rows
  /\ plan \in Plans
  /\ before \in Cursors \cup {NoCursor}
  /\ pc \in {"idle", "paging", "read", "ready", "nodata", "failed"}
  /\ upper \in rows \cup {NoCursor}
  /\ lower \in rows \cup {before}
  /\ count \in Nat
  /\ seen \in SUBSET (KeyColumn \X KeyColumn)
  /\ bronze \in SUBSET Record
  /\ quarantine \in SUBSET Record
  /\ why \in {"", "plan", "reference", "range", "payload", "rate"}

\* A key has one row; the watermark is any earlier cursor, and its row may
\* have moved on since.
Init ==
  /\ rows \in SUBSET Cursors
  /\ \A r, q \in rows : r[2] = q[2] => r = q
  /\ bad \in SUBSET rows
  /\ plan \in Plans
  /\ before \in Cursors \cup {NoCursor}
  /\ pc = "idle"
  /\ upper = NoCursor
  /\ lower = before
  /\ count = 0
  /\ seen = {}
  /\ bronze = {}
  /\ quarantine = {}
  /\ why = ""

-----------------------------------------------------------------------------
(* open_table_snapshot and pages                                           *)

\* _fetch_upper_bound: the last cursor above the watermark, if there is one.
OpenSnapshot ==
  /\ pc = "idle"
  /\ \/ /\ \A r \in rows : ~Less(before, r)
        /\ pc' = "nodata"
        /\ UNCHANGED upper
     \/ \E last \in rows :
          /\ Less(before, last)
          /\ \A r \in rows : ~Less(last, r)
          /\ upper' = last
          /\ pc' = "paging"
  /\ UNCHANGED <<inputs, lower, count, seen, bronze, quarantine, why>>

MutantAheadByTime == {r \in rows : lower[1] < r[1] /\ ~Less(upper, r)}

\* The WHERE clause of _fetch_page.
Ahead == Within(lower, upper)

\* ... its ORDER BY and LIMIT.
IsPage(page) ==
  /\ page \in SUBSET Ahead
  /\ \A r \in page, q \in Ahead \ page : Less(r, q)
  /\ IF Cardinality(Ahead) < PageSize THEN page = Ahead
     ELSE Cardinality(page) = PageSize

\* last_cursor: the lower bound of the next page.
IsLast(r, page) == r \in page /\ \A q \in page : ~Less(r, q)

-----------------------------------------------------------------------------
(* The body of the loop: inject_corruption, find_broken_parent_references, *)
(* validate_page and the two writers.                                      *)

Ordinal(page, r) == count + Cardinality({q \in page : Less(q, r)})

Kind(o) == IF o \in DOMAIN plan THEN plan[o] ELSE "NONE"

\* CorruptionPlan.apply on the key columns.
AppliedKey(r, o) ==
  CASE Kind(o) = "NULL_PRIMARY_KEY" -> <<Null, r[2]>>
    [] Kind(o) = "TYPE_MISMATCH"    -> <<r[2], Object(o)>>
    [] Kind(o) = "BROKEN_REFERENCE" -> <<MissingParent, r[2]>>
    [] OTHER                        -> <<r[2], r[2]>>

\* apply_page: a DUPLICATE_PRIMARY_KEY takes the key of the record before it,
\* which may be a duplicate itself: the last one before it that is not.
KeySource(page, r) ==
  CHOOSE q \in page :
    /\ ~Less(r, q)
    /\ Kind(Ordinal(page, q)) # "DUPLICATE_PRIMARY_KEY"
    /\ \A s \in page :
         Less(q, s) /\ ~Less(r, s)
           => Kind(Ordinal(page, s)) = "DUPLICATE_PRIMARY_KEY"

Key(page, r) ==
  LET q == KeySource(page, r) IN AppliedKey(q, Ordinal(page, q))

\* A duplicate with nothing before it in its page, and a broken reference
\* without a child table.
PlanRaises(page) ==
  \E r \in page :
    \/ /\ Kind(Ordinal(page, r)) = "DUPLICATE_PRIMARY_KEY"
       /\ \A q \in page : ~Less(q, r)
    \/ Kind(Ordinal(page, r)) = "BROKEN_REFERENCE" /\ ~ChildTable

\* A reference that is neither a string nor a number.
ReferenceRaises(page) ==
  ChildTable /\ \E r \in page : Key(page, r)[1] = Null

\* CURSOR_OUT_OF_RANGE is an error of the batch.
RangeRaises(page) == ~(page \subseteq Within(before, upper))

MutantSeenByPage(page, r) == Key(page, r) \in seen

\* _seen_primary_keys, when it is the turn of this record.
SeenBefore(page, r) ==
  \/ Key(page, r) \in seen
  \/ \E q \in page : Less(q, r) /\ Key(page, q) = Key(page, r)

\* _validate_record
ErrorCodes(page, r) ==
  LET pk == Key(page, r) IN
    {code \in RowErrorCodes :
      CASE code = "REQUIRED_NULL" -> pk[1] = Null
        [] code = "KEY_NULL" -> pk[1] = Null
        [] code = "TYPE_MISMATCH" -> pk[2] > MissingParent
        [] code = "BATCH_DUPLICATE" -> pk[1] # Null /\ SeenBefore(page, r)
        [] code = "VALUE_INVALID" ->
             r \in bad \/ Kind(Ordinal(page, r)) = "INVALID_VALUE"
        [] code = "BROKEN_REFERENCE" -> pk[1] = MissingParent}

Validated(page) ==
  {[row |-> r, ordinal |-> Ordinal(page, r), pk |-> Key(page, r),
    codes |-> ErrorCodes(page, r)] : r \in page}

Valid(page)    == {rec \in Validated(page) : rec.codes = {}}
Rejected(page) == Validated(page) \ Valid(page)

\* _raw_payload: JSON of timestamps, decimals and what json knows, which is
\* neither a UUID nor an object().
PayloadRaises(page) ==
  \E rec \in Rejected(page) : UuidColumns \/ rec.pk[2] > MissingParent

\* The first exception of the page's turn in the loop, if there is one.
Raised(page) ==
  IF PlanRaises(page) THEN "plan"
  ELSE IF ReferenceRaises(page) THEN "reference"
  ELSE IF RangeRaises(page) THEN "range"
  ELSE IF PayloadRaises(page) THEN "payload"
  ELSE ""

MutantNextKey(r) == <<r[1], r[2] + 1>>

NextLower(r) == r

ReadPage ==
  /\ pc = "paging"
  /\ Ahead # {}
  /\ \E page \in SUBSET Ahead :
       /\ IsPage(page)
       /\ Raised(page) = ""
       /\ bronze' = bronze \cup Valid(page)
       /\ quarantine' = quarantine \cup Rejected(page)
       /\ seen' = seen \cup {pk \in {Key(page, r) : r \in page} : pk[1] # Null}
       /\ count' = count + Cardinality(page)
       /\ \E last \in page : IsLast(last, page) /\ lower' = NextLower(last)
       /\ pc' = IF Cardinality(page) < PageSize THEN "read" ELSE "paging"
  /\ UNCHANGED <<inputs, upper, why>>

\* An empty page after a full one ends the range as well.
NoMorePages ==
  /\ pc = "paging"
  /\ Ahead = {}
  /\ pc' = "read"
  /\ UNCHANGED <<inputs, upper, lower, count, seen, bronze, quarantine, why>>

\* An exception ends the run and both files are removed.
Raise(reason) ==
  /\ pc' = "failed"
  /\ why' = reason
  /\ bronze' = {}
  /\ quarantine' = {}
  /\ UNCHANGED <<inputs, upper, lower, count, seen>>

PageRaises ==
  /\ pc = "paging"
  /\ Ahead # {}
  /\ \E page \in SUBSET Ahead :
       /\ IsPage(page)
       /\ Raised(page) # ""
       /\ Raise(Raised(page))

\* assert_reject_rate
RejectRateOK == Cardinality(quarantine) * 100 <= RejectPercent * count

Accept ==
  /\ pc = "read"
  /\ RejectRateOK
  /\ pc' = "ready"
  /\ UNCHANGED <<inputs, upper, lower, count, seen, bronze, quarantine, why>>

TooManyRejects ==
  /\ pc = "read"
  /\ ~RejectRateOK
  /\ Raise("rate")

Next ==
  \/ OpenSnapshot \/ ReadPage \/ NoMorePages \/ PageRaises \/ Accept
  \/ TooManyRejects

Spec == Init /\ [][Next]_vars

-----------------------------------------------------------------------------
(* Properties                                                              *)

\* What a run is about to upload is its range: every row above the watermark
\* and up to the upper bound is in exactly one of the two files, once, and
\* numbered by its place in the range, which makes the record ids of the
\* quarantine distinct.  Pages end anywhere, also between rows of one
\* timestamp and at the last row.
RangeDelivered ==
  pc = "ready" =>
    /\ \A r \in rows :
         Less(before, r) <=>
           \E rec \in bronze \cup quarantine : rec.row = r
    /\ \A a, b \in bronze \cup quarantine :
         /\ a.row = b.row => a = b
         /\ Less(a.row, b.row) <=> a.ordinal < b.ordinal
    /\ bronze \cap quarantine = {}

\* No two records of the Bronze file have one primary key, whichever pages
\* they came in and whatever the plan made of their keys.
BronzeKeysUnique ==
  \A a, b \in bronze : a.pk = b.pk => a = b

\* A row error sends its row to the quarantine and the other rows go on: a
\* run only fails because of its reject rate or of a plan that does not fit.
RowErrorsOnlyReject == pc = "failed" => why \in {"rate", "plan"}

=============================================================================
