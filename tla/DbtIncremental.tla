--------------------------- MODULE DbtIncremental ---------------------------
(***************************************************************************)
(* From the source tables to the facts of the mart: warehouse runs load    *)
(* what changed into Bronze, each under the batch id of its logical date   *)
(* (warehouse_pipeline_dag.py, service.py, batch.py, verification.py), and *)
(* the dbt build that follows recomputes only the facts that batches above *)
(* control.dbt_processed_batch touch (dbt/macros, dbt/models).             *)
(*                                                                         *)
(* One fact is followed with the rows it is computed from: an order with   *)
(* its payment and its customer's tier, or a subscription payment with its *)
(* contract and its customer's tier.  Timestamps and batch ids are the     *)
(* logical dates of Generator runs: source_simulation_dag triggers the     *)
(* warehouse run of a date with that date.                                 *)
(***************************************************************************)
EXTENDS Naturals, FiniteSets, Sequences, Functions

CONSTANTS
  MaxDate,    \* logical dates are 1..MaxDate
  MaxFaults,  \* bound on faults
  Late        \* may a batch id below the latest one be ingested

ASSUME BoundsAssumption == MaxDate \in Nat /\ MaxFaults \in Nat
ASSUME LateAssumption == Late \in BOOLEAN

VARIABLES
  kind,       \* which fact is followed
  clock,      \* logical date of the last Generator run
  source,     \* the source row of each table
  born,       \* purchase_at or payment_at
  wm,         \* watermarks
  bronze,     \* COMMITTED bronze_objects of each table, in commit order
  last,       \* greatest batch id that ran
  phase,      \* how far the last run came
  processed,  \* max(processed_batch_id), 0 for none
  built,      \* are there fact tables, so that is_incremental()
  facts,      \* rows of the fact tables
  faults      \* failed tables, rejected rows and rewinds so far

sourceVars == <<kind, clock, source, born>>
martVars   == <<processed, built, facts>>
vars == <<sourceVars, wm, bronze, last, phase, martVars, faults>>

-----------------------------------------------------------------------------
Root   == IF kind = "order" THEN "orders" ELSE "subscription_payments"
Second == IF kind = "order" THEN "order_payments" ELSE "customer_subscriptions"
Tier   == "customer_membership_tiers"
Tables == {Root, Second, Tier}
\* Tables whose changes are dimension versions.
Axes   == Tables \ {"orders", "order_payments", "subscription_payments"}

Dates  == 1..MaxDate
Levels == 0..2              \* membership tiers, or hashed contract attributes
Row    == [at : 0..MaxDate, attr : Levels]
Object == [batch : Dates, at : Dates, attr : Levels, rejected : BOOLEAN]
NoKey  == [from |-> 0, attr |-> 3]
Key    == [from : 0..MaxDate, attr : Levels]

TypeOK ==
  /\ kind \in {"order", "payment"}
  /\ clock \in 0..MaxDate
  /\ source \in [Tables -> Row]
  /\ born \in 0..clock
  /\ wm \in [Tables -> 0..MaxDate]
  /\ \A t \in Tables : wm[t] <= source[t].at /\ source[t].at <= clock
  /\ DOMAIN bronze = Tables
  /\ \A t \in Tables : bronze[t] \in Seq(Object)
  /\ last \in 0..MaxDate
  /\ phase \in {"failed", "verified", "built"}
  /\ processed \in 0..last
  /\ built \in BOOLEAN
  /\ \A f \in facts :
       /\ f.fact \in {"root", "detail"}
       /\ f.root \in Dates
       /\ f.detail \in 0..MaxDate
       /\ f.keys \in [Axes -> Key]
  /\ faults \in 0..MaxFaults

Init ==
  /\ kind \in {"order", "payment"}
  /\ clock = 0
  /\ source = [t \in Tables |-> [at |-> 0, attr |-> 0]]
  /\ born = 0
  /\ wm = [t \in Tables |-> 0]
  /\ bronze = [t \in Tables |-> <<>>]
  /\ last = 0
  /\ phase = "failed"
  /\ processed = 0
  /\ built = FALSE
  /\ facts = {}
  /\ faults = 0

-----------------------------------------------------------------------------
(* The Generator                                                           *)

Exists(t) == source[t].at # 0

\* An order comes with its payment and its customer, and its payment only
\* changes with it.  A subscription payment is a row that never changes; the
\* contract it is for began in an earlier run and changes with it.
MayWrite(tables) ==
  IF kind = "order"
  THEN IF ~Exists(Root) THEN tables \in {{}, Tables}
       ELSE Second \in tables => Root \in tables
  ELSE /\ ~Exists(Tier) => Tier \in tables
       /\ Root \in tables =>
            ~Exists(Root) /\ Exists(Second) /\ Second \in tables

\* An order of the late-arrival profile was purchased before it arrived.
BusinessDates(d) == IF kind = "order" THEN 1..d ELSE {d}

\* A tier only rises and is only written when it does; a contract may change
\* in what its hash leaves out, or back to what it was.
MayBecome(t, attr) ==
  IF t \notin Axes \/ ~Exists(t) THEN attr = 0
  ELSE IF t = Tier THEN attr = source[t].attr + 1
  ELSE attr \in 0..1

Generate ==
  /\ clock < MaxDate
  /\ clock' = clock + 1
  /\ \E tables \in SUBSET Tables :
       /\ MayWrite(tables)
       /\ \E attr \in [tables -> Levels] :
            /\ \A t \in tables : MayBecome(t, attr[t])
            /\ source' = [t \in Tables |->
                 IF t \in tables THEN [at |-> clock', attr |-> attr[t]]
                 ELSE source[t]]
       /\ IF Root \in tables /\ ~Exists(Root)
          THEN born' \in BusinessDates(clock')
          ELSE UNCHANGED born
  /\ UNCHANGED <<kind, wm, bronze, last, phase, martVars, faults>>

-----------------------------------------------------------------------------
(* Warehouse runs: the table tasks of one batch, then verify_bronze_commit *)

Committed(t, b) == {o \in Range(bronze[t]) : o.batch = b}

\* A batch that a table has an object for is only reused while the watermark
\* is where it left it; otherwise the rows above the watermark are loaded, or
\* rejected where a reject can be written down at all, or there are none.
Outcomes(t, b) ==
  {"fail"} \cup
  IF Committed(t, b) # {}
  THEN {"done" : o \in {p \in Committed(t, b) : p.at = wm[t]}}
  ELSE IF source[t].at <= wm[t] THEN {"done"}
  ELSE IF t \in {"customer_subscriptions", "subscription_payments"} THEN {"load"}
  ELSE {"load", "reject"}

\* max_active_runs is 1 and runs are triggered in the order of their dates; a
\* run that failed may be cleared until the next one.  Recovery procedures
\* also ingest under the date of an earlier run.
InOrder(b) ==
  \/ b > last
  \/ b = last /\ phase = "failed"
  \/ b < last /\ Late

Ingest(b) ==
  /\ InOrder(b)
  /\ \E out \in [Tables -> {"fail", "done", "load", "reject"}] :
       /\ \A t \in Tables : out[t] \in Outcomes(t, b)
       /\ faults' =
            faults + Cardinality({t \in Tables : out[t] \in {"fail", "reject"}})
       /\ faults' <= MaxFaults
       /\ bronze' = [t \in Tables |->
            IF out[t] \in {"load", "reject"}
            THEN Append(bronze[t],
                   [batch |-> b, at |-> source[t].at, attr |-> source[t].attr,
                    rejected |-> out[t] = "reject"])
            ELSE bronze[t]]
       /\ wm' = [t \in Tables |->
            IF out[t] \in {"load", "reject"} THEN source[t].at ELSE wm[t]]
       /\ phase' = IF \E t \in Tables : out[t] = "fail" THEN "failed"
                   ELSE "verified"
  /\ last' = IF b > last THEN b ELSE last
  /\ UNCHANGED <<sourceVars, martVars>>

\* rewind_tables, to a boundary before the row was written.
Rewind(t) ==
  /\ faults < MaxFaults
  /\ faults' = faults + 1
  /\ wm[t] # 0
  /\ wm' = [wm EXCEPT ![t] = 0]
  /\ UNCHANGED <<sourceVars, bronze, last, phase, martVars>>

-----------------------------------------------------------------------------
(* The models, over the objects that sync_bronze_catalog lists             *)

\* dedupe_observations: of the observations of one version the newest stays.
\* An axis row has one attribute at a time.
Staged(t) ==
  {bronze[t][i] : i \in
     {j \in DOMAIN bronze[t] :
        /\ ~bronze[t][j].rejected
        /\ \A k \in DOMAIN bronze[t] :
             ~bronze[t][k].rejected /\ bronze[t][k].at = bronze[t][j].at => k <= j}}

\* current_bronze_records: the newest version only.
Current(t) ==
  {o \in Staged(t) : \A p \in Staged(t) : p.at <= o.at}

\* int_customer_history and int_subscription_history: observations that
\* differ from the one before them.
Versions(t) ==
  LET obs == Staged(t) IN
    {o \in obs : \A p \in obs :
       p.at < o.at /\ (\A q \in obs : q.at <= p.at \/ o.at <= q.at)
         => p.attr # o.attr}

IsFirst(t, v) == \A p \in Staged(t) : v.at <= p.at

VersionKey(t, v) ==
  [from |-> IF IsFirst(t, v) THEN 0 ELSE v.at, attr |-> v.attr]

DimKeys(t) == {VersionKey(t, v) : v \in Versions(t)}

MutantEffectiveFrom(t, v) == v.at

\* effective_from: minus infinity for the first version.
EffectiveFrom(t, v) == IF IsFirst(t, v) THEN 0 ELSE v.at

\* The join with the dimension: the version in effect when the fact happened.
KeyAt(t) ==
  LET begun == {v \in Versions(t) : EffectiveFrom(t, v) <= born}
  IN IF begun = {} THEN NoKey
     ELSE VersionKey(t,
            CHOOSE v \in begun : \A p \in begun : p.at <= v.at)

Keys == [t \in Axes |-> KeyAt(t)]

At(rows) == IF rows = {} THEN 0 ELSE (CHOOSE o \in rows : TRUE).at

\* fct_order and fct_order_payment, by left joins from the order and from its
\* payment; fct_subscription_payment, by inner joins.
Full ==
  LET root   == Current(Root)
      second == Current(Second)
      Fact(name) ==
        [fact |-> name, root |-> At(root),
         detail |-> IF kind = "order" THEN At(second) ELSE 0,
         keys |-> IF root = {} THEN [t \in Axes |-> NoKey] ELSE Keys]
  IN IF kind = "order"
     THEN {Fact("root") : o \in root} \cup {Fact("detail") : o \in second}
     ELSE {Fact("root") : o \in
             {p \in root : second # {} /\ \A t \in Axes : KeyAt(t) # NoKey}}

New(rows) == {o \in rows : o.batch > processed}

MutantChangedBefore(t) ==
  \E o \in New(Staged(t)) : o.at < born

\* An axis row changed, at the latest when the fact happened.
AxisChanged(t) ==
  \E o \in New(Staged(t)) : o.at <= born

\* int_affected_order_keys and int_affected_subscription_payment_keys, which
\* start from the staged order or payment.
Affected ==
  /\ Current(Root) # {}
  /\ kind = "payment" => Current(Second) # {}
  /\ \/ New(Current(Root)) # {}
     \/ kind = "order" /\ New(Current(Second)) # {}
     \/ \E t \in Axes : AxisChanged(t)

\* A fact table after its model ran: replaced, or delete+insert by key.
Rebuilt(full) ==
  IF full \/ ~built THEN Full
  ELSE IF ~Affected THEN facts
  ELSE Full \cup
       {f \in facts : \A g \in Full : g.fact # f.fact}

\* The not_null and relationships tests of the facts.
TestsPass(rows) ==
  \A f \in rows :
    /\ f.root # 0
    /\ \A t \in Axes : f.keys[t] \in DimKeys(t)
    /\ \E g \in rows : g.fact = "root"

\* max(_batch_id) of the staging models.
StagedBatches ==
  {o.batch : o \in UNION {Staged(t) : t \in Tables}}

MutantAdvancedToClock(b) == b = clock

\* advance_processed_batch_watermark: the greatest batch id that is or was
\* staged, which may be the latest that ran by the tables not followed.
Advanced(b) ==
  /\ b \in StagedBatches \cup {processed, last}
  /\ \A s \in StagedBatches \cup {processed} : s <= b

-----------------------------------------------------------------------------
(* prepare_warehouse_build with sync_bronze_catalog, dbt build, publish    *)

Build(full) ==
  /\ phase = "verified"
  /\ TestsPass(Rebuilt(full))
  /\ facts' = Rebuilt(full)
  /\ built' = TRUE
  /\ \E b \in 0..MaxDate : Advanced(b) /\ processed' = b
  /\ phase' = "built"
  /\ UNCHANGED <<sourceVars, wm, bronze, last, faults>>

\* A test that fails keeps the build file from being published.
BuildFails(full) ==
  /\ phase = "verified"
  /\ ~TestsPass(Rebuilt(full))
  /\ phase' = "failed"
  /\ UNCHANGED <<sourceVars, wm, bronze, last, martVars, faults>>

Next ==
  \/ Generate
  \/ \E b \in 1..clock : Ingest(b)
  \/ \E t \in Tables : Rewind(t)
  \/ \E full \in BOOLEAN : Build(full) \/ BuildFails(full)

Spec == Init /\ [][Next]_vars

-----------------------------------------------------------------------------
(* Properties                                                              *)

NoReject(t) == \A o \in Range(bronze[t]) : ~o.rejected

\* The facts a build publishes are those a full refresh of the same Bronze
\* objects gives, if its tests pass: incremental builds, retries, failed
\* runs, rewinds and tables loaded in different batches leave no fact behind.
\* It takes that the first tier of a subscription payment's customer was not
\* rejected: until there is one the payment is dropped by its inner join, and
\* a first tier that is newer than the payment does not bring it back.
IncrementalEqualsFull ==
  /\ phase = "built"
  /\ TestsPass(Full)
  /\ kind = "payment" /\ bronze[Tier] # <<>> => ~Head(bronze[Tier]).rejected
  => facts = Full

\* A verified batch can be built, incrementally and from nothing, when no row
\* was rejected: the tests of the facts never stop the pipeline by what the
\* history of the dimensions or the choice of affected keys does.
VerifiedBatchBuilds ==
  phase = "verified" /\ (\A t \in Tables : NoReject(t))
    => \A full \in BOOLEAN : TestsPass(Rebuilt(full))

=============================================================================
