----------------------------- MODULE SourceRows -----------------------------
(***************************************************************************)
(* The source rows that Generator runs leave behind.  A run is one source  *)
(* transaction (SourceMutation models how it is coordinated): it advances  *)
(* the orders, adds new ones with their persons, scans the subscriptions   *)
(* and does what its profile asks for.  A run that raises changes nothing, *)
(* so it is a step that is not enabled.                                    *)
(*                                                                         *)
(* Every new order brings a new person, who is named by the order.  A      *)
(* contract is named by its person and its start, the inputs of            *)
(* subscription_id.                                                        *)
(***************************************************************************)
EXTENDS OrderRows, SubscriptionRows, Sequences

CONSTANTS
  OrderIds,  \* new orders, each with a person of its own
  Seeded,    \* persons the seed loaded
  MaxDate    \* bound on logical dates

ASSUME PersonsAssumption == OrderIds \cap Seeded = {}
ASSUME MaxDateAssumption == MaxDate \in Nat

VARIABLES
  orders,     \* orders with their payments, by id
  tiers,      \* customer_membership_tiers, by person: the persons there are
  contracts,  \* customer_subscriptions, by <<person, start>>
  payments    \* subscription_payments

vars == <<orders, tiers, contracts, payments>>

Dates == 1 .. MaxDate
Tiers == <<"BRONZE", "SILVER", "GOLD">>
TransitionProfiles == {"subscription-cancel-requested", "subscription-churned"}
Profiles == {"default", "late-arrival", "membership-change",
             "subscription-active", "subscription-payment-failed"}
            \cup TransitionProfiles

\* The payments of a contract.
PaymentsOf(k) == {p \in payments : p.contract = k}

TypeOK ==
  LET Date == -MaxDate .. MaxDate + Period + Grace + Retry
      Open == {"ACTIVE", "PAYMENT_FAILED", "CANCEL_REQUESTED"}
  IN  /\ DOMAIN orders \subseteq OrderIds
      /\ DOMAIN tiers = Seeded \cup DOMAIN orders
      /\ \A o \in DOMAIN orders :
           /\ orders[o].status \in DOMAIN ORDER_TRANSITIONS
           /\ orders[o].payment.status \in DOMAIN PAYMENT_TRANSITIONS
           /\ {orders[o].created, orders[o].updated} \subseteq Dates
      /\ \A i \in DOMAIN tiers : tiers[i].tier \in 1 .. Len(Tiers)
      /\ DOMAIN contracts \subseteq (DOMAIN tiers) \X Dates
      /\ \A k \in DOMAIN contracts :
           contracts[k] \in
             [status : Open \cup {"CHURNED"}, renew : BOOLEAN,
              from : Date, to : Date, due : Date, next : Date,
              changed : Dates, updated : Dates]
      /\ \A p \in payments :
           /\ p.contract \in DOMAIN contracts
           /\ p.status \in {"completed", "failed"} /\ p.at \in Dates

\* After the seed: no contracts, and no orders younger than it.
Init ==
  /\ orders = << >>
  /\ tiers \in [Seeded -> [tier : 1 .. Len(Tiers), updated : {0}]]
  /\ contracts = << >>
  /\ payments = {}

-----------------------------------------------------------------------------
\* The cursor timestamps of all rows.
Cursors ==
  {orders[o].updated : o \in DOMAIN orders}
    \cup {tiers[i].updated : i \in DOMAIN tiers}
    \cup {contracts[k].updated : k \in DOMAIN contracts}
    \cup {p.at : p \in payments}

CursorForward(d) == \A c \in Cursors : c < d

\* The step an order takes when progress has the choices of the run's hashes.
PlanOf(o, d, progress) ==
  ProgressPlan(orders[o], d, progress[o][1], progress[o][2])

\* The orders after run_existing_order_transitions and create_new_orders.
OrdersAfter(d, progress, purchase) ==
  [o \in DOMAIN orders \cup DOMAIN purchase |->
     IF o \in DOMAIN purchase THEN NewOrder(d, purchase[o])
     ELSE LET plan == PlanOf(o, d, progress)
          IN  IF plan = NoPlan THEN orders[o]
              ELSE OrderAfter(orders[o], plan, d)]

\* Mutant: new persons get no tier.
MutantNoNewTiers(d, new) == tiers

\* The tiers after create_new_orders.
TiersAfter(d, new) ==
  [i \in DOMAIN tiers \cup new |->
     IF i \in new THEN [tier |-> 1, updated |-> d] ELSE tiers[i]]

\* The contracts the scan charges.
ToCharge(d) ==
  {k \in DOMAIN contracts : Charged(contracts[k], PaymentsOf(k), d)}

\* The contracts and the new payments after the scan.
ContractsAfter(d, outcome) ==
  [k \in DOMAIN contracts |->
     Scanned(k, contracts[k], PaymentsOf(k), d,
             IF k \in DOMAIN outcome THEN outcome[k] ELSE "none")]
ChargesOf(d, outcome) ==
  {Charge(k, contracts[k], PaymentsOf(k), d, outcome[k]) : k \in DOMAIN outcome}

\* The contracts subscription-payment-failed may pick.
FailureCandidates(d) ==
  {k \in DOMAIN contracts : /\ contracts[k].updated < d
                            /\ DueForBilling(contracts[k], d)
                            /\ ~PaidBeyond(PaymentsOf(k), d)}

\* The outcomes of the charges: a hash picks them, but for the contract
\* that subscription-payment-failed has picked.
Outcomes(d, profile) ==
  LET free == [ToCharge(d) -> {"completed", "failed"}]
  IN  IF profile = "subscription-payment-failed"
      THEN {f \in free : \E k \in FailureCandidates(d) : f[k] = "failed"}
      ELSE free

-----------------------------------------------------------------------------
(* What the profile adds, given the contracts cs and the tiers ts the run  *)
(* has so far; it raises when there is nothing to pick.                    *)

\* The next tier of a BRONZE or SILVER person.
ChangeTier(d, ts) ==
  \E i \in DOMAIN ts :
    /\ ts[i].tier < Len(Tiers) /\ ts[i].updated < d
    /\ tiers' = [ts EXCEPT ![i] = [tier |-> @.tier + 1, updated |-> d]]

\* Mutant: only an ACTIVE contract keeps a person from starting another.
MutantStartableUnlessActive(i, cs) ==
  \A k \in DOMAIN cs : k[1] = i => cs[k].status # "ACTIVE"

\* May the person start a contract?
Startable(i, cs) == \A k \in DOMAIN cs : k[1] = i => cs[k].status = "CHURNED"

\* A contract for a person who has no open one.
StartContract(d, cs, persons) ==
  \E i \in persons :
    /\ Startable(i, cs)
    /\ contracts' = [k \in DOMAIN cs \cup {<<i, d>>} |->
                       IF k \in DOMAIN cs THEN cs[k] ELSE NewContract(d)]

\* The contracts a transition profile may pick.
TransitionCandidates(profile, d, cs) ==
  {k \in DOMAIN cs :
     /\ cs[k].updated < d
     /\ IF profile = "subscription-churned"
        THEN /\ cs[k].status \in {"PAYMENT_FAILED", "CANCEL_REQUESTED"}
             /\ Reached(cs[k].to, d)
        ELSE cs[k].status \in {"ACTIVE", "PAYMENT_FAILED"}}

ApplyTransition(profile, d, cs) ==
  \E k \in TransitionCandidates(profile, d, cs) :
    contracts' = [cs EXCEPT ![k] = IF profile = "subscription-churned"
                                   THEN Churned(@, d)
                                   ELSE CancelRequested(@, d)]

ApplyProfile(profile, d, cs, ts) ==
  \/ /\ profile = "membership-change"
     /\ ChangeTier(d, ts)
     /\ contracts' = cs
  \/ /\ profile = "subscription-active"
     /\ StartContract(d, cs, DOMAIN ts)
     /\ tiers' = ts
  \/ /\ profile \in TransitionProfiles
     /\ ApplyTransition(profile, d, cs)
     /\ tiers' = ts
  \/ /\ profile \in {"default", "late-arrival", "subscription-payment-failed"}
     /\ contracts' = cs
     /\ tiers' = ts

-----------------------------------------------------------------------------
\* The source transaction of run_generator.
GeneratorRun(d, profile) ==
  /\ CursorForward(d)
  /\ \E progress \in [DOMAIN orders -> Delays \X BOOLEAN],
        new \in SUBSET (OrderIds \ DOMAIN orders),
        outcome \in Outcomes(d, profile) :
       /\ \A o \in DOMAIN orders :
            LET plan == PlanOf(o, d, progress)
            IN  plan # NoPlan => Acceptable(orders[o], plan, d)
       /\ \E purchase \in [new -> PurchaseDates(profile, d)] :
            orders' = OrdersAfter(d, progress, purchase)
       /\ payments' = payments \cup ChargesOf(d, outcome)
       /\ ApplyProfile(profile, d, ContractsAfter(d, outcome),
                       TiersAfter(d, new))

Next == \E d \in Dates, profile \in Profiles : GeneratorRun(d, profile)

Spec == Init /\ [][Next]_vars

-----------------------------------------------------------------------------
(* The billing invariants of docs/architect-review/054.                    *)

\* Nobody pays twice for the same days (I1, for a person instead of a
\* contract): completed payments of a contract cover disjoint periods, and a
\* later contract starts when what was paid for an earlier one is over.
PeriodsDisjoint ==
  \A p \in Completed(payments) :
    /\ \A q \in Completed(payments) \ {p} :
         q.contract = p.contract => p.to <= q.from \/ q.to <= p.from
    /\ \A k \in DOMAIN contracts :
         k[1] = p.contract[1] /\ p.contract[2] < k[2] => p.to <= k[2]

\* A billing cycle is completed at most once, and a completed cycle is not
\* attempted again (I2).
OneCompletedPerCycle ==
  \A p \in Completed(payments) : \A q \in payments \ {p} :
    q.contract = p.contract /\ q.cycle = p.cycle => q.attempt < p.attempt

\* No payment is attempted before the period it pays for begins (I3).
NeverBilledEarly == \A p \in payments : p.from <= p.at

\* The current period of an ACTIVE contract is the one paid for last, or the
\* first one, and the next charge falls on its end (I4).
ActivePeriodIsPaid ==
  \A k \in DOMAIN contracts :
    LET c  == contracts[k]
        ps == PaymentsOf(k)
    IN  c.status = "ACTIVE" =>
          /\ IF Completed(ps) = {}
             THEN c.from = k[2] /\ c.to = k[2] + Period
             ELSE c.from = LatestCompleted(ps).from
                  /\ c.to = LatestCompleted(ps).to
          /\ c.due = c.to /\ c.next = c.to

\* Attempts of a cycle are numbered in order and at least Retry apart (what
\* I5 is for), and all lie within Grace of the first one, however often a
\* retry fails.
RetriesWithinGrace ==
  \A p, q \in payments :
    p.contract = q.contract /\ p.cycle = q.cycle /\ p.attempt < q.attempt =>
      /\ p.at + Retry <= q.at
      /\ p.attempt = 1 => q.at < p.at + Grace

\* A person has at most one contract that is not CHURNED, although
\* subscription-active looks for one in the middle of a run that closes
\* others (the partial unique index of customer_subscriptions).
OneOpenContract ==
  \A k, l \in DOMAIN contracts :
    /\ k[1] = l[1]
    /\ contracts[k].status # "CHURNED" /\ contracts[l].status # "CHURNED"
    => k = l

\* The scan leaves nothing behind that was due: as of the last run that
\* wrote a row, no contract has outlived its period or its grace, no retry
\* is overdue, and an ACTIVE contract that still is due was charged by it.
ScanComplete ==
  \A k \in DOMAIN contracts, d \in Cursors :
    LET c == contracts[k]
    IN  /\ c.status \in {"CANCEL_REQUESTED", "PAYMENT_FAILED"} => d < c.to
        /\ c.status = "PAYMENT_FAILED" => d < c.next
        /\ c.status = "ACTIVE" => d < c.next \/ c.updated >= d

\* Two contracts of a person are never changed at the same date, so that the
\* observations of a person have one attribute hash per updated_at (the test
\* int_customer_history_no_conflicting_hash, which stops every dbt build as
\* long as Bronze holds two).
OneChangePerDate ==
  \A k, l \in DOMAIN contracts :
    k[1] = l[1] /\ contracts[k].updated = contracts[l].updated => k = l

-----------------------------------------------------------------------------
\* An order and its payment tell the same story: pending until approval,
\* completed from then on, failed or refunded when the order is canceled
\* before or after it.
OrderPaymentAgree ==
  \A o \in DOMAIN orders :
    LET r == orders[o]
    IN  r.payment.status =
          CASE r.status = "created" -> "pending"
            [] r.status \in {"approved", "shipped", "delivered"} -> "completed"
            [] r.status = "canceled" /\ r.approved = NoDate -> "failed"
            [] r.status = "canceled" /\ r.approved # NoDate -> "refunded"

\* The business times of an order and its payment follow one another and are
\* never later than the run that recorded them, late arrivals and changing
\* time scales included.
BusinessTimesOrdered ==
  \A o \in DOMAIN orders :
    LET r == orders[o]
        p == r.payment
        Follows(a, b) == b # NoDate => a # NoDate /\ a <= b
    IN  /\ r.purchase <= r.created
        /\ Follows(r.created, r.approved)
        /\ Follows(r.approved, r.shipped)
        /\ Follows(r.shipped, r.delivered)
        /\ Follows(p.initiated, p.completed) /\ Follows(p.initiated, p.failed)
        /\ Follows(p.completed, p.refunded)
        /\ r.approved = p.completed
        /\ \A t \in {r.approved, r.shipped, r.delivered} : t <= r.updated
        /\ \A t \in {p.completed, p.failed, p.refunded} : t <= p.updated

\* No row can make a run of the default profile raise: every step an order
\* may be due for is acceptable, every contract can be read back, now and
\* after the scan, and the scan only asks for transitions that are allowed.
NoRunAborts ==
  \A d \in Dates : CursorForward(d) =>
    /\ \A o \in DOMAIN orders, delay \in Delays, cancel \in BOOLEAN :
         LET plan == ProgressPlan(orders[o], d, delay, cancel)
         IN  plan # NoPlan => Acceptable(orders[o], plan, d)
    /\ \A k \in DOMAIN contracts, outcome \in {"completed", "failed"} :
         LET c    == contracts[k]
             next == Scanned(k, c, PaymentsOf(k), d, outcome)
         IN  /\ ValidContract(c, k[2]) /\ ValidContract(next, k[2])
             /\ next.status # c.status =>
                  next.status \in SUBSCRIPTION_TARGETS[c.status]

=============================================================================
