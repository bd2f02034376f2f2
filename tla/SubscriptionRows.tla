-------------------------- MODULE SubscriptionRows --------------------------
(***************************************************************************)
(* One subscription contract and its billing (src/generator/customers).    *)
(* A contract is its row of customer_subscriptions without the keys and    *)
(* without payment_failed_at, cancel_requested_at and ended_at, which are  *)
(* set together with the status and never read.  ps is the set of the      *)
(* contract's rows of subscription_payments.                               *)
(***************************************************************************)
EXTENDS LogicalDates

CONSTANTS
  Period,  \* SUBSCRIPTION_PERIOD
  Grace,   \* PAYMENT_FAILURE_GRACE_PERIOD
  Retry    \* the two days between payment attempts

ASSUME PeriodAssumption == Period \in Nat \ {0}
ASSUME GraceAssumption == Grace \in Nat \ {0}
ASSUME RetryAssumption == Retry \in Nat \ {0}

Greatest(S) == IF S = {} THEN 0 ELSE CHOOSE n \in S : \A m \in S : m <= n

NewContract(d) ==
  [status |-> "ACTIVE", renew |-> TRUE, from |-> d, to |-> d + Period,
   due |-> d + Period, next |-> d + Period, changed |-> d, updated |-> d]

\* _allowed_subscription_targets.
SUBSCRIPTION_TARGETS ==
  [ACTIVE |-> {"ACTIVE", "PAYMENT_FAILED", "CANCEL_REQUESTED"},
   PAYMENT_FAILED |-> {"ACTIVE", "CANCEL_REQUESTED", "CHURNED"},
   CANCEL_REQUESTED |-> {"ACTIVE", "CHURNED"}, CHURNED |-> {}]

\* What SubscriptionRecord, and the table with the same CHECKs, demand of a
\* row whenever it is written or read.
ValidContract(c, started) ==
  /\ started <= c.changed /\ c.changed <= c.updated
  /\ c.from < c.to
  /\ c.status = "ACTIVE" => c.due # NoDate /\ c.next # NoDate
  /\ c.status = "CANCEL_REQUESTED" => ~c.renew /\ c.next = NoDate
  /\ c.status = "CHURNED" => ~c.renew /\ c.due = NoDate /\ c.next = NoDate

-----------------------------------------------------------------------------
(* The transitions of _transition_subscription_record that are called.     *)

PaymentFailed(c, d) ==
  [c EXCEPT !.status = "PAYMENT_FAILED", !.to = d + Grace,
            !.due = OrElse(@, d), !.next = d + Retry,
            !.changed = d, !.updated = d]

\* Mutant: the next payment attempt stays scheduled.
MutantCancelKeepsSchedule(c, d) ==
  [c EXCEPT !.status = "CANCEL_REQUESTED", !.renew = FALSE,
            !.changed = d, !.updated = d]

CancelRequested(c, d) ==
  [c EXCEPT !.status = "CANCEL_REQUESTED", !.renew = FALSE, !.next = NoDate,
            !.changed = d, !.updated = d]

Churned(c, d) ==
  [c EXCEPT !.status = "CHURNED", !.renew = FALSE, !.due = NoDate,
            !.next = NoDate, !.changed = d, !.updated = d]

-----------------------------------------------------------------------------
(* The three cases of the expiry scan, in the order in which they are      *)
(* tested.                                                                 *)

\* Mutant: a contract is over only after the end of its period.
MutantExpiredAfter(c, d) ==
  c.status \in {"CANCEL_REQUESTED", "PAYMENT_FAILED"} /\ Reached(c.to, d - 1)

Expired(c, d) == /\ c.status \in {"CANCEL_REQUESTED", "PAYMENT_FAILED"}
                 /\ Reached(c.to, d)

\* Mutant: ACTIVE contracts are charged whether or not they are due.
MutantAlwaysDue(c, d) == c.status = "ACTIVE" /\ c.renew

DueForBilling(c, d) == /\ c.status = "ACTIVE" /\ c.renew
                       /\ Reached(c.next, d)

DueForRetry(c, d) == /\ c.status = "PAYMENT_FAILED"
                     /\ Reached(c.next, d)

Completed(ps) == {p \in ps : p.status = "completed"}

\* The completed payment with the greatest cycle and attempt, if any.
LatestCompleted(ps) ==
  CHOOSE p \in Completed(ps) : \A q \in Completed(ps) :
    q.cycle < p.cycle \/ (q.cycle = p.cycle /\ q.attempt <= p.attempt)

\* Is the period already paid for still running at date d?
PaidBeyond(ps, d) == Completed(ps) # {} /\ LatestCompleted(ps).to > d

\* The contract is charged at date d.
Charged(c, ps, d) ==
  /\ c.updated < d
  /\ ~Expired(c, d)
  /\ \/ DueForBilling(c, d) /\ ~PaidBeyond(ps, d)
     \/ DueForRetry(c, d)

\* Mutant: the period charged for is the current one.
MutantChargeCurrentPeriod(k, c, ps, d, outcome) ==
  LET last  == Greatest({p.cycle : p \in ps})
      retry == c.status = "PAYMENT_FAILED"
  IN  [contract |-> k, cycle |-> IF retry THEN last ELSE last + 1,
       attempt |-> IF retry
                   THEN Greatest({p.attempt : p \in {q \in ps : q.cycle = last}}) + 1
                   ELSE 1,
       status |-> outcome, at |-> d, from |-> c.from, to |-> c.from + Period]

\* Mutant: every charge after the first stays in its cycle.
MutantChargeSameCycle(k, c, ps, d, outcome) ==
  [contract |-> k, cycle |-> 1,
   attempt |-> Greatest({p.attempt : p \in ps}) + 1,
   status |-> outcome, at |-> d, from |-> OrElse(c.due, d),
   to |-> OrElse(c.due, d) + Period]

\* The row of subscription_payments a charge of contract k leaves: a retry stays in the
\* cycle, a regular charge opens the next one.
Charge(k, c, ps, d, outcome) ==
  LET last  == Greatest({p.cycle : p \in ps})
      retry == c.status = "PAYMENT_FAILED"
      from  == OrElse(c.due, d)
  IN  [contract |-> k, cycle |-> IF retry THEN last ELSE last + 1,
       attempt |-> IF retry
                   THEN Greatest({p.attempt : p \in {q \in ps : q.cycle = last}}) + 1
                   ELSE 1,
       status |-> outcome, at |-> d, from |-> from, to |-> from + Period]

\* Mutant: the current period begins with the run, not with the period paid.
MutantAdvancedFromRun(c, p, d) ==
  [c EXCEPT !.status = "ACTIVE", !.renew = TRUE, !.from = d, !.to = d + Period,
            !.due = d + Period, !.next = d + Period, !.updated = d,
            !.changed = IF c.status = "ACTIVE" THEN @ ELSE d]

\* A completed payment makes its billing period the current one.
Advanced(c, p, d) ==
  [c EXCEPT !.status = "ACTIVE", !.renew = TRUE, !.from = p.from, !.to = p.to,
            !.due = p.to, !.next = p.to, !.updated = d,
            !.changed = IF c.status = "ACTIVE" THEN @ ELSE d]

\* Mutant: a failed retry leaves the contract as it is.
MutantRetryUnrecorded(c, d) == c

\* A failed retry keeps the end of the grace period.
RetryFailed(c, d) == [c EXCEPT !.next = d + Retry, !.updated = d]

\* A contract that is due although its last paid period still runs.
Realigned(c, ps, d) ==
  LET p == LatestCompleted(ps)
  IN  [c EXCEPT !.from = p.from, !.to = p.to, !.due = p.to, !.next = p.to,
                !.updated = d]

\* What the scan of a run at date d makes of the contract k.
Scanned(k, c, ps, d, outcome) ==
  CASE c.updated >= d -> c
    [] c.updated < d /\ Expired(c, d) -> Churned(c, d)
    [] Charged(c, ps, d) ->
         IF outcome = "completed"
         THEN Advanced(c, Charge(k, c, ps, d, outcome), d)
         ELSE IF c.status = "PAYMENT_FAILED" THEN RetryFailed(c, d)
              ELSE PaymentFailed(c, d)
    [] c.updated < d /\ DueForBilling(c, d) /\ PaidBeyond(ps, d) ->
         Realigned(c, ps, d)
    [] OTHER -> c

=============================================================================
