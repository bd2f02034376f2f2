----------------------------- MODULE OrderRows -----------------------------
(***************************************************************************)
(* One order and its payment, as the Generator creates and advances them   *)
(* (src/generator/orders).  Dates are numbers.  The hashes that pick the   *)
(* delays and the cancellations depend on the random seed and the time     *)
(* scale of the run, so both are free choices here; the delays may be 0    *)
(* because the scale may be as large as 2^31 - 1.                          *)
(***************************************************************************)
EXTENDS LogicalDates

CONSTANTS
  Delays,   \* possible delays of an order stage, scaled
  Lateness  \* how far back the purchase of a late arrival may lie

ASSUME DelaysAssumption == Delays \subseteq Nat
ASSUME LatenessAssumption == Lateness \subseteq Nat \ {0}

ORDER_TRANSITIONS ==
  [created |-> {"approved", "canceled"}, approved |-> {"shipped", "canceled"},
   shipped |-> {"delivered"}, delivered |-> {}, canceled |-> {}]
PAYMENT_TRANSITIONS ==
  [pending |-> {"completed", "failed"}, completed |-> {"refunded"},
   failed |-> {}, refunded |-> {}]

\* The rows a run at date d inserts for a new order.
NewOrder(d, purchase) ==
  [status |-> "created", purchase |-> purchase, created |-> d, updated |-> d,
   approved |-> NoDate, shipped |-> NoDate, delivered |-> NoDate,
   payment |-> [status |-> "pending", initiated |-> d, updated |-> d,
                completed |-> NoDate, failed |-> NoDate, refunded |-> NoDate]]

\* Business time of a new order: the run's date, or earlier in a late arrival.
PurchaseDates(profile, d) ==
  IF profile = "late-arrival" THEN {d - n : n \in Lateness} ELSE {d}

-----------------------------------------------------------------------------
NoPlan == [status |-> "none"]

\* Mutant: stages are planned from the creation of the order, not from the
\* recorded time of the stage before.
MutantPlanFromCreation(o, d, delay, cancel) ==
  LET stage == CASE o.status = "created" -> 1 [] o.status = "approved" -> 2
                 [] o.status = "shipped" -> 3 [] OTHER -> 0
      at == o.created + stage * delay
      next == <<"approved", "shipped", "delivered">>
  IN  IF stage = 0 \/ d < at THEN NoPlan
      ELSE [status |-> next[stage], at |-> at, paidAt |-> at,
            payment |-> IF stage = 1 THEN "completed" ELSE "none"]

\* The one step an order is due for at date d: its next status, the business
\* time of it, what becomes of the payment and when.  delay belongs to the
\* stage the order is in, the only one that can be due.
ProgressPlan(o, d, delay, cancel) ==
  LET approvedAt  == o.created + delay
      shippedAt   == OrElse(o.approved, approvedAt) + delay
      deliveredAt == OrElse(o.shipped, shippedAt) + delay
      Plan(status, at, payment, paidAt) ==
        [status |-> status, at |-> at, payment |-> payment, paidAt |-> paidAt]
  IN  CASE o.status = "created" /\ approvedAt <= d /\ cancel ->
             Plan("canceled", NoDate, "failed", approvedAt)
        [] o.status = "created" /\ approvedAt <= d /\ ~cancel ->
             Plan("approved", approvedAt, "completed", approvedAt)
        [] o.status = "approved" /\ shippedAt <= d /\ cancel ->
             Plan("canceled", NoDate, "refunded", shippedAt)
        [] o.status = "approved" /\ shippedAt <= d /\ ~cancel ->
             Plan("shipped", shippedAt, "none", NoDate)
        [] o.status = "shipped" /\ deliveredAt <= d ->
             Plan("delivered", deliveredAt, "none", NoDate)
        [] OTHER -> NoPlan

\* What plan_order_transition, plan_payment_transition and their persist_
\* counterparts insist on; a run in which it fails is rolled back.
Acceptable(o, plan, d) ==
  /\ plan.status \in ORDER_TRANSITIONS[o.status]
  /\ o.updated < d
  /\ plan.at # NoDate =>
       plan.at <= d /\ plan.status \in {"approved", "shipped", "delivered"}
  /\ plan.payment # "none" =>
       /\ plan.payment \in PAYMENT_TRANSITIONS[o.payment.status]
       /\ o.payment.updated < d
       /\ plan.paidAt <= d

PaymentAfter(p, plan, d) ==
  IF plan.payment = "none" THEN p
  ELSE [p EXCEPT !.status = plan.payment, !.updated = d,
                 ![plan.payment] = OrElse(plan.paidAt, d)]

\* Mutant: the payment is left behind.
MutantOrderWithoutPayment(o, plan, d) ==
  LET at == OrElse(plan.at, d)
  IN  [o EXCEPT
         !.status = plan.status, !.updated = d,
         !.approved  = IF plan.status = "approved" THEN at ELSE @,
         !.shipped   = IF plan.status = "shipped" THEN at ELSE @,
         !.delivered = IF plan.status = "delivered" THEN at ELSE @]

\* The order after the step; a canceled one keeps the times it has.
OrderAfter(o, plan, d) ==
  LET at == OrElse(plan.at, d)
  IN  [o EXCEPT
         !.status = plan.status, !.updated = d,
         !.approved  = IF plan.status = "approved" THEN at ELSE @,
         !.shipped   = IF plan.status = "shipped" THEN at ELSE @,
         !.delivered = IF plan.status = "delivered" THEN at ELSE @,
         !.payment = PaymentAfter(@, plan, d)]

=============================================================================
