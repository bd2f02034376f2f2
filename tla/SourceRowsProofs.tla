-------------------------- MODULE SourceRowsProofs --------------------------
(***************************************************************************)
(* Proofs about SourceRows for every number of orders and persons, every   *)
(* period, grace period and retry interval, and all delays.  The contracts *)
(* do not interact except through the start of a new one, so the argument  *)
(* is about one contract and its payments: ContractOK holds of a new       *)
(* contract and survives the scan and the profile transitions.  Its centre *)
(* is PaidEnd, the end of what is paid for: an open contract that can be   *)
(* charged is due exactly there.  OrderOK is the same for an order.        *)
(***************************************************************************)
EXTENDS SourceRows, TLAPS

-----------------------------------------------------------------------------
(* A contract and its payments.                                            *)

ContractDates == -MaxDate .. MaxDate + Period + Grace + Retry

ContractRow ==
  [status : {"ACTIVE", "PAYMENT_FAILED", "CANCEL_REQUESTED", "CHURNED"},
   renew : BOOLEAN, from : ContractDates, to : ContractDates,
   due : ContractDates, next : ContractDates, changed : Dates, updated : Dates]

PaymentRow(k) ==
  [contract : {k}, cycle : Nat \ {0}, attempt : Nat \ {0},
   status : {"completed", "failed"}, at : Dates, from : Int, to : Int]

\* The order of the payments of a contract.
NotAfter(q, p) == q.cycle < p.cycle \/ (q.cycle = p.cycle /\ q.attempt <= p.attempt)
Before(q, p)   == q.cycle < p.cycle \/ (q.cycle = p.cycle /\ q.attempt < p.attempt)
IsLast(p, ps)  == p \in ps /\ \A q \in ps : NotAfter(q, p)
HasLast(ps)    == ps = {} \/ \E p \in ps : IsLast(p, ps)

\* Where the time that is paid for ends; the first period is free.
PaidEnd(start, ps) ==
  IF Completed(ps) = {} THEN start + Period ELSE LatestCompleted(ps).to

\* The payments of a contract among themselves.
PaymentsOK(k, ps) ==
  /\ ps \subseteq PaymentRow(k)
  /\ HasLast(ps) /\ HasLast(Completed(ps))
  /\ \A p \in ps : p.from <= p.at /\ p.to = p.from + Period
  /\ \A p \in Completed(ps) : \A q \in ps \ {p} :
       q.cycle = p.cycle => q.attempt < p.attempt
  /\ \A p, q \in ps :
       p.cycle = q.cycle /\ p.attempt < q.attempt =>
         /\ p.at + Retry <= q.at
         /\ p.attempt = 1 => q.at < p.at + Grace
  /\ \A p, q \in Completed(ps) : p = q \/ p.to <= q.from \/ q.to <= p.from

\* The payments of the cycle that is being retried.
Retrying(c, ps) ==
  \E p \in ps :
    /\ IsLast(p, ps)
    /\ \A q \in ps : q.cycle = p.cycle =>
         /\ q.status = "failed"
         /\ q.at + Retry <= c.next
         /\ q.attempt = 1 => c.to <= q.at + Grace

\* The dates of a contract whose paid time ends at e.
DatesOK(start, c, e) ==
  /\ start <= c.changed /\ c.changed <= c.updated
  /\ c.from < c.to
  /\ CASE c.status = "ACTIVE" ->
            c.renew /\ c.due = e /\ c.next = e /\ c.to = e /\ c.from = e - Period
       [] c.status = "PAYMENT_FAILED" ->
            c.due = e /\ e <= c.updated /\ e <= c.to /\ 0 <= c.next
       [] c.status = "CANCEL_REQUESTED" ->
            ~c.renew /\ c.next = NoDate /\ e <= c.to
       [] c.status = "CHURNED" ->
            ~c.renew /\ c.due = NoDate /\ c.next = NoDate /\ e <= c.updated

ContractOK(k, c, ps) ==
  /\ c \in ContractRow
  /\ PaymentsOK(k, ps)
  /\ \A p \in ps : p.at <= c.updated
  /\ \A p \in Completed(ps) : p.to <= PaidEnd(k[2], ps)
  /\ 0 < PaidEnd(k[2], ps) /\ PaidEnd(k[2], ps) <= c.updated + Period
  /\ DatesOK(k[2], c, PaidEnd(k[2], ps))
  /\ c.status = "PAYMENT_FAILED" => Retrying(c, ps)

\* All contracts; payments belong to contracts.
ContractsOK ==
  /\ \A k \in DOMAIN contracts : ContractOK(k, contracts[k], PaymentsOf(k))
  /\ \A p \in payments : p.contract \in DOMAIN contracts

\* A contract that has a successor was CHURNED before, and paid no longer than
\* that.
SuccessorsOK ==
  \A k, l \in DOMAIN contracts :
    k[1] = l[1] /\ k[2] < l[2] =>
      contracts[k].status = "CHURNED" /\ contracts[k].updated <= l[2]

-----------------------------------------------------------------------------
(* The last payment.                                                       *)

\* Greatest names the greatest number of a set that has one.
LEMMA GreatestIs ==
  ASSUME NEW S \in SUBSET Nat, NEW m \in S, \A n \in S : n <= m
  PROVE  Greatest(S) = m
<1>1. Greatest(S) = CHOOSE n \in S : \A i \in S : i <= n
  BY DEF Greatest
<1>2. Greatest(S) \in S /\ \A i \in S : i <= Greatest(S)
  BY <1>1
<1>3. Greatest(S) \in Nat /\ m \in Nat
  BY <1>2
<1> QED
  BY <1>2, <1>3

\* The cycle and the attempt of the last payment are the ones that
\* charge looks up.
LEMMA LastCycle ==
  ASSUME NEW k, NEW ps, ps \subseteq PaymentRow(k), NEW p \in ps, IsLast(p, ps)
  PROVE  /\ Greatest({q.cycle : q \in ps}) = p.cycle
         /\ Greatest({q.attempt : q \in {r \in ps : r.cycle = p.cycle}})
              = p.attempt
<1>1. \A q \in ps : q.cycle \in Nat /\ q.attempt \in Nat
  BY DEF PaymentRow
<1>2. \A q \in ps : q.cycle <= p.cycle
  BY <1>1 DEF IsLast, NotAfter
<1>3. \A q \in ps : q.cycle = p.cycle => q.attempt <= p.attempt
  BY <1>1 DEF IsLast, NotAfter
<1>4. Greatest({q.cycle : q \in ps}) = p.cycle
  BY <1>1, <1>2, GreatestIs
<1>5. Greatest({q.attempt : q \in {r \in ps : r.cycle = p.cycle}}) = p.attempt
  BY <1>1, <1>3, GreatestIs
<1> QED
  BY <1>4, <1>5

\* The completed payment that has no later one is LatestCompleted: no two
\* completed payments have one cycle.
LEMMA LatestIs ==
  ASSUME NEW k, NEW ps, ps \subseteq PaymentRow(k),
         \A p \in Completed(ps) : \A q \in ps \ {p} :
           q.cycle = p.cycle => q.attempt < p.attempt,
         NEW p \in Completed(ps), IsLast(p, Completed(ps))
  PROVE  LatestCompleted(ps) = p
<1> DEFINE l == LatestCompleted(ps)
<1>1. l = CHOOSE n \in Completed(ps) : IsLast(n, Completed(ps))
  BY DEF LatestCompleted, IsLast, NotAfter
<1>2. l \in Completed(ps) /\ IsLast(l, Completed(ps))
  BY <1>1
<1> HIDE DEF l
<1>3. l \in ps /\ p \in ps
  BY <1>2 DEF Completed
<1>4. /\ l.cycle \in Nat /\ l.attempt \in Nat
      /\ p.cycle \in Nat /\ p.attempt \in Nat
  BY <1>3 DEF PaymentRow
<1>5. l.cycle = p.cycle /\ l.attempt = p.attempt
  BY <1>2, <1>4 DEF IsLast, NotAfter
<1> QED
  BY <1>2, <1>3, <1>4, <1>5 DEF l

\* LatestCompleted is a completed payment when there is one.
LEMMA LatestExists ==
  ASSUME NEW k, NEW ps, PaymentsOK(k, ps), Completed(ps) # {}
  PROVE  LatestCompleted(ps) \in Completed(ps)
<1>1. PICK p \in Completed(ps) : IsLast(p, Completed(ps))
  BY DEF PaymentsOK, HasLast
<1> QED
  BY <1>1, LatestIs DEF PaymentsOK

\* The end of the paid time is a date.
LEMMA PaidEndType ==
  ASSUME NEW k, k[2] \in Dates, NEW ps, PaymentsOK(k, ps)
  PROVE  PaidEnd(k[2], ps) \in Int
<1>1. CASE Completed(ps) = {}
  BY <1>1, PeriodAssumption DEF PaidEnd, Dates
<1>2. CASE Completed(ps) # {}
  <2>1. LatestCompleted(ps) \in Completed(ps)
    BY <1>2, LatestExists
  <2>2. LatestCompleted(ps) \in PaymentRow(k)
    BY <2>1 DEF Completed, PaymentsOK
  <2> HIDE <1>2
  <2>3. LatestCompleted(ps).to \in Int
    BY <2>2 DEF PaymentRow
  <2> QED
    BY <1>2, <2>3 DEF PaidEnd
<1> QED
  BY <1>1, <1>2

-----------------------------------------------------------------------------
(* A charge.                                                               *)

\* When an ACTIVE contract is due, nothing is paid beyond that date: the
\* realignment of a contract never happens.
LEMMA NeverPaidBeyond ==
  ASSUME NEW k, k[2] \in Dates, NEW c, NEW ps, ContractOK(k, c, ps),
         NEW d \in Dates, DueForBilling(c, d)
  PROVE  ~PaidBeyond(ps, d)
<1>1. PaidEnd(k[2], ps) <= d
  BY DEF ContractOK, DatesOK, DueForBilling, Reached
<1>2. PaidEnd(k[2], ps) \in Int /\ d \in Int
  BY PaidEndType DEF ContractOK, Dates
<1> QED
  BY <1>1, <1>2 DEF PaidBeyond, PaidEnd

\* A contract that is charged is due at the end of its paid time, and that has
\* come.
LEMMA ChargedIsDue ==
  ASSUME NEW k, k[2] \in Dates, NEW c, NEW ps, ContractOK(k, c, ps),
         NEW d \in Dates, Charged(c, ps, d)
  PROVE  /\ c.status \in {"ACTIVE", "PAYMENT_FAILED"}
         /\ c.due = PaidEnd(k[2], ps) /\ c.due # NoDate
         /\ PaidEnd(k[2], ps) \in Int /\ PaidEnd(k[2], ps) <= d
         /\ c.updated < d
         /\ c.status = "PAYMENT_FAILED" => c.next <= d /\ d < c.to
<1>1. PaidEnd(k[2], ps) \in Int /\ 0 < PaidEnd(k[2], ps)
  BY PaidEndType DEF ContractOK
<1>2. /\ c.status \in {"ACTIVE", "PAYMENT_FAILED"}
      /\ c.updated < d /\ Reached(c.next, d)
  BY DEF Charged, DueForBilling, DueForRetry
<1>3. c.updated \in Int /\ d \in Int /\ c.to \in Int /\ c.next \in Int
  BY PeriodAssumption, GraceAssumption, RetryAssumption, MaxDateAssumption
  DEF ContractOK, ContractRow, ContractDates, Dates
<1>4. /\ c.due = PaidEnd(k[2], ps)
      /\ c.status = "ACTIVE" => c.next = PaidEnd(k[2], ps)
      /\ c.status = "PAYMENT_FAILED" => PaidEnd(k[2], ps) <= c.updated
  BY <1>2 DEF ContractOK, DatesOK
<1>5. c.status = "PAYMENT_FAILED" => c.to > d
  <2>1. c.status = "PAYMENT_FAILED" => 0 < c.to
    BY <1>1, <1>2, <1>3 DEF ContractOK, DatesOK
  <2> QED
    BY <1>3, <2>1 DEF Charged, Expired, Reached, NoDate
<1> QED
  BY <1>1, <1>2, <1>3, <1>4, <1>5 DEF Reached, NoDate

\* A regular charge opens a cycle of its own.
LEMMA RegularCycle ==
  ASSUME NEW k, NEW c, NEW ps, PaymentsOK(k, ps), NEW d, NEW o,
         c.status # "PAYMENT_FAILED"
  PROVE  /\ Charge(k, c, ps, d, o).cycle \in Nat \ {0}
         /\ Charge(k, c, ps, d, o).attempt = 1
         /\ \A q \in ps : q.cycle < Charge(k, c, ps, d, o).cycle
<1> DEFINE last == Greatest({q.cycle : q \in ps})
<1>1. last \in Nat /\ \A q \in ps : q.cycle \in Nat /\ q.cycle <= last
  <2>1. CASE ps = {}
    BY <2>1 DEF Greatest
  <2>2. CASE ps # {}
    <3>1. PICK p \in ps : IsLast(p, ps)
      BY <2>2 DEF PaymentsOK, HasLast
    <3>2. ps \subseteq PaymentRow(k)
      BY DEF PaymentsOK
    <3>3. last = p.cycle
      BY <3>1, <3>2, LastCycle
    <3>4. \A q \in ps : q.cycle \in Nat /\ q.attempt \in Nat
      BY <3>2 DEF PaymentRow
    <3> HIDE DEF last
    <3> QED
      BY <3>1, <3>3, <3>4 DEF IsLast, NotAfter
  <2> QED
    BY <2>1, <2>2
<1>2. /\ Charge(k, c, ps, d, o).cycle = last + 1
      /\ Charge(k, c, ps, d, o).attempt = 1
  BY DEF Charge
<1> HIDE DEF last
<1> QED
  BY <1>1, <1>2

\* A retry is the next attempt of the cycle that is being retried.
LEMMA RetryCycle ==
  ASSUME NEW k, NEW c, NEW ps, PaymentsOK(k, ps), NEW d, NEW o,
         c.status = "PAYMENT_FAILED", NEW p \in ps, IsLast(p, ps)
  PROVE  /\ Charge(k, c, ps, d, o).cycle = p.cycle
         /\ Charge(k, c, ps, d, o).attempt = p.attempt + 1
<1>1. ps \subseteq PaymentRow(k)
  BY DEF PaymentsOK
<1>2. /\ Greatest({q.cycle : q \in ps}) = p.cycle
      /\ Greatest({q.attempt : q \in {r \in ps : r.cycle = p.cycle}}) = p.attempt
  BY <1>1, LastCycle
<1> QED
  BY <1>2 DEF Charge

\* What the charge of a contract is: the next payment, of the period that
\* follows the paid time; an earlier attempt of its cycle failed, Retry ago or
\* more, and the first one less than Grace ago.
LEMMA ChargeFacts ==
  ASSUME NEW k, k[2] \in Dates, NEW c, NEW ps, ContractOK(k, c, ps),
         NEW d \in Dates, Charged(c, ps, d), NEW o \in {"completed", "failed"},
         NEW p, p = Charge(k, c, ps, d, o)
  PROVE  /\ p \in PaymentRow(k)
         /\ p.contract = k /\ p.status = o /\ p.at = d
         /\ p.from = PaidEnd(k[2], ps) /\ p.to = PaidEnd(k[2], ps) + Period
         /\ \A q \in ps : Before(q, p)
         /\ \A q \in ps : q.cycle = p.cycle =>
              /\ q.status = "failed" /\ q.at + Retry <= d
              /\ q.attempt = 1 => d < q.at + Grace /\ c.to <= q.at + Grace
         /\ c.status # "PAYMENT_FAILED" => \A q \in ps : q.cycle # p.cycle
         /\ c.status = "PAYMENT_FAILED" => p.attempt # 1
<1>1. PaymentsOK(k, ps) /\ ps \subseteq PaymentRow(k)
  BY DEF ContractOK, PaymentsOK
<1>2. \A q \in ps : /\ q.cycle \in Nat \ {0} /\ q.attempt \in Nat \ {0}
                    /\ q.at \in Int
  BY <1>1 DEF PaymentRow, Dates
<1>3. /\ p.contract = k /\ p.status = o /\ p.at = d
      /\ p.from = OrElse(c.due, d) /\ p.to = OrElse(c.due, d) + Period
  BY DEF Charge
<1>4. /\ OrElse(c.due, d) = PaidEnd(k[2], ps) /\ PaidEnd(k[2], ps) \in Int
      /\ c.status \in {"ACTIVE", "PAYMENT_FAILED"}
      /\ c.status = "PAYMENT_FAILED" => c.next <= d /\ d < c.to
  BY ChargedIsDue DEF OrElse
<1>5. PaidEnd(k[2], ps) + Period \in Int
  BY <1>4, PeriodAssumption
<1>6. p = [contract |-> p.contract, cycle |-> p.cycle, attempt |-> p.attempt,
           status |-> p.status, at |-> p.at, from |-> p.from, to |-> p.to]
  BY DEF Charge
<1>7. p.cycle \in Nat \ {0} /\ p.attempt \in Nat \ {0} => p \in PaymentRow(k)
  BY <1>3, <1>4, <1>5, <1>6 DEF PaymentRow
<1>8. CASE c.status # "PAYMENT_FAILED"
  <2>1. /\ p.cycle \in Nat \ {0} /\ p.attempt = 1
        /\ \A q \in ps : q.cycle < p.cycle
    BY <1>1, <1>8, RegularCycle
  <2>2. \A q \in ps : q.cycle # p.cycle
    BY <1>2, <2>1
  <2> QED
    BY <1>3, <1>4, <1>7, <1>8, <2>1, <2>2 DEF Before
<1>9. CASE c.status = "PAYMENT_FAILED"
  <2>1. PICK l \in ps :
          /\ IsLast(l, ps)
          /\ \A q \in ps : q.cycle = l.cycle =>
               /\ q.status = "failed"
               /\ q.at + Retry <= c.next
               /\ q.attempt = 1 => c.to <= q.at + Grace
    BY <1>9 DEF ContractOK, Retrying
  <2>2. p.cycle = l.cycle /\ p.attempt = l.attempt + 1
    BY <1>1, <1>9, <2>1, RetryCycle
  <2>3. p.cycle \in Nat \ {0} /\ p.attempt \in Nat \ {0} /\ p.attempt # 1
    BY <1>2, <2>2
  <2>4. \A q \in ps : Before(q, p)
    BY <1>2, <2>1, <2>2 DEF IsLast, NotAfter, Before
  <2>5. c.next \in Int /\ c.to \in Int /\ d \in Int
    BY PeriodAssumption, GraceAssumption, RetryAssumption, MaxDateAssumption
    DEF ContractOK, ContractRow, ContractDates, Dates
  <2>6. \A q \in ps : q.cycle = p.cycle =>
          /\ q.status = "failed" /\ q.at + Retry <= d
          /\ q.attempt = 1 => d < q.at + Grace /\ c.to <= q.at + Grace
    BY <1>2, <1>4, <1>9, <2>1, <2>2, <2>5, GraceAssumption, RetryAssumption
  <2> QED
    BY <1>3, <1>4, <1>7, <1>9, <2>3, <2>4, <2>6
<1> QED
  BY <1>8, <1>9

\* The payments with a charge keep their order and their periods.
LEMMA ChargeKeepsPayments ==
  ASSUME NEW k, k[2] \in Dates, NEW c, NEW ps, ContractOK(k, c, ps),
         NEW d \in Dates, Charged(c, ps, d), NEW o \in {"completed", "failed"},
         NEW p, p = Charge(k, c, ps, d, o)
  PROVE  /\ PaymentsOK(k, ps \cup {p})
         /\ IsLast(p, ps \cup {p})
         /\ o = "failed" => Completed(ps \cup {p}) = Completed(ps)
         /\ o = "completed" =>
              /\ Completed(ps \cup {p}) = Completed(ps) \cup {p}
              /\ LatestCompleted(ps \cup {p}) = p
<1> DEFINE e == PaidEnd(k[2], ps)
           qs == ps \cup {p}
<1>1. /\ p \in PaymentRow(k)
      /\ p.contract = k /\ p.status = o /\ p.at = d
      /\ p.from = e /\ p.to = e + Period
      /\ \A q \in ps : Before(q, p)
      /\ \A q \in ps : q.cycle = p.cycle =>
           /\ q.status = "failed" /\ q.at + Retry <= d
           /\ q.attempt = 1 => d < q.at + Grace /\ c.to <= q.at + Grace
  BY ChargeFacts
<1>2. e \in Int /\ e <= d
  BY ChargedIsDue
<1>3. PaymentsOK(k, ps) /\ ps \subseteq PaymentRow(k)
  BY DEF ContractOK, PaymentsOK
<1>4. \A q \in Completed(ps) : q.to <= e
  BY DEF ContractOK
<1> HIDE DEF e
<1>5. \A q \in qs : /\ q.cycle \in Nat /\ q.attempt \in Nat /\ q.at \in Int
                    /\ q.from \in Int /\ q.to \in Int
  BY <1>1, <1>3 DEF PaymentRow, Dates
<1>6. /\ o = "failed" => Completed(qs) = Completed(ps)
      /\ o = "completed" => Completed(qs) = Completed(ps) \cup {p}
  BY <1>1 DEF Completed
<1>7. Completed(ps) \subseteq ps /\ \A q \in Completed(ps) : q.status = "completed"
  BY DEF Completed
<1>8. IsLast(p, qs)
  BY <1>1, <1>5 DEF IsLast, NotAfter, Before
<1>9. o = "completed" => IsLast(p, Completed(qs))
  BY <1>6, <1>7, <1>8 DEF IsLast
<1>10. HasLast(qs) /\ HasLast(Completed(qs))
  <2>1. HasLast(qs)
    BY <1>8 DEF HasLast, IsLast
  <2>2. o = "completed" => HasLast(Completed(qs))
    BY <1>9 DEF HasLast, IsLast
  <2>3. o = "failed" => HasLast(Completed(qs))
    BY <1>3, <1>6 DEF PaymentsOK
  <2> QED
    BY <2>1, <2>2, <2>3
<1>11. \A q \in qs : q.from <= q.at /\ q.to = q.from + Period
  BY <1>1, <1>2, <1>3 DEF PaymentsOK
<1>12. \A x \in Completed(qs) : \A q \in qs \ {x} :
         q.cycle = x.cycle => q.attempt < x.attempt
  <2> SUFFICES ASSUME NEW x \in Completed(qs), NEW q \in qs \ {x},
                      q.cycle = x.cycle
               PROVE  q.attempt < x.attempt
    OBVIOUS
  <2>1. CASE x = p
    <3>1. q \in ps
      BY <2>1
    <3> QED
      BY <1>1, <1>5, <2>1, <3>1 DEF Before
  <2>2. CASE x # p
    <3>1. x \in Completed(ps)
      BY <1>6, <2>2
    <3>2. q # p
      BY <1>1, <1>7, <3>1
    <3> QED
      BY <1>3, <3>1, <3>2 DEF PaymentsOK
  <2> QED
    BY <2>1, <2>2
<1>13. \A x, q \in qs :
         x.cycle = q.cycle /\ x.attempt < q.attempt =>
           /\ x.at + Retry <= q.at
           /\ x.attempt = 1 => q.at < x.at + Grace
  <2> SUFFICES ASSUME NEW x \in qs, NEW q \in qs, x.cycle = q.cycle,
                      x.attempt < q.attempt
               PROVE  /\ x.at + Retry <= q.at
                      /\ x.attempt = 1 => q.at < x.at + Grace
    OBVIOUS
  <2>1. CASE x = p
    <3>1. q # p
      BY <1>5, <2>1
    <3> QED
      BY <1>1, <1>5, <2>1, <3>1 DEF Before
  <2>2. CASE x # p /\ q = p
    <3>1. x \in ps
      BY <2>2
    <3> QED
      BY <1>1, <2>2, <3>1
  <2>3. CASE x # p /\ q # p
    <3>1. x \in ps /\ q \in ps
      BY <2>3
    <3> QED
      BY <1>3, <3>1 DEF PaymentsOK
  <2> QED
    BY <2>1, <2>2, <2>3
<1>14. \A x, q \in Completed(qs) : x = q \/ x.to <= q.from \/ q.to <= x.from
  <2>1. \A x, q \in Completed(ps) : x = q \/ x.to <= q.from \/ q.to <= x.from
    BY <1>3 DEF PaymentsOK
  <2>2. \A x \in Completed(ps) : x.to <= p.from
    BY <1>1, <1>4
  <2> QED
    BY <1>6, <2>1, <2>2
<1>15. qs \subseteq PaymentRow(k)
  BY <1>1, <1>3
<1>16. PaymentsOK(k, qs)
  BY <1>10, <1>11, <1>12, <1>13, <1>14, <1>15 DEF PaymentsOK
<1>17. o = "completed" => LatestCompleted(qs) = p
  <2> SUFFICES ASSUME o = "completed" PROVE LatestCompleted(qs) = p
    OBVIOUS
  <2>1. p \in Completed(qs)
    BY <1>6
  <2> HIDE DEF qs
  <2> QED
    BY <1>9, <1>12, <1>15, <2>1, LatestIs
<1> QED
  BY <1>6, <1>8, <1>16, <1>17

-----------------------------------------------------------------------------
(* The transitions of a contract.                                          *)

\* The dates a run at d writes are dates of a contract.
LEMMA RunDates ==
  ASSUME NEW d \in Dates
  PROVE  /\ d \in Int /\ 0 < d
         /\ ContractDates \subseteq Int /\ Dates \subseteq Int
         /\ {NoDate, d, d + Period, d + Grace, d + Retry} \subseteq ContractDates
         /\ \A e \in Int : 0 < e /\ e <= d => e \in ContractDates
                                           /\ e + Period \in ContractDates
<1>1. d \in Int /\ 1 <= d /\ d <= MaxDate /\ MaxDate \in Nat
  BY MaxDateAssumption DEF Dates
<1>2. ContractDates \subseteq Int /\ Dates \subseteq Int
  BY DEF ContractDates, Dates
<1>3. /\ Period \in Nat /\ Grace \in Nat /\ Retry \in Nat
  BY PeriodAssumption, GraceAssumption, RetryAssumption
<1>4. NoDate \in ContractDates /\ d \in ContractDates
  BY <1>1, <1>3 DEF NoDate, ContractDates
<1>5. /\ d + Period \in ContractDates /\ d + Grace \in ContractDates
      /\ d + Retry \in ContractDates
  BY <1>1, <1>3 DEF ContractDates
<1>6. \A e \in Int : 0 < e /\ e <= d => e \in ContractDates
                                     /\ e + Period \in ContractDates
  BY <1>1, <1>3 DEF ContractDates
<1> QED
  BY <1>1, <1>2, <1>4, <1>5, <1>6

\* The fields of a contract.
LEMMA RowFields ==
  ASSUME NEW k, NEW c, NEW ps, ContractOK(k, c, ps)
  PROVE  /\ c \in ContractRow
         /\ c.renew \in BOOLEAN
         /\ c.from \in Int /\ c.to \in Int /\ c.due \in Int /\ c.next \in Int
         /\ c.changed \in Int /\ c.updated \in Int
<1>1. c \in ContractRow
  BY DEF ContractOK
<1>2. ContractDates \subseteq Int /\ Dates \subseteq Int
  BY DEF ContractDates, Dates
<1> QED
  BY <1>1, <1>2 DEF ContractRow

\* A run that changes a row without a payment keeps what the payments say.
LEMMA SamePayments ==
  ASSUME NEW k, k[2] \in Dates, NEW c, NEW ps, ContractOK(k, c, ps),
         NEW d \in Dates, c.updated < d,
         NEW b \in ContractRow, b.updated = d,
         DatesOK(k[2], b, PaidEnd(k[2], ps)), b.status # "PAYMENT_FAILED"
  PROVE  ContractOK(k, b, ps)
<1> DEFINE e == PaidEnd(k[2], ps)
<1>1. e \in Int
  BY PaidEndType DEF ContractOK
<1>2. /\ PaymentsOK(k, ps) /\ 0 < e /\ e <= c.updated + Period
      /\ \A p \in ps : p.at <= c.updated
      /\ \A p \in Completed(ps) : p.to <= e
  BY DEF ContractOK
<1>3. c.updated \in Int /\ d \in Int /\ Period \in Int
  BY RowFields, RunDates, PeriodAssumption
<1>4. \A p \in ps : p.at \in Int
  BY <1>2 DEF PaymentsOK, PaymentRow, Dates
<1> HIDE DEF e
<1>5. \A p \in ps : p.at <= d
  BY <1>2, <1>3, <1>4
<1>6. e <= d + Period
  BY <1>1, <1>2, <1>3
<1> QED
  BY <1>2, <1>5, <1>6 DEF ContractOK, e

\* A contract may be closed once its period is over.
LEMMA ChurnedOK ==
  ASSUME NEW k, k[2] \in Dates, NEW c, NEW ps, ContractOK(k, c, ps),
         NEW d \in Dates, c.updated < d,
         c.status \in {"PAYMENT_FAILED", "CANCEL_REQUESTED"}, Reached(c.to, d)
  PROVE  ContractOK(k, Churned(c, d), ps)
<1> DEFINE e == PaidEnd(k[2], ps)
           b == Churned(c, d)
<1>1. e \in Int /\ k[2] \in Int
  BY PaidEndType DEF ContractOK, Dates
<1>2. DatesOK(k[2], c, e)
  BY DEF ContractOK
<1>3. c \in ContractRow /\ c.to \in Int /\ c.changed \in Int /\ c.updated \in Int
  BY RowFields
<1>4. d \in Int /\ NoDate \in ContractDates
  BY RunDates
<1> HIDE DEF e
<1>5. e <= c.to /\ k[2] <= c.changed /\ c.changed <= c.updated /\ c.from < c.to
  BY <1>2 DEF DatesOK
<1>6. b \in ContractRow
  BY <1>3, <1>4 DEF Churned, ContractRow
<1>7. /\ b.status = "CHURNED" /\ b.renew = FALSE /\ b.due = NoDate
      /\ b.next = NoDate /\ b.changed = d /\ b.updated = d
      /\ b.from = c.from /\ b.to = c.to
  BY <1>3 DEF Churned, ContractRow
<1>8. e <= d /\ k[2] <= d
  BY <1>1, <1>3, <1>4, <1>5 DEF Reached
<1> HIDE DEF b
<1>9. DatesOK(k[2], b, e)
  BY <1>4, <1>5, <1>7, <1>8 DEF DatesOK
<1> QED
  BY <1>6, <1>7, <1>9, SamePayments DEF b, e

\* A contract may be cancelled while it is charged.
LEMMA CancelRequestedOK ==
  ASSUME NEW k, k[2] \in Dates, NEW c, NEW ps, ContractOK(k, c, ps),
         NEW d \in Dates, c.updated < d,
         c.status \in {"ACTIVE", "PAYMENT_FAILED"}
  PROVE  ContractOK(k, CancelRequested(c, d), ps)
<1> DEFINE e == PaidEnd(k[2], ps)
           b == CancelRequested(c, d)
<1>1. e \in Int /\ k[2] \in Int
  BY PaidEndType DEF ContractOK, Dates
<1>2. DatesOK(k[2], c, e)
  BY DEF ContractOK
<1>3. c \in ContractRow /\ c.to \in Int /\ c.changed \in Int /\ c.updated \in Int
  BY RowFields
<1>4. d \in Int /\ NoDate \in ContractDates
  BY RunDates
<1> HIDE DEF e
<1>5. e <= c.to /\ k[2] <= c.changed /\ c.changed <= c.updated /\ c.from < c.to
  <2>1. c.status = "ACTIVE" => c.to = e
    BY <1>2 DEF DatesOK
  <2>2. c.status = "PAYMENT_FAILED" => e <= c.to
    BY <1>2 DEF DatesOK
  <2>3. k[2] <= c.changed /\ c.changed <= c.updated /\ c.from < c.to
    BY <1>2 DEF DatesOK
  <2> QED
    BY <1>1, <2>1, <2>2, <2>3
<1>6. b \in ContractRow
  BY <1>3, <1>4 DEF CancelRequested, ContractRow
<1>7. /\ b.status = "CANCEL_REQUESTED" /\ b.renew = FALSE
      /\ b.next = NoDate /\ b.changed = d /\ b.updated = d
      /\ b.from = c.from /\ b.to = c.to
  BY <1>3 DEF CancelRequested, ContractRow
<1>8. k[2] <= d
  BY <1>1, <1>3, <1>4, <1>5
<1> HIDE DEF b
<1>9. DatesOK(k[2], b, e)
  BY <1>4, <1>5, <1>7, <1>8 DEF DatesOK
<1> QED
  BY <1>6, <1>7, <1>9, SamePayments DEF b, e

\* A completed charge moves the end of the paid time by a period, a failed
\* one leaves it.
LEMMA PaidAfterCharge ==
  ASSUME NEW k, k[2] \in Dates, NEW c, NEW ps, ContractOK(k, c, ps),
         NEW d \in Dates, Charged(c, ps, d), NEW o \in {"completed", "failed"},
         NEW p, p = Charge(k, c, ps, d, o), NEW qs, qs = ps \cup {p}
  PROVE  /\ PaidEnd(k[2], qs) = IF o = "completed" THEN PaidEnd(k[2], ps) + Period
                                ELSE PaidEnd(k[2], ps)
         /\ \A q \in qs : q.at <= d
         /\ \A q \in Completed(qs) : q.to <= PaidEnd(k[2], qs)
         /\ 0 < PaidEnd(k[2], qs) /\ PaidEnd(k[2], qs) <= d + Period
<1> DEFINE e == PaidEnd(k[2], ps)
<1>1. /\ p.at = d /\ p.to = e + Period
  BY ChargeFacts
<1>2. e \in Int /\ e <= d /\ c.updated < d
  BY ChargedIsDue
<1>3. /\ 0 < e
      /\ \A q \in ps : q.at <= c.updated
      /\ \A q \in Completed(ps) : q.to <= e
  BY DEF ContractOK
<1>4. /\ o = "failed" => Completed(qs) = Completed(ps)
      /\ o = "completed" =>
           /\ Completed(qs) = Completed(ps) \cup {p}
           /\ LatestCompleted(qs) = p
  BY ChargeKeepsPayments
<1>5. /\ \A q \in ps : q.at \in Int
      /\ \A q \in Completed(ps) : q.to \in Int
  BY DEF ContractOK, PaymentsOK, PaymentRow, Completed, Dates
<1>6. c.updated \in Int /\ d \in Int /\ Period \in Nat
  BY RowFields, RunDates, PeriodAssumption
<1>7. o = "failed" => PaidEnd(k[2], qs) = e
  <2> SUFFICES ASSUME o = "failed" PROVE PaidEnd(k[2], qs) = e
    OBVIOUS
  <2>1. Completed(qs) = Completed(ps)
    BY <1>4
  <2>2. LatestCompleted(qs) = LatestCompleted(ps)
    BY <2>1 DEF LatestCompleted
  <2> QED
    BY <2>1, <2>2 DEF PaidEnd
<1>8. o = "completed" => PaidEnd(k[2], qs) = e + Period
  BY <1>1, <1>4 DEF PaidEnd
<1> HIDE DEF e
<1>9. \A q \in qs : q.at <= d
  BY <1>1, <1>2, <1>3, <1>5, <1>6
<1>10. \A q \in Completed(qs) : q.to <= PaidEnd(k[2], qs)
  <2>1. CASE o = "failed"
    BY <1>3, <1>4, <1>7, <2>1
  <2>2. CASE o = "completed"
    <3>1. \A q \in Completed(ps) : q.to <= e + Period
      BY <1>2, <1>3, <1>5, <1>6
    <3>2. p.to <= e + Period
      BY <1>1, <1>2, <1>6
    <3>3. PaidEnd(k[2], qs) = e + Period
      BY <1>8, <2>2
    <3>4. \A q \in Completed(qs) : q \in Completed(ps) \/ q = p
      BY <1>4, <2>2
    <3> QED
      BY <3>1, <3>2, <3>3, <3>4
  <2> QED
    BY <2>1, <2>2
<1>11. 0 < PaidEnd(k[2], qs) /\ PaidEnd(k[2], qs) <= d + Period
  <2>1. 0 < e + Period /\ e + Period <= d + Period /\ e <= d + Period
    BY <1>2, <1>3, <1>6
  <2> QED
    BY <1>3, <1>7, <1>8, <2>1
<1> QED
  BY <1>7, <1>8, <1>9, <1>10, <1>11 DEF e

\* A completed charge makes the contract ACTIVE for the period it pays.
LEMMA AdvancedOK ==
  ASSUME NEW k, k[2] \in Dates, NEW c, NEW ps, ContractOK(k, c, ps),
         NEW d \in Dates, Charged(c, ps, d),
         NEW p, p = Charge(k, c, ps, d, "completed")
  PROVE  ContractOK(k, Advanced(c, p, d), ps \cup {p})
<1> DEFINE e  == PaidEnd(k[2], ps)
           qs == ps \cup {p}
           b  == Advanced(c, p, d)
<1>1. PaymentsOK(k, qs)
  BY ChargeKeepsPayments
<1>2. /\ PaidEnd(k[2], qs) = e + Period
      /\ \A q \in qs : q.at <= d
      /\ \A q \in Completed(qs) : q.to <= PaidEnd(k[2], qs)
      /\ 0 < PaidEnd(k[2], qs) /\ PaidEnd(k[2], qs) <= d + Period
  BY PaidAfterCharge
<1>3. p.from = e /\ p.to = e + Period
  BY ChargeFacts
<1>4. e \in Int /\ e <= d /\ c.updated < d
  BY ChargedIsDue
<1>5. 0 < e /\ k[2] <= c.changed /\ c.changed <= c.updated
  BY DEF ContractOK, DatesOK
<1>6. c \in ContractRow /\ c.changed \in Dates /\ c.updated \in Int
  BY RowFields DEF ContractRow
<1>7. /\ d \in Int /\ k[2] \in Int /\ c.changed \in Int /\ Period \in Nat \ {0}
      /\ e \in ContractDates /\ e + Period \in ContractDates
  BY <1>4, <1>5, <1>6, RunDates, PeriodAssumption
<1> HIDE DEF e, qs
<1>8. b \in ContractRow
  BY <1>3, <1>6, <1>7 DEF Advanced, ContractRow
<1>9. /\ b.status = "ACTIVE" /\ b.renew = TRUE /\ b.from = e
      /\ b.to = e + Period /\ b.due = e + Period /\ b.next = e + Period
      /\ b.updated = d /\ b.changed = IF c.status = "ACTIVE" THEN c.changed ELSE d
  BY <1>3, <1>6 DEF Advanced, ContractRow
<1> HIDE DEF b
<1>10. /\ k[2] <= b.changed /\ b.changed <= b.updated
       /\ b.from < b.to /\ b.from = b.to - Period
  BY <1>4, <1>5, <1>6, <1>7, <1>9
<1>11. DatesOK(k[2], b, PaidEnd(k[2], qs))
  BY <1>2, <1>9, <1>10 DEF DatesOK
<1>12. ContractOK(k, b, qs)
  BY <1>1, <1>2, <1>8, <1>9, <1>11 DEF ContractOK
<1> QED
  BY <1>12 DEF b, qs

\* A contract whose charge fails is retried in that cycle.
LEMMA FailedOK ==
  ASSUME NEW k, k[2] \in Dates, NEW c, NEW ps, ContractOK(k, c, ps),
         NEW d \in Dates, Charged(c, ps, d),
         NEW p, p = Charge(k, c, ps, d, "failed"),
         NEW b, b = IF c.status = "PAYMENT_FAILED" THEN RetryFailed(c, d)
                    ELSE PaymentFailed(c, d)
  PROVE  ContractOK(k, b, ps \cup {p})
<1> DEFINE e  == PaidEnd(k[2], ps)
           qs == ps \cup {p}
<1>1. PaymentsOK(k, qs) /\ IsLast(p, qs)
  BY ChargeKeepsPayments
<1>2. /\ PaidEnd(k[2], qs) = e
      /\ \A q \in qs : q.at <= d
      /\ \A q \in Completed(qs) : q.to <= PaidEnd(k[2], qs)
      /\ 0 < PaidEnd(k[2], qs) /\ PaidEnd(k[2], qs) <= d + Period
  BY PaidAfterCharge
<1>3. /\ p.status = "failed" /\ p.at = d
      /\ \A q \in ps : q.cycle = p.cycle =>
           /\ q.status = "failed" /\ q.at + Retry <= d
           /\ q.attempt = 1 => d < q.at + Grace /\ c.to <= q.at + Grace
      /\ c.status # "PAYMENT_FAILED" => \A q \in ps : q.cycle # p.cycle
      /\ c.status = "PAYMENT_FAILED" => p.attempt # 1
  BY ChargeFacts
<1>4. /\ e \in Int /\ e <= d /\ c.updated < d
      /\ c.due = e /\ c.due # NoDate
      /\ c.status \in {"ACTIVE", "PAYMENT_FAILED"}
  BY ChargedIsDue
<1>5. /\ 0 < e /\ k[2] <= c.changed /\ c.changed <= c.updated /\ c.from < c.to
      /\ c.status = "ACTIVE" => c.from = e - Period
      /\ c.status = "PAYMENT_FAILED" => e <= c.to
  BY <1>4 DEF ContractOK, DatesOK
<1>6. /\ c \in ContractRow /\ c.changed \in Int /\ c.updated \in Int
      /\ c.to \in Int
  BY RowFields
<1>7. /\ d \in Int /\ 0 < d /\ k[2] \in Int
      /\ Period \in Nat \ {0} /\ Grace \in Nat \ {0} /\ Retry \in Nat \ {0}
      /\ d + Grace \in ContractDates /\ d + Retry \in ContractDates
  BY RunDates, PeriodAssumption, GraceAssumption, RetryAssumption
<1>8. \A q \in ps : q.at \in Int
  BY DEF ContractOK, PaymentsOK, PaymentRow, Dates
<1> HIDE DEF e, qs
<1>9. /\ b \in ContractRow
      /\ b.status = "PAYMENT_FAILED" /\ b.due = c.due /\ b.from = c.from
      /\ b.next = d + Retry /\ b.updated = d
      /\ c.status = "PAYMENT_FAILED" => b.to = c.to /\ b.changed = c.changed
      /\ c.status # "PAYMENT_FAILED" => b.to = d + Grace /\ b.changed = d
  <2>1. CASE c.status = "PAYMENT_FAILED"
    <3>1. b = [c EXCEPT !.next = d + Retry, !.updated = d]
      BY <2>1 DEF RetryFailed
    <3> QED
      BY <1>6, <1>7, <2>1, <3>1 DEF ContractRow
  <2>2. CASE c.status # "PAYMENT_FAILED"
    <3>1. b = [c EXCEPT !.status = "PAYMENT_FAILED", !.to = d + Grace,
                        !.due = c.due, !.next = d + Retry,
                        !.changed = d, !.updated = d]
      BY <1>4, <2>2 DEF PaymentFailed, OrElse
    <3>2. c.due \in ContractDates
      BY <1>6 DEF ContractRow
    <3> QED
      BY <1>6, <1>7, <2>2, <3>1, <3>2 DEF ContractRow
  <2> QED
    BY <2>1, <2>2
<1>10. DatesOK(k[2], b, e)
  <2>1. CASE c.status = "PAYMENT_FAILED"
    <3>1. /\ k[2] <= b.changed /\ b.changed <= b.updated /\ b.from < b.to
          /\ e <= b.updated /\ e <= b.to /\ 0 <= b.next
      BY <1>4, <1>5, <1>6, <1>7, <1>9, <2>1
    <3> QED
      BY <1>4, <1>9, <3>1 DEF DatesOK
  <2>2. CASE c.status # "PAYMENT_FAILED"
    <3>1. /\ k[2] <= b.changed /\ b.changed <= b.updated /\ b.from < b.to
          /\ e <= b.updated /\ e <= b.to /\ 0 <= b.next
      BY <1>4, <1>5, <1>6, <1>7, <1>9, <2>2
    <3> QED
      BY <1>4, <1>9, <3>1 DEF DatesOK
  <2> QED
    BY <2>1, <2>2
<1>11. Retrying(b, qs)
  <2>1. p \in qs /\ qs = ps \cup {p}
    BY DEF qs
  <2>2. ASSUME NEW q \in qs, q.cycle = p.cycle
        PROVE  /\ q.status = "failed"
               /\ q.at + Retry <= b.next
               /\ q.attempt = 1 => b.to <= q.at + Grace
    <3>1. CASE q = p
      BY <1>3, <1>4, <1>7, <1>9, <3>1
    <3>2. CASE q # p
      <4>1. q \in ps
        BY <2>1, <3>2
      <4>2. c.status = "PAYMENT_FAILED"
        BY <1>3, <2>2, <4>1
      <4> QED
        BY <1>3, <1>7, <1>8, <1>9, <2>2, <4>1, <4>2
    <3> QED
      BY <3>1, <3>2
  <2> QED
    BY <1>1, <2>1, <2>2 DEF Retrying
<1>12. ContractOK(k, b, qs)
  BY <1>1, <1>2, <1>9, <1>10, <1>11 DEF ContractOK
<1> QED
  BY <1>12 DEF qs

-----------------------------------------------------------------------------
(* The scan.                                                               *)

\* Nothing is left to do at date d.
Settled(c, d) ==
  /\ c.status \in {"CANCEL_REQUESTED", "PAYMENT_FAILED"} => d < c.to
  /\ c.status = "PAYMENT_FAILED" => d < c.next
  /\ c.status = "ACTIVE" => d < c.next \/ c.updated >= d

\* The payments of a contract after the scan.
PaymentsAfter(k, c, ps, d, o) ==
  IF Charged(c, ps, d) THEN ps \cup {Charge(k, c, ps, d, o)} ELSE ps

\* The scan closes a contract, charges it, or leaves it as it is.
LEMMA ScannedCases ==
  ASSUME NEW k, k[2] \in Dates, NEW c, NEW ps, ContractOK(k, c, ps),
         NEW d \in Dates, c.updated < d, NEW o
  PROVE  /\ Expired(c, d) => /\ Scanned(k, c, ps, d, o) = Churned(c, d)
                             /\ ~Charged(c, ps, d)
         /\ Charged(c, ps, d) =>
              Scanned(k, c, ps, d, o) =
                IF o = "completed"
                THEN Advanced(c, Charge(k, c, ps, d, o), d)
                ELSE IF c.status = "PAYMENT_FAILED" THEN RetryFailed(c, d)
                     ELSE PaymentFailed(c, d)
         /\ ~Expired(c, d) /\ ~Charged(c, ps, d) =>
              /\ Scanned(k, c, ps, d, o) = c
              /\ ~DueForBilling(c, d) /\ ~DueForRetry(c, d)
<1>1. ~(c.updated >= d)
  BY RowFields, RunDates
<1>2. Charged(c, ps, d) => ~Expired(c, d)
  BY DEF Charged
<1>3. ~(DueForBilling(c, d) /\ PaidBeyond(ps, d))
  BY NeverPaidBeyond
<1>4. ~Expired(c, d) /\ ~Charged(c, ps, d) =>
        ~DueForBilling(c, d) /\ ~DueForRetry(c, d)
  BY <1>3 DEF Charged
<1> QED
  BY <1>1, <1>2, <1>3, <1>4 DEF Scanned

\* The scan keeps a contract in order and leaves nothing behind that is due.
LEMMA ScannedOK ==
  ASSUME NEW k, k[2] \in Dates, NEW c, NEW ps, ContractOK(k, c, ps),
         NEW d \in Dates, c.updated < d,
         NEW o, Charged(c, ps, d) => o \in {"completed", "failed"},
         NEW b, b = Scanned(k, c, ps, d, o)
  PROVE  /\ ContractOK(k, b, PaymentsAfter(k, c, ps, d, o))
         /\ Settled(b, d)
         /\ b = c \/ b.updated = d
         /\ b = c => ~Charged(c, ps, d)
         /\ c.status = "CHURNED" => b = c
         /\ b.status # c.status => b.status \in SUBSCRIPTION_TARGETS[c.status]
<1> DEFINE qs == PaymentsAfter(k, c, ps, d, o)
<1>1. /\ c \in ContractRow
      /\ c.to \in Int /\ c.next \in Int /\ c.due \in Int /\ c.updated \in Int
  BY RowFields
<1>2. d \in Int /\ 0 < d
  BY RunDates
<1>3. /\ PaidEnd(k[2], ps) \in Int /\ 0 < PaidEnd(k[2], ps)
      /\ DatesOK(k[2], c, PaidEnd(k[2], ps))
  BY PaidEndType DEF ContractOK
<1>4. Period \in Nat \ {0} /\ Grace \in Nat \ {0} /\ Retry \in Nat \ {0}
  BY PeriodAssumption, GraceAssumption, RetryAssumption
<1>5. CASE Expired(c, d)
  <2>1. b = Churned(c, d) /\ qs = ps
    BY <1>5, ScannedCases DEF PaymentsAfter
  <2>2. c.status \in {"PAYMENT_FAILED", "CANCEL_REQUESTED"} /\ Reached(c.to, d)
    BY <1>5 DEF Expired
  <2>3. ContractOK(k, b, qs)
    BY <2>1, <2>2, ChurnedOK
  <2>4. b.status = "CHURNED" /\ b.updated = d
    BY <1>1, <2>1 DEF Churned, ContractRow
  <2>5. ~Charged(c, ps, d)
    BY <1>5 DEF Charged
  <2> QED
    BY <2>2, <2>3, <2>4, <2>5 DEF Settled, SUBSCRIPTION_TARGETS
<1>6. CASE Charged(c, ps, d)
  <2> DEFINE p == Charge(k, c, ps, d, o)
  <2>1. /\ c.status \in {"ACTIVE", "PAYMENT_FAILED"}
        /\ c.status = "PAYMENT_FAILED" => d < c.to
    BY <1>6, ChargedIsDue
  <2>2. CASE o = "completed"
    <3>1. b = Advanced(c, p, d) /\ qs = ps \cup {p}
      BY <1>6, <2>2, ScannedCases DEF PaymentsAfter
    <3>2. ContractOK(k, b, qs)
      BY <1>6, <2>2, <3>1, AdvancedOK
    <3> HIDE DEF p
    <3>3. b.status = "ACTIVE" /\ b.updated = d
      BY <1>1, <3>1 DEF Advanced, ContractRow
    <3>4. d >= d /\ b # c
      BY <1>1, <1>2, <3>3
    <3> QED
      BY <2>1, <3>2, <3>3, <3>4 DEF Settled, SUBSCRIPTION_TARGETS
  <2>3. CASE o = "failed"
    <3>1. /\ b = IF c.status = "PAYMENT_FAILED" THEN RetryFailed(c, d)
                 ELSE PaymentFailed(c, d)
          /\ qs = ps \cup {p}
      BY <1>6, <2>3, ScannedCases DEF PaymentsAfter
    <3>2. ContractOK(k, b, qs)
      BY <1>6, <2>3, <3>1, FailedOK
    <3>3. CASE c.status = "PAYMENT_FAILED"
      <4>1. b = [c EXCEPT !.next = d + Retry, !.updated = d]
        BY <3>1, <3>3 DEF RetryFailed
      <4>2. /\ b.status = "PAYMENT_FAILED" /\ b.updated = d /\ b.to = c.to
            /\ b.next = d + Retry
        BY <1>1, <3>3, <4>1 DEF ContractRow
      <4>3. d < b.to /\ d < b.next /\ b # c
        BY <1>1, <1>2, <1>4, <2>1, <3>3, <4>2
      <4> QED
        BY <3>2, <3>3, <4>2, <4>3 DEF Settled
    <3>4. CASE c.status # "PAYMENT_FAILED"
      <4>1. b = PaymentFailed(c, d)
        BY <3>1, <3>4
      <4>2. /\ b.status = "PAYMENT_FAILED" /\ b.updated = d /\ b.to = d + Grace
            /\ b.next = d + Retry
        BY <1>1, <4>1 DEF PaymentFailed, ContractRow
      <4>3. d < b.to /\ d < b.next /\ b # c
        BY <1>1, <1>2, <1>4, <4>2
      <4> QED
        BY <2>1, <3>2, <3>4, <4>2, <4>3 DEF Settled, SUBSCRIPTION_TARGETS
    <3> QED
      BY <3>3, <3>4
  <2> QED
    BY <1>6, <2>2, <2>3
<1>7. CASE ~Expired(c, d) /\ ~Charged(c, ps, d)
  <2>1. /\ b = c /\ qs = ps
        /\ ~DueForBilling(c, d) /\ ~DueForRetry(c, d)
    BY <1>7, ScannedCases DEF PaymentsAfter
  <2>2. c.status \in {"CANCEL_REQUESTED", "PAYMENT_FAILED"} => d < c.to
    <3>1. c.status \in {"CANCEL_REQUESTED", "PAYMENT_FAILED"} => 0 < c.to
      <4>1. c.status = "CANCEL_REQUESTED" => PaidEnd(k[2], ps) <= c.to
        BY <1>3 DEF DatesOK
      <4>2. c.status = "PAYMENT_FAILED" => PaidEnd(k[2], ps) <= c.to
        BY <1>3 DEF DatesOK
      <4> QED
        BY <1>1, <1>3, <4>1, <4>2
    <3> QED
      BY <1>1, <1>2, <1>7, <3>1 DEF Expired, Reached, NoDate
  <2>3. c.status = "PAYMENT_FAILED" => d < c.next
    <3>1. c.status = "PAYMENT_FAILED" => 0 <= c.next
      BY <1>3 DEF DatesOK
    <3> QED
      BY <1>1, <1>2, <2>1, <3>1 DEF DueForRetry, Reached, NoDate
  <2>4. c.status = "ACTIVE" => d < c.next
    <3>1. c.status = "ACTIVE" => 0 < c.next /\ c.renew
      BY <1>3 DEF DatesOK
    <3> QED
      BY <1>1, <1>2, <2>1, <3>1 DEF DueForBilling, Reached, NoDate
  <2> QED
    BY <1>7, <2>1, <2>2, <2>3, <2>4 DEF Settled
<1> QED
  BY <1>5, <1>6, <1>7

\* A contract in order can be read back.
LEMMA ReadBack ==
  ASSUME NEW k, k[2] \in Dates, NEW c, NEW ps, ContractOK(k, c, ps)
  PROVE  ValidContract(c, k[2])
<1>1. /\ DatesOK(k[2], c, PaidEnd(k[2], ps))
      /\ PaidEnd(k[2], ps) \in Int /\ 0 < PaidEnd(k[2], ps)
  BY PaidEndType DEF ContractOK
<1>2. /\ k[2] <= c.changed /\ c.changed <= c.updated /\ c.from < c.to
  BY <1>1 DEF DatesOK
<1>3. c.status = "ACTIVE" => c.due # NoDate /\ c.next # NoDate
  BY <1>1 DEF DatesOK, NoDate
<1>4. c.status = "CANCEL_REQUESTED" => ~c.renew /\ c.next = NoDate
  BY <1>1 DEF DatesOK
<1>5. c.status = "CHURNED" => ~c.renew /\ c.due = NoDate /\ c.next = NoDate
  BY <1>1 DEF DatesOK
<1> QED
  BY <1>2, <1>3, <1>4, <1>5 DEF ValidContract

-----------------------------------------------------------------------------
(* The contracts of a run.                                                 *)

\* A contract after a run at date d.
RunOK(k, c, ps, d) == ContractOK(k, c, ps) /\ Settled(c, d) /\ c.updated <= d

\* Contracts are named by persons and dates.
ContractKeys == DOMAIN contracts \subseteq (DOMAIN tiers) \X Dates

\* The outcomes of a run are the ones of the contracts it charges.
LEMMA OutcomesOf ==
  ASSUME NEW d, NEW profile, NEW outcome \in Outcomes(d, profile)
  PROVE  /\ DOMAIN outcome = ToCharge(d)
         /\ \A k \in ToCharge(d) : outcome[k] \in {"completed", "failed"}
  BY DEF Outcomes

\* The payments of a contract after a run.
LEMMA PaymentsOfAfter ==
  ASSUME NEW d, NEW profile, NEW outcome \in Outcomes(d, profile),
         payments' = payments \cup ChargesOf(d, outcome),
         NEW k \in DOMAIN contracts
  PROVE  PaymentsOf(k)' =
           PaymentsAfter(k, contracts[k], PaymentsOf(k), d,
                         IF k \in DOMAIN outcome THEN outcome[k] ELSE "none")
<1>1. DOMAIN outcome = ToCharge(d)
  BY OutcomesOf
<1>2. \A l : Charge(l, contracts[l], PaymentsOf(l), d, outcome[l]).contract = l
  BY DEF Charge
<1>3. k \in ToCharge(d) <=> Charged(contracts[k], PaymentsOf(k), d)
  BY DEF ToCharge
<1> DEFINE p == Charge(k, contracts[k], PaymentsOf(k), d, outcome[k])
           C(l) == Charge(l, contracts[l], PaymentsOf(l), d, outcome[l])
<1>4. ChargesOf(d, outcome) = {C(l) : l \in ToCharge(d)}
  BY <1>1 DEF ChargesOf
<1>5. \A l : C(l).contract = l
  BY <1>2
<1>6. p = C(k)
  OBVIOUS
<1> HIDE DEF C, p
<1>7. PaymentsOf(k)' = {q \in payments \cup ChargesOf(d, outcome) : q.contract = k}
  BY DEF PaymentsOf
<1>8. {q \in ChargesOf(d, outcome) : q.contract = k}
        = IF k \in ToCharge(d) THEN {p} ELSE {}
  BY <1>4, <1>5, <1>6
<1>9. PaymentsOf(k)' = PaymentsOf(k) \cup {q \in ChargesOf(d, outcome) : q.contract = k}
  BY <1>7 DEF PaymentsOf
<1>10. CASE k \in ToCharge(d)
  BY <1>1, <1>3, <1>8, <1>9, <1>10 DEF PaymentsAfter, p
<1>11. CASE k \notin ToCharge(d)
  BY <1>3, <1>8, <1>9, <1>11 DEF PaymentsAfter
<1> QED
  BY <1>10, <1>11

\* The contracts after the scan.
LEMMA ContractsAfterScan ==
  ASSUME ContractsOK, ContractKeys, NEW d \in Dates, CursorForward(d),
         NEW profile, NEW outcome \in Outcomes(d, profile),
         payments' = payments \cup ChargesOf(d, outcome),
         NEW cs, cs = ContractsAfter(d, outcome)
  PROVE  /\ DOMAIN cs = DOMAIN contracts
         /\ cs = [k \in DOMAIN contracts |-> cs[k]]
         /\ \A k \in DOMAIN contracts :
              /\ k[2] \in Dates /\ contracts[k].updated < d
              /\ RunOK(k, cs[k], PaymentsOf(k)', d)
              /\ contracts[k].status = "CHURNED" => cs[k] = contracts[k]
<1>1. DOMAIN cs = DOMAIN contracts /\ cs = [k \in DOMAIN contracts |-> cs[k]]
  BY DEF ContractsAfter
<1>2. ASSUME NEW k \in DOMAIN contracts
      PROVE  /\ k[2] \in Dates /\ contracts[k].updated < d
             /\ RunOK(k, cs[k], PaymentsOf(k)', d)
             /\ contracts[k].status = "CHURNED" => cs[k] = contracts[k]
  <2> DEFINE o == IF k \in DOMAIN outcome THEN outcome[k] ELSE "none"
             c == contracts[k]
             b == cs[k]
  <2>1. k[2] \in Dates
    BY DEF ContractKeys
  <2>2. c.updated < d
    BY DEF CursorForward, Cursors
  <2>3. ContractOK(k, c, PaymentsOf(k))
    BY DEF ContractsOK
  <2>4. b = Scanned(k, c, PaymentsOf(k), d, o)
    BY DEF ContractsAfter
  <2>5. Charged(c, PaymentsOf(k), d) => o \in {"completed", "failed"}
    BY OutcomesOf DEF ToCharge
  <2>6. PaymentsOf(k)' = PaymentsAfter(k, c, PaymentsOf(k), d, o)
    BY PaymentsOfAfter
  <2>7. d \in Int /\ c.updated \in Int
    BY <2>3, RowFields, RunDates
  <2> HIDE DEF o, c, b
  <2>8. /\ ContractOK(k, b, PaymentsAfter(k, c, PaymentsOf(k), d, o))
        /\ Settled(b, d)
        /\ b = c \/ b.updated = d
        /\ c.status = "CHURNED" => b = c
    BY <2>1, <2>2, <2>3, <2>4, <2>5, ScannedOK
  <2>9. b.updated <= d
    BY <2>2, <2>7, <2>8
  <2> QED
    BY <2>1, <2>2, <2>6, <2>8, <2>9 DEF RunOK, b, c
<1> QED
  BY <1>1, <1>2

\* A cancellation after the scan leaves the contract in order.
LEMMA CancelAfterScan ==
  ASSUME NEW k, k[2] \in Dates, NEW c, NEW ps, NEW d \in Dates,
         RunOK(k, c, ps, d), c.updated < d,
         c.status \in {"ACTIVE", "PAYMENT_FAILED"}
  PROVE  RunOK(k, CancelRequested(c, d), ps, d)
<1> DEFINE b == CancelRequested(c, d)
<1>1. ContractOK(k, c, ps) /\ Settled(c, d)
  BY DEF RunOK
<1>2. ContractOK(k, b, ps)
  BY <1>1, CancelRequestedOK
<1>3. /\ c \in ContractRow /\ c.to \in Int /\ c.next \in Int /\ c.updated \in Int
      /\ d \in Int
  BY <1>1, RowFields, RunDates
<1>4. b.status = "CANCEL_REQUESTED" /\ b.updated = d /\ b.to = c.to
  BY <1>3 DEF CancelRequested, ContractRow
<1>5. c.status = "ACTIVE" => c.to = c.next
  BY <1>1 DEF ContractOK, DatesOK
<1>6. d < c.to
  BY <1>1, <1>3, <1>5 DEF Settled
<1> HIDE DEF b
<1>7. Settled(b, d) /\ b.updated <= d
  BY <1>3, <1>4, <1>6 DEF Settled
<1> QED
  BY <1>2, <1>7 DEF RunOK, b

\* A new contract has paid for nothing yet.
LEMMA NewContractOK ==
  ASSUME NEW k, NEW d \in Dates, k[2] = d
  PROVE  RunOK(k, NewContract(d), {}, d)
<1> DEFINE c == NewContract(d)
<1>1. /\ d \in Int /\ 0 < d /\ d \in ContractDates /\ d + Period \in ContractDates
      /\ Period \in Nat \ {0}
  BY RunDates, PeriodAssumption
<1>2. Completed({}) = {}
  BY DEF Completed
<1>3. PaidEnd(k[2], {}) = d + Period
  BY <1>2 DEF PaidEnd
<1>4. PaymentsOK(k, {})
  BY <1>2 DEF PaymentsOK, HasLast
<1>5. c \in ContractRow
  BY <1>1 DEF NewContract, ContractRow
<1>6. /\ c.status = "ACTIVE" /\ c.renew = TRUE /\ c.from = d /\ c.to = d + Period
      /\ c.due = d + Period /\ c.next = d + Period /\ c.changed = d
      /\ c.updated = d
  BY DEF NewContract
<1> HIDE DEF c
<1>7. /\ d <= d /\ d >= d /\ d < d + Period /\ d = (d + Period) - Period
      /\ 0 < d + Period /\ d + Period <= d + Period
  BY <1>1
<1>8. DatesOK(k[2], c, d + Period)
  <2>1. /\ k[2] <= c.changed /\ c.changed <= c.updated /\ c.from < c.to
        /\ c.from = (d + Period) - Period
    BY <1>6, <1>7
  <2> QED
    BY <1>6, <2>1 DEF DatesOK
<1>9. ContractOK(k, c, {})
  BY <1>2, <1>3, <1>4, <1>5, <1>6, <1>7, <1>8 DEF ContractOK
<1>10. Settled(c, d)
  BY <1>6, <1>7 DEF Settled
<1> QED
  BY <1>6, <1>7, <1>9, <1>10 DEF RunOK, c

\* A run charges contracts there were before it.
LEMMA PaymentsOwned ==
  ASSUME ContractsOK, NEW d, NEW profile, NEW outcome \in Outcomes(d, profile),
         payments' = payments \cup ChargesOf(d, outcome)
  PROVE  \A p \in payments' : p.contract \in DOMAIN contracts
<1>1. DOMAIN outcome \subseteq DOMAIN contracts
  BY OutcomesOf DEF ToCharge
<1> DEFINE C(l) == Charge(l, contracts[l], PaymentsOf(l), d, outcome[l])
<1>2. ChargesOf(d, outcome) = {C(l) : l \in DOMAIN outcome}
  BY DEF ChargesOf
<1>3. \A l : C(l).contract = l
  BY DEF Charge
<1> HIDE DEF C
<1>4. \A p \in ChargesOf(d, outcome) : p.contract \in DOMAIN contracts
  BY <1>1, <1>2, <1>3
<1> QED
  BY <1>4 DEF ContractsOK

\* Every contract is older than the run.
LEMMA ContractsOlder ==
  ASSUME ContractsOK, ContractKeys, NEW d \in Dates, CursorForward(d),
         NEW k \in DOMAIN contracts
  PROVE  k[2] \in Int /\ k[2] < d
<1>1. k[2] \in Dates /\ k[2] \in Int
  BY DEF ContractKeys, Dates
<1>2. ContractOK(k, contracts[k], PaymentsOf(k))
  BY DEF ContractsOK
<1>3. /\ contracts[k].changed \in Int /\ contracts[k].updated \in Int /\ d \in Int
  BY <1>2, RowFields, RunDates
<1>4. k[2] <= contracts[k].changed /\ contracts[k].changed <= contracts[k].updated
  BY <1>2 DEF ContractOK, DatesOK
<1>5. contracts[k].updated < d
  BY DEF CursorForward, Cursors
<1> QED
  BY <1>1, <1>3, <1>4, <1>5

\* The contracts of a run: those of before in order, closed ones unchanged,
\* and a new one only for a person whose others are closed.
LEMMA RunContracts ==
  ASSUME ContractsOK, ContractKeys, NEW d \in Dates, CursorForward(d),
         NEW profile, NEW outcome \in Outcomes(d, profile),
         payments' = payments \cup ChargesOf(d, outcome),
         NEW ts, ApplyProfile(profile, d, ContractsAfter(d, outcome), ts)
  PROVE  /\ DOMAIN contracts \subseteq DOMAIN contracts'
         /\ \A k \in DOMAIN contracts' : RunOK(k, contracts'[k], PaymentsOf(k)', d)
         /\ \A k \in DOMAIN contracts :
              contracts[k].status = "CHURNED" => contracts'[k] = contracts[k]
         /\ \A n \in DOMAIN contracts' \ DOMAIN contracts :
              /\ n \in (DOMAIN ts) \X {d}
              /\ \A k \in DOMAIN contracts :
                   k[1] = n[1] => contracts'[k].status = "CHURNED"
<1> DEFINE cs == ContractsAfter(d, outcome)
<1>1. /\ DOMAIN cs = DOMAIN contracts
      /\ cs = [k \in DOMAIN contracts |-> cs[k]]
      /\ \A k \in DOMAIN contracts :
           /\ k[2] \in Dates
           /\ RunOK(k, cs[k], PaymentsOf(k)', d)
           /\ contracts[k].status = "CHURNED" => cs[k] = contracts[k]
  BY ContractsAfterScan
<1> HIDE DEF cs
<1>2. CASE contracts' = cs
  BY <1>1, <1>2
<1>3. CASE StartContract(d, cs, DOMAIN ts)
  <2>1. PICK i \in DOMAIN ts :
          /\ Startable(i, cs)
          /\ contracts' = [k \in DOMAIN cs \cup {<<i, d>>} |->
                             IF k \in DOMAIN cs THEN cs[k] ELSE NewContract(d)]
    BY <1>3 DEF StartContract
  <2>2. <<i, d>> \notin DOMAIN contracts
    <3>1. d \in Int /\ <<i, d>>[2] = d
      BY RunDates
    <3> QED
      BY <3>1, ContractsOlder
  <2>3. PaymentsOf(<<i, d>>)' = {}
    BY <2>2, PaymentsOwned DEF PaymentsOf
  <2>4. RunOK(<<i, d>>, NewContract(d), {}, d)
    BY NewContractOK
  <2>5. /\ DOMAIN contracts' = DOMAIN contracts \cup {<<i, d>>}
        /\ \A k \in DOMAIN contracts : contracts'[k] = cs[k]
        /\ contracts'[<<i, d>>] = NewContract(d)
    BY <1>1, <2>1, <2>2
  <2>6. \A k \in DOMAIN contracts : k[1] = i => contracts'[k].status = "CHURNED"
    BY <1>1, <2>1, <2>5 DEF Startable
  <2>7. \A k \in DOMAIN contracts' : RunOK(k, contracts'[k], PaymentsOf(k)', d)
    <3> SUFFICES ASSUME NEW k \in DOMAIN contracts'
                 PROVE  RunOK(k, contracts'[k], PaymentsOf(k)', d)
      OBVIOUS
    <3>1. CASE k \in DOMAIN contracts
      BY <1>1, <2>5, <3>1
    <3>2. CASE k = <<i, d>>
      BY <2>3, <2>4, <2>5, <3>2
    <3> QED
      BY <2>5, <3>1, <3>2
  <2>8. <<i, d>>[1] = i
    OBVIOUS
  <2>9. \A n \in DOMAIN contracts' \ DOMAIN contracts : n = <<i, d>>
    BY <2>5
  <2> QED
    BY <1>1, <2>5, <2>6, <2>7, <2>8, <2>9
<1>4. CASE profile \in TransitionProfiles /\ ApplyTransition(profile, d, cs)
  <2>1. PICK l \in TransitionCandidates(profile, d, cs) :
          contracts' = [cs EXCEPT ![l] = IF profile = "subscription-churned"
                                         THEN Churned(@, d)
                                         ELSE CancelRequested(@, d)]
    BY <1>4 DEF ApplyTransition
  <2>2. /\ l \in DOMAIN contracts /\ cs[l].updated < d
        /\ IF profile = "subscription-churned"
           THEN /\ cs[l].status \in {"PAYMENT_FAILED", "CANCEL_REQUESTED"}
                /\ Reached(cs[l].to, d)
           ELSE cs[l].status \in {"ACTIVE", "PAYMENT_FAILED"}
    BY <1>1, <2>1 DEF TransitionCandidates
  <2>3. RunOK(l, cs[l], PaymentsOf(l)', d) /\ l[2] \in Dates
    BY <1>1, <2>2
  <2>4. profile # "subscription-churned"
    <3>1. cs[l].to \in Int /\ d \in Int
      BY <2>3, RowFields, RunDates DEF RunOK
    <3> QED
      BY <2>2, <2>3, <3>1 DEF RunOK, Settled, Reached
  <2>5. RunOK(l, CancelRequested(cs[l], d), PaymentsOf(l)', d)
    BY <2>2, <2>3, <2>4, CancelAfterScan
  <2>6. /\ DOMAIN contracts' = DOMAIN contracts
        /\ \A k \in DOMAIN contracts : k # l => contracts'[k] = cs[k]
        /\ contracts'[l] = CancelRequested(cs[l], d)
    BY <1>1, <2>1, <2>2, <2>4
  <2>7. contracts[l].status # "CHURNED"
    BY <1>1, <2>2
  <2> QED
    BY <1>1, <2>5, <2>6, <2>7
<1> QED
  BY <1>2, <1>3, <1>4 DEF ApplyProfile, cs

\* A person has one open contract at a time, the last one.
LEMMA RunSuccessors ==
  ASSUME ContractsOK, ContractKeys, SuccessorsOK, NEW d \in Dates,
         CursorForward(d), NEW profile, NEW outcome \in Outcomes(d, profile),
         payments' = payments \cup ChargesOf(d, outcome),
         NEW ts, ApplyProfile(profile, d, ContractsAfter(d, outcome), ts)
  PROVE  SuccessorsOK'
<1>1. /\ DOMAIN contracts \subseteq DOMAIN contracts'
      /\ \A k \in DOMAIN contracts' : RunOK(k, contracts'[k], PaymentsOf(k)', d)
      /\ \A k \in DOMAIN contracts :
           contracts[k].status = "CHURNED" => contracts'[k] = contracts[k]
      /\ \A n \in DOMAIN contracts' \ DOMAIN contracts :
           /\ n \in (DOMAIN ts) \X {d}
           /\ \A k \in DOMAIN contracts :
                k[1] = n[1] => contracts'[k].status = "CHURNED"
  BY RunContracts
<1>2. SUFFICES ASSUME NEW k \in DOMAIN contracts', NEW l \in DOMAIN contracts',
                      k[1] = l[1], k[2] < l[2]
               PROVE  contracts'[k].status = "CHURNED" /\ contracts'[k].updated <= l[2]
  BY DEF SuccessorsOK
<1>3. d \in Int /\ ~(d < d)
  BY RunDates
<1>4. \A n \in DOMAIN contracts' \ DOMAIN contracts : n[2] = d
  BY <1>1
<1>5. k \in DOMAIN contracts
  <2>1. SUFFICES ASSUME k \notin DOMAIN contracts PROVE FALSE
    OBVIOUS
  <2>2. k[2] = d
    BY <1>4, <2>1
  <2>3. CASE l \in DOMAIN contracts
    <3>1. l[2] \in Int /\ l[2] < d
      BY <2>3, ContractsOlder
    <3> QED
      BY <1>2, <1>3, <2>2, <3>1
  <2>4. CASE l \notin DOMAIN contracts
    BY <1>2, <1>3, <1>4, <2>2, <2>4
  <2> QED
    BY <2>3, <2>4
<1>6. CASE l \in DOMAIN contracts
  <2>1. contracts[k].status = "CHURNED" /\ contracts[k].updated <= l[2]
    BY <1>2, <1>5, <1>6 DEF SuccessorsOK
  <2> QED
    BY <1>1, <1>5, <2>1
<1>7. CASE l \notin DOMAIN contracts
  <2>1. contracts'[k].status = "CHURNED"
    BY <1>1, <1>2, <1>5, <1>7
  <2>2. contracts'[k].updated <= d
    BY <1>1 DEF RunOK
  <2> QED
    BY <1>4, <1>7, <2>1, <2>2
<1> QED
  BY <1>6, <1>7

-----------------------------------------------------------------------------
(* An order and its payment.                                               *)

OrderPaymentRow ==
  [status : {"pending", "completed", "failed", "refunded"}, initiated : Dates,
   updated : Dates, completed : Int, failed : Int, refunded : Int]

OrderRow ==
  [status : {"created", "approved", "shipped", "delivered", "canceled"},
   purchase : Int, created : Dates, updated : Dates, approved : Int,
   shipped : Int, delivered : Int, payment : OrderPaymentRow]

\* The times of an order with payment p, for each of its statuses.
OrderTimes(r, p) ==
  CASE r.status = "created" ->
         /\ p.status = "pending"
         /\ {r.approved, r.shipped, r.delivered, p.failed, p.refunded} = {NoDate}
    [] r.status = "approved" ->
         /\ p.status = "completed" /\ r.created <= r.approved
         /\ {r.shipped, r.delivered, p.failed, p.refunded} = {NoDate}
    [] r.status = "shipped" ->
         /\ p.status = "completed" /\ r.created <= r.approved
         /\ r.approved <= r.shipped
         /\ {r.delivered, p.failed, p.refunded} = {NoDate}
    [] r.status = "delivered" ->
         /\ p.status = "completed" /\ r.created <= r.approved
         /\ r.approved <= r.shipped /\ r.shipped <= r.delivered
         /\ {p.failed, p.refunded} = {NoDate}
    [] r.status = "canceled" ->
         /\ {r.shipped, r.delivered} = {NoDate}
         /\ \/ /\ p.status = "failed" /\ r.created <= p.failed
               /\ {r.approved, p.refunded} = {NoDate}
            \/ /\ p.status = "refunded" /\ r.created <= r.approved
               /\ r.approved <= p.refunded /\ p.failed = NoDate

OrderOK(r) ==
  /\ r \in OrderRow
  /\ r.purchase <= r.created /\ r.created <= r.payment.updated
  /\ r.payment.updated <= r.updated
  /\ r.payment.initiated = r.created /\ r.payment.completed = r.approved
  /\ r.approved <= r.payment.updated
  /\ r.payment.failed <= r.payment.updated
  /\ r.payment.refunded <= r.payment.updated
  /\ r.shipped <= r.updated /\ r.delivered <= r.updated
  /\ OrderTimes(r, r.payment)

OrdersOK ==
  /\ DOMAIN orders \subseteq OrderIds
  /\ \A o \in DOMAIN orders : OrderOK(orders[o])

\* The one step that an order may be due for.
LEMMA PlanCases ==
  ASSUME NEW r, OrderOK(r), NEW d \in Dates, NEW delay \in Delays,
         NEW cancel \in BOOLEAN,
         NEW plan, plan = ProgressPlan(r, d, delay, cancel), plan # NoPlan
  PROVE  \E t \in Int :
    /\ t <= d
    /\ \/ /\ r.status = "created" /\ r.created <= t
          /\ plan = [status |-> "canceled", at |-> NoDate,
                     payment |-> "failed", paidAt |-> t]
       \/ /\ r.status = "created" /\ r.created <= t
          /\ plan = [status |-> "approved", at |-> t,
                     payment |-> "completed", paidAt |-> t]
       \/ /\ r.status = "approved" /\ r.approved <= t
          /\ plan = [status |-> "canceled", at |-> NoDate,
                     payment |-> "refunded", paidAt |-> t]
       \/ /\ r.status = "approved" /\ r.approved <= t
          /\ plan = [status |-> "shipped", at |-> t,
                     payment |-> "none", paidAt |-> NoDate]
       \/ /\ r.status = "shipped" /\ r.shipped <= t
          /\ plan = [status |-> "delivered", at |-> t,
                     payment |-> "none", paidAt |-> NoDate]
<1>1. /\ r.created \in Int /\ r.approved \in Int /\ r.shipped \in Int
      /\ 0 < r.created
  BY DEF OrderOK, OrderRow, Dates
<1>2. /\ r.status \in {"approved", "shipped"} => r.approved # NoDate
      /\ r.status = "shipped" => r.shipped # NoDate
  <2>1. r.status = "approved" => r.created <= r.approved
    BY DEF OrderOK, OrderTimes
  <2>2. r.status = "shipped" => r.created <= r.approved /\ r.approved <= r.shipped
    BY DEF OrderOK, OrderTimes
  <2> QED
    BY <1>1, <2>1, <2>2 DEF NoDate
<1>3. delay \in Nat
  BY DelaysAssumption
<1> DEFINE a == r.created + delay
           s == OrElse(r.approved, a) + delay
           v == OrElse(r.shipped, s) + delay
<1>4. /\ a \in Int /\ s \in Int /\ v \in Int
      /\ r.created <= a
      /\ r.status = "approved" => r.approved <= s
      /\ r.status = "shipped" => r.shipped <= v
  BY <1>1, <1>2, <1>3 DEF OrElse, NoDate
<1>5. plan =
        CASE r.status = "created" /\ a <= d /\ cancel ->
               [status |-> "canceled", at |-> NoDate, payment |-> "failed", paidAt |-> a]
          [] r.status = "created" /\ a <= d /\ ~cancel ->
               [status |-> "approved", at |-> a, payment |-> "completed", paidAt |-> a]
          [] r.status = "approved" /\ s <= d /\ cancel ->
               [status |-> "canceled", at |-> NoDate, payment |-> "refunded", paidAt |-> s]
          [] r.status = "approved" /\ s <= d /\ ~cancel ->
               [status |-> "shipped", at |-> s, payment |-> "none", paidAt |-> NoDate]
          [] r.status = "shipped" /\ v <= d ->
               [status |-> "delivered", at |-> v, payment |-> "none", paidAt |-> NoDate]
          [] OTHER -> NoPlan
  BY Zenon DEF ProgressPlan
<1> HIDE DEF a, s, v
<1>6. CASE r.status = "created" /\ a <= d /\ cancel
  <2>1. plan = [status |-> "canceled", at |-> NoDate, payment |-> "failed", paidAt |-> a]
    BY <1>5, <1>6
  <2> QED
    BY <1>4, <1>6, <2>1
<1>7. CASE r.status = "created" /\ a <= d /\ ~cancel
  <2>1. plan = [status |-> "approved", at |-> a, payment |-> "completed", paidAt |-> a]
    BY <1>5, <1>7
  <2> QED
    BY <1>4, <1>7, <2>1
<1>8. CASE r.status = "approved" /\ s <= d /\ cancel
  <2>1. plan = [status |-> "canceled", at |-> NoDate, payment |-> "refunded", paidAt |-> s]
    BY <1>5, <1>8
  <2> QED
    BY <1>4, <1>8, <2>1
<1>9. CASE r.status = "approved" /\ s <= d /\ ~cancel
  <2>1. plan = [status |-> "shipped", at |-> s, payment |-> "none", paidAt |-> NoDate]
    BY <1>5, <1>9
  <2> QED
    BY <1>4, <1>9, <2>1
<1>10. CASE r.status = "shipped" /\ v <= d
  <2>1. plan = [status |-> "delivered", at |-> v, payment |-> "none", paidAt |-> NoDate]
    BY <1>5, <1>10
  <2> QED
    BY <1>4, <1>10, <2>1
<1>11. CASE /\ ~(r.status = "created" /\ a <= d)
            /\ ~(r.status = "approved" /\ s <= d)
            /\ ~(r.status = "shipped" /\ v <= d)
  BY <1>5, <1>11
<1> QED
  BY <1>6, <1>7, <1>8, <1>9, <1>10, <1>11

\* The step is always acceptable, so that it never aborts the run.
LEMMA PlanAcceptable ==
  ASSUME NEW r, OrderOK(r), NEW d \in Dates, r.updated < d,
         NEW delay \in Delays, NEW cancel \in BOOLEAN,
         NEW plan, plan = ProgressPlan(r, d, delay, cancel), plan # NoPlan
  PROVE  Acceptable(r, plan, d)
<1>1. PICK t \in Int :
    /\ t <= d
    /\ \/ /\ r.status = "created" /\ r.created <= t
          /\ plan = [status |-> "canceled", at |-> NoDate,
                     payment |-> "failed", paidAt |-> t]
       \/ /\ r.status = "created" /\ r.created <= t
          /\ plan = [status |-> "approved", at |-> t,
                     payment |-> "completed", paidAt |-> t]
       \/ /\ r.status = "approved" /\ r.approved <= t
          /\ plan = [status |-> "canceled", at |-> NoDate,
                     payment |-> "refunded", paidAt |-> t]
       \/ /\ r.status = "approved" /\ r.approved <= t
          /\ plan = [status |-> "shipped", at |-> t,
                     payment |-> "none", paidAt |-> NoDate]
       \/ /\ r.status = "shipped" /\ r.shipped <= t
          /\ plan = [status |-> "delivered", at |-> t,
                     payment |-> "none", paidAt |-> NoDate]
  BY PlanCases
<1>2. r.payment.updated < d
  <2>1. /\ r.payment.updated \in Int /\ r.updated \in Int /\ d \in Int
    BY DEF OrderOK, OrderRow, OrderPaymentRow, Dates
  <2> QED
    BY <2>1 DEF OrderOK
<1>3. /\ r.status = "created" => r.payment.status = "pending"
      /\ r.status = "approved" => r.payment.status = "completed"
  BY DEF OrderOK, OrderTimes
<1>4. /\ ORDER_TRANSITIONS["created"] = {"approved", "canceled"}
      /\ ORDER_TRANSITIONS["approved"] = {"shipped", "canceled"}
      /\ ORDER_TRANSITIONS["shipped"] = {"delivered"}
      /\ PAYMENT_TRANSITIONS["pending"] = {"completed", "failed"}
      /\ PAYMENT_TRANSITIONS["completed"] = {"refunded"}
  BY DEF ORDER_TRANSITIONS, PAYMENT_TRANSITIONS
<1> QED
  BY <1>1, <1>2, <1>3, <1>4 DEF Acceptable

\* What a step writes to the order.
LEMMA OrderFields ==
  ASSUME NEW r \in OrderRow, NEW plan, NEW d, NEW b, b = OrderAfter(r, plan, d)
  PROVE  /\ b = [status |-> b.status, purchase |-> b.purchase,
                 created |-> b.created, updated |-> b.updated,
                 approved |-> b.approved, shipped |-> b.shipped,
                 delivered |-> b.delivered, payment |-> b.payment]
         /\ b.status = plan.status /\ b.updated = d
         /\ b.purchase = r.purchase /\ b.created = r.created
         /\ b.approved = (IF plan.status = "approved" THEN OrElse(plan.at, d)
                          ELSE r.approved)
         /\ b.shipped = (IF plan.status = "shipped" THEN OrElse(plan.at, d)
                         ELSE r.shipped)
         /\ b.delivered = (IF plan.status = "delivered" THEN OrElse(plan.at, d)
                           ELSE r.delivered)
         /\ b.payment = PaymentAfter(r.payment, plan, d)
  BY DEF OrderAfter, OrderRow

\* What a step writes to the payment.
LEMMA OrderPaymentFields ==
  ASSUME NEW p \in OrderPaymentRow, NEW plan,
         plan.payment \in {"completed", "failed", "refunded"}, NEW d,
         NEW x, x = PaymentAfter(p, plan, d)
  PROVE  /\ x = [status |-> x.status, initiated |-> x.initiated,
                 updated |-> x.updated, completed |-> x.completed,
                 failed |-> x.failed, refunded |-> x.refunded]
         /\ x.status = plan.payment /\ x.updated = d /\ x.initiated = p.initiated
         /\ x.completed = (IF plan.payment = "completed"
                           THEN OrElse(plan.paidAt, d) ELSE p.completed)
         /\ x.failed = (IF plan.payment = "failed"
                        THEN OrElse(plan.paidAt, d) ELSE p.failed)
         /\ x.refunded = (IF plan.payment = "refunded"
                          THEN OrElse(plan.paidAt, d) ELSE p.refunded)
<1> DEFINE t == OrElse(plan.paidAt, d)
<1>1. CASE plan.payment = "completed"
  <2>1. x = [p EXCEPT !.status = "completed", !.updated = d, !.completed = t]
    BY <1>1 DEF PaymentAfter
  <2> HIDE DEF t
  <2> QED
    BY <1>1, <2>1 DEF OrderPaymentRow, t
<1>2. CASE plan.payment = "failed"
  <2>1. x = [p EXCEPT !.status = "failed", !.updated = d, !.failed = t]
    BY <1>2 DEF PaymentAfter
  <2> HIDE DEF t
  <2> QED
    BY <1>2, <2>1 DEF OrderPaymentRow, t
<1>3. CASE plan.payment = "refunded"
  <2>1. x = [p EXCEPT !.status = "refunded", !.updated = d, !.refunded = t]
    BY <1>3 DEF PaymentAfter
  <2> HIDE DEF t
  <2> QED
    BY <1>3, <2>1 DEF OrderPaymentRow, t
<1> QED
  BY <1>1, <1>2, <1>3

\* A new order is in order, late arrival or not.
LEMMA NewOrderOK ==
  ASSUME NEW d \in Dates, NEW profile, NEW purchase \in PurchaseDates(profile, d)
  PROVE  OrderOK(NewOrder(d, purchase)) /\ NewOrder(d, purchase).updated = d
<1> DEFINE r == NewOrder(d, purchase)
<1>1. d \in Int /\ 0 < d
  BY RunDates
<1>2. purchase \in Int /\ purchase <= d
  BY <1>1, LatenessAssumption DEF PurchaseDates
<1>3. r \in OrderRow
  BY <1>1, <1>2 DEF NewOrder, OrderRow, OrderPaymentRow, NoDate
<1>4. /\ r.status = "created" /\ r.purchase = purchase /\ r.created = d
      /\ r.updated = d /\ r.approved = NoDate /\ r.shipped = NoDate
      /\ r.delivered = NoDate /\ r.payment.status = "pending"
      /\ r.payment.initiated = d /\ r.payment.updated = d
      /\ r.payment.completed = NoDate /\ r.payment.failed = NoDate
      /\ r.payment.refunded = NoDate
  BY DEF NewOrder
<1> HIDE DEF r
<1>5. OrderTimes(r, r.payment)
  BY <1>4 DEF OrderTimes
<1>6. d <= d /\ NoDate <= d
  BY <1>1 DEF NoDate
<1>7. OrderOK(r)
  BY <1>2, <1>3, <1>4, <1>5, <1>6 DEF OrderOK
<1> QED
  BY <1>4, <1>7 DEF r

\* A step of an order keeps it in order.
LEMMA OrderAfterOK ==
  ASSUME NEW r, OrderOK(r), NEW d \in Dates, r.updated < d,
         NEW delay \in Delays, NEW cancel \in BOOLEAN,
         NEW plan, plan = ProgressPlan(r, d, delay, cancel), plan # NoPlan,
         NEW b, b = OrderAfter(r, plan, d)
  PROVE  OrderOK(b) /\ b.updated = d
<1>1. PICK t \in Int :
    /\ t <= d
    /\ \/ /\ r.status = "created" /\ r.created <= t
          /\ plan = [status |-> "canceled", at |-> NoDate,
                     payment |-> "failed", paidAt |-> t]
       \/ /\ r.status = "created" /\ r.created <= t
          /\ plan = [status |-> "approved", at |-> t,
                     payment |-> "completed", paidAt |-> t]
       \/ /\ r.status = "approved" /\ r.approved <= t
          /\ plan = [status |-> "canceled", at |-> NoDate,
                     payment |-> "refunded", paidAt |-> t]
       \/ /\ r.status = "approved" /\ r.approved <= t
          /\ plan = [status |-> "shipped", at |-> t,
                     payment |-> "none", paidAt |-> NoDate]
       \/ /\ r.status = "shipped" /\ r.shipped <= t
          /\ plan = [status |-> "delivered", at |-> t,
                     payment |-> "none", paidAt |-> NoDate]
  BY PlanCases
<1> DEFINE p == r.payment
           x == b.payment
<1>2. /\ r \in OrderRow /\ p \in OrderPaymentRow
      /\ r.purchase \in Int /\ r.created \in Int /\ r.updated \in Int
      /\ r.approved \in Int /\ r.shipped \in Int /\ r.delivered \in Int
      /\ p.updated \in Int /\ p.completed \in Int /\ p.failed \in Int
      /\ p.refunded \in Int
      /\ 0 < r.created
  BY DEF OrderOK, OrderRow, OrderPaymentRow, Dates
<1>3. d \in Int
  BY RunDates
<1>4. /\ r.purchase <= r.created /\ r.created <= p.updated
      /\ p.updated <= r.updated
      /\ p.initiated = r.created /\ p.completed = r.approved
      /\ r.approved <= p.updated
      /\ p.failed <= p.updated
      /\ p.refunded <= p.updated
      /\ r.shipped <= r.updated /\ r.delivered <= r.updated
      /\ OrderTimes(r, p)
  BY DEF OrderOK
<1>5. /\ r.created < d /\ p.updated < d /\ r.approved < d /\ r.shipped < d
      /\ r.delivered < d /\ p.failed < d /\ p.refunded < d
  BY <1>2, <1>3, <1>4
<1>6. /\ r.status = "approved" => r.created <= r.approved
      /\ r.status = "shipped" => r.created <= r.approved /\ r.approved <= r.shipped
  BY <1>4 DEF OrderTimes
<1>7. 0 < t
  BY <1>1, <1>2, <1>6
<1>8. OrElse(t, d) = t
  BY <1>7 DEF OrElse, NoDate
<1>9. /\ b = [status |-> b.status, purchase |-> b.purchase,
              created |-> b.created, updated |-> b.updated,
              approved |-> b.approved, shipped |-> b.shipped,
              delivered |-> b.delivered, payment |-> b.payment]
      /\ b.status = plan.status /\ b.updated = d
      /\ b.purchase = r.purchase /\ b.created = r.created
      /\ b.approved = (IF plan.status = "approved" THEN OrElse(plan.at, d)
                       ELSE r.approved)
      /\ b.shipped = (IF plan.status = "shipped" THEN OrElse(plan.at, d)
                      ELSE r.shipped)
      /\ b.delivered = (IF plan.status = "delivered" THEN OrElse(plan.at, d)
                        ELSE r.delivered)
      /\ x = PaymentAfter(p, plan, d)
  BY <1>2, OrderFields
<1>10. /\ plan.payment = "none" => x = p
       /\ plan.payment \in {"completed", "failed", "refunded"} =>
            /\ x = [status |-> x.status, initiated |-> x.initiated,
                    updated |-> x.updated, completed |-> x.completed,
                    failed |-> x.failed, refunded |-> x.refunded]
            /\ x.status = plan.payment /\ x.updated = d
            /\ x.initiated = p.initiated
            /\ x.completed = (IF plan.payment = "completed"
                              THEN OrElse(plan.paidAt, d) ELSE p.completed)
            /\ x.failed = (IF plan.payment = "failed"
                           THEN OrElse(plan.paidAt, d) ELSE p.failed)
            /\ x.refunded = (IF plan.payment = "refunded"
                             THEN OrElse(plan.paidAt, d) ELSE p.refunded)
  <2>1. plan.payment = "none" => x = p
    BY <1>9 DEF PaymentAfter
  <2> HIDE DEF p, x
  <2> QED
    BY <1>2, <1>9, <2>1, OrderPaymentFields
<1> HIDE DEF p, x
<1>11. CASE /\ r.status = "created" /\ r.created <= t
            /\ plan = [status |-> "canceled", at |-> NoDate,
                       payment |-> "failed", paidAt |-> t]
  <2>1. /\ plan.status = "canceled" /\ plan.at = NoDate
        /\ plan.payment = "failed" /\ plan.paidAt = t
    BY <1>11
  <2>2. /\ b.status = "canceled"
        /\ b.approved = r.approved /\ b.shipped = r.shipped
        /\ b.delivered = r.delivered
    BY <1>8, <1>9, <2>1
  <2>3. /\ x.status = "failed" /\ x.initiated = p.initiated
        /\ x.updated = d /\ x.completed = p.completed
        /\ x.failed = t /\ x.refunded = p.refunded
    BY <1>8, <1>10, <2>1
  <2>4. x \in OrderPaymentRow
    BY <1>2, <1>10, <2>1, <2>3 DEF OrderPaymentRow
  <2>5. b \in OrderRow
    BY <1>2, <1>9, <2>2, <2>4 DEF OrderRow, x
  <2>6. OrderTimes(b, x)
    BY <1>2, <1>4, <1>9, <1>11, <2>2, <2>3 DEF OrderTimes
  <2>7. /\ b.created <= x.updated /\ x.updated <= b.updated
        /\ b.approved <= x.updated /\ x.failed <= x.updated
        /\ x.refunded <= x.updated /\ b.shipped <= b.updated
        /\ b.delivered <= b.updated
    BY <1>1, <1>2, <1>3, <1>4, <1>5, <1>9, <2>2, <2>3
  <2>8. x.initiated = b.created /\ x.completed = b.approved
    BY <1>4, <1>9, <2>2, <2>3
  <2> QED
    BY <1>4, <1>9, <2>5, <2>6, <2>7, <2>8 DEF OrderOK, x
<1>12. CASE /\ r.status = "created" /\ r.created <= t
            /\ plan = [status |-> "approved", at |-> t,
                       payment |-> "completed", paidAt |-> t]
  <2>1. /\ plan.status = "approved" /\ plan.at = t
        /\ plan.payment = "completed" /\ plan.paidAt = t
    BY <1>12
  <2>2. /\ b.status = "approved"
        /\ b.approved = t /\ b.shipped = r.shipped
        /\ b.delivered = r.delivered
    BY <1>8, <1>9, <2>1
  <2>3. /\ x.status = "completed" /\ x.initiated = p.initiated
        /\ x.updated = d /\ x.completed = t
        /\ x.failed = p.failed /\ x.refunded = p.refunded
    BY <1>8, <1>10, <2>1
  <2>4. x \in OrderPaymentRow
    BY <1>2, <1>10, <2>1, <2>3 DEF OrderPaymentRow
  <2>5. b \in OrderRow
    BY <1>2, <1>9, <2>2, <2>4 DEF OrderRow, x
  <2>6. OrderTimes(b, x)
    BY <1>2, <1>4, <1>9, <1>12, <2>2, <2>3 DEF OrderTimes
  <2>7. /\ b.created <= x.updated /\ x.updated <= b.updated
        /\ b.approved <= x.updated /\ x.failed <= x.updated
        /\ x.refunded <= x.updated /\ b.shipped <= b.updated
        /\ b.delivered <= b.updated
    BY <1>1, <1>2, <1>3, <1>4, <1>5, <1>9, <2>2, <2>3
  <2>8. x.initiated = b.created /\ x.completed = b.approved
    BY <1>4, <1>9, <2>2, <2>3
  <2> QED
    BY <1>4, <1>9, <2>5, <2>6, <2>7, <2>8 DEF OrderOK, x
<1>13. CASE /\ r.status = "approved" /\ r.approved <= t
            /\ plan = [status |-> "canceled", at |-> NoDate,
                       payment |-> "refunded", paidAt |-> t]
  <2>1. /\ plan.status = "canceled" /\ plan.at = NoDate
        /\ plan.payment = "refunded" /\ plan.paidAt = t
    BY <1>13
  <2>2. /\ b.status = "canceled"
        /\ b.approved = r.approved /\ b.shipped = r.shipped
        /\ b.delivered = r.delivered
    BY <1>8, <1>9, <2>1
  <2>3. /\ x.status = "refunded" /\ x.initiated = p.initiated
        /\ x.updated = d /\ x.completed = p.completed
        /\ x.failed = p.failed /\ x.refunded = t
    BY <1>8, <1>10, <2>1
  <2>4. x \in OrderPaymentRow
    BY <1>2, <1>10, <2>1, <2>3 DEF OrderPaymentRow
  <2>5. b \in OrderRow
    BY <1>2, <1>9, <2>2, <2>4 DEF OrderRow, x
  <2>6. OrderTimes(b, x)
    BY <1>2, <1>4, <1>9, <1>13, <2>2, <2>3 DEF OrderTimes
  <2>7. /\ b.created <= x.updated /\ x.updated <= b.updated
        /\ b.approved <= x.updated /\ x.failed <= x.updated
        /\ x.refunded <= x.updated /\ b.shipped <= b.updated
        /\ b.delivered <= b.updated
    BY <1>1, <1>2, <1>3, <1>4, <1>5, <1>9, <2>2, <2>3
  <2>8. x.initiated = b.created /\ x.completed = b.approved
    BY <1>4, <1>9, <2>2, <2>3
  <2> QED
    BY <1>4, <1>9, <2>5, <2>6, <2>7, <2>8 DEF OrderOK, x
<1>14. CASE /\ r.status = "approved" /\ r.approved <= t
            /\ plan = [status |-> "shipped", at |-> t,
                       payment |-> "none", paidAt |-> NoDate]
  <2>1. /\ plan.status = "shipped" /\ plan.at = t
        /\ plan.payment = "none" /\ plan.paidAt = NoDate
    BY <1>14
  <2>2. /\ b.status = "shipped"
        /\ b.approved = r.approved /\ b.shipped = t
        /\ b.delivered = r.delivered
    BY <1>8, <1>9, <2>1
  <2>3. /\ x.status = p.status /\ x.initiated = p.initiated
        /\ x.updated = p.updated /\ x.completed = p.completed
        /\ x.failed = p.failed /\ x.refunded = p.refunded
    BY <1>8, <1>10, <2>1
  <2>4. x \in OrderPaymentRow
    BY <1>2, <1>10, <2>1, <2>3 DEF OrderPaymentRow
  <2>5. b \in OrderRow
    BY <1>2, <1>9, <2>2, <2>4 DEF OrderRow, x
  <2>6. OrderTimes(b, x)
    BY <1>2, <1>4, <1>9, <1>14, <2>2, <2>3 DEF OrderTimes
  <2>7. /\ b.created <= x.updated /\ x.updated <= b.updated
        /\ b.approved <= x.updated /\ x.failed <= x.updated
        /\ x.refunded <= x.updated /\ b.shipped <= b.updated
        /\ b.delivered <= b.updated
    BY <1>1, <1>2, <1>3, <1>4, <1>5, <1>9, <2>2, <2>3
  <2>8. x.initiated = b.created /\ x.completed = b.approved
    BY <1>4, <1>9, <2>2, <2>3
  <2> QED
    BY <1>4, <1>9, <2>5, <2>6, <2>7, <2>8 DEF OrderOK, x
<1>15. CASE /\ r.status = "shipped" /\ r.shipped <= t
            /\ plan = [status |-> "delivered", at |-> t,
                       payment |-> "none", paidAt |-> NoDate]
  <2>1. /\ plan.status = "delivered" /\ plan.at = t
        /\ plan.payment = "none" /\ plan.paidAt = NoDate
    BY <1>15
  <2>2. /\ b.status = "delivered"
        /\ b.approved = r.approved /\ b.shipped = r.shipped
        /\ b.delivered = t
    BY <1>8, <1>9, <2>1
  <2>3. /\ x.status = p.status /\ x.initiated = p.initiated
        /\ x.updated = p.updated /\ x.completed = p.completed
        /\ x.failed = p.failed /\ x.refunded = p.refunded
    BY <1>8, <1>10, <2>1
  <2>4. x \in OrderPaymentRow
    BY <1>2, <1>10, <2>1, <2>3 DEF OrderPaymentRow
  <2>5. b \in OrderRow
    BY <1>2, <1>9, <2>2, <2>4 DEF OrderRow, x
  <2>6. OrderTimes(b, x)
    BY <1>2, <1>4, <1>9, <1>15, <2>2, <2>3 DEF OrderTimes
  <2>7. /\ b.created <= x.updated /\ x.updated <= b.updated
        /\ b.approved <= x.updated /\ x.failed <= x.updated
        /\ x.refunded <= x.updated /\ b.shipped <= b.updated
        /\ b.delivered <= b.updated
    BY <1>1, <1>2, <1>3, <1>4, <1>5, <1>9, <2>2, <2>3
  <2>8. x.initiated = b.created /\ x.completed = b.approved
    BY <1>4, <1>9, <2>2, <2>3
  <2> QED
    BY <1>4, <1>9, <2>5, <2>6, <2>7, <2>8 DEF OrderOK, x
<1> QED
  BY <1>1, <1>11, <1>12, <1>13, <1>14, <1>15

-----------------------------------------------------------------------------
(* A whole run.                                                            *)

\* Every person has a tier.
TiersOK ==
  /\ DOMAIN tiers = Seeded \cup DOMAIN orders
  /\ \A i \in DOMAIN tiers : tiers[i].tier \in 1 .. Len(Tiers)
                          /\ tiers[i].updated \in Int

\* The orders of a run.
LEMMA RunOrders ==
  ASSUME OrdersOK, NEW d \in Dates, CursorForward(d), NEW profile,
         NEW progress \in [DOMAIN orders -> Delays \X BOOLEAN],
         NEW new \in SUBSET (OrderIds \ DOMAIN orders),
         NEW purchase \in [new -> PurchaseDates(profile, d)],
         orders' = OrdersAfter(d, progress, purchase)
  PROVE  /\ DOMAIN orders' = DOMAIN orders \cup new
         /\ \A o \in DOMAIN orders' : OrderOK(orders'[o]) /\ orders'[o].updated <= d
<1>1. d \in Int /\ d <= d
  BY RunDates
<1>2. DOMAIN purchase = new
  OBVIOUS
<1>3. DOMAIN orders' = DOMAIN orders \cup new
  BY <1>2 DEF OrdersAfter
<1>4. ASSUME NEW o \in new
      PROVE  OrderOK(orders'[o]) /\ orders'[o].updated <= d
  <2>1. orders'[o] = NewOrder(d, purchase[o])
    BY <1>2 DEF OrdersAfter
  <2>2. purchase[o] \in PurchaseDates(profile, d)
    OBVIOUS
  <2> QED
    BY <1>1, <2>1, <2>2, NewOrderOK
<1>5. ASSUME NEW o \in DOMAIN orders
      PROVE  OrderOK(orders'[o]) /\ orders'[o].updated <= d
  <2> DEFINE delay  == progress[o][1]
             cancel == progress[o][2]
             plan   == ProgressPlan(orders[o], d, delay, cancel)
  <2>1. delay \in Delays /\ cancel \in BOOLEAN
    OBVIOUS
  <2>2. OrderOK(orders[o]) /\ orders[o].updated < d
    BY DEF OrdersOK, CursorForward, Cursors
  <2>3. orders[o].updated \in Int
    BY <2>2 DEF OrderOK, OrderRow, Dates
  <2>4. orders'[o] = IF plan = NoPlan THEN orders[o]
                     ELSE OrderAfter(orders[o], plan, d)
    BY <1>2 DEF OrdersAfter, PlanOf
  <2>5. CASE plan = NoPlan
    BY <1>1, <2>2, <2>3, <2>4, <2>5
  <2>6. CASE plan # NoPlan
    <3>1. orders'[o] = OrderAfter(orders[o], plan, d)
      BY <2>4, <2>6
    <3> HIDE DEF delay, cancel
    <3>2. OrderOK(orders'[o]) /\ orders'[o].updated = d
      BY <2>1, <2>2, <2>6, <3>1, OrderAfterOK
    <3> QED
      BY <1>1, <3>2
  <2> QED
    BY <2>5, <2>6
<1> QED
  BY <1>3, <1>4, <1>5

\* The tiers of a run.
LEMMA RunTiers ==
  ASSUME TiersOK, NEW d \in Dates, CursorForward(d), NEW profile,
         NEW new \in SUBSET (OrderIds \ DOMAIN orders), NEW cs,
         NEW ts, ts = TiersAfter(d, new), ApplyProfile(profile, d, cs, ts)
  PROVE  /\ DOMAIN ts = DOMAIN tiers \cup new
         /\ DOMAIN tiers' = DOMAIN tiers \cup new
         /\ \A i \in DOMAIN tiers' : /\ tiers'[i].tier \in 1 .. Len(Tiers)
                                     /\ tiers'[i].updated \in Int
                                     /\ tiers'[i].updated <= d
<1>1. d \in Int /\ d <= d
  BY RunDates
<1>2. Len(Tiers) = 3
  BY DEF Tiers
<1>3. /\ ts = [i \in DOMAIN tiers \cup new |->
                 IF i \in new THEN [tier |-> 1, updated |-> d] ELSE tiers[i]]
      /\ DOMAIN ts = DOMAIN tiers \cup new
  BY DEF TiersAfter
<1>4. \A i \in DOMAIN ts : /\ ts[i].tier \in 1 .. 3 /\ ts[i].updated \in Int
                           /\ ts[i].updated <= d
  <2>1. \A i \in DOMAIN tiers : /\ tiers[i].tier \in 1 .. 3
                                /\ tiers[i].updated \in Int
    BY <1>2 DEF TiersOK
  <2>2. \A i \in DOMAIN tiers : tiers[i].updated < d
    BY DEF CursorForward, Cursors
  <2>3. \A i \in DOMAIN tiers : tiers[i].updated <= d
    BY <1>1, <2>1, <2>2
  <2>4. \A i \in new : ts[i] = [tier |-> 1, updated |-> d]
    BY <1>3
  <2>5. \A i \in DOMAIN tiers : i \notin new => ts[i] = tiers[i]
    BY <1>3
  <2>6. \A i \in new : ts[i].tier \in 1 .. 3 /\ ts[i].updated = d
    BY <2>4
  <2> QED
    BY <1>1, <1>3, <2>1, <2>3, <2>5, <2>6
<1>5. CASE tiers' = ts
  BY <1>2, <1>3, <1>4, <1>5
<1>6. CASE ChangeTier(d, ts)
  <2>1. PICK i \in DOMAIN ts :
          /\ ts[i].tier < Len(Tiers)
          /\ tiers' = [ts EXCEPT ![i] = [tier |-> @.tier + 1, updated |-> d]]
    BY <1>6 DEF ChangeTier
  <2>2. /\ DOMAIN tiers' = DOMAIN ts
        /\ \A j \in DOMAIN ts : j # i => tiers'[j] = ts[j]
        /\ tiers'[i] = [tier |-> ts[i].tier + 1, updated |-> d]
    BY <1>3, <2>1
  <2>3. ts[i].tier + 1 \in 1 .. 3
    BY <1>2, <1>4, <2>1
  <2>4. tiers'[i].tier \in 1 .. 3 /\ tiers'[i].updated = d
    BY <2>2, <2>3
  <2> QED
    BY <1>1, <1>2, <1>3, <1>4, <2>2, <2>4
<1> QED
  BY <1>3, <1>5, <1>6 DEF ApplyProfile

\* Nothing is younger than the run.
LEMMA RunCursors ==
  ASSUME NEW d \in Dates,
         \A o \in DOMAIN orders' : OrderOK(orders'[o]) /\ orders'[o].updated <= d,
         \A i \in DOMAIN tiers' : tiers'[i].updated \in Int /\ tiers'[i].updated <= d,
         \A k \in DOMAIN contracts' : RunOK(k, contracts'[k], PaymentsOf(k)', d),
         \A p \in payments' : p.contract \in DOMAIN contracts'
  PROVE  \A x \in Cursors' : x \in Int /\ x <= d
<1>1. d \in Int
  BY RunDates
<1>2. \A o \in DOMAIN orders' : orders'[o].updated \in Int /\ orders'[o].updated <= d
  BY DEF OrderOK, OrderRow, Dates
<1>3. \A k \in DOMAIN contracts' :
        contracts'[k].updated \in Int /\ contracts'[k].updated <= d
  BY RowFields DEF RunOK
<1>4. ASSUME NEW p \in payments' PROVE p.at \in Int /\ p.at <= d
  <2>1. PICK k \in DOMAIN contracts' : p \in PaymentsOf(k)'
    BY DEF PaymentsOf
  <2>2. RunOK(k, contracts'[k], PaymentsOf(k)', d)
    OBVIOUS
  <2>3. p \in PaymentRow(k) /\ p.at <= contracts'[k].updated
    BY <2>1, <2>2 DEF RunOK, ContractOK, PaymentsOK
  <2>4. p.at \in Int
    BY <2>3 DEF PaymentRow, Dates
  <2> QED
    BY <1>1, <1>3, <2>3, <2>4
<1> QED
  BY <1>2, <1>3, <1>4 DEF Cursors

\* What the runs keep.
IInv ==
  /\ OrdersOK /\ TiersOK
  /\ ContractKeys /\ ContractsOK /\ SuccessorsOK
  /\ ScanComplete

LEMMA InitInv == Init => IInv
<1> SUFFICES ASSUME Init PROVE IInv
  OBVIOUS
<1>1. DOMAIN orders = {} /\ DOMAIN contracts = {} /\ payments = {}
  BY DEF Init
<1>2. /\ DOMAIN tiers = Seeded
      /\ \A i \in DOMAIN tiers : tiers[i] \in [tier : 1 .. Len(Tiers), updated : {0}]
  BY DEF Init
<1>3. OrdersOK
  BY <1>1 DEF OrdersOK
<1>4. TiersOK
  <2>1. \A i \in DOMAIN tiers : tiers[i].tier \in 1 .. Len(Tiers)
                             /\ tiers[i].updated = 0
    BY <1>2
  <2> QED
    BY <1>1, <1>2, <2>1 DEF TiersOK
<1>5. ContractKeys /\ ContractsOK /\ SuccessorsOK /\ ScanComplete
  BY <1>1 DEF ContractKeys, ContractsOK, SuccessorsOK, ScanComplete
<1> QED
  BY <1>3, <1>4, <1>5 DEF IInv

\* Every run keeps it.
LEMMA RunInv ==
  ASSUME IInv, NEW d \in Dates, NEW profile \in Profiles, GeneratorRun(d, profile)
  PROVE  IInv'
<1>1. PICK progress \in [DOMAIN orders -> Delays \X BOOLEAN],
           new \in SUBSET (OrderIds \ DOMAIN orders),
           outcome \in Outcomes(d, profile) :
        /\ \E purchase \in [new -> PurchaseDates(profile, d)] :
             orders' = OrdersAfter(d, progress, purchase)
        /\ payments' = payments \cup ChargesOf(d, outcome)
        /\ ApplyProfile(profile, d, ContractsAfter(d, outcome), TiersAfter(d, new))
  BY Zenon DEF GeneratorRun
<1>2. PICK purchase \in [new -> PurchaseDates(profile, d)] :
        orders' = OrdersAfter(d, progress, purchase)
  BY <1>1
<1>3. /\ OrdersOK /\ TiersOK /\ ContractKeys /\ ContractsOK /\ SuccessorsOK
      /\ CursorForward(d)
  BY DEF IInv, GeneratorRun
<1> DEFINE ts == TiersAfter(d, new)
<1>4. /\ DOMAIN orders' = DOMAIN orders \cup new
      /\ \A o \in DOMAIN orders' : OrderOK(orders'[o]) /\ orders'[o].updated <= d
  BY <1>2, <1>3, RunOrders
<1>5. /\ DOMAIN ts = DOMAIN tiers \cup new
      /\ DOMAIN tiers' = DOMAIN tiers \cup new
      /\ \A i \in DOMAIN tiers' : /\ tiers'[i].tier \in 1 .. Len(Tiers)
                                  /\ tiers'[i].updated \in Int
                                  /\ tiers'[i].updated <= d
  BY <1>1, <1>3, RunTiers
<1>6. /\ DOMAIN contracts \subseteq DOMAIN contracts'
      /\ \A k \in DOMAIN contracts' : RunOK(k, contracts'[k], PaymentsOf(k)', d)
      /\ \A n \in DOMAIN contracts' \ DOMAIN contracts : n \in (DOMAIN ts) \X {d}
  BY <1>1, <1>3, RunContracts
<1>7. \A p \in payments' : p.contract \in DOMAIN contracts'
  BY <1>1, <1>3, <1>6, PaymentsOwned
<1> HIDE DEF ts
<1>8. OrdersOK'
  BY <1>3, <1>4 DEF OrdersOK
<1>9. TiersOK'
  BY <1>3, <1>4, <1>5 DEF TiersOK
<1>10. ContractKeys'
  BY <1>3, <1>5, <1>6 DEF ContractKeys
<1>11. ContractsOK'
  BY <1>6, <1>7 DEF ContractsOK, RunOK
<1>12. SuccessorsOK'
  BY <1>1, <1>3, RunSuccessors
<1>13. ScanComplete'
  <2>1. \A x \in Cursors' : x \in Int /\ x <= d
    BY <1>4, <1>5, <1>6, <1>7, RunCursors
  <2> SUFFICES ASSUME NEW k \in DOMAIN contracts', NEW x \in Cursors',
                      NEW c, c = contracts'[k]
               PROVE  /\ c.status \in {"CANCEL_REQUESTED", "PAYMENT_FAILED"} => x < c.to
                      /\ c.status = "PAYMENT_FAILED" => x < c.next
                      /\ c.status = "ACTIVE" => x < c.next \/ c.updated >= x
    BY DEF ScanComplete
  <2>2. RunOK(k, c, PaymentsOf(k)', d)
    BY <1>6
  <2>3. c.to \in Int /\ c.next \in Int /\ c.updated \in Int /\ d \in Int
    BY <2>2, RowFields, RunDates DEF RunOK
  <2>4. Settled(c, d)
    BY <2>2 DEF RunOK
  <2> QED
    BY <2>1, <2>3, <2>4 DEF Settled
<1> QED
  BY <1>8, <1>9, <1>10, <1>11, <1>12, <1>13 DEF IInv

\* The inductive invariant.
LEMMA Invariance == Spec => []IInv
<1>1. IInv /\ [Next]_vars => IInv'
  <2> SUFFICES ASSUME IInv, [Next]_vars PROVE IInv'
    OBVIOUS
  <2>1. CASE Next
    BY <2>1, RunInv DEF Next
  <2>2. CASE UNCHANGED vars
    BY <2>2 DEF vars, IInv, OrdersOK, TiersOK, ContractKeys, ContractsOK,
                SuccessorsOK, ScanComplete, PaymentsOf, Cursors
  <2> QED
    BY <2>1, <2>2
<1> QED
  BY <1>1, InitInv, PTL DEF Spec

-----------------------------------------------------------------------------
(* The theorems.                                                           *)

\* A payment belongs to a contract whose payments are in order.
LEMMA PaymentFacts ==
  ASSUME IInv, NEW p \in payments
  PROVE  /\ p.contract \in DOMAIN contracts /\ p \in PaymentsOf(p.contract)
         /\ p.contract[2] \in Dates
         /\ ContractOK(p.contract, contracts[p.contract], PaymentsOf(p.contract))
         /\ PaymentsOK(p.contract, PaymentsOf(p.contract))
         /\ p \in PaymentRow(p.contract)
<1>1. p.contract \in DOMAIN contracts /\ p \in PaymentsOf(p.contract)
  BY DEF IInv, ContractsOK, PaymentsOf
<1>2. ContractOK(p.contract, contracts[p.contract], PaymentsOf(p.contract))
  BY <1>1 DEF IInv, ContractsOK
<1>3. PaymentsOK(p.contract, PaymentsOf(p.contract))
  BY <1>2 DEF ContractOK
<1>4. p.contract[2] \in Dates
  BY <1>1 DEF IInv, ContractKeys
<1>5. p \in PaymentRow(p.contract)
  BY <1>1, <1>3 DEF PaymentsOK
<1> QED
  BY <1>1, <1>2, <1>3, <1>4, <1>5

\* The rows a run leaves have their types: statuses of the state machines,
\* dates within the bounds, a tier for every person, and payments only of
\* contracts there are.
THEOREM TypeCorrect == Spec => []TypeOK
<1>1. IInv => TypeOK
  <2> SUFFICES ASSUME IInv PROVE TypeOK
    OBVIOUS
  <2>1. /\ DOMAIN ORDER_TRANSITIONS
             = {"created", "approved", "shipped", "delivered", "canceled"}
        /\ DOMAIN PAYMENT_TRANSITIONS
             = {"pending", "completed", "failed", "refunded"}
    BY DEF ORDER_TRANSITIONS, PAYMENT_TRANSITIONS
  <2>2. \A o \in DOMAIN orders :
          /\ orders[o].status \in DOMAIN ORDER_TRANSITIONS
          /\ orders[o].payment.status \in DOMAIN PAYMENT_TRANSITIONS
          /\ {orders[o].created, orders[o].updated} \subseteq Dates
    BY <2>1 DEF IInv, OrdersOK, OrderOK, OrderRow, OrderPaymentRow
  <2>3. \A k \in DOMAIN contracts : contracts[k] \in ContractRow
    BY DEF IInv, ContractsOK, ContractOK
  <2>4. ASSUME NEW p \in payments
        PROVE  /\ p.contract \in DOMAIN contracts
               /\ p.status \in {"completed", "failed"} /\ p.at \in Dates
    BY PaymentFacts DEF PaymentRow
  <2>5. /\ DOMAIN orders \subseteq OrderIds
        /\ DOMAIN tiers = Seeded \cup DOMAIN orders
        /\ \A i \in DOMAIN tiers : tiers[i].tier \in 1 .. Len(Tiers)
        /\ DOMAIN contracts \subseteq (DOMAIN tiers) \X Dates
    BY DEF IInv, OrdersOK, TiersOK, ContractKeys
  <2>6. ContractRow =
          [status : {"ACTIVE", "PAYMENT_FAILED", "CANCEL_REQUESTED"} \cup {"CHURNED"},
           renew : BOOLEAN, from : ContractDates, to : ContractDates,
           due : ContractDates, next : ContractDates,
           changed : Dates, updated : Dates]
    <3>1. {"ACTIVE", "PAYMENT_FAILED", "CANCEL_REQUESTED"} \cup {"CHURNED"}
            = {"ACTIVE", "PAYMENT_FAILED", "CANCEL_REQUESTED", "CHURNED"}
      OBVIOUS
    <3> QED
      BY <3>1 DEF ContractRow
  <2> QED
    BY <2>2, <2>3, <2>4, <2>5, <2>6, Zenon DEF TypeOK, ContractDates
<1> QED
  BY <1>1, Invariance, PTL

\* Nobody pays twice for the same days, neither within a contract nor with
\* the contract that follows it.
THEOREM PeriodsCorrect == Spec => []PeriodsDisjoint
<1>1. IInv => PeriodsDisjoint
  <2> SUFFICES ASSUME IInv, NEW p \in Completed(payments)
               PROVE
      /\ \A q \in Completed(payments) \ {p} :
           q.contract = p.contract => p.to <= q.from \/ q.to <= p.from
      /\ \A k \in DOMAIN contracts :
           k[1] = p.contract[1] /\ p.contract[2] < k[2] => p.to <= k[2]
    BY DEF PeriodsDisjoint
  <2> DEFINE l  == p.contract
             ps == PaymentsOf(l)
  <2>1. p \in payments /\ p.status = "completed"
    BY DEF Completed
  <2>2. /\ l \in DOMAIN contracts /\ p \in ps /\ l[2] \in Dates
        /\ ContractOK(l, contracts[l], ps) /\ PaymentsOK(l, ps)
        /\ p \in PaymentRow(l)
    BY <2>1, PaymentFacts
  <2>3. \A q \in Completed(payments) : q.contract = l => q \in Completed(ps)
    BY DEF Completed, PaymentsOf
  <2>4. p \in Completed(ps)
    BY <2>3
  <2> HIDE DEF l, ps
  <2>5. ASSUME NEW q \in Completed(payments) \ {p}, q.contract = l
        PROVE  p.to <= q.from \/ q.to <= p.from
    BY <2>2, <2>3, <2>4, <2>5 DEF PaymentsOK
  <2>6. ASSUME NEW k \in DOMAIN contracts, k[1] = l[1], l[2] < k[2]
        PROVE  p.to <= k[2]
    <3>1. contracts[l].status = "CHURNED" /\ contracts[l].updated <= k[2]
      BY <2>2, <2>6 DEF IInv, SuccessorsOK
    <3>2. p.to <= PaidEnd(l[2], ps) /\ PaidEnd(l[2], ps) <= contracts[l].updated
      BY <2>2, <2>4, <3>1 DEF ContractOK, DatesOK
    <3>3. /\ p.to \in Int /\ PaidEnd(l[2], ps) \in Int
          /\ contracts[l].updated \in Int /\ k[2] \in Int
      BY <2>2, PaidEndType, RowFields DEF PaymentRow, IInv, ContractKeys, Dates
    <3> QED
      BY <3>1, <3>2, <3>3
  <2> QED
    BY <2>5, <2>6 DEF l
<1> QED
  BY <1>1, Invariance, PTL

\* A billing cycle is completed at most once, by its last attempt.
THEOREM CyclesCorrect == Spec => []OneCompletedPerCycle
<1>1. IInv => OneCompletedPerCycle
  <2> SUFFICES ASSUME IInv, NEW p \in Completed(payments),
                      NEW q \in payments \ {p},
                      q.contract = p.contract, q.cycle = p.cycle
               PROVE  q.attempt < p.attempt
    BY DEF OneCompletedPerCycle
  <2> DEFINE ps == PaymentsOf(p.contract)
  <2>1. p \in payments /\ p.status = "completed"
    BY DEF Completed
  <2>2. PaymentsOK(p.contract, ps)
    BY <2>1, PaymentFacts
  <2>3. p \in Completed(ps) /\ q \in ps \ {p}
    BY <2>1 DEF Completed, PaymentsOf
  <2> HIDE DEF ps
  <2> QED
    BY <2>2, <2>3 DEF PaymentsOK
<1> QED
  BY <1>1, Invariance, PTL

\* No payment is attempted before the period it pays for begins.
THEOREM BillingCorrect == Spec => []NeverBilledEarly
<1>1. IInv => NeverBilledEarly
  <2> SUFFICES ASSUME IInv, NEW p \in payments PROVE p.from <= p.at
    BY DEF NeverBilledEarly
  <2> QED
    BY PaymentFacts DEF PaymentsOK
<1> QED
  BY <1>1, Invariance, PTL

\* Attempts of a cycle are Retry apart or more and end within Grace of the
\* first one, however often a retry fails.
THEOREM RetriesCorrect == Spec => []RetriesWithinGrace
<1>1. IInv => RetriesWithinGrace
  <2> SUFFICES ASSUME IInv, NEW p \in payments, NEW q \in payments,
                      p.contract = q.contract, p.cycle = q.cycle,
                      p.attempt < q.attempt
               PROVE  /\ p.at + Retry <= q.at
                      /\ p.attempt = 1 => q.at < p.at + Grace
    BY DEF RetriesWithinGrace
  <2> DEFINE ps == PaymentsOf(p.contract)
  <2>1. PaymentsOK(p.contract, ps)
    BY PaymentFacts
  <2>2. p \in ps /\ q \in ps
    BY DEF PaymentsOf
  <2> HIDE DEF ps
  <2> QED
    BY <2>1, <2>2 DEF PaymentsOK
<1> QED
  BY <1>1, Invariance, PTL

\* The current period of an ACTIVE contract is the one paid for last, or the
\* free first one, and the next charge falls on its end.
THEOREM ActivePeriodCorrect == Spec => []ActivePeriodIsPaid
<1>1. IInv => ActivePeriodIsPaid
  <2> SUFFICES ASSUME IInv, NEW k \in DOMAIN contracts,
                      NEW c, c = contracts[k], NEW ps, ps = PaymentsOf(k),
                      c.status = "ACTIVE"
               PROVE  /\ IF Completed(ps) = {}
                         THEN c.from = k[2] /\ c.to = k[2] + Period
                         ELSE c.from = LatestCompleted(ps).from
                              /\ c.to = LatestCompleted(ps).to
                      /\ c.due = c.to /\ c.next = c.to
    BY DEF ActivePeriodIsPaid
  <2>1. ContractOK(k, c, ps) /\ k[2] \in Dates
    BY DEF IInv, ContractsOK, ContractKeys
  <2> DEFINE e == PaidEnd(k[2], ps)
  <2>2. c.due = e /\ c.next = e /\ c.to = e /\ c.from = e - Period
    BY <2>1 DEF ContractOK, DatesOK
  <2>3. k[2] \in Int /\ Period \in Int
    BY <2>1, PeriodAssumption DEF Dates
  <2>4. CASE Completed(ps) = {}
    <3>1. e = k[2] + Period
      BY <2>4 DEF PaidEnd
    <3> HIDE DEF e
    <3>2. c.from = k[2]
      BY <2>2, <2>3, <3>1
    <3> QED
      BY <2>2, <2>4, <3>1, <3>2
  <2>5. CASE Completed(ps) # {}
    <3> DEFINE p == LatestCompleted(ps)
    <3>1. p \in Completed(ps) /\ e = p.to
      BY <2>1, <2>5, LatestExists DEF PaidEnd, ContractOK
    <3>2. p \in ps /\ PaymentsOK(k, ps)
      BY <2>1, <3>1 DEF Completed, ContractOK
    <3> HIDE DEF e, p
    <3>3. p.to = p.from + Period /\ p.from \in Int
      BY <3>2 DEF PaymentsOK, PaymentRow
    <3>4. c.from = p.from
      BY <2>2, <2>3, <3>1, <3>3
    <3> QED
      BY <2>2, <2>5, <3>1, <3>4 DEF p
  <2> QED
    BY <2>4, <2>5
<1> QED
  BY <1>1, Invariance, PTL

\* A person has at most one contract that is not CHURNED.
THEOREM OneOpenCorrect == Spec => []OneOpenContract
<1>1. IInv => OneOpenContract
  <2> SUFFICES ASSUME IInv, NEW k \in DOMAIN contracts, NEW l \in DOMAIN contracts,
                      k[1] = l[1], contracts[k].status # "CHURNED",
                      contracts[l].status # "CHURNED"
               PROVE  k = l
    BY DEF OneOpenContract
  <2>1. k \in (DOMAIN tiers) \X Dates /\ l \in (DOMAIN tiers) \X Dates
    BY DEF IInv, ContractKeys
  <2>2. ~(k[2] < l[2]) /\ ~(l[2] < k[2])
    BY DEF IInv, SuccessorsOK
  <2>3. k[2] \in Int /\ l[2] \in Int
    BY <2>1 DEF Dates
  <2>4. k[2] = l[2]
    BY <2>2, <2>3
  <2> QED
    BY <2>1, <2>4
<1> QED
  BY <1>1, Invariance, PTL

\* The scan leaves nothing behind that was due.
THEOREM ScanCorrect == Spec => []ScanComplete
<1>1. IInv => ScanComplete
  BY DEF IInv
<1> QED
  BY <1>1, Invariance, PTL

\* An order and its payment tell the same story.
THEOREM OrderPaymentCorrect == Spec => []OrderPaymentAgree
<1>1. IInv => OrderPaymentAgree
  <2> SUFFICES ASSUME IInv, NEW o \in DOMAIN orders, NEW r, r = orders[o]
               PROVE  r.payment.status =
                        CASE r.status = "created" -> "pending"
                          [] r.status \in {"approved", "shipped", "delivered"}
                               -> "completed"
                          [] r.status = "canceled" /\ r.approved = NoDate -> "failed"
                          [] r.status = "canceled" /\ r.approved # NoDate
                               -> "refunded"
    BY DEF OrderPaymentAgree
  <2>1. OrderOK(r)
    BY DEF IInv, OrdersOK
  <2>2. /\ r.status \in {"created", "approved", "shipped", "delivered", "canceled"}
        /\ r.created \in Int /\ 0 < r.created /\ r.approved \in Int
    BY <2>1 DEF OrderOK, OrderRow, Dates
  <2>3. OrderTimes(r, r.payment)
    BY <2>1 DEF OrderOK
  <2>4. CASE r.status = "created"
    BY <2>3, <2>4 DEF OrderTimes
  <2>5. CASE r.status \in {"approved", "shipped", "delivered"}
    <3>1. r.payment.status = "completed"
      BY <2>3, <2>5 DEF OrderTimes
    <3> QED
      BY <2>5, <3>1
  <2>6. CASE r.status = "canceled"
    <3>1. \/ r.payment.status = "failed" /\ r.approved = NoDate
          \/ r.payment.status = "refunded" /\ r.created <= r.approved
      BY <2>3, <2>6 DEF OrderTimes
    <3>2. r.created <= r.approved => r.approved # NoDate
      BY <2>2 DEF NoDate
    <3> QED
      BY <2>6, <3>1, <3>2
  <2> QED
    BY <2>2, <2>4, <2>5, <2>6
<1> QED
  BY <1>1, Invariance, PTL

\* The business times of an order and its payment follow one another and are
\* never later than the run that recorded them.
THEOREM TimesCorrect == Spec => []BusinessTimesOrdered
<1>1. IInv => BusinessTimesOrdered
  <2> SUFFICES ASSUME IInv, NEW o \in DOMAIN orders, NEW r, r = orders[o],
                      NEW p, p = r.payment
               PROVE
      /\ r.purchase <= r.created
      /\ r.approved # NoDate => r.created # NoDate /\ r.created <= r.approved
      /\ r.shipped # NoDate => r.approved # NoDate /\ r.approved <= r.shipped
      /\ r.delivered # NoDate => r.shipped # NoDate /\ r.shipped <= r.delivered
      /\ p.completed # NoDate => p.initiated # NoDate /\ p.initiated <= p.completed
      /\ p.failed # NoDate => p.initiated # NoDate /\ p.initiated <= p.failed
      /\ p.refunded # NoDate => p.completed # NoDate /\ p.completed <= p.refunded
      /\ r.approved = p.completed
      /\ \A t \in {r.approved, r.shipped, r.delivered} : t <= r.updated
      /\ \A t \in {p.completed, p.failed, p.refunded} : t <= p.updated
    BY DEF BusinessTimesOrdered
  <2>1. OrderOK(r)
    BY DEF IInv, OrdersOK
  <2>2. /\ r.status \in {"created", "approved", "shipped", "delivered", "canceled"}
        /\ r.created \in Int /\ 0 < r.created /\ r.approved \in Int
        /\ r.shipped \in Int /\ r.delivered \in Int /\ r.updated \in Int
        /\ p.updated \in Int /\ p.failed \in Int /\ p.refunded \in Int
    BY <2>1 DEF OrderOK, OrderRow, OrderPaymentRow, Dates
  <2>3. /\ r.purchase <= r.created /\ p.updated <= r.updated
        /\ p.initiated = r.created /\ p.completed = r.approved
        /\ r.approved <= p.updated /\ p.failed <= p.updated
        /\ p.refunded <= p.updated
        /\ r.shipped <= r.updated /\ r.delivered <= r.updated
    BY <2>1 DEF OrderOK
  <2>4. r.approved <= r.updated
    BY <2>2, <2>3
  <2>5. OrderTimes(r, p)
    BY <2>1 DEF OrderOK
  <2>6. /\ r.approved # NoDate => r.created <= r.approved
        /\ r.shipped # NoDate => r.created <= r.approved /\ r.approved <= r.shipped
        /\ r.delivered # NoDate => /\ r.created <= r.approved
                                   /\ r.approved <= r.shipped
                                   /\ r.shipped <= r.delivered
        /\ p.failed # NoDate => r.created <= p.failed
        /\ p.refunded # NoDate => r.created <= r.approved /\ r.approved <= p.refunded
    <3>1. CASE r.status = "created"
      BY <2>5, <3>1 DEF OrderTimes
    <3>2. CASE r.status = "approved"
      BY <2>5, <3>2 DEF OrderTimes
    <3>3. CASE r.status = "shipped"
      BY <2>5, <3>3 DEF OrderTimes
    <3>4. CASE r.status = "delivered"
      BY <2>5, <3>4 DEF OrderTimes
    <3>5. CASE r.status = "canceled"
      BY <2>5, <3>5 DEF OrderTimes
    <3> QED
      BY <2>2, <3>1, <3>2, <3>3, <3>4, <3>5
  <2>7. /\ r.created # NoDate
        /\ r.created <= r.approved => r.approved # NoDate
        /\ r.created <= r.approved /\ r.approved <= r.shipped => r.shipped # NoDate
    BY <2>2 DEF NoDate
  <2> QED
    BY <2>3, <2>4, <2>6, <2>7
<1> QED
  BY <1>1, Invariance, PTL

\* No row can make a run of the default profile raise.
THEOREM RunsCorrect == Spec => []NoRunAborts
<1>1. IInv => NoRunAborts
  <2> SUFFICES ASSUME IInv, NEW d \in Dates, CursorForward(d)
               PROVE
      /\ \A o \in DOMAIN orders, delay \in Delays, cancel \in BOOLEAN :
           LET plan == ProgressPlan(orders[o], d, delay, cancel)
           IN  plan # NoPlan => Acceptable(orders[o], plan, d)
      /\ \A k \in DOMAIN contracts, outcome \in {"completed", "failed"} :
           LET c    == contracts[k]
               next == Scanned(k, c, PaymentsOf(k), d, outcome)
           IN  /\ ValidContract(c, k[2]) /\ ValidContract(next, k[2])
               /\ next.status # c.status =>
                    next.status \in SUBSCRIPTION_TARGETS[c.status]
    BY Zenon DEF NoRunAborts
  <2>1. ASSUME NEW o \in DOMAIN orders, NEW delay \in Delays, NEW cancel \in BOOLEAN,
               NEW plan, plan = ProgressPlan(orders[o], d, delay, cancel),
               plan # NoPlan
        PROVE  Acceptable(orders[o], plan, d)
    <3>1. OrderOK(orders[o]) /\ orders[o].updated < d
      BY DEF IInv, OrdersOK, CursorForward, Cursors
    <3> QED
      BY <2>1, <3>1, PlanAcceptable
  <2>2. ASSUME NEW k \in DOMAIN contracts, NEW outcome \in {"completed", "failed"},
               NEW c, c = contracts[k],
               NEW next, next = Scanned(k, c, PaymentsOf(k), d, outcome)
        PROVE  /\ ValidContract(c, k[2]) /\ ValidContract(next, k[2])
               /\ next.status # c.status =>
                    next.status \in SUBSCRIPTION_TARGETS[c.status]
    <3>1. ContractOK(k, c, PaymentsOf(k)) /\ k[2] \in Dates /\ c.updated < d
      BY <2>2 DEF IInv, ContractsOK, ContractKeys, CursorForward, Cursors
    <3> DEFINE ps == PaymentsOf(k)
    <3> HIDE DEF ps
    <3>2. ContractOK(k, c, ps) /\ next = Scanned(k, c, ps, d, outcome)
      BY <2>2, <3>1 DEF ps
    <3>3. /\ ContractOK(k, next, PaymentsAfter(k, c, ps, d, outcome))
          /\ next.status # c.status => next.status \in SUBSCRIPTION_TARGETS[c.status]
      BY <3>1, <3>2, ScannedOK
    <3> QED
      BY <3>1, <3>2, <3>3, ReadBack
  <2> QED
    BY <2>1, <2>2
<1> QED
  BY <1>1, Invariance, PTL

\* A run of the profile subscription-churned never succeeds: what it may pick
\* the scan of the same run has closed already.
THEOREM ChurnedProfileRaises ==
  Spec => [][\A d \in Dates : ~GeneratorRun(d, "subscription-churned")]_vars
<1>1. ASSUME IInv, NEW d \in Dates, GeneratorRun(d, "subscription-churned")
      PROVE  FALSE
  <2> DEFINE profile == "subscription-churned"
  <2>1. PICK new \in SUBSET (OrderIds \ DOMAIN orders),
             outcome \in Outcomes(d, profile) :
          /\ payments' = payments \cup ChargesOf(d, outcome)
          /\ ApplyProfile(profile, d, ContractsAfter(d, outcome), TiersAfter(d, new))
    BY <1>1, Zenon DEF GeneratorRun
  <2> DEFINE cs == ContractsAfter(d, outcome)
  <2>2. ApplyTransition(profile, d, cs)
    BY <2>1 DEF ApplyProfile
  <2>3. PICK k \in DOMAIN cs :
          /\ cs[k].updated < d /\ Reached(cs[k].to, d)
          /\ cs[k].status \in {"PAYMENT_FAILED", "CANCEL_REQUESTED"}
    BY <2>2 DEF ApplyTransition, TransitionCandidates
  <2>4. DOMAIN cs = DOMAIN contracts
        /\ \A l \in DOMAIN contracts : RunOK(l, cs[l], PaymentsOf(l)', d)
    BY <1>1, <2>1, ContractsAfterScan DEF IInv, GeneratorRun
  <2> HIDE DEF cs
  <2>5. RunOK(k, cs[k], PaymentsOf(k)', d)
    BY <2>3, <2>4
  <2>6. cs[k].to \in Int /\ d \in Int
    BY <2>5, RowFields, RunDates DEF RunOK
  <2> QED
    BY <2>3, <2>5, <2>6 DEF RunOK, Settled, Reached
<1>2. IInv /\ [Next]_vars
        => [\A d \in Dates : ~GeneratorRun(d, "subscription-churned")]_vars
  BY <1>1
<1> QED
  BY <1>2, Invariance, PTL DEF Spec

=============================================================================
