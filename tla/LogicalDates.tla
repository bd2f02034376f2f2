---------------------------- MODULE LogicalDates ----------------------------
(* Logical dates of Generator runs, and the timestamps derived from them.  *)
EXTENDS Integers

\* A NULL timestamp.
NoDate == -1

\* Python's "date or default" for an optional timestamp.
OrElse(date, default) == IF date = NoDate THEN default ELSE date

\* "date is not None and date <= now".
Reached(date, now) == date # NoDate /\ date <= now

=============================================================================
