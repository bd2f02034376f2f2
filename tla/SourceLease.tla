---------------------------- MODULE SourceLease ----------------------------
(***************************************************************************)
(* The row of source_mutation_leases, the one global lease that Generator  *)
(* runs and Warehouse extractions exclude each other with, and what the    *)
(* functions of src/common/lease.py do to it.  Each operator is one locked *)
(* read and write of the row, a single PostgreSQL transaction.             *)
(*                                                                         *)
(* An owner stands for the pair (owner_type, owner_id): owner_id is a      *)
(* fresh uuid4 in every caller, so the pair names one session.             *)
(***************************************************************************)
EXTENDS Naturals

CONSTANTS
  NoOwner,   \* owner_type and owner_id are NULL
  TTL        \* DEFAULT_LEASE_TTL, in ticks of the clock

ASSUME TTLAssumption == TTL \in Nat \ {0}

\* SourceMutationLease: the row, as _lease_from_row reads it.  A released
\* row reads as expired since datetime.min.
LeaseRow(Owners, Times) ==
  [owner : Owners \cup {NoOwner}, expires : Times, version : Nat]

InitialLease == [owner |-> NoOwner, expires |-> 0, version |-> 0]

\* _is_active
IsActive(row, now) ==
  /\ row.owner # NoOwner
  /\ row.expires > now

MutantExpiryOnly(row, owner, version, now) == IsActive(row, now)

\* _assert_current_lease: the owner, the version and the expiry are all
\* compared; any difference raises LeaseOwnershipLostError.
IsCurrentLease(row, owner, version, now) ==
  /\ row.owner = owner
  /\ row.version = version
  /\ IsActive(row, now)

\* acquire_source_mutation_lease: an active lease is only handed back to
\* its own owner, everybody else gets LeaseUnavailableError.
CanAcquire(row, owner, now) ==
  IsActive(row, now) => row.owner = owner

Acquired(row, owner, now) ==
  IF IsActive(row, now)
  THEN row
  ELSE [owner |-> owner, expires |-> now + TTL, version |-> row.version + 1]

MutantRenewedFromExpiry(row, now) == [row EXCEPT !.expires = @ + TTL]

\* renew_source_mutation_lease, once IsCurrentLease holds.
Renewed(row, now) == [row EXCEPT !.expires = now + TTL]

\* release_source_mutation_lease: owner and version, not the expiry.
CanRelease(row, owner, version) ==
  /\ row.owner = owner
  /\ row.version = version

Released(row) ==
  [owner |-> NoOwner, expires |-> 0, version |-> row.version + 1]

=============================================================================
