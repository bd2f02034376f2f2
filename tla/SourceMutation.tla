--------------------------- MODULE SourceMutation ---------------------------
(***************************************************************************)
(* The concurrency protocol of the source database: Generator runs that    *)
(* change it (src/generator/service.py, run_generator) and Warehouse runs  *)
(* whose table tasks read it through separate snapshots (the lease side of *)
(* src/ingestion/service.py, ingest_table, under a lease the DAG or the    *)
(* CLI acquired), all coordinated by the one row of SourceLease.           *)
(*                                                                         *)
(* The source is the set of cursor timestamps its mutable rows carry:      *)
(* every row a Generator run writes gets that run's logical date as its    *)
(* cursor.  What a table task extracts and how it commits is the subject   *)
(* of TableIngestion; here a task only has a snapshot and its checks.      *)
(***************************************************************************)
EXTENDS SourceLease

CONSTANTS
  Generators,    \* Generator runs, each with a fresh generator_run_id
  Warehouses,    \* Warehouse runs, each with a fresh lease owner_id
  Tables,        \* source tables of a Warehouse run
  MaxDate,       \* logical dates are 1..MaxDate
  Variants,      \* the other deterministic inputs (random_seed, order_count...)
  MaxClock       \* bound on the wall clock

ASSUME SessionsAssumption ==
  /\ Generators \cap Warehouses = {}
  /\ NoOwner \notin Generators \cup Warehouses
ASSUME BoundsAssumption == MaxDate \in Nat /\ MaxClock \in Nat

VARIABLES
  clock,     \* the wall clock that datetime.now(UTC) reads
  lease,     \* the row of source_mutation_leases
  token,     \* version of the lease a session was given, 0 before
  pc,        \* where a session is
  input,     \* deterministic inputs of a Generator run
  wrote,     \* did the open source transaction of a run write any row
  cursors,   \* source: cursor timestamps of the committed rows
  marker,    \* source: generator_commits, the run committed for an input
  status,    \* metadata: generator_runs.status
  task,      \* where a table task of a Warehouse run is
  began,     \* current_time of the ingest_table call of a task
  saw,       \* the source its snapshot shows
  healthy    \* LeaseHeartbeat has not recorded a failure

vars == <<clock, lease, token, pc, input, wrote, cursors, marker, status,
          task, began, saw, healthy>>

genVars  == <<input, wrote, cursors, marker, status>>
taskVars == <<task, began, saw, healthy>>

-----------------------------------------------------------------------------
Sessions == Generators \cup Warehouses
Dates    == 1..MaxDate
Inputs   == Dates \X Variants
Tasks    == Warehouses \X Tables

GeneratorPC ==
  {"idle", "leased", "started", "open", "written", "fenced", "committed",
   "unfenced", "closing", "done", "crashed"}
WarehousePC == {"idle", "holding", "released"}
TaskState ==
  {"todo", "starting", "admitted", "snapped", "uploaded", "checked",
   "committed", "nodata", "failed"}

\* A task inside the LeaseHeartbeat context.
Beating == {"admitted", "snapped", "uploaded", "checked"}
\* Task states Airflow counts as finished (trigger_rule all_done).
Finished == {"committed", "nodata", "failed"}

TypeOK ==
  /\ clock \in 0..MaxClock
  /\ lease \in LeaseRow(Sessions, 0..(MaxClock + TTL))
  /\ token \in [Sessions -> Nat]
  /\ pc \in [Sessions -> GeneratorPC \cup WarehousePC]
  /\ input \in [Generators -> Inputs]
  /\ wrote \in [Generators -> BOOLEAN]
  /\ cursors \in SUBSET Dates
  /\ marker \in [Inputs -> Generators \cup {NoOwner}]
  /\ status \in [Generators -> {"NONE", "RUNNING", "SUCCESS", "FAILED"}]
  /\ task \in [Tasks -> TaskState]
  /\ began \in [Tasks -> 0..MaxClock]
  /\ saw \in [Tasks -> SUBSET Dates]
  /\ healthy \in [Tasks -> BOOLEAN]

Init ==
  /\ clock = 0
  /\ lease = InitialLease
  /\ token = [s \in Sessions |-> 0]
  /\ pc = [s \in Sessions |-> "idle"]
  /\ input \in [Generators -> Inputs]
  /\ wrote = [g \in Generators |-> FALSE]
  /\ cursors = {}
  /\ marker = [i \in Inputs |-> NoOwner]
  /\ status = [g \in Generators |-> "NONE"]
  /\ task = [k \in Tasks |-> "todo"]
  /\ began = [k \in Tasks |-> 0]
  /\ saw = [k \in Tasks |-> {}]
  /\ healthy = [k \in Tasks |-> TRUE]

-----------------------------------------------------------------------------
(* fenced_source_commit keeps the row FOR SHARE until the source COMMIT is *)
(* through and its own transaction ends; acquire, renew and release read   *)
(* the row FOR UPDATE and wait for that.                                   *)

MutantRowNeverLocked == TRUE

RowUnlocked ==
  \A g \in Generators : pc[g] \notin {"fenced", "committed"}

Go(s, state) == pc' = [pc EXCEPT ![s] = state]

Current(s, now) == IsCurrentLease(lease, s, token[s], now)

AcquireLease(s) ==
  /\ RowUnlocked
  /\ CanAcquire(lease, s, clock)
  /\ lease' = Acquired(lease, s, clock)
  /\ token' = [token EXCEPT ![s] = lease'.version]

\* A release that finds another owner or version raises; every caller goes on.
ReleaseLease(s) ==
  /\ RowUnlocked
  /\ lease' = IF CanRelease(lease, s, token[s]) THEN Released(lease) ELSE lease

-----------------------------------------------------------------------------
(* run_generator                                                           *)

\* _successful_result: the same inputs already succeeded; nothing is locked.
GenReuseSuccess(g) ==
  /\ pc[g] = "idle"
  /\ \E h \in Generators : input[h] = input[g] /\ status[h] = "SUCCESS"
  /\ Go(g, "done")
  /\ UNCHANGED <<clock, lease, token, genVars, taskVars>>

\* The lookup found nothing, perhaps long before the lease is free.
GenAcquire(g) ==
  /\ pc[g] = "idle"
  /\ AcquireLease(g)
  /\ Go(g, "leased")
  /\ UNCHANGED <<clock, genVars, taskVars>>

MutantRecoverOwnRun(g) ==
  /\ pc[g] = "leased"
  /\ marker[input[g]] # NoOwner
  /\ status' = [status EXCEPT ![g] = "SUCCESS"]
  /\ Go(g, "closing")
  /\ UNCHANGED <<clock, lease, token, input, wrote, cursors, marker, taskVars>>

\* committed_result found the marker of an earlier run whose SUCCESS was
\* never recorded: record it for that run and reuse its result.
GenRecover(g) ==
  /\ pc[g] = "leased"
  /\ marker[input[g]] # NoOwner
  /\ status' = [status EXCEPT ![marker[input[g]]] = "SUCCESS"]
  /\ Go(g, "closing")
  /\ UNCHANGED <<clock, lease, token, input, wrote, cursors, marker, taskVars>>

\* record_started_run
GenStart(g) ==
  /\ pc[g] = "leased"
  /\ marker[input[g]] = NoOwner
  /\ status' = [status EXCEPT ![g] = "RUNNING"]
  /\ Go(g, "started")
  /\ UNCHANGED <<clock, lease, token, input, wrote, cursors, marker, taskVars>>

MutantCursorUnused(date) == date \notin cursors

\* _assert_source_cursor_forward
CursorForward(date) == \A c \in cursors : c < date

\* The source transaction begins.  It is READ COMMITTED: what was checked
\* here may have changed when it commits.
GenOpen(g) ==
  /\ pc[g] = "started"
  /\ CursorForward(input[g][1])
  /\ Go(g, "open")
  /\ UNCHANGED <<clock, lease, token, genVars, taskVars>>

\* Order transitions and new orders, each behind an
\* assert_source_mutation_lease, subscription scan and profile mutations
\* without one, then record_source_commit.  A run may have nothing to write.
\* Its rows are invisible until COMMIT.  The unique index of
\* generator_commits is left out: InputCommittedOnce says it is not needed.
GenWrite(g) ==
  /\ pc[g] = "open"
  /\ \E orders, others \in BOOLEAN :
       /\ orders => Current(g, clock)
       /\ wrote' = [wrote EXCEPT ![g] = orders \/ others]
  /\ Go(g, "written")
  /\ UNCHANGED <<clock, lease, token, input, cursors, marker, status, taskVars>>

\* fenced_source_commit takes the share lock and checks the row.
GenFence(g) ==
  /\ pc[g] = "written"
  /\ Current(g, clock)
  /\ Go(g, "fenced")
  /\ UNCHANGED <<clock, lease, token, genVars, taskVars>>

\* COMMIT of the source transaction: rows and generator_commits together.
GenCommit(g) ==
  /\ pc[g] = "fenced"
  /\ cursors' = IF wrote[g] THEN cursors \cup {input[g][1]} ELSE cursors
  /\ marker' = [marker EXCEPT ![input[g]] = g]
  /\ Go(g, "committed")
  /\ UNCHANGED <<clock, lease, token, input, wrote, status, taskVars>>

\* The transaction that holds the share lock ends.
GenUnfence(g) ==
  /\ pc[g] = "committed"
  /\ Go(g, "unfenced")
  /\ UNCHANGED <<clock, lease, token, genVars, taskVars>>

\* record_finished_run stores SUCCESS.
GenFinish(g) ==
  /\ pc[g] = "unfenced"
  /\ status' = [status EXCEPT ![g] = "SUCCESS"]
  /\ Go(g, "closing")
  /\ UNCHANGED <<clock, lease, token, input, wrote, cursors, marker, taskVars>>

\* Any exception, a refused check included: the source transaction rolls
\* back unless it is committed, and a started run is recorded FAILED, even
\* when only recording its SUCCESS failed, unless that record fails as well
\* or the exception is no Exception.
GenFail(g) ==
  /\ pc[g] \in {"leased", "started", "open", "written", "fenced", "committed",
               "unfenced"}
  /\ \/ /\ pc[g] # "leased"
        /\ status' = [status EXCEPT ![g] = "FAILED"]
     \/ UNCHANGED status
  /\ Go(g, "closing")
  /\ UNCHANGED <<clock, lease, token, input, wrote, cursors, marker, taskVars>>

GenRelease(g) ==
  /\ pc[g] = "closing"
  /\ ReleaseLease(g)
  /\ Go(g, "done")
  /\ UNCHANGED <<clock, token, genVars, taskVars>>

\* The process dies: connections close, locks and open transactions go.
GenCrash(g) ==
  /\ pc[g] \notin {"idle", "done", "crashed"}
  /\ Go(g, "crashed")
  /\ UNCHANGED <<clock, lease, token, genVars, taskVars>>

-----------------------------------------------------------------------------
(* A Warehouse run: acquire_source_snapshot_lease, the table tasks, and    *)
(* release_source_snapshot_lease once all of them are done.                *)

WhAcquire(w) ==
  /\ pc[w] = "idle"
  /\ AcquireLease(w)
  /\ Go(w, "holding")
  /\ UNCHANGED <<clock, genVars, taskVars>>

WhRelease(w) ==
  /\ pc[w] = "holding"
  /\ \A t \in Tables : task[<<w, t>>] \in Finished
  /\ ReleaseLease(w)
  /\ Go(w, "released")
  /\ UNCHANGED <<clock, token, genVars, taskVars>>

Advance(k, from, to) ==
  /\ task[k] = from
  /\ task' = [task EXCEPT ![k] = to]

\* ingest_table begins: current_time is read once, here, and is the `now`
\* of every later check of the call.
TaskStart(k) ==
  /\ pc[k[1]] = "holding"
  /\ Advance(k, "todo", "starting")
  /\ began' = [began EXCEPT ![k] = clock]
  /\ healthy' = [healthy EXCEPT ![k] = TRUE]
  /\ UNCHANGED <<clock, lease, token, pc, genVars, saw>>

\* assert_source_mutation_lease in front of the source read.
TaskAdmit(k) ==
  /\ Current(k[1], began[k])
  /\ Advance(k, "starting", "admitted")
  /\ UNCHANGED <<clock, lease, token, pc, genVars, began, saw, healthy>>

\* open_table_snapshot: REPEATABLE READ, READ ONLY.
TaskSnapshot(k) ==
  /\ Advance(k, "admitted", "snapped")
  /\ saw' = [saw EXCEPT ![k] = cursors]
  /\ UNCHANGED <<clock, lease, token, pc, genVars, began, healthy>>

\* No row above the watermark: only the heartbeat is asked.
TaskNoData(k) ==
  /\ healthy[k]
  /\ Advance(k, "snapped", "nodata")
  /\ UNCHANGED <<clock, lease, token, pc, genVars, began, saw, healthy>>

\* assert_healthy and assert_source_mutation_lease in front of the upload.
TaskUpload(k) ==
  /\ healthy[k]
  /\ Current(k[1], began[k])
  /\ Advance(k, "snapped", "uploaded")
  /\ UNCHANGED <<clock, lease, token, pc, genVars, began, saw, healthy>>

\* The same checks in front of commit_table_run ...
TaskCheck(k) ==
  /\ healthy[k]
  /\ Current(k[1], began[k])
  /\ Advance(k, "uploaded", "checked")
  /\ UNCHANGED <<clock, lease, token, pc, genVars, began, saw, healthy>>

\* ... which is another transaction and does not look at the source lease.
TaskCommit(k) ==
  /\ Advance(k, "checked", "committed")
  /\ UNCHANGED <<clock, lease, token, pc, genVars, began, saw, healthy>>

\* An exception or the death of the task.  Airflow runs a retryable failure
\* again from the start, any other one is final.
TaskFail(k) ==
  /\ task[k] \in Beating \cup {"starting"}
  /\ \E next \in {"todo", "failed"} : task' = [task EXCEPT ![k] = next]
  /\ UNCHANGED <<clock, lease, token, pc, genVars, began, saw, healthy>>

\* LeaseHeartbeat renews with the real clock ...
HeartbeatRenew(k) ==
  /\ task[k] \in Beating
  /\ healthy[k]
  /\ RowUnlocked
  /\ Current(k[1], clock)
  /\ lease' = Renewed(lease, clock)
  /\ UNCHANGED <<clock, token, pc, genVars, taskVars>>

\* ... and stops at the first error, a lost lease or a lost connection.
HeartbeatFail(k) ==
  /\ task[k] \in Beating
  /\ healthy[k]
  /\ healthy' = [healthy EXCEPT ![k] = FALSE]
  /\ UNCHANGED <<clock, lease, token, pc, genVars, task, began, saw>>

Tick ==
  /\ clock < MaxClock
  /\ clock' = clock + 1
  /\ UNCHANGED <<lease, token, pc, genVars, taskVars>>

GeneratorStep(g) ==
  \/ GenReuseSuccess(g) \/ GenAcquire(g) \/ GenRecover(g) \/ GenStart(g)
  \/ GenOpen(g) \/ GenWrite(g) \/ GenFence(g) \/ GenCommit(g)
  \/ GenUnfence(g) \/ GenFinish(g) \/ GenFail(g) \/ GenRelease(g) \/ GenCrash(g)

TaskStep(k) ==
  \/ TaskStart(k) \/ TaskAdmit(k) \/ TaskSnapshot(k) \/ TaskNoData(k)
  \/ TaskUpload(k) \/ TaskCheck(k) \/ TaskCommit(k) \/ TaskFail(k)
  \/ HeartbeatRenew(k) \/ HeartbeatFail(k)

Next ==
  \/ \E g \in Generators : GeneratorStep(g)
  \/ \E w \in Warehouses : WhAcquire(w) \/ WhRelease(w)
  \/ \E k \in Tasks : TaskStep(k)
  \/ Tick

Spec == Init /\ [][Next]_vars

-----------------------------------------------------------------------------
(* Properties                                                              *)

\* Parent and child tables are observed together: the table runs that one
\* Warehouse run commits all read the same source, although each opens its
\* own snapshot, the lease may expire or be taken over between any two
\* steps, and ingest_table checks it against a stale clock.
CommittedSnapshotsAgree ==
  \A w \in Warehouses, t, u \in Tables :
    task[<<w, t>>] = "committed" /\ task[<<w, u>>] = "committed"
      => saw[<<w, t>>] = saw[<<w, u>>]

\* While the row names a Warehouse run the source does not change: every
\* source COMMIT happens while the row still names the committing Generator
\* run with the version it was given.
SourceFrozen ==
  [][\A g \in Generators :
       pc[g] = "fenced" /\ pc'[g] = "committed"
         => lease.owner = g /\ lease.version = token[g]]_vars

\* A source COMMIT that writes rows gives them a cursor strictly above every
\* cursor already there, so that no committed extraction range is written
\* into behind its watermark (run_generator checks this long before COMMIT).
SourceCursorsForward ==
  [][\A g \in Generators :
       pc[g] = "fenced" /\ pc'[g] = "committed" /\ wrote[g]
         => \A c \in cursors : c < input[g][1]]_vars

\* A deterministic input takes effect at most once: its generator_commits
\* marker is never written again, whatever crashed or was retried, so the
\* unique index of that table is never what stops a second COMMIT.
InputCommittedOnce ==
  [][\A i \in Inputs : marker[i] # NoOwner => marker'[i] = marker[i]]_vars

\* generator_runs says SUCCESS only of runs whose source COMMIT happened.
SuccessIsCommitted ==
  \A g \in Generators : status[g] = "SUCCESS" => marker[input[g]] = g

=============================================================================
