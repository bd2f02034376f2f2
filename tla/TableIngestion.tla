--------------------------- MODULE TableIngestion ---------------------------
(***************************************************************************)
(* Ingestion of one source table into Bronze: concurrent ingest_table runs *)
(* (src/ingestion/service.py) over the watermark row, the object store and *)
(* the metadata catalog, with the watermark rewind of reprocess.py and the *)
(* orphan reconciliation of bronze/orphan.py running beside them.          *)
(*                                                                         *)
(* A row version of the source is its cursor, a number from 1 up (0 is the *)
(* initial cursor); SourceMutation shows that new cursors are above every  *)
(* older one.  What a run writes is fixed once its snapshot is validated,  *)
(* so an object, a manifest or a catalog row is represented by the run it  *)
(* was written from.  The source lease is the subject of SourceMutation:   *)
(* here losing it is one of the exceptions a run may meet anywhere.        *)
(***************************************************************************)
EXTENDS Naturals, FiniteSets

CONSTANTS
  Runs,           \* ingest_table calls, each with a fresh run_id
  Rewinders,      \* rewind_tables calls, each with a fresh owner_id
  NoRun,          \* NULL: no owner, no object, no catalog row
  Batches,        \* batch_ids
  Reconciled,     \* the batches an operator runs reconcile_orphan for
  MaxRow,         \* bound on the cursors of the source
  RejectPercent,  \* MAX_REJECT_RATE
  TTL,            \* DEFAULT_TABLE_LEASE_TTL, in ticks
  MaxClock        \* bound on the wall clock

ASSUME OwnersAssumption ==
  /\ Runs \cap Rewinders = {}
  /\ NoRun \notin Runs \cup Rewinders
ASSUME ReconciledAssumption == Reconciled \subseteq Batches
ASSUME NumbersAssumption ==
  /\ MaxRow \in Nat /\ MaxClock \in Nat
  /\ TTL \in Nat \ {0}
  /\ RejectPercent \in 0..100

VARIABLES
  clock,       \* the wall clock
  src,         \* source: cursors of the current row versions
  wm,          \* metadata: the row of watermarks
  pc,          \* where a run or a rewind is
  batch,       \* batch_id of a run
  began,       \* current_time of a run
  seen,        \* cursor and version of the watermark a run read
  token,       \* version that acquire_table_lease returned
  upper,       \* extract_upper_bound of a run, 0 for None
  rows,        \* row versions a run extracted
  rejected,    \* those of them that validation rejected
  healthy,     \* LeaseHeartbeat has not recorded a failure
  target,      \* cursor a rewind goes back to
  status,      \* metadata: pipeline_runs.status
  bronze,      \* metadata: bronze_objects, the run a batch was committed from
  qmeta,       \* metadata: quarantine_batches
  object,      \* store: data.parquet of a batch
  manifest,    \* store: manifest.json of a batch
  quarantine,  \* store: records.parquet of a batch
  vetted       \* batches whose stored evidence reconcile_orphan found good

runVars   == <<batch, began, seen, token, upper, rows, rejected, healthy>>
metaVars  == <<status, bronze, qmeta>>
storeVars == <<object, manifest, quarantine>>
vars == <<clock, src, wm, pc, runVars, target, metaVars, storeVars, vetted>>

-----------------------------------------------------------------------------
Cursors == 0..MaxRow
Times   == 0..MaxClock
Owners  == Runs \cup Rewinders
MaybeRun == Runs \cup {NoRun}

RunPC ==
  {"idle", "begun", "ready", "leased", "opened", "written", "quarantined",
   "uploaded", "manifested", "checked", "closing", "done", "crashed"}
RewindPC ==
  {"idle", "aimed", "leased", "rewound", "closing", "done", "failed", "crashed"}

\* A run inside the LeaseHeartbeat context.
Beating ==
  {"opened", "written", "quarantined", "uploaded", "manifested", "checked"}

TypeOK ==
  /\ clock \in Times
  /\ src \in SUBSET (1..MaxRow)
  /\ wm \in [cursor : Cursors, version : Nat,
             owner : Owners \cup {NoRun}, expires : 0..(MaxClock + TTL)]
  /\ pc \in [Owners -> RunPC \cup RewindPC]
  /\ batch \in [Runs -> Batches]
  /\ began \in [Runs -> Times]
  /\ seen \in [Runs -> [cursor : Cursors, version : Nat]]
  /\ token \in [Owners -> Nat]
  /\ upper \in [Runs -> Cursors]
  /\ rows \in [Runs -> SUBSET (1..MaxRow)]
  /\ rejected \in [Runs -> SUBSET (1..MaxRow)]
  /\ healthy \in [Runs -> BOOLEAN]
  /\ target \in [Rewinders -> Cursors]
  /\ status \in [Runs -> {"NONE", "RUNNING", "SUCCESS", "SUCCESS_NO_DATA",
                          "SKIPPED_ALREADY_COMMITTED", "FAILED"}]
  /\ bronze \in [Batches -> MaybeRun]
  /\ qmeta \in [Batches -> MaybeRun]
  /\ object \in [Batches -> MaybeRun]
  /\ manifest \in [Batches -> MaybeRun]
  /\ quarantine \in [Batches -> MaybeRun]
  /\ vetted \in SUBSET Batches

Init ==
  /\ clock = 0
  /\ src = {}
  /\ wm = [cursor |-> 0, version |-> 0, owner |-> NoRun, expires |-> 0]
  /\ pc = [o \in Owners |-> "idle"]
  /\ batch \in [Runs -> Batches]
  /\ began = [r \in Runs |-> 0]
  /\ seen = [r \in Runs |-> [cursor |-> 0, version |-> 0]]
  /\ token = [o \in Owners |-> 0]
  /\ upper = [r \in Runs |-> 0]
  /\ rows = [r \in Runs |-> {}]
  /\ rejected = [r \in Runs |-> {}]
  /\ healthy = [r \in Runs |-> TRUE]
  /\ target = [w \in Rewinders |-> 0]
  /\ status = [r \in Runs |-> "NONE"]
  /\ bronze = [b \in Batches |-> NoRun]
  /\ qmeta = [b \in Batches |-> NoRun]
  /\ object = [b \in Batches |-> NoRun]
  /\ manifest = [b \in Batches |-> NoRun]
  /\ quarantine = [b \in Batches |-> NoRun]
  /\ vetted = {}

-----------------------------------------------------------------------------
Go(o, from, to) == pc[o] = from /\ pc' = [pc EXCEPT ![o] = to]

\* A row of pipeline_runs only ever leaves RUNNING: every UPDATE of a status
\* asks for it and raises, or is suppressed, when another status is there.
SetStatus(r, new) == status' = [status EXCEPT ![r] = new]

\* The clock reading and the heartbeat of a run end with it.
Ends(o) ==
  /\ began' = [r \in Runs |-> IF r = o THEN 0 ELSE began[r]]
  /\ healthy' = [r \in Runs |-> r = o \/ healthy[r]]
  /\ UNCHANGED <<batch, seen, token, upper, rows, rejected>>

(* The lease columns of the watermark row.                                 *)

\* acquire_table_lease: free, expired or already its own.
AcquireTableLease(o, now) ==
  /\ wm.owner = NoRun \/ wm.expires <= now \/ wm.owner = o
  /\ wm' = [wm EXCEPT !.owner = o, !.expires = now + TTL]
  /\ token' = [token EXCEPT ![o] = wm.version]

\* assert_table_lease and the condition of renew_table_lease.
HoldsTableLease(o, now) ==
  /\ wm.owner = o
  /\ wm.expires > now
  /\ wm.version = token[o]

\* release_table_lease: only the owner, whatever expired or was committed.
ReleaseTableLease(o) ==
  wm' = IF wm.owner = o THEN [wm EXCEPT !.owner = NoRun, !.expires = 0] ELSE wm

\* The cursor moves together with the version.
MoveCursor(to) == wm' = [wm EXCEPT !.cursor = to, !.version = @ + 1]

-----------------------------------------------------------------------------
(* ingest_table                                                            *)

\* The watermark is read, before any lease and before the batch lookup;
\* current_time is the `now` of every check the run will make.
Begin(r) ==
  /\ Go(r, "idle", "begun")
  /\ began' = [began EXCEPT ![r] = clock]
  /\ seen' = [seen EXCEPT ![r] = [cursor |-> wm.cursor, version |-> wm.version]]
  /\ UNCHANGED <<clock, src, wm, batch, token, upper, rows, rejected, healthy,
                 target, metaVars, storeVars, vetted>>

\* get_committed_table_batch finds nothing.
LookupNothing(r) ==
  /\ bronze[batch[r]] = NoRun
  /\ Go(r, "begun", "ready")
  /\ UNCHANGED <<clock, src, wm, runVars, target, metaVars, storeVars, vetted>>

\* _reuse_or_reject_committed_batch: the batch is skipped when the watermark
\* that was read is the end of the committed range, and refused otherwise.
\* Start and end of the run are two transactions; it may die between them.
LookupCommitted(r) ==
  /\ bronze[batch[r]] # NoRun
  /\ Go(r, "begun", "done")
  /\ \/ SetStatus(r, IF seen[r].cursor = upper[bronze[batch[r]]]
                     THEN "SKIPPED_ALREADY_COMMITTED" ELSE "FAILED")
     \/ SetStatus(r, "RUNNING")
  /\ Ends(r)
  /\ UNCHANGED <<clock, src, wm, target, bronze, qmeta, storeVars, vetted>>

LeaseTable(r) ==
  /\ Go(r, "ready", "leased")
  /\ AcquireTableLease(r, began[r])
  /\ UNCHANGED <<clock, src, batch, began, seen, upper, rows, rejected, healthy,
                 target, metaVars, storeVars, vetted>>

\* A lease is refused, or the snapshot cannot be opened or its run recorded:
\* _record_prestart_failure, which may itself fail half way.
PrestartFail(r) ==
  /\ \/ Go(r, "ready", "done")
     \/ Go(r, "leased", "closing")
  /\ \E s \in {"NONE", "RUNNING", "FAILED"} : SetStatus(r, s)
  /\ Ends(r)
  /\ UNCHANGED <<clock, src, wm, target, bronze, qmeta, storeVars, vetted>>

\* Rows above the watermark that was read, in one REPEATABLE READ snapshot.
Above(cursor) == {c \in src : c > cursor}

MaxOf(S) == IF S = {} THEN 0 ELSE CHOOSE c \in S : \A d \in S : d <= c

\* open_table_snapshot fixes the range, record_started_run records it, and
\* pages() will read all of it.
OpenSnapshot(r) ==
  /\ Go(r, "leased", "opened")
  /\ rows' = [rows EXCEPT ![r] = Above(seen[r].cursor)]
  /\ upper' = [upper EXCEPT ![r] = MaxOf(Above(seen[r].cursor))]
  /\ SetStatus(r, "RUNNING")
  /\ UNCHANGED <<clock, src, wm, batch, began, seen, token, rejected, healthy,
                 target, bronze, qmeta, storeVars, vetted>>

\* An empty range: no object, no watermark, no look at the table lease.
NoData(r) ==
  /\ upper[r] = 0
  /\ healthy[r]
  /\ Go(r, "opened", "closing")
  /\ SetStatus(r, "SUCCESS_NO_DATA")
  /\ Ends(r)
  /\ UNCHANGED <<clock, src, wm, target, bronze, qmeta, storeVars, vetted>>

\* An exception there is outside the handler that records failures.
NoDataFail(r) ==
  /\ upper[r] = 0
  /\ Go(r, "opened", "closing")
  /\ Ends(r)
  /\ UNCHANGED <<clock, src, wm, target, metaVars, storeVars, vetted>>

\* assert_reject_rate
RejectRateOK(bad, all) ==
  Cardinality(bad) * 100 <= RejectPercent * Cardinality(all)

\* _write_local_artifacts splits valid from rejected rows; then the checks in
\* front of the upload.
WriteLocal(r) ==
  /\ upper[r] # 0
  /\ Go(r, "opened", "written")
  /\ \E bad \in SUBSET rows[r] :
       /\ RejectRateOK(bad, rows[r])
       /\ rejected' = [rejected EXCEPT ![r] = bad]
  /\ healthy[r]
  /\ HoldsTableLease(r, began[r])
  /\ UNCHANGED <<clock, src, wm, batch, began, seen, token, upper, rows,
                 healthy, target, metaVars, storeVars, vetted>>

(* upload_new_file and upload_new_bytes: a conditional PUT under a key that *)
(* depends on the batch alone, verified with HEAD.                          *)

\* _publish_quarantine: data and manifest, before the Bronze object.
PublishQuarantine(r) ==
  /\ Go(r, "written", "quarantined")
  /\ IF rejected[r] = {} THEN UNCHANGED quarantine
     ELSE /\ quarantine[batch[r]] = NoRun
          /\ quarantine' = [quarantine EXCEPT ![batch[r]] = r]
  /\ UNCHANGED <<clock, src, wm, runVars, target, metaVars, object, manifest,
                 vetted>>

MutantUploadOverwrites(r) ==
  /\ Go(r, "quarantined", "uploaded")
  /\ object' = [object EXCEPT ![batch[r]] = r]
  /\ UNCHANGED <<clock, src, wm, runVars, target, metaVars, manifest,
                 quarantine, vetted>>

UploadData(r) ==
  /\ Go(r, "quarantined", "uploaded")
  /\ object[batch[r]] = NoRun
  /\ object' = [object EXCEPT ![batch[r]] = r]
  /\ UNCHANGED <<clock, src, wm, runVars, target, metaVars, manifest,
                 quarantine, vetted>>

UploadManifest(r) ==
  /\ Go(r, "uploaded", "manifested")
  /\ manifest[batch[r]] = NoRun
  /\ manifest' = [manifest EXCEPT ![batch[r]] = r]
  /\ UNCHANGED <<clock, src, wm, runVars, target, metaVars, object,
                 quarantine, vetted>>

Recheck(r) ==
  /\ Go(r, "manifested", "checked")
  /\ healthy[r]
  /\ HoldsTableLease(r, began[r])
  /\ UNCHANGED <<clock, src, wm, runVars, target, metaVars, storeVars, vetted>>

MutantNoCompareAndSet(r) == TRUE

\* The UPDATE of commit_table_run that moves the watermark: nothing moved it
\* since the run read it.
WatermarkUnmoved(r) ==
  wm.version = seen[r].version /\ wm.cursor = seen[r].cursor

\* commit_table_run, one transaction.
CommitTableRun(r) ==
  /\ Go(r, "checked", "closing")
  /\ wm.owner = r /\ wm.expires > began[r]
  /\ bronze[batch[r]] = NoRun
  /\ bronze' = [bronze EXCEPT ![batch[r]] = r]
  /\ IF rejected[r] = {} THEN UNCHANGED qmeta
     ELSE /\ qmeta[batch[r]] = NoRun
          /\ qmeta' = [qmeta EXCEPT ![batch[r]] = r]
  /\ status[r] = "RUNNING"
  /\ SetStatus(r, "SUCCESS")
  /\ WatermarkUnmoved(r)
  /\ MoveCursor(upper[r])
  /\ Ends(r)
  /\ UNCHANGED <<clock, src, target, storeVars, vetted>>

MutantFailAnyStatus(r) ==
  /\ pc[r] \in Beating
  /\ pc[r] = "opened" => upper[r] # 0
  /\ pc' = [pc EXCEPT ![r] = "closing"]
  /\ SetStatus(r, "FAILED")
  /\ UNCHANGED <<clock, src, wm, runVars, target, bronze, qmeta, storeVars,
                 vetted>>

\* Any exception from the validation to the commit, a refused check, an
\* existing key or a lost answer included: record_failed_run if it still can.
Fail(r) ==
  /\ pc[r] \in Beating
  /\ pc[r] = "opened" => upper[r] # 0
  /\ pc' = [pc EXCEPT ![r] = "closing"]
  /\ \/ status[r] = "RUNNING" /\ SetStatus(r, "FAILED")
     \/ UNCHANGED status
  /\ Ends(r)
  /\ UNCHANGED <<clock, src, wm, target, bronze, qmeta, storeVars, vetted>>

\* finally: the table lease is released.
Close(r) ==
  /\ Go(r, "closing", "done")
  /\ ReleaseTableLease(r)
  /\ UNCHANGED <<clock, src, runVars, target, metaVars, storeVars, vetted>>

Crash(o) ==
  /\ pc[o] \notin {"idle", "done", "failed", "crashed"}
  /\ pc' = [pc EXCEPT ![o] = "crashed"]
  /\ Ends(o)
  /\ UNCHANGED <<clock, src, wm, target, metaVars, storeVars, vetted>>

MutantRenewFromExpiry(r) ==
  /\ pc[r] \in Beating
  /\ healthy[r]
  /\ HoldsTableLease(r, clock)
  /\ wm' = [wm EXCEPT !.expires = @ + TTL]
  /\ UNCHANGED <<clock, src, pc, runVars, target, metaVars, storeVars, vetted>>

\* LeaseHeartbeat: renewal with the real clock, until the first failure.
HeartbeatRenew(r) ==
  /\ pc[r] \in Beating
  /\ healthy[r]
  /\ HoldsTableLease(r, clock)
  /\ wm' = [wm EXCEPT !.expires = clock + TTL]
  /\ UNCHANGED <<clock, src, pc, runVars, target, metaVars, storeVars, vetted>>

HeartbeatFail(r) ==
  /\ pc[r] \in Beating
  /\ healthy[r]
  /\ healthy' = [healthy EXCEPT ![r] = FALSE]
  /\ UNCHANGED <<clock, src, wm, pc, batch, began, seen, token, upper, rows,
                 rejected, target, metaVars, storeVars, vetted>>

-----------------------------------------------------------------------------
(* rewind_tables, for one table                                            *)

\* cursor_before_timestamp: the last cursor below some boundary, or none.
RewindAim(w) ==
  /\ Go(w, "idle", "aimed")
  /\ \E c \in src \cup {0} : target' = [target EXCEPT ![w] = c]
  /\ UNCHANGED <<clock, src, wm, runVars, metaVars, storeVars, vetted>>

RewindLease(w) ==
  /\ Go(w, "aimed", "leased")
  /\ AcquireTableLease(w, clock)
  /\ UNCHANGED <<clock, src, batch, began, seen, upper, rows, rejected, healthy,
                 target, metaVars, storeVars, vetted>>

\* rewind_watermark
Rewind(w) ==
  /\ Go(w, "leased", "rewound")
  /\ HoldsTableLease(w, clock)
  /\ target[w] < wm.cursor
  /\ MoveCursor(target[w])
  /\ UNCHANGED <<clock, src, runVars, target, metaVars, storeVars, vetted>>

RewindFail(w) ==
  /\ Go(w, "leased", "closing")
  /\ UNCHANGED <<clock, src, wm, runVars, target, metaVars, storeVars, vetted>>

RewindClose(w) ==
  /\ Go(w, "rewound", "done") \/ Go(w, "closing", "failed")
  /\ ReleaseTableLease(w)
  /\ UNCHANGED <<clock, src, runVars, target, metaVars, storeVars, vetted>>

-----------------------------------------------------------------------------
(* reconcile_orphan for a candidate of find_orphan_candidates.  It takes no *)
(* lease and cannot tell a crashed run from a live one.                     *)

MutantVetIgnoresRejects(b) ==
  /\ b \notin vetted
  /\ bronze[b] = NoRun
  /\ object[b] # NoRun
  /\ manifest[b] = object[b]
  /\ vetted' = vetted \cup {b}
  /\ UNCHANGED <<clock, src, wm, pc, runVars, target, metaVars, storeVars>>

\* The stored evidence agrees and there is no quarantine object.
ReconcileVet(b) ==
  /\ b \notin vetted
  /\ bronze[b] = NoRun
  /\ object[b] # NoRun
  /\ manifest[b] = object[b]
  /\ quarantine[b] = NoRun
  /\ vetted' = vetted \cup {b}
  /\ UNCHANGED <<clock, src, wm, pc, runVars, target, metaVars, storeVars>>

\* The transaction: the run is RUNNING and the watermark is where it began.
Reconcile(b) ==
  /\ b \in vetted
  /\ status[manifest[b]] = "RUNNING"
  /\ wm.cursor = seen[manifest[b]].cursor
  /\ qmeta[b] = NoRun
  /\ bronze[b] = NoRun
  /\ bronze' = [bronze EXCEPT ![b] = manifest[b]]
  /\ SetStatus(manifest[b], "SUCCESS")
  /\ MoveCursor(upper[manifest[b]])
  /\ UNCHANGED <<clock, src, pc, runVars, target, qmeta, storeVars, vetted>>

-----------------------------------------------------------------------------
(* The environment.                                                        *)

\* A Generator run inserts a row or updates one: the new version is above
\* everything there.
SourceWrite ==
  /\ MaxOf(src) < MaxRow
  /\ \E old \in src \cup {0} : src' = (src \ {old}) \cup {MaxOf(src) + 1}
  /\ UNCHANGED <<clock, wm, pc, runVars, target, metaVars, storeVars, vetted>>

Tick ==
  /\ clock < MaxClock
  /\ clock' = clock + 1
  /\ UNCHANGED <<src, wm, pc, runVars, target, metaVars, storeVars, vetted>>

RunStep(r) ==
  \/ Begin(r) \/ LookupNothing(r) \/ LookupCommitted(r) \/ LeaseTable(r)
  \/ PrestartFail(r) \/ OpenSnapshot(r) \/ NoData(r) \/ NoDataFail(r)
  \/ WriteLocal(r) \/ PublishQuarantine(r) \/ UploadData(r)
  \/ UploadManifest(r) \/ Recheck(r) \/ CommitTableRun(r) \/ Fail(r)
  \/ Close(r) \/ HeartbeatRenew(r) \/ HeartbeatFail(r)

RewindStep(w) ==
  \/ RewindAim(w) \/ RewindLease(w) \/ Rewind(w) \/ RewindFail(w)
  \/ RewindClose(w)

Next ==
  \/ \E r \in Runs : RunStep(r)
  \/ \E w \in Rewinders : RewindStep(w)
  \/ \E o \in Owners : Crash(o)
  \/ \E b \in Reconciled : ReconcileVet(b) \/ Reconcile(b)
  \/ SourceWrite
  \/ Tick

Spec == Init /\ [][Next]_vars

-----------------------------------------------------------------------------
(* Properties                                                              *)

\* No row is lost: every current source row that the watermark has passed is
\* in the stored, catalogued Bronze object of some batch or, if it was
\* rejected, in a quarantine object that is stored and recorded.  Runs that
\* read a stale watermark, lose their lease, fail half way, are rewound under
\* or are reconciled while alive must not break this.
NoRowLost ==
  \A c \in src :
    c <= wm.cursor =>
      \E b \in Batches :
        /\ bronze[b] # NoRun
        /\ c \in rows[bronze[b]]
        /\ c \in rejected[bronze[b]] =>
             qmeta[b] = bronze[b] /\ quarantine[b] = bronze[b]

\* The metadata catalog is the commit authority: what it lists for a batch is
\* what the store holds for it, all of it from one and the same run.
CatalogMatchesStore ==
  \A b \in Batches :
    /\ bronze[b] # NoRun => object[b] = bronze[b] /\ manifest[b] = bronze[b]
    /\ qmeta[b] # NoRun => qmeta[b] = bronze[b]

\* A run is recorded SUCCESS exactly when its batch is catalogued from it, also
\* when it failed, crashed or was reconciled by another process meanwhile.
SuccessIffCatalogued ==
  \A r \in Runs : status[r] = "SUCCESS" <=> \E b \in Batches : bronze[b] = r

\* Nothing is loaded twice: as long as nobody rewinds, the row versions of
\* different batches are different, although runs read the watermark before
\* they own the table and may be overtaken by another run.
RowsLoadedOnce ==
  (\A w \in Rewinders : pc[w] \in {"idle", "aimed"}) =>
    \A a, b \in Batches :
      a # b /\ bronze[a] # NoRun /\ bronze[b] # NoRun
        => rows[bronze[a]] \cap rows[bronze[b]] = {}

\* A rewind is honoured: the watermark passes a row above its target only
\* with a run that leased the table, and so read the source, after it, or with
\* a batch that somebody set out to reconcile.
RewoundRowsReread ==
  \A w \in Rewinders :
    pc[w] \in {"rewound", "done"} =>
      \A c \in src :
        target[w] < c /\ c <= wm.cursor =>
          \E b \in Batches :
            /\ bronze[b] # NoRun
            /\ c \in rows[bronze[b]]
            /\ token[bronze[b]] > token[w] \/ b \in vetted

\* The same without the exception, as rewind_watermark promises it: what is
\* above the target is extracted again.
RewindHonoured ==
  \A w \in Rewinders :
    pc[w] \in {"rewound", "done"} =>
      \A c \in src :
        target[w] < c /\ c <= wm.cursor =>
          \E b \in Batches :
            /\ bronze[b] # NoRun
            /\ c \in rows[bronze[b]]
            /\ token[bronze[b]] > token[w]

=============================================================================
