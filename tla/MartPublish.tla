---------------------------- MODULE MartPublish ----------------------------
(***************************************************************************)
(* Publishing the mart warehouse (src/warehouse): a publish run copies the *)
(* published DuckDB file, lets dbt build on the copy, and swaps it in with *)
(* os.replace; mart_publish_runs records how far it got.  Every run begins *)
(* by recovering what earlier ones left behind, and so does the            *)
(* --recover-only command.                                                 *)
(*                                                                         *)
(* Time only matters through PUBLISH_LEASE: stale says that the last       *)
(* heartbeat of a run is older than that.  A file is represented by the    *)
(* run that built it, which is also what its recorded inode and mtime      *)
(* identify.                                                               *)
(***************************************************************************)
CONSTANTS
  Publishers,  \* publish runs, each with a fresh publish_run_id
  Recoverers,  \* callers of publish.py --recover-only, again and again
  NoFile,      \* no file, no run
  DagRuns,     \* DAG runs that prepare publish runs
  NoDag        \* dag_run_id of a run of the command line: NULL

ASSUME ActorsAssumption ==
  /\ Publishers \cap Recoverers = {}
  /\ NoFile \notin Publishers \cup Recoverers
ASSUME DagAssumption == NoDag \notin DagRuns

VARIABLES
  pc,         \* where an actor is
  dag,        \* dag_run_id of a publish run
  status,     \* metadata: mart_publish_runs.status
  stale,      \* metadata: heartbeat_at is older than PUBLISH_LEASE
  previous,   \* metadata: previous_publish_run_id
  latest,     \* metadata: the run recorded PUBLISHED last
  published,  \* files: the run whose file is the published one
  build,      \* files: the build file of a run
  base,       \* the published file a run found when it made its build file
  victim,     \* the run an actor is recovering
  verdict,    \* what the actor found out about it: was its file swapped in
  overtaken   \* history: has a run swapped that recovery had in hand

metaVars == <<status, stale, previous, latest>>
fileVars == <<published, overtaken, build, base>>
lookVars == <<victim, verdict>>
vars == <<pc, dag, metaVars, fileVars, lookVars>>

-----------------------------------------------------------------------------
Actors   == Publishers \cup Recoverers
MaybeRun == Publishers \cup {NoFile}

RecoverPC == {"recovering", "looked", "judged", "closed"}
PublishPC ==
  {"idle", "reclaiming", "reclaimed", "clear", "started", "copied", "prepared",
   "dbtRan", "built", "hashed", "publishing", "swapped", "failing", "isolated",
   "done", "crashed"}

\* Inside the try block of publish_build.
InPublishBuild == {"built", "hashed", "publishing", "swapped"}
\* Inside a handler whose exceptions go to _fail, and inside publish_heartbeat.
InHandler == {"started", "copied", "prepared", "dbtRan"} \cup InPublishBuild
\* The process is gone.
Ended == {"done", "crashed"}

Active(p) == status[p] \in {"BUILDING", "PUBLISHING"}

TypeOK ==
  /\ pc \in [Actors -> RecoverPC \cup PublishPC]
  /\ dag \in [Publishers -> DagRuns \cup {NoDag}]
  /\ status \in [Publishers -> {"NONE", "BUILDING", "PUBLISHING", "PUBLISHED",
                                "FAILED"}]
  /\ stale \in [Publishers -> BOOLEAN]
  /\ previous \in [Publishers -> MaybeRun]
  /\ latest \in MaybeRun
  /\ published \in MaybeRun
  /\ build \in [Publishers -> {"none", "copy", "scratch"}]
  /\ base \in [Publishers -> MaybeRun]
  /\ victim \in [Actors -> MaybeRun]
  /\ verdict \in [Actors -> BOOLEAN]
  /\ overtaken \in BOOLEAN

Init ==
  /\ pc = [a \in Actors |-> "idle"]
  /\ dag \in [Publishers -> DagRuns \cup {NoDag}]
  /\ status = [p \in Publishers |-> "NONE"]
  /\ stale = [p \in Publishers |-> FALSE]
  /\ previous = [p \in Publishers |-> NoFile]
  /\ latest = NoFile
  /\ published = NoFile
  /\ build = [p \in Publishers |-> "none"]
  /\ base = [p \in Publishers |-> NoFile]
  /\ victim = [a \in Actors |-> NoFile]
  /\ verdict = [a \in Actors |-> FALSE]
  /\ overtaken = FALSE

-----------------------------------------------------------------------------
Go(a, from, to) == pc[a] = from /\ pc' = [pc EXCEPT ![a] = to]

\* _transition and the other conditional UPDATEs of the status.
SetStatus(p, new) == status' = [status EXCEPT ![p] = new]

\* What an actor does after its recovery: a publish run goes on, the command
\* ends and will be called again.
AfterRecovery(a) == IF a \in Publishers THEN "clear" ELSE "idle"

\* The local variables of a recovery that is through with a run.
Forget(a) ==
  /\ victim' = [victim EXCEPT ![a] = NoFile]
  /\ verdict' = [verdict EXCEPT ![a] = FALSE]

-----------------------------------------------------------------------------
(* recover_incomplete_publishes                                            *)

\* prepare_warehouse_build or --recover-only begins.
RecoverBegin(a) ==
  /\ Go(a, "idle", IF a \in Publishers THEN "reclaiming" ELSE "recovering")
  /\ UNCHANGED <<dag, metaVars, fileVars, lookVars>>

MutantReclaimAbandoned(p) ==
  /\ \/ \E q \in Publishers :
          /\ status[q] = "BUILDING" /\ dag[q] = dag[p] /\ dag[p] # NoDag
          /\ SetStatus(q, "ABANDONED")
          /\ victim' = [victim EXCEPT ![p] = q]
          /\ verdict' = [verdict EXCEPT ![p] = FALSE]
          /\ Go(p, "reclaiming", "reclaimed")
     \/ /\ dag[p] # NoDag =>
             \A q \in Publishers : status[q] = "BUILDING" => dag[q] # dag[p]
        /\ Go(p, "reclaiming", "recovering")
        /\ UNCHANGED <<status, lookVars>>
  /\ UNCHANGED <<dag, stale, previous, latest, fileVars>>

\* close_dag_run_building: the rows an earlier try of the same DAG run left
\* BUILDING are closed, whatever their heartbeat.  At most one run is active.
Reclaim(p) ==
  /\ \/ \E q \in Publishers :
          /\ status[q] = "BUILDING" /\ dag[q] = dag[p] /\ dag[p] # NoDag
          /\ SetStatus(q, "FAILED")
          /\ victim' = [victim EXCEPT ![p] = q]
          /\ verdict' = [verdict EXCEPT ![p] = FALSE]
          /\ Go(p, "reclaiming", "reclaimed")
     \/ /\ dag[p] # NoDag =>
             \A q \in Publishers : status[q] = "BUILDING" => dag[q] # dag[p]
        /\ Go(p, "reclaiming", "recovering")
        /\ UNCHANGED <<status, lookVars>>
  /\ UNCHANGED <<dag, stale, previous, latest, fileVars>>

MutantLookAtBuildingOnly(a) ==
  /\ \/ \E p \in Publishers :
          /\ status[p] = "BUILDING" /\ stale[p]
          /\ victim' = [victim EXCEPT ![a] = p]
          /\ verdict' = [verdict EXCEPT ![a] = FALSE]
          /\ Go(a, "recovering", "looked")
     \/ /\ \A p \in Publishers : status[p] = "BUILDING" => ~stale[p]
        /\ Go(a, "recovering", AfterRecovery(a))
        /\ UNCHANGED lookVars
  /\ UNCHANGED <<dag, metaVars, fileVars>>

\* stale_active_runs: the row as it is now, its status included.
RecoverLook(a) ==
  /\ \/ \E p \in Publishers :
          /\ Active(p) /\ stale[p]
          /\ victim' = [victim EXCEPT ![a] = p]
          /\ verdict' = [verdict EXCEPT ![a] = status[p] = "PUBLISHING"]
          /\ Go(a, "recovering", "looked")
     \/ /\ \A p \in Publishers : Active(p) => ~stale[p]
        /\ Go(a, "recovering", AfterRecovery(a))
        /\ UNCHANGED lookVars
  /\ UNCHANGED <<dag, metaVars, fileVars>>

MutantJudgeByStatus(a) ==
  /\ Go(a, "looked", "judged")
  /\ UNCHANGED <<dag, metaVars, fileVars, lookVars>>

MutantIdentityBeforeCheckpoint(a) ==
  /\ Go(a, "looked", "judged")
  /\ verdict' = [verdict EXCEPT ![a] = FALSE]
  /\ UNCHANGED <<dag, metaVars, fileVars, victim>>

\* _published_identity_matches: the published file is the one whose inode and
\* mtime a row read as PUBLISHING recorded.
RecoverJudge(a) ==
  /\ Go(a, "looked", "judged")
  /\ verdict' = [verdict EXCEPT ![a] = @ /\ published = victim[a]]
  /\ UNCHANGED <<dag, metaVars, fileVars, victim>>

\* close_stale_run: only if the row is still active and stale.
RecoverClose(a) ==
  /\ LET p == victim[a] IN
     \/ /\ p # NoFile /\ Active(p)
        /\ SetStatus(p, IF verdict[a] THEN "PUBLISHED" ELSE "FAILED")
        /\ latest' = IF verdict[a] THEN p ELSE latest
        /\ Go(a, "judged", "closed")
        /\ UNCHANGED lookVars
     \/ /\ p # NoFile => ~Active(p)
        /\ Go(a, "judged", AfterRecovery(a))
        /\ Forget(a)
        /\ UNCHANGED <<status, latest>>
  /\ UNCHANGED <<dag, stale, previous, fileVars>>

\* _clean_failed_recovery moves the build file of the closed run to failed/,
\* and a PUBLISHED one is unlinked: either way it is gone.
RecoverClean(a) ==
  /\ Go(a, "reclaimed", "recovering") \/ Go(a, "closed", AfterRecovery(a))
  /\ build' = [build EXCEPT ![victim[a]] = "none"]
  /\ Forget(a)
  /\ UNCHANGED <<dag, metaVars, published, overtaken, base>>

\* An exception or the death of a recovery; the command is called again.
RecoverFail(a) ==
  /\ pc[a] \in RecoverPC \cup {"reclaiming", "reclaimed", "clear"}
  /\ pc' = [pc EXCEPT ![a] = IF a \in Publishers THEN "crashed" ELSE "idle"]
  /\ Forget(a)
  /\ UNCHANGED <<dag, metaVars, fileVars>>

-----------------------------------------------------------------------------
(* prepare_warehouse_build                                                 *)

MutantStartUnindexed(p) ==
  /\ Go(p, "clear", "started")
  /\ SetStatus(p, "BUILDING")
  /\ previous' = [previous EXCEPT ![p] = latest]
  /\ UNCHANGED <<dag, stale, latest, fileVars, lookVars>>

\* start_publish_run, under the unique index on active rows.
Start(p) ==
  /\ Go(p, "clear", "started")
  /\ \A q \in Publishers : ~Active(q)
  /\ SetStatus(p, "BUILDING")
  /\ previous' = [previous EXCEPT ![p] = latest]
  /\ UNCHANGED <<dag, stale, latest, fileVars, lookVars>>

\* PublishInProgressError
Refuse(p) ==
  /\ Go(p, "clear", "done")
  /\ \E q \in Publishers : Active(q)
  /\ UNCHANGED <<dag, metaVars, fileVars, lookVars>>

\* The published file is copied, if there is one.
Copy(p) ==
  /\ Go(p, "started", "copied")
  /\ base' = [base EXCEPT ![p] = published]
  /\ build' = IF published = NoFile THEN build ELSE [build EXCEPT ![p] = "copy"]
  /\ UNCHANGED <<dag, metaVars, published, overtaken, lookVars>>

\* duckdb.connect creates the build file anew when it is not there.
OpenBuild(p, ifMissing) ==
  build' = [build EXCEPT ![p] = IF @ = "none" THEN ifMissing ELSE @]

\* sync_bronze_catalog
SyncCatalog(p) ==
  /\ Go(p, "copied", "prepared")
  /\ OpenBuild(p, IF base[p] = NoFile THEN "copy" ELSE "scratch")
  /\ UNCHANGED <<dag, metaVars, published, overtaken, base, lookVars>>

-----------------------------------------------------------------------------
(* build_warehouse                                                         *)

\* dbt build succeeds on whatever build file it finds.
DbtRun(p) ==
  /\ Go(p, "prepared", "dbtRan")
  /\ OpenBuild(p, "scratch")
  /\ UNCHANGED <<dag, metaVars, published, overtaken, base, lookVars>>

\* record_dbt_result
RecordDbt(p) ==
  /\ Go(p, "dbtRan", "built")
  /\ status[p] = "BUILDING"
  /\ UNCHANGED <<dag, metaVars, fileVars, lookVars>>

-----------------------------------------------------------------------------
(* publish_build                                                           *)

\* CHECKPOINT, hashes, row counts and the identity of the build file.
HashBuild(p) ==
  /\ Go(p, "built", "hashed")
  /\ OpenBuild(p, "scratch")
  /\ UNCHANGED <<dag, metaVars, published, overtaken, base, lookVars>>

MutantMarkAnyPublishing(p) ==
  /\ Go(p, "hashed", "publishing")
  /\ SetStatus(p, "PUBLISHING")
  /\ UNCHANGED <<dag, stale, previous, latest, fileVars, lookVars>>

MarkPublishing(p) ==
  /\ Go(p, "hashed", "publishing")
  /\ status[p] = "BUILDING"
  /\ SetStatus(p, "PUBLISHING")
  /\ UNCHANGED <<dag, stale, previous, latest, fileVars, lookVars>>

\* Recovery has closed the row of a run that is about to swap, or has read it
\* and may close it: the heartbeat was late.
Overtaken(p) ==
  status[p] # "PUBLISHING" \/ \E a \in Actors : victim[a] = p

\* os.replace asks nobody.
Swap(p) ==
  /\ Go(p, "publishing", "swapped")
  /\ build[p] # "none"
  /\ published' = p
  /\ overtaken' = (overtaken \/ Overtaken(p))
  /\ build' = [build EXCEPT ![p] = "none"]
  /\ UNCHANGED <<dag, metaVars, base, lookVars>>

MarkPublished(p) ==
  /\ Go(p, "swapped", "done")
  /\ status[p] = "PUBLISHING"
  /\ SetStatus(p, "PUBLISHED")
  /\ latest' = p
  /\ UNCHANGED <<dag, stale, previous, fileVars, lookVars>>

-----------------------------------------------------------------------------
(* Exceptions, a refused transition or a failed dbt build among them.      *)

\* In publish_build, _fail is called only while the build file is there.
Fail(p) ==
  /\ pc[p] \in InHandler
  /\ pc[p] \in InPublishBuild => build[p] # "none"
  /\ pc' = [pc EXCEPT ![p] = "failing"]
  /\ UNCHANGED <<dag, metaVars, fileVars, lookVars>>

GiveUp(p) ==
  /\ pc[p] \in InPublishBuild
  /\ build[p] = "none"
  /\ pc' = [pc EXCEPT ![p] = "done"]
  /\ UNCHANGED <<dag, metaVars, fileVars, lookVars>>

\* _fail: _isolate_build ...
FailIsolate(p) ==
  /\ Go(p, "failing", "isolated")
  /\ build' = [build EXCEPT ![p] = "none"]
  /\ UNCHANGED <<dag, metaVars, published, overtaken, base, lookVars>>

\* ... and mark_failed, which raises when recovery has closed the row.
FailMark(p) ==
  /\ Go(p, "isolated", "done")
  /\ status' = IF Active(p) THEN [status EXCEPT ![p] = "FAILED"] ELSE status
  /\ UNCHANGED <<dag, stale, previous, latest, fileVars, lookVars>>

\* The process dies, or a DAG run stops between two of its tasks.
Crash(p) ==
  /\ pc[p] \in InHandler \cup {"failing", "isolated"}
  /\ pc' = [pc EXCEPT ![p] = "crashed"]
  /\ UNCHANGED <<dag, metaVars, fileVars, lookVars>>

\* touch_publish_run: the heartbeat thread of a live run.  A recovery that
\* has already read the row as stale will not find it stale any more.
Touch(p) ==
  /\ pc[p] \in InHandler \cup {"failing", "isolated"}
  /\ Active(p) /\ stale[p]
  /\ stale' = [stale EXCEPT ![p] = FALSE]
  /\ victim' = [a \in Actors |->
       IF victim[a] = p /\ pc[a] \in {"looked", "judged"} THEN NoFile
       ELSE victim[a]]
  /\ UNCHANGED <<pc, dag, status, previous, latest, fileVars, verdict>>

\* PUBLISH_LEASE passes without a heartbeat: the run is dead, waits between
\* two tasks, or is stopped or cut off from the database.
Expire(p) ==
  /\ Active(p) /\ ~stale[p]
  /\ stale' = [stale EXCEPT ![p] = TRUE]
  /\ UNCHANGED <<pc, dag, status, previous, latest, fileVars, lookVars>>

-----------------------------------------------------------------------------
RecoverStep(a) ==
  \/ RecoverBegin(a) \/ RecoverLook(a) \/ RecoverJudge(a) \/ RecoverClose(a)
  \/ RecoverClean(a) \/ RecoverFail(a)

PublishStep(p) ==
  \/ Reclaim(p) \/ Start(p) \/ Refuse(p) \/ Copy(p) \/ SyncCatalog(p)
  \/ DbtRun(p) \/ RecordDbt(p) \/ HashBuild(p) \/ MarkPublishing(p) \/ Swap(p)
  \/ MarkPublished(p) \/ Fail(p) \/ GiveUp(p) \/ FailIsolate(p) \/ FailMark(p)
  \/ Crash(p) \/ Touch(p) \/ Expire(p)

Next ==
  \/ \E a \in Actors : RecoverStep(a)
  \/ \E p \in Publishers : PublishStep(p)

Spec == Init /\ [][Next]_vars

\* A live process takes the step after its swap; time passes for the row of
\* an ended one; and recovery is started again and again and does not fail
\* at the same point every time.
Fairness ==
  /\ \A p \in Publishers :
       /\ WF_vars(MarkPublished(p) \/ GiveUp(p))
       /\ WF_vars(pc[p] \in Ended /\ Expire(p))
  /\ \A a \in Recoverers :
       /\ WF_vars(RecoverBegin(a)) /\ SF_vars(RecoverLook(a))
       /\ SF_vars(RecoverJudge(a)) /\ SF_vars(RecoverClose(a))
       /\ WF_vars(RecoverClean(a))

FairSpec == Spec /\ Fairness

-----------------------------------------------------------------------------
(* Properties                                                              *)

Recorded == {p \in Publishers : status[p] = "PUBLISHED"}

Versions == INSTANCE MartVersions
              WITH file <- published, recorded <- latest, past <- Recorded

\* Publishing implements MartVersions, up to a swap of a run that recovery has
\* overtaken: whatever crashes, is reclaimed or is recovered, and however late
\* heartbeats are, the file is not replaced again before the last replacement
\* is recorded, no run is recorded PUBLISHED but the one whose file is there,
\* and the file of a run once published does not come back.
ImplementsVersions ==
  Versions!Init /\ [][overtaken' \/ Versions!Next]_(Versions!vars)

\* No update is lost before that: a build file that replaces the published
\* file is a complete copy of that very file, built upon.
SwapsOntoItsBase ==
  [][\A p \in Publishers :
       pc[p] = "publishing" /\ pc'[p] = "swapped" /\ ~overtaken'
         => base[p] = published /\ build[p] = "copy"]_vars

\* The run that changed_relations compares a published run with is the one
\* whose marts its build started from, as long as no overtaken run swapped.
PreviousIsBase ==
  ~overtaken =>
    \A p \in Publishers : status[p] = "PUBLISHED" => previous[p] = base[p]

\* A build file that dbt or a checkpoint created anew, after recovery took the
\* copy away, is never published: a run that recovery has overtaken can at most
\* publish the complete build it had, whatever was published since.
ScratchNeverPublished ==
  [][\A p \in Publishers :
       pc[p] = "publishing" /\ pc'[p] = "swapped" => build[p] # "scratch"]_vars

\* An abandoned run does not block publishing for ever: its row is closed.
AbandonedRunClosed ==
  \A p \in Publishers : pc[p] \in Ended /\ Active(p) ~> ~Active(p)

\* Every swap gets recorded, also when the publisher dies right after it, unless
\* some run swapped after recovery had overtaken it.
SwapIsRecorded ==
  \A p \in Publishers :
    published = p ~> status[p] = "PUBLISHED" \/ overtaken

=============================================================================
