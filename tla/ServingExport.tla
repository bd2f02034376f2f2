--------------------------- MODULE ServingExport ---------------------------
(***************************************************************************)
(* Serving export (src/serving): an export copies the published marts to a *)
(* file of its own, links it into exports/, replaces mart.duckdb with it,  *)
(* points Metabase at the linked file, checks through Metabase that it is  *)
(* read, and prunes old files.  The warehouse DAG does this in two tasks,  *)
(* the second of them retried; the command line does it in one go.  The    *)
(* published file underneath is replaced as MartVersions says.             *)
(*                                                                         *)
(* A served file is the export that made it; its serving_manifest names    *)
(* the publish run the export was asked for.                               *)
(***************************************************************************)
EXTENDS Naturals, FiniteSets

CONSTANTS
  Publishers,  \* publish runs
  NoFile,      \* no file, no run
  Exports,     \* exports, each with a fresh export_id
  DagExports,  \* those of them made by DAG runs
  Canonical,   \* the path /serving/mart.duckdb
  Retention,   \* SERVING_EXPORT_RETENTION
  Exclusive    \* is no export started before the others are through

ASSUME ExportsAssumption ==
  /\ DagExports \subseteq Exports
  /\ NoFile \notin Publishers \cup Exports
  /\ Canonical \notin Exports
ASSUME RetentionAssumption == Retention \in Nat \ {0}
ASSUME ExclusiveAssumption == Exclusive \in BOOLEAN

VARIABLES
  file, recorded, past,  \* the published warehouse: see MartVersions
  managed,  \* are METABASE_URL, _API_KEY and _SERVING_DATABASE_ID all set
  pc,       \* where an export is
  claim,    \* the publish run it was asked to export
  content,  \* the publish run whose marts it copied
  mtime,    \* when its file was written last, 0 before
  ticks,    \* number of files written so far
  exports,  \* the files in exports/
  serving,  \* the export whose file is mart.duckdb
  pointer,  \* Metabase: details.database_file
  doomed,   \* files a pruning export has listed for deletion
  left      \* publish runs Metabase showed and was moved away from

Marts == INSTANCE MartVersions

martVars == <<file, recorded, past>>
copyVars == <<claim, content, mtime, ticks>>
viewVars == <<serving, pointer, left>>
vars == <<martVars, managed, pc, copyVars, exports, viewVars, doomed>>

-----------------------------------------------------------------------------
\* Inside the try block of export_serving_mart and in front of it.
Copying == {"begun", "checked", "copied", "written", "rechecked", "linked",
            "replaced"}
\* Inside repoint_and_prune_serving, or waiting for it.
Repointing == {"exported", "got", "put", "settled", "pruning"}
\* An export that is through.
Ended == {"failed", "crashed", "done"}

TypeOK ==
  /\ file \in Publishers \cup {NoFile}
  /\ recorded \in Publishers \cup {NoFile}
  /\ past \subseteq Publishers
  /\ managed \in BOOLEAN
  /\ pc \in [Exports -> {"idle", "refused"} \cup Copying \cup Repointing
                          \cup Ended]
  /\ claim \in [Exports -> Publishers \cup {NoFile}]
  /\ content \in [Exports -> Publishers \cup {NoFile}]
  /\ mtime \in [Exports -> Nat]
  /\ ticks \in Nat
  /\ exports \subseteq Exports
  /\ serving \in Exports \cup {NoFile}
  /\ pointer \in Exports \cup {Canonical}
  /\ doomed \in [Exports -> SUBSET Exports]
  /\ left \subseteq Publishers

Init ==
  /\ Marts!Init
  /\ managed \in BOOLEAN
  /\ pc = [e \in Exports |-> "idle"]
  /\ claim = [e \in Exports |-> NoFile]
  /\ content = [e \in Exports |-> NoFile]
  /\ mtime = [e \in Exports |-> 0]
  /\ ticks = 0
  /\ exports = {}
  /\ serving = NoFile
  /\ pointer = Canonical
  /\ doomed = [e \in Exports |-> {}]
  /\ left = {}

-----------------------------------------------------------------------------
Go(e, from, to) == pc[e] = from /\ pc' = [pc EXCEPT ![e] = to]

\* The publish run Metabase shows when it opens a path and mart.duckdb is the
\* file of export mart.
ShownRun(path, mart) ==
  LET e == IF path = Canonical THEN mart ELSE path
  IN  IF e = NoFile THEN NoFile ELSE claim[e]

\* Bookkeeping for a step that may change what Metabase shows.
Leave(path, mart) ==
  left' = left \cup
    ({ShownRun(pointer, serving)} \ {NoFile, ShownRun(path, mart)})

-----------------------------------------------------------------------------
(* export_serving_mart                                                     *)

\* A DAG run exports what it published itself, some time ago; the command line
\* exports the latest run recorded PUBLISHED.
Begin(e) ==
  /\ Go(e, "idle", "begun")
  /\ Exclusive => \A d \in Exports : pc[d] \in {"idle"} \cup Ended
  /\ \E p \in past :
       /\ e \notin DagExports => p = recorded
       /\ claim' = [claim EXCEPT ![e] = p]
  /\ UNCHANGED <<martVars, managed, content, mtime, ticks, exports, viewVars,
                 doomed>>

MutantNoIdentity(e) == file # NoFile

\* _require_identity: the published file has the recorded inode and mtime.
RequireIdentity(e) == file = claim[e]

Check(e) ==
  /\ Go(e, "begun", "checked")
  /\ RequireIdentity(e)
  /\ UNCHANGED <<martVars, managed, copyVars, exports, viewVars, doomed>>

\* _copy_mart_objects: what it reads is the file that was there on ATTACH.
Copy(e) ==
  /\ Go(e, "checked", "copied")
  /\ content' = [content EXCEPT ![e] = file]
  /\ UNCHANGED <<martVars, managed, claim, mtime, ticks, exports, viewVars,
                 doomed>>

\* _record_manifest, _validate_serving_file and CHECKPOINT.
Write(e) ==
  /\ Go(e, "copied", "written")
  /\ mtime' = [mtime EXCEPT ![e] = ticks + 1]
  /\ ticks' = ticks + 1
  /\ UNCHANGED <<martVars, managed, claim, content, exports, viewVars, doomed>>

MutantRecheckNothing(e) ==
  /\ Go(e, "written", "rechecked")
  /\ UNCHANGED <<martVars, managed, copyVars, exports, viewVars, doomed>>

Recheck(e) ==
  /\ Go(e, "written", "rechecked")
  /\ RequireIdentity(e)
  /\ UNCHANGED <<martVars, managed, copyVars, exports, viewVars, doomed>>

\* os.link into exports/
Link(e) ==
  /\ Go(e, "rechecked", "linked")
  /\ exports' = exports \cup {e}
  /\ UNCHANGED <<martVars, managed, copyVars, viewVars, doomed>>

\* os.replace of mart.duckdb
ReplaceServing(e) ==
  /\ Go(e, "linked", "replaced")
  /\ serving' = e
  /\ Leave(pointer, e)
  /\ UNCHANGED <<martVars, managed, copyVars, exports, pointer, doomed>>

\* The directories are synced and the result is returned.
Return(e) ==
  /\ Go(e, "replaced", "exported")
  /\ UNCHANGED <<martVars, managed, copyVars, exports, viewVars, doomed>>

\* An exception: the linked file is removed, also when mart.duckdb has been
\* replaced already.
ExportFail(e) ==
  /\ pc[e] \in Copying
  /\ pc' = [pc EXCEPT ![e] = "failed"]
  /\ exports' = exports \ {e}
  /\ UNCHANGED <<martVars, managed, copyVars, viewVars, doomed>>

\* The process dies; the export task is not retried.
ExportCrash(e) ==
  /\ pc[e] \in Copying
  /\ pc' = [pc EXCEPT ![e] = "crashed"]
  /\ UNCHANGED <<martVars, managed, copyVars, exports, viewVars, doomed>>

-----------------------------------------------------------------------------
(* repoint_and_prune_serving                                               *)

\* SKIPPED: Metabase is not configured.
Skip(e) ==
  /\ Go(e, "exported", "settled")
  /\ ~managed
  /\ UNCHANGED <<martVars, managed, copyVars, exports, viewVars, doomed>>

\* GET of the details that the PUT will send back with another path.
Get(e) ==
  /\ Go(e, "exported", "got")
  /\ managed
  /\ UNCHANGED <<martVars, managed, copyVars, exports, viewVars, doomed>>

MutantPutRunId(e) ==
  /\ Go(e, "got", "put")
  /\ pointer' = claim[e]
  /\ UNCHANGED <<martVars, managed, copyVars, exports, serving, left, doomed>>

Put(e) ==
  /\ Go(e, "got", "put")
  /\ pointer' = e
  /\ Leave(e, serving)
  /\ UNCHANGED <<martVars, managed, copyVars, exports, serving, doomed>>

\* read_live_serving_manifest: Metabase opens the file it is pointed at and
\* must find this export in it.
Verify(e) ==
  /\ Go(e, "put", "settled")
  /\ pointer = e /\ e \in exports
  /\ UNCHANGED <<martVars, managed, copyVars, exports, viewVars, doomed>>

\* prune_serving_exports keeps the files written last.
Newest ==
  {e \in exports :
     Cardinality({d \in exports : mtime[d] > mtime[e]}) < Retention}

MutantListAfterFailure(e) ==
  /\ Go(e, "settled", "pruning") \/ Go(e, "refused", "pruning")
  /\ doomed' = [doomed EXCEPT ![e] = exports \ Newest]
  /\ UNCHANGED <<martVars, managed, copyVars, exports, viewVars>>

\* ... lists the others ...
List(e) ==
  /\ Go(e, "settled", "pruning")
  /\ doomed' = [doomed EXCEPT ![e] = exports \ Newest]
  /\ UNCHANGED <<martVars, managed, copyVars, exports, viewVars>>

\* ... and unlinks one after the other.
Unlink(e) ==
  /\ pc[e] = "pruning"
  /\ \E v \in doomed[e] :
       /\ v \in exports
       /\ exports' = exports \ {v}
       /\ doomed' = [doomed EXCEPT ![e] = @ \ {v}]
  /\ UNCHANGED <<martVars, managed, pc, copyVars, viewVars>>

Finish(e) ==
  /\ Go(e, "pruning", "done")
  /\ doomed[e] = {}
  /\ UNCHANGED <<martVars, managed, copyVars, exports, viewVars, doomed>>

\* FAILED, an exception (unlink finds a file gone, for one) or the death of
\* the process.  Nothing is undone and nothing more is pruned.
RepointFail(e) ==
  /\ pc[e] \in Repointing
  /\ pc' = [pc EXCEPT ![e] = "refused"]
  /\ doomed' = [doomed EXCEPT ![e] = {}]
  /\ UNCHANGED <<martVars, managed, copyVars, exports, viewVars>>

\* Airflow runs the task again.
Retry(e) ==
  /\ e \in DagExports
  /\ Go(e, "refused", "exported")
  /\ UNCHANGED <<martVars, managed, copyVars, exports, viewVars, doomed>>

\* The retries are used up, or the command line has returned 1.
GiveUp(e) ==
  /\ Go(e, "refused", "done")
  /\ UNCHANGED <<martVars, managed, copyVars, exports, viewVars, doomed>>

-----------------------------------------------------------------------------
\* The warehouse is published.
Publish ==
  /\ Marts!Next
  /\ UNCHANGED <<managed, pc, copyVars, exports, viewVars, doomed>>

ExportStep(e) ==
  \/ Begin(e) \/ Check(e) \/ Copy(e) \/ Write(e) \/ Recheck(e) \/ Link(e)
  \/ ReplaceServing(e) \/ Return(e) \/ ExportFail(e) \/ ExportCrash(e)

RepointStep(e) ==
  \/ Skip(e) \/ Get(e) \/ Put(e) \/ Verify(e) \/ List(e) \/ Unlink(e)
  \/ Finish(e) \/ RepointFail(e) \/ Retry(e) \/ GiveUp(e)

Next == Publish \/ \E e \in Exports : ExportStep(e) \/ RepointStep(e)

Spec == Init /\ [][Next]_vars

-----------------------------------------------------------------------------
(* Properties                                                              *)

\* A served file holds the marts its serving_manifest names, although the
\* published file may be replaced while it is copied and exports may overlap.
ManifestTrue ==
  \A e \in Exports : e \in exports \/ serving = e => content[e] = claim[e]

\* The file Metabase is pointed at exists: it is neither pruned nor removed by
\* a failing export, and Metabase is not pointed at a file that has been.
PointedFileExists == pointer \in exports \cup {Canonical}

\* Metabase never goes back to a publish run it was moved away from, whichever
\* exports fail, are retried or crash between linking, replacing and pointing.
NeverShowsOlder == ShownRun(pointer, serving) \notin left

=============================================================================
