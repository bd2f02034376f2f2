-------------------------- MODULE MartPublishProofs --------------------------
(***************************************************************************)
(* Proofs about MartPublish for every set of publish runs, recoveries and  *)
(* DAG runs.  A row leaves its active status once and for all, so recovery *)
(* only takes the files of runs that can no longer be marked PUBLISHING    *)
(* (CompleteBuild).  Until a run swaps that recovery has overtaken,        *)
(* recovery's verdict on a run stays right until its row is closed         *)
(* (VerdictRight) and the file and the metadata only ever differ by the    *)
(* one active run (FileRecorded).                                          *)
(***************************************************************************)
EXTENDS MartPublish, TLAPS

BeforeStart ==
  RecoverPC \cup {"idle", "reclaiming", "reclaimed", "clear"}
BeforeSwap ==
  BeforeStart \cup {"started", "copied", "prepared", "dbtRan", "built",
                    "hashed", "publishing", "failing", "isolated"}
Copied ==
  {"copied", "prepared", "dbtRan", "built", "hashed", "publishing", "swapped"}

\* What the unique index on active rows gives.
OneActive ==
  \A p, q \in Publishers : Active(p) /\ Active(q) => p = q

\* start_publish_run is what creates the row.
NotStarted ==
  \A p \in Publishers : pc[p] \in BeforeStart => status[p] = "NONE"

Closed(p) == status[p] \in {"PUBLISHED", "FAILED"}

\* Recovery touches the files of a run only after it closed its row.
ClosedVictim ==
  \A a \in Actors :
    pc[a] \in {"reclaimed", "closed"} =>
      victim[a] \in Publishers /\ Closed(victim[a])

\* As long as its row is BUILDING, a run works on the copy it made.
CompleteBuild ==
  \A p \in Publishers :
    /\ pc[p] \in BeforeStart \cup {"started", "copied", "publishing"}
         => build[p] # "scratch"
    /\ status[p] = "BUILDING" /\ pc[p] = "copied"
         => build[p] = "copy" \/ base[p] = NoFile
    /\ pc[p] \in {"prepared", "dbtRan", "built", "hashed"}
         => (status[p] = "BUILDING" => build[p] = "copy")

\* Recovery only picks up runs that have a row.
VictimStarted ==
  \A a \in Actors :
    pc[a] \in {"looked", "judged"} /\ victim[a] # NoFile =>
      status[victim[a]] # "NONE"

\* Whose file may be the published one.
SwapPlace ==
  \A p \in Publishers :
    /\ pc[p] \in BeforeSwap => published # p /\ status[p] # "PUBLISHED"
    /\ pc[p] = "swapped" => build[p] = "none"
    /\ pc[p] = "swapped" /\ status[p] = "PUBLISHING" => published = p
    /\ published = p => status[p] \in {"PUBLISHING", "PUBLISHED"}

\* What recovery found out about a run is so as long as its row is active: a
\* row read as BUILDING had not been swapped in, and a run that swaps while it
\* is in recovery's hands is overtaken.
VerdictRight ==
  \A a \in Actors :
    victim[a] # NoFile /\ Active(victim[a]) =>
      /\ pc[a] = "looked" =>
           /\ verdict[a] => status[victim[a]] = "PUBLISHING"
           /\ published = victim[a] => verdict[a]
      /\ pc[a] = "judged" => (verdict[a] <=> published = victim[a])

\* The published file is the last recorded one, or that of the active run.
FileRecorded ==
  /\ latest # NoFile => status[latest] = "PUBLISHED"
  /\ published # latest =>
       published \in Publishers /\ status[published] = "PUBLISHING"

\* The run a build is compared with and the file it started from.
PreviousFound ==
  \A p \in Publishers :
    /\ Active(p) => previous[p] = latest
    /\ Active(p) /\ pc[p] \in Copied => base[p] = previous[p]
    /\ status[p] \in {"PUBLISHING", "PUBLISHED"} => base[p] = previous[p]

-----------------------------------------------------------------------------
(* One pair of lemmas per conjunct of the invariant: the steps of recovery *)
(* and those of a publish run.                                             *)

\* Recovery keeps every variable in its type.
LEMMA TypeOKRecover ==
  ASSUME TypeOK, NEW a \in Actors, RecoverStep(a)
  PROVE  TypeOK'
<1> USE DEF TypeOK, metaVars, fileVars, lookVars, MaybeRun, RecoverPC,
      PublishPC
<1>1. CASE RecoverBegin(a)
  BY <1>1 DEF RecoverBegin, Go
<1>2. CASE RecoverLook(a)
  <2>1. verdict' \in [Actors -> BOOLEAN]
    BY <1>2, Zenon DEF RecoverLook
  <2> QED
    BY <1>2, <2>1 DEF RecoverLook, Go, AfterRecovery
<1>3. CASE RecoverJudge(a)
  BY <1>3 DEF RecoverJudge, Go
<1>4. CASE RecoverClose(a)
  BY <1>4 DEF RecoverClose, Go, AfterRecovery, SetStatus, Forget
<1>5. CASE RecoverClean(a)
  BY <1>5 DEF RecoverClean, Go, AfterRecovery, Forget
<1>6. CASE RecoverFail(a)
  BY <1>6 DEF RecoverFail, Forget
<1> QED
  BY <1>1, <1>2, <1>3, <1>4, <1>5, <1>6 DEF RecoverStep

\* So does a publish run.
LEMMA TypeOKPublish ==
  ASSUME TypeOK, NEW p \in Publishers, PublishStep(p)
  PROVE  TypeOK'
<1>a. p \in Actors
  BY DEF Actors
<1> USE DEF TypeOK, metaVars, fileVars, lookVars, MaybeRun, RecoverPC,
      PublishPC
<1>1. CASE Reclaim(p)
  <2>1. verdict' \in [Actors -> BOOLEAN]
    BY <1>1, Zenon DEF Reclaim
  <2>2. ASSUME NEW q \in Publishers, SetStatus(q, "FAILED"),
               victim' = [victim EXCEPT ![p] = q],
               Go(p, "reclaiming", "reclaimed")
        PROVE  TypeOK'
    BY <1>1, <1>a, <2>1, <2>2 DEF Reclaim, Go, SetStatus
  <2>3. CASE Go(p, "reclaiming", "recovering") /\ UNCHANGED <<status,
     lookVars>>
    BY <1>1, <1>a, <2>3 DEF Reclaim, Go
  <2> QED
    BY <1>1, <2>2, <2>3 DEF Reclaim
<1>2. CASE Start(p)
  BY <1>2, <1>a DEF Start, Go, SetStatus
<1>3. CASE Refuse(p)
  BY <1>3, <1>a DEF Refuse, Go
<1>4. CASE Copy(p)
  BY <1>4, <1>a DEF Copy, Go
<1>5. CASE SyncCatalog(p)
  BY <1>5, <1>a DEF SyncCatalog, Go, OpenBuild
<1>6. CASE DbtRun(p)
  BY <1>6, <1>a DEF DbtRun, Go, OpenBuild
<1>7. CASE RecordDbt(p)
  BY <1>7, <1>a DEF RecordDbt, Go
<1>8. CASE HashBuild(p)
  BY <1>8, <1>a DEF HashBuild, Go, OpenBuild
<1>9. CASE MarkPublishing(p)
  BY <1>9, <1>a DEF MarkPublishing, Go, SetStatus
<1>10. CASE Swap(p)
  BY <1>10, <1>a DEF Swap, Overtaken, Go
<1>11. CASE MarkPublished(p)
  BY <1>11, <1>a DEF MarkPublished, Go, SetStatus
<1>12. CASE Fail(p)
  BY <1>12, <1>a DEF Fail
<1>13. CASE GiveUp(p)
  BY <1>13, <1>a DEF GiveUp
<1>14. CASE FailIsolate(p)
  BY <1>14, <1>a DEF FailIsolate, Go
<1>15. CASE FailMark(p)
  BY <1>15, <1>a DEF FailMark, Go
<1>16. CASE Crash(p)
  BY <1>16, <1>a DEF Crash
<1>17. CASE Touch(p)
  BY <1>17, <1>a DEF Touch
<1>18. CASE Expire(p)
  BY <1>18, <1>a DEF Expire
<1> QED
  BY <1>1, <1>2, <1>3, <1>4, <1>5, <1>6, <1>7, <1>8, <1>9, <1>10, <1>11,
     <1>12, <1>13, <1>14, <1>15, <1>16, <1>17, <1>18 DEF PublishStep

\* Every step keeps TypeOK.
LEMMA NextTypeOK ==
  ASSUME TypeOK, [Next]_vars
  PROVE  TypeOK'
<1>1. CASE UNCHANGED vars
  BY <1>1 DEF vars, metaVars, fileVars, lookVars, TypeOK
<1> QED
  BY <1>1, TypeOKRecover, TypeOKPublish DEF Next

\* Recovery only closes rows.
LEMMA OneActiveRecover ==
  ASSUME TypeOK, OneActive, NEW a \in Actors, RecoverStep(a)
  PROVE  OneActive'
<1> USE DEF OneActive, TypeOK, Active, metaVars, fileVars, lookVars
<1>1. CASE RecoverBegin(a)
  BY <1>1 DEF RecoverBegin, Go
<1>2. CASE RecoverLook(a)
  BY <1>2 DEF RecoverLook, Go, AfterRecovery
<1>3. CASE RecoverJudge(a)
  BY <1>3 DEF RecoverJudge, Go
<1>4. CASE RecoverClose(a)
  BY <1>4 DEF RecoverClose, Go, AfterRecovery, SetStatus, Forget
<1>5. CASE RecoverClean(a)
  BY <1>5 DEF RecoverClean, Go, AfterRecovery, Forget
<1>6. CASE RecoverFail(a)
  BY <1>6 DEF RecoverFail, Forget
<1> QED
  BY <1>1, <1>2, <1>3, <1>4, <1>5, <1>6 DEF RecoverStep

\* A row becomes active only when no other is.
LEMMA OneActivePublish ==
  ASSUME TypeOK, OneActive, NEW p \in Publishers, PublishStep(p)
  PROVE  OneActive'
<1>a. p \in Actors
  BY DEF Actors
<1> USE DEF OneActive, TypeOK, Active, metaVars, fileVars, lookVars
<1>1. CASE Reclaim(p)
  BY <1>1, <1>a DEF Reclaim, Go, SetStatus
<1>2. CASE Start(p)
  BY <1>2, <1>a DEF Start, Go, SetStatus
<1>3. CASE Refuse(p)
  BY <1>3, <1>a DEF Refuse, Go
<1>4. CASE Copy(p)
  BY <1>4, <1>a DEF Copy, Go
<1>5. CASE SyncCatalog(p)
  BY <1>5, <1>a DEF SyncCatalog, Go, OpenBuild
<1>6. CASE DbtRun(p)
  BY <1>6, <1>a DEF DbtRun, Go, OpenBuild
<1>7. CASE RecordDbt(p)
  BY <1>7, <1>a DEF RecordDbt, Go
<1>8. CASE HashBuild(p)
  BY <1>8, <1>a DEF HashBuild, Go, OpenBuild
<1>9. CASE MarkPublishing(p)
  BY <1>9, <1>a DEF MarkPublishing, Go, SetStatus
<1>10. CASE Swap(p)
  BY <1>10, <1>a DEF Swap, Overtaken, Go
<1>11. CASE MarkPublished(p)
  BY <1>11, <1>a DEF MarkPublished, Go, SetStatus
<1>12. CASE Fail(p)
  BY <1>12, <1>a DEF Fail
<1>13. CASE GiveUp(p)
  BY <1>13, <1>a DEF GiveUp
<1>14. CASE FailIsolate(p)
  BY <1>14, <1>a DEF FailIsolate, Go
<1>15. CASE FailMark(p)
  BY <1>15, <1>a DEF FailMark, Go
<1>16. CASE Crash(p)
  BY <1>16, <1>a DEF Crash
<1>17. CASE Touch(p)
  BY <1>17, <1>a DEF Touch
<1>18. CASE Expire(p)
  BY <1>18, <1>a DEF Expire
<1> QED
  BY <1>1, <1>2, <1>3, <1>4, <1>5, <1>6, <1>7, <1>8, <1>9, <1>10, <1>11,
     <1>12, <1>13, <1>14, <1>15, <1>16, <1>17, <1>18 DEF PublishStep

\* Every step keeps OneActive.
LEMMA NextOneActive ==
  ASSUME TypeOK, OneActive, [Next]_vars
  PROVE  OneActive'
<1>1. CASE UNCHANGED vars
  BY <1>1 DEF vars, metaVars, fileVars, lookVars, OneActive, Active
<1> QED
  BY <1>1, OneActiveRecover, OneActivePublish DEF Next

\* Recovery leaves runs without a row alone.
LEMMA NotStartedRecover ==
  ASSUME TypeOK, NotStarted, NEW a \in Actors, RecoverStep(a)
  PROVE  NotStarted'
<1> USE DEF NotStarted, TypeOK, Active, Actors, BeforeStart, RecoverPC,
      InHandler, InPublishBuild, AfterRecovery, metaVars, fileVars, lookVars
<1>1. CASE RecoverBegin(a)
  BY <1>1 DEF RecoverBegin, Go
<1>2. CASE RecoverLook(a)
  BY <1>2 DEF RecoverLook, Go, AfterRecovery
<1>3. CASE RecoverJudge(a)
  BY <1>3 DEF RecoverJudge, Go
<1>4. CASE RecoverClose(a)
  BY <1>4 DEF RecoverClose, Go, AfterRecovery, SetStatus, Forget
<1>5. CASE RecoverClean(a)
  BY <1>5 DEF RecoverClean, Go, AfterRecovery, Forget
<1>6. CASE RecoverFail(a)
  BY <1>6 DEF RecoverFail, Forget
<1> QED
  BY <1>1, <1>2, <1>3, <1>4, <1>5, <1>6 DEF RecoverStep

\* A run gets its row when it starts.
LEMMA NotStartedPublish ==
  ASSUME TypeOK, NotStarted, NEW p \in Publishers, PublishStep(p)
  PROVE  NotStarted'
<1>a. p \in Actors
  BY DEF Actors
<1> USE DEF NotStarted, TypeOK, Active, Actors, BeforeStart, RecoverPC,
      InHandler, InPublishBuild, AfterRecovery, metaVars, fileVars, lookVars
<1>1. CASE Reclaim(p)
  BY <1>1, <1>a DEF Reclaim, Go, SetStatus
<1>2. CASE Start(p)
  BY <1>2, <1>a DEF Start, Go, SetStatus
<1>3. CASE Refuse(p)
  BY <1>3, <1>a DEF Refuse, Go
<1>4. CASE Copy(p)
  BY <1>4, <1>a DEF Copy, Go
<1>5. CASE SyncCatalog(p)
  BY <1>5, <1>a DEF SyncCatalog, Go, OpenBuild
<1>6. CASE DbtRun(p)
  BY <1>6, <1>a DEF DbtRun, Go, OpenBuild
<1>7. CASE RecordDbt(p)
  BY <1>7, <1>a DEF RecordDbt, Go
<1>8. CASE HashBuild(p)
  BY <1>8, <1>a DEF HashBuild, Go, OpenBuild
<1>9. CASE MarkPublishing(p)
  BY <1>9, <1>a DEF MarkPublishing, Go, SetStatus
<1>10. CASE Swap(p)
  BY <1>10, <1>a DEF Swap, Overtaken, Go
<1>11. CASE MarkPublished(p)
  BY <1>11, <1>a DEF MarkPublished, Go, SetStatus
<1>12. CASE Fail(p)
  BY <1>12, <1>a DEF Fail
<1>13. CASE GiveUp(p)
  BY <1>13, <1>a DEF GiveUp
<1>14. CASE FailIsolate(p)
  BY <1>14, <1>a DEF FailIsolate, Go
<1>15. CASE FailMark(p)
  BY <1>15, <1>a DEF FailMark, Go
<1>16. CASE Crash(p)
  BY <1>16, <1>a DEF Crash
<1>17. CASE Touch(p)
  BY <1>17, <1>a DEF Touch
<1>18. CASE Expire(p)
  BY <1>18, <1>a DEF Expire
<1> QED
  BY <1>1, <1>2, <1>3, <1>4, <1>5, <1>6, <1>7, <1>8, <1>9, <1>10, <1>11,
     <1>12, <1>13, <1>14, <1>15, <1>16, <1>17, <1>18 DEF PublishStep

\* Every step keeps NotStarted.
LEMMA NextNotStarted ==
  ASSUME TypeOK, NotStarted, [Next]_vars
  PROVE  NotStarted'
<1>1. CASE UNCHANGED vars
  BY <1>1 DEF vars, metaVars, fileVars, lookVars, NotStarted
<1> QED
  BY <1>1, NotStartedRecover, NotStartedPublish DEF Next

\* Recovery closes a row before it looks after the files.
LEMMA ClosedVictimRecover ==
  ASSUME TypeOK, NotStarted, ClosedVictim, NEW a \in Actors, RecoverStep(a)
  PROVE  ClosedVictim'
<1> USE DEF ClosedVictim, Closed, NotStarted, TypeOK, Active, Actors, MaybeRun,
      BeforeStart, RecoverPC, InHandler, InPublishBuild, metaVars, fileVars,
      lookVars
<1>1. CASE RecoverBegin(a)
  BY <1>1 DEF RecoverBegin, Go
<1>2. CASE RecoverLook(a)
  BY <1>2 DEF RecoverLook, Go, AfterRecovery
<1>3. CASE RecoverJudge(a)
  BY <1>3 DEF RecoverJudge, Go
<1>4. CASE RecoverClose(a)
  BY <1>4 DEF RecoverClose, Go, AfterRecovery, SetStatus, Forget
<1>5. CASE RecoverClean(a)
  BY <1>5 DEF RecoverClean, Go, AfterRecovery, Forget
<1>6. CASE RecoverFail(a)
  BY <1>6 DEF RecoverFail, Forget
<1> QED
  BY <1>1, <1>2, <1>3, <1>4, <1>5, <1>6 DEF RecoverStep

\* A closed row stays closed.
LEMMA ClosedVictimPublish ==
  ASSUME TypeOK, NotStarted, ClosedVictim, NEW p \in Publishers, PublishStep(p)
  PROVE  ClosedVictim'
<1>a. p \in Actors
  BY DEF Actors
<1> USE DEF ClosedVictim, Closed, NotStarted, TypeOK, Active, Actors, MaybeRun,
      BeforeStart, RecoverPC, InHandler, InPublishBuild, metaVars, fileVars,
      lookVars
<1>1. CASE Reclaim(p)
  BY <1>1, <1>a DEF Reclaim, Go, SetStatus
<1>2. CASE Start(p)
  BY <1>2, <1>a DEF Start, Go, SetStatus
<1>3. CASE Refuse(p)
  BY <1>3, <1>a DEF Refuse, Go
<1>4. CASE Copy(p)
  BY <1>4, <1>a DEF Copy, Go
<1>5. CASE SyncCatalog(p)
  BY <1>5, <1>a DEF SyncCatalog, Go, OpenBuild
<1>6. CASE DbtRun(p)
  BY <1>6, <1>a DEF DbtRun, Go, OpenBuild
<1>7. CASE RecordDbt(p)
  BY <1>7, <1>a DEF RecordDbt, Go
<1>8. CASE HashBuild(p)
  BY <1>8, <1>a DEF HashBuild, Go, OpenBuild
<1>9. CASE MarkPublishing(p)
  BY <1>9, <1>a DEF MarkPublishing, Go, SetStatus
<1>10. CASE Swap(p)
  BY <1>10, <1>a DEF Swap, Overtaken, Go
<1>11. CASE MarkPublished(p)
  BY <1>11, <1>a DEF MarkPublished, Go, SetStatus
<1>12. CASE Fail(p)
  BY <1>12, <1>a DEF Fail
<1>13. CASE GiveUp(p)
  BY <1>13, <1>a DEF GiveUp
<1>14. CASE FailIsolate(p)
  BY <1>14, <1>a DEF FailIsolate, Go
<1>15. CASE FailMark(p)
  BY <1>15, <1>a DEF FailMark, Go
<1>16. CASE Crash(p)
  BY <1>16, <1>a DEF Crash
<1>17. CASE Touch(p)
  BY <1>17, <1>a DEF Touch
<1>18. CASE Expire(p)
  BY <1>18, <1>a DEF Expire
<1> QED
  BY <1>1, <1>2, <1>3, <1>4, <1>5, <1>6, <1>7, <1>8, <1>9, <1>10, <1>11,
     <1>12, <1>13, <1>14, <1>15, <1>16, <1>17, <1>18 DEF PublishStep

\* Every step keeps ClosedVictim.
LEMMA NextClosedVictim ==
  ASSUME TypeOK, NotStarted, ClosedVictim, [Next]_vars
  PROVE  ClosedVictim'
<1>1. CASE UNCHANGED vars
  BY <1>1 DEF vars, metaVars, fileVars, lookVars, ClosedVictim, Closed
<1> QED
  BY <1>1, ClosedVictimRecover, ClosedVictimPublish DEF Next

\* Recovery takes no file from a BUILDING run.
LEMMA CompleteBuildRecover ==
  ASSUME TypeOK, ClosedVictim, CompleteBuild, NEW a \in Actors, RecoverStep(a)
  PROVE  CompleteBuild'
<1> USE DEF CompleteBuild, ClosedVictim, Closed, TypeOK, Active, Actors,
      MaybeRun, BeforeStart, RecoverPC, InHandler, InPublishBuild, metaVars,
      fileVars, lookVars
<1>1. CASE RecoverBegin(a)
  BY <1>1 DEF RecoverBegin, Go
<1>2. CASE RecoverLook(a)
  BY <1>2 DEF RecoverLook, Go, AfterRecovery
<1>3. CASE RecoverJudge(a)
  BY <1>3 DEF RecoverJudge, Go
<1>4. CASE RecoverClose(a)
  BY <1>4 DEF RecoverClose, Go, AfterRecovery, SetStatus, Forget
<1>5. CASE RecoverClean(a)
  BY <1>5 DEF RecoverClean, Go, AfterRecovery, Forget
<1>6. CASE RecoverFail(a)
  BY <1>6 DEF RecoverFail, Forget
<1> QED
  BY <1>1, <1>2, <1>3, <1>4, <1>5, <1>6 DEF RecoverStep

\* A run that finds its copy gone has lost its row.
LEMMA CompleteBuildPublish ==
  ASSUME TypeOK, ClosedVictim, CompleteBuild, NEW p \in Publishers,
         PublishStep(p)
  PROVE  CompleteBuild'
<1>a. p \in Actors
  BY DEF Actors
<1> USE DEF CompleteBuild, ClosedVictim, Closed, TypeOK, Active, Actors,
      MaybeRun, BeforeStart, RecoverPC, InHandler, InPublishBuild, metaVars,
      fileVars, lookVars
<1>1. CASE Reclaim(p)
  BY <1>1, <1>a DEF Reclaim, Go, SetStatus
<1>2. CASE Start(p)
  BY <1>2, <1>a DEF Start, Go, SetStatus
<1>3. CASE Refuse(p)
  BY <1>3, <1>a DEF Refuse, Go
<1>4. CASE Copy(p)
  BY <1>4, <1>a DEF Copy, Go
<1>5. CASE SyncCatalog(p)
  BY <1>5, <1>a DEF SyncCatalog, Go, OpenBuild
<1>6. CASE DbtRun(p)
  BY <1>6, <1>a DEF DbtRun, Go, OpenBuild
<1>7. CASE RecordDbt(p)
  BY <1>7, <1>a DEF RecordDbt, Go
<1>8. CASE HashBuild(p)
  BY <1>8, <1>a DEF HashBuild, Go, OpenBuild
<1>9. CASE MarkPublishing(p)
  BY <1>9, <1>a DEF MarkPublishing, Go, SetStatus
<1>10. CASE Swap(p)
  BY <1>10, <1>a DEF Swap, Overtaken, Go
<1>11. CASE MarkPublished(p)
  BY <1>11, <1>a DEF MarkPublished, Go, SetStatus
<1>12. CASE Fail(p)
  BY <1>12, <1>a DEF Fail
<1>13. CASE GiveUp(p)
  BY <1>13, <1>a DEF GiveUp
<1>14. CASE FailIsolate(p)
  BY <1>14, <1>a DEF FailIsolate, Go
<1>15. CASE FailMark(p)
  BY <1>15, <1>a DEF FailMark, Go
<1>16. CASE Crash(p)
  BY <1>16, <1>a DEF Crash
<1>17. CASE Touch(p)
  BY <1>17, <1>a DEF Touch
<1>18. CASE Expire(p)
  BY <1>18, <1>a DEF Expire
<1> QED
  BY <1>1, <1>2, <1>3, <1>4, <1>5, <1>6, <1>7, <1>8, <1>9, <1>10, <1>11,
     <1>12, <1>13, <1>14, <1>15, <1>16, <1>17, <1>18 DEF PublishStep

\* Every step keeps CompleteBuild.
LEMMA NextCompleteBuild ==
  ASSUME TypeOK, ClosedVictim, CompleteBuild, [Next]_vars
  PROVE  CompleteBuild'
<1>1. CASE UNCHANGED vars
  BY <1>1 DEF vars, metaVars, fileVars, lookVars, CompleteBuild, Closed
<1> QED
  BY <1>1, CompleteBuildRecover, CompleteBuildPublish DEF Next

\* Recovery picks active rows.
LEMMA VictimStartedRecover ==
  ASSUME TypeOK, NotStarted, VictimStarted, NEW a \in Actors, RecoverStep(a)
  PROVE  VictimStarted'
<1> USE DEF VictimStarted, NotStarted, TypeOK, Active, Actors, MaybeRun,
      BeforeStart, RecoverPC, InHandler, InPublishBuild, metaVars, fileVars,
      lookVars
<1>1. CASE RecoverBegin(a)
  BY <1>1 DEF RecoverBegin, Go
<1>2. CASE RecoverLook(a)
  BY <1>2 DEF RecoverLook, Go, AfterRecovery
<1>3. CASE RecoverJudge(a)
  BY <1>3 DEF RecoverJudge, Go
<1>4. CASE RecoverClose(a)
  BY <1>4 DEF RecoverClose, Go, AfterRecovery, SetStatus, Forget
<1>5. CASE RecoverClean(a)
  BY <1>5 DEF RecoverClean, Go, AfterRecovery, Forget
<1>6. CASE RecoverFail(a)
  BY <1>6 DEF RecoverFail, Forget
<1> QED
  BY <1>1, <1>2, <1>3, <1>4, <1>5, <1>6 DEF RecoverStep

\* No row goes away.
LEMMA VictimStartedPublish ==
  ASSUME TypeOK, NotStarted, VictimStarted, NEW p \in Publishers, PublishStep(p)
  PROVE  VictimStarted'
<1>a. p \in Actors
  BY DEF Actors
<1> USE DEF VictimStarted, NotStarted, TypeOK, Active, Actors, MaybeRun,
      BeforeStart, RecoverPC, InHandler, InPublishBuild, metaVars, fileVars,
      lookVars
<1>1. CASE Reclaim(p)
  BY <1>1, <1>a DEF Reclaim, Go, SetStatus
<1>2. CASE Start(p)
  BY <1>2, <1>a DEF Start, Go, SetStatus
<1>3. CASE Refuse(p)
  BY <1>3, <1>a DEF Refuse, Go
<1>4. CASE Copy(p)
  BY <1>4, <1>a DEF Copy, Go
<1>5. CASE SyncCatalog(p)
  BY <1>5, <1>a DEF SyncCatalog, Go, OpenBuild
<1>6. CASE DbtRun(p)
  BY <1>6, <1>a DEF DbtRun, Go, OpenBuild
<1>7. CASE RecordDbt(p)
  BY <1>7, <1>a DEF RecordDbt, Go
<1>8. CASE HashBuild(p)
  BY <1>8, <1>a DEF HashBuild, Go, OpenBuild
<1>9. CASE MarkPublishing(p)
  BY <1>9, <1>a DEF MarkPublishing, Go, SetStatus
<1>10. CASE Swap(p)
  BY <1>10, <1>a DEF Swap, Overtaken, Go
<1>11. CASE MarkPublished(p)
  BY <1>11, <1>a DEF MarkPublished, Go, SetStatus
<1>12. CASE Fail(p)
  BY <1>12, <1>a DEF Fail
<1>13. CASE GiveUp(p)
  BY <1>13, <1>a DEF GiveUp
<1>14. CASE FailIsolate(p)
  BY <1>14, <1>a DEF FailIsolate, Go
<1>15. CASE FailMark(p)
  BY <1>15, <1>a DEF FailMark, Go
<1>16. CASE Crash(p)
  BY <1>16, <1>a DEF Crash
<1>17. CASE Touch(p)
  BY <1>17, <1>a DEF Touch
<1>18. CASE Expire(p)
  BY <1>18, <1>a DEF Expire
<1> QED
  BY <1>1, <1>2, <1>3, <1>4, <1>5, <1>6, <1>7, <1>8, <1>9, <1>10, <1>11,
     <1>12, <1>13, <1>14, <1>15, <1>16, <1>17, <1>18 DEF PublishStep

\* Every step keeps VictimStarted.
LEMMA NextVictimStarted ==
  ASSUME TypeOK, NotStarted, VictimStarted, [Next]_vars
  PROVE  VictimStarted'
<1>1. CASE UNCHANGED vars
  BY <1>1 DEF vars, metaVars, fileVars, lookVars, VictimStarted, Active
<1> QED
  BY <1>1, VictimStartedRecover, VictimStartedPublish DEF Next

\* Recovery closes a swapped run as PUBLISHED.
LEMMA SwapPlaceRecover ==
  ASSUME ~ overtaken', TypeOK, OneActive, NotStarted, ClosedVictim,
         VictimStarted, VerdictRight, SwapPlace,
         NEW a \in Actors, RecoverStep(a)
  PROVE  SwapPlace'
<1> USE DEF SwapPlace, VerdictRight, OneActive, NotStarted,
      VictimStarted, ClosedVictim, Closed, BeforeSwap, TypeOK, Active, Actors,
      MaybeRun, BeforeStart, RecoverPC, InHandler, InPublishBuild, metaVars,
      fileVars, lookVars
<1>1. CASE RecoverBegin(a)
  BY <1>1 DEF RecoverBegin, Go
<1>2. CASE RecoverLook(a)
  BY <1>2 DEF RecoverLook, Go, AfterRecovery
<1>3. CASE RecoverJudge(a)
  BY <1>3 DEF RecoverJudge, Go
<1>4. CASE RecoverClose(a)
  BY <1>4 DEF RecoverClose, Go, AfterRecovery, SetStatus, Forget
<1>5. CASE RecoverClean(a)
  BY <1>5 DEF RecoverClean, Go, AfterRecovery, Forget
<1>6. CASE RecoverFail(a)
  BY <1>6 DEF RecoverFail, Forget
<1> QED
  BY <1>1, <1>2, <1>3, <1>4, <1>5, <1>6 DEF RecoverStep

\* The published file is that of a run which swapped.
LEMMA SwapPlacePublish ==
  ASSUME ~ overtaken', TypeOK, OneActive, NotStarted, ClosedVictim,
         VictimStarted, VerdictRight, SwapPlace,
         NEW p \in Publishers, PublishStep(p)
  PROVE  SwapPlace'
<1>a. p \in Actors
  BY DEF Actors
<1> USE DEF SwapPlace, VerdictRight, OneActive, NotStarted,
      VictimStarted, ClosedVictim, Closed, BeforeSwap, TypeOK, Active, Actors,
      MaybeRun, BeforeStart, RecoverPC, InHandler, InPublishBuild, metaVars,
      fileVars, lookVars
<1>1. CASE Reclaim(p)
  BY <1>1, <1>a DEF Reclaim, Go, SetStatus
<1>2. CASE Start(p)
  BY <1>2, <1>a DEF Start, Go, SetStatus
<1>3. CASE Refuse(p)
  BY <1>3, <1>a DEF Refuse, Go
<1>4. CASE Copy(p)
  BY <1>4, <1>a DEF Copy, Go
<1>5. CASE SyncCatalog(p)
  BY <1>5, <1>a DEF SyncCatalog, Go, OpenBuild
<1>6. CASE DbtRun(p)
  BY <1>6, <1>a DEF DbtRun, Go, OpenBuild
<1>7. CASE RecordDbt(p)
  BY <1>7, <1>a DEF RecordDbt, Go
<1>8. CASE HashBuild(p)
  BY <1>8, <1>a DEF HashBuild, Go, OpenBuild
<1>9. CASE MarkPublishing(p)
  BY <1>9, <1>a DEF MarkPublishing, Go, SetStatus
<1>10. CASE Swap(p)
  <2>1. status[p] = "PUBLISHING"
    BY <1>10 DEF Swap, Overtaken
  <2>2. /\ published' = p /\ UNCHANGED status
        /\ pc[p] = "publishing" /\ pc' = [pc EXCEPT ![p] = "swapped"]
        /\ build' = [build EXCEPT ![p] = "none"]
    BY <1>10 DEF Swap, Go
  <2>3. ASSUME NEW q \in Publishers, q # p
        PROVE  /\ ~ Active(q)
               /\ UNCHANGED <<pc[q], build[q]>>
    BY <2>1, <2>2, <2>3
  <2> QED
    BY <1>a, <2>1, <2>2, <2>3
<1>11. CASE MarkPublished(p)
  BY <1>11, <1>a DEF MarkPublished, Go, SetStatus
<1>12. CASE Fail(p)
  BY <1>12, <1>a DEF Fail
<1>13. CASE GiveUp(p)
  BY <1>13, <1>a DEF GiveUp
<1>14. CASE FailIsolate(p)
  BY <1>14, <1>a DEF FailIsolate, Go
<1>15. CASE FailMark(p)
  BY <1>15, <1>a DEF FailMark, Go
<1>16. CASE Crash(p)
  BY <1>16, <1>a DEF Crash
<1>17. CASE Touch(p)
  BY <1>17, <1>a DEF Touch
<1>18. CASE Expire(p)
  BY <1>18, <1>a DEF Expire
<1> QED
  BY <1>1, <1>2, <1>3, <1>4, <1>5, <1>6, <1>7, <1>8, <1>9, <1>10, <1>11,
     <1>12, <1>13, <1>14, <1>15, <1>16, <1>17, <1>18 DEF PublishStep

\* Every step keeps SwapPlace.
LEMMA NextSwapPlace ==
  ASSUME ~ overtaken', TypeOK, OneActive, NotStarted, ClosedVictim,
         VictimStarted, VerdictRight, SwapPlace, [Next]_vars
  PROVE  SwapPlace'
<1>1. CASE UNCHANGED vars
  BY <1>1 DEF vars, metaVars, fileVars, lookVars, SwapPlace
<1> QED
  BY <1>1, SwapPlaceRecover, SwapPlacePublish DEF Next

\* Recovery reads the row and then looks at the file.
LEMMA VerdictRightRecover ==
  ASSUME ~ overtaken', TypeOK, OneActive, NotStarted, ClosedVictim,
         VictimStarted, VerdictRight, SwapPlace,
         NEW a \in Actors, RecoverStep(a)
  PROVE  VerdictRight'
<1> USE DEF VerdictRight, SwapPlace, OneActive, NotStarted,
      VictimStarted, ClosedVictim, Closed, BeforeSwap, TypeOK, Active, Actors,
      MaybeRun, BeforeStart, RecoverPC, InHandler, InPublishBuild, metaVars,
      fileVars, lookVars
<1>1. CASE RecoverBegin(a)
  BY <1>1 DEF RecoverBegin, Go
<1>2. CASE RecoverLook(a)
  <2>1. UNCHANGED <<status, published>>
    BY <1>2 DEF RecoverLook
  <2>2. ASSUME NEW c \in Actors, c # a
        PROVE  UNCHANGED <<pc[c], victim[c], verdict[c]>>
    BY <1>2, <2>2 DEF RecoverLook, Go
  <2>3. CASE pc'[a] = "looked" /\ victim'[a] # NoFile
    <3>1. PICK q \in Publishers :
            /\ victim' = [victim EXCEPT ![a] = q]
            /\ verdict' = [verdict EXCEPT ![a] = status[q] = "PUBLISHING"]
      BY <1>2, <2>3 DEF RecoverLook, Go, AfterRecovery
    <3>2. victim'[a] = q
      BY <3>1
    <3>3. verdict'[a] <=> status[q] = "PUBLISHING"
      BY <3>1, Zenon
    <3> QED
      BY <2>1, <2>2, <2>3, <3>2, <3>3
  <2>4. CASE pc'[a] \notin {"looked", "judged"}
    BY <2>1, <2>2, <2>4
  <2> QED
    BY <1>2, <2>3, <2>4 DEF RecoverLook, Go, AfterRecovery
<1>3. CASE RecoverJudge(a)
  <2>1. UNCHANGED <<status, published, victim>>
    BY <1>3 DEF RecoverJudge
  <2>2. ASSUME NEW c \in Actors, c # a
        PROVE  UNCHANGED <<pc[c], victim[c], verdict[c]>>
    BY <1>3, <2>1, <2>2 DEF RecoverJudge, Go
  <2>3. verdict'[a] <=> verdict[a] /\ published = victim[a]
    BY <1>3, Zenon DEF RecoverJudge
  <2>4. pc[a] = "looked" /\ pc'[a] = "judged"
    BY <1>3 DEF RecoverJudge, Go
  <2> QED
    BY <2>1, <2>2, <2>3, <2>4
<1>4. CASE RecoverClose(a)
  BY <1>4 DEF RecoverClose, Go, AfterRecovery, SetStatus, Forget
<1>5. CASE RecoverClean(a)
  BY <1>5 DEF RecoverClean, Go, AfterRecovery, Forget
<1>6. CASE RecoverFail(a)
  BY <1>6 DEF RecoverFail, Forget
<1> QED
  BY <1>1, <1>2, <1>3, <1>4, <1>5, <1>6 DEF RecoverStep

\* Only an overtaken run swaps while a recovery has its row in hand.
LEMMA VerdictRightPublish ==
  ASSUME ~ overtaken', TypeOK, OneActive, NotStarted, ClosedVictim,
         VictimStarted, VerdictRight, SwapPlace,
         NEW p \in Publishers, PublishStep(p)
  PROVE  VerdictRight'
<1>a. p \in Actors
  BY DEF Actors
<1> USE DEF VerdictRight, SwapPlace, OneActive, NotStarted,
      VictimStarted, ClosedVictim, Closed, BeforeSwap, TypeOK, Active, Actors,
      MaybeRun, BeforeStart, RecoverPC, InHandler, InPublishBuild, metaVars,
      fileVars, lookVars
<1>1. CASE Reclaim(p)
  BY <1>1, <1>a DEF Reclaim, Go, SetStatus
<1>2. CASE Start(p)
  BY <1>2, <1>a DEF Start, Go, SetStatus
<1>3. CASE Refuse(p)
  BY <1>3, <1>a DEF Refuse, Go
<1>4. CASE Copy(p)
  BY <1>4, <1>a DEF Copy, Go
<1>5. CASE SyncCatalog(p)
  BY <1>5, <1>a DEF SyncCatalog, Go, OpenBuild
<1>6. CASE DbtRun(p)
  BY <1>6, <1>a DEF DbtRun, Go, OpenBuild
<1>7. CASE RecordDbt(p)
  BY <1>7, <1>a DEF RecordDbt, Go
<1>8. CASE HashBuild(p)
  BY <1>8, <1>a DEF HashBuild, Go, OpenBuild
<1>9. CASE MarkPublishing(p)
  BY <1>9, <1>a DEF MarkPublishing, Go, SetStatus
<1>10. CASE Swap(p)
  BY <1>10, <1>a DEF Swap, Overtaken, Go
<1>11. CASE MarkPublished(p)
  BY <1>11, <1>a DEF MarkPublished, Go, SetStatus
<1>12. CASE Fail(p)
  BY <1>12, <1>a DEF Fail
<1>13. CASE GiveUp(p)
  BY <1>13, <1>a DEF GiveUp
<1>14. CASE FailIsolate(p)
  BY <1>14, <1>a DEF FailIsolate, Go
<1>15. CASE FailMark(p)
  BY <1>15, <1>a DEF FailMark, Go
<1>16. CASE Crash(p)
  BY <1>16, <1>a DEF Crash
<1>17. CASE Touch(p)
  BY <1>17, <1>a DEF Touch
<1>18. CASE Expire(p)
  BY <1>18, <1>a DEF Expire
<1> QED
  BY <1>1, <1>2, <1>3, <1>4, <1>5, <1>6, <1>7, <1>8, <1>9, <1>10, <1>11,
     <1>12, <1>13, <1>14, <1>15, <1>16, <1>17, <1>18 DEF PublishStep

\* Every step keeps VerdictRight.
LEMMA NextVerdictRight ==
  ASSUME ~ overtaken', TypeOK, OneActive, NotStarted, ClosedVictim,
         VictimStarted, VerdictRight, SwapPlace, [Next]_vars
  PROVE  VerdictRight'
<1>1. CASE UNCHANGED vars
  BY <1>1 DEF vars, metaVars, fileVars, lookVars, VerdictRight, Active
<1> QED
  BY <1>1, VerdictRightRecover, VerdictRightPublish DEF Next

\* Recovery records a run whose file is published.
LEMMA FileRecordedRecover ==
  ASSUME ~ overtaken', TypeOK, OneActive, NotStarted, ClosedVictim,
         VictimStarted, VerdictRight, SwapPlace,
         FileRecorded, NEW a \in Actors, RecoverStep(a)
  PROVE  FileRecorded'
<1> USE DEF FileRecorded, SwapPlace, VerdictRight, OneActive, NotStarted,
      VictimStarted, ClosedVictim, Closed, BeforeSwap, TypeOK,
      Active, Actors, MaybeRun, BeforeStart, RecoverPC, InHandler,
      InPublishBuild, metaVars, fileVars, lookVars
<1>1. CASE RecoverBegin(a)
  BY <1>1 DEF RecoverBegin, Go
<1>2. CASE RecoverLook(a)
  BY <1>2 DEF RecoverLook, Go, AfterRecovery
<1>3. CASE RecoverJudge(a)
  BY <1>3 DEF RecoverJudge, Go
<1>4. CASE RecoverClose(a)
  BY <1>4 DEF RecoverClose, Go, AfterRecovery, SetStatus, Forget
<1>5. CASE RecoverClean(a)
  BY <1>5 DEF RecoverClean, Go, AfterRecovery, Forget
<1>6. CASE RecoverFail(a)
  BY <1>6 DEF RecoverFail, Forget
<1> QED
  BY <1>1, <1>2, <1>3, <1>4, <1>5, <1>6 DEF RecoverStep

\* A swap finds everything before it recorded.
LEMMA FileRecordedPublish ==
  ASSUME ~ overtaken', TypeOK, OneActive, NotStarted, ClosedVictim,
         VictimStarted, VerdictRight, SwapPlace,
         FileRecorded, NEW p \in Publishers, PublishStep(p)
  PROVE  FileRecorded'
<1>a. p \in Actors
  BY DEF Actors
<1> USE DEF FileRecorded, SwapPlace, VerdictRight, OneActive, NotStarted,
      VictimStarted, ClosedVictim, Closed, BeforeSwap, TypeOK,
      Active, Actors, MaybeRun, BeforeStart, RecoverPC, InHandler,
      InPublishBuild, metaVars, fileVars, lookVars
<1>1. CASE Reclaim(p)
  BY <1>1, <1>a DEF Reclaim, Go, SetStatus
<1>2. CASE Start(p)
  BY <1>2, <1>a DEF Start, Go, SetStatus
<1>3. CASE Refuse(p)
  BY <1>3, <1>a DEF Refuse, Go
<1>4. CASE Copy(p)
  BY <1>4, <1>a DEF Copy, Go
<1>5. CASE SyncCatalog(p)
  BY <1>5, <1>a DEF SyncCatalog, Go, OpenBuild
<1>6. CASE DbtRun(p)
  BY <1>6, <1>a DEF DbtRun, Go, OpenBuild
<1>7. CASE RecordDbt(p)
  BY <1>7, <1>a DEF RecordDbt, Go
<1>8. CASE HashBuild(p)
  BY <1>8, <1>a DEF HashBuild, Go, OpenBuild
<1>9. CASE MarkPublishing(p)
  BY <1>9, <1>a DEF MarkPublishing, Go, SetStatus
<1>10. CASE Swap(p)
  BY <1>10, <1>a DEF Swap, Overtaken, Go
<1>11. CASE MarkPublished(p)
  BY <1>11, <1>a DEF MarkPublished, Go, SetStatus
<1>12. CASE Fail(p)
  BY <1>12, <1>a DEF Fail
<1>13. CASE GiveUp(p)
  BY <1>13, <1>a DEF GiveUp
<1>14. CASE FailIsolate(p)
  BY <1>14, <1>a DEF FailIsolate, Go
<1>15. CASE FailMark(p)
  BY <1>15, <1>a DEF FailMark, Go
<1>16. CASE Crash(p)
  BY <1>16, <1>a DEF Crash
<1>17. CASE Touch(p)
  BY <1>17, <1>a DEF Touch
<1>18. CASE Expire(p)
  BY <1>18, <1>a DEF Expire
<1> QED
  BY <1>1, <1>2, <1>3, <1>4, <1>5, <1>6, <1>7, <1>8, <1>9, <1>10, <1>11,
     <1>12, <1>13, <1>14, <1>15, <1>16, <1>17, <1>18 DEF PublishStep

\* Every step keeps FileRecorded.
LEMMA NextFileRecorded ==
  ASSUME ~ overtaken', TypeOK, OneActive, NotStarted, ClosedVictim,
         VictimStarted, VerdictRight, SwapPlace,
         FileRecorded, [Next]_vars
  PROVE  FileRecorded'
<1>1. CASE UNCHANGED vars
  BY <1>1 DEF vars, metaVars, fileVars, lookVars, FileRecorded
<1> QED
  BY <1>1, FileRecordedRecover, FileRecordedPublish DEF Next

\* Recovery records no run beside an active one.
LEMMA PreviousFoundRecover ==
  ASSUME ~ overtaken', TypeOK, OneActive, NotStarted, ClosedVictim,
         VictimStarted, VerdictRight, SwapPlace,
         FileRecorded, PreviousFound, NEW a \in Actors, RecoverStep(a)
  PROVE  PreviousFound'
<1> USE DEF PreviousFound, Copied, FileRecorded, SwapPlace, VerdictRight,
      OneActive, NotStarted, VictimStarted, ClosedVictim,
      Closed, BeforeSwap, TypeOK, Active, Actors, MaybeRun, BeforeStart,
      RecoverPC, InHandler, InPublishBuild, metaVars, fileVars, lookVars
<1>1. CASE RecoverBegin(a)
  BY <1>1 DEF RecoverBegin, Go
<1>2. CASE RecoverLook(a)
  BY <1>2 DEF RecoverLook, Go, AfterRecovery
<1>3. CASE RecoverJudge(a)
  BY <1>3 DEF RecoverJudge, Go
<1>4. CASE RecoverClose(a)
  BY <1>4 DEF RecoverClose, Go, AfterRecovery, SetStatus, Forget
<1>5. CASE RecoverClean(a)
  BY <1>5 DEF RecoverClean, Go, AfterRecovery, Forget
<1>6. CASE RecoverFail(a)
  BY <1>6 DEF RecoverFail, Forget
<1> QED
  BY <1>1, <1>2, <1>3, <1>4, <1>5, <1>6 DEF RecoverStep

\* What a run copies is what is recorded.
LEMMA PreviousFoundPublish ==
  ASSUME ~ overtaken', TypeOK, OneActive, NotStarted, ClosedVictim,
         VictimStarted, VerdictRight, SwapPlace,
         FileRecorded, PreviousFound, NEW p \in Publishers, PublishStep(p)
  PROVE  PreviousFound'
<1>a. p \in Actors
  BY DEF Actors
<1> USE DEF PreviousFound, Copied, FileRecorded, SwapPlace, VerdictRight,
      OneActive, NotStarted, VictimStarted, ClosedVictim,
      Closed, BeforeSwap, TypeOK, Active, Actors, MaybeRun, BeforeStart,
      RecoverPC, InHandler, InPublishBuild, metaVars, fileVars, lookVars
<1>1. CASE Reclaim(p)
  BY <1>1, <1>a DEF Reclaim, Go, SetStatus
<1>2. CASE Start(p)
  BY <1>2, <1>a DEF Start, Go, SetStatus
<1>3. CASE Refuse(p)
  BY <1>3, <1>a DEF Refuse, Go
<1>4. CASE Copy(p)
  <2>1. published # p /\ status[p] # "PUBLISHED"
    BY <1>4 DEF Copy, Go
  <2>2. Active(p) => published = latest
    BY <2>1
  <2> QED
    BY <1>4, <1>a, <2>1, <2>2 DEF Copy, Go
<1>5. CASE SyncCatalog(p)
  BY <1>5, <1>a DEF SyncCatalog, Go, OpenBuild
<1>6. CASE DbtRun(p)
  BY <1>6, <1>a DEF DbtRun, Go, OpenBuild
<1>7. CASE RecordDbt(p)
  BY <1>7, <1>a DEF RecordDbt, Go
<1>8. CASE HashBuild(p)
  BY <1>8, <1>a DEF HashBuild, Go, OpenBuild
<1>9. CASE MarkPublishing(p)
  BY <1>9, <1>a DEF MarkPublishing, Go, SetStatus
<1>10. CASE Swap(p)
  BY <1>10, <1>a DEF Swap, Overtaken, Go
<1>11. CASE MarkPublished(p)
  BY <1>11, <1>a DEF MarkPublished, Go, SetStatus
<1>12. CASE Fail(p)
  BY <1>12, <1>a DEF Fail
<1>13. CASE GiveUp(p)
  BY <1>13, <1>a DEF GiveUp
<1>14. CASE FailIsolate(p)
  BY <1>14, <1>a DEF FailIsolate, Go
<1>15. CASE FailMark(p)
  BY <1>15, <1>a DEF FailMark, Go
<1>16. CASE Crash(p)
  BY <1>16, <1>a DEF Crash
<1>17. CASE Touch(p)
  BY <1>17, <1>a DEF Touch
<1>18. CASE Expire(p)
  BY <1>18, <1>a DEF Expire
<1> QED
  BY <1>1, <1>2, <1>3, <1>4, <1>5, <1>6, <1>7, <1>8, <1>9, <1>10, <1>11,
     <1>12, <1>13, <1>14, <1>15, <1>16, <1>17, <1>18 DEF PublishStep

\* Every step keeps PreviousFound.
LEMMA NextPreviousFound ==
  ASSUME ~ overtaken', TypeOK, OneActive, NotStarted, ClosedVictim,
         VictimStarted, VerdictRight, SwapPlace,
         FileRecorded, PreviousFound, [Next]_vars
  PROVE  PreviousFound'
<1>1. CASE UNCHANGED vars
  BY <1>1 DEF vars, metaVars, fileVars, lookVars, PreviousFound, Active
<1> QED
  BY <1>1, PreviousFoundRecover, PreviousFoundPublish DEF Next

-----------------------------------------------------------------------------
(* The theorems.                                                           *)

\* What holds whoever swaps.
OrderInv ==
  /\ TypeOK
  /\ NotStarted
  /\ ClosedVictim
  /\ CompleteBuild
  /\ OneActive
  /\ VictimStarted

\* What holds until an overtaken run swaps.
SwapInv == SwapPlace /\ VerdictRight /\ FileRecorded /\ PreviousFound

PublishInv == OrderInv /\ (~ overtaken => SwapInv)

\* The invariant holds in the initial states.
LEMMA InitInv == Init => PublishInv
<1> SUFFICES ASSUME Init PROVE PublishInv
  OBVIOUS
<1> USE DEF Init
<1>1. TypeOK
  BY DEF TypeOK, PublishPC, MaybeRun
<1>2. NotStarted /\ ClosedVictim /\ CompleteBuild
  BY DEF NotStarted, ClosedVictim, CompleteBuild, BeforeStart, RecoverPC, Actors
<1>3. OneActive /\ VictimStarted
  BY DEF OneActive, VictimStarted, Active, Actors
<1>4. SwapPlace /\ VerdictRight /\ FileRecorded /\ PreviousFound
  BY ActorsAssumption
  DEF SwapPlace, VerdictRight, FileRecorded, PreviousFound, Active, Actors
<1> QED
  BY <1>1, <1>2, <1>3, <1>4 DEF PublishInv, OrderInv, SwapInv

\* Every variable of publishing and recovery keeps its type.
THEOREM TypeCorrect == Spec => []TypeOK
<1>1. Init => TypeOK
  BY InitInv DEF PublishInv, OrderInv
<1>2. TypeOK /\ [Next]_vars => TypeOK'
  BY NextTypeOK
<1> QED
  BY <1>1, <1>2, PTL DEF Spec

\* Every step keeps OrderInv.
LEMMA NextOrderInv ==
  ASSUME OrderInv, [Next]_vars
  PROVE  OrderInv'
  BY NextTypeOK, NextNotStarted, NextClosedVictim, NextCompleteBuild,
     NextOneActive, NextVictimStarted DEF OrderInv

\* What recovery and publish runs respect whatever the timing.
LEMMA OrderHolds == Spec => []OrderInv
<1>1. Init => OrderInv
  BY InitInv DEF PublishInv
<1>2. OrderInv /\ [Next]_vars => OrderInv'
  BY NextOrderInv
<1> QED
  BY <1>1, <1>2, PTL DEF Spec

\* Once an overtaken run swapped, that stays so.
LEMMA OvertakenStays ==
  ASSUME [Next]_vars, overtaken
  PROVE  overtaken'
<1>1. ASSUME NEW a \in Actors, RecoverStep(a) PROVE overtaken'
  BY <1>1
  DEF RecoverStep, RecoverBegin, RecoverLook, RecoverJudge, RecoverClose,
      RecoverClean, RecoverFail, fileVars
<1>2. ASSUME NEW p \in Publishers, PublishStep(p) PROVE overtaken'
  BY <1>2
  DEF PublishStep, Reclaim, Start, Refuse, Copy, SyncCatalog, DbtRun,
      RecordDbt, HashBuild, MarkPublishing, Swap, MarkPublished, Fail,
      GiveUp, FailIsolate, FailMark, Crash, Touch, Expire, fileVars
<1> QED
  BY <1>1, <1>2 DEF Next, vars, fileVars

\* A run whose build file was taken away and created anew never publishes it,
\* also when it outlives its lease and recovery works at the same time.
THEOREM ScratchStaysOut == Spec => ScratchNeverPublished
<1>1. OrderInv /\ [Next]_vars =>
        [\A p \in Publishers :
           pc[p] = "publishing" /\ pc'[p] = "swapped"
             => build[p] # "scratch"]_vars
  BY DEF OrderInv, CompleteBuild
<1> QED
  BY <1>1, OrderHolds, PTL DEF Spec, ScratchNeverPublished

\* The whole invariant is inductive.
LEMMA InvHolds == Spec => []PublishInv
<1>1. PublishInv /\ [Next]_vars => PublishInv'
  <2> SUFFICES ASSUME PublishInv, [Next]_vars PROVE PublishInv'
    OBVIOUS
  <2>1. OrderInv'
    BY NextOrderInv DEF PublishInv
  <2>2. ASSUME ~ overtaken' PROVE SwapInv'
    <3>1. OrderInv /\ SwapInv
      BY <2>2, OvertakenStays DEF PublishInv
    <3> USE DEF OrderInv, SwapInv
    <3>2. SwapPlace' /\ VerdictRight'
      BY <2>2, <3>1, NextSwapPlace, NextVerdictRight
    <3>3. FileRecorded' /\ PreviousFound'
      BY <2>2, <3>1, NextFileRecorded, NextPreviousFound
    <3> QED
      BY <3>2, <3>3
  <2> QED
    BY <2>1, <2>2 DEF PublishInv
<1> QED
  BY <1>1, InitInv, PTL DEF Spec

\* Before its swap an active run finds the file it recorded as its base.
LEMMA BaseStays ==
  ASSUME SwapInv, OneActive, NEW p \in Publishers, Active(p),
         pc[p] \in BeforeSwap
  PROVE  published = latest /\ previous[p] = published
  BY DEF SwapInv, SwapPlace, FileRecorded, OneActive, PreviousFound, Active

\* A swap that does not end the promise is one of a run with an active row.
LEMMA SwapOfActive ==
  ASSUME PublishInv, NEW p \in Publishers, Swap(p), ~ overtaken'
  PROVE  /\ OrderInv /\ SwapInv
         /\ status[p] = "PUBLISHING" /\ pc[p] \in BeforeSwap
  BY DEF PublishInv, Swap, Overtaken, Go, BeforeSwap

\* No published update is lost, until an overtaken run swaps: the build file
\* that replaces the published file was copied from it.
THEOREM NoUpdateLost == Spec => SwapsOntoItsBase
<1>1. PublishInv /\ [Next]_vars =>
        [\A p \in Publishers :
           pc[p] = "publishing" /\ pc'[p] = "swapped" /\ ~ overtaken'
             => base[p] = published /\ build[p] = "copy"]_vars
  <2> SUFFICES ASSUME PublishInv, [Next]_vars, NEW p \in Publishers,
                      pc[p] = "publishing", pc'[p] = "swapped", ~ overtaken'
               PROVE  base[p] = published /\ build[p] = "copy"
    OBVIOUS
  <2>1. Swap(p)
    <3>1. p \in Actors
      BY DEF Actors
    <3>2. ASSUME NEW q \in Publishers, PublishStep(q) PROVE Swap(p)
      BY <3>1, <3>2
      DEF PublishStep, Reclaim, Start, Refuse, Copy, SyncCatalog, DbtRun,
          RecordDbt, HashBuild, MarkPublishing, Swap, MarkPublished, Fail,
          GiveUp, FailIsolate, FailMark, Crash, Touch, Expire, Go,
          PublishInv, OrderInv, TypeOK
    <3>3. ASSUME NEW a \in Actors, RecoverStep(a) PROVE FALSE
      BY <3>1, <3>3
      DEF RecoverStep, RecoverBegin, RecoverLook, RecoverJudge, RecoverClose,
          RecoverClean, RecoverFail, Go, AfterRecovery,
          PublishInv, OrderInv, TypeOK
    <3> QED
      BY <3>2, <3>3 DEF Next, vars
  <2>2. base[p] = published
    BY <2>1, SwapOfActive, BaseStays
    DEF Active, OrderInv, SwapInv, PreviousFound
  <2>3. build[p] # "scratch" /\ build[p] \in {"none", "copy", "scratch"}
    BY DEF PublishInv, OrderInv, CompleteBuild, TypeOK
  <2> QED
    BY <2>1, <2>2, <2>3 DEF Swap
<1> QED
  BY <1>1, InvHolds, PTL DEF Spec, SwapsOntoItsBase

\* changed_relations compares a published run with the run whose file its
\* build started from, until an overtaken run swaps.
THEOREM PreviousIsRight == Spec => []PreviousIsBase
<1>1. PublishInv => PreviousIsBase
  BY DEF PublishInv, SwapInv, PreviousFound, PreviousIsBase
<1> QED
  BY <1>1, InvHolds, PTL

\* Publishing implements MartVersions until an overtaken run swaps: one
\* replacement at a time, each one recorded before the next, and nothing
\* recorded that is not there.
THEOREM Refinement == Spec => ImplementsVersions
<1>1. Init => Versions!Init
  BY DEF Init, Versions!Init, Recorded
<1>2. PublishInv /\ [Next]_vars =>
        [overtaken' \/ Versions!Next]_(Versions!vars)
  <2> SUFFICES ASSUME PublishInv, [Next]_vars, ~ overtaken'
               PROVE  \/ Versions!Next
                      \/ UNCHANGED <<published, latest, Recorded>>
    BY DEF Versions!vars
  <2> USE DEF Versions!Next, Versions!Replace, Versions!Record
  <2>0. TypeOK /\ OrderInv /\ SwapInv
    BY OvertakenStays DEF PublishInv, OrderInv
  <2>1. ASSUME NEW a \in Actors, RecoverClose(a)
        PROVE  Versions!Next \/ UNCHANGED <<published, latest, Recorded>>
    <3>1. CASE verdict[a] /\ victim[a] # NoFile /\ Active(victim[a])
      <4> DEFINE p == victim[a]
      <4>1. p \in Publishers /\ published = p /\ UNCHANGED published
        BY <2>0, <2>1, <3>1
        DEF RecoverClose, Go, fileVars, SwapInv, TypeOK, VerdictRight,
            MaybeRun
      <4>2. latest' = p /\ status' = [status EXCEPT ![p] = "PUBLISHED"]
        BY <2>1, <3>1 DEF RecoverClose, SetStatus
      <4>3. latest # p
        BY <2>0, <3>1, <4>1, ActorsAssumption DEF SwapInv, FileRecorded, Active
      <4>4. Recorded' = Recorded \cup {p}
        BY <2>0, <4>1, <4>2 DEF Recorded, TypeOK
      <4> QED
        BY <4>1, <4>2, <4>3, <4>4
    <3>2. CASE ~ (verdict[a] /\ victim[a] # NoFile /\ Active(victim[a]))
      <4>1. UNCHANGED <<published, latest>>
        BY <2>1, <3>2 DEF RecoverClose, fileVars
      <4>2. \/ UNCHANGED status
            \/ /\ victim[a] \in Publishers /\ Active(victim[a])
               /\ status' = [status EXCEPT ![victim[a]] = "FAILED"]
        BY <2>0, <2>1, <3>2
        DEF RecoverClose, SetStatus, TypeOK, MaybeRun
      <4>3. UNCHANGED Recorded
        BY <2>0, <4>2 DEF Recorded, Active, TypeOK
      <4> QED
        BY <4>1, <4>3
    <3> QED
      BY <3>1, <3>2
  <2>2. ASSUME NEW a \in Actors, RecoverStep(a), ~ RecoverClose(a)
        PROVE  UNCHANGED <<published, latest, Recorded>>
    BY <2>2
    DEF RecoverStep, RecoverBegin, RecoverLook, RecoverJudge, RecoverClean,
        RecoverFail, metaVars, fileVars, Recorded
  <2>3. ASSUME NEW p \in Publishers, Swap(p)
        PROVE  Versions!Next
    <3>1. Active(p) /\ pc[p] \in BeforeSwap
      BY <2>3, SwapOfActive DEF Active
    <3>2. p \notin Recorded
      BY <3>1 DEF Recorded, Active
    <3>3. UNCHANGED <<latest, Recorded>>
      BY <2>3 DEF Swap, metaVars, Recorded
    <3> QED
      BY <2>0, <2>3, <3>1, <3>2, <3>3, BaseStays DEF Swap, OrderInv
  <2>4. ASSUME NEW p \in Publishers, MarkPublished(p)
        PROVE  Versions!Next
    <3>1. published = p /\ UNCHANGED published /\ latest' = p
      BY <2>0, <2>4 DEF MarkPublished, Go, fileVars, SwapInv, SwapPlace
    <3>2. latest # p
      BY <2>0, <2>4, ActorsAssumption
      DEF MarkPublished, SwapInv, FileRecorded
    <3>3. Recorded' = Recorded \cup {p}
      BY <2>0, <2>4 DEF MarkPublished, SetStatus, Recorded, TypeOK
    <3> QED
      BY <3>1, <3>2, <3>3
  <2>5. ASSUME NEW p \in Publishers, PublishStep(p), ~ Swap(p),
               ~ MarkPublished(p)
        PROVE  UNCHANGED <<published, latest, Recorded>>
    <3>1. UNCHANGED <<published, latest>>
      BY <2>5
      DEF PublishStep, Reclaim, Start, Refuse, Copy, SyncCatalog, DbtRun,
          RecordDbt, HashBuild, MarkPublishing, Fail, GiveUp, FailIsolate,
          FailMark, Crash, Touch, Expire, metaVars, fileVars
    <3>2. \/ UNCHANGED status
          \/ \E q \in Publishers, new \in {"BUILDING", "PUBLISHING", "FAILED"} :
               /\ status[q] # "PUBLISHED"
               /\ status' = [status EXCEPT ![q] = new]
      <4>1. Start(p) => status[p] # "PUBLISHED"
        BY DEF Start, Go, PublishInv, OrderInv, NotStarted, BeforeStart
      <4> QED
        BY <2>5, <4>1
        DEF PublishStep, Reclaim, Start, Refuse, Copy, SyncCatalog, DbtRun,
            RecordDbt, HashBuild, MarkPublishing, Fail, GiveUp, FailIsolate,
            FailMark, Crash, Touch, Expire, metaVars, SetStatus, Active
    <3>3. UNCHANGED Recorded
      BY <2>0, <3>2 DEF Recorded, TypeOK
    <3> QED
      BY <3>1, <3>3
  <2>6. CASE UNCHANGED vars
    BY <2>6 DEF vars, metaVars, fileVars, Recorded
  <2> QED
    BY <2>1, <2>2, <2>3, <2>4, <2>5, <2>6 DEF Next
<1> QED
  BY <1>1, <1>2, InvHolds, PTL DEF Spec, ImplementsVersions

=============================================================================
