------------------------ MODULE ServingExportProofs ------------------------
(***************************************************************************)
(* Proofs about ServingExport for every set of publish runs and exports    *)
(* and every retention.  That manifests are true rests on MartVersions: a  *)
(* file once published and replaced does not come back, so an export that  *)
(* finds the file it was asked for before and after the copy has copied    *)
(* it (CopiedRight).  That the file Metabase is pointed at exists rests on *)
(* exports taking turns: the export that prunes has just been found in     *)
(* Metabase (SettledPoints) and was written last (WrittenLast), so it is   *)
(* not among the files it deletes.                                         *)
(* That Metabase never goes back rests on both: an export in its turn that *)
(* found its file published twice is as new as any (OnlyForward), and what *)
(* Metabase was moved away from has been replaced (LeftGone).              *)
(***************************************************************************)
EXTENDS ServingExport, FiniteSetTheorems, TLAPS

\* What is recorded PUBLISHED was a file.
Filed == file = NoFile => recorded = NoFile

\* Exports that have not passed their second identity check.
Unchecked == {"idle", "begun", "checked", "copied", "written"}

\* A claim is a recorded publish run.
ClaimsPast ==
  \A e \in Exports : pc[e] # "idle" => claim[e] \in past

\* An export that copied another file than it was asked for will not find the
\* right one any more.
CopiedRight ==
  \A e \in Exports :
    /\ pc[e] \in {"copied", "written"} =>
         content[e] = claim[e] \/ file # claim[e]
    /\ pc[e] \in {"rechecked", "linked"} => content[e] = claim[e]

\* What is served passed both checks.
ServedRight ==
  \A e \in Exports :
    e \in exports \/ serving = e =>
      pc[e] \notin Unchecked /\ content[e] = claim[e]

CopyInv == ClaimsPast /\ CopiedRight /\ ServedRight

-----------------------------------------------------------------------------
Busy(e) == pc[e] \notin {"idle"} \cup Ended

\* Exports take turns.
OneBusy == \A d, e \in Exports : Busy(d) /\ Busy(e) => d = e

\* The export at work was written last.
WrittenLast ==
  /\ \A e \in Exports : mtime[e] <= ticks
  /\ \A e \in Exports :
       Busy(e) /\ pc[e] \notin {"begun", "checked", "copied"} =>
         mtime[e] = ticks

\* An export keeps its file while Metabase is pointed at it and afterwards.
OwnFileStays ==
  /\ \A e \in Exports :
       pc[e] \in {"linked", "replaced", "refused"} \cup Repointing =>
         e \in exports
  /\ \A e \in Exports : e \notin doomed[e]

\* Who points Metabase at its file has returned from export_serving_mart.
PointedStays ==
  pointer # Canonical =>
    /\ managed
    /\ pointer \in exports
    /\ pc[pointer] \in Repointing \cup {"refused", "done"}

\* A PUT follows a GET, and a GET follows a look at the settings.
PutManaged == \A e \in Exports : pc[e] = "got" => managed

\* Nothing but the file Metabase was found to read is pointed at while pruning.
SettledPoints ==
  \A e \in Exports :
    pc[e] \in {"settled", "pruning"} => pointer \in {e, Canonical}

PointInv ==
  /\ OneBusy /\ WrittenLast /\ OwnFileStays
  /\ PointedStays /\ PutManaged /\ SettledPoints

-----------------------------------------------------------------------------
(* Types and manifests, whether or not exports overlap.                    *)

\* Every step keeps every variable in its type.
LEMMA NextTypeOK ==
  TypeOK /\ Filed /\ [Next]_vars => TypeOK' /\ Filed'
<1> SUFFICES ASSUME TypeOK /\ Filed, [Next]_vars
             PROVE  TypeOK' /\ Filed'
  OBVIOUS
<1> USE DEF TypeOK, Filed, Copying, Repointing, Ended
<1>1. ASSUME NEW e \in Exports, Begin(e)
      PROVE  TypeOK' /\ Filed'
  BY <1>1 DEF Begin, Go, martVars, copyVars, viewVars
<1>2. ASSUME NEW e \in Exports, Check(e)
      PROVE  TypeOK' /\ Filed'
  BY <1>2 DEF Check, Go, martVars, copyVars, viewVars
<1>3. ASSUME NEW e \in Exports, Copy(e)
      PROVE  TypeOK' /\ Filed'
  BY <1>3 DEF Copy, Go, martVars, copyVars, viewVars
<1>4. ASSUME NEW e \in Exports, Write(e)
      PROVE  TypeOK' /\ Filed'
  BY <1>4 DEF Write, Go, martVars, copyVars, viewVars
<1>5. ASSUME NEW e \in Exports, Recheck(e)
      PROVE  TypeOK' /\ Filed'
  BY <1>5 DEF Recheck, Go, martVars, copyVars, viewVars
<1>6. ASSUME NEW e \in Exports, Link(e)
      PROVE  TypeOK' /\ Filed'
  BY <1>6 DEF Link, Go, martVars, copyVars, viewVars
<1>7. ASSUME NEW e \in Exports, ReplaceServing(e)
      PROVE  TypeOK' /\ Filed'
  BY <1>7, ExportsAssumption
  DEF ReplaceServing, Go, martVars, copyVars, viewVars, Leave, ShownRun
<1>8. ASSUME NEW e \in Exports, Return(e)
      PROVE  TypeOK' /\ Filed'
  BY <1>8 DEF Return, Go, martVars, copyVars, viewVars
<1>9. ASSUME NEW e \in Exports, ExportFail(e)
      PROVE  TypeOK' /\ Filed'
  BY <1>9 DEF ExportFail, martVars, copyVars, viewVars
<1>10. ASSUME NEW e \in Exports, ExportCrash(e)
      PROVE  TypeOK' /\ Filed'
  BY <1>10 DEF ExportCrash, martVars, copyVars, viewVars
<1>11. ASSUME NEW e \in Exports, Skip(e)
      PROVE  TypeOK' /\ Filed'
  BY <1>11 DEF Skip, Go, martVars, copyVars, viewVars
<1>12. ASSUME NEW e \in Exports, Get(e)
      PROVE  TypeOK' /\ Filed'
  BY <1>12 DEF Get, Go, martVars, copyVars, viewVars
<1>13. ASSUME NEW e \in Exports, Put(e)
      PROVE  TypeOK' /\ Filed'
  BY <1>13, ExportsAssumption
  DEF Put, Go, martVars, copyVars, viewVars, Leave, ShownRun
<1>14. ASSUME NEW e \in Exports, Verify(e)
      PROVE  TypeOK' /\ Filed'
  BY <1>14 DEF Verify, Go, martVars, copyVars, viewVars
<1>15. ASSUME NEW e \in Exports, List(e)
      PROVE  TypeOK' /\ Filed'
  BY <1>15 DEF List, Go, martVars, copyVars, viewVars
<1>16. ASSUME NEW e \in Exports, Unlink(e)
      PROVE  TypeOK' /\ Filed'
  BY <1>16 DEF Unlink, martVars, copyVars, viewVars
<1>17. ASSUME NEW e \in Exports, Finish(e)
      PROVE  TypeOK' /\ Filed'
  BY <1>17 DEF Finish, Go, martVars, copyVars, viewVars
<1>18. ASSUME NEW e \in Exports, RepointFail(e)
      PROVE  TypeOK' /\ Filed'
  BY <1>18 DEF RepointFail, martVars, copyVars, viewVars
<1>19. ASSUME NEW e \in Exports, Retry(e)
      PROVE  TypeOK' /\ Filed'
  BY <1>19 DEF Retry, Go, martVars, copyVars, viewVars
<1>20. ASSUME NEW e \in Exports, GiveUp(e)
      PROVE  TypeOK' /\ Filed'
  BY <1>20 DEF GiveUp, Go, martVars, copyVars, viewVars
<1>21. CASE Publish
  BY <1>21, ExportsAssumption
  DEF Publish, copyVars, viewVars, Marts!Next, Marts!Replace, Marts!Record
<1>22. CASE UNCHANGED vars
  BY <1>22 DEF vars, martVars, copyVars, viewVars
<1> QED
  BY <1>1, <1>2, <1>3, <1>4, <1>5, <1>6, <1>7, <1>8, <1>9, <1>10, <1>11, <1>12,
     <1>13, <1>14, <1>15, <1>16, <1>17, <1>18, <1>19, <1>20, <1>21, <1>22
  DEF Next, ExportStep, RepointStep

\* The initial states have the right types.
LEMMA InitTypeOK == Init => TypeOK /\ Filed
  BY DEF Init, TypeOK, Filed, Marts!Init

\* Every variable of export, repointing and pruning keeps its type.
THEOREM TypeCorrect == Spec => []TypeOK
<1> QED
  BY InitTypeOK, NextTypeOK, PTL DEF Spec

\* Every step keeps the copies right.
LEMMA NextCopyInv ==
  TypeOK /\ CopyInv /\ [Next]_vars => CopyInv'
<1> SUFFICES ASSUME TypeOK /\ CopyInv, [Next]_vars
             PROVE  CopyInv'
  OBVIOUS
<1> USE DEF TypeOK, CopyInv, ClaimsPast, CopiedRight, ServedRight, Unchecked,
    Copying, Repointing, Ended, RequireIdentity
<1>1. ASSUME NEW e \in Exports, Begin(e)
      PROVE  CopyInv'
  BY <1>1 DEF Begin, Go, martVars, copyVars, viewVars
<1>2. ASSUME NEW e \in Exports, Check(e)
      PROVE  CopyInv'
  BY <1>2 DEF Check, Go, martVars, copyVars, viewVars
<1>3. ASSUME NEW e \in Exports, Copy(e)
      PROVE  CopyInv'
  BY <1>3 DEF Copy, Go, martVars, copyVars, viewVars
<1>4. ASSUME NEW e \in Exports, Write(e)
      PROVE  CopyInv'
  BY <1>4 DEF Write, Go, martVars, copyVars, viewVars
<1>5. ASSUME NEW e \in Exports, Recheck(e)
      PROVE  CopyInv'
  BY <1>5 DEF Recheck, Go, martVars, copyVars, viewVars
<1>6. ASSUME NEW e \in Exports, Link(e)
      PROVE  CopyInv'
  BY <1>6 DEF Link, Go, martVars, copyVars, viewVars
<1>7. ASSUME NEW e \in Exports, ReplaceServing(e)
      PROVE  CopyInv'
  BY <1>7 DEF ReplaceServing, Go, martVars, copyVars, viewVars
<1>8. ASSUME NEW e \in Exports, Return(e)
      PROVE  CopyInv'
  BY <1>8 DEF Return, Go, martVars, copyVars, viewVars
<1>9. ASSUME NEW e \in Exports, ExportFail(e)
      PROVE  CopyInv'
  BY <1>9 DEF ExportFail, martVars, copyVars, viewVars
<1>10. ASSUME NEW e \in Exports, ExportCrash(e)
      PROVE  CopyInv'
  BY <1>10 DEF ExportCrash, martVars, copyVars, viewVars
<1>11. ASSUME NEW e \in Exports, Skip(e)
      PROVE  CopyInv'
  BY <1>11 DEF Skip, Go, martVars, copyVars, viewVars
<1>12. ASSUME NEW e \in Exports, Get(e)
      PROVE  CopyInv'
  BY <1>12 DEF Get, Go, martVars, copyVars, viewVars
<1>13. ASSUME NEW e \in Exports, Put(e)
      PROVE  CopyInv'
  BY <1>13 DEF Put, Go, martVars, copyVars, viewVars
<1>14. ASSUME NEW e \in Exports, Verify(e)
      PROVE  CopyInv'
  BY <1>14 DEF Verify, Go, martVars, copyVars, viewVars
<1>15. ASSUME NEW e \in Exports, List(e)
      PROVE  CopyInv'
  BY <1>15 DEF List, Go, martVars, copyVars, viewVars
<1>16. ASSUME NEW e \in Exports, Unlink(e)
      PROVE  CopyInv'
  BY <1>16 DEF Unlink, martVars, copyVars, viewVars
<1>17. ASSUME NEW e \in Exports, Finish(e)
      PROVE  CopyInv'
  BY <1>17 DEF Finish, Go, martVars, copyVars, viewVars
<1>18. ASSUME NEW e \in Exports, RepointFail(e)
      PROVE  CopyInv'
  BY <1>18 DEF RepointFail, martVars, copyVars, viewVars
<1>19. ASSUME NEW e \in Exports, Retry(e)
      PROVE  CopyInv'
  BY <1>19 DEF Retry, Go, martVars, copyVars, viewVars
<1>20. ASSUME NEW e \in Exports, GiveUp(e)
      PROVE  CopyInv'
  BY <1>20 DEF GiveUp, Go, martVars, copyVars, viewVars
<1>21. CASE Publish
  BY <1>21
  DEF Publish, copyVars, viewVars, Marts!Next, Marts!Replace, Marts!Record
<1>22. CASE UNCHANGED vars
  BY <1>22 DEF vars, martVars, copyVars, viewVars
<1> QED
  BY <1>1, <1>2, <1>3, <1>4, <1>5, <1>6, <1>7, <1>8, <1>9, <1>10, <1>11, <1>12,
     <1>13, <1>14, <1>15, <1>16, <1>17, <1>18, <1>19, <1>20, <1>21, <1>22
  DEF Next, ExportStep, RepointStep

\* Nothing is claimed, copied or served in the initial states.
LEMMA InitCopyInv == Init => CopyInv
  BY ExportsAssumption
  DEF Init, CopyInv, ClaimsPast, CopiedRight, ServedRight, Unchecked

\* A served file holds the marts of the publish run its serving_manifest names,
\* however exports and publish runs interleave.
THEOREM ManifestsTrue == Spec => []ManifestTrue
<1>1. CopyInv => ManifestTrue
  BY DEF CopyInv, ServedRight, ManifestTrue
<1> QED
  BY <1>1, InitTypeOK, NextTypeOK, InitCopyInv, NextCopyInv, PTL DEF Spec

-----------------------------------------------------------------------------
(* Where Metabase is pointed, when exports take turns.                     *)

\* Every step keeps the file Metabase is pointed at, when exports take turns.
LEMMA NextPointInv ==
  Exclusive /\ TypeOK /\ PointInv /\ [Next]_vars => PointInv'
<1> SUFFICES ASSUME Exclusive, TypeOK /\ PointInv, [Next]_vars
             PROVE  PointInv'
  OBVIOUS
<1> USE DEF TypeOK, PointInv, OneBusy, Busy, WrittenLast, OwnFileStays,
    PointedStays, PutManaged, SettledPoints, Copying, Repointing, Ended
<1>1. ASSUME NEW e \in Exports, Begin(e)
      PROVE  PointInv'
  BY <1>1 DEF Begin, Go, martVars, copyVars, viewVars
<1>2. ASSUME NEW e \in Exports, Check(e)
      PROVE  PointInv'
  BY <1>2 DEF Check, Go, martVars, copyVars, viewVars
<1>3. ASSUME NEW e \in Exports, Copy(e)
      PROVE  PointInv'
  BY <1>3 DEF Copy, Go, martVars, copyVars, viewVars
<1>4. ASSUME NEW e \in Exports, Write(e)
      PROVE  PointInv'
  BY <1>4 DEF Write, Go, martVars, copyVars, viewVars
<1>5. ASSUME NEW e \in Exports, Recheck(e)
      PROVE  PointInv'
  BY <1>5 DEF Recheck, Go, martVars, copyVars, viewVars
<1>6. ASSUME NEW e \in Exports, Link(e)
      PROVE  PointInv'
  BY <1>6 DEF Link, Go, martVars, copyVars, viewVars
<1>7. ASSUME NEW e \in Exports, ReplaceServing(e)
      PROVE  PointInv'
  BY <1>7 DEF ReplaceServing, Go, martVars, copyVars, viewVars
<1>8. ASSUME NEW e \in Exports, Return(e)
      PROVE  PointInv'
  BY <1>8 DEF Return, Go, martVars, copyVars, viewVars
<1>9. ASSUME NEW e \in Exports, ExportFail(e)
      PROVE  PointInv'
  BY <1>9 DEF ExportFail, martVars, copyVars, viewVars
<1>10. ASSUME NEW e \in Exports, ExportCrash(e)
      PROVE  PointInv'
  BY <1>10 DEF ExportCrash, martVars, copyVars, viewVars
<1>11. ASSUME NEW e \in Exports, Skip(e)
      PROVE  PointInv'
  BY <1>11 DEF Skip, Go, martVars, copyVars, viewVars
<1>12. ASSUME NEW e \in Exports, Get(e)
      PROVE  PointInv'
  BY <1>12 DEF Get, Go, martVars, copyVars, viewVars
<1>13. ASSUME NEW e \in Exports, Put(e)
      PROVE  PointInv'
  BY <1>13 DEF Put, Go, martVars, copyVars, viewVars
<1>14. ASSUME NEW e \in Exports, Verify(e)
      PROVE  PointInv'
  BY <1>14 DEF Verify, Go, martVars, copyVars, viewVars
<1>15. ASSUME NEW e \in Exports, List(e)
      PROVE  PointInv'
  <2>1. e \in Newest
    <3>1. e \in exports /\ {d \in exports : mtime[d] > mtime[e]} = {}
      BY <1>15 DEF List, Go
    <3>2. Cardinality({d \in exports : mtime[d] > mtime[e]}) = 0
      BY <3>1, FS_EmptySet, Zenon
    <3>3. Cardinality({d \in exports : mtime[d] > mtime[e]}) < Retention
      BY <3>2, RetentionAssumption
    <3> QED
      BY <3>1, <3>3, Zenon DEF Newest
  <2>2. e \notin doomed'[e]
    BY <2>1, <1>15 DEF List
  <2> QED
    BY <2>2, <1>15 DEF List, Go, martVars, copyVars, viewVars
<1>16. ASSUME NEW e \in Exports, Unlink(e)
      PROVE  PointInv'
  BY <1>16 DEF Unlink, martVars, copyVars, viewVars
<1>17. ASSUME NEW e \in Exports, Finish(e)
      PROVE  PointInv'
  BY <1>17 DEF Finish, Go, martVars, copyVars, viewVars
<1>18. ASSUME NEW e \in Exports, RepointFail(e)
      PROVE  PointInv'
  BY <1>18 DEF RepointFail, martVars, copyVars, viewVars
<1>19. ASSUME NEW e \in Exports, Retry(e)
      PROVE  PointInv'
  BY <1>19 DEF Retry, Go, martVars, copyVars, viewVars
<1>20. ASSUME NEW e \in Exports, GiveUp(e)
      PROVE  PointInv'
  BY <1>20 DEF GiveUp, Go, martVars, copyVars, viewVars
<1>21. CASE Publish
  BY <1>21
  DEF Publish, copyVars, viewVars, Marts!Next, Marts!Replace, Marts!Record
<1>22. CASE UNCHANGED vars
  BY <1>22 DEF vars, martVars, copyVars, viewVars
<1> QED
  BY <1>1, <1>2, <1>3, <1>4, <1>5, <1>6, <1>7, <1>8, <1>9, <1>10, <1>11, <1>12,
     <1>13, <1>14, <1>15, <1>16, <1>17, <1>18, <1>19, <1>20, <1>21, <1>22
  DEF Next, ExportStep, RepointStep

\* Metabase is pointed at mart.duckdb in the initial states.
LEMMA InitPointInv == Init => PointInv
  BY DEF Init, PointInv, OneBusy, Busy, WrittenLast, OwnFileStays,
         PointedStays, PutManaged, SettledPoints, Repointing, Ended

\* The file Metabase is pointed at exists, when no export is started before
\* the others are through.
THEOREM PointedExists == Exclusive => (Spec => []PointedFileExists)
<1> SUFFICES ASSUME Exclusive PROVE Spec => []PointedFileExists
  OBVIOUS
<1>1. TypeOK /\ PointInv => PointedFileExists
  BY DEF TypeOK, PointInv, PointedStays, PointedFileExists
<1>2. TypeOK /\ PointInv /\ [Next]_vars => PointInv'
  BY NextPointInv
<1> QED
  BY <1>1, <1>2, InitTypeOK, NextTypeOK, InitPointInv, PTL DEF Spec

-----------------------------------------------------------------------------
(* What Metabase shows, when exports take turns.                           *)

\* Publish runs that were replaced: their files do not come back.
Gone == past \ {file}

\* An export that has found its file published twice is the newest: every
\* other one is of the same publish run or of one that was replaced.
OnlyForward ==
  \A e \in Exports : Busy(e) /\ pc[e] \notin Unchecked =>
    /\ claim[e] \notin left
    /\ \A d \in Exports : pc[d] # "idle" => claim[d] \in {claim[e]} \cup Gone

\* Metabase is only moved away from publish runs that were replaced.
LeftGone == left \subseteq Gone

AgeInv == LeftGone /\ OnlyForward /\ NeverShowsOlder

\* What is gone stays gone.
LEMMA GoneGrows ==
  ASSUME Publish
  PROVE  Gone \subseteq Gone'
  BY DEF Publish, Gone, Marts!Next, Marts!Replace, Marts!Record

\* What Metabase shows is the claim of an export that has begun.
LEMMA ShownClaimed ==
  ASSUME TypeOK, CopyInv, PointInv
  PROVE  \/ ShownRun(pointer, serving) = NoFile
         \/ \E d \in Exports : /\ pc[d] # "idle"
                               /\ ShownRun(pointer, serving) = claim[d]
  BY DEF ShownRun, TypeOK, CopyInv, ServedRight, Unchecked, PointInv,
         PointedStays, Repointing

\* Every step keeps what Metabase shows from going back.
LEMMA NextAgeInv ==
  Exclusive /\ TypeOK /\ CopyInv /\ PointInv /\ AgeInv /\ [Next]_vars => AgeInv'
<1> SUFFICES ASSUME Exclusive, TypeOK, CopyInv, PointInv, AgeInv, [Next]_vars
             PROVE  AgeInv'
  OBVIOUS
<1>shown.
  \/ ShownRun(pointer, serving) = NoFile
  \/ \E d \in Exports : pc[d] # "idle" /\ ShownRun(pointer, serving) = claim[d]
  BY ShownClaimed
<1>parts. ClaimsPast /\ OneBusy /\ ServedRight /\ PointedStays
  BY DEF CopyInv, PointInv
<1>types.
  /\ pc \in [Exports -> {"idle", "refused"} \cup Copying \cup Repointing \cup Ended]
  /\ claim \in [Exports -> Publishers \cup {NoFile}]
  /\ serving \in Exports \cup {NoFile} /\ pointer \in Exports \cup {Canonical}
  BY DEF TypeOK
<1> USE DEF AgeInv, LeftGone, OnlyForward, NeverShowsOlder, Gone, Busy,
    Unchecked, Copying, Repointing, Ended
<1>1. ASSUME NEW e \in Exports, Begin(e)
      PROVE  AgeInv'
  BY <1>shown, <1>parts, <1>types, <1>1, ExportsAssumption
  DEF Begin, Go, martVars, copyVars, viewVars, ShownRun, ServedRight, PointedStays
<1>2. ASSUME NEW e \in Exports, Check(e)
      PROVE  AgeInv'
  BY <1>shown, <1>parts, <1>types, <1>2, ExportsAssumption
  DEF Check, Go, martVars, copyVars, viewVars, ShownRun
<1>3. ASSUME NEW e \in Exports, Copy(e)
      PROVE  AgeInv'
  BY <1>shown, <1>parts, <1>types, <1>3, ExportsAssumption
  DEF Copy, Go, martVars, copyVars, viewVars, ShownRun
<1>4. ASSUME NEW e \in Exports, Write(e)
      PROVE  AgeInv'
  BY <1>shown, <1>parts, <1>types, <1>4, ExportsAssumption
  DEF Write, Go, martVars, copyVars, viewVars, ShownRun
<1>5. ASSUME NEW e \in Exports, Recheck(e)
      PROVE  AgeInv'
  BY <1>shown, <1>parts, <1>types, <1>5, ExportsAssumption
  DEF Recheck, Go, martVars, copyVars, viewVars, ShownRun, RequireIdentity, ClaimsPast, OneBusy
<1>6. ASSUME NEW e \in Exports, Link(e)
      PROVE  AgeInv'
  BY <1>shown, <1>parts, <1>types, <1>6, ExportsAssumption
  DEF Link, Go, martVars, copyVars, viewVars, ShownRun
<1>7. ASSUME NEW e \in Exports, ReplaceServing(e)
      PROVE  AgeInv'
  BY <1>shown, <1>parts, <1>types, <1>7, ExportsAssumption
  DEF ReplaceServing, Go, martVars, copyVars, viewVars, ShownRun, Leave, OneBusy
<1>8. ASSUME NEW e \in Exports, Return(e)
      PROVE  AgeInv'
  BY <1>shown, <1>parts, <1>types, <1>8, ExportsAssumption
  DEF Return, Go, martVars, copyVars, viewVars, ShownRun
<1>9. ASSUME NEW e \in Exports, ExportFail(e)
      PROVE  AgeInv'
  BY <1>shown, <1>parts, <1>types, <1>9, ExportsAssumption
  DEF ExportFail, martVars, copyVars, viewVars, ShownRun
<1>10. ASSUME NEW e \in Exports, ExportCrash(e)
      PROVE  AgeInv'
  BY <1>shown, <1>parts, <1>types, <1>10, ExportsAssumption
  DEF ExportCrash, martVars, copyVars, viewVars, ShownRun
<1>11. ASSUME NEW e \in Exports, Skip(e)
      PROVE  AgeInv'
  BY <1>shown, <1>parts, <1>types, <1>11, ExportsAssumption
  DEF Skip, Go, martVars, copyVars, viewVars, ShownRun
<1>12. ASSUME NEW e \in Exports, Get(e)
      PROVE  AgeInv'
  BY <1>shown, <1>parts, <1>types, <1>12, ExportsAssumption
  DEF Get, Go, martVars, copyVars, viewVars, ShownRun
<1>13. ASSUME NEW e \in Exports, Put(e)
      PROVE  AgeInv'
  BY <1>shown, <1>parts, <1>types, <1>13, ExportsAssumption
  DEF Put, Go, martVars, copyVars, viewVars, ShownRun, Leave, OneBusy
<1>14. ASSUME NEW e \in Exports, Verify(e)
      PROVE  AgeInv'
  BY <1>shown, <1>parts, <1>types, <1>14, ExportsAssumption
  DEF Verify, Go, martVars, copyVars, viewVars, ShownRun
<1>15. ASSUME NEW e \in Exports, List(e)
      PROVE  AgeInv'
  BY <1>shown, <1>parts, <1>types, <1>15, ExportsAssumption
  DEF List, Go, martVars, copyVars, viewVars, ShownRun
<1>16. ASSUME NEW e \in Exports, Unlink(e)
      PROVE  AgeInv'
  BY <1>shown, <1>parts, <1>types, <1>16, ExportsAssumption
  DEF Unlink, martVars, copyVars, viewVars, ShownRun
<1>17. ASSUME NEW e \in Exports, Finish(e)
      PROVE  AgeInv'
  BY <1>shown, <1>parts, <1>types, <1>17, ExportsAssumption
  DEF Finish, Go, martVars, copyVars, viewVars, ShownRun
<1>18. ASSUME NEW e \in Exports, RepointFail(e)
      PROVE  AgeInv'
  BY <1>shown, <1>parts, <1>types, <1>18, ExportsAssumption
  DEF RepointFail, martVars, copyVars, viewVars, ShownRun
<1>19. ASSUME NEW e \in Exports, Retry(e)
      PROVE  AgeInv'
  BY <1>shown, <1>parts, <1>types, <1>19, ExportsAssumption
  DEF Retry, Go, martVars, copyVars, viewVars, ShownRun
<1>20. ASSUME NEW e \in Exports, GiveUp(e)
      PROVE  AgeInv'
  BY <1>shown, <1>parts, <1>types, <1>20, ExportsAssumption
  DEF GiveUp, Go, martVars, copyVars, viewVars, ShownRun
<1>21. CASE Publish
  BY <1>parts, <1>types, <1>21, GoneGrows DEF Publish, copyVars, viewVars, ShownRun
<1>22. CASE UNCHANGED vars
  BY <1>22 DEF vars, martVars, copyVars, viewVars, ShownRun
<1> QED
  BY <1>1, <1>2, <1>3, <1>4, <1>5, <1>6, <1>7, <1>8, <1>9, <1>10, <1>11, <1>12,
     <1>13, <1>14, <1>15, <1>16, <1>17, <1>18, <1>19, <1>20, <1>21, <1>22
  DEF Next, ExportStep, RepointStep

\* Metabase shows nothing and was moved away from nothing in the initial states.
LEMMA InitAgeInv == Init => AgeInv
  BY ExportsAssumption
  DEF Init, AgeInv, LeftGone, OnlyForward, NeverShowsOlder, Busy

\* Metabase never goes back to a publish run it was moved away from, when no
\* export is started before the others are through.
THEOREM NeverBack == Exclusive => (Spec => []NeverShowsOlder)
<1> SUFFICES ASSUME Exclusive PROVE Spec => []NeverShowsOlder
  OBVIOUS
<1>1. AgeInv => NeverShowsOlder
  BY DEF AgeInv
<1>2. TypeOK /\ PointInv /\ [Next]_vars => PointInv'
  BY NextPointInv
<1>3. TypeOK /\ CopyInv /\ PointInv /\ AgeInv /\ [Next]_vars => AgeInv'
  BY NextAgeInv
<1> QED
  BY <1>1, <1>2, <1>3, InitTypeOK, NextTypeOK, InitCopyInv, NextCopyInv,
     InitPointInv, InitAgeInv, PTL
  DEF Spec

=============================================================================
