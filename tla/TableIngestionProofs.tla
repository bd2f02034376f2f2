------------------------ MODULE TableIngestionProofs ------------------------
(***************************************************************************)
(* Proofs about TableIngestion for every set of runs, rewinds and batches, *)
(* every bound and every time to live.  Nothing in the argument needs the  *)
(* table lease to exclude anybody.  What a run may commit is pinned by     *)
(* three facts: the store is write-once, so the evidence of a batch names  *)
(* one run (Evidence); a snapshot misses no row of its range, now or later *)
(* (SnapshotComplete, UpperKnown); and a run commits only on the watermark *)
(* version it read before it leased the table (TokenAfterRead).            *)
(***************************************************************************)
EXTENDS TableIngestion, TLAPS

\* Where a run is before it uploads, and from which point on a check in the
\* run has passed.
NotOpened   == {"idle", "begun", "ready", "leased"}
NotUploaded == NotOpened \cup {"opened", "written", "quarantined"}
Uploading   == {"quarantined", "uploaded", "manifested", "checked"}
Written     == {"written"} \cup Uploading
Leasing     == {"leased"} \cup Beating

\* The source has a newest row version, if it has any.
HasNewest == src = {} \/ \E m \in src : \A c \in src : c <= m

\* A cursor that some row of the source is at or above.
Known(c) == c = 0 \/ \E d \in src : c <= d

\* A run has read nothing before it opens its snapshot, and stored no object
\* before the upload.
NothingYet ==
  \A r \in Runs :
    /\ pc[r] \in NotOpened => upper[r] = 0
    /\ pc[r] \in NotUploaded => \A b \in Batches : object[b] # r

\* A run that went on after the snapshot had rows.
RangeNotEmpty == \A r \in Runs : pc[r] \in Written => upper[r] # 0

\* A run finds in the store what it wrote there.
OwnEvidence ==
  \A r \in Runs :
    /\ pc[r] \in {"uploaded", "manifested", "checked"} => object[batch[r]] = r
    /\ pc[r] \in {"manifested", "checked"} => manifest[batch[r]] = r
    /\ pc[r] \in Uploading /\ rejected[r] # {} => quarantine[batch[r]] = r

\* All that the store holds for a batch comes from the one run that uploaded
\* its object, and that run had rows.
Evidence ==
  \A b \in Batches :
    /\ object[b] # NoRun => /\ batch[object[b]] = b
                            /\ upper[object[b]] # 0
                            /\ rejected[object[b]] # {} => quarantine[b] = object[b]
    /\ manifest[b] # NoRun => manifest[b] = object[b]

\* The evidence reconcile_orphan found good stays good.
VettedStays ==
  \A b \in vetted : /\ object[b] # NoRun /\ manifest[b] = object[b]
                    /\ rejected[object[b]] = {}

\* A batch with rejected rows is catalogued together with them.
RejectsCatalogued ==
  \A b \in Batches :
    bronze[b] # NoRun /\ rejected[bronze[b]] # {} => qmeta[b] = bronze[b]

StoreInv ==
  /\ NothingYet /\ RangeNotEmpty /\ OwnEvidence /\ Evidence /\ VettedStays
  /\ CatalogMatchesStore /\ RejectsCatalogued

\* The rows a run extracted are in the range it records, and no current row
\* of the source that lies in that range is missing from them.
SnapshotComplete ==
  \A r \in Runs :
    /\ upper[r] # 0 => seen[r].cursor < upper[r]
    /\ \A c \in rows[r] : seen[r].cursor < c /\ c <= upper[r]
    /\ \A c \in src : seen[r].cursor < c /\ c <= upper[r] => c \in rows[r]

\* Every range and the watermark end where the source has already been, so a
\* new row is above them.
UpperKnown == Known(wm.cursor) /\ \A r \in Runs : Known(upper[r])

ReadInv == SnapshotComplete /\ UpperKnown

\* Versions of the watermark only grow: nobody read a later one, a run leased
\* the table at or after its read, and a rewind left its version behind.
VersionsGrow ==
  /\ \A r \in Runs : seen[r].version <= wm.version
  /\ \A o \in Owners : token[o] <= wm.version
  /\ \A w \in Rewinders :
       pc[w] \in {"rewound", "done"} => token[w] < wm.version

TokenAfterRead ==
  \A r \in Runs : pc[r] \in Leasing => seen[r].version <= token[r]

VersionInv == VersionsGrow /\ TokenAfterRead

NobodyRewinds == \A w \in Rewinders : pc[w] \in {"idle", "aimed"}

\* As long as nobody rewinds the watermark is the end of all that was loaded.
LoadedBelow ==
  NobodyRewinds =>
    \A b \in Batches : bronze[b] # NoRun => upper[bronze[b]] <= wm.cursor

-----------------------------------------------------------------------------
(* The newest row version.                                                 *)

\* MaxOf names the greatest element of a set that has one, and 0 otherwise.
LEMMA MaxOfGreatest ==
  ASSUME NEW S \in SUBSET (1..MaxRow),
         S = {} \/ \E m \in S : \A c \in S : c <= m
  PROVE  /\ MaxOf(S) \in Cursors
         /\ S = {} => MaxOf(S) = 0
         /\ S # {} => MaxOf(S) \in S
         /\ \A c \in S : c <= MaxOf(S)
<1>1. CASE S = {}
  BY <1>1, NumbersAssumption DEF MaxOf, Cursors
<1>2. CASE S # {}
  <2>1. PICK m \in S : \A c \in S : c <= m
    BY <1>2
  <2>2. MaxOf(S) = CHOOSE c \in S : \A d \in S : d <= c
    BY <1>2 DEF MaxOf
  <2>3. MaxOf(S) \in S /\ \A d \in S : d <= MaxOf(S)
    BY <2>1, <2>2
  <2>4. MaxOf(S) \in 1..MaxRow
    BY <2>3
  <2>5. MaxOf(S) \in Cursors
    BY <2>4, NumbersAssumption DEF Cursors
  <2> QED
    BY <1>2, <2>3, <2>5
<1> QED
  BY <1>1, <1>2

\* The upper bound of a snapshot is the newest row of its range.
LEMMA NewestAbove ==
  ASSUME TypeOK, HasNewest, NEW cursor \in Cursors
  PROVE  /\ MaxOf(Above(cursor)) \in Cursors
         /\ Above(cursor) = {} => MaxOf(Above(cursor)) = 0
         /\ Above(cursor) # {} => MaxOf(Above(cursor)) \in Above(cursor)
         /\ \A c \in Above(cursor) : c <= MaxOf(Above(cursor))
<1>1. Above(cursor) \in SUBSET (1..MaxRow)
  BY DEF TypeOK, Above
<1>2. Above(cursor) = {} \/ \E m \in Above(cursor) : \A c \in Above(cursor) : c <= m
  <2>1. SUFFICES ASSUME Above(cursor) # {}
                 PROVE  \E m \in Above(cursor) : \A c \in Above(cursor) : c <= m
    OBVIOUS
  <2>2. PICK m \in src : \A c \in src : c <= m
    BY <2>1 DEF HasNewest, Above
  <2>3. PICK c \in src : c > cursor
    BY <2>1 DEF Above
  <2>4. c \in Nat /\ m \in Nat /\ cursor \in Nat
    BY NumbersAssumption DEF TypeOK, Cursors
  <2>5. m \in Above(cursor)
    BY <2>2, <2>3, <2>4 DEF Above
  <2> QED
    BY <2>2, <2>5 DEF Above
<1> QED
  BY <1>1, <1>2, MaxOfGreatest

\* A new row version is above everything in the source.
LEMMA NewestOfSource ==
  ASSUME TypeOK, HasNewest
  PROVE  /\ MaxOf(src) \in Cursors
         /\ \A c \in src : c <= MaxOf(src)
  BY MaxOfGreatest DEF TypeOK, HasNewest

-----------------------------------------------------------------------------
(* Type correctness, with HasNewest, which gives MaxOf its type.           *)

TypeInv == TypeOK /\ HasNewest

WatermarkRow == [cursor : Cursors, version : Nat,
                 owner : Owners \cup {NoRun}, expires : 0..(MaxClock + TTL)]

\* The initial states have the right types.
LEMMA InitTypeInv == Init => TypeInv
  BY NumbersAssumption
  DEF Init, TypeInv, TypeOK, HasNewest, Cursors, Times, MaybeRun, RunPC, Owners

\* The end of a run or of a rewind keeps the types of what it resets.
LEMMA EndsTypes ==
  ASSUME TypeOK, NEW o \in Owners, Ends(o)
  PROVE  /\ began' \in [Runs -> Times]
         /\ healthy' \in [Runs -> BOOLEAN]
         /\ UNCHANGED <<batch, seen, token, upper, rows, rejected>>
  BY NumbersAssumption DEF TypeOK, Ends, Times

\* acquire_table_lease leaves the cursor and the version alone and hands out
\* the version as token.
LEMMA AcquireEffect ==
  ASSUME wm \in WatermarkRow, NEW o \in Owners, NEW now \in Times,
         AcquireTableLease(o, now)
  PROVE  /\ wm' \in WatermarkRow
         /\ wm'.cursor = wm.cursor /\ wm'.version = wm.version
         /\ token' = [token EXCEPT ![o] = wm.version]
<1>1. wm' = [wm EXCEPT !.owner = o, !.expires = now + TTL]
  BY DEF AcquireTableLease
<1>2. now + TTL \in 0..(MaxClock + TTL)
  BY NumbersAssumption DEF Times
<1>3. wm' \in WatermarkRow
  BY <1>1, <1>2 DEF WatermarkRow
<1>4. wm'.cursor = wm.cursor /\ wm'.version = wm.version
  BY <1>1 DEF WatermarkRow
<1> QED
  BY <1>3, <1>4 DEF AcquireTableLease

\* So does release_table_lease.
LEMMA ReleaseEffect ==
  ASSUME wm \in WatermarkRow, NEW o \in Owners, ReleaseTableLease(o)
  PROVE  /\ wm' \in WatermarkRow
         /\ wm'.cursor = wm.cursor /\ wm'.version = wm.version
<1>1. wm' = wm \/ wm' = [wm EXCEPT !.owner = NoRun, !.expires = 0]
  BY DEF ReleaseTableLease
<1>2. 0 \in 0..(MaxClock + TTL)
  BY NumbersAssumption
<1>3. wm' \in WatermarkRow
  BY <1>1, <1>2 DEF WatermarkRow
<1>4. wm'.cursor = wm.cursor /\ wm'.version = wm.version
  BY <1>1 DEF WatermarkRow
<1> QED
  BY <1>3, <1>4

\* And the renewal of the heartbeat.
LEMMA RenewEffect ==
  ASSUME wm \in WatermarkRow, clock \in Times,
         wm' = [wm EXCEPT !.expires = clock + TTL]
  PROVE  /\ wm' \in WatermarkRow
         /\ wm'.cursor = wm.cursor /\ wm'.version = wm.version
<1>1. clock + TTL \in 0..(MaxClock + TTL)
  BY NumbersAssumption DEF Times
<1>2. wm' \in WatermarkRow
  BY <1>1 DEF WatermarkRow
<1>3. wm'.cursor = wm.cursor /\ wm'.version = wm.version
  BY DEF WatermarkRow
<1> QED
  BY <1>2, <1>3

\* A commit, a rewind and a reconciliation move the cursor and count a version.
LEMMA MoveEffect ==
  ASSUME wm \in WatermarkRow, NEW to \in Cursors, MoveCursor(to)
  PROVE  /\ wm' \in WatermarkRow
         /\ wm'.cursor = to /\ wm'.version = wm.version + 1
<1>1. wm' = [wm EXCEPT !.cursor = to, !.version = @ + 1]
  BY DEF MoveCursor
<1>2. wm.version + 1 \in Nat
  BY DEF WatermarkRow
<1>3. wm' \in WatermarkRow
  BY <1>1, <1>2 DEF WatermarkRow
<1>4. wm'.cursor = to /\ wm'.version = wm.version + 1
  BY <1>1 DEF WatermarkRow
<1> QED
  BY <1>3, <1>4

\* A step of a run keeps every variable in its type.
LEMMA RunTypeOK ==
  ASSUME TypeInv, NEW r \in Runs, RunStep(r)
  PROVE  TypeOK'
<1>r. r \in Owners /\ r \in MaybeRun
  BY DEF Owners, MaybeRun
<1> USE DEF TypeInv, TypeOK, WatermarkRow, Go, SetStatus, RunPC, runVars,
            metaVars, storeVars
<1>1. CASE Begin(r)
  BY <1>1, <1>r DEF Begin
<1>2. CASE LookupNothing(r)
  BY <1>2, <1>r DEF LookupNothing
<1>3. CASE LookupCommitted(r)
  BY <1>3, <1>r, EndsTypes DEF LookupCommitted
<1>4. CASE LeaseTable(r)
  BY <1>4, <1>r, AcquireEffect DEF LeaseTable
<1>5. CASE PrestartFail(r)
  BY <1>5, <1>r, EndsTypes DEF PrestartFail
<1>6. CASE OpenSnapshot(r)
  <2>1. /\ Above(seen[r].cursor) \in SUBSET (1..MaxRow)
        /\ MaxOf(Above(seen[r].cursor)) \in Cursors
    BY NewestAbove DEF Above
  <2> QED
    BY <1>6, <1>r, <2>1 DEF OpenSnapshot
<1>7. CASE NoData(r)
  BY <1>7, <1>r, EndsTypes DEF NoData
<1>8. CASE NoDataFail(r)
  BY <1>8, <1>r, EndsTypes DEF NoDataFail
<1>9. CASE WriteLocal(r)
  BY <1>9, <1>r DEF WriteLocal
<1>10. CASE PublishQuarantine(r)
  BY <1>10, <1>r DEF PublishQuarantine
<1>11. CASE UploadData(r)
  BY <1>11, <1>r DEF UploadData
<1>12. CASE UploadManifest(r)
  BY <1>12, <1>r DEF UploadManifest
<1>13. CASE Recheck(r)
  BY <1>13, <1>r DEF Recheck
<1>14. CASE CommitTableRun(r)
  BY <1>14, <1>r, EndsTypes, MoveEffect DEF CommitTableRun
<1>15. CASE Fail(r)
  BY <1>15, <1>r, EndsTypes DEF Fail
<1>16. CASE Close(r)
  BY <1>16, <1>r, ReleaseEffect DEF Close
<1>17. CASE HeartbeatRenew(r)
  BY <1>17, <1>r, RenewEffect DEF HeartbeatRenew
<1>18. CASE HeartbeatFail(r)
  BY <1>18, <1>r DEF HeartbeatFail
<1> QED
  BY <1>1, <1>2, <1>3, <1>4, <1>5, <1>6, <1>7, <1>8, <1>9, <1>10, <1>11,
     <1>12, <1>13, <1>14, <1>15, <1>16, <1>17, <1>18 DEF RunStep

\* So does a step of a rewind.
LEMMA RewindTypeOK ==
  ASSUME TypeInv, NEW w \in Rewinders, RewindStep(w)
  PROVE  TypeOK'
<1>w. w \in Owners
  BY DEF Owners
<1> USE DEF TypeInv, TypeOK, WatermarkRow, Go, RewindPC, runVars, metaVars, storeVars
<1>1. CASE RewindAim(w)
  <2>1. src \cup {0} \subseteq Cursors
    BY NumbersAssumption DEF Cursors
  <2> QED
    BY <1>1, <1>w, <2>1 DEF RewindAim
<1>2. CASE RewindLease(w)
  BY <1>2, <1>w, AcquireEffect DEF RewindLease
<1>3. CASE Rewind(w)
  BY <1>3, <1>w, MoveEffect DEF Rewind
<1>4. CASE RewindFail(w)
  BY <1>4, <1>w DEF RewindFail
<1>5. CASE RewindClose(w)
  BY <1>5, <1>w, ReleaseEffect DEF RewindClose
<1> QED
  BY <1>1, <1>2, <1>3, <1>4, <1>5 DEF RewindStep

\* So do a crash, a reconciliation and the environment.
LEMMA OtherTypeOK ==
  ASSUME TypeInv, StoreInv,
         \/ \E o \in Owners : Crash(o)
         \/ \E b \in Reconciled : ReconcileVet(b) \/ Reconcile(b)
         \/ SourceWrite
         \/ Tick
  PROVE  TypeOK'
<1> USE DEF TypeInv, TypeOK, WatermarkRow, runVars, metaVars, storeVars
<1>1. ASSUME NEW o \in Owners, Crash(o) PROVE TypeOK'
  BY <1>1, EndsTypes DEF Crash, RunPC
<1>2. ASSUME NEW b \in Reconciled, ReconcileVet(b) PROVE TypeOK'
  BY <1>2, ReconciledAssumption DEF ReconcileVet
<1>3. ASSUME NEW b \in Reconciled, Reconcile(b) PROVE TypeOK'
  <2>1. b \in Batches /\ manifest[b] \in Runs
    BY <1>3, ReconciledAssumption
    DEF Reconcile, StoreInv, VettedStays, MaybeRun
  <2> QED
    BY <1>3, <2>1, MoveEffect DEF Reconcile, SetStatus, MaybeRun
<1>4. CASE SourceWrite
  <2>1. MaxOf(src) + 1 \in 1..MaxRow
    BY <1>4, NewestOfSource, NumbersAssumption DEF SourceWrite, Cursors
  <2> QED
    BY <1>4, <2>1 DEF SourceWrite
<1>5. CASE Tick
  BY <1>5, NumbersAssumption DEF Tick, Times
<1> QED
  BY <1>1, <1>2, <1>3, <1>4, <1>5

\* The source keeps a newest row: only a Generator run changes it.
LEMMA NextHasNewest ==
  ASSUME TypeInv, Next
  PROVE  HasNewest'
<1>1. CASE SourceWrite
  <2>1. MaxOf(src) \in Nat /\ \A c \in src : c \in Nat /\ c <= MaxOf(src)
    BY NewestOfSource, NumbersAssumption DEF TypeInv, TypeOK, Cursors
  <2>2. PICK old \in src \cup {0} : src' = (src \ {old}) \cup {MaxOf(src) + 1}
    BY <1>1 DEF SourceWrite
  <2>3. \A c \in src' : c <= MaxOf(src) + 1
    BY <2>1, <2>2
  <2> QED
    BY <2>2, <2>3 DEF HasNewest
<1>2. CASE ~SourceWrite
  <2>1. UNCHANGED src
    BY <1>2
    DEF Next, RunStep, Begin, LookupNothing, LookupCommitted, LeaseTable,
        PrestartFail, OpenSnapshot, NoData, NoDataFail, WriteLocal,
        PublishQuarantine, UploadData, UploadManifest, Recheck, CommitTableRun,
        Fail, Close, HeartbeatRenew, HeartbeatFail, RewindStep, RewindAim,
        RewindLease, Rewind, RewindFail, RewindClose, Crash, ReconcileVet,
        Reconcile, Tick
  <2> QED
    BY <2>1 DEF HasNewest, TypeInv
<1> QED
  BY <1>1, <1>2

-----------------------------------------------------------------------------
(* The store and the catalog.                                              *)

\* Initially nothing is stored.
LEMMA InitStoreInv == Init => StoreInv
  BY OwnersAssumption
  DEF Init, StoreInv, NothingYet, RangeNotEmpty, OwnEvidence, Evidence,
      VettedStays, CatalogMatchesStore, RejectsCatalogued, NotOpened,
      NotUploaded, Written, Uploading, Owners

\* What is stored for a batch is never replaced, and no step takes a run back
\* to before its upload: a step of a run keeps StoreInv.
LEMMA RunStoreInv ==
  ASSUME TypeInv, StoreInv, NEW r \in Runs, RunStep(r)
  PROVE  StoreInv'
<1>r. r \in Owners /\ r # NoRun /\ Runs \subseteq Owners /\ NoRun \notin Runs
  BY OwnersAssumption DEF Owners
<1> USE <1>r
    DEF TypeInv, TypeOK, MaybeRun, Go, SetStatus, StoreInv, NothingYet,
        RangeNotEmpty, OwnEvidence, Evidence, VettedStays,
        CatalogMatchesStore, RejectsCatalogued, NotOpened, NotUploaded,
        Written, Uploading, Beating, runVars, metaVars, storeVars
<1>1. CASE Begin(r)
  BY <1>1 DEF Begin
<1>2. CASE LookupNothing(r)
  BY <1>2 DEF LookupNothing
<1>3. CASE LookupCommitted(r)
  BY <1>3 DEF LookupCommitted, Ends
<1>4. CASE LeaseTable(r)
  BY <1>4 DEF LeaseTable
<1>5. CASE PrestartFail(r)
  BY <1>5 DEF PrestartFail, Ends
<1>6. CASE OpenSnapshot(r)
  BY <1>6 DEF OpenSnapshot
<1>7. CASE NoData(r)
  BY <1>7 DEF NoData, Ends
<1>8. CASE NoDataFail(r)
  BY <1>8 DEF NoDataFail, Ends
<1>9. CASE WriteLocal(r)
  BY <1>9 DEF WriteLocal
<1>10. CASE PublishQuarantine(r)
  <2>1. \A b \in Batches : quarantine[b] # NoRun => quarantine'[b] = quarantine[b]
    BY <1>10 DEF PublishQuarantine
  <2>2. rejected[r] # {} => quarantine'[batch[r]] = r
    BY <1>10 DEF PublishQuarantine
  <2>3. Evidence'
    BY <1>10, <2>1 DEF PublishQuarantine
  <2>4. OwnEvidence'
    BY <1>10, <2>1, <2>2 DEF PublishQuarantine
  <2>5. /\ NothingYet' /\ RangeNotEmpty' /\ VettedStays'
        /\ CatalogMatchesStore' /\ RejectsCatalogued'
    BY <1>10 DEF PublishQuarantine
  <2> QED
    BY <2>3, <2>4, <2>5
<1>11. CASE UploadData(r)
  BY <1>11 DEF UploadData
<1>12. CASE UploadManifest(r)
  BY <1>12 DEF UploadManifest
<1>13. CASE Recheck(r)
  BY <1>13 DEF Recheck
<1>14. CASE CommitTableRun(r)
  BY <1>14 DEF CommitTableRun, Ends
<1>15. CASE Fail(r)
  BY <1>15 DEF Fail, Ends
<1>16. CASE Close(r)
  BY <1>16 DEF Close
<1>17. CASE HeartbeatRenew(r)
  BY <1>17 DEF HeartbeatRenew
<1>18. CASE HeartbeatFail(r)
  BY <1>18 DEF HeartbeatFail
<1> QED
  BY <1>1, <1>2, <1>3, <1>4, <1>5, <1>6, <1>7, <1>8, <1>9, <1>10, <1>11,
     <1>12, <1>13, <1>14, <1>15, <1>16, <1>17, <1>18 DEF RunStep

\* So does a step of a rewind, which touches nothing of it.
LEMMA RewindStoreInv ==
  ASSUME TypeInv, StoreInv, NEW w \in Rewinders, RewindStep(w)
  PROVE  StoreInv'
<1>1. /\ UNCHANGED <<batch, upper, rejected, metaVars, storeVars, vetted>>
      /\ \A r \in Runs : pc'[r] = pc[r]
  BY OwnersAssumption
  DEF TypeInv, TypeOK, Owners, RewindStep, RewindAim, RewindLease, Rewind,
      RewindFail, RewindClose, Go, runVars
<1> QED
  BY <1>1
  DEF StoreInv, NothingYet, RangeNotEmpty, OwnEvidence, Evidence, VettedStays,
      CatalogMatchesStore, RejectsCatalogued, metaVars, storeVars

\* A crash leaves behind what the run stored; a reconciliation catalogues the
\* run whose object is stored, and only one without rejected rows.
LEMMA OtherStoreInv ==
  ASSUME TypeInv, StoreInv,
         \/ \E o \in Owners : Crash(o)
         \/ \E b \in Reconciled : ReconcileVet(b) \/ Reconcile(b)
         \/ SourceWrite
         \/ Tick
  PROVE  StoreInv'
<1> USE OwnersAssumption, ReconciledAssumption
    DEF TypeInv, TypeOK, MaybeRun, SetStatus, StoreInv, NothingYet,
        RangeNotEmpty, OwnEvidence, Evidence, VettedStays,
        CatalogMatchesStore, RejectsCatalogued, NotOpened, NotUploaded,
        Written, Uploading, runVars, metaVars, storeVars
<1>1. ASSUME NEW o \in Owners, Crash(o) PROVE StoreInv'
  <2>1. \A r \in Runs : pc'[r] \in {pc[r], "crashed"}
    BY <1>1 DEF Crash, Owners
  <2> QED
    BY <1>1, <2>1 DEF Crash, Ends
<1>2. ASSUME NEW b \in Reconciled, ReconcileVet(b) PROVE StoreInv'
  BY <1>2 DEF ReconcileVet
<1>3. ASSUME NEW b \in Reconciled, Reconcile(b) PROVE StoreInv'
  BY <1>3 DEF Reconcile
<1>4. CASE SourceWrite \/ Tick
  BY <1>4 DEF SourceWrite, Tick
<1> QED
  BY <1>1, <1>2, <1>3, <1>4

\* Stuttering keeps the types and the evidence.
LEMMA StutterStoreInv ==
  ASSUME TypeInv, StoreInv, UNCHANGED vars
  PROVE  TypeInv' /\ StoreInv'
  BY DEF vars, runVars, metaVars, storeVars, TypeInv, TypeOK, HasNewest,
         StoreInv, NothingYet, RangeNotEmpty, OwnEvidence, Evidence,
         VettedStays, CatalogMatchesStore, RejectsCatalogued

\* TypeInv and StoreInv together are inductive.
LEMMA NextStoreInv ==
  ASSUME TypeInv, StoreInv, [Next]_vars
  PROVE  TypeInv' /\ StoreInv'
<1>1. CASE UNCHANGED vars
  BY <1>1, StutterStoreInv
<1>2. CASE Next
  <2>1. TypeOK'
    BY <1>2, RunTypeOK, RewindTypeOK, OtherTypeOK DEF Next
  <2>2. HasNewest'
    BY <1>2, NextHasNewest
  <2>3. StoreInv'
    BY <1>2, RunStoreInv, RewindStoreInv, OtherStoreInv DEF Next
  <2> QED
    BY <2>1, <2>2, <2>3 DEF TypeInv
<1> QED
  BY <1>1, <1>2

\* Every variable keeps its type; in particular a reconciliation always finds
\* a run in the manifest it trusts, and the end of a range is a cursor.
THEOREM TypeCorrect == Spec => []TypeOK
<1>1. Init => TypeInv /\ StoreInv
  BY InitTypeInv, InitStoreInv
<1>2. TypeInv /\ StoreInv /\ [Next]_vars => (TypeInv /\ StoreInv)'
  BY NextStoreInv
<1>3. TypeInv => TypeOK
  BY DEF TypeInv
<1> QED
  BY <1>1, <1>2, <1>3, PTL DEF Spec

\* What the catalog lists for a batch is what the store holds for it, from one
\* run: commit_table_run and the reconciliation read evidence that the
\* conditional uploads never replace.
THEOREM CatalogCorrect == Spec => []CatalogMatchesStore
<1>1. Init => TypeInv /\ StoreInv
  BY InitTypeInv, InitStoreInv
<1>2. TypeInv /\ StoreInv /\ [Next]_vars => (TypeInv /\ StoreInv)'
  BY NextStoreInv
<1>3. StoreInv => CatalogMatchesStore
  BY DEF StoreInv
<1> QED
  BY <1>1, <1>2, <1>3, PTL DEF Spec

\* Before its upload a run is not in the catalog, and neither is a run without
\* rows.
LEMMA NotCatalogued ==
  ASSUME TypeInv, StoreInv, NEW r \in Runs,
         pc[r] \in NotUploaded \/ upper[r] = 0
  PROVE  \A b \in Batches : bronze[b] # r
  BY OwnersAssumption
  DEF TypeInv, TypeOK, StoreInv, NothingYet, Evidence, CatalogMatchesStore

\* A transaction that catalogues a batch from a run adds this run, and no
\* other, to the runs in the catalog.
LEMMA CataloguedBy ==
  ASSUME TypeInv, NEW b \in Batches, NEW r \in Runs, bronze[b] = NoRun,
         bronze' = [bronze EXCEPT ![b] = r]
  PROVE  \A q \in Runs :
           (\E a \in Batches : bronze'[a] = q)
             <=> q = r \/ \E a \in Batches : bronze[a] = q
  BY OwnersAssumption DEF TypeInv, TypeOK

\* A step of a run keeps the recorded status and the catalog in agreement.
LEMMA RunSuccess ==
  ASSUME TypeInv, StoreInv, SuccessIffCatalogued, NEW r \in Runs, RunStep(r)
  PROVE  SuccessIffCatalogued'
<1>1. CASE UNCHANGED <<status, bronze>>
  BY <1>1 DEF SuccessIffCatalogued
<1>2. ASSUME UNCHANGED bronze, NEW s, s # "SUCCESS", SetStatus(r, s),
             \A b \in Batches : bronze[b] # r
      PROVE  SuccessIffCatalogued'
  BY <1>2 DEF SuccessIffCatalogued, SetStatus, TypeInv, TypeOK
<1>3. CASE LookupCommitted(r)
  <2>1. \A b \in Batches : bronze[b] # r
    BY <1>3, NotCatalogued
    DEF LookupCommitted, Go, NotUploaded, NotOpened
  <2>2. \/ SetStatus(r, "SKIPPED_ALREADY_COMMITTED") \/ SetStatus(r, "FAILED")
        \/ SetStatus(r, "RUNNING")
    BY <1>3 DEF LookupCommitted, SetStatus
  <2>3. UNCHANGED bronze
    BY <1>3 DEF LookupCommitted
  <2> QED
    BY <1>2, <2>1, <2>2, <2>3
<1>4. CASE PrestartFail(r)
  BY <1>2, <1>4, NotCatalogued
  DEF PrestartFail, Go, NotUploaded, NotOpened
<1>5. CASE OpenSnapshot(r)
  BY <1>2, <1>5, NotCatalogued
  DEF OpenSnapshot, Go, NotUploaded, NotOpened
<1>6. CASE NoData(r)
  BY <1>2, <1>6, NotCatalogued DEF NoData
<1>7. CASE CommitTableRun(r)
  <2>1. batch[r] \in Batches
    BY DEF TypeInv, TypeOK
  <2>2. /\ bronze[batch[r]] = NoRun
        /\ bronze' = [bronze EXCEPT ![batch[r]] = r]
        /\ status' = [status EXCEPT ![r] = "SUCCESS"]
    BY <1>7 DEF CommitTableRun, SetStatus
  <2>3. \A q \in Runs : (\E a \in Batches : bronze'[a] = q)
                        <=> q = r \/ \E a \in Batches : bronze[a] = q
    BY <2>1, <2>2, CataloguedBy
  <2>4. \A q \in Runs :
          status'[q] = IF q = r THEN "SUCCESS" ELSE status[q]
    BY <2>1, <2>2 DEF TypeInv, TypeOK
  <2> QED
    BY <2>3, <2>4 DEF SuccessIffCatalogued
<1>8. CASE Fail(r)
  <2>1. UNCHANGED bronze
    BY <1>8 DEF Fail
  <2>2. CASE status[r] = "RUNNING" /\ SetStatus(r, "FAILED")
    BY <2>1, <2>2 DEF SuccessIffCatalogued, SetStatus, TypeInv, TypeOK
  <2> QED
    BY <1>1, <1>8, <2>1, <2>2 DEF Fail
<1> QED
  BY <1>1, <1>3, <1>4, <1>5, <1>6, <1>7, <1>8
  DEF RunStep, Begin, LookupNothing, LeaseTable, NoDataFail, WriteLocal,
      PublishQuarantine, UploadData, UploadManifest, Recheck, Close,
      HeartbeatRenew, HeartbeatFail, metaVars

\* So does every other step: only a reconciliation touches them.
LEMMA OtherSuccess ==
  ASSUME TypeInv, StoreInv, SuccessIffCatalogued,
         \/ \E w \in Rewinders : RewindStep(w)
         \/ \E o \in Owners : Crash(o)
         \/ \E b \in Reconciled : ReconcileVet(b) \/ Reconcile(b)
         \/ SourceWrite
         \/ Tick
         \/ UNCHANGED vars
  PROVE  SuccessIffCatalogued'
<1>1. CASE UNCHANGED <<status, bronze>>
  BY <1>1 DEF SuccessIffCatalogued
<1>2. ASSUME NEW b \in Reconciled, Reconcile(b) PROVE SuccessIffCatalogued'
  <2>1. b \in Batches /\ manifest[b] \in Runs
    BY <1>2, ReconciledAssumption
    DEF Reconcile, StoreInv, VettedStays, TypeInv, TypeOK, MaybeRun
  <2>2. /\ bronze[b] = NoRun
        /\ bronze' = [bronze EXCEPT ![b] = manifest[b]]
        /\ status' = [status EXCEPT ![manifest[b]] = "SUCCESS"]
    BY <1>2 DEF Reconcile, SetStatus
  <2>3. \A q \in Runs : (\E a \in Batches : bronze'[a] = q)
                        <=> q = manifest[b] \/ \E a \in Batches : bronze[a] = q
    BY <2>1, <2>2, CataloguedBy
  <2>4. \A q \in Runs :
          status'[q] = IF q = manifest[b] THEN "SUCCESS" ELSE status[q]
    BY <2>1, <2>2 DEF TypeInv, TypeOK
  <2> QED
    BY <2>3, <2>4 DEF SuccessIffCatalogued
<1> QED
  BY <1>1, <1>2
  DEF RewindStep, RewindAim, RewindLease, Rewind, RewindFail, RewindClose,
      Crash, ReconcileVet, SourceWrite, Tick, vars, metaVars

\* A run is recorded SUCCESS exactly when the catalog holds its batch from it,
\* whoever recorded it: the run, or the reconciliation while it was alive.
THEOREM SuccessCorrect == Spec => []SuccessIffCatalogued
<1> DEFINE Inv == TypeInv /\ StoreInv /\ SuccessIffCatalogued
<1>1. Init => Inv
  <2>1. Init => SuccessIffCatalogued
    BY OwnersAssumption DEF Init, SuccessIffCatalogued
  <2> QED
    BY <2>1, InitTypeInv, InitStoreInv
<1>2. Inv /\ [Next]_vars => Inv'
  <2>1. Inv /\ [Next]_vars => SuccessIffCatalogued'
    BY RunSuccess, OtherSuccess DEF Next
  <2> QED
    BY <2>1, NextStoreInv
<1>3. Inv => SuccessIffCatalogued
  OBVIOUS
<1> QED
  BY <1>1, <1>2, <1>3, PTL DEF Spec

-----------------------------------------------------------------------------
(* The source, the snapshots and the watermark.                            *)

\* A row that a step adds to the source is above everything that was there,
\* above every recorded range and above the watermark.
LEMMA SourceGrows ==
  ASSUME TypeInv, ReadInv, SourceWrite
  PROVE  \E n \in 1..MaxRow :
           /\ n \in src'
           /\ \A c \in src' : c \in src \/ c = n
           /\ \A c \in src : c < n
           /\ wm.cursor < n
           /\ \A r \in Runs : upper[r] < n
<1> DEFINE n == MaxOf(src) + 1
<1>1. MaxOf(src) \in Nat /\ \A c \in src : c \in Nat /\ c <= MaxOf(src)
  BY NewestOfSource, NumbersAssumption DEF TypeInv, TypeOK, Cursors
<1>2. n \in 1..MaxRow
  BY <1>1, NumbersAssumption, NewestOfSource
  DEF SourceWrite, Cursors, TypeInv
<1>3. n \in src' /\ \A c \in src' : c \in src \/ c = n
  BY DEF SourceWrite
<1>4. \A c \in src : c < n
  BY <1>1
<1>5. ASSUME NEW c \in Cursors, Known(c) PROVE c < n
  BY <1>1, <1>5, NumbersAssumption DEF Known, Cursors
<1>6. wm.cursor \in Cursors /\ \A r \in Runs : upper[r] \in Cursors
  BY DEF TypeInv, TypeOK
<1>7. wm.cursor < n /\ \A r \in Runs : upper[r] < n
  BY <1>5, <1>6 DEF ReadInv, UpperKnown
<1> QED
  BY <1>2, <1>3, <1>4, <1>7

\* Steps that leave the source, what runs read of it and the watermark cursor
\* alone.
ReadSame == UNCHANGED <<src, seen, upper, rows>> /\ wm'.cursor = wm.cursor

\* Only six kinds of step are not of that kind.
LEMMA ReadSteps ==
  ASSUME TypeInv, [Next]_vars
  PROVE  \/ ReadSame
         \/ \E r \in Runs : Begin(r) \/ OpenSnapshot(r) \/ CommitTableRun(r)
         \/ \E w \in Rewinders : Rewind(w)
         \/ \E b \in Reconciled : Reconcile(b)
         \/ SourceWrite
<1> USE DEF ReadSame, runVars
<1>t. wm \in WatermarkRow /\ clock \in Times /\ Runs \subseteq Owners
      /\ Rewinders \subseteq Owners /\ \A r \in Runs : began[r] \in Times
  BY DEF TypeInv, TypeOK, WatermarkRow, Owners
<1>1. ASSUME NEW r \in Runs, RunStep(r),
             ~Begin(r), ~OpenSnapshot(r), ~CommitTableRun(r)
      PROVE  ReadSame
  <2>1. CASE LeaseTable(r)
    BY <1>t, <2>1, AcquireEffect DEF LeaseTable
  <2>2. CASE Close(r)
    BY <1>t, <2>2, ReleaseEffect DEF Close
  <2>3. CASE HeartbeatRenew(r)
    BY <1>t, <2>3, RenewEffect DEF HeartbeatRenew
  <2> QED
    BY <1>1, <2>1, <2>2, <2>3
    DEF RunStep, LookupNothing, LookupCommitted, PrestartFail, NoData,
        NoDataFail, WriteLocal, PublishQuarantine, UploadData,
        UploadManifest, Recheck, Fail, HeartbeatFail, Ends
<1>2. ASSUME NEW w \in Rewinders, RewindStep(w), ~Rewind(w)
      PROVE  ReadSame
  <2>1. CASE RewindLease(w)
    BY <1>t, <2>1, AcquireEffect DEF RewindLease
  <2>2. CASE RewindClose(w)
    BY <1>t, <2>2, ReleaseEffect DEF RewindClose
  <2> QED
    BY <1>2, <2>1, <2>2 DEF RewindStep, RewindAim, RewindFail
<1>3. ASSUME NEW o \in Owners, Crash(o) PROVE ReadSame
  BY <1>3 DEF Crash, Ends
<1>4. ASSUME NEW b \in Reconciled, ReconcileVet(b) PROVE ReadSame
  BY <1>4 DEF ReconcileVet
<1>5. CASE Tick \/ UNCHANGED vars
  BY <1>5 DEF Tick, vars
<1> QED
  BY <1>1, <1>2, <1>3, <1>4, <1>5 DEF Next

\* A commit and a reconciliation catalogue a batch from one run, on the
\* watermark that the run read, and move the watermark to the end of its range.
Loads(b, r) ==
  /\ bronze[b] = NoRun /\ bronze' = [bronze EXCEPT ![b] = r]
  /\ object[b] = r
  /\ wm.cursor = seen[r].cursor /\ wm'.cursor = upper[r]
  /\ wm'.version = wm.version + 1
  /\ UNCHANGED <<src, batch, seen, token, upper, rows, rejected, target, vetted>>

\* commit_table_run does so.
LEMMA CommitLoads ==
  ASSUME TypeInv, StoreInv, NEW r \in Runs, CommitTableRun(r)
  PROVE  batch[r] \in Batches /\ Loads(batch[r], r)
<1>1. wm \in WatermarkRow /\ upper[r] \in Cursors /\ batch[r] \in Batches
  BY DEF TypeInv, TypeOK, WatermarkRow
<1>2. wm'.cursor = upper[r] /\ wm'.version = wm.version + 1
  BY <1>1, MoveEffect DEF CommitTableRun
<1>3. object[batch[r]] = r
  BY DEF CommitTableRun, Go, StoreInv, OwnEvidence
<1> QED
  BY <1>1, <1>2, <1>3 DEF CommitTableRun, Loads, WatermarkUnmoved, Ends

\* So does the transaction of reconcile_orphan, for the run of the manifest.
LEMMA ReconcileLoads ==
  ASSUME TypeInv, StoreInv, NEW b \in Reconciled, Reconcile(b)
  PROVE  /\ b \in Batches /\ manifest[b] \in Runs /\ b \in vetted
         /\ Loads(b, manifest[b])
<1>1. b \in Batches /\ b \in vetted /\ manifest[b] \in Runs
      /\ object[b] = manifest[b]
  BY ReconciledAssumption
  DEF Reconcile, StoreInv, VettedStays, TypeInv, TypeOK, MaybeRun
<1>2. wm \in WatermarkRow /\ upper[manifest[b]] \in Cursors
  BY <1>1 DEF TypeInv, TypeOK, WatermarkRow
<1>3. wm'.cursor = upper[manifest[b]] /\ wm'.version = wm.version + 1
  BY <1>2, MoveEffect DEF Reconcile
<1> QED
  BY <1>1, <1>3 DEF Reconcile, Loads, runVars

\* A rewind lowers the cursor and leaves what was loaded alone.
LEMMA RewindLowers ==
  ASSUME TypeInv, NEW w \in Rewinders, Rewind(w)
  PROVE  /\ wm'.cursor = target[w] /\ target[w] < wm.cursor
         /\ wm'.version = wm.version + 1 /\ token[w] = wm.version
         /\ UNCHANGED <<src, bronze, batch, seen, token, upper, rows, target,
                        vetted>>
<1>1. wm \in WatermarkRow /\ target[w] \in Cursors
  BY DEF TypeInv, TypeOK, WatermarkRow
<1> QED
  BY <1>1, MoveEffect DEF Rewind, HoldsTableLease, runVars, metaVars

\* Nothing has been read in the initial states.
LEMMA InitReadInv == Init => ReadInv
  BY NumbersAssumption DEF Init, ReadInv, SnapshotComplete, UpperKnown, Known

\* A run that begins has an empty range, whatever watermark it reads.
LEMMA BeginReadInv ==
  ASSUME TypeInv, StoreInv, ReadInv, NEW r \in Runs, Begin(r)
  PROVE  ReadInv'
<1>1. upper[r] = 0
  BY DEF Begin, Go, StoreInv, NothingYet, NotOpened
<1>2. /\ \A c \in rows[r] : c \in Nat \ {0}
      /\ \A c \in src : c \in Nat \ {0}
  BY NumbersAssumption DEF TypeInv, TypeOK
<1>3. rows[r] = {}
  BY <1>1, <1>2 DEF ReadInv, SnapshotComplete
<1>4. \A q \in Runs : q # r => seen'[q] = seen[q]
  BY DEF Begin, TypeInv, TypeOK
<1>5. UNCHANGED <<src, wm, upper, rows>>
  BY DEF Begin
<1>6. SnapshotComplete'
  <2> SUFFICES ASSUME NEW q \in Runs
               PROVE  /\ upper[q] # 0 => seen'[q].cursor < upper[q]
                      /\ \A c \in rows[q] :
                           seen'[q].cursor < c /\ c <= upper[q]
                      /\ \A c \in src :
                           seen'[q].cursor < c /\ c <= upper[q] => c \in rows[q]
    BY <1>5 DEF SnapshotComplete
  <2>1. CASE q = r
    BY <1>1, <1>2, <1>3, <2>1
  <2>2. CASE q # r
    BY <1>4, <2>2 DEF ReadInv, SnapshotComplete
  <2> QED
    BY <2>1, <2>2
<1> QED
  BY <1>5, <1>6 DEF ReadInv, UpperKnown, Known

\* The snapshot takes every row of its range and records the newest as its end.
LEMMA OpenReadInv ==
  ASSUME TypeInv, ReadInv, NEW r \in Runs, OpenSnapshot(r)
  PROVE  ReadInv'
<1> DEFINE S == Above(seen[r].cursor)
           m == MaxOf(Above(seen[r].cursor))
<1>1. seen[r].cursor \in Cursors /\ \A c \in src : c \in Nat \ {0}
  BY NumbersAssumption DEF TypeInv, TypeOK
<1>2. /\ m \in Cursors
      /\ S = {} => m = 0
      /\ S # {} => m \in S
      /\ \A c \in S : c <= m
  BY <1>1, NewestAbove DEF TypeInv
<1>3. UNCHANGED <<src, wm, seen>>
  BY DEF OpenSnapshot
<1>4. /\ rows'[r] = S /\ upper'[r] = m
      /\ \A q \in Runs : q # r => rows'[q] = rows[q] /\ upper'[q] = upper[q]
  BY DEF OpenSnapshot, TypeInv, TypeOK
<1>5. S = {c \in src : c > seen[r].cursor}
  BY DEF Above
<1>6. Known(m)
  BY <1>1, <1>2, <1>5 DEF Known
<1>7. /\ m # 0 => seen[r].cursor < m
      /\ \A c \in S : seen[r].cursor < c /\ c <= m
      /\ \A c \in src : seen[r].cursor < c => c \in S
  BY <1>1, <1>2, <1>5, NumbersAssumption DEF Cursors
<1> HIDE DEF S, m
<1>8. SnapshotComplete'
  BY <1>3, <1>4, <1>7 DEF ReadInv, SnapshotComplete
<1>9. UpperKnown'
  BY <1>3, <1>4, <1>6 DEF ReadInv, UpperKnown, Known
<1> QED
  BY <1>8, <1>9 DEF ReadInv

\* A change of the source adds nothing to a range that was already read.
LEMMA WriteReadInv ==
  ASSUME TypeInv, ReadInv, SourceWrite
  PROVE  ReadInv'
<1>1. PICK n \in 1..MaxRow :
        /\ n \in src'
        /\ \A c \in src' : c \in src \/ c = n
        /\ \A c \in src : c < n
        /\ wm.cursor < n
        /\ \A r \in Runs : upper[r] < n
  BY SourceGrows
<1>2. UNCHANGED <<wm, seen, upper, rows>>
  BY DEF SourceWrite, runVars
<1>3. n \in Nat /\ wm.cursor \in Nat /\ \A r \in Runs : upper[r] \in Nat
  BY NumbersAssumption DEF TypeInv, TypeOK, Cursors
<1>4. SnapshotComplete'
  BY <1>1, <1>2, <1>3 DEF ReadInv, SnapshotComplete
<1>5. UpperKnown'
  BY <1>1, <1>2, <1>3 DEF UpperKnown, Known
<1> QED
  BY <1>4, <1>5 DEF ReadInv

\* Every step keeps what is known of the ranges that were read.
LEMMA NextReadInv ==
  ASSUME TypeInv, StoreInv, ReadInv, [Next]_vars
  PROVE  ReadInv'
<1>1. CASE ReadSame
  BY <1>1 DEF ReadSame, ReadInv, SnapshotComplete, UpperKnown, Known
<1>2. ASSUME NEW b, NEW r \in Runs, Loads(b, r) PROVE ReadInv'
  BY <1>2 DEF Loads, ReadInv, SnapshotComplete, UpperKnown, Known
<1>3. ASSUME NEW w \in Rewinders, Rewind(w) PROVE ReadInv'
  <2>1. /\ wm'.cursor = target[w] /\ target[w] < wm.cursor
        /\ UNCHANGED <<src, seen, upper, rows>>
    BY <1>3, RewindLowers
  <2>2. /\ wm.cursor \in Nat /\ target[w] \in Nat
        /\ \A c \in src : c \in Nat
    BY NumbersAssumption DEF TypeInv, TypeOK, Cursors
  <2>3. Known(target[w])
    BY <2>1, <2>2 DEF ReadInv, UpperKnown, Known
  <2> QED
    BY <2>1, <2>3 DEF ReadInv, SnapshotComplete, UpperKnown, Known
<1> QED
  BY <1>1, <1>2, <1>3, ReadSteps, BeginReadInv, OpenReadInv, WriteReadInv,
     CommitLoads, ReconcileLoads

-----------------------------------------------------------------------------
(* No row is lost.                                                         *)

\* A step changes the catalog only by loading one more batch.
LEMMA CatalogSteps ==
  ASSUME TypeInv, StoreInv, [Next]_vars
  PROVE  /\ \/ UNCHANGED bronze
            \/ \E b \in Batches, r \in Runs : Loads(b, r)
         /\ vetted \subseteq vetted'
<1>1. ASSUME NEW r \in Runs, RunStep(r)
      PROVE  /\ UNCHANGED bronze \/ Loads(batch[r], r)
             /\ batch[r] \in Batches /\ UNCHANGED vetted
  BY <1>1, CommitLoads
  DEF RunStep, Begin, LookupNothing, LookupCommitted, LeaseTable,
      PrestartFail, OpenSnapshot, NoData, NoDataFail, WriteLocal,
      PublishQuarantine, UploadData, UploadManifest, Recheck, CommitTableRun,
      Fail, Close, HeartbeatRenew, HeartbeatFail, metaVars, TypeInv, TypeOK
<1>2. ASSUME NEW b \in Reconciled, Reconcile(b)
      PROVE  b \in Batches /\ manifest[b] \in Runs /\ Loads(b, manifest[b])
             /\ UNCHANGED vetted
  BY <1>2, ReconcileLoads DEF Reconcile
<1>3. CASE \/ \E w \in Rewinders : RewindStep(w)
           \/ \E o \in Owners : Crash(o)
           \/ \E b \in Reconciled : ReconcileVet(b)
           \/ SourceWrite \/ Tick \/ UNCHANGED vars
  BY <1>3
  DEF RewindStep, RewindAim, RewindLease, Rewind, RewindFail, RewindClose,
      Crash, ReconcileVet, SourceWrite, Tick, vars, metaVars
<1> QED
  BY <1>1, <1>2, <1>3 DEF Next

\* What a run read is fixed once it has uploaded its object.
LEMMA UploadedFixed ==
  ASSUME TypeInv, [Next]_vars, NEW r \in Runs, pc[r] \notin NotUploaded
  PROVE  /\ rows'[r] = rows[r] /\ upper'[r] = upper[r]
         /\ token'[r] = token[r]
<1> USE DEF runVars, TypeInv, TypeOK
<1>1. ASSUME NEW q \in Runs, RunStep(q)
      PROVE  /\ rows'[r] = rows[r] /\ upper'[r] = upper[r]
             /\ token'[r] = token[r]
  <2>1. CASE \/ Begin(q) \/ LeaseTable(q) \/ OpenSnapshot(q) \/ WriteLocal(q)
    <3>1. q # r
      BY <2>1
      DEF Begin, LeaseTable, OpenSnapshot, WriteLocal, Go, NotUploaded,
          NotOpened
    <3> QED
      BY <2>1, <3>1
      DEF Begin, LeaseTable, OpenSnapshot, WriteLocal, AcquireTableLease,
          Owners
  <2> QED
    BY <1>1, <2>1
    DEF RunStep, LookupNothing, LookupCommitted, PrestartFail, NoData,
        NoDataFail, PublishQuarantine, UploadData, UploadManifest, Recheck,
        CommitTableRun, Fail, Close, HeartbeatRenew, HeartbeatFail, Ends
<1>2. ASSUME NEW w \in Rewinders, RewindStep(w)
      PROVE  /\ rows'[r] = rows[r] /\ upper'[r] = upper[r]
             /\ token'[r] = token[r]
  BY <1>2, OwnersAssumption
  DEF RewindStep, RewindAim, RewindLease, Rewind, RewindFail, RewindClose,
      AcquireTableLease, Owners
<1> QED
  BY <1>1, <1>2
  DEF Next, Crash, Ends, ReconcileVet, Reconcile, SourceWrite, Tick, vars

\* So a row that is catalogued stays catalogued, from the same run.
LEMMA CatalogKept ==
  ASSUME TypeInv, StoreInv, [Next]_vars, NEW b \in Batches, bronze[b] # NoRun
  PROVE  /\ bronze[b] \in Runs /\ bronze'[b] = bronze[b]
         /\ rows'[bronze[b]] = rows[bronze[b]]
         /\ upper'[bronze[b]] = upper[bronze[b]]
         /\ token'[bronze[b]] = token[bronze[b]]
<1>1. bronze[b] \in Runs
  BY DEF TypeInv, TypeOK, MaybeRun
<1>2. pc[bronze[b]] \notin NotUploaded
  BY <1>1, NotCatalogued
<1>3. bronze'[b] = bronze[b]
  <2>1. ASSUME NEW a \in Batches, NEW r \in Runs, Loads(a, r)
        PROVE  bronze'[b] = bronze[b]
    BY <2>1 DEF Loads, TypeInv, TypeOK
  <2> QED
    BY <2>1, CatalogSteps
<1> QED
  BY <1>1, <1>2, <1>3, UploadedFixed

\* The row is in a batch of the catalog.
InCatalog(c) == \E b \in Batches : bronze[b] # NoRun /\ c \in rows[bronze[b]]

PassedInCatalog == \A c \in src : c <= wm.cursor => InCatalog(c)

\* The row that a step of the source adds is above the watermark, so a row at
\* or below it was there before.
LEMMA OldRow ==
  ASSUME TypeInv, ReadInv, [Next]_vars, NEW c \in src', c <= wm.cursor
  PROVE  c \in src
<1>1. CASE SourceWrite
  <2>1. PICK n \in 1..MaxRow :
          /\ \A d \in src' : d \in src \/ d = n
          /\ wm.cursor < n
    BY <1>1, SourceGrows
  <2>2. n \in Nat /\ wm.cursor \in Nat
    BY NumbersAssumption DEF TypeInv, TypeOK, Cursors
  <2> QED
    BY <2>1, <2>2
<1>2. CASE ~SourceWrite
  <2>1. UNCHANGED src
    BY <1>2
    DEF Next, RunStep, Begin, LookupNothing, LookupCommitted, LeaseTable,
        PrestartFail, OpenSnapshot, NoData, NoDataFail, WriteLocal,
        PublishQuarantine, UploadData, UploadManifest, Recheck, CommitTableRun,
        Fail, Close, HeartbeatRenew, HeartbeatFail, RewindStep, RewindAim,
        RewindLease, Rewind, RewindFail, RewindClose, Crash, ReconcileVet,
        Reconcile, Tick, vars
  <2> QED
    BY <2>1
<1> QED
  BY <1>1, <1>2

\* A step moves the watermark by loading a batch, or lowers it by a rewind, or
\* leaves it.
LEMMA CursorSteps ==
  ASSUME TypeInv, StoreInv, [Next]_vars
  PROVE  \/ wm'.cursor = wm.cursor /\ UNCHANGED bronze
         \/ \E w \in Rewinders : Rewind(w)
         \/ \E r \in Runs : CommitTableRun(r)
         \/ \E b \in Reconciled : Reconcile(b)
<1>1. \/ wm'.cursor = wm.cursor
      \/ \E r \in Runs : CommitTableRun(r)
      \/ \E w \in Rewinders : Rewind(w)
      \/ \E b \in Reconciled : Reconcile(b)
  BY ReadSteps DEF ReadSame, Begin, OpenSnapshot, SourceWrite
<1>2. \/ UNCHANGED bronze
      \/ \E r \in Runs : CommitTableRun(r)
      \/ \E b \in Reconciled : Reconcile(b)
  BY DEF Next, RunStep, Begin, LookupNothing, LookupCommitted, LeaseTable,
        PrestartFail, OpenSnapshot, NoData, NoDataFail, WriteLocal,
        PublishQuarantine, UploadData, UploadManifest, Recheck,
        Fail, Close, HeartbeatRenew, HeartbeatFail, RewindStep, RewindAim,
        RewindLease, Rewind, RewindFail, RewindClose, Crash, ReconcileVet,
        SourceWrite, Tick, vars, metaVars
<1> QED
  BY <1>1, <1>2

\* A row that the watermark passes with a load was passed before, or is in the
\* rows of the run that is loaded.
LEMMA PassedByLoad ==
  ASSUME TypeInv, ReadInv, NEW b, NEW r \in Runs, Loads(b, r),
         NEW c \in src, c <= wm'.cursor
  PROVE  c <= wm.cursor \/ c \in rows[r]
<1>1. c \in Nat /\ wm.cursor \in Nat /\ upper[r] \in Nat
  BY NumbersAssumption DEF TypeInv, TypeOK, Cursors
<1> QED
  BY <1>1 DEF Loads, ReadInv, SnapshotComplete

\* Every step keeps the rows that the watermark has passed in the catalog.
LEMMA NextPassed ==
  ASSUME TypeInv, StoreInv, ReadInv, PassedInCatalog, [Next]_vars
  PROVE  PassedInCatalog'
<1> SUFFICES ASSUME NEW c \in src', c <= wm'.cursor PROVE InCatalog(c)'
  BY DEF PassedInCatalog
<1>1. ASSUME c \in src, c <= wm.cursor PROVE InCatalog(c)'
  <2>1. PICK b \in Batches : bronze[b] # NoRun /\ c \in rows[bronze[b]]
    BY <1>1 DEF PassedInCatalog, InCatalog
  <2> QED
    BY <2>1, CatalogKept DEF InCatalog
<1>2. ASSUME NEW b \in Batches, NEW r \in Runs, Loads(b, r)
      PROVE  InCatalog(c)'
  <2>1. c \in src /\ (c <= wm.cursor \/ c \in rows[r])
    BY <1>2, PassedByLoad DEF Loads
  <2>2. bronze'[b] = r /\ r # NoRun /\ rows' = rows
    BY <1>2, OwnersAssumption DEF Loads, TypeInv, TypeOK
  <2> QED
    BY <1>1, <2>1, <2>2 DEF InCatalog
<1>3. ASSUME NEW w \in Rewinders, Rewind(w) PROVE InCatalog(c)'
  <2>1. c \in src /\ c <= target[w] /\ target[w] < wm.cursor
    BY <1>3, RewindLowers
  <2>2. c \in Nat /\ target[w] \in Nat /\ wm.cursor \in Nat
    BY <2>1, NumbersAssumption DEF TypeInv, TypeOK, Cursors
  <2> QED
    BY <1>1, <2>1, <2>2
<1>4. CASE wm'.cursor = wm.cursor
  BY <1>1, <1>4, OldRow
<1> QED
  BY <1>2, <1>3, <1>4, CursorSteps, CommitLoads, ReconcileLoads

\* Passed rows are in the catalog, and their rejects are stored and recorded.
LEMMA PassedNotLost ==
  ASSUME TypeInv, StoreInv, PassedInCatalog
  PROVE  NoRowLost
  BY DEF TypeInv, TypeOK, StoreInv, CatalogMatchesStore, RejectsCatalogued,
         Evidence, PassedInCatalog, InCatalog, NoRowLost

\* No row is lost: what the watermark has passed is in a stored, catalogued
\* Bronze object or, rejected, in a quarantine object that is recorded.
THEOREM NoRowLostCorrect == Spec => []NoRowLost
<1> DEFINE Inv == TypeInv /\ StoreInv /\ ReadInv /\ PassedInCatalog
<1>1. Init => Inv
  <2>1. Init => PassedInCatalog
    BY DEF Init, PassedInCatalog
  <2> QED
    BY <2>1, InitTypeInv, InitStoreInv, InitReadInv
<1>2. Inv /\ [Next]_vars => Inv'
  BY NextStoreInv, NextReadInv, NextPassed
<1>3. Inv => NoRowLost
  BY PassedNotLost
<1> HIDE DEF Inv
<1> QED
  BY <1>1, <1>2, <1>3, PTL DEF Spec

-----------------------------------------------------------------------------
(* Nothing is loaded twice while nobody rewinds.                           *)

\* A rewind that has leased the table does not start again.
LEMMA NobodyRewindsBack ==
  ASSUME TypeInv, [Next]_vars, NobodyRewinds'
  PROVE  NobodyRewinds /\ \A w \in Rewinders : ~Rewind(w)
<1> SUFFICES ASSUME NEW w \in Rewinders
             PROVE  pc[w] \in {"idle", "aimed"} /\ ~Rewind(w)
  BY DEF NobodyRewinds
<1>1. pc'[w] \in {"idle", "aimed"}
  BY DEF NobodyRewinds
<1> USE <1>1, OwnersAssumption DEF TypeInv, TypeOK, Owners, Go
<1>2. ~Rewind(w)
  BY DEF Rewind
<1>3. ASSUME NEW r \in Runs, RunStep(r) PROVE pc[w] \in {"idle", "aimed"}
  <2>1. \A o \in Owners : o # r => pc'[o] = pc[o]
    BY <1>3
    DEF RunStep, Begin, LookupNothing, LookupCommitted, LeaseTable,
        PrestartFail, OpenSnapshot, NoData, NoDataFail, WriteLocal,
        PublishQuarantine, UploadData, UploadManifest, Recheck, CommitTableRun,
        Fail, Close, HeartbeatRenew, HeartbeatFail
  <2> QED
    BY <2>1
<1>4. ASSUME NEW v \in Rewinders, RewindStep(v)
      PROVE  pc[w] \in {"idle", "aimed"}
  BY <1>4
  DEF RewindStep, RewindAim, RewindLease, Rewind, RewindFail, RewindClose
<1>5. ASSUME NEW o \in Owners, Crash(o) PROVE pc[w] \in {"idle", "aimed"}
  BY <1>5 DEF Crash
<1> QED
  BY <1>2, <1>3, <1>4, <1>5
  DEF Next, ReconcileVet, Reconcile, SourceWrite, Tick, vars

\* The watermark stays the end of all that was loaded: a load starts from it
\* and moves it up.
LEMMA NextLoadedBelow ==
  ASSUME TypeInv, StoreInv, ReadInv, LoadedBelow, [Next]_vars
  PROVE  LoadedBelow'
<1> SUFFICES ASSUME NobodyRewinds', NEW a \in Batches, bronze'[a] # NoRun
             PROVE  upper'[bronze'[a]] <= wm'.cursor
  BY DEF LoadedBelow
<1>1. NobodyRewinds /\ \A w \in Rewinders : ~Rewind(w)
  BY NobodyRewindsBack
<1>2. ASSUME bronze[a] # NoRun
      PROVE  /\ upper[bronze[a]] \in Nat /\ upper[bronze[a]] <= wm.cursor
             /\ upper'[bronze'[a]] = upper[bronze[a]]
  BY <1>1, <1>2, CatalogKept, NumbersAssumption
  DEF LoadedBelow, TypeInv, TypeOK, Cursors
<1>3. ASSUME NEW b \in Batches, NEW r \in Runs, Loads(b, r)
      PROVE  upper'[bronze'[a]] <= wm'.cursor
  <2>1. /\ wm'.cursor = upper[r] /\ wm.cursor = seen[r].cursor
        /\ upper' = upper /\ bronze[b] = NoRun
    BY <1>3 DEF Loads
  <2>2. upper[r] \in Nat /\ wm.cursor \in Nat
    BY NumbersAssumption DEF TypeInv, TypeOK, Cursors
  <2>3. wm.cursor < upper[r]
    <3>1. object[b] = r /\ object[b] # NoRun
      BY <1>3, OwnersAssumption DEF Loads
    <3>2. upper[r] # 0
      BY <3>1 DEF StoreInv, Evidence
    <3> QED
      BY <2>1, <3>2 DEF ReadInv, SnapshotComplete
  <2>4. CASE a = b
    <3>1. bronze'[a] = r
      BY <1>3, <2>4 DEF Loads, TypeInv, TypeOK
    <3> QED
      BY <2>1, <2>2, <3>1
  <2>5. CASE a # b
    <3>1. bronze[a] # NoRun
      BY <1>3, <2>5 DEF Loads, TypeInv, TypeOK
    <3> QED
      BY <1>2, <2>1, <2>2, <2>3, <3>1
  <2> QED
    BY <2>4, <2>5
<1>4. CASE wm'.cursor = wm.cursor /\ UNCHANGED bronze
  BY <1>2, <1>4
<1> QED
  BY <1>1, <1>3, <1>4, CursorSteps, CommitLoads, ReconcileLoads

\* So the rows of a run that is loaded are above those of every earlier batch.
LEMMA NextLoadedOnce ==
  ASSUME TypeInv, StoreInv, ReadInv, LoadedBelow, RowsLoadedOnce, [Next]_vars
  PROVE  RowsLoadedOnce'
<1> SUFFICES ASSUME NobodyRewinds', NEW a \in Batches, NEW b \in Batches,
                    a # b, bronze'[a] # NoRun, bronze'[b] # NoRun
             PROVE  rows'[bronze'[a]] \cap rows'[bronze'[b]] = {}
  BY DEF RowsLoadedOnce, NobodyRewinds
<1>1. NobodyRewinds
  BY NobodyRewindsBack
<1>2. CASE bronze[a] # NoRun /\ bronze[b] # NoRun
  <2>1. rows[bronze[a]] \cap rows[bronze[b]] = {}
    BY <1>1, <1>2 DEF RowsLoadedOnce, NobodyRewinds
  <2> QED
    BY <1>2, <2>1, CatalogKept
<1>3. ASSUME NEW d \in Batches, NEW e \in Batches, NEW r \in Runs,
             Loads(d, r), bronze[e] # NoRun
      PROVE  rows[r] \cap rows[bronze[e]] = {}
  <2>1. bronze[e] \in Runs
    BY <1>3 DEF TypeInv, TypeOK, MaybeRun
  <2>2. \A c \in rows[r] : c \in Nat /\ wm.cursor < c
    BY <1>3, NumbersAssumption
    DEF Loads, ReadInv, SnapshotComplete, TypeInv, TypeOK
  <2>3. \A c \in rows[bronze[e]] : c \in Nat /\ c <= upper[bronze[e]]
    BY <2>1, NumbersAssumption
    DEF ReadInv, SnapshotComplete, TypeInv, TypeOK
  <2>4. upper[bronze[e]] <= wm.cursor
    BY <1>1, <1>3 DEF LoadedBelow
  <2>5. upper[bronze[e]] \in Nat /\ wm.cursor \in Nat
    BY <2>1, NumbersAssumption DEF TypeInv, TypeOK, Cursors
  <2> QED
    BY <2>2, <2>3, <2>4, <2>5
<1>4. CASE bronze[a] = NoRun \/ bronze[b] = NoRun
  <2>1. PICK d \in Batches, r \in Runs : Loads(d, r)
    BY <1>4, CatalogSteps
  <2>2. /\ bronze'[d] = r /\ rows' = rows
        /\ \A e \in Batches : e # d => bronze'[e] = bronze[e]
    BY <2>1 DEF Loads, TypeInv, TypeOK
  <2>3. CASE a = d
    BY <1>3, <2>1, <2>2, <2>3
  <2>4. CASE b = d
    BY <1>3, <2>1, <2>2, <2>4
  <2> QED
    BY <1>4, <2>2, <2>3, <2>4
<1> QED
  BY <1>2, <1>4

\* Nothing is loaded twice as long as nobody rewinds, although runs read the
\* watermark before they own the table.
THEOREM LoadedOnceCorrect == Spec => []RowsLoadedOnce
<1> DEFINE Inv == TypeInv /\ StoreInv /\ ReadInv /\ LoadedBelow
                  /\ RowsLoadedOnce
<1>1. Init => Inv
  <2>1. Init => LoadedBelow /\ RowsLoadedOnce
    BY DEF Init, LoadedBelow, RowsLoadedOnce
  <2> QED
    BY <2>1, InitTypeInv, InitStoreInv, InitReadInv
<1>2. Inv /\ [Next]_vars => Inv'
  BY NextStoreInv, NextReadInv, NextLoadedBelow, NextLoadedOnce
<1>3. Inv => RowsLoadedOnce
  OBVIOUS
<1> HIDE DEF Inv
<1> QED
  BY <1>1, <1>2, <1>3, PTL DEF Spec

-----------------------------------------------------------------------------
(* A rewind is honoured.                                                   *)

\* The version of the watermark never goes back.
LEMMA VersionSteps ==
  ASSUME TypeInv, StoreInv, [Next]_vars
  PROVE  wm'.version \in {wm.version, wm.version + 1}
<1>t. /\ wm \in WatermarkRow /\ clock \in Times
      /\ Runs \subseteq Owners /\ Rewinders \subseteq Owners
      /\ \A r \in Runs : began[r] \in Times
  BY DEF TypeInv, TypeOK, WatermarkRow, Owners
<1>1. ASSUME NEW r \in Runs, RunStep(r)
      PROVE  wm'.version \in {wm.version, wm.version + 1}
  <2>1. CASE LeaseTable(r)
    BY <1>t, <2>1, AcquireEffect DEF LeaseTable
  <2>2. CASE Close(r)
    BY <1>t, <2>2, ReleaseEffect DEF Close
  <2>3. CASE HeartbeatRenew(r)
    BY <1>t, <2>3, RenewEffect DEF HeartbeatRenew
  <2>4. CASE CommitTableRun(r)
    BY <2>4, CommitLoads DEF Loads
  <2> QED
    BY <1>1, <2>1, <2>2, <2>3, <2>4
    DEF RunStep, Begin, LookupNothing, LookupCommitted, PrestartFail,
        OpenSnapshot, NoData, NoDataFail, WriteLocal, PublishQuarantine,
        UploadData, UploadManifest, Recheck, Fail, HeartbeatFail
<1>2. ASSUME NEW w \in Rewinders, RewindStep(w)
      PROVE  wm'.version \in {wm.version, wm.version + 1}
  <2>1. CASE RewindLease(w)
    BY <1>t, <2>1, AcquireEffect DEF RewindLease
  <2>2. CASE RewindClose(w)
    BY <1>t, <2>2, ReleaseEffect DEF RewindClose
  <2>3. CASE Rewind(w)
    BY <2>3, RewindLowers
  <2> QED
    BY <1>2, <2>1, <2>2, <2>3 DEF RewindStep, RewindAim, RewindFail
<1>3. ASSUME NEW b \in Reconciled, Reconcile(b)
      PROVE  wm'.version \in {wm.version, wm.version + 1}
  BY <1>3, ReconcileLoads DEF Loads
<1> QED
  BY <1>1, <1>2, <1>3 DEF Next, Crash, ReconcileVet, SourceWrite, Tick, vars

\* A rewind that has happened keeps its target and its token.
LEMMA RewoundFixed ==
  ASSUME TypeInv, [Next]_vars, NEW w \in Rewinders,
         pc'[w] \in {"rewound", "done"}
  PROVE  /\ target'[w] = target[w] /\ token'[w] = token[w]
         /\ pc[w] \in {"rewound", "done"} \/ Rewind(w)
<1> USE OwnersAssumption DEF TypeInv, TypeOK, Go, Owners, runVars
<1>1. ASSUME NEW r \in Runs, RunStep(r)
      PROVE  UNCHANGED target /\ token'[w] = token[w] /\ pc'[w] = pc[w]
  BY <1>1
  DEF RunStep, Begin, LookupNothing, LookupCommitted, LeaseTable,
      PrestartFail, OpenSnapshot, NoData, NoDataFail, WriteLocal,
      PublishQuarantine, UploadData, UploadManifest, Recheck, CommitTableRun,
      Fail, Close, HeartbeatRenew, HeartbeatFail, Ends, AcquireTableLease
<1>2. ASSUME NEW v \in Rewinders, RewindStep(v)
      PROVE  /\ target'[w] = target[w] /\ token'[w] = token[w]
             /\ pc[w] \in {"rewound", "done"} \/ Rewind(w)
  BY <1>2
  DEF RewindStep, RewindAim, RewindLease, Rewind, RewindFail, RewindClose,
      AcquireTableLease
<1>3. ASSUME NEW o \in Owners, Crash(o)
      PROVE  /\ UNCHANGED target /\ token'[w] = token[w]
             /\ pc[w] \in {"rewound", "done"}
  BY <1>3 DEF Crash, Ends
<1> QED
  BY <1>1, <1>2, <1>3
  DEF Next, ReconcileVet, Reconcile, SourceWrite, Tick, vars

\* Every step keeps the order of the versions that were read and leased.
LEMMA NextVersionInv ==
  ASSUME TypeInv, StoreInv, VersionInv, [Next]_vars
  PROVE  VersionInv'
<1>1. /\ wm.version \in Nat /\ wm'.version \in Nat
      /\ wm.version <= wm'.version
      /\ \A r \in Runs : seen[r].version \in Nat
      /\ \A o \in Owners : token[o] \in Nat
  BY VersionSteps DEF TypeInv, TypeOK
<1>2. Runs \subseteq Owners /\ Rewinders \subseteq Owners
  BY DEF Owners
<1> USE DEF TypeInv, TypeOK, Go, runVars
<1>3. \A r \in Runs : seen'[r] = seen[r] \/ seen'[r].version = wm.version
  <2>1. ASSUME NEW q \in Runs, Begin(q)
        PROVE  \A r \in Runs : seen'[r] = seen[r]
                               \/ seen'[r].version = wm.version
    BY <2>1 DEF Begin
  <2>2. CASE \A q \in Runs : ~Begin(q)
    <3>1. UNCHANGED seen
      BY <2>2
      DEF Next, RunStep, LookupNothing, LookupCommitted, LeaseTable,
          PrestartFail, OpenSnapshot, NoData, NoDataFail, WriteLocal,
          PublishQuarantine, UploadData, UploadManifest, Recheck,
          CommitTableRun, Fail, Close, HeartbeatRenew, HeartbeatFail,
          RewindStep, RewindAim, RewindLease, Rewind, RewindFail, RewindClose,
          Crash, ReconcileVet, Reconcile, SourceWrite, Tick, Ends, vars
    <3> QED
      BY <3>1
  <2> QED
    BY <2>1, <2>2
<1>4. \A o \in Owners : token'[o] = token[o] \/ token'[o] = wm.version
  <2>1. ASSUME NEW q \in Owners, LeaseTable(q) \/ RewindLease(q)
        PROVE  \A o \in Owners : token'[o] = token[o] \/ token'[o] = wm.version
    BY <2>1 DEF LeaseTable, RewindLease, AcquireTableLease
  <2>2. CASE \A q \in Owners : ~(LeaseTable(q) \/ RewindLease(q))
    <3>1. UNCHANGED token
      BY <1>2, <2>2
      DEF Next, RunStep, Begin, LookupNothing, LookupCommitted,
          PrestartFail, OpenSnapshot, NoData, NoDataFail, WriteLocal,
          PublishQuarantine, UploadData, UploadManifest, Recheck,
          CommitTableRun, Fail, Close, HeartbeatRenew, HeartbeatFail,
          RewindStep, RewindAim, Rewind, RewindFail, RewindClose,
          Crash, ReconcileVet, Reconcile, SourceWrite, Tick, Ends, vars
    <3> QED
      BY <3>1
  <2> QED
    BY <2>1, <2>2
<1>5. ASSUME NEW w \in Rewinders, pc'[w] \in {"rewound", "done"}
      PROVE  /\ token'[w] = token[w]
             /\ pc[w] \in {"rewound", "done"} \/ Rewind(w)
  BY <1>5, RewoundFixed
<1>6. ASSUME NEW r \in Runs, pc'[r] \in Leasing
      PROVE  \/ pc[r] \in Leasing /\ token'[r] = token[r] /\ seen'[r] = seen[r]
             \/ token'[r] = wm.version /\ seen'[r] = seen[r]
  <2>1. ASSUME NEW q \in Runs, RunStep(q)
        PROVE  \/ pc[r] \in Leasing /\ token'[r] = token[r] /\ seen'[r] = seen[r]
               \/ token'[r] = wm.version /\ seen'[r] = seen[r]
    BY <1>2, <1>6, <2>1
    DEF RunStep, Begin, LookupNothing, LookupCommitted, LeaseTable,
        PrestartFail, OpenSnapshot, NoData, NoDataFail, WriteLocal,
        PublishQuarantine, UploadData, UploadManifest, Recheck, CommitTableRun,
        Fail, Close, HeartbeatRenew, HeartbeatFail, Ends, AcquireTableLease,
        Leasing, Beating
  <2>2. ASSUME NEW w \in Rewinders, RewindStep(w)
        PROVE  pc'[r] = pc[r] /\ token'[r] = token[r] /\ seen'[r] = seen[r]
    BY <1>2, <2>2, OwnersAssumption
    DEF RewindStep, RewindAim, RewindLease, Rewind, RewindFail, RewindClose,
        AcquireTableLease
  <2>3. ASSUME NEW o \in Owners, Crash(o)
        PROVE  pc[r] \in Leasing /\ token'[r] = token[r] /\ seen'[r] = seen[r]
    BY <1>2, <1>6, <2>3 DEF Crash, Ends, Leasing, Beating
  <2> QED
    BY <1>6, <2>1, <2>2, <2>3
    DEF Next, ReconcileVet, Reconcile, SourceWrite, Tick, vars
<1>7. \A w \in Rewinders : Rewind(w) => token[w] < wm'.version
  BY <1>1, RewindLowers
<1>8. VersionsGrow'
  <2>1. \A r \in Runs : seen'[r].version <= wm'.version
    BY <1>1, <1>3 DEF VersionInv, VersionsGrow
  <2>2. \A o \in Owners : token'[o] <= wm'.version
    BY <1>1, <1>4 DEF VersionInv, VersionsGrow
  <2>3. \A w \in Rewinders :
          pc'[w] \in {"rewound", "done"} => token'[w] < wm'.version
    BY <1>1, <1>2, <1>5, <1>7 DEF VersionInv, VersionsGrow
  <2> QED
    BY <2>1, <2>2, <2>3 DEF VersionsGrow
<1>9. TokenAfterRead'
  BY <1>1, <1>2, <1>6 DEF VersionInv, VersionsGrow, TokenAfterRead
<1> QED
  BY <1>8, <1>9 DEF VersionInv

\* Initially every version is 0 and nothing was rewound.
LEMMA InitVersionInv == Init => VersionInv
  BY DEF Init, VersionInv, VersionsGrow, TokenAfterRead, Leasing, Beating,
         Owners

\* The row was read again after the rewind w.
Reread(c, w) ==
  \E b \in Batches :
    /\ bronze[b] # NoRun
    /\ c \in rows[bronze[b]]
    /\ token[bronze[b]] > token[w] \/ b \in vetted

\* Every step keeps the rewinds honoured.  A run commits on the version it
\* read, which no rewind can have left behind since; so its token is above
\* those of all rewinds that happened.
LEMMA NextReread ==
  ASSUME TypeInv, StoreInv, ReadInv, VersionInv, RewoundRowsReread, [Next]_vars
  PROVE  RewoundRowsReread'
<1> SUFFICES ASSUME NEW w \in Rewinders, pc'[w] \in {"rewound", "done"},
                    NEW c \in src', target'[w] < c, c <= wm'.cursor
             PROVE  Reread(c, w)'
  BY DEF RewoundRowsReread, Reread
<1>1. /\ target'[w] = target[w] /\ token'[w] = token[w]
      /\ pc[w] \in {"rewound", "done"} \/ Rewind(w)
  BY RewoundFixed
<1>2. /\ target[w] \in Nat /\ wm.cursor \in Nat /\ wm.version \in Nat
      /\ \A d \in src : d \in Nat
      /\ \A o \in Owners : token[o] \in Nat
      /\ Runs \subseteq Owners /\ Rewinders \subseteq Owners
  BY NumbersAssumption DEF TypeInv, TypeOK, Cursors, Owners
<1>3. ASSUME c \in src, c <= wm.cursor, pc[w] \in {"rewound", "done"}
      PROVE  Reread(c, w)'
  <2>1. PICK b \in Batches :
          /\ bronze[b] # NoRun
          /\ c \in rows[bronze[b]]
          /\ token[bronze[b]] > token[w] \/ b \in vetted
    BY <1>1, <1>3 DEF RewoundRowsReread
  <2>2. b \in vetted => b \in vetted'
    BY CatalogSteps
  <2> QED
    BY <1>1, <2>1, <2>2, CatalogKept DEF Reread
<1>4. ASSUME NEW b \in Batches, NEW r \in Runs, Loads(b, r),
             pc[w] \in {"rewound", "done"},
             token[r] > token[w] \/ b \in vetted
      PROVE  Reread(c, w)'
  <2>1. c \in src /\ (c <= wm.cursor \/ c \in rows[r])
    BY <1>4, PassedByLoad DEF Loads
  <2>2. /\ bronze'[b] = r /\ r # NoRun /\ rows' = rows /\ token' = token
        /\ vetted' = vetted
    BY <1>4, OwnersAssumption DEF Loads, TypeInv, TypeOK
  <2> QED
    BY <1>3, <1>4, <2>1, <2>2 DEF Reread
<1>5. ASSUME NEW r \in Runs, CommitTableRun(r) PROVE Reread(c, w)'
  <2>1. batch[r] \in Batches /\ Loads(batch[r], r)
    BY <1>5, CommitLoads
  <2>2. pc[w] \in {"rewound", "done"}
    BY <1>1, <1>5, OwnersAssumption
    DEF CommitTableRun, Rewind, Go, TypeInv, TypeOK, Owners
  <2>3. seen[r].version <= token[r] /\ wm.version = seen[r].version
    BY <1>5
    DEF CommitTableRun, Go, WatermarkUnmoved, VersionInv, TokenAfterRead,
        Leasing, Beating
  <2>4. token[w] < wm.version
    BY <2>2 DEF VersionInv, VersionsGrow
  <2>5. token[r] > token[w]
    BY <1>2, <2>3, <2>4
  <2> QED
    BY <1>4, <2>1, <2>2, <2>5
<1>6. ASSUME NEW b \in Reconciled, Reconcile(b) PROVE Reread(c, w)'
  <2>1. pc[w] \in {"rewound", "done"}
    BY <1>1, <1>6 DEF Reconcile, Rewind, Go, TypeInv, TypeOK, Owners
  <2> QED
    BY <1>4, <1>6, <2>1, ReconcileLoads
<1>7. ASSUME NEW v \in Rewinders, Rewind(v) PROVE Reread(c, w)'
  <2>1. /\ c \in src /\ c <= target[v] /\ target[v] < wm.cursor
        /\ target' = target
    BY <1>7, RewindLowers
  <2>2. c \in Nat /\ target[v] \in Nat
    BY <1>2, <2>1, NumbersAssumption DEF TypeInv, TypeOK, Cursors
  <2>3. v # w
    BY <1>1, <1>2, <2>1, <2>2
  <2>4. pc[w] \in {"rewound", "done"}
    BY <1>2, <1>7, <2>3 DEF Rewind, Go, TypeInv, TypeOK
  <2> QED
    BY <1>2, <1>3, <2>1, <2>2, <2>4
<1>8. CASE wm'.cursor = wm.cursor
  <2>1. c \in src
    BY <1>8, OldRow
  <2>2. ~Rewind(w)
    BY <1>2, <1>8, RewindLowers
  <2> QED
    BY <1>1, <1>3, <1>8, <2>1, <2>2
<1> QED
  BY <1>5, <1>6, <1>7, <1>8, CursorSteps

\* A rewind is honoured: the watermark passes a row above its target only with
\* a run that leased the table after the rewind, or with a batch that somebody
\* set out to reconcile.
THEOREM RewoundCorrect == Spec => []RewoundRowsReread
<1> DEFINE Inv == TypeInv /\ StoreInv /\ ReadInv /\ VersionInv
                  /\ RewoundRowsReread
<1>1. Init => Inv
  <2>1. Init => RewoundRowsReread
    BY DEF Init, RewoundRowsReread
  <2> QED
    BY <2>1, InitTypeInv, InitStoreInv, InitReadInv, InitVersionInv
<1>2. Inv /\ [Next]_vars => Inv'
  BY NextStoreInv, NextReadInv, NextVersionInv, NextReread
<1>3. Inv => RewoundRowsReread
  OBVIOUS
<1> HIDE DEF Inv
<1> QED
  BY <1>1, <1>2, <1>3, PTL DEF Spec

=============================================================================
