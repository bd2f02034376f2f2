------------------------ MODULE SourceMutationProofs ------------------------
(***************************************************************************)
(* Proofs about SourceMutation for every set of sessions, tables, inputs   *)
(* and every time to live.  The argument rests on one fact, Fenced: between *)
(* the fence and the end of its transaction the lease row names the        *)
(* committing Generator run, because nobody else can change the row.  So   *)
(* whatever holds of the source while a session owns the row survives      *)
(* every source COMMIT of another run (Forward, Unmarked, ReadIsCurrent).  *)
(***************************************************************************)
EXTENDS SourceMutation, TLAPS

Owns(s) == lease.owner = s

\* A run between its fence and the end of the fencing transaction.
Fenced ==
  \A g \in Generators : pc[g] \in {"fenced", "committed"} => Owns(g)

\* What _assert_source_cursor_forward found still holds while the run owns
\* the row.
Forward ==
  \A g \in Generators :
    Owns(g) /\ pc[g] \in {"open", "written", "fenced"}
      => \A c \in cursors : c < input[g][1]

\* What committed_result found still holds while the run owns the row.
Unmarked ==
  \A g \in Generators :
    Owns(g) /\ pc[g] \in {"started", "open", "written", "fenced"}
      => marker[input[g]] = NoOwner

\* The marker of an input names a run with that input, and the run that just
\* committed.
MarkerIsOwn ==
  /\ \A i \in Inputs : marker[i] # NoOwner => input[marker[i]] = i
  /\ \A g \in Generators :
       pc[g] \in {"committed", "unfenced"} => marker[input[g]] = g

\* No task has begun before its Warehouse run acquired the lease.
TasksWait ==
  \A k \in Tasks : pc[k[1]] = "idle" => task[k] = "todo"

HasRead == {"snapped", "uploaded", "checked", "committed"}
Passed  == {"uploaded", "checked", "committed"}

\* While a Warehouse run owns the row its snapshots show the current source.
ReadIsCurrent ==
  \A k \in Tasks : Owns(k[1]) /\ task[k] \in HasRead => saw[k] = cursors

\* Tasks that passed a check after their snapshot agree on what they read,
\* although the run may have lost the lease since.
PassedAgree ==
  \A k, l \in Tasks :
    k[1] = l[1] /\ task[k] \in Passed /\ task[l] \in Passed => saw[k] = saw[l]

\* The owner of the row holds the row's version as its token.
TokenIsVersion == \A s \in Sessions : Owns(s) => token[s] = lease.version

GenInv  == Fenced /\ Forward /\ Unmarked /\ MarkerIsOwn /\ SuccessIsCommitted
TaskInv == Fenced /\ TasksWait /\ ReadIsCurrent /\ PassedAgree

-----------------------------------------------------------------------------
(* What the operations on the lease row do to its owner.                   *)

\* After acquire_source_mutation_lease the caller owns the row.
LEMMA AcquireGivesRow ==
  ASSUME TypeOK, NEW s \in Sessions, AcquireLease(s)
  PROVE  /\ lease' \in LeaseRow(Sessions, 0..(MaxClock + TTL))
         /\ token' \in [Sessions -> Nat]
         /\ lease'.owner = s
  BY TTLAssumption, BoundsAssumption
  DEF TypeOK, AcquireLease, CanAcquire, Acquired, IsActive, LeaseRow

\* release_source_mutation_lease leaves the row to its owner or to nobody.
LEMMA ReleaseFreesRow ==
  ASSUME TypeOK, NEW s \in Sessions, ReleaseLease(s)
  PROVE  /\ lease' \in LeaseRow(Sessions, 0..(MaxClock + TTL))
         /\ lease'.owner \in {lease.owner, NoOwner}
  BY TTLAssumption, BoundsAssumption
  DEF TypeOK, ReleaseLease, CanRelease, Released, LeaseRow

\* renew_source_mutation_lease only moves the expiry.
LEMMA RenewKeepsOwner ==
  ASSUME TypeOK, lease' = Renewed(lease, clock)
  PROVE  /\ lease' \in LeaseRow(Sessions, 0..(MaxClock + TTL))
         /\ lease'.owner = lease.owner
  BY TTLAssumption, BoundsAssumption DEF TypeOK, Renewed, LeaseRow

-----------------------------------------------------------------------------
(* Type correctness.                                                       *)

\* The initial states have the right types.
LEMMA InitTypeOK == Init => TypeOK
  BY TTLAssumption, BoundsAssumption
  DEF Init, TypeOK, InitialLease, LeaseRow, GeneratorPC, TaskState

\* A step of a Generator run keeps every variable in its type.
LEMMA GeneratorTypeOK ==
  ASSUME TypeOK, NEW g \in Generators, GeneratorStep(g)
  PROVE  TypeOK'
<1>g. g \in Sessions
  BY DEF Sessions
<1> USE DEF TypeOK, Go, GeneratorPC
<1>1. CASE GenReuseSuccess(g)
  BY <1>1, <1>g DEF GenReuseSuccess, genVars, taskVars
<1>2. CASE GenAcquire(g)
  BY <1>2, <1>g, AcquireGivesRow DEF GenAcquire, genVars, taskVars
<1>3. CASE GenRecover(g)
  <2>1. marker[input[g]] \in Generators
    BY <1>3 DEF GenRecover
  <2> QED
    BY <1>3, <1>g, <2>1 DEF GenRecover, taskVars
<1>4. CASE GenStart(g)
  BY <1>4, <1>g DEF GenStart, taskVars
<1>5. CASE GenOpen(g)
  BY <1>5, <1>g DEF GenOpen, genVars, taskVars
<1>6. CASE GenWrite(g)
  BY <1>6, <1>g DEF GenWrite, taskVars
<1>7. CASE GenFence(g)
  BY <1>7, <1>g DEF GenFence, genVars, taskVars
<1>8. CASE GenCommit(g)
  <2>1. input[g] \in Inputs /\ input[g][1] \in Dates
    BY DEF Inputs
  <2> QED
    BY <1>8, <1>g, <2>1 DEF GenCommit, taskVars
<1>9. CASE GenUnfence(g)
  BY <1>9, <1>g DEF GenUnfence, genVars, taskVars
<1>10. CASE GenFinish(g)
  BY <1>10, <1>g DEF GenFinish, taskVars
<1>11. CASE GenFail(g)
  BY <1>11, <1>g DEF GenFail, taskVars
<1>12. CASE GenRelease(g)
  BY <1>12, <1>g, ReleaseFreesRow DEF GenRelease, genVars, taskVars
<1>13. CASE GenCrash(g)
  BY <1>13, <1>g DEF GenCrash, genVars, taskVars
<1> QED
  BY <1>1, <1>2, <1>3, <1>4, <1>5, <1>6, <1>7, <1>8, <1>9, <1>10, <1>11,
     <1>12, <1>13 DEF GeneratorStep

\* So does a step of a table task.
LEMMA TaskTypeOK ==
  ASSUME TypeOK, NEW k \in Tasks, TaskStep(k)
  PROVE  TypeOK'
<1> USE DEF TypeOK, Advance, TaskState, genVars, taskVars
<1>1. CASE TaskStart(k)
  BY <1>1 DEF TaskStart
<1>2. CASE TaskAdmit(k)
  BY <1>2 DEF TaskAdmit
<1>3. CASE TaskSnapshot(k)
  BY <1>3 DEF TaskSnapshot
<1>4. CASE TaskNoData(k)
  BY <1>4 DEF TaskNoData
<1>5. CASE TaskUpload(k)
  BY <1>5 DEF TaskUpload
<1>6. CASE TaskCheck(k)
  BY <1>6 DEF TaskCheck
<1>7. CASE TaskCommit(k)
  BY <1>7 DEF TaskCommit
<1>8. CASE TaskFail(k)
  BY <1>8 DEF TaskFail
<1>9. CASE HeartbeatRenew(k)
  BY <1>9, RenewKeepsOwner DEF HeartbeatRenew
<1>10. CASE HeartbeatFail(k)
  BY <1>10 DEF HeartbeatFail
<1> QED
  BY <1>1, <1>2, <1>3, <1>4, <1>5, <1>6, <1>7, <1>8, <1>9, <1>10 DEF TaskStep

\* Every step keeps TypeOK.
LEMMA NextTypeOK == TypeOK /\ [Next]_vars => TypeOK'
<1> SUFFICES ASSUME TypeOK, [Next]_vars PROVE TypeOK'
  OBVIOUS
<1>1. ASSUME NEW g \in Generators, GeneratorStep(g) PROVE TypeOK'
  BY <1>1, GeneratorTypeOK
<1>2. ASSUME NEW w \in Warehouses, WhAcquire(w) PROVE TypeOK'
  <2>1. w \in Sessions
    BY DEF Sessions
  <2> QED
    BY <1>2, <2>1, AcquireGivesRow
    DEF WhAcquire, TypeOK, Go, WarehousePC, genVars, taskVars
<1>3. ASSUME NEW w \in Warehouses, WhRelease(w) PROVE TypeOK'
  <2>1. w \in Sessions
    BY DEF Sessions
  <2> QED
    BY <1>3, <2>1, ReleaseFreesRow
    DEF WhRelease, TypeOK, Go, WarehousePC, genVars, taskVars
<1>4. ASSUME NEW k \in Tasks, TaskStep(k) PROVE TypeOK'
  BY <1>4, TaskTypeOK
<1>5. CASE Tick
  BY <1>5, BoundsAssumption DEF Tick, TypeOK, genVars, taskVars
<1>6. CASE UNCHANGED vars
  BY <1>6 DEF vars, TypeOK
<1> QED
  BY <1>1, <1>2, <1>3, <1>4, <1>5, <1>6 DEF Next

\* Every variable keeps its type; in particular no lease ever expires later
\* than one time to live after the present.
THEOREM TypeCorrect == Spec => []TypeOK
  BY InitTypeOK, NextTypeOK, PTL DEF Spec

-----------------------------------------------------------------------------
(* Who owns the row, and when it can change hands.                         *)

\* A session becomes the owner only by acquiring, as its first step, and the
\* row changes hands only while no Generator run is inside its fence.
LEMMA OwnerMoves ==
  ASSUME TypeOK, [Next]_vars
  PROVE  \/ lease'.owner = lease.owner
         \/ RowUnlocked /\ lease'.owner = NoOwner
         \/ /\ RowUnlocked
            /\ \E s \in Sessions :
                 /\ lease'.owner = s
                 /\ pc[s] = "idle"
                 /\ pc' = [pc EXCEPT ![s] = IF s \in Generators THEN "leased"
                                                                ELSE "holding"]
                 /\ UNCHANGED <<cursors, marker, task, saw>>
<1> DEFINE Goal ==
         \/ lease'.owner = lease.owner
         \/ RowUnlocked /\ lease'.owner = NoOwner
         \/ /\ RowUnlocked
            /\ \E s \in Sessions :
                 /\ lease'.owner = s
                 /\ pc[s] = "idle"
                 /\ pc' = [pc EXCEPT ![s] = IF s \in Generators THEN "leased"
                                                                ELSE "holding"]
                 /\ UNCHANGED <<cursors, marker, task, saw>>
<1> SUFFICES Goal
  OBVIOUS
<1>1. ASSUME NEW g \in Generators, GeneratorStep(g) PROVE Goal
  <2>g. g \in Sessions
    BY DEF Sessions
  <2>1. CASE GenAcquire(g)
    BY <2>1, <2>g, AcquireGivesRow
    DEF GenAcquire, AcquireLease, Go, genVars, taskVars
  <2>2. CASE GenRelease(g)
    BY <2>2, <2>g, ReleaseFreesRow DEF GenRelease, ReleaseLease
  <2>3. CASE ~ GenAcquire(g) /\ ~ GenRelease(g)
    <3>1. lease' = lease
      BY <1>1, <2>3
      DEF GeneratorStep, GenReuseSuccess, GenRecover, GenStart, GenOpen,
          GenWrite, GenFence, GenCommit, GenUnfence, GenFinish, GenFail, GenCrash
    <3> QED
      BY <3>1
  <2> QED
    BY <2>1, <2>2, <2>3
<1>2. ASSUME NEW w \in Warehouses, WhAcquire(w) PROVE Goal
  <2>1. w \in Sessions /\ w \notin Generators
    BY SessionsAssumption DEF Sessions
  <2> QED
    BY <1>2, <2>1, AcquireGivesRow
    DEF WhAcquire, AcquireLease, Go, genVars, taskVars
<1>3. ASSUME NEW w \in Warehouses, WhRelease(w) PROVE Goal
  <2>1. w \in Sessions
    BY DEF Sessions
  <2> QED
    BY <1>3, <2>1, ReleaseFreesRow DEF WhRelease, ReleaseLease
<1>4. ASSUME NEW k \in Tasks, TaskStep(k) PROVE Goal
  <2>1. CASE HeartbeatRenew(k)
    BY <2>1, RenewKeepsOwner DEF HeartbeatRenew
  <2>2. CASE ~ HeartbeatRenew(k)
    <3>1. lease' = lease
      BY <1>4, <2>2
      DEF TaskStep, TaskStart, TaskAdmit, TaskSnapshot, TaskNoData, TaskUpload,
          TaskCheck, TaskCommit, TaskFail, HeartbeatFail
    <3> QED
      BY <3>1
  <2> QED
    BY <2>1, <2>2
<1>5. CASE Tick
  BY <1>5 DEF Tick
<1>6. CASE UNCHANGED vars
  BY <1>6 DEF vars
<1> QED
  BY <1>1, <1>2, <1>3, <1>4, <1>5, <1>6 DEF Next

\* Who owns the row after a step owned it before, or has just acquired it.
LEMMA OwnerBefore ==
  ASSUME TypeOK, [Next]_vars, NEW s \in Sessions, Owns(s)'
  PROVE  \/ Owns(s)
         \/ /\ pc[s] = "idle"
            /\ pc'[s] = IF s \in Generators THEN "leased" ELSE "holding"
  <1>1. s # NoOwner
    BY SessionsAssumption DEF Sessions
  <1> QED
    BY <1>1, OwnerMoves DEF Owns, TypeOK

\* Warehouse and task steps leave Generator runs and the source alone.
LEMMA OnlyGeneratorsWrite ==
  ASSUME TypeOK, [Next]_vars, ~ \E g \in Generators : GeneratorStep(g)
  PROVE  /\ UNCHANGED <<input, wrote, cursors, marker, status>>
         /\ \A g \in Generators : pc'[g] = pc[g]
<1>1. ASSUME NEW w \in Warehouses, WhAcquire(w) \/ WhRelease(w)
      PROVE  /\ UNCHANGED <<input, wrote, cursors, marker, status>>
             /\ \A g \in Generators : pc'[g] = pc[g]
  <2>1. \A g \in Generators : g # w /\ g \in Sessions
    BY SessionsAssumption DEF Sessions
  <2> QED
    BY <1>1, <2>1 DEF WhAcquire, WhRelease, Go, genVars, TypeOK
<1>2. ASSUME NEW k \in Tasks, TaskStep(k)
      PROVE  UNCHANGED <<pc, input, wrote, cursors, marker, status>>
  BY <1>2
  DEF TaskStep, TaskStart, TaskAdmit, TaskSnapshot, TaskNoData, TaskUpload,
      TaskCheck, TaskCommit, TaskFail, HeartbeatRenew, HeartbeatFail, genVars
<1>3. CASE Tick
  BY <1>3 DEF Tick, genVars
<1>4. CASE UNCHANGED vars
  BY <1>4 DEF vars
<1> QED
  BY <1>1, <1>2, <1>3, <1>4 DEF Next

-----------------------------------------------------------------------------
(* The invariant about Generator runs, one lemma per conjunct.             *)

\* A step of one Generator run leaves the others where they are.
LEMMA OthersStay ==
  ASSUME TypeOK, NEW g \in Generators, GeneratorStep(g),
         NEW h \in Generators, h # g
  PROVE  pc'[h] = pc[h]
<1>1. \E state : pc' = [pc EXCEPT ![g] = state]
  BY DEF GeneratorStep, GenReuseSuccess, GenAcquire, GenRecover, GenStart,
         GenOpen, GenWrite, GenFence, GenCommit, GenUnfence, GenFinish,
         GenFail, GenRelease, GenCrash, Go
<1>2. h \in Sessions
  BY DEF Sessions
<1> QED
  BY <1>1, <1>2 DEF TypeOK

\* How a Generator run gets past each of its checks.
LEMMA GeneratorMoves ==
  ASSUME TypeOK, NEW g \in Generators, GeneratorStep(g)
  PROVE  /\ pc'[g] = "fenced" => pc[g] = "written" /\ GenFence(g)
         /\ pc'[g] = "committed" => pc[g] = "fenced" /\ GenCommit(g)
         /\ pc'[g] = "unfenced" => pc[g] = "committed"
         /\ pc'[g] = "written" => pc[g] = "open"
         /\ pc'[g] = "open" => pc[g] = "started" /\ GenOpen(g)
         /\ pc'[g] = "started" => GenStart(g)
         /\ UNCHANGED <<input, taskVars>>
         /\ UNCHANGED <<cursors, marker>> \/ GenCommit(g)
<1>1. g \in Sessions
  BY DEF Sessions
<1> QED
  BY <1>1
  DEF TypeOK, GeneratorStep, GenReuseSuccess, GenAcquire, GenRecover, GenStart,
      GenOpen, GenWrite, GenFence, GenCommit, GenUnfence, GenFinish,
      GenFail, GenRelease, GenCrash, Go, genVars

\* A run inside fenced_source_commit owns the row and keeps it.
LEMMA NextFenced ==
  ASSUME TypeOK, Fenced, [Next]_vars
  PROVE  Fenced'
<1> SUFFICES ASSUME NEW g \in Generators, pc'[g] \in {"fenced", "committed"}
             PROVE  lease'.owner = g
  BY DEF Fenced, Owns
<1>1. CASE pc[g] \in {"fenced", "committed"}
  <2>1. ~ RowUnlocked
    BY <1>1 DEF RowUnlocked
  <2> QED
    BY <1>1, <2>1, OwnerMoves DEF Fenced, Owns
<1>2. CASE pc[g] \notin {"fenced", "committed"}
  <2>1. PICK h \in Generators : GeneratorStep(h)
    BY <1>2, OnlyGeneratorsWrite
  <2>2. h = g
    BY <1>2, <2>1, OthersStay
  <2>3. GenFence(g)
    BY <1>2, <2>1, <2>2, GeneratorMoves
  <2> QED
    BY <2>3 DEF GenFence, Current, IsCurrentLease
<1> QED
  BY <1>1, <1>2

\* A source COMMIT happens while the row names the committing run.
LEMMA CommitOwns ==
  ASSUME Fenced, NEW g \in Generators, GenCommit(g)
  PROVE  Owns(g) /\ lease' = lease
  BY DEF Fenced, GenCommit

\* What _assert_source_cursor_forward found stays so up to the COMMIT.
LEMMA NextForward ==
  ASSUME TypeOK, Fenced, Forward, [Next]_vars
  PROVE  Forward'
<1> SUFFICES ASSUME NEW g \in Generators, Owns(g)',
                    pc'[g] \in {"open", "written", "fenced"}
             PROVE  \A c \in cursors' : c < input'[g][1]
  BY DEF Forward
<1>1. g \in Sessions
  BY DEF Sessions
<1>2. Owns(g)
  BY <1>1, OwnerBefore
<1>3. CASE ~ \E h \in Generators : GeneratorStep(h)
  BY <1>2, <1>3, OnlyGeneratorsWrite DEF Forward
<1>4. ASSUME NEW h \in Generators, GeneratorStep(h)
      PROVE  \A c \in cursors' : c < input'[g][1]
  <2>1. ~ GenCommit(h)
    <3>1. h # g => ~ GenCommit(h)
      BY <1>2, CommitOwns DEF Owns
    <3>2. h = g => ~ GenCommit(h)
      BY <1>1 DEF GenCommit, Go, TypeOK
    <3> QED
      BY <3>1, <3>2
  <2>2. UNCHANGED <<input, cursors>>
    BY <1>4, <2>1, GeneratorMoves
  <2>3. CASE h # g \/ pc[g] \in {"open", "written"}
    BY <1>2, <1>4, <2>2, <2>3, OthersStay DEF Forward
  <2>4. CASE h = g /\ GenOpen(g)
    BY <2>2, <2>4 DEF GenOpen, CursorForward
  <2> QED
    BY <1>4, <2>3, <2>4, GeneratorMoves
<1> QED
  BY <1>3, <1>4

\* No other run writes the marker of an input between the lookup and the COMMIT.
LEMMA NextUnmarked ==
  ASSUME TypeOK, Fenced, Unmarked, [Next]_vars
  PROVE  Unmarked'
<1> SUFFICES ASSUME NEW g \in Generators, Owns(g)',
                    pc'[g] \in {"started", "open", "written", "fenced"}
             PROVE  marker'[input'[g]] = NoOwner
  BY DEF Unmarked
<1>1. g \in Sessions
  BY DEF Sessions
<1>2. Owns(g)
  BY <1>1, OwnerBefore
<1>3. CASE ~ \E h \in Generators : GeneratorStep(h)
  BY <1>2, <1>3, OnlyGeneratorsWrite DEF Unmarked
<1>4. ASSUME NEW h \in Generators, GeneratorStep(h)
      PROVE  marker'[input'[g]] = NoOwner
  <2>1. ~ GenCommit(h)
    <3>1. h # g => ~ GenCommit(h)
      BY <1>2, CommitOwns DEF Owns
    <3>2. h = g => ~ GenCommit(h)
      BY <1>1 DEF GenCommit, Go, TypeOK
    <3> QED
      BY <3>1, <3>2
  <2>2. UNCHANGED <<input, marker>>
    BY <1>4, <2>1, GeneratorMoves
  <2>3. CASE h # g \/ pc[g] \in {"started", "open", "written"}
    BY <1>2, <1>4, <2>2, <2>3, OthersStay DEF Unmarked
  <2>4. CASE h = g /\ GenStart(g)
    BY <2>2, <2>4 DEF GenStart
  <2> QED
    BY <1>4, <2>3, <2>4, GeneratorMoves
<1> QED
  BY <1>3, <1>4

\* The generator_commits row of an input never changes once it is there.
LEMMA MarkerStays ==
  ASSUME TypeOK, Fenced, Unmarked, [Next]_vars, NEW i \in Inputs,
         marker[i] # NoOwner
  PROVE  marker'[i] = marker[i]
<1>1. CASE ~ \E h \in Generators : GeneratorStep(h)
  BY <1>1, OnlyGeneratorsWrite
<1>2. ASSUME NEW h \in Generators, GeneratorStep(h)
      PROVE  marker'[i] = marker[i]
  <2>1. CASE GenCommit(h)
    <3>1. marker[input[h]] = NoOwner
      BY <2>1, CommitOwns DEF Unmarked, GenCommit
    <3> QED
      BY <2>1, <3>1 DEF GenCommit, TypeOK
  <2>2. CASE ~ GenCommit(h)
    BY <1>2, <2>2, GeneratorMoves
  <2> QED
    BY <2>1, <2>2
<1> QED
  BY <1>1, <1>2

\* Where a generator_commits row comes from.
LEMMA MarkerFrom ==
  ASSUME TypeOK, [Next]_vars, NEW i \in Inputs, marker'[i] # marker[i]
  PROVE  \E g \in Generators : GenCommit(g) /\ i = input[g] /\ marker'[i] = g
<1>1. PICK g \in Generators : GeneratorStep(g)
  BY OnlyGeneratorsWrite
<1>2. GenCommit(g)
  BY <1>1, GeneratorMoves
<1> QED
  BY <1>2 DEF GenCommit, TypeOK

\* The deterministic input of a run never changes.
LEMMA InputFixed ==
  ASSUME TypeOK, [Next]_vars
  PROVE  input' = input
  BY OnlyGeneratorsWrite, GeneratorMoves

\* A marker names a run of the input it belongs to.
LEMMA NextMarkerIsOwn ==
  ASSUME TypeOK, Fenced, Unmarked, MarkerIsOwn, [Next]_vars
  PROVE  MarkerIsOwn'
<1>1. ASSUME NEW i \in Inputs, marker'[i] # NoOwner
      PROVE  input'[marker'[i]] = i
  <2>1. CASE marker'[i] = marker[i]
    BY <1>1, <2>1, InputFixed DEF MarkerIsOwn
  <2>2. CASE marker'[i] # marker[i]
    BY <1>1, <2>2, MarkerFrom, InputFixed
  <2> QED
    BY <2>1, <2>2
<1>2. ASSUME NEW g \in Generators, pc'[g] \in {"committed", "unfenced"}
      PROVE  marker'[input'[g]] = g
  <2>1. input'[g] = input[g] /\ input[g] \in Inputs /\ g # NoOwner
    BY InputFixed, SessionsAssumption DEF TypeOK
  <2>2. CASE pc[g] \in {"committed", "unfenced"}
    <3>1. marker[input[g]] = g
      BY <2>2 DEF MarkerIsOwn
    <3> QED
      BY <2>1, <3>1, MarkerStays
  <2>3. CASE pc[g] \notin {"committed", "unfenced"}
    <3>1. PICK h \in Generators : GeneratorStep(h)
      BY <1>2, <2>3, OnlyGeneratorsWrite
    <3>2. h = g
      BY <1>2, <2>3, <3>1, OthersStay
    <3>3. GenCommit(g)
      BY <1>2, <2>3, <3>1, <3>2, GeneratorMoves
    <3> QED
      BY <2>1, <3>3 DEF GenCommit, TypeOK
  <2> QED
    BY <2>2, <2>3
<1> QED
  BY <1>1, <1>2 DEF MarkerIsOwn

\* SUCCESS is recorded only after the source COMMIT.
LEMMA NextSuccessIsCommitted ==
  ASSUME TypeOK, Fenced, Unmarked, MarkerIsOwn, SuccessIsCommitted, [Next]_vars
  PROVE  SuccessIsCommitted'
<1> SUFFICES ASSUME NEW g \in Generators, status'[g] = "SUCCESS"
             PROVE  marker'[input'[g]] = g
  BY DEF SuccessIsCommitted
<1>1. input'[g] = input[g] /\ input[g] \in Inputs /\ g # NoOwner
  BY InputFixed, SessionsAssumption DEF TypeOK
<1>2. marker[input[g]] = g
  <2>1. CASE status[g] = "SUCCESS"
    BY <2>1 DEF SuccessIsCommitted
  <2>2. CASE status[g] # "SUCCESS"
    <3>1. PICK h \in Generators : GeneratorStep(h)
      BY <2>2, OnlyGeneratorsWrite
    <3>2. GenRecover(h) \/ GenFinish(h)
      BY <2>2, <3>1
      DEF GeneratorStep, GenReuseSuccess, GenAcquire, GenStart, GenOpen,
          GenWrite, GenFence, GenCommit, GenUnfence, GenFail, GenRelease,
          GenCrash, genVars, TypeOK
    <3>3. CASE GenRecover(h)
      <4>1. marker[input[h]] = g
        BY <2>2, <3>3 DEF GenRecover, TypeOK
      <4>2. input[h] \in Inputs
        BY DEF TypeOK
      <4>3. input[g] = input[h]
        BY <1>1, <4>1, <4>2 DEF MarkerIsOwn
      <4> QED
        BY <4>1, <4>3
    <3>4. CASE GenFinish(h)
      <4>1. h = g /\ pc[g] = "unfenced"
        BY <2>2, <3>4 DEF GenFinish, TypeOK
      <4> QED
        BY <4>1 DEF MarkerIsOwn
    <3> QED
      BY <3>2, <3>3, <3>4
  <2> QED
    BY <2>1, <2>2
<1> QED
  BY <1>1, <1>2, MarkerStays

\* The Generator invariant holds in the initial states.
LEMMA InitGenInv == Init => GenInv
<1> SUFFICES ASSUME Init PROVE GenInv
  OBVIOUS
<1>1. \A g \in Generators : pc[g] = "idle" /\ status[g] = "NONE"
  BY DEF Init, Sessions
<1>2. \A i \in Inputs : marker[i] = NoOwner
  BY DEF Init
<1> QED
  BY <1>1, <1>2
  DEF GenInv, Fenced, Forward, Unmarked, MarkerIsOwn, SuccessIsCommitted

\* Every step keeps the Generator invariant.
LEMMA NextGenInv == TypeOK /\ GenInv /\ [Next]_vars => GenInv'
  BY NextFenced, NextForward, NextUnmarked, NextMarkerIsOwn,
     NextSuccessIsCommitted DEF GenInv

\* The Generator invariant always holds.
LEMMA GenInvHolds == Spec => [](TypeOK /\ GenInv)
  BY InitTypeOK, NextTypeOK, InitGenInv, NextGenInv, PTL DEF Spec

\* generator_runs reports SUCCESS only of runs whose source COMMIT happened,
\* recovery of a lost SUCCESS by a later run included.
THEOREM SuccessCommitted == Spec => []SuccessIsCommitted
  BY GenInvHolds, PTL DEF GenInv

\* A deterministic input is committed to the source at most once, without
\* the unique index of generator_commits.
THEOREM CommittedOnce == Spec => InputCommittedOnce
<1>1. TypeOK /\ GenInv /\ [Next]_vars
        => [\A i \in Inputs : marker[i] # NoOwner => marker'[i] = marker[i]]_vars
  BY MarkerStays DEF GenInv
<1> QED
  BY <1>1, GenInvHolds, PTL DEF Spec, InputCommittedOnce

\* Every step leaves the owner of the row with the version of the row.
LEMMA NextTokenIsVersion ==
  TypeOK /\ TokenIsVersion /\ [Next]_vars => TokenIsVersion'
<1> SUFFICES ASSUME TypeOK, TokenIsVersion, [Next]_vars PROVE TokenIsVersion'
  OBVIOUS
<1>1. ASSUME NEW s \in Sessions, AcquireLease(s) PROVE TokenIsVersion'
  <2>1. lease'.owner = s /\ token'[s] = lease'.version
    BY <1>1, AcquireGivesRow DEF AcquireLease, TypeOK
  <2> QED
    BY <2>1 DEF TokenIsVersion, Owns
<1>2. ASSUME NEW s \in Sessions, ReleaseLease(s), token' = token
      PROVE  TokenIsVersion'
  <2>1. lease' = lease \/ lease'.owner = NoOwner
    BY <1>2 DEF ReleaseLease, Released
  <2> QED
    BY <1>2, <2>1, SessionsAssumption DEF TokenIsVersion, Owns, Sessions
<1>3. CASE lease' = Renewed(lease, clock) /\ token' = token
  <2>1. lease'.owner = lease.owner /\ lease'.version = lease.version
    BY <1>3 DEF Renewed, TypeOK, LeaseRow
  <2> QED
    BY <1>3, <2>1 DEF TokenIsVersion, Owns
<1>4. CASE UNCHANGED <<lease, token>>
  BY <1>4 DEF TokenIsVersion, Owns
<1>5. ASSUME NEW g \in Generators, GeneratorStep(g)
      PROVE  \/ UNCHANGED <<lease, token>>
             \/ \E s \in Sessions :
                  AcquireLease(s) \/ (ReleaseLease(s) /\ token' = token)
  BY <1>5
  DEF Sessions, GeneratorStep, GenReuseSuccess, GenAcquire, GenRecover,
      GenStart, GenOpen, GenWrite, GenFence, GenCommit, GenUnfence, GenFinish,
      GenFail, GenRelease, GenCrash
<1>6. ASSUME NEW w \in Warehouses, WhAcquire(w) \/ WhRelease(w)
      PROVE  \E s \in Sessions :
               AcquireLease(s) \/ (ReleaseLease(s) /\ token' = token)
  BY <1>6 DEF WhAcquire, WhRelease, Sessions
<1>7. ASSUME NEW k \in Tasks, TaskStep(k)
      PROVE  \/ UNCHANGED <<lease, token>>
             \/ lease' = Renewed(lease, clock) /\ token' = token
  BY <1>7
  DEF TaskStep, TaskStart, TaskAdmit, TaskSnapshot, TaskNoData, TaskUpload,
      TaskCheck, TaskCommit, TaskFail, HeartbeatRenew, HeartbeatFail
<1>8. Tick \/ UNCHANGED vars => UNCHANGED <<lease, token>>
  BY DEF Tick, vars
<1> QED
  BY <1>1, <1>2, <1>3, <1>4, <1>5, <1>6, <1>7, <1>8 DEF Next

\* Nobody owns the row in the initial states.
LEMMA InitTokenIsVersion == Init => TokenIsVersion
  BY SessionsAssumption DEF Init, InitialLease, TokenIsVersion, Owns, Sessions

\* TokenIsVersion always holds.
LEMMA TokenIsVersionHolds == Spec => []TokenIsVersion
<1>1. TokenIsVersion /\ TypeOK /\ [Next]_vars => TokenIsVersion'
  BY NextTokenIsVersion
<1> QED
  BY <1>1, InitTokenIsVersion, TypeCorrect, PTL DEF Spec

\* Every source COMMIT happens while the row names the committing run with
\* the version it was given, so never while a Warehouse run owns the row.
THEOREM FrozenWhileOwned == Spec => SourceFrozen
<1>1. TypeOK /\ GenInv /\ TokenIsVersion /\ [Next]_vars
        => [\A g \in Generators :
              pc[g] = "fenced" /\ pc'[g] = "committed"
                => lease.owner = g /\ lease.version = token[g]]_vars
  BY DEF GenInv, Fenced, TokenIsVersion, Owns, Sessions
<1> QED
  BY <1>1, GenInvHolds, TokenIsVersionHolds, PTL DEF Spec, SourceFrozen

\* The check of _assert_source_cursor_forward still holds at the COMMIT.
THEOREM CursorsForward == Spec => SourceCursorsForward
<1>1. TypeOK /\ GenInv /\ [Next]_vars
        => [\A g \in Generators :
              pc[g] = "fenced" /\ pc'[g] = "committed" /\ wrote[g]
                => \A c \in cursors : c < input[g][1]]_vars
  BY DEF GenInv, Fenced, Forward
<1> QED
  BY <1>1, GenInvHolds, PTL DEF Spec, SourceCursorsForward

-----------------------------------------------------------------------------
(* The invariant about the table tasks of a Warehouse run.                 *)

\* Generator runs and Warehouse runs leave the tasks alone.
LEMMA OnlyTasksRead ==
  ASSUME [Next]_vars, ~ \E k \in Tasks : TaskStep(k)
  PROVE  UNCHANGED <<task, saw>>
<1>1. ASSUME NEW g \in Generators, GeneratorStep(g)
      PROVE  UNCHANGED <<task, saw>>
  BY <1>1
  DEF GeneratorStep, GenReuseSuccess, GenAcquire, GenRecover,
      GenStart, GenOpen, GenWrite, GenFence, GenCommit, GenUnfence, GenFinish,
      GenFail, GenRelease, GenCrash, taskVars
<1>2. ASSUME NEW w \in Warehouses, WhAcquire(w) \/ WhRelease(w)
      PROVE  UNCHANGED <<task, saw>>
  BY <1>2 DEF WhAcquire, WhRelease, taskVars
<1>3. Tick \/ UNCHANGED vars => UNCHANGED <<task, saw>>
  BY DEF Tick, vars, taskVars
<1> QED
  BY <1>1, <1>2, <1>3 DEF Next

\* How a task reaches the states the invariant is about.
LEMMA TaskMoves ==
  ASSUME TypeOK, NEW k \in Tasks, TaskStep(k)
  PROVE  /\ \A l \in Tasks : l # k => task'[l] = task[l] /\ saw'[l] = saw[l]
         /\ UNCHANGED <<pc, cursors>>
         /\ \/ TaskSnapshot(k)
            \/ /\ saw'[k] = saw[k]
               /\ task'[k] \in HasRead => task[k] \in HasRead
         /\ task'[k] \in Passed => saw'[k] = saw[k]
         /\ task'[k] \in Passed => task[k] \in Passed \/ Owns(k[1])
         /\ task[k] = "todo" => task'[k] = "todo" \/ pc[k[1]] = "holding"
  BY DEF TypeOK, TaskStep, TaskStart, TaskAdmit, TaskSnapshot, TaskNoData,
         TaskUpload, TaskCheck, TaskCommit, TaskFail, HeartbeatRenew,
         HeartbeatFail, Advance, Beating, HasRead, Passed, Current,
         IsCurrentLease, Owns, genVars, taskVars

\* Tables are only read by tasks of a Warehouse run that has acquired.
LEMMA NextTasksWait ==
  ASSUME TypeOK, TasksWait, [Next]_vars
  PROVE  TasksWait'
<1> SUFFICES ASSUME NEW k \in Tasks, pc'[k[1]] = "idle"
             PROVE  task'[k] = "todo"
  BY DEF TasksWait
<1>1. k[1] \in Sessions
  BY DEF Tasks, Sessions
<1>2. pc[k[1]] = "idle"
  <2>1. ASSUME NEW s \in Sessions, NEW state \in GeneratorPC \cup WarehousePC,
               pc' = [pc EXCEPT ![s] = state], state # "idle"
        PROVE  pc[k[1]] = "idle"
    BY <1>1, <2>1 DEF TypeOK
  <2>2. ASSUME NEW g \in Generators, GeneratorStep(g) PROVE pc[k[1]] = "idle"
    BY <2>1, <2>2
    DEF GeneratorStep, GenReuseSuccess, GenAcquire, GenRecover, GenStart,
        GenOpen, GenWrite, GenFence, GenCommit, GenUnfence, GenFinish, GenFail,
        GenRelease, GenCrash, Go, Sessions, GeneratorPC
  <2>3. ASSUME NEW w \in Warehouses, WhAcquire(w) \/ WhRelease(w)
        PROVE  pc[k[1]] = "idle"
    BY <2>1, <2>3 DEF WhAcquire, WhRelease, Go, Sessions, WarehousePC
  <2>4. ASSUME NEW l \in Tasks, TaskStep(l) PROVE pc[k[1]] = "idle"
    BY <2>4, TaskMoves
  <2>5. Tick \/ UNCHANGED vars => pc' = pc
    BY DEF Tick, vars
  <2> QED
    BY <2>2, <2>3, <2>4, <2>5 DEF Next
<1>3. task[k] = "todo"
  BY <1>2 DEF TasksWait
<1>4. ASSUME NEW l \in Tasks, TaskStep(l) PROVE task'[k] = "todo"
  BY <1>2, <1>3, <1>4, TaskMoves
<1> QED
  BY <1>3, <1>4, OnlyTasksRead

\* While a Warehouse run owns the row its snapshots show the present source.
LEMMA NextReadIsCurrent ==
  ASSUME TypeOK, Fenced, TasksWait, ReadIsCurrent, [Next]_vars
  PROVE  ReadIsCurrent'
<1> SUFFICES ASSUME NEW k \in Tasks, Owns(k[1])', task'[k] \in HasRead
             PROVE  saw'[k] = cursors'
  BY DEF ReadIsCurrent
<1>1. k[1] \in Sessions /\ k[1] \in Warehouses /\ k[1] \notin Generators
  BY SessionsAssumption DEF Tasks, Sessions
<1>2. ASSUME NEW l \in Tasks, TaskStep(l) PROVE saw'[k] = cursors'
  <2>1. UNCHANGED <<pc, cursors>>
    BY <1>2, TaskMoves
  <2>2. Owns(k[1])
    <3>1. pc'[k[1]] = pc[k[1]]
      BY <2>1
    <3> QED
      BY <1>1, <3>1, OwnerBefore
  <2>3. CASE k = l /\ TaskSnapshot(k)
    BY <2>1, <2>3 DEF TaskSnapshot, TypeOK
  <2>4. CASE k # l \/ ~ TaskSnapshot(k)
    <3>1. saw'[k] = saw[k] /\ task[k] \in HasRead
      BY <1>2, <2>4, TaskMoves
    <3> QED
      BY <2>1, <2>2, <3>1 DEF ReadIsCurrent
  <2> QED
    BY <2>3, <2>4
<1>3. CASE ~ \E l \in Tasks : TaskStep(l)
  <2>1. UNCHANGED <<task, saw>>
    BY <1>3, OnlyTasksRead
  <2>2. Owns(k[1])
    <3>1. pc[k[1]] # "idle"
      BY <2>1 DEF TasksWait, HasRead
    <3> QED
      BY <1>1, <3>1, OwnerBefore
  <2>3. cursors' = cursors
    <3>1. ASSUME NEW g \in Generators, GeneratorStep(g) PROVE cursors' = cursors
      <4>1. ~ GenCommit(g)
        BY <1>1, <2>2, CommitOwns DEF Owns
      <4> QED
        BY <3>1, <4>1, GeneratorMoves
    <3> QED
      BY <3>1, OnlyGeneratorsWrite
  <2> QED
    BY <2>1, <2>2, <2>3 DEF ReadIsCurrent
<1> QED
  BY <1>2, <1>3

\* Two tasks past their last check have read the same source.
LEMMA NextPassedAgree ==
  ASSUME TypeOK, ReadIsCurrent, PassedAgree, [Next]_vars
  PROVE  PassedAgree'
<1> SUFFICES ASSUME NEW k \in Tasks, NEW l \in Tasks, k[1] = l[1],
                    task'[k] \in Passed, task'[l] \in Passed
             PROVE  saw'[k] = saw'[l]
  BY DEF PassedAgree
<1>1. CASE ~ \E m \in Tasks : TaskStep(m)
  BY <1>1, OnlyTasksRead DEF PassedAgree
<1>2. ASSUME NEW m \in Tasks, TaskStep(m) PROVE saw'[k] = saw'[l]
  <2>1. saw'[k] = saw[k] /\ saw'[l] = saw[l]
    BY <1>2, TaskMoves
  <2>2. CASE task[k] \in Passed /\ task[l] \in Passed
    BY <2>1, <2>2 DEF PassedAgree
  <2>3. CASE task[k] \notin Passed \/ task[l] \notin Passed
    <3>1. Owns(k[1])
      BY <1>2, <2>3, TaskMoves
    <3>2. task[k] \in HasRead /\ task[l] \in HasRead
      BY <1>2, TaskMoves DEF HasRead, Passed, TaskSnapshot, Advance, TypeOK
    <3> QED
      BY <2>1, <3>1, <3>2 DEF ReadIsCurrent
  <2> QED
    BY <2>2, <2>3
<1> QED
  BY <1>1, <1>2

\* The task invariant holds in the initial states.
LEMMA InitTaskInv == Init => TaskInv
<1> SUFFICES ASSUME Init PROVE TaskInv
  OBVIOUS
<1>1. \A g \in Generators : pc[g] = "idle"
  BY DEF Init, Sessions
<1>2. \A k \in Tasks : task[k] = "todo"
  BY DEF Init
<1> QED
  BY <1>1, <1>2
  DEF TaskInv, Fenced, TasksWait, ReadIsCurrent, PassedAgree, HasRead, Passed

\* Every step keeps the task invariant.
LEMMA NextTaskInv == TypeOK /\ TaskInv /\ [Next]_vars => TaskInv'
  BY NextFenced, NextTasksWait, NextReadIsCurrent, NextPassedAgree DEF TaskInv

\* The table runs one Warehouse run commits read the same source, whatever
\* the number of tables and runs and however stale the clock they check with.
THEOREM SnapshotsAgree == Spec => []CommittedSnapshotsAgree
<1>1. TaskInv => CommittedSnapshotsAgree
  <2> SUFFICES ASSUME TaskInv, NEW w \in Warehouses,
                      NEW t \in Tables, NEW u \in Tables,
                      task[<<w, t>>] = "committed", task[<<w, u>>] = "committed"
               PROVE  saw[<<w, t>>] = saw[<<w, u>>]
    BY DEF CommittedSnapshotsAgree
  <2>1. /\ <<w, t>> \in Tasks /\ <<w, u>> \in Tasks
        /\ <<w, t>>[1] = <<w, u>>[1]
    BY DEF Tasks
  <2> QED
    BY <2>1 DEF TaskInv, PassedAgree, Passed
<1> QED
  BY <1>1, InitTypeOK, NextTypeOK, InitTaskInv, NextTaskInv, PTL DEF Spec

=============================================================================
