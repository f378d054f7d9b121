-------------------------- MODULE CoordinateProofs --------------------------
(***************************************************************************)
(* Theorems about Coordinate, for every value of its constants.            *)
(***************************************************************************)
EXTENDS Coordinate, TLAPS

-----------------------------------------------------------------------------
(* Record updates keep the record types.                                   *)

AnyTaskStatus == TaskStatus \cup {"absent"}
AnyBatchStatus == BatchStatus \cup {"unused", "pruned"}

\* Every way in which a transaction rewrites a task record gives a task record.
LEMMA TaskUpdate ==
  ASSUME NEW r \in TaskRecord, NEW s \in AnyTaskStatus
  PROVE  /\ [r EXCEPT !.status = s] \in TaskRecord
         /\ \A l \in BOOLEAN : /\ [r EXCEPT !.status = s, !.leased = l] \in TaskRecord
                               /\ [r EXCEPT !.leased = l, !.status = s] \in TaskRecord
         /\ \A l \in BOOLEAN, D \in SUBSET Task :
              [r EXCEPT !.status = s, !.leased = l, !.deps = D] \in TaskRecord
         /\ \A D \in SUBSET Task : [r EXCEPT !.status = s, !.deps = D] \in TaskRecord
         /\ \A n \in Receipt : [r EXCEPT !.status = s, !.receipt = n] \in TaskRecord
         /\ \A b \in Batch \cup {NoBatch} : [r EXCEPT !.status = s, !.batch = b] \in TaskRecord
         /\ \A b \in Batch \cup {NoBatch}, a \in 0..(MaxAttempts - 1) :
              /\ [r EXCEPT !.status = s, !.batch = b, !.attempts = a] \in TaskRecord
              /\ [r EXCEPT !.batch = b, !.status = s, !.attempts = a] \in TaskRecord
  BY DEF TaskRecord, AnyTaskStatus

LEMMA LeaseUpdate ==
  ASSUME NEW r \in TaskRecord, NEW l \in BOOLEAN
  PROVE  [r EXCEPT !.leased = l] \in TaskRecord
  BY DEF TaskRecord

LEMMA ReceiptUpdate ==
  ASSUME NEW r \in TaskRecord, NEW n \in Receipt
  PROVE  [r EXCEPT !.receipt = n] \in TaskRecord
  BY DEF TaskRecord

\* Every way in which a transaction rewrites a batch record gives a batch record.
LEMMA BatchUpdate ==
  ASSUME NEW r \in BatchRecord, NEW s \in AnyBatchStatus
  PROVE  /\ [r EXCEPT !.status = s] \in BatchRecord
         /\ \A f \in BOOLEAN : [r EXCEPT !.status = s, !.refresh = f] \in BatchRecord
         /\ \A f \in BOOLEAN, m \in BOOLEAN :
              [r EXCEPT !.status = s, !.refresh = f, !.named = m] \in BatchRecord
         /\ \A f \in BOOLEAN, p \in BOOLEAN :
              [r EXCEPT !.status = s, !.pr = p, !.refresh = f] \in BatchRecord
         /\ \A S \in SUBSET Task, R \in [Task -> Receipt] :
              [r EXCEPT !.status = s, !.tasks = S, !.receipt = R] \in BatchRecord
  BY DEF BatchRecord, AnyBatchStatus

LEMMA FlagUpdate ==
  ASSUME NEW r \in BatchRecord, NEW f \in BOOLEAN
  PROVE  /\ [r EXCEPT !.named = f] \in BatchRecord
         /\ [r EXCEPT !.refresh = f] \in BatchRecord
  BY DEF BatchRecord

LEMMA NewRecords == NoTask \in TaskRecord /\ UnusedBatch \in BatchRecord
  BY BoundsAssumption DEF NoTask, UnusedBatch, TaskRecord, BatchRecord, NoBatch, Receipt

-----------------------------------------------------------------------------
(* Type correctness.                                                       *)

\* A process that has planned works on a batch: with that, TypeOK is inductive.
WorksOnBatch == integ.pc \notin {"idle", "recovering", "locked"} => integ.batch \in Batch

LEMMA InitTypeOK == Init => TypeOK
  BY BoundsAssumption, NewRecords
     DEF Init, TypeOK, Idle, Integrator, Phases, NoBatch, Receipt

\* One command of a worker or the owner keeps the types.
LEMMA TaskCommandTypeOK ==
  ASSUME TypeOK, NEW t \in Task, TaskCommand(t)
  PROVE  TypeOK'
<1>t. tasks[t] \in TaskRecord
  BY DEF TypeOK
<1>f. /\ tasks[t].status \in AnyTaskStatus
      /\ tasks[t].receipt \in Receipt
      /\ DepSets[t] \in SUBSET SUBSET Task
  BY <1>t, InputAssumption DEF TaskRecord, AnyTaskStatus
<1>1. CASE RegisterTask(t)
  <2>1. PICK D \in DepSets[t] :
            tasks' = [tasks EXCEPT ![t].status = "registered", ![t].deps = D]
    BY <1>1 DEF RegisterTask
  <2>2. D \in SUBSET Task
    BY <1>f
  <2> QED
    BY <1>1, <2>1, <2>2, <1>t, TaskUpdate DEF RegisterTask, TypeOK, AnyTaskStatus, TaskStatus
<1>2. CASE ClaimTask(t)
  <2>1. PICK D \in DepSets[t] :
            tasks' = [tasks EXCEPT ![t].status = "claimed", ![t].leased = TRUE, ![t].deps = D]
    BY <1>2 DEF ClaimTask
  <2>2. D \in SUBSET Task
    BY <1>f
  <2> QED
    BY <1>2, <2>1, <2>2, <1>t, TaskUpdate DEF ClaimTask, TypeOK, AnyTaskStatus, TaskStatus
<1>3. CASE ExpireLease(t)
  BY <1>3, <1>t, LeaseUpdate DEF ExpireLease, TypeOK
<1>4. CASE ReleaseTask(t)
  BY <1>4, <1>t, <1>f, TaskUpdate DEF ReleaseTask, TypeOK, AnyTaskStatus, TaskStatus
<1>5. CASE SubmitTask(t)
  <2>1. tasks[t].receipt + 1 \in Receipt
    BY <1>5, <1>f, BoundsAssumption DEF SubmitTask, Receipt
  <2> QED
    BY <1>5, <1>t, <2>1, TaskUpdate DEF SubmitTask, TypeOK, AnyTaskStatus, TaskStatus
<1>6. CASE RetryTask(t)
  <2>1. 0 \in 0..(MaxAttempts - 1)
    BY BoundsAssumption
  <2> QED
    BY <1>6, <1>t, <2>1, TaskUpdate DEF RetryTask, TypeOK, AnyTaskStatus, TaskStatus
<1>7. CASE CancelTask(t)
  BY <1>7, <1>t, TaskUpdate DEF CancelTask, TypeOK, AnyTaskStatus, TaskStatus
<1> QED
  BY <1>1, <1>2, <1>3, <1>4, <1>5, <1>6, <1>7 DEF TaskCommand

LEMMA PruneTypeOK == TypeOK /\ Prune => TypeOK'
<1> SUFFICES ASSUME TypeOK, Prune
             PROVE  TypeOK'
  OBVIOUS
<1>1. \A t \in Task : [NoTask EXCEPT !.receipt = tasks[t].receipt] \in TaskRecord
  <2> TAKE t \in Task
  <2>1. tasks[t].receipt \in Receipt
    BY DEF TypeOK, TaskRecord
  <2> QED
    BY <2>1, NewRecords, ReceiptUpdate
<1>2. [UnusedBatch EXCEPT !.status = "pruned"] \in BatchRecord
  BY NewRecords, BatchUpdate DEF AnyBatchStatus
<1>3. tasks' \in [Task -> TaskRecord]
  BY <1>1 DEF Prune, TypeOK
<1>4. batches' \in [Batch -> BatchRecord]
  BY <1>2 DEF Prune, TypeOK
<1> QED
  BY <1>3, <1>4 DEF Prune, TypeOK

\* One step of the process that holds the integration lock keeps the types.
LEMMA IntegrateTypeOK ==
  ASSUME TypeOK, WorksOnBatch, Integrate
  PROVE  TypeOK'
<1>i. /\ integ \in Integrator
      /\ integ.batch \in Batch \cup {NoBatch}
      /\ integ.plan \in SUBSET Task
      /\ integ.seen \in [Task -> Receipt]
  BY DEF TypeOK, Integrator
<1>r. /\ \A t \in Task : tasks[t] \in TaskRecord
      /\ \A b \in Batch : batches[b] \in BatchRecord
  BY DEF TypeOK
<1>pc. \A pc \in Phases : [integ EXCEPT !.pc = pc] \in Integrator
  BY <1>i DEF Integrator
<1>idle. Idle \in Integrator
  BY BoundsAssumption DEF Idle, Integrator, Phases, NoBatch, Receipt
<1>1. CASE RecoverCleanup
  <2>1. branches' \subseteq Batch
    BY <1>1 DEF RecoverCleanup, TypeOK
  <2> QED
    BY <1>1, <2>1, <1>pc DEF RecoverCleanup, TypeOK, Phases
<1>2. CASE RecoverRequeue
  <2>1. \A t \in Task :
          [tasks[t] EXCEPT !.status = "submitted", !.batch = NoBatch] \in TaskRecord
    BY <1>r, TaskUpdate DEF AnyTaskStatus, TaskStatus
  <2>2. \A b \in Batch : [batches[b] EXCEPT !.status = "failed"] \in BatchRecord
    BY <1>r, BatchUpdate DEF AnyBatchStatus, BatchStatus
  <2>3. tasks' \in [Task -> TaskRecord] /\ batches' \in [Batch -> BatchRecord]
    BY <1>2, <2>1, <2>2, <1>r DEF RecoverRequeue
  <2> QED
    BY <1>2, <2>3, <1>pc DEF RecoverRequeue, TypeOK, Phases
<1>3. CASE Unlock
  BY <1>3, <1>idle DEF Unlock, TypeOK
<1>4. CASE Plan
  <2>1. PICK S \in SUBSET Task, b \in Batch, dry \in BOOLEAN :
          integ' = [pc |-> "planned", batch |-> b, plan |-> S, dry |-> dry, culprit |-> {},
                    seen |-> [t \in Task |-> IF t \in S THEN tasks[t].receipt ELSE 0]]
    BY <1>4 DEF Plan
  <2>2. [t \in Task |-> IF t \in S THEN tasks[t].receipt ELSE 0] \in [Task -> Receipt]
    BY <1>r, BoundsAssumption DEF TaskRecord, Receipt
  <2>3. integ' \in Integrator
    BY <2>1, <2>2 DEF Integrator, Phases
  <2> QED
    BY <1>4, <2>3 DEF Plan, TypeOK
<1>5. CASE StartBatch
  <2>1. \A t \in Task :
          [tasks[t] EXCEPT !.status = "integrating", !.batch = integ.batch] \in TaskRecord
    BY <1>r, <1>i, TaskUpdate DEF AnyTaskStatus, TaskStatus
  <2>2. [UnusedBatch EXCEPT !.status = "running", !.tasks = integ.plan,
                            !.receipt = integ.seen] \in BatchRecord
    BY <1>i, NewRecords, BatchUpdate DEF AnyBatchStatus, BatchStatus
  <2>3. tasks' \in [Task -> TaskRecord] /\ batches' \in [Batch -> BatchRecord]
    BY <1>5, <2>1, <2>2, <1>r DEF StartBatch, TypeOK
  <2> QED
    BY <1>5, <2>3, <1>pc DEF StartBatch, TypeOK, Phases
<1>6. CASE RefuseStart
  BY <1>6, <1>idle DEF RefuseStart, TypeOK
<1>7. CASE VerifyDryRun
  <2>1. \A t \in Task :
          [tasks[t] EXCEPT !.status = "submitted", !.batch = NoBatch] \in TaskRecord
    BY <1>r, TaskUpdate DEF AnyTaskStatus, TaskStatus
  <2>2. \A b \in Batch : [batches[b] EXCEPT !.status = "verified"] \in BatchRecord
    BY <1>r, BatchUpdate DEF AnyBatchStatus, BatchStatus
  <2>3. tasks' \in [Task -> TaskRecord] /\ batches' \in [Batch -> BatchRecord]
    BY <1>7, <2>1, <2>2, <1>r DEF VerifyDryRun, TypeOK
  <2> QED
    BY <1>7, <2>3, <1>pc DEF VerifyDryRun, TypeOK, Phases
<1>8. CASE RecordBranchName
  <2>1. \A b \in Batch : [batches[b] EXCEPT !.named = TRUE] \in BatchRecord
    BY <1>r, FlagUpdate
  <2>2. batches' \in [Batch -> BatchRecord]
    BY <1>8, <2>1 DEF RecordBranchName, TypeOK
  <2> QED
    BY <1>8, <2>2, <1>pc DEF RecordBranchName, TypeOK, Phases
<1>9. CASE CreateBranch
  <2>1. branches' \subseteq Batch
    BY <1>9 DEF CreateBranch, TypeOK, WorksOnBatch
  <2> QED
    BY <1>9, <2>1, <1>pc DEF CreateBranch, TypeOK, Phases
<1>10. CASE Prepare
  <2>1. \A t \in Task :
          [tasks[t] EXCEPT !.status = "batched", !.leased = FALSE] \in TaskRecord
    BY <1>r, TaskUpdate DEF AnyTaskStatus, TaskStatus
  <2>2. \A b \in Batch : [batches[b] EXCEPT !.status = "prepared"] \in BatchRecord
    BY <1>r, BatchUpdate DEF AnyBatchStatus, BatchStatus
  <2>3. tasks' \in [Task -> TaskRecord] /\ batches' \in [Batch -> BatchRecord]
    BY <1>10, <2>1, <2>2, <1>r DEF Prepare, TypeOK
  <2> QED
    BY <1>10, <2>3, <1>pc DEF Prepare, TypeOK, Phases
<1>11. CASE FinishIntegration
  BY <1>11, <1>idle DEF FinishIntegration, TypeOK
<1>12. CASE Abort
  <2>1. PICK culprit \in SUBSET Task :
          integ' = [integ EXCEPT !.pc = "failing", !.culprit = culprit]
    BY <1>12, <1>i DEF Abort
  <2>2. integ' \in Integrator
    BY <2>1, <1>i DEF Integrator, Phases
  <2> QED
    BY <1>12, <2>2 DEF Abort, TypeOK
<1>13. CASE FailBatch
  <2>1. \A t \in Task : FailedTask(t) \in TaskRecord
    <3> SUFFICES ASSUME NEW t \in Task
                 PROVE  FailedTask(t) \in TaskRecord
      OBVIOUS
    <3> DEFINE s == IF integ.dry \/ Innocent(t) THEN "submitted" ELSE "failed"
               a == IF ~integ.dry /\ Innocent(t) THEN tasks[t].attempts + 1
                                                ELSE tasks[t].attempts
    <3>1. s \in AnyTaskStatus
      BY DEF AnyTaskStatus, TaskStatus
    <3>2. a \in 0..(MaxAttempts - 1)
      BY <1>r, BoundsAssumption DEF Innocent, TaskRecord
    <3>3. FailedTask(t) = [tasks[t] EXCEPT !.batch = NoBatch, !.status = s, !.attempts = a]
      BY DEF FailedTask
    <3> HIDE DEF s, a
    <3>4. [tasks[t] EXCEPT !.batch = NoBatch, !.status = s, !.attempts = a] \in TaskRecord
      BY <1>r, <3>1, <3>2, TaskUpdate
    <3> QED
      BY <3>3, <3>4
  <2>2. [UnusedBatch EXCEPT !.status = "failed", !.tasks = integ.plan,
                            !.receipt = integ.seen] \in BatchRecord
    BY <1>i, NewRecords, BatchUpdate DEF AnyBatchStatus, BatchStatus
  <2>3. tasks' \in [Task -> TaskRecord] /\ batches' \in [Batch -> BatchRecord]
    BY <1>13, <2>1, <2>2, <1>r DEF FailBatch, TypeOK
  <2> QED
    BY <1>13, <2>3, <1>idle DEF FailBatch, TypeOK
<1>14. CASE FailUnrecorded
  BY <1>14, <1>idle DEF FailUnrecorded, TypeOK
<1> QED
  BY <1>1, <1>2, <1>3, <1>4, <1>5, <1>6, <1>7, <1>8, <1>9, <1>10, <1>11, <1>12, <1>13, <1>14
     DEF Integrate

LEMMA StopTypeOK == TypeOK /\ StopIntegration => TypeOK'
<1> SUFFICES ASSUME TypeOK, StopIntegration
             PROVE  TypeOK'
  OBVIOUS
<1>1. Idle \in Integrator
  BY BoundsAssumption DEF Idle, Integrator, Phases, NoBatch, Receipt
<1>2. crashes + 1 \in 0..MaxCrash
  BY BoundsAssumption DEF StopIntegration, TypeOK
<1> QED
  BY <1>1, <1>2 DEF StopIntegration, TypeOK

\* One step of the holder of a batch lock keeps the types.
LEMMA BatchCommandTypeOK ==
  ASSUME TypeOK, NEW b \in Batch, BatchCommand(b)
  PROVE  TypeOK'
<1>r. /\ \A t \in Task : tasks[t] \in TaskRecord
      /\ \A c \in Batch : batches[c] \in BatchRecord
  BY DEF TypeOK
<1>t. \A t \in Task, s \in TaskStatus :
        /\ [tasks[t] EXCEPT !.status = s] \in TaskRecord
        /\ [tasks[t] EXCEPT !.status = s, !.batch = NoBatch] \in TaskRecord
  BY <1>r, TaskUpdate DEF AnyTaskStatus
<1>b. \A s \in BatchStatus : [batches[b] EXCEPT !.status = s, !.refresh = FALSE] \in BatchRecord
  BY <1>r, BatchUpdate DEF AnyBatchStatus
<1>1. CASE RequireRefresh(b)
  BY <1>1, <1>r, FlagUpdate DEF RequireRefresh, TypeOK
<1>2. CASE PushBatch(b)
  BY <1>2 DEF PushBatch, TypeOK
<1>3. CASE DropPublication(b)
  BY <1>3 DEF DropPublication, TypeOK
<1>4. CASE RecordPublication(b)
  <2>1. [batches[b] EXCEPT !.status = "published", !.pr = TRUE, !.refresh = FALSE] \in BatchRecord
    BY <1>r, BatchUpdate DEF AnyBatchStatus, BatchStatus
  <2>2. tasks' \in [Task -> TaskRecord]
    BY <1>4, <1>r, <1>t DEF RecordPublication, TaskStatus
  <2> QED
    BY <1>4, <2>1, <2>2 DEF RecordPublication, TypeOK
<1>5. CASE MarkMerged(b)
  <2>1. [batches[b] EXCEPT !.status = "merged"] \in BatchRecord
    BY <1>r, BatchUpdate DEF AnyBatchStatus, BatchStatus
  <2>2. tasks' \in [Task -> TaskRecord]
    BY <1>5, <1>r, <1>t DEF MarkMerged, TaskStatus
  <2> QED
    BY <1>5, <2>1, <2>2 DEF MarkMerged, TypeOK
<1>6. CASE CloseBatch(b)
  <2>1. tasks' \in [Task -> TaskRecord]
    BY <1>6, <1>r, <1>t DEF CloseBatch, TaskStatus
  <2> QED
    BY <1>6, <2>1, <1>b DEF CloseBatch, TypeOK, BatchStatus
<1>7. CASE FailInvariant(b)
  <2>1. tasks' \in [Task -> TaskRecord]
    BY <1>7, <1>r, <1>t DEF FailInvariant, TaskStatus
  <2> QED
    BY <1>7, <2>1, <1>b DEF FailInvariant, TypeOK, BatchStatus
<1>9. CASE DeleteSuperseded(b)
  BY <1>9 DEF DeleteSuperseded, TypeOK
<1>8. CASE RefreshBatch(b)
  <2>1. Superseded(b) \in BatchRecord
    BY <1>r, BatchUpdate DEF Superseded, AnyBatchStatus, BatchStatus
  <2>2. tasks' \in [Task -> TaskRecord]
    BY <1>8, <1>r, <1>t DEF RefreshBatch, TaskStatus
  <2> QED
    BY <1>8, <2>1, <2>2 DEF RefreshBatch, TypeOK
<1> QED
  BY <1>1, <1>2, <1>3, <1>4, <1>5, <1>6, <1>7, <1>8, <1>9 DEF BatchCommand

LEMMA NextTypeOK ==
  ASSUME TypeOK, WorksOnBatch, [Next]_vars
  PROVE  TypeOK'
<1>1. CASE \E t \in Task : TaskCommand(t)
  BY <1>1, TaskCommandTypeOK
<1>2. CASE Prune
  BY <1>2, PruneTypeOK
<1>3. CASE Integrate
  BY <1>3, IntegrateTypeOK
<1>4. CASE StopIntegration
  BY <1>4, StopTypeOK
<1>5. CASE \E b \in Batch : BatchCommand(b)
  BY <1>5, BatchCommandTypeOK
<1>6. CASE UNCHANGED vars
  BY <1>6 DEF vars, TypeOK
<1> QED
  BY <1>1, <1>2, <1>3, <1>4, <1>5, <1>6 DEF Next

LEMMA NextWorksOnBatch ==
  ASSUME TypeOK, WorksOnBatch, [Next]_vars
  PROVE  WorksOnBatch'
<1>1. CASE UNCHANGED integ
  BY <1>1 DEF WorksOnBatch
<1>2. CASE integ' = Idle
  BY <1>2 DEF WorksOnBatch, Idle
<1>3. CASE Plan
  BY <1>3 DEF Plan, WorksOnBatch
<1>4. CASE \/ RecoverCleanup \/ RecoverRequeue \/ StartBatch \/ VerifyDryRun
           \/ RecordBranchName \/ CreateBranch \/ Prepare \/ Abort
  BY <1>4 DEF WorksOnBatch, TypeOK, Integrator, RecoverCleanup, RecoverRequeue, StartBatch,
              VerifyDryRun, RecordBranchName, CreateBranch, Prepare, Abort
<1>5. UNCHANGED integ \/ integ' = Idle \/ Plan \/
        (\/ RecoverCleanup \/ RecoverRequeue \/ StartBatch \/ VerifyDryRun
         \/ RecordBranchName \/ CreateBranch \/ Prepare \/ Abort)
  BY DEF Next, vars, TaskCommand, RegisterTask, ClaimTask, ExpireLease, ReleaseTask, SubmitTask,
         RetryTask, CancelTask, Prune, Integrate, Unlock, RefuseStart, FinishIntegration,
         FailBatch, FailUnrecorded, StopIntegration, BatchCommand, RequireRefresh, PushBatch,
         DropPublication, RecordPublication, MarkMerged, CloseBatch, FailInvariant, DeleteSuperseded,
         RefreshBatch
<1> QED
  BY <1>1, <1>2, <1>3, <1>4, <1>5

\* The state has the types its declarations promise.  [types.ts TaskRecord, BatchRecord]
THEOREM TypeCorrect == Spec => []TypeOK
<1>1. Init => TypeOK /\ WorksOnBatch
  BY InitTypeOK DEF Init, Idle, WorksOnBatch
<1>2. (TypeOK /\ WorksOnBatch) /\ [Next]_vars => (TypeOK /\ WorksOnBatch)'
  BY NextTypeOK, NextWorksOnBatch
<1> QED
  BY <1>1, <1>2, PTL DEF Spec

-----------------------------------------------------------------------------
(* No crash strands a task: IntegratingInRunningBatch.  By itself it is    *)
(* not inductive: a failing or recovering process must reach every         *)
(* integrating task, so no batch but its own may be running.               *)

IInv ==
    /\ TypeOK
    /\ WorksOnBatch
    /\ IntegratingInRunningBatch
    /\ RunningIsIntegrated

\* No task starts integrating, and one that keeps doing so keeps its batch as it is.
KeepsIntegrating ==
    \A t \in Task : tasks'[t].status = "integrating" =>
        /\ tasks[t].status = "integrating"
        /\ tasks'[t].batch = tasks[t].batch
        /\ batches'[tasks[t].batch].status = batches[tasks[t].batch].status
        /\ batches'[tasks[t].batch].tasks = batches[tasks[t].batch].tasks

\* No batch starts running, and one that keeps running keeps its tasks.
KeepsRunning ==
    \A b \in Batch : batches'[b].status = "running" =>
        /\ batches[b].status = "running"
        /\ batches'[b].tasks = batches[b].tasks

LEMMA IntegratingKept ==
  ASSUME IInv, KeepsIntegrating
  PROVE  IntegratingInRunningBatch'
  BY DEF IInv, KeepsIntegrating, IntegratingInRunningBatch, Running

LEMMA RunningKept ==
  ASSUME IInv, KeepsRunning, UNCHANGED integ
  PROVE  RunningIsIntegrated'
  BY DEF IInv, KeepsRunning, RunningIsIntegrated, Running

\* Commands of workers and the owner touch no batch and start no integration.
LEMMA TaskCommandKeeps ==
  ASSUME TypeOK, NEW t \in Task, TaskCommand(t)
  PROVE  KeepsIntegrating /\ KeepsRunning
<1>1. UNCHANGED batches
  BY DEF TaskCommand, RegisterTask, ClaimTask, ExpireLease, ReleaseTask, SubmitTask, RetryTask,
         CancelTask
<1>2. \A u \in Task \ {t} : tasks'[u] = tasks[u]
  BY DEF TypeOK, TaskCommand, RegisterTask, ClaimTask, ExpireLease, ReleaseTask, SubmitTask,
         RetryTask, CancelTask
<1>3. tasks'[t].status = "integrating" =>
        tasks[t].status = "integrating" /\ tasks'[t].batch = tasks[t].batch
  BY DEF TypeOK, TaskRecord, TaskCommand, RegisterTask, ClaimTask, ExpireLease, ReleaseTask,
         SubmitTask, RetryTask, CancelTask
<1> QED
  BY <1>1, <1>2, <1>3 DEF KeepsIntegrating, KeepsRunning

LEMMA PruneKeeps ==
  ASSUME TypeOK, IntegratingInRunningBatch, Prune
  PROVE  KeepsIntegrating /\ KeepsRunning
<1>1. \A b \in Batch : batches'[b] = batches[b] \/
        (batches'[b].status = "pruned" /\ batches[b].status # "running")
  BY NewRecords DEF Prune, PruneSelection, GoneBatches, PrunableBatch, TypeOK, UnusedBatch
<1>2. \A t \in Task : tasks'[t] = tasks[t] \/ tasks'[t].status = "absent"
  BY DEF Prune, TypeOK, NoTask
<1> QED
  BY <1>1, <1>2 DEF KeepsIntegrating, KeepsRunning, IntegratingInRunningBatch, Running

\* A batch command writes one batch, which does not run afterwards, and starts no
\* integration; if the batch ran, its tasks no longer integrate either.
LEMMA BatchCommandKeeps ==
  ASSUME TypeOK, IntegratingInRunningBatch, NEW b \in Batch, BatchCommand(b)
  PROVE  KeepsIntegrating /\ KeepsRunning
<1>1. \A c \in Batch \ {b} : batches'[c] = batches[c]
  BY DEF TypeOK, BatchCommand, RequireRefresh, PushBatch, DropPublication, RecordPublication,
         MarkMerged, CloseBatch, FailInvariant, DeleteSuperseded, RefreshBatch
<1> DEFINE BatchStops == batches'[b] = batches[b] \/ batches'[b].status # "running"
           NoneStarts == \A t \in Task : tasks'[t] = tasks[t] \/ tasks'[t].status # "integrating"
           TasksLeave == \/ batches'[b] = batches[b]
                         \/ batches[b].status # "running"
                         \/ \A t \in batches[b].tasks : tasks'[t].status # "integrating"
<1> SUFFICES BatchStops /\ NoneStarts /\ TasksLeave
  BY <1>1 DEF KeepsIntegrating, KeepsRunning, IntegratingInRunningBatch, Running
<1>r. batches[b] \in BatchRecord /\ batches[b].tasks \subseteq Task
  BY DEF TypeOK, BatchRecord
<1>t. \A t \in Task, s \in TaskStatus :
        /\ [tasks[t] EXCEPT !.status = s].status = s
        /\ [tasks[t] EXCEPT !.status = s, !.batch = NoBatch].status = s
  BY DEF TypeOK, TaskRecord
<1>2. CASE RequireRefresh(b)
  BY <1>2, <1>r DEF RequireRefresh, TypeOK, BatchRecord, Outstanding
<1>3. CASE PushBatch(b) \/ DropPublication(b) \/ DeleteSuperseded(b)
  BY <1>3 DEF PushBatch, DropPublication, DeleteSuperseded
<1>4. CASE RecordPublication(b)
  <2>1. BatchStops
    BY <1>4, <1>r DEF RecordPublication, TypeOK, BatchRecord
  <2>2. NoneStarts /\ TasksLeave
    BY <1>4, <1>r, <1>t DEF RecordPublication, TaskStatus
  <2> QED
    BY <2>1, <2>2
<1>5. CASE MarkMerged(b)
  <2>1. BatchStops
    BY <1>5, <1>r DEF MarkMerged, TypeOK, BatchRecord
  <2>2. NoneStarts /\ TasksLeave
    BY <1>5, <1>r, <1>t DEF MarkMerged, TaskStatus
  <2> QED
    BY <2>1, <2>2
<1>6. CASE CloseBatch(b)
  <2>1. BatchStops
    BY <1>6, <1>r DEF CloseBatch, TypeOK, BatchRecord
  <2>2. NoneStarts /\ TasksLeave
    BY <1>6, <1>r, <1>t DEF CloseBatch, Outstanding, TaskStatus
  <2> QED
    BY <2>1, <2>2
<1>7. CASE FailInvariant(b)
  <2>1. BatchStops
    BY <1>7, <1>r DEF FailInvariant, TypeOK, BatchRecord
  <2>2. NoneStarts /\ TasksLeave
    BY <1>7, <1>r, <1>t DEF FailInvariant, TaskStatus
  <2> QED
    BY <2>1, <2>2
<1>8. CASE RefreshBatch(b)
  <2>1. BatchStops
    BY <1>8, <1>r DEF RefreshBatch, Superseded, TypeOK, BatchRecord
  <2>2. NoneStarts /\ TasksLeave
    BY <1>8, <1>r, <1>t DEF RefreshBatch, Outstanding, TaskStatus
  <2> QED
    BY <2>1, <2>2
<1> QED
  BY <1>2, <1>3, <1>4, <1>5, <1>6, <1>7, <1>8 DEF BatchCommand

\* The steps of the lock holder that only read the state, or only touch Git.
LEMMA QuietStepKeeps ==
  ASSUME IInv, UNCHANGED <<tasks, batches>>, integ' = Idle \/ RecoverCleanup \/ CreateBranch \/ Abort
  PROVE  IntegratingInRunningBatch' /\ RunningIsIntegrated'
<1>1. IntegratingInRunningBatch'
  BY DEF IInv, IntegratingInRunningBatch, Running
<1>2. CASE integ' = Idle
  BY <1>1, <1>2 DEF RunningIsIntegrated, Idle
<1>3. CASE RecoverCleanup \/ CreateBranch \/ Abort
  BY <1>1, <1>3 DEF IInv, TypeOK, Integrator, RunningIsIntegrated, Running, RecoverCleanup,
                    CreateBranch, Abort
<1> QED
  BY <1>2, <1>3

\* Recovery fails every running batch and requeues every task of one.
LEMMA RecoverRequeueKeeps ==
  ASSUME IInv, RecoverRequeue
  PROVE  IntegratingInRunningBatch' /\ RunningIsIntegrated'
<1>1. Running' = {}
  BY DEF IInv, TypeOK, BatchRecord, RecoverRequeue, Running, Abandoned
<1>2. ASSUME NEW t \in Task
      PROVE  tasks'[t].status # "integrating"
  <2>1. CASE tasks[t].status = "integrating"
    BY <2>1 DEF IInv, TypeOK, TaskRecord, IntegratingInRunningBatch, RecoverRequeue, Stranded,
                Abandoned
  <2>2. CASE tasks[t].status # "integrating"
    BY <2>2 DEF RecoverRequeue, Stranded
  <2> QED
    BY <2>1, <2>2
<1>3. integ'.pc = "locked"
  BY DEF IInv, TypeOK, Integrator, RecoverRequeue
<1> QED
  BY <1>1, <1>2, <1>3 DEF IntegratingInRunningBatch, RunningIsIntegrated

\* A process plans with no batch running.
LEMMA PlanKeeps ==
  ASSUME IInv, Plan
  PROVE  IntegratingInRunningBatch' /\ RunningIsIntegrated'
<1>1. Running = {}
  BY DEF IInv, Plan, RunningIsIntegrated, Abandoned
<1>2. UNCHANGED <<tasks, batches>> /\ integ'.pc = "planned"
  BY DEF Plan
<1> QED
  BY <1>1, <1>2 DEF IInv, IntegratingInRunningBatch, RunningIsIntegrated, Running

\* Starting a batch makes exactly its tasks integrate.
LEMMA StartBatchKeeps ==
  ASSUME IInv, StartBatch
  PROVE  IntegratingInRunningBatch' /\ RunningIsIntegrated'
<1>1. Running = {} /\ integ.batch \in Batch
  BY DEF IInv, StartBatch, RunningIsIntegrated, WorksOnBatch
<1>2. /\ batches'[integ.batch].status = "running"
      /\ batches'[integ.batch].tasks = integ.plan
      /\ \A b \in Batch \ {integ.batch} : batches'[b] = batches[b]
  BY <1>1 DEF IInv, TypeOK, StartBatch, UnusedBatch
<1>3. Running' = {integ.batch}
  BY <1>1, <1>2 DEF Running
<1>4. integ'.batch = integ.batch /\ integ'.plan = integ.plan /\ integ'.pc = "applying"
  BY DEF IInv, TypeOK, Integrator, StartBatch
<1>5. ASSUME NEW t \in Task, tasks'[t].status = "integrating"
      PROVE  t \in integ.plan /\ tasks'[t].batch = integ.batch
  <2>1. CASE t \in integ.plan
    <3>1. tasks'[t] = [tasks[t] EXCEPT !.status = "integrating", !.batch = integ.batch]
      BY <2>1 DEF StartBatch
    <3>2. tasks[t] \in TaskRecord
      BY DEF IInv, TypeOK
    <3>3. [tasks[t] EXCEPT !.status = "integrating", !.batch = integ.batch].batch = integ.batch
      BY <3>2 DEF TaskRecord
    <3> QED
      BY <2>1, <3>1, <3>3
  <2>2. CASE t \notin integ.plan
    BY <1>1, <1>5, <2>2 DEF IInv, IntegratingInRunningBatch, StartBatch
  <2> QED
    BY <2>1, <2>2
<1> QED
  BY <1>2, <1>3, <1>4, <1>5 DEF IntegratingInRunningBatch, RunningIsIntegrated

\* While a process works on its batch, only tasks of its plan integrate.
LEMMA IntegratingInPlan ==
  ASSUME IInv, integ.pc \notin {"idle", "recovering"}, NEW t \in Task,
         tasks[t].status = "integrating"
  PROVE  t \in integ.plan
  BY DEF IInv, IntegratingInRunningBatch, RunningIsIntegrated

LEMMA RecordBranchNameKeeps ==
  ASSUME IInv, RecordBranchName
  PROVE  IntegratingInRunningBatch' /\ RunningIsIntegrated'
<1>1. \A b \in Batch : /\ batches'[b].status = batches[b].status
                       /\ batches'[b].tasks = batches[b].tasks
  BY DEF IInv, TypeOK, BatchRecord, RecordBranchName
<1>2. UNCHANGED tasks /\ integ' = [integ EXCEPT !.pc = "named"] /\ integ.pc = "applying"
  BY DEF RecordBranchName
<1>3. IntegratingInRunningBatch'
  BY <1>1, <1>2 DEF IInv, IntegratingInRunningBatch, Running
<1>4. RunningIsIntegrated'
  BY <1>1, <1>2 DEF IInv, TypeOK, Integrator, RunningIsIntegrated, Running
<1> QED
  BY <1>3, <1>4

\* The three transactions that end a batch take every task of the plan with them.
LEMMA EndOfBatchKeeps ==
  ASSUME IInv, VerifyDryRun \/ Prepare \/ FailBatch
  PROVE  IntegratingInRunningBatch' /\ RunningIsIntegrated'
<1>1. integ.pc \notin {"idle", "recovering", "locked", "planned"} /\ integ.batch \in Batch
  BY DEF IInv, WorksOnBatch, VerifyDryRun, Prepare, FailBatch
<1>2. /\ batches'[integ.batch].status # "running"
      /\ \A b \in Batch \ {integ.batch} : batches'[b] = batches[b]
  <2>1. CASE VerifyDryRun
    BY <1>1, <2>1 DEF IInv, TypeOK, BatchRecord, VerifyDryRun
  <2>2. CASE Prepare
    BY <1>1, <2>2 DEF IInv, TypeOK, BatchRecord, Prepare
  <2>3. CASE FailBatch
    BY <1>1, <2>3 DEF IInv, TypeOK, FailBatch, UnusedBatch
  <2> QED
    BY <2>1, <2>2, <2>3
<1>3. Running' = {}
  BY <1>1, <1>2 DEF IInv, RunningIsIntegrated, Running
<1>4. ASSUME NEW t \in Task, tasks'[t].status = "integrating"
      PROVE  FALSE
  <2>1. CASE t \in integ.plan
    <3>1. CASE VerifyDryRun
      BY <1>4, <2>1, <3>1 DEF IInv, TypeOK, TaskRecord, VerifyDryRun
    <3>2. CASE Prepare
      BY <1>4, <2>1, <3>2 DEF IInv, TypeOK, TaskRecord, Prepare
    <3>3. CASE FailBatch
      BY <1>4, <2>1, <3>3 DEF IInv, TypeOK, TaskRecord, FailBatch, FailedTask
    <3> QED
      BY <3>1, <3>2, <3>3
  <2>2. CASE t \notin integ.plan
    <3>1. tasks'[t] = tasks[t]
      BY <2>2 DEF VerifyDryRun, Prepare, FailBatch
    <3> QED
      BY <1>1, <1>4, <2>2, <3>1, IntegratingInPlan
  <2> QED
    BY <2>1, <2>2
<1> QED
  BY <1>3, <1>4 DEF IntegratingInRunningBatch, RunningIsIntegrated

LEMMA IInvStep == IInv /\ [Next]_vars => IInv'
<1> SUFFICES ASSUME IInv, [Next]_vars
             PROVE  IntegratingInRunningBatch' /\ RunningIsIntegrated'
  BY NextTypeOK, NextWorksOnBatch DEF IInv
<1>1. CASE \E t \in Task : TaskCommand(t)
  <2>1. KeepsIntegrating /\ KeepsRunning
    BY <1>1, TaskCommandKeeps DEF IInv
  <2>2. UNCHANGED integ
    BY <1>1 DEF TaskCommand, RegisterTask, ClaimTask, ExpireLease, ReleaseTask, SubmitTask,
                RetryTask, CancelTask
  <2> QED
    BY <2>1, <2>2, IntegratingKept, RunningKept
<1>2. CASE Prune
  BY <1>2, PruneKeeps, IntegratingKept, RunningKept DEF IInv, Prune
<1>3. CASE \E b \in Batch : BatchCommand(b)
  <2>1. KeepsIntegrating /\ KeepsRunning
    BY <1>3, BatchCommandKeeps DEF IInv
  <2>2. UNCHANGED integ
    BY <1>3 DEF BatchCommand, RequireRefresh, PushBatch, DropPublication, RecordPublication,
                MarkMerged, CloseBatch, FailInvariant, DeleteSuperseded, RefreshBatch
  <2> QED
    BY <2>1, <2>2, IntegratingKept, RunningKept
<1>4. CASE Unlock \/ RefuseStart \/ FinishIntegration \/ FailUnrecorded \/ StopIntegration
           \/ RecoverCleanup \/ CreateBranch \/ Abort
  <2>1. UNCHANGED <<tasks, batches>>
    BY <1>4 DEF Unlock, RefuseStart, FinishIntegration, FailUnrecorded, StopIntegration,
                RecoverCleanup, CreateBranch, Abort
  <2>2. integ' = Idle \/ RecoverCleanup \/ CreateBranch \/ Abort
    BY <1>4 DEF Unlock, RefuseStart, FinishIntegration, FailUnrecorded, StopIntegration
  <2> QED
    BY <2>1, <2>2, QuietStepKeeps
<1>5. CASE RecoverRequeue
  BY <1>5, RecoverRequeueKeeps
<1>6. CASE Plan
  BY <1>6, PlanKeeps
<1>7. CASE StartBatch
  BY <1>7, StartBatchKeeps
<1>8. CASE RecordBranchName
  BY <1>8, RecordBranchNameKeeps
<1>9. CASE VerifyDryRun \/ Prepare \/ FailBatch
  BY <1>9, EndOfBatchKeeps
<1>10. CASE UNCHANGED vars
  BY <1>10 DEF vars, IInv, IntegratingInRunningBatch, RunningIsIntegrated, Running
<1> QED
  BY <1>1, <1>2, <1>3, <1>4, <1>5, <1>6, <1>7, <1>8, <1>9, <1>10 DEF Next, Integrate

\* A task is `integrating` only inside a running batch that lists it, so the next
\* holder of the integration lock finds it and requeues it, wherever processes
\* stop and whatever operators do.  [broker.ts recoverAbandonedIntegrationsLocked]
THEOREM NoTaskStranded == Spec => [](IntegratingInRunningBatch /\ RunningIsIntegrated)
<1>1. Init => IInv
  BY InitTypeOK, NewRecords
     DEF Init, IInv, WorksOnBatch, IntegratingInRunningBatch, RunningIsIntegrated, Running, Idle,
         NoTask, UnusedBatch
<1>2. IInv => IntegratingInRunningBatch /\ RunningIsIntegrated
  BY DEF IInv
<1> QED
  BY <1>1, <1>2, IInvStep, PTL DEF Spec

-----------------------------------------------------------------------------
(* At most one batch waits to be merged.                                   *)

\* Nobody cuts a batch beside an outstanding one, and sidecars can be written.
Ordinary == "force" \notin Liberty /\ "disk" \notin Liberty

\* A real batch is cut, and carried on, only while none is outstanding; the integrator
\* keeps its batch to itself until it is prepared; what is pushed is outstanding.
CutAlone == integ.pc \in {"planned", "applying", "named", "branched"} /\ ~integ.dry => Outstanding = {}
NamedForReal == integ.pc \in {"named", "branched"} => ~integ.dry
OwnBatch ==
    /\ integ.pc = "planned" => batches[integ.batch].status = "unused"
    /\ integ.pc \in {"applying", "named", "branched", "failing"} =>
         batches[integ.batch].status = "running"
PushedOutstanding == pub \subseteq Outstanding

OInv ==
    /\ TypeOK /\ WorksOnBatch
    /\ OneOutstandingBatch /\ CutAlone /\ NamedForReal /\ OwnBatch /\ PushedOutstanding

\* A step that leaves the integrator alone keeps the facts when no batch becomes
\* outstanding, every pushed one stays so and the integrator's batch is not touched.
LEMMA OInvKept ==
  ASSUME OInv, TypeOK', WorksOnBatch', UNCHANGED integ,
         Outstanding' \subseteq Outstanding, pub' \subseteq Outstanding',
         \A b \in Batch : batches[b].status \in {"unused", "running"} =>
                              batches'[b].status = batches[b].status
  PROVE  OInv'
<1>1. OneOutstandingBatch' /\ CutAlone' /\ NamedForReal' /\ PushedOutstanding'
  BY DEF OInv, OneOutstandingBatch, CutAlone, NamedForReal, PushedOutstanding
<1>2. OwnBatch'
  BY DEF OInv, OwnBatch, WorksOnBatch
<1> QED
  BY <1>1, <1>2 DEF OInv

\* The commands of workers and the owner do not touch batches, except Prune, which
\* retires terminal ones.
LEMMA CommandsKeepOne ==
  ASSUME OInv, TypeOK', WorksOnBatch', (\E t \in Task : TaskCommand(t)) \/ Prune
  PROVE  OInv'
<1>1. CASE \E t \in Task : TaskCommand(t)
  <2>1. UNCHANGED <<batches, integ, pub>>
    BY <1>1 DEF TaskCommand, RegisterTask, ClaimTask, ExpireLease, ReleaseTask, SubmitTask,
                RetryTask, CancelTask
  <2> QED
    BY <2>1, OInvKept DEF Outstanding, OInv, PushedOutstanding
<1>2. CASE Prune
  <2>1. UNCHANGED <<integ, pub>>
    BY <1>2 DEF Prune
  <2>2. \A b \in Batch : \/ batches'[b].status = batches[b].status
                         \/ batches[b].status \in PrunableBatch /\ batches'[b].status = "pruned"
    BY <1>2 DEF Prune, PruneSelection, GoneBatches, UnusedBatch, TypeOK
  <2>3. Outstanding' = Outstanding
    BY <2>2 DEF Outstanding, PrunableBatch
  <2> QED
    BY <2>1, <2>2, <2>3, OInvKept DEF PrunableBatch, OInv, PushedOutstanding
<1> QED
  BY <1>1, <1>2

\* The commands on a batch: they concern one that has been cut, and none but the
\* recording of a publication makes one outstanding that was not.
LEMMA BatchCommandKeepsOne ==
  ASSUME OInv, TypeOK', WorksOnBatch', NEW b \in Batch, BatchCommand(b)
  PROVE  OInv'
<1>0. UNCHANGED integ /\ batches \in [Batch -> BatchRecord]
  BY DEF OInv, TypeOK, BatchCommand, RequireRefresh, PushBatch, DropPublication, RecordPublication,
         MarkMerged, CloseBatch, FailInvariant, DeleteSuperseded, RefreshBatch
<1>1. CASE RequireRefresh(b) \/ PushBatch(b) \/ DropPublication(b) \/ DeleteSuperseded(b)
  <2>1. \A c \in Batch : batches'[c].status = batches[c].status
    BY <1>0, <1>1 DEF RequireRefresh, PushBatch, DropPublication, DeleteSuperseded, BatchRecord
  <2>2. pub' \subseteq pub \cup {b} /\ (b \notin Outstanding => pub' \subseteq pub)
    BY <1>1 DEF RequireRefresh, PushBatch, DropPublication, DeleteSuperseded
  <2>3. Outstanding' = Outstanding
    BY <2>1 DEF Outstanding
  <2> QED
    BY <1>0, <2>1, <2>2, <2>3, OInvKept DEF OInv, PushedOutstanding
<1>2. CASE RecordPublication(b)
  <2>1. b \in Outstanding
    BY <1>2 DEF RecordPublication, OInv, PushedOutstanding
  <2>2. /\ pub' = pub \ {b} /\ batches'[b].status = "published"
        /\ \A c \in Batch \ {b} : batches'[c].status = batches[c].status
    BY <1>0, <1>2 DEF RecordPublication, BatchRecord
  <2>3. Outstanding' = Outstanding
    BY <2>1, <2>2 DEF Outstanding
  <2> QED
    BY <1>0, <2>1, <2>2, <2>3, OInvKept DEF OInv, PushedOutstanding, Outstanding
<1>3. CASE MarkMerged(b) \/ CloseBatch(b) \/ FailInvariant(b) \/ RefreshBatch(b)
  <2>1. /\ b \notin pub /\ pub' = pub
        /\ batches[b].status \notin {"unused", "running"}
        /\ batches'[b].status \in {"merged", "closed", "failed"}
        /\ \A c \in Batch \ {b} : batches'[c].status = batches[c].status
    <3>1. CASE MarkMerged(b)
      BY <1>0, <3>1 DEF MarkMerged, LockFree, Completable, BatchRecord
    <3>2. CASE CloseBatch(b)
      BY <1>0, <3>2 DEF CloseBatch, LockFree, Outstanding, BatchRecord
    <3>3. CASE FailInvariant(b)
      BY <1>0, <3>3 DEF FailInvariant, LockFree, BatchRecord
    <3>4. CASE RefreshBatch(b)
      BY <1>0, <3>4 DEF RefreshBatch, Superseded, LockFree, Outstanding, BatchRecord
    <3> QED
      BY <1>3, <3>1, <3>2, <3>3, <3>4
  <2>2. Outstanding' = Outstanding \ {b}
    BY <2>1 DEF Outstanding
  <2> QED
    BY <1>0, <2>1, <2>2, OInvKept DEF OInv, PushedOutstanding
<1> QED
  BY <1>1, <1>2, <1>3 DEF BatchCommand

\* The holder of the integration lock.
LEMMA IntegratorKeepsOne ==
  ASSUME Ordinary, OInv, TypeOK', WorksOnBatch', Integrate \/ StopIntegration
  PROVE  OInv'
<1>0. /\ batches \in [Batch -> BatchRecord] /\ integ \in Integrator
      /\ UNCHANGED pub
  BY DEF OInv, TypeOK, Integrate, RecoverCleanup, RecoverRequeue, Unlock, Plan, StartBatch,
         RefuseStart, VerifyDryRun, RecordBranchName, CreateBranch, Prepare, FinishIntegration,
         Abort, FailBatch, FailUnrecorded, StopIntegration
<1>u. \A s, S, R : [UnusedBatch EXCEPT !.status = s, !.tasks = S, !.receipt = R].status = s
  BY DEF UnusedBatch
<1>1. CASE UNCHANGED batches /\ integ'.pc \notin {"planned", "applying", "named", "branched", "failing"}
  <2>1. Outstanding' = Outstanding
    BY <1>1 DEF Outstanding
  <2> QED
    BY <1>0, <1>1, <2>1 DEF OInv, OneOutstandingBatch, CutAlone, NamedForReal, OwnBatch, PushedOutstanding
<1>2. CASE RecoverCleanup \/ Unlock \/ RefuseStart \/ FinishIntegration \/ FailUnrecorded \/ StopIntegration
  <2>1. UNCHANGED batches /\ integ'.pc \notin {"planned", "applying", "named", "branched", "failing"}
    BY <1>0, <1>2 DEF RecoverCleanup, Unlock, RefuseStart, FinishIntegration, FailUnrecorded,
                      StopIntegration, Idle, Integrator
  <2> QED
    BY <1>1, <2>1
<1>3. CASE RecoverRequeue
  <2>1. \A b \in Batch : \/ batches'[b].status = batches[b].status
                         \/ batches[b].status = "running" /\ batches'[b].status = "failed"
    BY <1>0, <1>3 DEF RecoverRequeue, Abandoned, Running, BatchRecord
  <2>2. Outstanding' = Outstanding /\ integ'.pc = "locked"
    BY <1>0, <1>3, <2>1 DEF Outstanding, RecoverRequeue, Integrator
  <2> QED
    BY <1>0, <2>2 DEF OInv, OneOutstandingBatch, CutAlone, NamedForReal, OwnBatch, PushedOutstanding
<1>4. CASE Plan
  <2>1. PICK S \in SUBSET Task, b \in Batch, dry \in BOOLEAN :
          /\ MayCut(dry) /\ batches[b].status = "unused"
          /\ integ' = [pc |-> "planned", batch |-> b, plan |-> S, dry |-> dry, culprit |-> {},
                       seen |-> [t \in Task |-> IF t \in S THEN tasks[t].receipt ELSE 0]]
    BY <1>4 DEF Plan
  <2>2. UNCHANGED batches /\ Outstanding' = Outstanding
    BY <1>4 DEF Plan, Outstanding
  <2>3. integ'.pc = "planned" /\ integ'.batch = b /\ (integ'.dry <=> dry)
    BY <2>1
  <2>4. ~integ'.dry => Outstanding = {}
    BY <2>1, <2>3 DEF MayCut, Ordinary
  <2> QED
    BY <1>0, <2>1, <2>2, <2>3, <2>4
    DEF OInv, OneOutstandingBatch, CutAlone, NamedForReal, OwnBatch, PushedOutstanding
<1>5. CASE StartBatch \/ RecordBranchName
  <2>1. /\ integ.batch \in Batch /\ batches[integ.batch].status \in {"unused", "running"}
        /\ integ.pc \in {"planned", "applying"}
    BY <1>5 DEF StartBatch, RecordBranchName, OInv, WorksOnBatch, OwnBatch
  <2>2. /\ batches'[integ.batch].status = "running"
        /\ \A c \in Batch \ {integ.batch} : batches'[c].status = batches[c].status
    <3>1. CASE StartBatch
      BY <1>0, <1>u, <2>1, <3>1 DEF StartBatch
    <3>2. CASE RecordBranchName
      BY <1>0, <2>1, <3>2 DEF RecordBranchName, BatchRecord
    <3> QED
      BY <1>5, <3>1, <3>2
  <2>3. Outstanding' = Outstanding
    BY <2>1, <2>2 DEF Outstanding
  <2>4. /\ integ'.batch = integ.batch /\ integ'.dry = integ.dry
        /\ integ'.pc = "applying" \/ (integ'.pc = "named" /\ ~integ.dry)
    BY <1>0, <1>5 DEF StartBatch, RecordBranchName, Integrator
  <2> QED
    BY <1>0, <2>1, <2>2, <2>3, <2>4
    DEF OInv, OneOutstandingBatch, CutAlone, NamedForReal, OwnBatch, PushedOutstanding
<1>6. CASE CreateBranch \/ Abort
  <2>1. UNCHANGED batches /\ Outstanding' = Outstanding
    BY <1>6 DEF CreateBranch, Abort, Outstanding
  <2>2. /\ integ'.batch = integ.batch /\ integ'.dry = integ.dry
        /\ integ.pc \in {"applying", "named", "branched"}
        /\ \/ integ.pc = "named" /\ integ'.pc = "branched"
           \/ integ'.pc = "failing"
    BY <1>0, <1>6 DEF CreateBranch, Abort, Integrator, Ordinary
  <2> QED
    BY <1>0, <2>1, <2>2
    DEF OInv, OneOutstandingBatch, CutAlone, NamedForReal, OwnBatch, PushedOutstanding
<1>7. CASE VerifyDryRun \/ FailBatch
  <2>1. /\ integ.batch \in Batch /\ batches[integ.batch].status = "running"
    BY <1>7 DEF VerifyDryRun, FailBatch, OInv, WorksOnBatch, OwnBatch
  <2>2. /\ batches'[integ.batch].status \in {"verified", "failed"}
        /\ \A c \in Batch \ {integ.batch} : batches'[c].status = batches[c].status
    <3>1. CASE VerifyDryRun
      BY <1>0, <2>1, <3>1 DEF VerifyDryRun, BatchRecord
    <3>2. CASE FailBatch
      BY <1>0, <1>u, <2>1, <3>2 DEF FailBatch
    <3> QED
      BY <1>7, <3>1, <3>2
  <2>3. Outstanding' = Outstanding
    BY <2>1, <2>2 DEF Outstanding
  <2>4. integ'.pc \in {"verified", "idle"}
    <3>1. CASE VerifyDryRun
      BY <1>0, <3>1 DEF VerifyDryRun, Integrator
    <3>2. CASE FailBatch
      BY <3>2 DEF FailBatch, Idle
    <3> QED
      BY <1>7, <3>1, <3>2
  <2> QED
    BY <1>0, <2>3, <2>4
    DEF OInv, OneOutstandingBatch, CutAlone, NamedForReal, OwnBatch, PushedOutstanding
<1>8. CASE Prepare
  <2>1. integ.batch \in Batch /\ integ.pc = "branched" /\ ~integ.dry
    BY <1>8 DEF Prepare, OInv, WorksOnBatch, NamedForReal
  <2>2. Outstanding = {}
    BY <2>1 DEF OInv, CutAlone
  <2>3. /\ batches'[integ.batch].status = "prepared"
        /\ \A c \in Batch \ {integ.batch} : batches'[c].status = batches[c].status
    BY <1>0, <1>8, <2>1 DEF Prepare, BatchRecord
  <2>4. Outstanding' = {integ.batch} /\ integ'.pc = "prepared"
    BY <1>0, <1>8, <2>1, <2>2, <2>3 DEF Outstanding, Prepare, Integrator
  <2> QED
    BY <1>0, <2>2, <2>4
    DEF OInv, OneOutstandingBatch, CutAlone, NamedForReal, OwnBatch, PushedOutstanding
<1> QED
  BY <1>2, <1>3, <1>4, <1>5, <1>6, <1>7, <1>8 DEF Integrate

LEMMA OInvStep == Ordinary /\ OInv /\ [Next]_vars => OInv'
<1> SUFFICES ASSUME Ordinary, OInv, [Next]_vars
             PROVE  OInv'
  OBVIOUS
<1>1. TypeOK' /\ WorksOnBatch'
  BY NextTypeOK, NextWorksOnBatch DEF OInv
<1>2. CASE Next
  BY <1>1, <1>2, CommandsKeepOne, BatchCommandKeepsOne, IntegratorKeepsOne DEF Next
<1>3. CASE UNCHANGED vars
  BY <1>1, <1>3 DEF vars, OInv, OneOutstandingBatch, CutAlone, NamedForReal, OwnBatch,
                    PushedOutstanding, Outstanding
<1> QED
  BY <1>2, <1>3

\* Batches merge one at a time: unless an operator forces a second one, or a manifest
\* cannot be written, at most one is outstanding, whatever else interleaves.
\* [broker.ts integrateForTarget, "One batch in flight at a time"]
THEOREM OneBatchInFlight == ASSUME Ordinary PROVE Spec => []OneOutstandingBatch
<1>1. Init => OInv
  BY InitTypeOK, NewRecords
     DEF Init, OInv, WorksOnBatch, OneOutstandingBatch, CutAlone, NamedForReal, OwnBatch,
         PushedOutstanding, Outstanding, Idle, UnusedBatch
<1>2. OInv => OneOutstandingBatch
  BY DEF OInv
<1> QED
  BY <1>1, <1>2, Ordinary, OInvStep, PTL DEF Spec

-----------------------------------------------------------------------------
(* A branch in Git is named by its batch's record.  The failing path       *)
(* clears the record, and a batch that is started writes it anew; neither  *)
(* batch has a branch then, because the process that works on a batch      *)
(* keeps its record as it is from its plan until it ends.                  *)

\* The record that each step of the integrator finds.
OwnRecord ==
    /\ integ.pc = "planned" => batches[integ.batch].status = "unused"
    /\ integ.pc \in {"applying", "named", "branched"} => batches[integ.batch].status = "running"
    /\ integ.pc \in {"named", "branched"} => batches[integ.batch].named
    /\ integ.pc = "failing" /\ integ.culprit # {} => batches[integ.batch].status = "running"

\* Before its branch is created, and once it is deleted, the batch has none.
NotBranched ==
    integ.pc \in {"planned", "applying", "named", "verified", "failing"} =>
        integ.batch \notin branches

\* Branches are of batches that have been cut, publications of those that were prepared.
BranchesCut == \A b \in branches : batches[b].status # "unused"
PushedCut == \A b \in pub : batches[b].status \notin {"unused", "running"}

BranchFacts == OwnRecord /\ NotBranched /\ BranchesCut /\ PushedCut /\ BranchIsNamed

BranchInv == TypeOK /\ WorksOnBatch /\ BranchFacts

\* A batch that is not cut yet, or that its integrator still works on, is left alone by
\* everybody else, and nobody else makes one such.
LeavesAlone ==
    /\ UNCHANGED integ
    /\ \A b \in Batch : batches[b].status \in {"unused", "running"} => batches'[b] = batches[b]
    /\ \A b \in Batch : batches[b].status \notin {"unused", "running"} =>
                            batches'[b].status \notin {"unused", "running"}

\* No branch comes about, and a record that is there names what it named; what is
\* pushed was prepared.
KeepsBranches ==
    /\ branches' \subseteq branches
    /\ \A b \in branches' : Recorded(b)' => Recorded(b) /\ batches'[b].named = batches[b].named
    /\ \A b \in pub' \ pub : batches[b].status \notin {"unused", "running"}

LEMMA BranchKept ==
  ASSUME BranchInv, LeavesAlone, KeepsBranches, TypeOK'
  PROVE  BranchFacts'
<1>i. /\ integ' = integ /\ branches \subseteq Batch /\ pub' \subseteq Batch
      /\ integ.pc \notin {"idle", "recovering", "locked"} => integ.batch \in Batch
  BY DEF BranchInv, TypeOK, WorksOnBatch, LeavesAlone
<1>1. OwnRecord'
  BY <1>i DEF BranchInv, BranchFacts, OwnRecord, LeavesAlone
<1>2. NotBranched'
  BY <1>i DEF BranchInv, BranchFacts, NotBranched, KeepsBranches
<1>3. BranchesCut' /\ PushedCut'
  BY <1>i DEF BranchInv, BranchFacts, BranchesCut, PushedCut, KeepsBranches, LeavesAlone
<1>4. BranchIsNamed'
  BY <1>i DEF BranchInv, BranchFacts, BranchIsNamed, KeepsBranches
<1> QED
  BY <1>1, <1>2, <1>3, <1>4 DEF BranchFacts

\* The commands of workers and the owner.
LEMMA CommandsLeaveAlone ==
  ASSUME BranchInv, (\E t \in Task : TaskCommand(t)) \/ Prune
  PROVE  LeavesAlone /\ KeepsBranches
<1>1. CASE \E t \in Task : TaskCommand(t)
  <2>1. UNCHANGED <<batches, integ, branches, pub>>
    BY <1>1 DEF TaskCommand, RegisterTask, ClaimTask, ExpireLease, ReleaseTask, SubmitTask,
                RetryTask, CancelTask
  <2> QED
    BY <2>1 DEF LeavesAlone, KeepsBranches, Recorded
<1>2. CASE Prune
  <2>1. UNCHANGED <<integ, branches, pub>>
    BY <1>2 DEF Prune
  <2>2. \A b \in Batch : \/ batches'[b] = batches[b]
                         \/ batches[b].status \in PrunableBatch /\ batches'[b].status = "pruned"
    BY <1>2 DEF Prune, PruneSelection, GoneBatches, UnusedBatch, BranchInv, TypeOK
  <2> QED
    BY <2>1, <2>2 DEF LeavesAlone, KeepsBranches, Recorded, PrunableBatch, BranchInv, TypeOK
<1> QED
  BY <1>1, <1>2

\* What a command on batch b writes to its record.
LEMMA BatchWrites ==
  ASSUME TypeOK, NEW b \in Batch, BatchCommand(b)
  PROVE  /\ UNCHANGED <<integ, crashes>>
         /\ \A c \in Batch \ {b} : batches'[c] = batches[c]
         /\ RequireRefresh(b) =>
              /\ batches'[b].status = batches[b].status /\ batches'[b].named = batches[b].named
              /\ batches'[b].tasks = batches[b].tasks /\ batches'[b].receipt = batches[b].receipt
         /\ RecordPublication(b) =>
              /\ batches'[b].status = "published" /\ batches'[b].named = batches[b].named
              /\ batches'[b].tasks = batches[b].tasks /\ batches'[b].receipt = batches[b].receipt
         /\ MarkMerged(b) => batches'[b].status = "merged" /\ batches'[b].named = batches[b].named
         /\ CloseBatch(b) => batches'[b].status = "closed" /\ batches'[b].named = batches[b].named
         /\ FailInvariant(b) => batches'[b].status = "failed" /\ batches'[b].named = batches[b].named
         /\ RefreshBatch(b) => batches'[b].status = "closed"
<1>r. batches[b] \in BatchRecord /\ batches \in [Batch -> BatchRecord]
  BY DEF TypeOK
<1>1. UNCHANGED <<integ, crashes>> /\ \A c \in Batch \ {b} : batches'[c] = batches[c]
  BY <1>r DEF BatchCommand, RequireRefresh, PushBatch, DropPublication, RecordPublication,
         MarkMerged, CloseBatch, FailInvariant, DeleteSuperseded, RefreshBatch
<1>2. RequireRefresh(b) =>
        /\ batches'[b].status = batches[b].status /\ batches'[b].named = batches[b].named
        /\ batches'[b].tasks = batches[b].tasks /\ batches'[b].receipt = batches[b].receipt
  BY <1>r DEF RequireRefresh, BatchRecord
<1>3. RecordPublication(b) =>
        /\ batches'[b].status = "published" /\ batches'[b].named = batches[b].named
        /\ batches'[b].tasks = batches[b].tasks /\ batches'[b].receipt = batches[b].receipt
  BY <1>r DEF RecordPublication, BatchRecord
<1>4. MarkMerged(b) => batches'[b].status = "merged" /\ batches'[b].named = batches[b].named
  BY <1>r DEF MarkMerged, BatchRecord
<1>5. CloseBatch(b) => batches'[b].status = "closed" /\ batches'[b].named = batches[b].named
  <2> SUFFICES ASSUME batches' = [batches EXCEPT ![b].status = "closed", ![b].refresh = FALSE]
               PROVE  batches'[b].status = "closed" /\ batches'[b].named = batches[b].named
    BY DEF CloseBatch
  <2> QED
    BY <1>r DEF BatchRecord
<1>6. FailInvariant(b) => batches'[b].status = "failed" /\ batches'[b].named = batches[b].named
  BY <1>r DEF FailInvariant, BatchRecord
<1>7. RefreshBatch(b) => batches'[b].status = "closed"
  <2> SUFFICES ASSUME batches' = [batches EXCEPT ![b] = Superseded(b)]
               PROVE  batches'[b].status = "closed"
    BY DEF RefreshBatch
  <2> QED
    BY <1>r DEF Superseded, BatchRecord
<1> QED
  BY <1>1, <1>2, <1>3, <1>4, <1>5, <1>6, <1>7

\* The commands on a batch concern one that its integrator is done with.
LEMMA BatchCommandLeavesAlone ==
  ASSUME BranchInv, NEW b \in Batch, BatchCommand(b)
  PROVE  LeavesAlone /\ KeepsBranches
<1>t. TypeOK /\ PushedCut /\ branches \subseteq Batch
  BY DEF BranchInv, BranchFacts, TypeOK
<1>0. UNCHANGED integ /\ \A c \in Batch \ {b} : batches'[c] = batches[c]
  BY <1>t, BatchWrites
<1> DEFINE Cut == batches[b].status \notin {"unused", "running"}
<1>1. CASE PushBatch(b) \/ DropPublication(b) \/ DeleteSuperseded(b)
  <2>1. UNCHANGED batches /\ branches' \subseteq branches
    BY <1>1 DEF PushBatch, DropPublication, DeleteSuperseded
  <2>2. pub' \subseteq pub \/ (pub' \subseteq pub \cup {b} /\ Cut)
    BY <1>1 DEF PushBatch, DropPublication, DeleteSuperseded, Outstanding
  <2> QED
    BY <1>0, <2>1, <2>2 DEF LeavesAlone, KeepsBranches, Recorded
<1>2. CASE RequireRefresh(b) \/ RecordPublication(b) \/ MarkMerged(b) \/ CloseBatch(b) \/ FailInvariant(b)
  <2>1. UNCHANGED branches /\ pub' \subseteq pub
    BY <1>2 DEF RequireRefresh, RecordPublication, MarkMerged, CloseBatch, FailInvariant
  <2>2. Cut /\ Recorded(b)
    BY <1>2, <1>t DEF PushedCut, Recorded, RequireRefresh, RecordPublication, MarkMerged, CloseBatch, FailInvariant,
                Outstanding, Completable
  <2>3. /\ batches'[b].status \in {batches[b].status, "published", "merged", "closed", "failed"}
        /\ batches'[b].named = batches[b].named
    BY <1>2, <1>t, BatchWrites
  <2> QED
    BY <1>0, <1>t, <2>1, <2>2, <2>3 DEF LeavesAlone, KeepsBranches, Recorded
<1>3. CASE RefreshBatch(b)
  <2>1. UNCHANGED <<branches, pub>> /\ b \notin branches /\ Cut
    BY <1>3 DEF RefreshBatch, Outstanding
  <2>2. batches'[b].status = "closed"
    BY <1>3, <1>t, BatchWrites
  <2> QED
    BY <1>0, <1>t, <2>1, <2>2 DEF LeavesAlone, KeepsBranches, Recorded
<1> QED
  BY <1>1, <1>2, <1>3 DEF BatchCommand

\* What the steps of the integrator do to the record of its batch, and to its variables.
LEMMA IntegratorWrites ==
  ASSUME TypeOK, WorksOnBatch, Integrate
  PROVE  /\ UNCHANGED <<pub, crashes>>
         /\ integ.pc \notin {"idle", "recovering", "locked"} => integ.batch \in Batch
         /\ ~RecoverRequeue => \A c \in Batch \ {integ.batch} : batches'[c] = batches[c]
         /\ StartBatch =>
              /\ batches'[integ.batch].status = "running"
              /\ batches'[integ.batch].tasks = integ.plan
              /\ batches'[integ.batch].receipt = integ.seen
         /\ VerifyDryRun => batches'[integ.batch].status = "verified"
         /\ RecordBranchName =>
              /\ batches'[integ.batch].status = batches[integ.batch].status
              /\ batches'[integ.batch].tasks = batches[integ.batch].tasks
              /\ batches'[integ.batch].receipt = batches[integ.batch].receipt
              /\ batches'[integ.batch].named
         /\ Prepare =>
              /\ batches'[integ.batch].status = "prepared"
              /\ batches'[integ.batch].tasks = batches[integ.batch].tasks
              /\ batches'[integ.batch].receipt = batches[integ.batch].receipt
              /\ batches'[integ.batch].named = batches[integ.batch].named
         /\ FailBatch => batches'[integ.batch].status = "failed"
<1>t. /\ batches \in [Batch -> BatchRecord] /\ integ \in Integrator
      /\ \A b \in Batch : batches[b] \in BatchRecord
  BY DEF TypeOK
<1>w. integ.pc \notin {"idle", "recovering", "locked"} => integ.batch \in Batch
  BY DEF WorksOnBatch
<1>0. UNCHANGED <<pub, crashes>>
  BY DEF Integrate, RecoverCleanup, RecoverRequeue, Unlock, Plan, StartBatch, RefuseStart,
         VerifyDryRun, RecordBranchName, CreateBranch, Prepare, FinishIntegration, Abort,
         FailBatch, FailUnrecorded
<1>1. ~RecoverRequeue => \A c \in Batch \ {integ.batch} : batches'[c] = batches[c]
  BY <1>t DEF Integrate, RecoverCleanup, Unlock, Plan, StartBatch, RefuseStart,
         VerifyDryRun, RecordBranchName, CreateBranch, Prepare, FinishIntegration, Abort,
         FailBatch, FailUnrecorded
<1>2. StartBatch =>
        /\ batches'[integ.batch].status = "running"
        /\ batches'[integ.batch].tasks = integ.plan
        /\ batches'[integ.batch].receipt = integ.seen
  BY <1>t, <1>w DEF StartBatch, UnusedBatch
<1>3. VerifyDryRun => batches'[integ.batch].status = "verified"
  <2> SUFFICES ASSUME integ.batch \in Batch, batches' = [batches EXCEPT ![integ.batch].status = "verified"]
               PROVE  batches'[integ.batch].status = "verified"
    BY <1>w DEF VerifyDryRun
  <2> QED
    BY <1>t DEF BatchRecord
<1>4. RecordBranchName =>
        /\ batches'[integ.batch].status = batches[integ.batch].status
        /\ batches'[integ.batch].tasks = batches[integ.batch].tasks
        /\ batches'[integ.batch].receipt = batches[integ.batch].receipt
        /\ batches'[integ.batch].named
  BY <1>t, <1>w DEF RecordBranchName, BatchRecord
<1>5. Prepare =>
        /\ batches'[integ.batch].status = "prepared"
        /\ batches'[integ.batch].tasks = batches[integ.batch].tasks
        /\ batches'[integ.batch].receipt = batches[integ.batch].receipt
        /\ batches'[integ.batch].named = batches[integ.batch].named
  <2>1. Prepare => integ.batch \in Batch /\ batches' = [batches EXCEPT ![integ.batch].status = "prepared"]
    BY <1>w DEF Prepare
  <2> QED
    BY <1>t, <2>1 DEF BatchRecord
<1>6. FailBatch => batches'[integ.batch].status = "failed"
  BY <1>t, <1>w DEF FailBatch, UnusedBatch
<1> QED
  BY <1>w, <1>0, <1>1, <1>2, <1>3, <1>4, <1>5, <1>6

\* Recovery fails running batches.
LEMMA RequeueWrites ==
  ASSUME TypeOK, RecoverRequeue
  PROVE  \A b \in Batch : /\ batches'[b].status = IF b \in Running THEN "failed" ELSE batches[b].status
                          /\ batches'[b].named = batches[b].named
                          /\ b \notin Running => batches'[b] = batches[b]
<1>1. \A b \in Batch : batches[b] \in BatchRecord
  BY DEF TypeOK
<1>2. \A b \in Batch : batches'[b] = IF b \in Running THEN [batches[b] EXCEPT !.status = "failed"]
                                                  ELSE batches[b]
  BY DEF RecoverRequeue, Abandoned
<1>3. \A b \in Batch : /\ [batches[b] EXCEPT !.status = "failed"].status = "failed"
                       /\ [batches[b] EXCEPT !.status = "failed"].named = batches[b].named
  BY <1>1 DEF BatchRecord
<1> QED
  BY <1>2, <1>3

\* Where the integrator goes, and what it takes along.
LEMMA IntegratorGoes ==
  ASSUME TypeOK, Integrate
  PROVE  /\ RecoverCleanup => integ'.pc = "recovering"
         /\ RecoverRequeue => integ'.pc = "locked"
         /\ Unlock \/ RefuseStart \/ FinishIntegration \/ FailBatch \/ FailUnrecorded => integ' = Idle
         /\ \/ StartBatch /\ integ'.pc = "applying"
            \/ VerifyDryRun /\ integ'.pc = "verified"
            \/ RecordBranchName /\ integ'.pc = "named"
            \/ CreateBranch /\ integ'.pc = "branched"
            \/ Prepare /\ integ'.pc = "prepared"
            => /\ integ'.batch = integ.batch /\ integ'.plan = integ.plan /\ integ'.seen = integ.seen
               /\ integ'.culprit = integ.culprit /\ integ'.dry = integ.dry
         /\ StartBatch => integ'.pc = "applying"
         /\ VerifyDryRun => integ'.pc = "verified"
         /\ RecordBranchName => integ'.pc = "named"
         /\ CreateBranch => integ'.pc = "branched"
         /\ Prepare => integ'.pc = "prepared"
         /\ Abort =>
              /\ integ'.pc = "failing"
              /\ integ'.batch = integ.batch /\ integ'.plan = integ.plan
              /\ integ'.seen = integ.seen /\ integ'.dry = integ.dry
              /\ integ'.culprit # {} => integ.pc = "applying" /\ integ'.culprit \subseteq integ.plan
<1>t. integ \in Integrator
  BY DEF TypeOK
<1> DEFINE Takes == /\ integ'.batch = integ.batch /\ integ'.plan = integ.plan /\ integ'.seen = integ.seen
                    /\ integ'.culprit = integ.culprit /\ integ'.dry = integ.dry
<1>1. ASSUME NEW pc, integ' = [integ EXCEPT !.pc = pc]
      PROVE  integ'.pc = pc /\ Takes
  BY <1>t, <1>1 DEF Integrator
<1> HIDE DEF Takes
<1>2. (RecoverCleanup => integ'.pc = "recovering") /\ (RecoverRequeue => integ'.pc = "locked")
  <2>1. RecoverCleanup => integ' = [integ EXCEPT !.pc = "recovering"]
    BY DEF RecoverCleanup
  <2>2. RecoverRequeue => integ' = [integ EXCEPT !.pc = "locked"]
    BY DEF RecoverRequeue
  <2> QED
    BY <1>1, <2>1, <2>2
<1>3. Unlock \/ RefuseStart \/ FinishIntegration \/ FailBatch \/ FailUnrecorded => integ' = Idle
  BY DEF Unlock, RefuseStart, FinishIntegration, FailBatch, FailUnrecorded
<1>4. StartBatch => integ'.pc = "applying" /\ Takes
  <2>1. StartBatch => integ' = [integ EXCEPT !.pc = "applying"]
    BY DEF StartBatch
  <2> QED
    BY <1>1, <2>1
<1>5. VerifyDryRun => integ'.pc = "verified" /\ Takes
  <2>1. VerifyDryRun => integ' = [integ EXCEPT !.pc = "verified"]
    BY DEF VerifyDryRun
  <2> QED
    BY <1>1, <2>1
<1>6. RecordBranchName => integ'.pc = "named" /\ Takes
  <2>1. RecordBranchName => integ' = [integ EXCEPT !.pc = "named"]
    BY DEF RecordBranchName
  <2> QED
    BY <1>1, <2>1
<1>7. CreateBranch => integ'.pc = "branched" /\ Takes
  <2>1. CreateBranch => integ' = [integ EXCEPT !.pc = "branched"]
    BY DEF CreateBranch
  <2> QED
    BY <1>1, <2>1
<1>8. Prepare => integ'.pc = "prepared" /\ Takes
  <2>1. Prepare => integ' = [integ EXCEPT !.pc = "prepared"]
    BY DEF Prepare
  <2> QED
    BY <1>1, <2>1
<1>9. ASSUME Abort
      PROVE  /\ integ'.pc = "failing"
             /\ integ'.batch = integ.batch /\ integ'.plan = integ.plan
             /\ integ'.seen = integ.seen /\ integ'.dry = integ.dry
             /\ integ'.culprit # {} => integ.pc = "applying" /\ integ'.culprit \subseteq integ.plan
  <2>1. PICK c \in {{}} \cup (IF integ.pc = "applying" THEN {{t} : t \in integ.plan} ELSE {}) :
          integ' = [integ EXCEPT !.pc = "failing", !.culprit = c]
    BY <1>9 DEF Abort
  <2>2. /\ integ'.pc = "failing" /\ integ'.culprit = c
        /\ integ'.batch = integ.batch /\ integ'.plan = integ.plan
        /\ integ'.seen = integ.seen /\ integ'.dry = integ.dry
    BY <1>t, <2>1 DEF Integrator
  <2>3. c # {} => integ.pc = "applying" /\ c \subseteq integ.plan
    BY <2>1
  <2> QED
    BY <2>2, <2>3
<1> QED
  BY <1>2, <1>3, <1>4, <1>5, <1>6, <1>7, <1>8, <1>9 DEF Takes

LEMMA IntegratorKeepsBranches ==
  ASSUME BranchInv, Integrate, TypeOK', WorksOnBatch'
  PROVE  BranchFacts'
<1>t. /\ TypeOK /\ WorksOnBatch /\ TypeOK' /\ WorksOnBatch'
      /\ branches \subseteq Batch /\ pub \subseteq Batch
  BY DEF BranchInv, TypeOK
<1>f. BranchFacts
  BY DEF BranchInv
<1>w. /\ UNCHANGED pub
      /\ ~RecoverRequeue => \A c \in Batch \ {integ.batch} : batches'[c] = batches[c]
      /\ integ.pc \notin {"idle", "recovering", "locked"} => integ.batch \in Batch
  BY <1>t, IntegratorWrites
<1> USE DEF BranchFacts, OwnRecord, NotBranched, BranchesCut, PushedCut, BranchIsNamed, Recorded
<1>1. CASE RecoverCleanup
  <2>1. UNCHANGED batches /\ branches' \subseteq branches /\ integ'.pc = "recovering"
    BY <1>1, <1>t, IntegratorGoes DEF RecoverCleanup
  <2> QED
    BY <1>f, <1>w, <2>1
<1>2. CASE RecoverRequeue
  <2>1. UNCHANGED branches /\ integ'.pc = "locked"
    BY <1>2, <1>t, IntegratorGoes DEF RecoverRequeue
  <2>2. \A b \in Batch : /\ batches'[b].status = IF b \in Running THEN "failed" ELSE batches[b].status
                         /\ batches'[b].named = batches[b].named
                         /\ b \in Running => batches[b].status = "running"
    BY <1>2, <1>t, RequeueWrites DEF Running
  <2> QED
    BY <1>t, <1>f, <1>w, <2>1, <2>2
<1>3. CASE Unlock \/ RefuseStart \/ FinishIntegration \/ FailUnrecorded
  <2>1. UNCHANGED <<batches, branches>> /\ integ'.pc = "idle"
    BY <1>3, <1>t, IntegratorGoes DEF Unlock, RefuseStart, FinishIntegration, FailUnrecorded, Idle
  <2> QED
    BY <1>f, <1>w, <2>1
<1>4. CASE Plan
  <2>1. PICK S \in SUBSET Task, b \in Batch, dry \in BOOLEAN :
          /\ batches[b].status = "unused"
          /\ integ' = [pc |-> "planned", batch |-> b, plan |-> S, dry |-> dry, culprit |-> {},
                       seen |-> [t \in Task |-> IF t \in S THEN tasks[t].receipt ELSE 0]]
    BY <1>4 DEF Plan
  <2>2. integ'.pc = "planned" /\ integ'.batch = b
    BY <2>1
  <2>3. UNCHANGED <<batches, branches>>
    BY <1>4 DEF Plan
  <2>4. b \notin branches
    BY <1>f, <2>1
  <2> QED
    BY <1>f, <1>w, <2>1, <2>2, <2>3, <2>4
<1>5. CASE StartBatch
  <2>1. /\ integ.pc = "planned" /\ UNCHANGED branches
        /\ integ'.pc = "applying" /\ integ'.batch = integ.batch
        /\ batches'[integ.batch].status = "running"
    BY <1>5, <1>t, IntegratorGoes, IntegratorWrites DEF StartBatch
  <2>2. ~RecoverRequeue
    BY <2>1 DEF RecoverRequeue
  <2> QED
    BY <1>t, <1>f, <1>w, <2>1, <2>2
<1>6. CASE VerifyDryRun
  <2>1. /\ integ.pc = "applying" /\ UNCHANGED branches
        /\ integ'.pc = "verified" /\ integ'.batch = integ.batch
        /\ batches'[integ.batch].status = "verified"
    BY <1>6, <1>t, IntegratorGoes, IntegratorWrites DEF VerifyDryRun
  <2>2. ~RecoverRequeue
    BY <2>1 DEF RecoverRequeue
  <2> QED
    BY <1>t, <1>f, <1>w, <2>1, <2>2
<1>7. CASE RecordBranchName
  <2>1. /\ integ.pc = "applying" /\ UNCHANGED branches
        /\ integ'.pc = "named" /\ integ'.batch = integ.batch
        /\ batches'[integ.batch].status = batches[integ.batch].status
        /\ batches'[integ.batch].named
    BY <1>7, <1>t, IntegratorGoes, IntegratorWrites DEF RecordBranchName
  <2>2. ~RecoverRequeue
    BY <2>1 DEF RecoverRequeue
  <2> QED
    BY <1>t, <1>f, <1>w, <2>1, <2>2
<1>8. CASE CreateBranch
  <2>1. /\ integ.pc = "named" /\ UNCHANGED batches /\ branches' = branches \cup {integ.batch}
        /\ integ'.pc = "branched" /\ integ'.batch = integ.batch
    BY <1>8, <1>t, IntegratorGoes DEF CreateBranch
  <2> QED
    BY <1>t, <1>f, <1>w, <2>1
<1>9. CASE Prepare
  <2>1. /\ integ.pc = "branched" /\ UNCHANGED branches
        /\ integ'.pc = "prepared" /\ integ'.batch = integ.batch
        /\ batches'[integ.batch].status = "prepared"
        /\ batches'[integ.batch].named = batches[integ.batch].named
    BY <1>9, <1>t, IntegratorGoes, IntegratorWrites DEF Prepare
  <2>2. ~RecoverRequeue
    BY <2>1 DEF RecoverRequeue
  <2> QED
    BY <1>t, <1>f, <1>w, <2>1, <2>2
<1>10. CASE Abort
  <2>1. /\ UNCHANGED batches /\ integ'.pc = "failing" /\ integ'.batch = integ.batch
        /\ integ'.culprit # {} => integ.pc = "applying"
    BY <1>10, <1>t, IntegratorGoes DEF Abort
  <2>2. /\ branches' \subseteq branches
        /\ integ.pc \in {"applying", "named", "branched", "prepared", "verified"}
        /\ integ.pc \in {"branched", "prepared"} => integ.batch \notin branches'
    BY <1>10 DEF Abort
  <2> QED
    BY <1>t, <1>f, <1>w, <2>1, <2>2
<1>11. CASE FailBatch
  <2>1. /\ integ.pc = "failing" /\ UNCHANGED branches /\ integ'.pc = "idle"
        /\ batches'[integ.batch].status = "failed"
    BY <1>11, <1>t, IntegratorGoes, IntegratorWrites DEF FailBatch, Idle
  <2>2. ~RecoverRequeue
    BY <2>1 DEF RecoverRequeue
  <2> QED
    BY <1>t, <1>f, <1>w, <2>1, <2>2
<1> QED
  BY <1>1, <1>2, <1>3, <1>4, <1>5, <1>6, <1>7, <1>8, <1>9, <1>10, <1>11 DEF Integrate

LEMMA BranchStep == BranchInv /\ [Next]_vars => BranchInv'
<1> SUFFICES ASSUME BranchInv, [Next]_vars
             PROVE  BranchInv'
  OBVIOUS
<1>1. TypeOK' /\ WorksOnBatch'
  BY NextTypeOK, NextWorksOnBatch DEF BranchInv
<1>2. CASE (\E t \in Task : TaskCommand(t)) \/ Prune
  BY <1>1, <1>2, CommandsLeaveAlone, BranchKept DEF BranchInv
<1>3. CASE \E b \in Batch : BatchCommand(b)
  BY <1>1, <1>3, BatchCommandLeavesAlone, BranchKept DEF BranchInv
<1>4. CASE Integrate
  BY <1>1, <1>4, IntegratorKeepsBranches DEF BranchInv
<1>5. CASE StopIntegration
  <2>1. UNCHANGED <<batches, branches, pub>> /\ integ'.pc = "idle"
    BY <1>5 DEF StopIntegration, Idle
  <2> QED
    BY <1>1, <2>1 DEF BranchInv, BranchFacts, OwnRecord, NotBranched, BranchesCut, PushedCut,
                      BranchIsNamed, Recorded
<1>6. CASE UNCHANGED vars
  BY <1>1, <1>6 DEF vars, BranchInv, BranchFacts, OwnRecord, NotBranched, BranchesCut, PushedCut,
                    BranchIsNamed, Recorded
<1> QED
  BY <1>2, <1>3, <1>4, <1>5, <1>6 DEF Next

LEMMA BranchInit == Init => BranchInv
  BY InitTypeOK DEF Init, BranchInv, WorksOnBatch, BranchFacts, OwnRecord, NotBranched, BranchesCut,
     PushedCut, BranchIsNamed, Recorded, Idle

\* Wherever processes stop, whatever fails and whatever operators do: a branch in Git is
\* named by its batch's record.  [broker.ts integrateForTarget, "Persist the exact cleanup identity"]
THEOREM BranchesNamed == Spec => []BranchIsNamed
<1>1. BranchInv => BranchIsNamed
  BY DEF BranchInv, BranchFacts
<1> QED
  BY <1>1, BranchInit, BranchStep, PTL DEF Spec

-----------------------------------------------------------------------------
(* What a batch carries.  The properties follow from one invariant, that   *)
(* a batch which can still merge and its tasks agree about each other; for *)
(* it the steps fall into the few kinds that follow.                       *)

\* No terminal batch is taken up again, and sidecars can be written.
Regular == "revive" \notin Liberty /\ "disk" \notin Liberty

Carried == {"integrating", "batched", "published"}
LiveStatus == {"running", "prepared", "published"}
CarriedBy(s) == IF s = "running" THEN {"integrating", "cancelled"} ELSE {"batched", "published"}

\* The tasks of a live batch are its own, in a status that goes with it, and were not
\* submitted again.
Carries(b) ==
    \A t \in batches[b].tasks :
        /\ tasks[t].batch = b
        /\ tasks[t].status \in CarriedBy(batches[b].status)
        /\ batches[b].receipt[t] = tasks[t].receipt
LiveCarry == \A b \in Live : Carries(b)

\* A task that is under way is in a live batch.
CarriedLive ==
    \A t \in Task : tasks[t].status \in Carried =>
        tasks[t].batch \in Live /\ t \in batches[tasks[t].batch].tasks

\* A process that fails its batch finds it running, and the culprit in it.
FailingRuns == integ.pc = "failing" => batches[integ.batch].status = "running"
CulpritPlanned == integ.culprit \subseteq integ.plan

CarryInv ==
    /\ IInv /\ BranchInv
    /\ FailingRuns /\ CulpritPlanned /\ PushedOutstanding
    /\ LiveCarry /\ CarriedLive

\* Kinds of steps.  First, what may happen to a task.
Unmoved(t) == tasks'[t] = tasks[t]
Kept(t) ==
    /\ tasks'[t].batch = tasks[t].batch /\ tasks'[t].receipt = tasks[t].receipt
    /\ tasks'[t].deps = tasks[t].deps /\ tasks'[t].attempts = tasks[t].attempts
Rebatched(t, s, b) ==
    /\ tasks'[t].status = s /\ tasks'[t].batch = b
    /\ tasks'[t].receipt = tasks[t].receipt /\ tasks'[t].deps = tasks[t].deps
    /\ tasks'[t].attempts = tasks[t].attempts
Settled(t) ==
    /\ tasks'[t].status \in {"submitted", "failed", "merged"}
    /\ tasks'[t].receipt = tasks[t].receipt /\ tasks'[t].deps = tasks[t].deps
    /\ FailBatch \/ tasks'[t].attempts = tasks[t].attempts
    /\ tasks'[t].status = "merged" => \E b \in Batch : MarkMerged(b)

Reopened(t) ==
    /\ tasks[t].status \in {"absent", "registered", "claimed", "failed"}
    /\ tasks'[t].status \in {"registered", "claimed"}
    /\ tasks'[t].batch = tasks[t].batch /\ tasks'[t].receipt = tasks[t].receipt
    /\ tasks'[t].attempts = tasks[t].attempts
Submitted(t) ==
    /\ tasks[t].status \in Submittable /\ tasks'[t].status = "submitted"
    /\ tasks'[t].receipt = tasks[t].receipt + 1
    /\ tasks'[t].deps = tasks[t].deps /\ tasks'[t].attempts = tasks[t].attempts
    /\ \A d \in tasks[t].deps : Known(d)
Retried(t) ==
    /\ tasks[t].status = "failed" /\ tasks'[t].status = "submitted"
    /\ tasks'[t].receipt = tasks[t].receipt /\ tasks'[t].deps = tasks[t].deps
    /\ tasks'[t].attempts = 0
Cancelled(t) == tasks[t].status \in Cancellable /\ tasks'[t].status = "cancelled" /\ Kept(t)

\* A worker or the owner deals with one task, and with no batch.
Command(t) ==
    /\ UNCHANGED <<batches, integ, branches, pub>>
    /\ \A u \in Task \ {t} : Unmoved(u)
    /\ \/ tasks'[t].status = tasks[t].status /\ Kept(t)
       \/ Reopened(t) \/ Submitted(t) \/ Retried(t) \/ Cancelled(t)

\* Completed tasks and batches are forgotten, but none that is needed.
Forgets ==
    /\ UNCHANGED <<integ, branches, pub>>
    /\ \A b \in Batch : \/ batches'[b] = batches[b]
                        \/ batches[b].status \in PrunableBatch /\ batches'[b].status = "pruned"
    /\ \A t \in Task : \/ Unmoved(t)
                       \/ /\ tasks[t].status \in PrunableTask /\ tasks[t].batch \notin Live
                          /\ tasks'[t].status = "absent" /\ tasks'[t].receipt = tasks[t].receipt
                          /\ tasks'[t].attempts = 0
    /\ \A t \in Task : Known(t) /\ tasks[t].status \notin PrunableTask =>
                         \A d \in tasks[t].deps : Unmoved(d)

\* The batches of G end, and so does the work on their tasks.
Ends(G) ==
    /\ G \subseteq Live
    /\ \A b \in G : batches'[b].status \notin LiveStatus
    /\ \A b \in Batch \ G : batches'[b] = batches[b]
    /\ \A t \in Task : (\E b \in G : t \in batches[b].tasks) => tasks'[t].status \notin Carried
    /\ \A t \in Task : Unmoved(t) \/ (Settled(t) /\ \E b \in G : t \in batches[b].tasks)

\* A live batch goes on with its tasks.
Advances(b) ==
    /\ b \in Live /\ batches'[b].status \in LiveStatus
    /\ batches'[b].tasks = batches[b].tasks /\ batches'[b].receipt = batches[b].receipt
    /\ \A c \in Batch \ {b} : batches'[c] = batches[c]
    /\ \A t \in Task \ batches[b].tasks : Unmoved(t)
    /\ \A t \in batches[b].tasks :
         /\ Kept(t) /\ tasks'[t].status \in CarriedBy(batches'[b].status)
         /\ tasks'[t].status = "cancelled" => tasks[t].status = "cancelled"

\* A batch starts with submitted tasks.
Starts ==
    /\ integ.batch \in Batch \ Live /\ PlanCurrent /\ integ.pc = "planned"
    /\ batches'[integ.batch].status = "running"
    /\ batches'[integ.batch].tasks = integ.plan /\ batches'[integ.batch].receipt = integ.seen
    /\ \A c \in Batch \ {integ.batch} : batches'[c] = batches[c]
    /\ \A t \in Task \ integ.plan : Unmoved(t)
    /\ \A t \in integ.plan : Rebatched(t, "integrating", integ.batch)

Still == UNCHANGED <<tasks, batches>>

\* What a rewritten task record is.
LEMMA StatusRewrite ==
  ASSUME TypeOK, NEW t \in Task, NEW s, tasks'[t] = [tasks[t] EXCEPT !.status = s]
  PROVE  tasks'[t].status = s /\ Kept(t)
<1>1. tasks[t] \in TaskRecord
  BY DEF TypeOK
<1> QED
  BY <1>1 DEF TaskRecord, Kept

LEMMA LeaseRewrite ==
  ASSUME TypeOK, NEW t \in Task, NEW s, NEW l,
         tasks'[t] = [tasks[t] EXCEPT !.status = s, !.leased = l]
  PROVE  tasks'[t].status = s /\ Kept(t)
<1>1. tasks[t] \in TaskRecord
  BY DEF TypeOK
<1> QED
  BY <1>1 DEF TaskRecord, Kept

LEMMA BatchRewrite ==
  ASSUME TypeOK, NEW t \in Task, NEW s, NEW b,
         tasks'[t] = [tasks[t] EXCEPT !.status = s, !.batch = b]
  PROVE  Rebatched(t, s, b)
<1>1. tasks[t] \in TaskRecord
  BY DEF TypeOK
<1> QED
  BY <1>1 DEF TaskRecord, Rebatched

\* What the commands of workers and the owner do.
LEMMA CommandEffect ==
  ASSUME TypeOK, NEW t \in Task, TaskCommand(t)
  PROVE  Command(t)
<1>t. tasks \in [Task -> TaskRecord] /\ tasks[t] \in TaskRecord
  BY DEF TypeOK
<1>0. UNCHANGED <<batches, integ, branches, pub>>
  BY DEF TaskCommand, RegisterTask, ClaimTask, ExpireLease, ReleaseTask, SubmitTask, RetryTask,
         CancelTask
<1>o. \A u \in Task \ {t} : Unmoved(u)
  BY <1>t DEF Unmoved, TaskCommand, RegisterTask, ClaimTask, ExpireLease, ReleaseTask, SubmitTask,
         RetryTask, CancelTask
<1>1. CASE RegisterTask(t)
  <2>1. PICK D : tasks' = [tasks EXCEPT ![t].status = "registered", ![t].deps = D]
    BY <1>1 DEF RegisterTask
  <2>2. tasks[t].status = "absent"
    BY <1>1 DEF RegisterTask, Known
  <2>3. Reopened(t)
    BY <1>t, <2>1, <2>2 DEF Reopened, TaskRecord
  <2> QED
    BY <1>0, <1>o, <2>3 DEF Command
<1>2. CASE ClaimTask(t)
  <2>1. PICK D : tasks' = [tasks EXCEPT ![t].status = "claimed", ![t].leased = TRUE, ![t].deps = D]
    BY <1>2 DEF ClaimTask
  <2>2. tasks[t].status \in {"absent", "registered", "claimed", "failed"}
    BY <1>2 DEF ClaimTask
  <2>3. Reopened(t)
    BY <1>t, <2>1, <2>2 DEF Reopened, TaskRecord
  <2> QED
    BY <1>0, <1>o, <2>3 DEF Command
<1>3. CASE ExpireLease(t)
  <2>1. tasks' = [tasks EXCEPT ![t].leased = FALSE]
    BY <1>3 DEF ExpireLease
  <2>2. tasks'[t].status = tasks[t].status /\ Kept(t)
    BY <1>t, <2>1 DEF Kept, TaskRecord
  <2> QED
    BY <1>0, <1>o, <2>2 DEF Command
<1>4. CASE ReleaseTask(t)
  <2> DEFINE s == IF tasks[t].status \in {"claimed", "failed"} THEN "registered" ELSE tasks[t].status
  <2>1. tasks'[t] = [tasks[t] EXCEPT !.leased = FALSE, !.status = s]
    BY <1>4, <1>t DEF ReleaseTask
  <2> HIDE DEF s
  <2>2. tasks'[t].status = s /\ Kept(t)
    BY <1>t, <2>1 DEF Kept, TaskRecord
  <2>3. Reopened(t) \/ (tasks'[t].status = tasks[t].status /\ Kept(t))
    BY <2>2 DEF s, Reopened, Kept
  <2> QED
    BY <1>0, <1>o, <2>3 DEF Command
<1>5. CASE SubmitTask(t)
  <2>1. /\ tasks' = [tasks EXCEPT ![t].status = "submitted", ![t].receipt = @ + 1]
        /\ tasks[t].status \in Submittable /\ \A d \in tasks[t].deps : Known(d)
    BY <1>5 DEF SubmitTask
  <2>2. Submitted(t)
    BY <1>t, <2>1 DEF Submitted, TaskRecord
  <2> QED
    BY <1>0, <1>o, <2>2 DEF Command
<1>6. CASE RetryTask(t)
  <2>1. /\ tasks' = [tasks EXCEPT ![t].status = "submitted", ![t].batch = NoBatch, ![t].attempts = 0]
        /\ tasks[t].status = "failed"
    BY <1>6 DEF RetryTask
  <2>2. Retried(t)
    BY <1>t, <2>1 DEF Retried, TaskRecord
  <2> QED
    BY <1>0, <1>o, <2>2 DEF Command
<1>7. CASE CancelTask(t)
  <2>1. /\ tasks' = [tasks EXCEPT ![t].status = "cancelled", ![t].leased = FALSE]
        /\ tasks[t].status \in Cancellable
    BY <1>7 DEF CancelTask
  <2>2. Cancelled(t)
    BY <1>t, <2>1 DEF Cancelled, Kept, TaskRecord
  <2> QED
    BY <1>0, <1>o, <2>2 DEF Command
<1> QED
  BY <1>1, <1>2, <1>3, <1>4, <1>5, <1>6, <1>7 DEF TaskCommand

LEMMA PruneEffect ==
  ASSUME TypeOK, Prune
  PROVE  Forgets
<1>t. /\ tasks \in [Task -> TaskRecord] /\ batches \in [Batch -> BatchRecord]
      /\ \A t \in Task : tasks[t].deps \subseteq Task
  BY DEF TypeOK, TaskRecord
<1>1. PICK oldT \in SUBSET {t \in Task : tasks[t].status \in PrunableTask},
           oldB \in SUBSET {b \in Batch : batches[b].status \in PrunableBatch} :
        LET gone == PruneSelection(oldT, oldB)
        IN  /\ tasks' = [t \in Task |-> IF t \in gone.tasks
                                       THEN [NoTask EXCEPT !.receipt = tasks[t].receipt]
                                       ELSE tasks[t]]
            /\ batches' = [b \in Batch |->
                             IF b \in gone.batches
                             THEN [UnusedBatch EXCEPT !.status = "pruned"] ELSE batches[b]]
  BY DEF Prune
<1> DEFINE goneB == GoneBatches(oldT \ Needed(oldT), oldB)
           goneT == {t \in oldT \ Needed(oldT) : LeavesNoBatch(t, goneB)}
<1>2. /\ tasks' = [t \in Task |-> IF t \in goneT THEN [NoTask EXCEPT !.receipt = tasks[t].receipt]
                                                 ELSE tasks[t]]
      /\ batches' = [b \in Batch |-> IF b \in goneB THEN [UnusedBatch EXCEPT !.status = "pruned"]
                                                    ELSE batches[b]]
  BY <1>1 DEF PruneSelection
<1>3. /\ goneB \subseteq {b \in Batch : batches[b].status \in PrunableBatch}
      /\ goneT \subseteq {t \in Task : tasks[t].status \in PrunableTask}
      /\ \A t \in goneT : LeavesNoBatch(t, goneB)
  BY <1>1 DEF GoneBatches
<1>4. \A t \in Task : Known(t) /\ tasks[t].status \notin PrunableTask => goneT \cap tasks[t].deps = {}
  BY <1>1 DEF Needed
<1> HIDE DEF goneB, goneT
<1>5. \A b \in Batch : \/ batches'[b] = batches[b]
                       \/ batches[b].status \in PrunableBatch /\ batches'[b].status = "pruned"
  <2>1. [UnusedBatch EXCEPT !.status = "pruned"].status = "pruned"
    BY NewRecords, Zenon DEF BatchRecord
  <2> QED
    BY <1>2, <1>3, <2>1
<1>6. ASSUME NEW t \in goneT
      PROVE  /\ tasks[t].batch \notin Live
             /\ tasks'[t].status = "absent" /\ tasks'[t].receipt = tasks[t].receipt
             /\ tasks'[t].attempts = 0
  <2>1. tasks[t].batch \notin Live
    BY <1>3 DEF LeavesNoBatch, Live, Recorded, PrunableBatch, NoBatch, Batch
  <2>2. tasks'[t] = [NoTask EXCEPT !.receipt = tasks[t].receipt]
    BY <1>2, <1>3
  <2> QED
    BY <2>1, <2>2 DEF NoTask
<1>7. \A t \in Task \ goneT : Unmoved(t)
  BY <1>2 DEF Unmoved
<1>8. \A t \in Task : Known(t) /\ tasks[t].status \notin PrunableTask =>
                      \A d \in tasks[t].deps : Unmoved(d)
  BY <1>t, <1>4, <1>7
<1>9. UNCHANGED <<integ, branches, pub>>
  BY DEF Prune
<1> QED
  BY <1>3, <1>5, <1>6, <1>7, <1>8, <1>9 DEF Forgets

\* A transaction that ends batch b: every task of it gets one of a few statuses.
LEMMA EndsOne ==
  ASSUME TypeOK, LiveCarry, NEW b \in Live, batches'[b].status \notin LiveStatus,
         \A c \in Batch \ {b} : batches'[c] = batches[c],
         \A t \in Task \ batches[b].tasks : Unmoved(t),
         \A t \in batches[b].tasks : Settled(t)
  PROVE  Ends({b})
  BY DEF Ends, Settled, Carried

\* What the commands on a batch do.
LEMMA BatchCommandEffect ==
  ASSUME Regular, TypeOK, PushedOutstanding, LiveCarry, NEW b \in Batch, BatchCommand(b)
  PROVE  Ends({b}) \/ Advances(b) \/ Still
<1>t. /\ tasks \in [Task -> TaskRecord] /\ batches[b].tasks \subseteq Task
      /\ \A t \in Task : tasks[t] \in TaskRecord
  BY DEF TypeOK, BatchRecord
<1>w. \A c \in Batch \ {b} : batches'[c] = batches[c]
  BY BatchWrites
<1>o. b \in Outstanding => b \in Live /\ \A t \in batches[b].tasks : tasks[t].status \in {"batched", "published"}
  BY DEF Outstanding, Live, LiveCarry, Carries, CarriedBy
<1>1. CASE PushBatch(b) \/ DropPublication(b) \/ DeleteSuperseded(b)
  BY <1>1 DEF PushBatch, DropPublication, DeleteSuperseded, Still
<1>2. CASE RequireRefresh(b)
  <2>1. b \in Live /\ UNCHANGED tasks
    BY <1>2, <1>o DEF RequireRefresh
  <2>2. /\ batches'[b].status = batches[b].status
        /\ batches'[b].tasks = batches[b].tasks /\ batches'[b].receipt = batches[b].receipt
    BY <1>2, BatchWrites
  <2> QED
    BY <1>w, <2>1, <2>2 DEF Advances, Unmoved, Kept, Live, LiveStatus, LiveCarry, Carries
<1>3. CASE RecordPublication(b)
  <2>1. b \in Live
    BY <1>3, <1>o DEF RecordPublication, PushedOutstanding
  <2>2. /\ batches'[b].status = "published"
        /\ batches'[b].tasks = batches[b].tasks /\ batches'[b].receipt = batches[b].receipt
    BY <1>3, BatchWrites
  <2>3. \A t \in Task : tasks'[t] = IF t \in batches[b].tasks
                                  THEN [tasks[t] EXCEPT !.status = "published"] ELSE tasks[t]
    BY <1>3 DEF RecordPublication
  <2>4. \A t \in batches[b].tasks : tasks'[t].status = "published" /\ Kept(t)
    BY <1>t, <2>3, StatusRewrite
  <2>5. \A t \in Task \ batches[b].tasks : Unmoved(t)
    BY <2>3 DEF Unmoved
  <2> QED
    BY <1>w, <2>1, <2>2, <2>4, <2>5 DEF Advances, LiveStatus, CarriedBy
<1>4. CASE MarkMerged(b)
  <2>1. b \in Live /\ batches'[b].status \notin LiveStatus
    BY <1>4, <1>o, BatchWrites DEF MarkMerged, Completable, Regular, Outstanding, LiveStatus
  <2>2. \A t \in Task : tasks'[t] = IF t \in batches[b].tasks
                                  THEN [tasks[t] EXCEPT !.status = "merged"] ELSE tasks[t]
    BY <1>4 DEF MarkMerged
  <2>3. \A t \in batches[b].tasks : tasks'[t].status = "merged" /\ Kept(t)
    BY <1>t, <2>2, StatusRewrite
  <2>4. /\ \A t \in Task \ batches[b].tasks : Unmoved(t)
        /\ \A t \in batches[b].tasks : Settled(t)
    BY <1>4, <2>2, <2>3 DEF Unmoved, Settled, Kept
  <2> QED
    BY <1>w, <2>1, <2>4, EndsOne
<1>5. CASE CloseBatch(b)
  <2>1. b \in Live /\ batches'[b].status \notin LiveStatus
    BY <1>5, <1>o, BatchWrites DEF CloseBatch, LiveStatus
  <2>2. \A t \in Task :
          tasks'[t] = IF t \in batches[b].tasks /\ tasks[t].status # "merged"
                      THEN [tasks[t] EXCEPT !.status = "failed", !.batch = NoBatch] ELSE tasks[t]
    BY <1>5 DEF CloseBatch
  <2>3. \A t \in batches[b].tasks : tasks'[t] = [tasks[t] EXCEPT !.status = "failed", !.batch = NoBatch]
    BY <1>5, <1>t, <1>o, <2>2 DEF CloseBatch
  <2>4. ASSUME NEW t \in batches[b].tasks
        PROVE  Settled(t)
    <3>1. t \in Task /\ tasks'[t] = [tasks[t] EXCEPT !.status = "failed", !.batch = NoBatch]
      BY <1>t, <2>3
    <3>2. Rebatched(t, "failed", NoBatch)
      BY <3>1, BatchRewrite
    <3> QED
      BY <3>2 DEF Settled, Rebatched
  <2>5. \A t \in Task \ batches[b].tasks : Unmoved(t)
    BY <2>2 DEF Unmoved
  <2> QED
    BY <1>w, <2>1, <2>4, <2>5, EndsOne
<1>6. CASE FailInvariant(b)
  <2>1. b \in Live /\ batches'[b].status \notin LiveStatus
    BY <1>6, BatchWrites DEF FailInvariant, Regular, Live, LiveStatus
  <2>2. \A t \in Task : tasks'[t] = IF t \in batches[b].tasks
                                  THEN [tasks[t] EXCEPT !.status = "failed"] ELSE tasks[t]
    BY <1>6 DEF FailInvariant
  <2>3. \A t \in batches[b].tasks : tasks'[t].status = "failed" /\ Kept(t)
    BY <1>t, <2>2, StatusRewrite
  <2>4. /\ \A t \in Task \ batches[b].tasks : Unmoved(t)
        /\ \A t \in batches[b].tasks : Settled(t)
    BY <2>2, <2>3 DEF Unmoved, Settled, Kept
  <2> QED
    BY <1>w, <2>1, <2>4, EndsOne
<1>7. CASE RefreshBatch(b)
  <2>0. b \in Outstanding
    BY <1>7 DEF RefreshBatch
  <2>1. b \in Live /\ batches'[b].status \notin LiveStatus
    BY <1>7, <1>o, <2>0, BatchWrites DEF LiveStatus
  <2>2. \A t \in Task :
          tasks'[t] = IF t \in batches[b].tasks /\ tasks[t].status # "merged"
                      THEN [tasks[t] EXCEPT !.status = "submitted", !.batch = NoBatch] ELSE tasks[t]
    BY <1>7 DEF RefreshBatch
  <2>3. \A t \in batches[b].tasks : tasks'[t] = [tasks[t] EXCEPT !.status = "submitted", !.batch = NoBatch]
    BY <1>t, <1>o, <2>0, <2>2
  <2>4. ASSUME NEW t \in batches[b].tasks
        PROVE  Settled(t)
    <3>1. t \in Task /\ tasks'[t] = [tasks[t] EXCEPT !.status = "submitted", !.batch = NoBatch]
      BY <1>t, <2>3
    <3>2. Rebatched(t, "submitted", NoBatch)
      BY <3>1, BatchRewrite
    <3> QED
      BY <3>2 DEF Settled, Rebatched
  <2>5. \A t \in Task \ batches[b].tasks : Unmoved(t)
    BY <2>2 DEF Unmoved
  <2> QED
    BY <1>w, <2>1, <2>4, <2>5, EndsOne
<1> QED
  BY <1>1, <1>2, <1>3, <1>4, <1>5, <1>6, <1>7 DEF BatchCommand

\* What the steps of the integrator do.
LEMMA IntegratorEffect ==
  ASSUME Regular, CarryInv, Integrate
  PROVE  Ends(Running) \/ Ends({integ.batch}) \/ Advances(integ.batch) \/ Starts \/ Still
<1>t. /\ TypeOK /\ WorksOnBatch /\ tasks \in [Task -> TaskRecord] /\ integ.plan \subseteq Task
      /\ \A t \in Task : tasks[t] \in TaskRecord
      /\ \A b \in Batch : batches[b].tasks \subseteq Task
  BY DEF CarryInv, IInv, TypeOK, Integrator, BatchRecord
<1>f. RunningIsIntegrated /\ OwnRecord /\ LiveCarry /\ FailingRuns
  BY DEF CarryInv, IInv, BranchInv, BranchFacts
<1>w. ~RecoverRequeue => \A c \in Batch \ {integ.batch} : batches'[c] = batches[c]
  BY <1>t, IntegratorWrites
<1>r. integ.pc \in {"applying", "named", "branched", "failing"} =>
        /\ integ.batch \in Live /\ batches[integ.batch].tasks = integ.plan
        /\ batches[integ.batch].status = "running"
  BY <1>t, <1>f DEF OwnRecord, FailingRuns, RunningIsIntegrated, Running, Live, WorksOnBatch
<1>1. CASE RecoverCleanup \/ Unlock \/ Plan \/ RefuseStart \/ CreateBranch \/ FinishIntegration
           \/ Abort \/ FailUnrecorded
  BY <1>1 DEF Still, RecoverCleanup, Unlock, Plan, RefuseStart, CreateBranch, FinishIntegration,
              Abort, FailUnrecorded
<1>2. CASE RecoverRequeue
  <2>1. /\ Running \subseteq Live
        /\ \A b \in Running : batches'[b].status = "failed"
        /\ \A b \in Batch \ Running : batches'[b] = batches[b]
    BY <1>2, <1>t, RequeueWrites DEF Running, Live
  <2>2. \A t \in Task : tasks'[t] = IF Stranded(t)
                                  THEN [tasks[t] EXCEPT !.status = "submitted", !.batch = NoBatch]
                                  ELSE tasks[t]
    BY <1>2 DEF RecoverRequeue
  <2>3. ASSUME NEW t \in Task, Stranded(t)
        PROVE  /\ Settled(t) /\ tasks'[t].status = "submitted"
               /\ \E b \in Running : t \in batches[b].tasks
    <3>1. tasks'[t] = [tasks[t] EXCEPT !.status = "submitted", !.batch = NoBatch]
      BY <2>2, <2>3
    <3>2. Rebatched(t, "submitted", NoBatch)
      BY <1>t, <3>1, BatchRewrite
    <3> QED
      BY <2>3, <3>2 DEF Settled, Rebatched, Stranded, Abandoned
  <2>4. \A t \in Task : ~Stranded(t) => Unmoved(t)
    BY <2>2 DEF Unmoved
  <2>5. ASSUME NEW t \in Task, NEW b \in Running, t \in batches[b].tasks
        PROVE  tasks'[t].status \notin Carried
    <3>1. tasks[t].batch = b /\ tasks[t].status \in {"integrating", "cancelled"}
      BY <1>f, <2>1, <2>5 DEF LiveCarry, Carries, CarriedBy, Running
    <3>2. CASE Stranded(t)
      BY <2>3, <3>2 DEF Carried
    <3>3. CASE ~Stranded(t)
      BY <2>4, <2>5, <3>1, <3>3 DEF Stranded, Abandoned, Unmoved, Carried
    <3> QED
      BY <3>2, <3>3
  <2> QED
    BY <2>1, <2>3, <2>4, <2>5 DEF Ends, LiveStatus
<1>3. CASE StartBatch
  <2>1. integ.pc = "planned" /\ PlanCurrent /\ integ.batch \in Batch \ Live
    BY <1>3, <1>t, <1>f DEF StartBatch, WorksOnBatch, OwnRecord, Live
  <2>2. ~RecoverRequeue
    BY <2>1 DEF RecoverRequeue
  <2>3. \A t \in Task : tasks'[t] = IF t \in integ.plan
                                  THEN [tasks[t] EXCEPT !.status = "integrating", !.batch = integ.batch]
                                  ELSE tasks[t]
    BY <1>3 DEF StartBatch
  <2>4. ASSUME NEW t \in integ.plan
        PROVE  Rebatched(t, "integrating", integ.batch)
    <3>1. t \in Task /\ tasks'[t] = [tasks[t] EXCEPT !.status = "integrating", !.batch = integ.batch]
      BY <1>t, <2>3, Zenon
    <3> QED
      BY <1>t, <3>1, BatchRewrite
  <2>5. \A t \in Task \ integ.plan : Unmoved(t)
    BY <2>3 DEF Unmoved
  <2>6. /\ batches'[integ.batch].status = "running"
        /\ batches'[integ.batch].tasks = integ.plan /\ batches'[integ.batch].receipt = integ.seen
    BY <1>3, <1>t, IntegratorWrites
  <2> QED
    BY <1>w, <2>1, <2>2, <2>4, <2>5, <2>6 DEF Starts
<1>4. CASE RecordBranchName
  <2>1. integ.pc = "applying" /\ UNCHANGED tasks
    BY <1>4 DEF RecordBranchName
  <2>2. ~RecoverRequeue
    BY <2>1 DEF RecoverRequeue
  <2>3. /\ batches'[integ.batch].status = batches[integ.batch].status
        /\ batches'[integ.batch].tasks = batches[integ.batch].tasks
        /\ batches'[integ.batch].receipt = batches[integ.batch].receipt
    BY <1>4, <1>t, IntegratorWrites
  <2> QED
    BY <1>w, <1>r, <1>f, <2>1, <2>2, <2>3
    DEF Advances, Unmoved, Kept, Live, LiveStatus, LiveCarry, Carries
<1>5. CASE Prepare
  <2>1. integ.pc = "branched"
    BY <1>5 DEF Prepare
  <2>2. ~RecoverRequeue
    BY <2>1 DEF RecoverRequeue
  <2>3. /\ batches'[integ.batch].status = "prepared"
        /\ batches'[integ.batch].tasks = batches[integ.batch].tasks
        /\ batches'[integ.batch].receipt = batches[integ.batch].receipt
    BY <1>5, <1>t, IntegratorWrites
  <2>4. \A t \in Task : tasks'[t] = IF t \in integ.plan
                                  THEN [tasks[t] EXCEPT !.status = "batched", !.leased = FALSE]
                                  ELSE tasks[t]
    BY <1>5 DEF Prepare
  <2>5. \A t \in integ.plan : tasks'[t].status = "batched" /\ Kept(t)
    BY <1>t, <2>4, LeaseRewrite
  <2>6. \A t \in Task \ integ.plan : Unmoved(t)
    BY <2>4 DEF Unmoved
  <2> QED
    BY <1>w, <1>r, <2>1, <2>2, <2>3, <2>5, <2>6 DEF Advances, LiveStatus, CarriedBy
<1>6. CASE VerifyDryRun
  <2>1. integ.pc = "applying" /\ batches'[integ.batch].status = "verified"
    BY <1>6, <1>t, IntegratorWrites DEF VerifyDryRun
  <2>2. ~RecoverRequeue
    BY <2>1 DEF RecoverRequeue
  <2>3. \A t \in Task : tasks'[t] = IF t \in integ.plan
                                  THEN [tasks[t] EXCEPT !.status = "submitted", !.batch = NoBatch]
                                  ELSE tasks[t]
    BY <1>6 DEF VerifyDryRun
  <2>4. ASSUME NEW t \in integ.plan
        PROVE  Settled(t)
    <3>1. t \in Task /\ tasks'[t] = [tasks[t] EXCEPT !.status = "submitted", !.batch = NoBatch]
      BY <1>t, <2>3
    <3>2. Rebatched(t, "submitted", NoBatch)
      BY <1>t, <3>1, BatchRewrite
    <3> QED
      BY <3>2 DEF Settled, Rebatched
  <2>5. \A t \in Task \ integ.plan : Unmoved(t)
    BY <2>3 DEF Unmoved
  <2> QED
    BY <1>t, <1>w, <1>r, <1>f, <2>1, <2>2, <2>4, <2>5, EndsOne DEF LiveStatus
<1>7. CASE FailBatch
  <2>1. integ.pc = "failing" /\ batches'[integ.batch].status = "failed"
    BY <1>7, <1>t, IntegratorWrites DEF FailBatch
  <2>2. ~RecoverRequeue
    BY <2>1 DEF RecoverRequeue
  <2>3. \A t \in Task : tasks'[t] = IF t \in integ.plan THEN FailedTask(t) ELSE tasks[t]
    BY <1>7 DEF FailBatch
  <2>4. ASSUME NEW t \in integ.plan
        PROVE  Settled(t)
    <3>1. tasks'[t] = FailedTask(t) /\ tasks[t] \in TaskRecord
      BY <1>t, <2>3
    <3>2. /\ tasks'[t].status \in {"submitted", "failed"}
          /\ tasks'[t].receipt = tasks[t].receipt /\ tasks'[t].deps = tasks[t].deps
      BY <3>1 DEF FailedTask, TaskRecord
    <3> QED
      BY <1>7, <3>2 DEF Settled
  <2>5. \A t \in Task \ integ.plan : Unmoved(t)
    BY <2>3 DEF Unmoved
  <2> QED
    BY <1>t, <1>w, <1>r, <1>f, <2>1, <2>2, <2>4, <2>5, EndsOne DEF LiveStatus
<1> QED
  BY <1>1, <1>2, <1>3, <1>4, <1>5, <1>6, <1>7 DEF Integrate

\* Each kind of step keeps a live batch and its tasks in agreement.
LEMMA CommandCarries ==
  ASSUME TypeOK, LiveCarry, CarriedLive, NEW t \in Task, Command(t)
  PROVE  LiveCarry' /\ CarriedLive'
<1>0. /\ \A b \in Batch : batches[b].tasks \subseteq Task
      /\ UNCHANGED batches /\ Live' = Live
  BY DEF TypeOK, BatchRecord, Command, Live
<1>1. tasks[t].status \in {"integrating", "cancelled", "batched", "published"} =>
        /\ Kept(t)
        /\ \/ tasks'[t].status = tasks[t].status
           \/ tasks[t].status \in {"integrating", "cancelled"} /\ tasks'[t].status = "cancelled"
  BY DEF Command, Reopened, Submitted, Retried, Cancelled, Submittable, Cancellable
<1>2. tasks'[t].status \in Carried => tasks'[t].status = tasks[t].status /\ Kept(t)
  BY DEF Command, Reopened, Submitted, Retried, Cancelled, Carried
<1>3. ASSUME NEW b \in Live, NEW u \in batches[b].tasks
      PROVE  /\ tasks'[u].batch = b
             /\ tasks'[u].status \in CarriedBy(batches[b].status)
             /\ batches[b].receipt[u] = tasks'[u].receipt
  <2>1. /\ u \in Task /\ tasks[u].batch = b
        /\ tasks[u].status \in CarriedBy(batches[b].status)
        /\ batches[b].receipt[u] = tasks[u].receipt
    BY <1>0 DEF LiveCarry, Carries, Live
  <2>2. CASE u # t
    BY <2>1, <2>2 DEF Command, Unmoved
  <2>3. CASE u = t
    BY <1>1, <2>1, <2>3 DEF CarriedBy, Kept
  <2> QED
    BY <2>2, <2>3
<1>4. LiveCarry'
  BY <1>0, <1>3 DEF LiveCarry, Carries
<1>5. ASSUME NEW u \in Task, tasks'[u].status \in Carried
      PROVE  tasks'[u].batch \in Live /\ u \in batches[tasks'[u].batch].tasks
  <2>1. tasks[u].status \in Carried /\ tasks'[u].batch = tasks[u].batch
    BY <1>2, <1>5 DEF Command, Unmoved, Kept
  <2> QED
    BY <2>1 DEF CarriedLive
<1>6. CarriedLive'
  BY <1>0, <1>5 DEF CarriedLive
<1> QED
  BY <1>4, <1>6

LEMMA ForgetsCarries ==
  ASSUME TypeOK, LiveCarry, CarriedLive, Forgets
  PROVE  LiveCarry' /\ CarriedLive'
<1>0. \A b \in Batch : batches[b].tasks \subseteq Task
  BY DEF TypeOK, BatchRecord
<1>1. Live' = Live /\ \A b \in Live : batches'[b] = batches[b]
  BY DEF Forgets, Live, PrunableBatch
<1>2. \A b \in Live : \A t \in batches[b].tasks : Unmoved(t)
  BY <1>0 DEF Forgets, LiveCarry, Carries, Live
<1>3. LiveCarry'
  BY <1>1, <1>2 DEF LiveCarry, Carries, Unmoved
<1>4. CarriedLive'
  BY <1>1 DEF CarriedLive, Forgets, Unmoved, Carried
<1> QED
  BY <1>3, <1>4

LEMMA EndsCarries ==
  ASSUME TypeOK, LiveCarry, CarriedLive, NEW G, Ends(G)
  PROVE  LiveCarry' /\ CarriedLive'
<1>0. \A b \in Batch : batches[b].tasks \subseteq Task
  BY DEF TypeOK, BatchRecord
<1>1. Live' = Live \ G /\ \A b \in Live \ G : batches'[b] = batches[b]
  BY DEF Ends, Live, LiveStatus
<1>2. \A b \in Live \ G : \A t \in batches[b].tasks : Unmoved(t)
  BY <1>0 DEF Ends, LiveCarry, Carries, Live
<1>3. LiveCarry'
  BY <1>1, <1>2 DEF LiveCarry, Carries, Unmoved
<1>4. ASSUME NEW t \in Task, tasks'[t].status \in Carried
      PROVE  tasks'[t].batch \in Live' /\ t \in batches'[tasks'[t].batch].tasks
  <2>1. tasks'[t] = tasks[t]
    BY <1>4 DEF Ends, Settled, Carried, Unmoved
  <2>2. tasks[t].batch \in Live /\ t \in batches[tasks[t].batch].tasks
    BY <1>4, <2>1 DEF CarriedLive
  <2>3. tasks[t].batch \notin G
    BY <1>4, <2>2 DEF Ends
  <2> QED
    BY <1>1, <2>1, <2>2, <2>3
<1>5. CarriedLive'
  BY <1>4 DEF CarriedLive
<1> QED
  BY <1>3, <1>5

LEMMA AdvancesCarries ==
  ASSUME TypeOK, LiveCarry, CarriedLive, NEW b \in Batch, Advances(b)
  PROVE  LiveCarry' /\ CarriedLive'
<1>0. /\ \A c \in Batch : batches[c].tasks \subseteq Task
      /\ b \in Live /\ \A t \in batches[b].tasks : tasks[t].batch = b
  BY DEF TypeOK, BatchRecord, Advances, LiveCarry, Carries
<1>1. Live' = Live
  BY DEF Advances, Live, LiveStatus
<1>2. ASSUME NEW c \in Live, NEW t \in batches'[c].tasks
      PROVE  /\ tasks'[t].batch = c
             /\ tasks'[t].status \in CarriedBy(batches'[c].status)
             /\ batches'[c].receipt[t] = tasks'[t].receipt
  <2>1. c \in Batch /\ t \in batches[c].tasks
    BY <1>2 DEF Advances, Live
  <2>2. tasks[t].batch = c /\ batches[c].receipt[t] = tasks[t].receipt
    BY <2>1 DEF LiveCarry, Carries
  <2>3. CASE c = b
    BY <2>1, <2>2, <2>3 DEF Advances, Kept
  <2>4. CASE c # b
    <3>1. t \in Task \ batches[b].tasks
      BY <1>0, <2>1, <2>2, <2>4
    <3>2. tasks'[t] = tasks[t] /\ batches'[c] = batches[c]
      BY <2>1, <2>4, <3>1 DEF Advances, Unmoved
    <3> QED
      BY <2>1, <2>2, <3>2 DEF LiveCarry, Carries
  <2> QED
    BY <2>3, <2>4
<1>3. LiveCarry'
  BY <1>1, <1>2 DEF LiveCarry, Carries
<1>4. ASSUME NEW t \in Task, tasks'[t].status \in Carried
      PROVE  tasks'[t].batch \in Live /\ t \in batches'[tasks'[t].batch].tasks
  <2>1. CASE t \in batches[b].tasks
    BY <1>0, <2>1 DEF Advances, Kept
  <2>2. CASE t \notin batches[b].tasks
    <3>1. tasks'[t] = tasks[t]
      BY <2>2 DEF Advances, Unmoved
    <3>2. tasks[t].batch \in Live /\ t \in batches[tasks[t].batch].tasks
      BY <1>4, <3>1 DEF CarriedLive
    <3> QED
      BY <2>2, <3>1, <3>2 DEF Advances, Live
  <2> QED
    BY <2>1, <2>2
<1>5. CarriedLive'
  BY <1>1, <1>4 DEF CarriedLive
<1> QED
  BY <1>3, <1>5

LEMMA StartsCarries ==
  ASSUME TypeOK, LiveCarry, CarriedLive, Starts
  PROVE  LiveCarry' /\ CarriedLive'
<1>0. /\ \A c \in Batch : batches[c].tasks \subseteq Task
      /\ integ.plan \subseteq Task /\ integ.batch \in Batch \ Live
      /\ \A t \in integ.plan : tasks[t].status = "submitted" /\ tasks[t].receipt = integ.seen[t]
  BY DEF TypeOK, BatchRecord, Integrator, Starts, PlanCurrent
<1>1. Live' = Live \cup {integ.batch}
  BY <1>0 DEF Starts, Live
<1>2. ASSUME NEW c \in Live, NEW t \in batches[c].tasks
      PROVE  Unmoved(t)
  <2>1. t \in Task /\ tasks[t].status \in CarriedBy(batches[c].status)
    BY <1>0 DEF LiveCarry, Carries, Live
  <2>2. t \notin integ.plan
    BY <1>0, <2>1 DEF CarriedBy
  <2> QED
    BY <2>1, <2>2 DEF Starts
<1>3. \A c \in Live : batches'[c] = batches[c]
  BY <1>0 DEF Starts, Live
<1>4. \A c \in Live : Carries(c)'
  BY <1>2, <1>3 DEF LiveCarry, Carries, Unmoved
<1>5. ASSUME NEW t \in integ.plan
      PROVE  /\ tasks'[t].batch = integ.batch /\ tasks'[t].status = "integrating"
             /\ integ.seen[t] = tasks'[t].receipt
  <2>1. Rebatched(t, "integrating", integ.batch)
    BY DEF Starts
  <2> QED
    BY <1>0, <2>1 DEF Rebatched
<1>6. LiveCarry'
  <2>1. /\ batches'[integ.batch].status = "running" /\ batches'[integ.batch].tasks = integ.plan
        /\ batches'[integ.batch].receipt = integ.seen
    BY DEF Starts
  <2>2. ASSUME NEW c \in Live', NEW t \in batches'[c].tasks
        PROVE  /\ tasks'[t].batch = c
               /\ tasks'[t].status \in CarriedBy(batches'[c].status)
               /\ batches'[c].receipt[t] = tasks'[t].receipt
    <3>1. CASE c = integ.batch
      BY <1>5, <2>1, <2>2, <3>1 DEF CarriedBy
    <3>2. CASE c # integ.batch
      <4>1. c \in Live /\ batches'[c] = batches[c] /\ tasks'[t] = tasks[t]
        BY <1>1, <1>2, <1>3, <2>2, <3>2 DEF Unmoved
      <4> QED
        BY <2>2, <4>1 DEF LiveCarry, Carries
    <3> QED
      BY <3>1, <3>2
  <2> QED
    BY <2>2 DEF LiveCarry, Carries
<1>7. ASSUME NEW t \in Task, tasks'[t].status \in Carried
      PROVE  tasks'[t].batch \in Live' /\ t \in batches'[tasks'[t].batch].tasks
  <2>1. CASE t \in integ.plan
    BY <1>1, <1>5, <2>1 DEF Starts
  <2>2. CASE t \notin integ.plan
    <3>1. tasks'[t] = tasks[t]
      BY <2>2 DEF Starts, Unmoved
    <3>2. tasks[t].batch \in Live /\ t \in batches[tasks[t].batch].tasks
      BY <1>7, <3>1 DEF CarriedLive
    <3> QED
      BY <1>1, <1>3, <3>1, <3>2
  <2> QED
    BY <2>1, <2>2
<1>8. CarriedLive'
  BY <1>7 DEF CarriedLive
<1> QED
  BY <1>6, <1>8

\* Every step is of one of the kinds.
StepKinds ==
    \/ \E t \in Task : Command(t)
    \/ Forgets
    \/ \E G \in SUBSET Batch : Ends(G)
    \/ \E b \in Batch : Advances(b)
    \/ Starts
    \/ Still

LEMMA StepEffect ==
  ASSUME Regular, CarryInv, [Next]_vars
  PROVE  StepKinds
<1>t. TypeOK /\ PushedOutstanding /\ LiveCarry
  BY DEF CarryInv, IInv
<1>1. CASE \E t \in Task : TaskCommand(t)
  BY <1>1, <1>t, CommandEffect DEF StepKinds
<1>2. CASE Prune
  BY <1>2, <1>t, PruneEffect DEF StepKinds
<1>3. CASE Integrate
  <2>1. Running \in SUBSET Batch /\ (integ.batch \in Batch => {integ.batch} \in SUBSET Batch)
    BY DEF Running
  <2>2. /\ Ends({integ.batch}) => integ.batch \in Batch
        /\ Advances(integ.batch) => integ.batch \in Batch
    BY DEF Ends, Advances, Live
  <2> QED
    BY <1>3, <2>1, <2>2, IntegratorEffect DEF StepKinds
<1>4. CASE StopIntegration \/ UNCHANGED vars
  BY <1>4 DEF StopIntegration, vars, StepKinds, Still
<1>5. ASSUME NEW b \in Batch, BatchCommand(b)
      PROVE  StepKinds
  <2>1. {b} \in SUBSET Batch
    OBVIOUS
  <2> QED
    BY <1>5, <1>t, <2>1, BatchCommandEffect DEF StepKinds
<1> QED
  BY <1>1, <1>2, <1>3, <1>4, <1>5 DEF Next

LEMMA KindsCarry ==
  ASSUME TypeOK, LiveCarry, CarriedLive, StepKinds
  PROVE  LiveCarry' /\ CarriedLive'
<1>1. CASE Still
  BY <1>1 DEF Still, LiveCarry, CarriedLive, Carries, Live
<1> QED
  BY <1>1, CommandCarries, ForgetsCarries, EndsCarries, AdvancesCarries, StartsCarries DEF StepKinds

\* What a process that fails its batch relies on.
LEMMA FailureKept ==
  ASSUME Regular, CarryInv, [Next]_vars
  PROVE  FailingRuns' /\ CulpritPlanned'
<1>t. TypeOK /\ WorksOnBatch /\ OwnRecord /\ FailingRuns /\ CulpritPlanned
  BY DEF CarryInv, IInv, BranchInv, BranchFacts
<1>1. CASE LeavesAlone
  BY <1>1, <1>t DEF LeavesAlone, FailingRuns, CulpritPlanned, WorksOnBatch
<1>2. CASE integ' = Idle
  BY <1>2 DEF Idle, FailingRuns, CulpritPlanned
<1>3. CASE Integrate
  <2>g. /\ Unlock \/ RefuseStart \/ FinishIntegration \/ FailBatch \/ FailUnrecorded => integ' = Idle
        /\ \/ StartBatch \/ VerifyDryRun \/ RecordBranchName \/ CreateBranch \/ Prepare
           => integ'.pc # "failing" /\ integ'.culprit = integ.culprit /\ integ'.plan = integ.plan
        /\ Abort => integ'.plan = integ.plan /\ integ'.batch = integ.batch
                    /\ (integ'.culprit # {} => integ'.culprit \subseteq integ.plan)
    BY <1>3, <1>t, IntegratorGoes
  <2>1. CASE Unlock \/ RefuseStart \/ FinishIntegration \/ FailBatch \/ FailUnrecorded
    BY <1>2, <2>1, <2>g
  <2>2. CASE StartBatch \/ VerifyDryRun \/ RecordBranchName \/ CreateBranch \/ Prepare
    BY <1>t, <2>2, <2>g DEF FailingRuns, CulpritPlanned
  <2>3. CASE Abort
    <3>1. integ.pc \in {"applying", "named", "branched"} /\ UNCHANGED batches
      BY <2>3 DEF Abort, Regular
    <3> QED
      BY <1>t, <2>3, <2>g, <3>1 DEF FailingRuns, CulpritPlanned, OwnRecord
  <2>4. CASE RecoverCleanup \/ RecoverRequeue
    <3>1. /\ integ' = [integ EXCEPT !.pc = "recovering"] \/ integ' = [integ EXCEPT !.pc = "locked"]
          /\ integ \in Integrator
      BY <1>t, <2>4 DEF RecoverCleanup, RecoverRequeue, TypeOK
    <3>2. integ'.pc # "failing" /\ integ'.culprit = integ.culprit /\ integ'.plan = integ.plan
      BY <3>1 DEF Integrator
    <3> QED
      BY <1>t, <3>2 DEF FailingRuns, CulpritPlanned
  <2>5. CASE Plan
    <3>1. integ'.pc # "failing" /\ integ'.culprit = {}
      BY <2>5 DEF Plan
    <3> QED
      BY <3>1 DEF FailingRuns, CulpritPlanned
  <2> QED
    BY <1>3, <2>1, <2>2, <2>3, <2>4, <2>5 DEF Integrate
<1>4. CASE UNCHANGED vars
  BY <1>4, <1>t DEF vars, FailingRuns, CulpritPlanned
<1>5. CASE StopIntegration
  BY <1>2, <1>5 DEF StopIntegration
<1> QED
  BY <1>1, <1>3, <1>4, <1>5, <1>t, CommandsLeaveAlone, BatchCommandLeavesAlone DEF Next, CarryInv

\* What is pushed and not yet recorded stays outstanding: its lock is held.
LEMMA PushedKept ==
  ASSUME CarryInv, [Next]_vars
  PROVE  PushedOutstanding'
<1>t. TypeOK /\ WorksOnBatch /\ OwnRecord /\ FailingRuns /\ PushedOutstanding /\ BranchInv
  BY DEF CarryInv, IInv, BranchInv, BranchFacts
<1>1. CASE (\E t \in Task : TaskCommand(t)) \/ Prune \/ StopIntegration \/ UNCHANGED vars
  <2>1. UNCHANGED pub
    BY <1>1 DEF TaskCommand, RegisterTask, ClaimTask, ExpireLease, ReleaseTask, SubmitTask,
                RetryTask, CancelTask, Prune, StopIntegration, vars
  <2>2. CASE Prune
    <3>1. Forgets
      BY <1>t, <2>2, PruneEffect
    <3> QED
      BY <1>t, <2>1, <3>1 DEF Forgets, PushedOutstanding, Outstanding, PrunableBatch
  <2>3. CASE ~Prune
    <3>1. UNCHANGED batches
      BY <1>1, <2>3 DEF TaskCommand, RegisterTask, ClaimTask, ExpireLease, ReleaseTask, SubmitTask,
                        RetryTask, CancelTask, StopIntegration, vars
    <3> QED
      BY <1>t, <2>1, <3>1 DEF PushedOutstanding, Outstanding
  <2> QED
    BY <2>2, <2>3
<1>2. ASSUME NEW b \in Batch, BatchCommand(b)
      PROVE  PushedOutstanding'
  <2>0. \A c \in Batch \ {b} : batches'[c] = batches[c]
    BY <1>2, <1>t, BatchWrites
  <2>1. CASE PushBatch(b) \/ DropPublication(b) \/ DeleteSuperseded(b)
    <3>1. UNCHANGED batches /\ pub' \subseteq pub \cup {b} /\ (b \notin Outstanding => pub' \subseteq pub)
      BY <2>1 DEF PushBatch, DropPublication, DeleteSuperseded
    <3> QED
      BY <1>t, <3>1 DEF PushedOutstanding, Outstanding
  <2>2. CASE RequireRefresh(b)
    <3>1. batches'[b].status = batches[b].status /\ UNCHANGED pub
      BY <1>2, <1>t, <2>2, BatchWrites DEF RequireRefresh
    <3> QED
      BY <1>t, <2>0, <3>1 DEF PushedOutstanding, Outstanding
  <2>3. CASE RecordPublication(b) \/ MarkMerged(b) \/ CloseBatch(b) \/ FailInvariant(b) \/ RefreshBatch(b)
    <3>1. b \notin pub' /\ pub' \subseteq pub
      BY <2>3 DEF RecordPublication, MarkMerged, CloseBatch, FailInvariant, RefreshBatch, LockFree
    <3> QED
      BY <1>t, <2>0, <3>1 DEF PushedOutstanding, Outstanding
  <2> QED
    BY <1>2, <2>1, <2>2, <2>3 DEF BatchCommand
<1>3. CASE Integrate
  <2>1. UNCHANGED pub /\ (~RecoverRequeue => \A c \in Batch \ {integ.batch} : batches'[c] = batches[c])
    BY <1>3, <1>t, IntegratorWrites
  <2>2. CASE RecoverRequeue
    <3>1. \A b \in Batch \ Running : batches'[b] = batches[b]
      BY <1>t, <2>2, RequeueWrites
    <3>2. Outstanding \cap Running = {}
      BY DEF Outstanding, Running
    <3> QED
      BY <1>t, <2>1, <3>1, <3>2 DEF PushedOutstanding, Outstanding
  <2>3. CASE StartBatch \/ VerifyDryRun \/ RecordBranchName \/ Prepare \/ FailBatch
    <3>1. integ.pc \in {"planned", "applying", "named", "branched", "failing"}
      BY <2>3 DEF StartBatch, VerifyDryRun, RecordBranchName, Prepare, FailBatch
    <3>2. integ.batch \notin pub /\ ~RecoverRequeue
      BY <1>t, <3>1 DEF OwnRecord, FailingRuns, PushedOutstanding, Outstanding, RecoverRequeue
    <3> QED
      BY <1>t, <2>1, <3>2 DEF PushedOutstanding, Outstanding
  <2>4. CASE RecoverCleanup \/ Unlock \/ Plan \/ RefuseStart \/ CreateBranch \/ FinishIntegration
             \/ Abort \/ FailUnrecorded
    <3>1. UNCHANGED batches
      BY <2>4 DEF RecoverCleanup, Unlock, Plan, RefuseStart, CreateBranch, FinishIntegration, Abort,
                  FailUnrecorded
    <3> QED
      BY <1>t, <2>1, <3>1 DEF PushedOutstanding, Outstanding
  <2> QED
    BY <1>3, <2>2, <2>3, <2>4 DEF Integrate
<1> QED
  BY <1>1, <1>2, <1>3 DEF Next

LEMMA CarryStep == Regular /\ CarryInv /\ [Next]_vars => CarryInv'
<1> SUFFICES ASSUME Regular, CarryInv, [Next]_vars
             PROVE  CarryInv'
  OBVIOUS
<1>1. IInv /\ BranchInv /\ TypeOK /\ LiveCarry /\ CarriedLive
  BY DEF CarryInv, IInv
<1>2. IInv' /\ BranchInv'
  BY <1>1, IInvStep, BranchStep
<1>3. LiveCarry' /\ CarriedLive'
  BY <1>1, StepEffect, KindsCarry
<1> QED
  BY <1>2, <1>3, FailureKept, PushedKept DEF CarryInv

LEMMA IInvInit == Init => IInv
  BY InitTypeOK, NewRecords
     DEF Init, IInv, WorksOnBatch, IntegratingInRunningBatch, RunningIsIntegrated, Running, Idle,
         NoTask, UnusedBatch

LEMMA CarryInit == Init => CarryInv
<1> SUFFICES ASSUME Init
             PROVE  CarryInv
  OBVIOUS
<1>1. \A b \in Batch : batches[b].status = "unused"
  BY DEF Init, UnusedBatch
<1>2. \A t \in Task : tasks[t].status = "absent"
  BY DEF Init, NoTask
<1>3. FailingRuns /\ CulpritPlanned /\ PushedOutstanding
  BY DEF Init, Idle, FailingRuns, CulpritPlanned, PushedOutstanding
<1>4. LiveCarry /\ CarriedLive
  BY <1>1, <1>2 DEF LiveCarry, CarriedLive, Live, Carried
<1> QED
  BY <1>3, <1>4, IInvInit, BranchInit DEF CarryInv

LEMMA CarryInvariant == ASSUME Regular PROVE Spec => []CarryInv
  BY CarryInit, CarryStep, PTL DEF Spec

\* No task is carried by two batches that can still merge, as long as no operator
\* takes up a terminal batch again and sidecars can be written.
\* [broker.ts integrateForTarget, refreshBatch]
THEOREM OneLiveBatch == ASSUME Regular PROVE Spec => []OneLiveBatchPerTask
<1>1. CarryInv => OneLiveBatchPerTask
  BY DEF CarryInv, LiveCarry, Carries, OneLiveBatchPerTask
<1> QED
  BY <1>1, CarryInvariant, PTL

\* Under the same condition the batch carries for a task what was last submitted of it.
\* [broker.ts sameSubmittedReceipt, submitTask]
THEOREM ReceiptCarried == ASSUME Regular PROVE Spec => []BatchCarriesReceipt
<1>1. CarryInv => BatchCarriesReceipt
  BY DEF CarryInv, CarriedLive, LiveCarry, Carries, Carried, BatchCarriesReceipt
<1> QED
  BY <1>1, CarryInvariant, PTL

\* Only the transaction that fails a batch charges an attempt, and a batchmate is guilty then.
LEMMA ChargeStep ==
  ASSUME Regular, CarryInv, [Next]_vars, NEW t \in Task, tasks'[t].attempts > tasks[t].attempts
  PROVE  \E d \in Task \ {t} : /\ tasks'[d].status = "failed"
                               /\ d \in batches[tasks[t].batch].tasks
<1>t. /\ TypeOK /\ WorksOnBatch /\ FailingRuns /\ CulpritPlanned /\ RunningIsIntegrated /\ LiveCarry
      /\ tasks \in [Task -> TaskRecord] /\ tasks[t].attempts \in Nat /\ integ.plan \subseteq Task
      /\ \A u \in Task : tasks[u] \in TaskRecord
      /\ \A b \in Batch : batches[b].tasks \subseteq Task
  BY BoundsAssumption DEF CarryInv, IInv, TypeOK, TaskRecord, Integrator, BatchRecord
<1>1. tasks'[t].attempts # tasks[t].attempts /\ tasks'[t].attempts # 0
  BY <1>t
<1>2. FailBatch
  <2> SUFFICES ASSUME ~FailBatch
               PROVE  tasks'[t].attempts \in {0, tasks[t].attempts}
    BY <1>1
  <2>1. ASSUME NEW u \in Task, Command(u)
        PROVE  tasks'[t].attempts \in {0, tasks[t].attempts}
    BY <2>1 DEF Command, Unmoved, Kept, Reopened, Submitted, Retried, Cancelled
  <2>2. CASE Forgets
    BY <2>2 DEF Forgets, Unmoved
  <2>3. ASSUME NEW G, Ends(G)
        PROVE  tasks'[t].attempts \in {0, tasks[t].attempts}
    BY <2>3 DEF Ends, Unmoved, Settled
  <2>4. ASSUME NEW b \in Batch, Advances(b)
        PROVE  tasks'[t].attempts \in {0, tasks[t].attempts}
    BY <2>4 DEF Advances, Unmoved, Kept
  <2>5. CASE Starts
    BY <2>5 DEF Starts, Unmoved, Rebatched
  <2>6. CASE Still
    BY <2>6 DEF Still
  <2> QED
    BY <2>1, <2>2, <2>3, <2>4, <2>5, <2>6, StepEffect DEF StepKinds
<1>3. \A u \in Task : tasks'[u] = IF u \in integ.plan THEN FailedTask(u) ELSE tasks[u]
  BY <1>2 DEF FailBatch
<1>4. t \in integ.plan /\ ~integ.dry /\ Innocent(t)
  <2>1. t \in integ.plan /\ FailedTask(t).attempts # tasks[t].attempts
    BY <1>1, <1>3
  <2>2. ~integ.dry /\ Innocent(t)
    BY <1>t, <2>1 DEF FailedTask, TaskRecord
  <2> QED
    BY <2>1, <2>2
<1>5. PICK d \in integ.culprit : d # t
  BY <1>4 DEF Innocent
<1>6. d \in Task /\ d \in integ.plan /\ ~Innocent(d)
  BY <1>t, <1>5 DEF CulpritPlanned, Innocent
<1>7. tasks'[d].status = "failed"
  <2>1. tasks'[d] = FailedTask(d) /\ tasks[d] \in TaskRecord
    BY <1>t, <1>3, <1>6
  <2> QED
    BY <1>4, <1>6, <2>1 DEF FailedTask, TaskRecord
<1>8. /\ integ.batch \in Live /\ batches[integ.batch].tasks = integ.plan
  BY <1>t, <1>2 DEF FailBatch, FailingRuns, RunningIsIntegrated, Running, Live, WorksOnBatch
<1>9. tasks[t].batch = integ.batch
  BY <1>t, <1>4, <1>8 DEF LiveCarry, Carries
<1> QED
  BY <1>5, <1>6, <1>7, <1>8, <1>9

\* The budget of attempts is spent only for a batchmate that was found guilty: neither
\* recovery nor a refresh nor a rejected batch charges a task.
\* [broker.ts integrateForTarget, refreshBatch, recoverAbandonedIntegrationsLocked]
THEOREM AttemptsCharged == ASSUME Regular PROVE Spec => ChargedForBatchmate
<1>1. CarryInv /\ [Next]_vars =>
        [\A t \in Task :
           tasks'[t].attempts > tasks[t].attempts =>
             \E d \in Task \ {t} : /\ tasks'[d].status = "failed"
                                   /\ d \in batches[tasks[t].batch].tasks]_vars
  BY ChargeStep
<1> QED
  BY <1>1, CarryInvariant, PTL DEF Spec, ChargedForBatchmate

-----------------------------------------------------------------------------
(* Dependencies.  What a task depends on is recorded as long as the task   *)
(* is queued or under way, and merges first; a task of a live batch that   *)
(* was cancelled could come back without its dependencies, so this is      *)
(* about operators who cancel nothing that is being integrated.            *)

\* Of the liberties operators may only force a batch.
Documented == Liberty \subseteq {"force"}

Declared == {"submitted", "failed"} \cup Carried
NoneCancelled == \A b \in Live : \A t \in batches[b].tasks : tasks[t].status \in Carried

\* What a submitted task depends on has a record until the task is done with.
DepsHeld ==
    \A t \in Task : tasks[t].status \in Declared => \A d \in tasks[t].deps : Known(d)

\* The dependencies of a batch's tasks have merged or merge with it.
DepsMet(t, S) == \A d \in tasks[t].deps : tasks[d].status = "merged" \/ d \in S
LiveMet == \A b \in Live : \A t \in batches[b].tasks : DepsMet(t, batches[b].tasks)

\* A task of a plan that has not been submitted again is no further than it was then,
\* and while it is submitted its dependencies are still met.
PlanHolds(t) ==
    /\ integ.seen[t] <= tasks[t].receipt
    /\ tasks[t].receipt = integ.seen[t] =>
         /\ tasks[t].status \in {"submitted", "cancelled", "absent", "registered", "claimed"}
         /\ tasks[t].status = "submitted" => DepsMet(t, integ.plan)
PlanMet == integ.pc = "planned" => \A t \in integ.plan : PlanHolds(t)

DepsInv == CarryInv /\ NoneCancelled /\ DepsHeld /\ LiveMet /\ PlanMet

\* What has merged stays merged, unless it is forgotten.
LEMMA MergedStays ==
  ASSUME TypeOK, LiveCarry, StepKinds, ~Forgets, NEW d \in Task, tasks[d].status = "merged"
  PROVE  tasks'[d].status = "merged"
<1>0. \A b \in Live : d \notin batches[b].tasks
  BY DEF LiveCarry, Carries, CarriedBy
<1>1. ASSUME NEW t \in Task, Command(t)
      PROVE  tasks'[d].status = "merged"
  BY <1>1 DEF Command, Unmoved, Reopened, Submitted, Retried, Cancelled, Submittable, Cancellable
<1>2. ASSUME NEW G, Ends(G)
      PROVE  tasks'[d].status = "merged"
  BY <1>0, <1>2 DEF Ends, Unmoved
<1>3. ASSUME NEW b \in Batch, Advances(b)
      PROVE  tasks'[d].status = "merged"
  BY <1>0, <1>3 DEF Advances, Unmoved
<1>4. CASE Starts
  BY <1>4 DEF Starts, PlanCurrent, Unmoved
<1>5. CASE Still
  BY <1>5 DEF Still
<1> QED
  BY <1>1, <1>2, <1>3, <1>4, <1>5 DEF StepKinds

\* A record goes only when it is forgotten.
LEMMA KnownStays ==
  ASSUME TypeOK, LiveCarry, StepKinds, ~Forgets, NEW d \in Task, Known(d)
  PROVE  Known(d)'
<1>0. \A b \in Batch : batches[b].tasks \subseteq Task
  BY DEF TypeOK, BatchRecord
<1>1. ASSUME NEW t \in Task, Command(t)
      PROVE  tasks'[d].status # "absent"
  BY <1>1 DEF Command, Unmoved, Reopened, Submitted, Retried, Cancelled, Known
<1>2. ASSUME NEW G, Ends(G)
      PROVE  tasks'[d].status # "absent"
  BY <1>2 DEF Ends, Unmoved, Settled, Known
<1>3. ASSUME NEW b \in Batch, Advances(b)
      PROVE  tasks'[d].status # "absent"
  BY <1>0, <1>3 DEF Advances, Unmoved, CarriedBy, Known
<1>4. CASE Starts
  BY <1>4 DEF Starts, Unmoved, Rebatched, Known
<1>5. CASE Still
  BY <1>5 DEF Still, Known
<1> QED
  BY <1>1, <1>2, <1>3, <1>4, <1>5 DEF StepKinds, Known

\* A task that was submitted and is not done with keeps what it declared it depends on.
LEMMA DepsStay ==
  ASSUME TypeOK, LiveCarry, NoneCancelled, StepKinds, NEW t \in Task, tasks'[t].status \in Declared
  PROVE  /\ tasks'[t].deps = tasks[t].deps
         /\ \/ tasks[t].status \in Declared
            \/ \A d \in tasks[t].deps : Known(d)
<1>0. \A b \in Batch : batches[b].tasks \subseteq Task
  BY DEF TypeOK, BatchRecord
<1>1. ASSUME NEW u \in Task, Command(u)
      PROVE  /\ tasks'[t].deps = tasks[t].deps
             /\ tasks[t].status \in Declared \/ \A d \in tasks[t].deps : Known(d)
  BY <1>1 DEF Command, Unmoved, Kept, Reopened, Submitted, Retried, Cancelled, Declared, Carried
<1>2. CASE Forgets
  BY <1>2 DEF Forgets, Unmoved, Declared, Carried
<1>3. ASSUME NEW G, Ends(G)
      PROVE  tasks'[t].deps = tasks[t].deps /\ tasks[t].status \in Declared
  BY <1>3 DEF Ends, Unmoved, Settled, NoneCancelled, Declared
<1>4. ASSUME NEW b \in Batch, Advances(b)
      PROVE  tasks'[t].deps = tasks[t].deps /\ tasks[t].status \in Declared
  BY <1>4 DEF Advances, Unmoved, Kept, NoneCancelled, Declared
<1>5. CASE Starts
  BY <1>5 DEF Starts, PlanCurrent, Unmoved, Rebatched, Declared
<1>6. CASE Still
  BY <1>6 DEF Still
<1> QED
  BY <1>1, <1>2, <1>3, <1>4, <1>5, <1>6 DEF StepKinds

\* The dependencies of a task that is queued or under way are not forgotten.
LEMMA Protected ==
  ASSUME TypeOK, LiveCarry, StepKinds, NEW t \in Task, tasks[t].status \in Declared,
         NEW d \in tasks[t].deps
  PROVE  /\ Known(d) => Known(d)'
         /\ tasks[d].status = "merged" => tasks'[d].status = "merged"
<1>0. d \in Task
  BY DEF TypeOK, TaskRecord
<1>1. CASE Forgets
  <2>1. tasks'[d] = tasks[d]
    BY <1>1 DEF Forgets, Unmoved, Declared, Carried, Known, PrunableTask
  <2> QED
    BY <2>1 DEF Known
<1>2. CASE ~Forgets
  BY <1>0, <1>2, MergedStays, KnownStays
<1> QED
  BY <1>1, <1>2

\* A batch is live because it was, with the same tasks, or because its plan just started.
LEMMA LiveStays ==
  ASSUME "cancel" \notin Liberty, TypeOK, LiveCarry, NoneCancelled, StepKinds,
         NEW c \in Live', NEW t \in batches'[c].tasks
  PROVE  /\ tasks'[t].status \in Carried
         /\ \/ c \in Live /\ batches'[c].tasks = batches[c].tasks
            \/ integ.pc = "planned" /\ PlanCurrent /\ batches'[c].tasks = integ.plan
<1>0. /\ \A b \in Batch : batches[b].tasks \subseteq Task
      /\ \A b \in Live : \A u \in batches[b].tasks : tasks[u].batch = b /\ tasks[u].status \in Carried
      /\ c \in Batch /\ integ.plan \subseteq Task
  BY DEF TypeOK, BatchRecord, Integrator, LiveCarry, Carries, NoneCancelled, Live
<1>1. ASSUME NEW u \in Task, Command(u)
      PROVE  tasks'[t].status \in Carried /\ c \in Live /\ batches'[c].tasks = batches[c].tasks
  <2>1. UNCHANGED batches /\ c \in Live /\ t \in Task /\ tasks[t].status \in Carried
    BY <1>0, <1>1 DEF Command, Live
  <2>2. tasks'[t].status = tasks[t].status
    BY <1>1, <2>1 DEF Command, Unmoved, Reopened, Submitted, Retried, Cancelled, Submittable,
                      Cancellable, Carried
  <2> QED
    BY <2>1, <2>2
<1>2. CASE Forgets
  <2>1. c \in Live /\ batches'[c] = batches[c]
    BY <1>0, <1>2 DEF Forgets, Live, PrunableBatch
  <2>2. t \in Task /\ tasks[t].status \in Carried
    BY <1>0, <2>1
  <2> QED
    BY <1>2, <2>1, <2>2 DEF Forgets, Unmoved, Carried, PrunableTask
<1>3. ASSUME NEW G, Ends(G)
      PROVE  tasks'[t].status \in Carried /\ c \in Live /\ batches'[c].tasks = batches[c].tasks
  <2>1. c \in Live \ G /\ batches'[c] = batches[c]
    BY <1>0, <1>3 DEF Ends, Live, LiveStatus
  <2>2. t \in Task /\ tasks[t].status \in Carried /\ tasks[t].batch = c
    BY <1>0, <2>1
  <2>3. \A b \in G : t \notin batches[b].tasks
    BY <1>0, <1>3, <2>1, <2>2 DEF Ends
  <2> QED
    BY <1>3, <2>1, <2>2, <2>3 DEF Ends, Unmoved
<1>4. ASSUME NEW b \in Batch, Advances(b)
      PROVE  tasks'[t].status \in Carried /\ c \in Live /\ batches'[c].tasks = batches[c].tasks
  <2>1. c \in Live /\ batches'[c].tasks = batches[c].tasks
    BY <1>0, <1>4 DEF Advances, Live
  <2>2. t \in Task /\ t \in batches[c].tasks /\ tasks[t].status \in Carried /\ tasks[t].batch = c
    BY <1>0, <2>1
  <2>3. CASE c = b
    BY <1>4, <2>2, <2>3 DEF Advances, CarriedBy, Carried
  <2>4. CASE c # b
    <3>1. b \in Live
      BY <1>4 DEF Advances
    <3>2. t \notin batches[b].tasks
      BY <1>0, <2>2, <2>4, <3>1
    <3>3. \A u \in Task \ batches[b].tasks : tasks'[u] = tasks[u]
      BY <1>4 DEF Advances, Unmoved
    <3> QED
      BY <2>1, <2>2, <3>2, <3>3
  <2> QED
    BY <2>1, <2>3, <2>4
<1>5. CASE Starts
  <2>1. CASE c = integ.batch
    <3>1. t \in integ.plan /\ batches'[c].tasks = integ.plan
      BY <1>5, <2>1 DEF Starts
    <3>2. Rebatched(t, "integrating", integ.batch)
      BY <1>5, <3>1 DEF Starts
    <3> QED
      BY <1>5, <3>1, <3>2 DEF Starts, Rebatched, Carried
  <2>2. CASE c # integ.batch
    <3>1. c \in Live /\ batches'[c] = batches[c]
      BY <1>0, <1>5, <2>2 DEF Starts, Live
    <3>2. t \in Task /\ tasks[t].status \in Carried
      BY <1>0, <3>1
    <3>3. t \notin integ.plan
      BY <1>5, <3>2 DEF Starts, PlanCurrent, Carried
    <3> QED
      BY <1>5, <3>1, <3>2, <3>3 DEF Starts, Unmoved
  <2> QED
    BY <2>1, <2>2
<1>6. CASE Still
  BY <1>0, <1>6 DEF Still, Live
<1> QED
  BY <1>1, <1>2, <1>3, <1>4, <1>5, <1>6 DEF StepKinds

LEMMA HeldStep ==
  ASSUME TypeOK, LiveCarry, NoneCancelled, DepsHeld, StepKinds
  PROVE  DepsHeld'
<1>1. ASSUME NEW t \in Task, tasks'[t].status \in Declared, NEW d \in tasks'[t].deps
      PROVE  Known(d)'
  <2>1. d \in tasks[t].deps /\ d \in Task
    BY <1>1, DepsStay DEF TypeOK, TaskRecord
  <2>2. CASE tasks[t].status \in Declared
    BY <2>1, <2>2, Protected DEF DepsHeld
  <2>3. CASE tasks[t].status \notin Declared
    <3>1. Known(d)
      BY <1>1, <2>1, <2>3, DepsStay
    <3>2. ~Forgets
      BY <1>1, <2>3 DEF Forgets, Unmoved, Declared, Carried
    <3> QED
      BY <2>1, <3>1, <3>2, KnownStays
  <2> QED
    BY <2>2, <2>3
<1> QED
  BY <1>1 DEF DepsHeld

LEMMA LiveMetStep ==
  ASSUME "cancel" \notin Liberty, TypeOK, LiveCarry, NoneCancelled, LiveMet, PlanMet, StepKinds
  PROVE  NoneCancelled' /\ LiveMet'
<1>1. NoneCancelled'
  BY LiveStays DEF NoneCancelled
<1>2. ASSUME NEW c \in Live', NEW t \in batches'[c].tasks, NEW d \in tasks'[t].deps
      PROVE  tasks'[d].status = "merged" \/ d \in batches'[c].tasks
  <2>1. /\ tasks'[t].status \in Carried
        /\ \/ c \in Live /\ batches'[c].tasks = batches[c].tasks
           \/ integ.pc = "planned" /\ PlanCurrent /\ batches'[c].tasks = integ.plan
    BY LiveStays
  <2>2. t \in Task
    BY <1>2, <2>1 DEF TypeOK, BatchRecord, Integrator, Live
  <2>3. tasks'[t].deps = tasks[t].deps
    BY <2>1, <2>2, DepsStay DEF Declared
  <2>4. tasks[t].status \in Declared /\ DepsMet(t, batches'[c].tasks)
    <3>1. CASE c \in Live /\ batches'[c].tasks = batches[c].tasks
      BY <1>2, <3>1 DEF NoneCancelled, LiveMet, Declared
    <3>2. CASE integ.pc = "planned" /\ PlanCurrent /\ batches'[c].tasks = integ.plan
      BY <1>2, <3>2 DEF PlanMet, PlanHolds, PlanCurrent, Declared
    <3> QED
      BY <2>1, <3>1, <3>2
  <2>5. tasks[d].status = "merged" \/ d \in batches'[c].tasks
    BY <1>2, <2>3, <2>4 DEF DepsMet
  <2> QED
    BY <1>2, <2>2, <2>3, <2>4, <2>5, Protected
<1>3. LiveMet'
  BY <1>2 DEF LiveMet, DepsMet
<1> QED
  BY <1>1, <1>3

\* While the integrator stands by its plan, the plan stays good enough.
LEMMA PlanKept ==
  ASSUME TypeOK, LiveCarry, NoneCancelled, UNCHANGED integ, StepKinds, ~Starts,
         NEW t \in integ.plan, PlanHolds(t)
  PROVE  PlanHolds(t)'
<1> DEFINE Early == {"submitted", "cancelled", "absent", "registered", "claimed"}
           Stays == /\ tasks'[t].receipt = tasks[t].receipt
                    /\ tasks[t].receipt = integ.seen[t] =>
                         /\ tasks'[t].status \in Early
                         /\ tasks'[t].status = "submitted" =>
                              tasks[t].status = "submitted" /\ tasks'[t].deps = tasks[t].deps
<1>0. /\ t \in Task /\ integ.seen[t] \in Nat /\ tasks[t].receipt \in Nat
      /\ \A b \in Batch : batches[b].tasks \subseteq Task
  BY BoundsAssumption DEF TypeOK, TaskRecord, BatchRecord, Integrator, Receipt
<1>1. tasks[t].receipt = integ.seen[t] => \A b \in Live : t \notin batches[b].tasks
  BY DEF PlanHolds, NoneCancelled, Carried
<1>e. tasks[t].receipt = integ.seen[t] => tasks[t].status \in Early
  BY DEF PlanHolds
<1>u. Unmoved(t) => Stays
  BY <1>e DEF Unmoved
<1>2. tasks'[t].receipt = tasks[t].receipt + 1 \/ Stays
  <2>1. ASSUME NEW u \in Task, Command(u)
        PROVE  tasks'[t].receipt = tasks[t].receipt + 1 \/ Stays
    <3>1. CASE u # t
      BY <1>0, <1>u, <2>1, <3>1 DEF Command
    <3>2. CASE Submitted(t)
      BY <3>2 DEF Submitted
    <3>3. CASE Reopened(t)
      BY <3>3 DEF Reopened
    <3>4. CASE Retried(t)
      BY <1>e, <3>4 DEF Retried
    <3>5. CASE Cancelled(t)
      BY <3>5 DEF Cancelled, Kept
    <3>6. CASE tasks'[t].status = tasks[t].status /\ Kept(t)
      BY <1>e, <3>6 DEF Kept
    <3> QED
      BY <2>1, <3>1, <3>2, <3>3, <3>4, <3>5, <3>6 DEF Command
  <2>2. CASE Forgets
    BY <1>0, <1>u, <2>2 DEF Forgets
  <2>3. ASSUME NEW G, Ends(G)
        PROVE  Stays
    <3>1. CASE Unmoved(t)
      BY <1>u, <3>1
    <3>2. CASE ~Unmoved(t)
      <4>1. Settled(t) /\ \E b \in Live : t \in batches[b].tasks
        BY <1>0, <2>3, <3>2 DEF Ends
      <4> QED
        BY <1>1, <4>1 DEF Settled
    <3> QED
      BY <3>1, <3>2
  <2>4. ASSUME NEW b \in Batch, Advances(b)
        PROVE  Stays
    <3>1. CASE t \in batches[b].tasks
      BY <1>1, <2>4, <3>1 DEF Advances, Kept
    <3>2. CASE t \notin batches[b].tasks
      BY <1>0, <1>u, <2>4, <3>2 DEF Advances
    <3> QED
      BY <3>1, <3>2
  <2>5. CASE Still
    BY <1>u, <2>5 DEF Still, Unmoved
  <2> QED
    BY <2>1, <2>2, <2>3, <2>4, <2>5 DEF StepKinds
<1>3. CASE tasks'[t].receipt = tasks[t].receipt + 1
  BY <1>0, <1>3 DEF PlanHolds
<1>4. CASE tasks'[t].receipt = tasks[t].receipt
  <2>1. ASSUME tasks[t].receipt = integ.seen[t], tasks'[t].status = "submitted"
        PROVE  DepsMet(t, integ.plan)'
    <3>1. tasks[t].status = "submitted" /\ tasks'[t].deps = tasks[t].deps /\ DepsMet(t, integ.plan)
      BY <1>0, <1>2, <1>4, <2>1 DEF PlanHolds
    <3>2. ASSUME NEW d \in tasks[t].deps
          PROVE  tasks'[d].status = "merged" \/ d \in integ.plan
      BY <1>0, <3>1, <3>2, Protected DEF DepsMet, Declared
    <3> QED
      BY <3>1, <3>2 DEF DepsMet
  <2> QED
    BY <1>0, <1>2, <1>4, <2>1 DEF PlanHolds
<1> QED
  BY <1>2, <1>3, <1>4

\* A plan is made of submitted tasks whose dependencies are met.
LEMMA PlanMade ==
  ASSUME TypeOK, Plan
  PROVE  PlanMet'
<1>1. PICK S \in SUBSET Task, b \in Batch, dry \in BOOLEAN :
        /\ Schedulable(S)
        /\ integ' = [pc |-> "planned", batch |-> b, plan |-> S, dry |-> dry, culprit |-> {},
                     seen |-> [t \in Task |-> IF t \in S THEN tasks[t].receipt ELSE 0]]
  BY DEF Plan
<1>2. /\ integ'.plan = S /\ UNCHANGED tasks
      /\ \A t \in S : integ'.seen[t] = tasks[t].receipt
  BY <1>1 DEF Plan
<1>3. ASSUME NEW t \in S
      PROVE  PlanHolds(t)'
  <2>1. tasks[t].status = "submitted" /\ DepsMet(t, S)
    BY <1>1 DEF Schedulable, Satisfied, DepsMet
  <2>2. tasks[t].receipt \in Nat
    BY BoundsAssumption DEF TypeOK, TaskRecord, Receipt
  <2>3. DepsMet(t, integ.plan)'
    BY <1>2, <2>1 DEF DepsMet
  <2> QED
    BY <1>2, <2>1, <2>2, <2>3 DEF PlanHolds
<1> QED
  BY <1>2, <1>3 DEF PlanMet

LEMMA PlanMetStep ==
  ASSUME Regular, CarryInv, NoneCancelled, PlanMet, [Next]_vars
  PROVE  PlanMet'
<1>t. TypeOK /\ LiveCarry /\ BranchInv /\ StepKinds
  BY StepEffect DEF CarryInv, IInv
<1>1. CASE UNCHANGED integ
  <2>1. CASE integ.pc = "planned" /\ Starts
    <3>1. batches[integ.batch].status = "unused" /\ batches'[integ.batch].status = "running"
      BY <1>t, <2>1 DEF BranchInv, BranchFacts, OwnRecord, Starts
    <3>2. ~LeavesAlone /\ batches' # batches /\ ~StopIntegration
      BY <1>1, <1>t, <2>1, <3>1 DEF LeavesAlone, BranchInv, WorksOnBatch, StopIntegration, Idle
    <3>3. Integrate
      BY <1>t, <3>2, CommandsLeaveAlone, BatchCommandLeavesAlone DEF Next, vars
    <3>4. StartBatch
      BY <2>1, <3>2, <3>3
      DEF Integrate, RecoverCleanup, RecoverRequeue, Unlock, Plan, RefuseStart, VerifyDryRun,
          RecordBranchName, CreateBranch, Prepare, FinishIntegration, Abort, FailBatch, FailUnrecorded
    <3>5. integ'.pc = "applying"
      BY <1>t, <3>3, <3>4, IntegratorGoes
    <3> QED
      BY <3>5 DEF PlanMet
  <2>2. CASE ~Starts
    BY <1>1, <1>t, <2>2, PlanKept DEF PlanMet
  <2>3. CASE integ.pc # "planned"
    BY <1>1, <2>3 DEF PlanMet
  <2> QED
    BY <2>1, <2>2, <2>3
<1>2. CASE integ'.pc # "planned"
  BY <1>2 DEF PlanMet
<1>3. CASE Plan
  BY <1>3, <1>t, PlanMade
<1>4. UNCHANGED integ \/ integ'.pc # "planned" \/ Plan
  <2>1. CASE Integrate
    BY <1>t, <2>1, IntegratorGoes DEF Integrate, Idle
  <2>2. CASE StopIntegration
    BY <2>2 DEF StopIntegration, Idle
  <2>3. CASE ~Integrate /\ ~StopIntegration
    BY <1>t, <2>3, CommandsLeaveAlone, BatchCommandLeavesAlone DEF Next, vars, LeavesAlone
  <2> QED
    BY <2>1, <2>2, <2>3
<1> QED
  BY <1>1, <1>2, <1>3, <1>4

LEMMA DepsStep == Documented /\ DepsInv /\ [Next]_vars => DepsInv'
<1> SUFFICES ASSUME Documented, DepsInv, [Next]_vars
             PROVE  DepsInv'
  OBVIOUS
<1>1. Regular /\ "cancel" \notin Liberty
  BY DEF Documented, Regular
<1>2. CarryInv /\ TypeOK /\ LiveCarry /\ NoneCancelled /\ DepsHeld /\ LiveMet /\ PlanMet
  BY DEF DepsInv, CarryInv, IInv
<1>3. StepKinds /\ CarryInv'
  BY <1>1, <1>2, StepEffect, CarryStep
<1>4. DepsHeld'
  BY <1>2, <1>3, HeldStep
<1>5. NoneCancelled' /\ LiveMet'
  BY <1>1, <1>2, <1>3, LiveMetStep
<1>6. PlanMet'
  BY <1>1, <1>2, PlanMetStep
<1> QED
  BY <1>3, <1>4, <1>5, <1>6 DEF DepsInv

LEMMA DepsInit == Init => DepsInv
<1> SUFFICES ASSUME Init
             PROVE  DepsInv
  OBVIOUS
<1>1. \A b \in Batch : batches[b].status = "unused"
  BY DEF Init, UnusedBatch
<1>2. \A t \in Task : tasks[t].status = "absent"
  BY DEF Init, NoTask
<1>3. PlanMet
  BY DEF Init, Idle, PlanMet
<1>4. NoneCancelled /\ LiveMet /\ DepsHeld
  BY <1>1, <1>2 DEF NoneCancelled, LiveMet, DepsHeld, Declared, Live, Carried
<1> QED
  BY <1>3, <1>4, CarryInit DEF DepsInv

LEMMA DepsInvariant == ASSUME Documented PROVE Spec => []DepsInv
  BY DepsInit, DepsStep, PTL DEF Spec

\* Pruning takes away no dependency of work that is queued or under way, as long as
\* operators cancel nothing that is being integrated and take up no terminal batch.
\* [broker.ts selectPrunable]
THEOREM DependenciesStay == ASSUME Documented PROVE Spec => []DependenciesKept
<1>1. DepsInv => DependenciesKept
  BY DEF DepsInv, DepsHeld, Declared, Carried, DependenciesKept
<1> QED
  BY <1>1, DepsInvariant, PTL

\* A task merges with a live batch that carries it, by MarkMerged.
LEMMA MergesWithBatch ==
  ASSUME Regular, CarryInv, [Next]_vars, NEW t \in Task,
         tasks[t].status # "merged", tasks'[t].status = "merged"
  PROVE  \E b \in Live : MarkMerged(b) /\ t \in batches[b].tasks
<1>t. /\ TypeOK /\ StepKinds
      /\ \A b \in Batch : batches[b].tasks \subseteq Task
  BY StepEffect DEF CarryInv, IInv, TypeOK, BatchRecord
<1>1. PICK b \in Batch : MarkMerged(b)
  <2>1. ASSUME NEW u \in Task, Command(u)
        PROVE  FALSE
    BY <2>1 DEF Command, Unmoved, Reopened, Submitted, Retried, Cancelled
  <2>2. CASE Forgets
    BY <2>2 DEF Forgets, Unmoved
  <2>3. ASSUME NEW G, Ends(G)
        PROVE  \E b \in Batch : MarkMerged(b)
    BY <2>3 DEF Ends, Unmoved, Settled
  <2>4. ASSUME NEW b \in Batch, Advances(b)
        PROVE  FALSE
    BY <1>t, <2>4 DEF Advances, Unmoved, CarriedBy
  <2>5. CASE Starts
    BY <2>5 DEF Starts, Unmoved, Rebatched
  <2>6. CASE Still
    BY <2>6 DEF Still
  <2> QED
    BY <1>t, <2>1, <2>2, <2>3, <2>4, <2>5, <2>6 DEF StepKinds
<1>2. b \in Live
  BY <1>1 DEF MarkMerged, Completable, Regular, Live
<1>3. t \in batches[b].tasks
  BY <1>1 DEF MarkMerged
<1> QED
  BY <1>1, <1>2, <1>3

\* The whole batch merges, and what its tasks depend on besides has merged.
LEMMA MergeStep ==
  ASSUME Documented, DepsInv, [Next]_vars, NEW t \in Task,
         tasks[t].status # "merged", tasks'[t].status = "merged", NEW d \in tasks[t].deps
  PROVE  tasks'[d].status = "merged"
<1>t. Regular /\ CarryInv /\ TypeOK /\ LiveMet
  BY DEF Documented, Regular, DepsInv, CarryInv, IInv
<1>r. d \in Task /\ \A u \in Task : tasks[u] \in TaskRecord
  BY <1>t DEF TypeOK, TaskRecord
<1>1. PICK b \in Live : MarkMerged(b) /\ t \in batches[b].tasks
  BY <1>t, MergesWithBatch
<1>2. \A u \in Task : tasks'[u] = IF u \in batches[b].tasks
                                THEN [tasks[u] EXCEPT !.status = "merged"] ELSE tasks[u]
  BY <1>1 DEF MarkMerged
<1>3. \A u \in Task : [tasks[u] EXCEPT !.status = "merged"].status = "merged"
  BY <1>r DEF TaskRecord
<1>4. tasks[d].status = "merged" \/ d \in batches[b].tasks
  BY <1>t, <1>1 DEF LiveMet, DepsMet
<1> QED
  BY <1>r, <1>2, <1>3, <1>4

\* A task merges only once what it depends on has merged or merges with it, under the
\* same condition.  [scheduler.ts dependencyReady, broker.ts markBatchMergedLocked]
THEOREM DependenciesFirst == ASSUME Documented PROVE Spec => DependenciesMergeFirst
<1>1. DepsInv /\ [Next]_vars =>
        [\A t \in Task :
           (tasks[t].status # "merged" /\ tasks'[t].status = "merged") =>
             \A d \in tasks[t].deps : tasks'[d].status = "merged"]_vars
  BY MergeStep
<1> QED
  BY <1>1, DepsInvariant, PTL DEF Spec, DependenciesMergeFirst

\* What is recorded as merged is what was last submitted, and a batch carried it, as long as
\* no terminal batch is taken up again.  [broker.ts markBatchMergedLocked, batch complete]
THEOREM MergedLanded == ASSUME Regular PROVE Spec => MergedReceiptLanded
<1>1. ASSUME CarryInv, [Next]_vars, NEW t \in Task,
             tasks[t].status # "merged", tasks'[t].status = "merged"
      PROVE  \E b \in Batch : /\ batches'[b].status = "merged"
                              /\ t \in batches[b].tasks
                              /\ batches[b].receipt[t] = tasks[t].receipt
  <2>1. PICK b \in Live : MarkMerged(b) /\ t \in batches[b].tasks
    BY <1>1, MergesWithBatch
  <2>2. b \in Batch /\ BatchCommand(b)
    BY <2>1 DEF Live, BatchCommand
  <2>3. batches'[b].status = "merged"
    BY <1>1, <2>1, <2>2, BatchWrites DEF CarryInv, IInv
  <2>4. batches[b].receipt[t] = tasks[t].receipt
    BY <1>1, <2>1 DEF CarryInv, LiveCarry, Carries
  <2> QED
    BY <2>1, <2>2, <2>3, <2>4
<1>2. CarryInv /\ [Next]_vars =>
        [\A t \in Task :
           (tasks[t].status # "merged" /\ tasks'[t].status = "merged") =>
             \E b \in Batch : /\ batches'[b].status = "merged"
                              /\ t \in batches[b].tasks
                              /\ batches[b].receipt[t] = tasks[t].receipt]_vars
  BY <1>1
<1> QED
  BY <1>2, CarryInvariant, PTL DEF Spec, MergedReceiptLanded

\* A cancelled task stays cancelled until its record is pruned, as long as none is
\* cancelled that is being integrated.  [broker.ts cancelTask, recoveryHint]
THEOREM CancelledStays == ASSUME Documented PROVE Spec => CancelledIsFinal
<1>1. ASSUME DepsInv, [Next]_vars, NEW t \in Task, tasks[t].status = "cancelled"
      PROVE  tasks'[t].status \in {"cancelled", "absent"}
  <2>t. /\ StepKinds /\ \A b \in Live : t \notin batches[b].tasks
    <3>1. Regular /\ CarryInv /\ NoneCancelled
      BY <1>1 DEF Documented, Regular, DepsInv
    <3> QED
      BY <1>1, <3>1, StepEffect DEF NoneCancelled, Carried
  <2>1. ASSUME NEW u \in Task, Command(u)
        PROVE  tasks'[t].status = "cancelled"
    BY <1>1, <2>1 DEF Command, Unmoved, Reopened, Submitted, Retried, Cancelled, Submittable
  <2>2. CASE Forgets
    BY <1>1, <2>2 DEF Forgets, Unmoved
  <2>3. ASSUME NEW G, Ends(G)
        PROVE  tasks'[t].status = "cancelled"
    BY <1>1, <2>t, <2>3 DEF Ends, Unmoved
  <2>4. ASSUME NEW b \in Batch, Advances(b)
        PROVE  tasks'[t].status = "cancelled"
    BY <1>1, <2>t, <2>4 DEF Advances, Unmoved
  <2>5. CASE Starts
    BY <1>1, <2>5 DEF Starts, PlanCurrent, Unmoved
  <2>6. CASE Still
    BY <1>1, <2>6 DEF Still
  <2> QED
    BY <2>t, <2>1, <2>2, <2>3, <2>4, <2>5, <2>6 DEF StepKinds
<1>2. DepsInv /\ [Next]_vars =>
        [\A t \in Task : tasks[t].status = "cancelled" => tasks'[t].status \in {"cancelled", "absent"}]_vars
  BY <1>1
<1> QED
  BY <1>2, DepsInvariant, PTL DEF Spec, CancelledIsFinal
=============================================================================
