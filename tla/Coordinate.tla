----------------------------- MODULE Coordinate -----------------------------
(***************************************************************************)
(* The task and batch aggregate of the broker (src/src/broker.ts), one     *)
(* action per transaction on state.json.  A transaction runs under the     *)
(* state lock, so it is atomic here; everything a command does between two *)
(* transactions is an interleaving point.  Three kinds of actor step:      *)
(*                                                                         *)
(*   - workers and the owner, whose commands are one transaction each      *)
(*     (register, claim, submit, release, retry, cancel, prune);           *)
(*   - the holder of the integration lock, whose local variables are       *)
(*     `integ`: it recovers, plans, starts a batch, applies and validates  *)
(*     it, creates its branch and prepares it, and may stop at any point;  *)
(*   - the holder of a batch lock, who publishes, completes, closes, fails *)
(*     or refreshes a batch.  What the forge answered is not modelled here *)
(*     (any answer the code acts on may come); Approval models it.         *)
(***************************************************************************)
EXTENDS Integers, FiniteSets

CONSTANTS
    Task,        \* task identifiers
    DepSets,     \* per task, the dependency sets a claim may declare
    MaxBatch,    \* bound: batches cut in a behaviour
    MaxReceipt,  \* bound: receipts submitted for one task
    MaxAttempts, \* integration.maxAttempts
    MaxCrash,    \* bound: integration processes that stop half-way
    Liberty      \* what operators and the host may do besides: see Liberties

(***************************************************************************)
(* "force":  integrate --force, cutting a batch beside an outstanding one. *)
(* "revive": batch sync or complete aimed at a batch that is terminal.     *)
(* "cancel": task cancel aimed at a task that is being integrated.         *)
(* "disk":   a sidecar write fails after its transaction committed.        *)
(***************************************************************************)
Liberties == {"force", "revive", "cancel", "disk"}

ASSUME BoundsAssumption ==
    /\ MaxBatch \in Nat \ {0}
    /\ MaxReceipt \in Nat \ {0}
    /\ MaxAttempts \in Nat \ {0}
    /\ MaxCrash \in Nat
ASSUME InputAssumption ==
    /\ DepSets \in [Task -> SUBSET SUBSET Task]
    /\ Liberty \subseteq Liberties

Batch == 1..MaxBatch
NoBatch == 0
Receipt == 0..MaxReceipt     \* 0: nothing submitted yet

TaskStatus == {"registered", "claimed", "submitted", "integrating", "batched",
               "published", "merged", "failed", "cancelled"}
BatchStatus == {"running", "verified", "prepared", "published", "merged",
                "failed", "closed"}

\* "absent" is a task id without a record; "unused" a batch id not yet cut,
\* "pruned" one whose record was retired.  `receipt` numbers the submissions of
\* a task id (submittedAt and commits tell them apart) and is never reused;
\* `leased` says that its lease has not run out.
TaskRecord ==
    [status   : TaskStatus \cup {"absent"},
     leased   : BOOLEAN,
     batch    : Batch \cup {NoBatch},
     attempts : 0..(MaxAttempts - 1),
     receipt  : Receipt,
     deps     : SUBSET Task]
BatchRecord ==
    [status  : BatchStatus \cup {"unused", "pruned"},
     tasks   : SUBSET Task,
     receipt : [Task -> Receipt],
     named   : BOOLEAN,
     pr      : BOOLEAN,
     refresh : BOOLEAN]

NoTask == [status |-> "absent", leased |-> FALSE, batch |-> NoBatch,
           attempts |-> 0, receipt |-> 0, deps |-> {}]
UnusedBatch == [status |-> "unused", tasks |-> {}, receipt |-> [t \in Task |-> 0],
                named |-> FALSE, pr |-> FALSE, refresh |-> FALSE]

Phases == {"idle", "recovering", "locked", "planned", "applying",
           "named", "branched", "prepared", "verified", "failing"}
Integrator ==
    [pc : Phases, batch : Batch \cup {NoBatch}, plan : SUBSET Task,
     seen : [Task -> Receipt], dry : BOOLEAN, culprit : SUBSET Task]
Idle == [pc |-> "idle", batch |-> NoBatch, plan |-> {}, seen |-> [t \in Task |-> 0],
         dry |-> FALSE, culprit |-> {}]

VARIABLES
    tasks,     \* state.tasks
    batches,   \* state.batches
    integ,     \* local variables of the process holding the integration lock
    branches,  \* batches whose local integration branch exists in Git
    pub,       \* batches pushed by a process that has not recorded it yet
    crashes    \* processes stopped so far

vars == <<tasks, batches, integ, branches, pub, crashes>>

TypeOK ==
    /\ tasks \in [Task -> TaskRecord]
    /\ batches \in [Batch -> BatchRecord]
    /\ integ \in Integrator
    /\ branches \subseteq Batch
    /\ pub \subseteq Batch
    /\ crashes \in 0..MaxCrash

Init ==
    /\ tasks = [t \in Task |-> NoTask]
    /\ batches = [b \in Batch |-> UnusedBatch]
    /\ integ = Idle
    /\ branches = {}
    /\ pub = {}
    /\ crashes = 0

-----------------------------------------------------------------------------
(* Readings of the state that several commands share.                      *)

Known(t) == tasks[t].status # "absent"
Recorded(b) == batches[b].status \notin {"unused", "pruned"}
Outstanding == {b \in Batch : batches[b].status \in {"prepared", "published"}}
Running == {b \in Batch : batches[b].status = "running"}

Submittable == {"claimed", "failed", "submitted"}
Cancellable == TaskStatus \ ({"batched", "published", "merged"}
                              \cup IF "cancel" \in Liberty THEN {} ELSE {"integrating"})
PrunableTask == {"merged", "cancelled"}
PrunableBatch == {"merged", "closed", "failed"}

\* The tasks of batch b all have a record: requireTask throws otherwise.
TasksKnown(b) == \A t \in batches[b].tasks : Known(t)
\* No task of batch b belongs to a replacement batch.
NotReassigned(b) == \A t \in batches[b].tasks : tasks[t].batch \in {NoBatch, b}

-----------------------------------------------------------------------------
(* Faults.  Each is a definition below with one thing wrong, and what the  *)
(* property it is named for in the README must catch; nothing here is part *)
(* of the specification.                                                   *)

SatisfiedIfCancelled(d) == tasks[d].status \in {"merged", "cancelled"}
NeededByNone(oldT) == {}
AbandonedWithBranch == {b \in Running : batches[b].named}
StrandedWithBranch(t) ==
    /\ tasks[t].status = "integrating"
    /\ tasks[t].batch \in Running
    /\ batches[tasks[t].batch].named
MayCutBesidePublished(dry) == dry \/ \A b \in Batch : batches[b].status # "prepared"
PlanStillSubmitted == \A t \in integ.plan : tasks[t].status = "submitted"
CreateBranchUnnamed ==
    /\ integ.pc = "applying" /\ ~integ.dry
    /\ branches' = branches \cup {integ.batch}
    /\ integ' = [integ EXCEPT !.pc = "branched"]
    /\ UNCHANGED <<tasks, batches, pub, crashes>>
InnocentAlways(t) == tasks[t].attempts + 1 < MaxAttempts
SupersededStaysOpen(b) == [batches[b] EXCEPT !.refresh = FALSE, !.named = FALSE]

-----------------------------------------------------------------------------
(* Workers and the owner: one transaction per command.                     *)

RegisterTask(t) ==
    /\ ~Known(t)
    /\ \E D \in DepSets[t] :
         tasks' = [tasks EXCEPT ![t].status = "registered", ![t].deps = D]
    /\ UNCHANGED <<batches, integ, branches, pub, crashes>>

\* A claim registers an unknown task.  The path-conflict check against the
\* other live leases is in module Lease; here a claim may just not happen.
ClaimTask(t) ==
    /\ tasks[t].status \in {"absent", "registered", "claimed", "failed"}
    /\ ~tasks[t].leased
    /\ \E D \in DepSets[t] :
         tasks' = [tasks EXCEPT ![t].status = "claimed", ![t].leased = TRUE, ![t].deps = D]
    /\ UNCHANGED <<batches, integ, branches, pub, crashes>>

\* Time passes: a lease whose holder stopped sending heartbeats runs out.
ExpireLease(t) ==
    /\ tasks[t].leased
    /\ tasks' = [tasks EXCEPT ![t].leased = FALSE]
    /\ UNCHANGED <<batches, integ, branches, pub, crashes>>

\* The owner may force a release in every state, without the token.
ReleaseTask(t) ==
    /\ Known(t)
    /\ tasks' = [tasks EXCEPT ![t].leased = FALSE,
                              ![t].status = IF @ \in {"claimed", "failed"} THEN "registered" ELSE @]
    /\ UNCHANGED <<batches, integ, branches, pub, crashes>>

SubmitTask(t) ==
    /\ tasks[t].status \in Submittable
    /\ tasks[t].leased
    /\ t \notin tasks[t].deps
    /\ \A d \in tasks[t].deps : Known(d)
    /\ tasks[t].receipt < MaxReceipt
    /\ tasks' = [tasks EXCEPT ![t].status = "submitted", ![t].receipt = @ + 1]
    /\ UNCHANGED <<batches, integ, branches, pub, crashes>>

RetryTask(t) ==
    /\ tasks[t].status = "failed"
    /\ tasks' = [tasks EXCEPT ![t].status = "submitted", ![t].batch = NoBatch, ![t].attempts = 0]
    /\ UNCHANGED <<batches, integ, branches, pub, crashes>>

CancelTask(t) ==
    /\ tasks[t].status \in Cancellable
    /\ tasks' = [tasks EXCEPT ![t].status = "cancelled", ![t].leased = FALSE]
    /\ UNCHANGED <<batches, integ, branches, pub, crashes>>

\* selectPrunable: of the completed records old enough (oldT, oldB), the tasks
\* no other task still depends on, then the batches whose tasks all go, then
\* of the tasks those whose batch goes too.
Needed(oldT) == {d \in oldT : \E t \in Task \ oldT : Known(t) /\ d \in tasks[t].deps}
GoneBatches(free, oldB) == {b \in oldB : \A t \in batches[b].tasks : t \in free \/ ~Known(t)}
LeavesNoBatch(t, goneB) ==
    \/ tasks[t].batch = NoBatch
    \/ tasks[t].batch \in goneB
    \/ ~Recorded(tasks[t].batch)
PruneSelection(oldT, oldB) ==
    LET free == oldT \ Needed(oldT)
        goneB == GoneBatches(free, oldB)
    IN  [tasks |-> {t \in free : LeavesNoBatch(t, goneB)}, batches |-> goneB]

\* Which records are old enough is any choice: the clock decides.
Prune ==
    /\ \E oldT \in SUBSET {t \in Task : tasks[t].status \in PrunableTask} :
       \E oldB \in SUBSET {b \in Batch : batches[b].status \in PrunableBatch} :
         LET gone == PruneSelection(oldT, oldB)
         IN  /\ gone.tasks # {} \/ gone.batches # {}
             /\ tasks' = [t \in Task |-> IF t \in gone.tasks
                                           THEN [NoTask EXCEPT !.receipt = tasks[t].receipt]
                                           ELSE tasks[t]]
             /\ batches' = [b \in Batch |->
                             IF b \in gone.batches
                             THEN [UnusedBatch EXCEPT !.status = "pruned"] ELSE batches[b]]
    /\ UNCHANGED <<integ, branches, pub, crashes>>

-----------------------------------------------------------------------------
(* The holder of the integration lock.  `integ.pc` names the last step it  *)
(* took; every later step reads the state again.                           *)

Abandoned == Running
Stranded(t) ==
    /\ tasks[t].status = "integrating"
    /\ tasks[t].batch \in Abandoned
    /\ t \in batches[tasks[t].batch].tasks

\* Whoever takes the lock and finds an abandoned batch deletes its branch while
\* the record still says `running`; Git may refuse to delete it.
RecoverCleanup ==
    /\ integ.pc = "idle"
    /\ Abandoned # {}
    /\ \E deleted \in SUBSET {b \in Abandoned : batches[b].named} :
         branches' = branches \ deleted
    /\ integ' = [integ EXCEPT !.pc = "recovering"]
    /\ UNCHANGED <<tasks, batches, pub, crashes>>

\* Then one transaction fails those batches and requeues their tasks.
RecoverRequeue ==
    /\ integ.pc = "recovering"
    /\ batches' = [b \in Batch |-> IF b \in Abandoned
                                   THEN [batches[b] EXCEPT !.status = "failed"] ELSE batches[b]]
    /\ tasks' = [t \in Task |->
                  IF Stranded(t)
                  THEN [tasks[t] EXCEPT !.status = "submitted", !.batch = NoBatch]
                  ELSE tasks[t]]
    /\ integ' = [integ EXCEPT !.pc = "locked"]
    /\ UNCHANGED <<branches, pub, crashes>>

\* `recover` ends here, and so does an integrate that recovered and then finds
\* an outstanding batch or nothing to select.
Unlock ==
    /\ integ.pc = "locked"
    /\ integ' = Idle
    /\ UNCHANGED <<tasks, batches, branches, pub, crashes>>

\* dependencyReady of the scheduler, for a dependency not in the batch.
Satisfied(d) == tasks[d].status = "merged"

\* A selection the scheduler can return: submitted tasks, each after its
\* dependencies, which are merged or selected before it.
Schedulable(S) ==
    /\ S # {}
    /\ \A t \in S : tasks[t].status = "submitted"
    /\ \E rank \in [S -> 1..Cardinality(S)] :
         \A t \in S : \A d \in tasks[t].deps :
           Satisfied(d) \/ (d \in S /\ rank[d] < rank[t])

\* One batch in flight at a time, unless forced; a dry run is never in flight.
MayCut(dry) == dry \/ Outstanding = {} \/ "force" \in Liberty

\* With nothing (more) to recover it plans.  The plan is a reading of the state;
\* the tasks may change before the batch starts.
Plan ==
    /\ integ.pc = "locked" \/ (integ.pc = "idle" /\ Abandoned = {})
    /\ \E S \in SUBSET Task, b \in Batch, dry \in BOOLEAN :
         /\ Schedulable(S)
         /\ MayCut(dry)
         /\ batches[b].status = "unused"
         /\ \A c \in 1..(b - 1) : batches[c].status # "unused"
         /\ integ' = [pc |-> "planned", batch |-> b, plan |-> S, dry |-> dry, culprit |-> {},
                      seen |-> [t \in Task |-> IF t \in S THEN tasks[t].receipt ELSE 0]]
    /\ UNCHANGED <<tasks, batches, branches, pub, crashes>>

\* sameSubmittedReceipt: what the plan read is still what the state holds.
PlanCurrent ==
    \A t \in integ.plan : tasks[t].status = "submitted" /\ tasks[t].receipt = integ.seen[t]

StartBatch ==
    /\ integ.pc = "planned"
    /\ PlanCurrent
    /\ tasks' = [t \in Task |->
                  IF t \in integ.plan
                  THEN [tasks[t] EXCEPT !.status = "integrating", !.batch = integ.batch]
                  ELSE tasks[t]]
    /\ batches' = [batches EXCEPT ![integ.batch] =
                     [UnusedBatch EXCEPT !.status = "running", !.tasks = integ.plan,
                                         !.receipt = integ.seen]]
    /\ integ' = [integ EXCEPT !.pc = "applying"]
    /\ UNCHANGED <<branches, pub, crashes>>

\* TASK_CHANGED: nothing was written.
RefuseStart ==
    /\ integ.pc = "planned"
    /\ ~PlanCurrent
    /\ integ' = Idle
    /\ UNCHANGED <<tasks, batches, branches, pub, crashes>>

\* From here on every commit applied, every focused and authoritative validator
\* passed and left the candidate as it was; otherwise see Abort.

\* A dry run keeps its record and returns every task to the queue.
VerifyDryRun ==
    /\ integ.pc = "applying" /\ integ.dry
    /\ \A t \in integ.plan : Known(t)
    /\ batches' = [batches EXCEPT ![integ.batch].status = "verified"]
    /\ tasks' = [t \in Task |->
                  IF t \in integ.plan
                  THEN [tasks[t] EXCEPT !.status = "submitted", !.batch = NoBatch]
                  ELSE tasks[t]]
    /\ integ' = [integ EXCEPT !.pc = "verified"]
    /\ UNCHANGED <<branches, pub, crashes>>

\* The branch name and head are durable before the branch exists.
RecordBranchName ==
    /\ integ.pc = "applying" /\ ~integ.dry
    /\ batches[integ.batch].status = "running"
    /\ batches' = [batches EXCEPT ![integ.batch].named = TRUE]
    /\ integ' = [integ EXCEPT !.pc = "named"]
    /\ UNCHANGED <<tasks, branches, pub, crashes>>

CreateBranch ==
    /\ integ.pc = "named"
    /\ branches' = branches \cup {integ.batch}
    /\ integ' = [integ EXCEPT !.pc = "branched"]
    /\ UNCHANGED <<tasks, batches, pub, crashes>>

\* The prepared transaction writes the local copy of the batch record over the
\* stored one and batches every task of the plan, whatever its status is by
\* now; batching ends the leases.
Prepare ==
    /\ integ.pc = "branched"
    /\ \A t \in integ.plan : Known(t)
    /\ batches' = [batches EXCEPT ![integ.batch].status = "prepared"]
    /\ tasks' = [t \in Task |->
                  IF t \in integ.plan
                  THEN [tasks[t] EXCEPT !.status = "batched", !.leased = FALSE]
                  ELSE tasks[t]]
    /\ integ' = [integ EXCEPT !.pc = "prepared"]
    /\ UNCHANGED <<branches, pub, crashes>>

\* The manifest is written and the lock released.
FinishIntegration ==
    /\ integ.pc \in {"prepared", "verified"}
    /\ integ' = Idle
    /\ UNCHANGED <<tasks, batches, branches, pub, crashes>>

\* Something threw.  A failure while one task was applied or validated alone
\* names it as the culprit; after the batch transaction only a sidecar write
\* can fail.  A branch this process created is deleted first.
Abort ==
    /\ \/ integ.pc \in {"applying", "named", "branched"}
       \/ integ.pc \in {"prepared", "verified"} /\ "disk" \in Liberty
    /\ \E culprit \in {{}} \cup (IF integ.pc = "applying" THEN {{t} : t \in integ.plan} ELSE {}) :
         integ' = [integ EXCEPT !.pc = "failing", !.culprit = culprit]
    /\ branches' = IF integ.pc \in {"branched", "prepared"}
                   THEN branches \ {integ.batch} ELSE branches
    /\ UNCHANGED <<tasks, batches, pub, crashes>>

\* Another task is to blame for the failure, and this one has attempts left.
Innocent(t) ==
    /\ integ.culprit # {} /\ t \notin integ.culprit
    /\ tasks[t].attempts + 1 < MaxAttempts

\* What the failing transaction makes of one task of the plan.
FailedTask(t) ==
    [tasks[t] EXCEPT !.batch = NoBatch,
                     !.status = IF integ.dry \/ Innocent(t) THEN "submitted" ELSE "failed",
                     !.attempts = IF ~integ.dry /\ Innocent(t) THEN @ + 1 ELSE @]

FailBatch ==
    /\ integ.pc = "failing"
    /\ \A t \in integ.plan : Known(t)
    /\ batches' = [batches EXCEPT ![integ.batch] =
                     [UnusedBatch EXCEPT !.status = "failed", !.tasks = integ.plan,
                                         !.receipt = integ.seen]]
    /\ tasks' = [t \in Task |-> IF t \in integ.plan THEN FailedTask(t) ELSE tasks[t]]
    /\ integ' = Idle
    /\ UNCHANGED <<branches, pub, crashes>>

\* requireTask throws out of a transaction when a task of the plan was pruned.
FailUnrecorded ==
    /\ integ.pc = "failing"
    /\ \E t \in integ.plan : ~Known(t)
    /\ integ' = Idle
    /\ UNCHANGED <<tasks, batches, branches, pub, crashes>>

\* The process is killed, or its failing path throws (a validator it started cannot
\* be proved dead, Git refuses to delete the branch): durable state stays as it is
\* and the lock is released.
StopIntegration ==
    /\ integ.pc # "idle"
    /\ crashes < MaxCrash
    /\ integ' = Idle
    /\ crashes' = crashes + 1
    /\ UNCHANGED <<tasks, batches, branches, pub>>

-----------------------------------------------------------------------------
(* The holder of a batch lock.  b \in pub says that a publication of b     *)
(* holds its lock between the push and the transaction that records it.    *)

LockFree(b) == b \notin pub

\* The batch is to be superseded, and says so before anything is done about it:
\* a publication or a reconciliation found its base moved, or a refresh is about
\* to close its pull request.
RequireRefresh(b) ==
    /\ LockFree(b)
    /\ b \in Outstanding
    /\ ~batches[b].refresh
    /\ batches' = [batches EXCEPT ![b].refresh = TRUE]
    /\ UNCHANGED <<tasks, integ, branches, pub, crashes>>

\* The branch is pushed and its pull request created, or found again.
PushBatch(b) ==
    /\ LockFree(b)
    /\ b \in Outstanding
    /\ TasksKnown(b)
    /\ pub' = pub \cup {b}
    /\ UNCHANGED <<tasks, batches, integ, branches, crashes>>

\* The publishing process stops, or throws, before recording what it did.
DropPublication(b) ==
    /\ b \in pub
    /\ pub' = pub \ {b}
    /\ UNCHANGED <<tasks, batches, integ, branches, crashes>>

RecordPublication(b) ==
    /\ b \in pub
    /\ Recorded(b) /\ TasksKnown(b)
    /\ pub' = pub \ {b}
    /\ batches' = [batches EXCEPT ![b].status = "published", ![b].pr = TRUE,
                                 ![b].refresh = FALSE]
    /\ tasks' = [t \in Task |-> IF t \in batches[b].tasks
                                THEN [tasks[t] EXCEPT !.status = "published"] ELSE tasks[t]]
    /\ UNCHANGED <<integ, branches, crashes>>

\* A batch that is terminal is reconciled only when an operator names it.
Completable == IF "revive" \in Liberty
               THEN {"prepared", "published", "closed", "merged"}
               ELSE {"prepared", "published"}

MarkMerged(b) ==
    /\ LockFree(b)
    /\ ~batches[b].refresh
    /\ batches[b].status \in Completable
    /\ TasksKnown(b) /\ NotReassigned(b)
    /\ batches' = [batches EXCEPT ![b].status = "merged"]
    /\ tasks' = [t \in Task |-> IF t \in batches[b].tasks
                                THEN [tasks[t] EXCEPT !.status = "merged"] ELSE tasks[t]]
    /\ UNCHANGED <<integ, branches, pub, crashes>>

\* A rejected batch: its tasks wait, failed, for a correction.
CloseBatch(b) ==
    /\ LockFree(b)
    /\ b \in Outstanding
    /\ TasksKnown(b) /\ NotReassigned(b)
    /\ batches' = [batches EXCEPT ![b].status = "closed", ![b].refresh = FALSE]
    /\ tasks' = [t \in Task |->
                  IF t \in batches[b].tasks /\ tasks[t].status # "merged"
                  THEN [tasks[t] EXCEPT !.status = "failed", !.batch = NoBatch] ELSE tasks[t]]
    /\ UNCHANGED <<integ, branches, pub, crashes>>

\* The pull request contradicts the record: head, base branch or merge proof
\* is wrong, or it merged while being superseded.  The transaction asks
\* neither whose the tasks are by now nor what became of them.
FailInvariant(b) ==
    /\ LockFree(b)
    /\ batches[b].pr
    /\ batches[b].status \in IF "revive" \in Liberty
                             THEN {"published", "closed", "failed"} ELSE {"published"}
    /\ TasksKnown(b)
    /\ batches' = [batches EXCEPT ![b].status = "failed", ![b].refresh = FALSE]
    /\ tasks' = [t \in Task |-> IF t \in batches[b].tasks
                                THEN [tasks[t] EXCEPT !.status = "failed"] ELSE tasks[t]]
    /\ UNCHANGED <<integ, branches, pub, crashes>>

Superseded(b) == [batches[b] EXCEPT !.status = "closed", !.refresh = FALSE, !.named = FALSE]

\* Refresh closes the pull request and deletes the branch; when it stops there, the
\* next refresh does so again.
DeleteSuperseded(b) ==
    /\ LockFree(b)
    /\ b \in Outstanding \cap branches
    /\ batches[b].refresh
    /\ branches' = branches \ {b}
    /\ UNCHANGED <<tasks, batches, integ, pub, crashes>>

\* Then one transaction requeues the tasks; the integration that follows is an
\* ordinary one.
RefreshBatch(b) ==
    /\ LockFree(b)
    /\ b \in Outstanding \ branches
    /\ batches[b].refresh
    /\ TasksKnown(b)
    /\ batches' = [batches EXCEPT ![b] = Superseded(b)]
    /\ tasks' = [t \in Task |->
                  IF t \in batches[b].tasks /\ tasks[t].status # "merged"
                  THEN [tasks[t] EXCEPT !.status = "submitted", !.batch = NoBatch] ELSE tasks[t]]
    /\ UNCHANGED <<integ, branches, pub, crashes>>

-----------------------------------------------------------------------------
TaskCommand(t) ==
    \/ RegisterTask(t) \/ ClaimTask(t) \/ ExpireLease(t) \/ ReleaseTask(t)
    \/ SubmitTask(t) \/ RetryTask(t) \/ CancelTask(t)

Integrate ==
    \/ RecoverCleanup \/ RecoverRequeue \/ Unlock \/ Plan \/ StartBatch \/ RefuseStart
    \/ VerifyDryRun \/ RecordBranchName \/ CreateBranch \/ Prepare
    \/ FinishIntegration \/ Abort \/ FailBatch \/ FailUnrecorded

BatchCommand(b) ==
    \/ RequireRefresh(b) \/ PushBatch(b) \/ DropPublication(b) \/ RecordPublication(b)
    \/ MarkMerged(b) \/ CloseBatch(b) \/ FailInvariant(b)
    \/ DeleteSuperseded(b) \/ RefreshBatch(b)

Next ==
    \/ \E t \in Task : TaskCommand(t)
    \/ Prune
    \/ Integrate
    \/ StopIntegration
    \/ \E b \in Batch : BatchCommand(b)

Spec == Init /\ [][Next]_vars

\* `serve` takes the integration lock on every poll and a process holding it
\* runs to the end or stops, so integration steps keep being taken.
FairSpec == Spec /\ WF_vars(Integrate)

-----------------------------------------------------------------------------
(* Properties.                                                             *)

\* A task is `integrating` only inside the one running batch that lists it, so
\* failing or recovering that batch reaches it: no crash strands a task.
\* [broker.ts integrateForTarget, recoverAbandonedIntegrationsLocked]
IntegratingInRunningBatch ==
    \A t \in Task : tasks[t].status = "integrating" =>
        /\ tasks[t].batch \in Running
        /\ t \in batches[tasks[t].batch].tasks

\* A batch is `running` only while the holder of the integration lock works on
\* it, on exactly the tasks of its plan, or until the next holder recovers it: no
\* batch is started beside an abandoned one.  [broker.ts integrate, recover]
RunningIsIntegrated ==
    /\ integ.pc \in {"locked", "planned"} => Running = {}
    /\ integ.pc \notin {"idle", "recovering", "locked", "planned"} =>
         \A b \in Running : b = integ.batch /\ batches[b].tasks = integ.plan

Live == {b \in Batch : batches[b].status \in {"running", "prepared", "published"}}

\* No task is carried by two batches that can still merge, whatever commands,
\* failures and restarts interleave.  [broker.ts integrateForTarget, refreshBatch]
OneLiveBatchPerTask ==
    \A b, c \in Live : b # c => batches[b].tasks \cap batches[c].tasks = {}

\* Without --force at most one batch waits to be merged.
\* [broker.ts integrateForTarget, "One batch in flight at a time"]
OneOutstandingBatch == \A b, c \in Outstanding : b = c

\* What a batch carries for a task is the task's last receipt: no submission
\* slips in between planning and merging.  [broker.ts sameSubmittedReceipt, submitTask]
BatchCarriesReceipt ==
    \A t \in Task : tasks[t].status \in {"integrating", "batched", "published"} =>
        batches[tasks[t].batch].receipt[t] = tasks[t].receipt

\* Pruning never takes away a dependency of work that is queued or under way,
\* which the scheduler would take for one that never merged.  [broker.ts selectPrunable]
DependenciesKept ==
    \A t \in Task :
        tasks[t].status \in {"submitted", "integrating", "batched", "published"} =>
            \A d \in tasks[t].deps : Known(d)

\* A branch in Git is always named by its batch's record, so that recovery, the
\* failing path and refresh can find it again after a stop at any point.
\* [broker.ts integrateForTarget, "Persist the exact cleanup identity"]
BranchIsNamed ==
    \A b \in branches : Recorded(b) => batches[b].named

\* A task merges only once everything it depends on has merged or merges with it.
\* [scheduler.ts dependencyReady, broker.ts markBatchMergedLocked]
DependenciesMergeFirst ==
    [][\A t \in Task :
         (tasks[t].status # "merged" /\ tasks'[t].status = "merged") =>
             \A d \in tasks[t].deps : tasks'[d].status = "merged"]_vars

\* An attempt is charged only when another task of the same batch is found
\* guilty: neither recovery, refresh nor a rejected batch spends the budget.
\* [broker.ts integrateForTarget, refreshBatch, recoverAbandonedIntegrationsLocked]
ChargedForBatchmate ==
    [][\A t \in Task :
         tasks'[t].attempts > tasks[t].attempts =>
             \E d \in Task \ {t} : /\ tasks'[d].status = "failed"
                                   /\ d \in batches[tasks[t].batch].tasks]_vars

\* What recoveryHint says of a cancelled task: "It was cancelled, which is
\* final."  With the liberty "cancel" it is not: a task cancelled while it was
\* integrated comes back when its batch is prepared, verified, requeued or failed.
\* [broker.ts cancelTask]
CancelledIsFinal ==
    [][\A t \in Task :
         tasks[t].status = "cancelled" => tasks'[t].status \in {"cancelled", "absent"}]_vars

\* What docs/ARCHITECTURE.md says of prune: "A completed task that a retained
\* task still declares as a dependency stays".  A completed task that is kept
\* because its batch is kept does not keep its own.  [broker.ts selectPrunable]
RetainedTaskKeepsDependencies ==
    [][\A t, d \in Task :
         (Known(t) /\ d \in tasks[t].deps /\ tasks[d].status \in PrunableTask
            /\ tasks'[t].status # "absent")
         => tasks'[d].status # "absent"]_vars

\* As documented of `merged`: "the result reached the base workflow".  A task merges with
\* a batch that carried its last receipt.  Violated with the liberty "revive": completing
\* a closed batch whose task was resubmitted in the meantime marks merged a receipt that
\* no batch carried.
\* [broker.ts markBatchMergedLocked]
MergedReceiptLanded ==
    [][\A t \in Task :
         (tasks[t].status # "merged" /\ tasks'[t].status = "merged") =>
             \E b \in Batch : /\ batches'[b].status = "merged"
                              /\ t \in batches[b].tasks
                              /\ batches[b].receipt[t] = tasks[t].receipt]_vars

\* A batch does not stay `running`: it is prepared, verified, failed, or
\* recovered after its process stopped.
RunningEnds == \A b \in Batch : (batches[b].status = "running") ~> (batches[b].status # "running")
=============================================================================
