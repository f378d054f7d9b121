# Merge Broker: TLA+ models and proofs

These modules model the parts of the merge broker whose correctness depends on
what several processes do between one another's steps: the life of tasks and
batches, the locks everything rests on, the choice of what goes into a batch, the
leases of workers, the approval of a candidate and its way through the forge, the
submissions of the Gate with the validators they run, and the files all of it is
kept in. TLC checks them on small instances, and TLAPS proves every
safety property that a passing run checks for every value of the constants.

    tlc -workers 2 -config Coordinate.cfg MCCoordinate   # a run, see "Runs"
    tlapm CoordinateProofs.tla                           # a proof module

`PROJECT.json` lists the components, runs, faults, findings, hazards and theorems,
and maps every definition to the source lines it models.

## 1. Inventory

All paths below are relative to `src/`. A command line tool, an MCP server and a
polling service (`serve`) are separate operating-system processes that share one
directory of JSON files. There is no server and no memory between commands: each
command reads `state.json`, does Git and forge work, and writes `state.json` in one or
more transactions. Hence every gap between two transactions of one command is a place
where any other command, or a kill, may come in.

| Component | State | Operations | Interaction |
|---|---|---|---|
| Coordinate (`src/broker.ts`, `src/candidate-lifecycle.ts`) | `tasks`, `batches` in `state.json`; local integration branches; detached worktrees | register, claim, heartbeat, extend, release, submit, retry, cancel, plan, integrate, recover, publish, sync, refresh, close, complete, prune | transactions of the store; `integration` and `batch-<id>` locks; Git; forge |
| Locks and transactions (`src/store.ts`) | lock directories with an owner record, tombstones, `state.json` | acquire, reclaim, release, inspect, `lock release`, transaction with a fence | used by everything else |
| Scheduler (`src/scheduler.ts`) | local variables of one call | `scheduleTasks` | called by plan and integrate on a snapshot |
| Leases and patterns (`src/broker.ts`, `src/patterns.ts`) | lease and expected paths of a task; token files | claim, heartbeat, extend, release, conflict check | part of the task transactions |
| Candidate approval (`src/broker.ts`, `src/candidate-lifecycle.ts`, `src/publisher.ts`) | candidate record, evidence, approval, intents of a batch; the pull request and its auto-merge queue | record verification, approve, request changes, revise, sync, auto-merge | batch lock; forge |
| Gate submissions (`src/submission*.ts`, `src/gate-authority.ts`, `src/verify.ts`) | `submissions` in `state.json`, archives, authority registration | adopt, validate, recover, abandon, archive, attest | gate-authority lock, then integration lock |
| Validator processes (`src/execution-guard.ts`, `src/process*.ts`, `src/validation.ts`) | guard files, process groups | run, cancel, register, retire, wait | integration waits for guards of earlier brokers |
| Storage (`src/store.ts`, `src/storage.ts`, `src/migrations.ts`) | `state.json`, `audit.jsonl` and its rotated and compressed segments, archived slices, saved files of other releases, signing keys | initialize, commit, append, rotate, compact, prune, migrate, provision a key, read | writers hold the state lock, readers none |
| Serve and service (`src/cli.ts`, `src/service.ts`) | none | poll: sync, refresh, integrate | calls the commands in turn |
| Codec, migrations, configuration, provenance, Git, hooks, CLI, MCP, status | none that other processes race for | parsing, formatting, external commands | |

What makes each of them correct:

- **Coordinate.** No stop strands a task or leaves a branch nobody knows; a batch carries
  what was last submitted; at most one batch is in flight; no task can merge twice;
  dependencies merge first and are not pruned from under their dependents; an attempt is
  charged only for a batch-mate's failure; a batch does not stay `running`.
- **Locks.** One holder; a dead owner's lock is taken away and a live owner's is not lost;
  no transaction overwrites another. The first and the last are promised, and hold only as far as
  "Findings" says.
- **Scheduler.** The plan respects dependencies, limits and collisions; every reason for
  leaving a task out is true of the finished plan; ranks are respected; it ends.
- **Leases.** Two live leases never cover one file or one serialized resource, whatever
  expired in between; what a worker submits lies in the scope its task has by then.
- **Approval.** Only the exact candidate that was approved is queued, merged or recorded as
  merged; what the broker queued at the forge is never forgotten; a request for changes is
  carried out; every intent is finished or rolled back after a stop.
- **Submissions.** A verdict is recorded once, for exactly the bytes that were adopted, under
  the authority they were adopted under; a ref or directory of somebody else is left alone as far as the
  broker can see; a stop in any phase is recovered; archives say what was decided.
- **Validators.** Nothing that an earlier broker started runs beside a later one.
- **Storage.** No audit event is lost, doubled or overlooked; housekeeping that stops half-way
  has lost nothing.

The behaviours that are hard to test are listed, with their lines, under "hazards" in
`PROJECT.json`.

## 2. Modules

    Scheduler            scheduleTasks, one action per candidate looked at
    SchedulerProofs      PlanSound, ReasonsCorrect
    BrokerLock           the directory lock protocol and the state transaction
    BrokerLockProofs     TypeCorrect, RecordSurvives, TombstonesHold, FenceHolds
    Coordinate           tasks, batches and the integration, one action per transaction
    CoordinateProofs     TypeCorrect, NoTaskStranded, OneBatchInFlight, BranchesNamed, OneLiveBatch,
                         ReceiptCarried, AttemptsCharged, MergedLanded, DependenciesStay,
                         DependenciesFirst, CancelledStays
    Lease                claims, tokens, expiry, path patterns and submission
    LeaseProofs          TypeCorrect, Disjoint, InScope
    Approval             one batch, its pull request, and what happens to both
    Authorization        abstract: permission to merge one exact candidate
    ApprovalProofs       TypeCorrect, ExactApproval, RecordedQueue, PermittedQueue, ProvenMerge,
                         KnownBranch, SinglePullRequest, PermissionKept
    ExecutionGuard       guard files, supervisors and process groups
    ExecutionGuardProofs QuietInside
    Submission           one submission of the Gate, EXTENDS ExecutionGuard
    SubmissionProofs     TypeCorrect, UsesGuards, QuietSubmission, TreeIsKept, HonestVerdict,
                         ExplainedRef, BoundWorktree, SidecarsAgree, ForeignKept
    Storage              the durable steps of the files, and readers without a lock
    StorageProofs        TypeCorrect, UniqueSequences, TrailIsKept, ReadingIsComplete,
                         HousekeepingSafe
    MC<module>           instances for TLC

How they fit together. A transaction is one step everywhere, and there is one process inside the integration, batch and Gate
authority locks: the other modules take for granted what the locks are meant to give. `BrokerLock` says how far
they give it (see Findings for where they do not), and `Storage` what a stop inside a transaction leaves behind.
`Coordinate` takes from `Scheduler` the property `DependenciesFirst` of a plan, from `Lease`
whether a lease is live, and from `Approval` that a batch may be found merged, closed or
stale; `Approval` and `Lease` look at one batch and at the paths that `Coordinate` leaves out.
`Submission` is composed with `ExecutionGuard`: each process of it enters the integration
lock, launches validators and asks for the guards with the actions of that module, so that it
implements the specification of that module (theorem `UsesGuards`). `Approval`
is shown to implement `Authorization` by a refinement mapping (`Permitted`, theorem `PermissionKept`).

### Coordinate

| Variable | In the code |
|---|---|
| `tasks` | `state.tasks`: status, whether the lease is live, `batchId`, `attempts`, `dependsOn`; the receipt (`submittedAt`, `commits`, `actualPaths`) is a number |
| `batches` | `state.batches`: status, `taskIds`, which receipt it carries for each, whether `branchName` is set, `pullRequestUrl`, `refreshRequired` (with `refreshCloseIntent`) |
| `integ` | local variables of the process in `integrateForTarget` or recovery: where it is, its plan as it read it, its culprit |
| `branches` | the local integration branches in Git |
| `pub` | publishers between the push and their transaction |
| `crashes` | counter for the bound |

The holder of the integration lock moves along `integ.pc`:

    idle -RecoverCleanup-> recovering -RecoverRequeue-> locked -Unlock-> idle
    idle, locked -Plan-> planned -StartBatch-> applying -RecordBranchName-> named
       -CreateBranch-> branched -Prepare-> prepared -FinishIntegration-> idle
    planned -RefuseStart-> idle           applying -VerifyDryRun-> verified
    applying .. prepared -Abort-> failing -FailBatch, FailUnrecorded-> idle
    anywhere -StopIntegration-> idle

One step is one transaction, one change to Git, or one reading that later steps rely on.
Applying the commits and running the validators changes nothing that others can see, so
its only outcomes are to go on or to abort, with or without a culprit. In
`StopIntegration` the durable state stays as it is and the lock becomes free: the time the
lock needs to be reclaimed is in `BrokerLock`.

The forge is not modelled. A batch command may find whatever the code is prepared to find:
that its pull request merged, was closed, contradicts the record, or that its base moved.
`LockFree` is the batch lock; only a publication holds it over several steps, since the
others finish in the transaction that decides. Refresh is a chain of restartable steps (`RequireRefresh`, `DeleteSuperseded`, `RefreshBatch`), each
of which leaves a state the next refresh continues from. The integration that follows
a refresh, which asks for the same tasks on a given base, is an ordinary integration here.

Receipts of a pruned task keep counting in the model so that two receipts are never
confused; the code tells them apart by time and commits.

*Liberty* says which unusual things an instance allows: `force` (`integrate --force`),
`revive` (`batch sync` or `batch complete` of a terminal batch), `cancel` (cancelling a
task that is being integrated) and `disk` (a sidecar write that fails after its
transaction). Without them the model is of a broker used as its documentation says.

Simplified: `policies.requireDependencies` is true (its default); the approval policy is
off; a claim is not refused for a path conflict and tokens are always right; times other
than lease expiry and retirement age do not matter.

### BrokerLock

`active` is the directory `<name>.lock` by its owner's record; `reclaimed[p]` and
`released[p]` are the tombstones that are named after an owner. A rename onto a directory
that is not empty fails, so each is a single slot. The owner is read in one step, probed in the
next and acted upon in a third, and what was read may be stale by then. The critical section is
`transaction`: read, fence, write. The integration and batch locks are the same
protocol with other work in the middle and no fence.

All processes are on one host and have a fresh nonce (one call per process); a lock is old
enough to be looked at (two seconds) whenever somebody looks. Not modelled: forced unlock,
records written by old versions, owners on other hosts (never reclaimed), sharing
violations of Windows, and reuse of a process id.

A process may be killed at any step, and exits at some time after its call, as every command does: `dead` is one
that was killed while it owned the lock, `exited` any other. `Unlocker` are the processes that run `lock release`
without `--force`. `slipped` is a history: the calls whose lock was renamed after their fence had passed, or put
back just before they asked. `Disappear` is the only step without a line of the code.

What the protocol gives is in four properties. `ReclaimersYield`: the tombstone of a killed owner keeps a
delayed reclaimer from the lock of a successor. An owner that released its lock leaves no tombstone, so a reclaimer
that had read its record before, and finds the process gone, renames whoever has the lock by then. `LockSurvives`: the
record moved in this way is put back or stays aside, and is never deleted. `FenceCatches`: a call whose lock was moved
before its fence writes nothing. `DeadOwnerReclaimed`: a lock of a process that is gone does not stay. It excepts
`Blocked`, the tombstone that a reclaimer needs occupied for good by somebody else's lock, which takes six processes.

### Scheduler

Tasks are numbered in the order of `compareTasks`, so the order itself is an input. A
change set is its number of commits and the pairs it collides with. `next` is the position
of the inner loop, `Again` the condition of the outer one. The rows that the last loop
adds for requested ids which are unknown or not submitted are left out.

### Approval

One batch of tasks from `prepared` on. `batch` is its record in `state.json` with its
candidate record, evidence, approval and intents; `pr` is the pull request at the forge,
which is external and behaves as the broker's use of `gh` assumes; `config` is the
configuration file, which an operator may change at any time, and of which a command uses
what it read at its start (`proc.cfg`). A candidate revision `r` has head `r`; a head pushed
by somebody else is `Foreign`.

Every command holds the lock of the batch. `proc.pc` is the step it is at:

    sync      inspect -> journal -> disable -> settle            (what it decided is proc.todo)
              change -> disable -> settle                        (a request for changes on record)
    publish   fresh -> create -> record -> inspect .. -> attempt -> enable -> result
    approve   look -> grant -> inspect .. -> attempt -> enable -> result
    verify    evidence        request  (one transaction, then the sync above)
    revise    build -> push -> finalize
    refresh   inspect .. -> target -> disable -> close -> rejected or retire
    close     inspect .. -> recheck

`..` stands for the reconciliation, which these commands call as a subroutine (`proc.stage`
tells the calls apart). Each step is one transaction or one call to the forge; between
any two of them checks report, queues merge, the base moves, people push, review, merge, close,
reopen and queue, and the process may stop. An inspection and the transaction that follows
it are two steps, so the transaction works on an answer that may be stale. A call that fails may
have had its effect. `RecoverLook` and `RecoverSettle` are the recovery of an interrupted
revision, which holds the integration lock and may run beside a command that holds the
batch lock; `rec` is the head it has seen.

`Authorization` says what this promises without any of it: permission is given to one
candidate, confirmed, withdrawn only when nothing is queued, and stands whenever the broker
queues a merge or records one. The mapping reads the revision and the approval from the record, the
queue from the forge, and the merge from the status of the batch.

Simplified: publication is by pull request, with a durable target (`publish.mode` other
than `pull-request`, and batches of releases before target binding, are left out); there is
one manual verification and one check of the forge; `policy` numbers `policyRevision` together with
the evidence it declares; a retargeted pull request is told from the candidate in the same way as a
foreign head (the code's lookup of an existing pull request filters on the base branch and misses one that was
retargeted, which `OnePullRequest` does not cover); `batch complete` is given when its assertion is true. What refresh cuts from the
requeued tasks is an integration of `Coordinate`. In `RequestChanges` and `VerifyStart` the inspection and
the first step after it are one, since that step only adds a record of what the caller asked for.
The first reconciliation of approve is the command `sync` before it.

### Lease

`task` holds of every task its status, expected paths, last submitted files, the token of
its lease and the ticks that are left. A path is a sequence of names and a pattern one of
names, `*` and `**`. A path matches a pattern when it can be cut into what the segments of the pattern
stand for (`Matches`), which is what the regular expression says that picomatch builds for `src/patterns.ts`; literal
prefixes and the overlap test are operators on them. Paths and patterns are any sequences of strings,
and no scope is empty, since the code refuses one (`LeaseAssumption`). Every command is a transaction and one step, except submission, which reads
the task, inspects commits and then records; the time a lease ends is computed before the
transaction waits for its lock, so a new lease may have any part of its time left.
`LeasesAreDisjoint` is said of files and not of the patterns the code compares, so it
depends on the overlap test as well as on the checks of tokens and expiry.

Simplified: `policies.unexpectedPaths` is `error`; release, cancel and retry may be given by
the holder, by force or by anybody, which is more than the code allows; token files and patterns that
begin with `!` are left out (see Observations).

### ExecutionGuard

`phase[l]` is the process group of launch `l`: its supervisor waits for the start message,
runs the command, was killed alone (`loose`), or the group was sent SIGKILL. `guards` are the
guard files, `linked` the launches whose supervisor has a channel to a living broker, `inside`
that a broker was let into the integration lock (`withIntegrationLock` waits for the
guards). A command is started only once its guard file is durable; a guard is deleted only
when the whole group is gone. It models a POSIX host; on Windows a job object takes the part of the process group.
`lock release --force` of guards is left out.

### Submission

One candidate, from adoption to the removal of its record.

| Variable | In the code |
|---|---|
| `authority` | the registered Gate authority: none, the one recorded with the submission, another |
| `rec` | the record: status, whether `worktree` and which `worktreeIdentity` are on it, `retentionEstablishedAt`, `retentionCompromisedAt`, `archiveIntent` |
| `ref` | the retained ref in Git: missing, the broker's own, a copy that somebody else made, or pointing elsewhere |
| `root`, `registered` | the directory at the path of the worktree (its inode, and what fills it), and Git's administration entry for it |
| `manifest`, `archive` | the sidecar files |
| `attested` | history: the verdict that was signed |
| `proc` | local variables of the process in `validateLocked`, recovery, abandon, archive or attest |
| `history` | history: the broker put back a ref it had retained; Git filled another directory than the one prepared |

    start -> pin -> retain -> sweep -> eraseSwept -> forget -> prepare -> own -> add -> capture
          -> (spawn -> register -> handoff -> await -> retire -> preserved) twice
          -> cache -> clean -> eraseCleaned -> recheck -> commit -> terminal -> manifest

A missing ref is journalled (`journal`) before it is put back (`repin`) and looked at again (`confirm`), from `pin` or
`recheck`. A removal is two steps: the checks, after which `proc.seen` is the inode that was found, and the removal by
path, which meets what is there by then (`Erased`, `EraseRefused`). In the same way the last look at the ref (`commit`) is one step and the
transaction that replaces the state (`terminal`) another. An error before `cache` goes to `cache` with the outcome it
means; an error after it leaves the record `validating` for recovery.

The ref may be lost, moved, and put back by whoever took it away; the directory may be replaced or deleted; the authority
may be replaced; each at any time. A command that runs may change the files of its worktree and restore them
(`CommandWrites`). The broker compares the files when each set of validators is done, and the ref at its checkpoints, and so
`VerdictIsHonest` speaks of what it found there: what is changed and put back in between is accepted. The process may stop,
supervisors may be killed and groups may outlast their retirement.

Simplified: how base, policy, history and paths of a candidate are read and judged at
adoption, and that they are judged alike on recovery, are left out (a failure of them is a call that
fails); so are the signatures of an attestation. The lock sections of `recover` are one. The objects of the candidate are there
as long as its ref is. A directory of somebody else is never empty. The inode of a
deleted directory is not given to another one as long as it is remembered.

### Storage

`job` is the progress of the holder of the state lock; it may stop between two steps and in
the middle of an append. `log` and `segments` are lines, each the number of an audit event
or unreadable; `keys`, `policy` and `returned` are the signing keys, the committed public
key and what `setupProvenanceSigning` is about to commit; `format`, `backups` and
`previewed` belong to the migration. `Locked` are the saved files that are written under the state lock, the archived
slices; a release writes receipts, sidecars of submissions and the Gate authority without it, so `OtherRelease` may write
those at any time. `reader` and `metrics` read without a lock, one file at a
time. `told` and `seen` are histories: events whose transaction completed, tasks that were in the state.
The four kinds of files meet in no property, so `Mixes` bounds which commands one behaviour has.

Left out: replacement of the state by a hard-link fallback; the limits of how much of a segment is
read; a clock that steps back and two rotations in one millisecond; a current key written by a
release that had no keyed copies; migration of `state.json` itself.

## 3. Runs

Bounds are in the configurations; every bound is a constant of the module, except `ResubmissionBound` of `MCCoordinate`.

| Run | Instance | Shows |
|---|---|---|
| `coordinate` | 2 tasks, the second depending on the first or not; 2 batches, 2 receipts, 2 attempts, 1 stop | `BatchCarriesReceipt`, `DependenciesKept`, `DependenciesMergeFirst`, `IntegratingInRunningBatch`, `OneLiveBatchPerTask`, `OneOutstandingBatch`, `ChargedForBatchmate` |
| `coordinate_operator` | 1 task; all liberties, 2 batches, 2 receipts, 1 stop | `BranchIsNamed`, `RunningEnds` do not depend on how operators behave |
| `lock` | 4 processes that are killed or exit, one of them an unlocker | `LockSurvives`, `ReclaimersYield`, `FenceCatches`, `DeadOwnerReclaimed` |
| `no_lost_update` | as `lock`, without an unlocker | finding |
| `scheduler` | every input of 3 tasks with 1 or 2 commits | `DependenciesFirst`, `ReasonsHold` |
| `lease` | 2 tasks, 4 scopes, 4 files, 2 tokens, leases of 2 ticks | `LeasesAreDisjoint`, `SubmittedInScope` |
| `approval` | every command, every move but a conflict and a restarted check, 4 configurations, 2 revisions, 2 tips, 2 moves, 1 fault | `ApprovalIsExact`, `QueueIsRecorded`, `MergedIsProven`, `BranchIsKnown`, `OnePullRequest`, `QueuedOnlyIfPermitted`, `Permitted` |
| `approval_serve` | the polls of `serve --publish`, requests, approvals and results; base, branch, checks, conflicts, closing and reopening move; one configuration, 2 moves, 1 fault | `ChangeRequestSettles`, `StaleIsReplaced`, `CloseIsNoticed` |
| `superseded` | every command, the moves of `approval_serve`, one configuration, 2 moves, 1 fault | finding |
| `submission` | every command and move, 3 process groups, 2 moves, 2 faults | `QuietWhileLocked`, `CommandsKeepTheirTree`, `VerdictIsHonest`, `RefIsExplained`, `WorktreeIsBound`, `SidecarsFollow`, `ForeignIsKept`, `PendingSettles`, `ArchiveSettles` |
| `foreign_spared` | every command and move, 3 process groups, 2 moves, 2 faults | finding |
| `storage` | 2 initializers, 2 tasks, 2 keys, 2 slices and a sidecar of other releases, 4 events, rotation at 2 lines, 2 stops | `SequencesAreUnique`, `AuditIsKept`, `ReaderMissesNothing`, `HousekeepingIsSafe` |

Why the bounds are enough.

- *Coordinate.* Two tasks give a culprit and a batch-mate, a dependency and its dependent, and a
  task that moves to another batch while the other stays. Two batches give a batch and its
  replacement or an abandoned batch and its successor; a third would only repeat the
  second, since closed batches are looked at again only by commands that name them. Two receipts
  give a resubmission, two attempts the last one. `ResubmissionBound` keeps a second receipt to one of two
  tasks that depend on each other, and to behaviours without a stop: a recovery does not look at receipts. One stop gives a recovery that itself
  runs to the end in each of its steps or is the one that stops; the theorems cover any number.
- *Locks.* One process that dies, two that see it and one that takes the lock between them are the
  smallest group in which a delayed reclaimer meets a successor and a third party. Each process makes one call; a
  second call of a process is one of another process to everybody else.
- *Scheduler.* Three tasks give a chain in which the second pass selects what the first could
  not, with a collision beside it.
- *Lease.* A conflict is between two tasks. Two tokens are an old one and the one that
  replaced it; two ticks let a lease be renewed between its start and its end. The scopes
  overlap in each way the code tells apart, and not at all.
- *Approval.* Two revisions are a candidate and what replaces it, two tips a base that moved under
  it. Two moves give a move between an inspection and its transaction and one before or
  after; checks that report and queues that merge are not counted. The one fault stands at every
  step, and every command may be given again after it. A conflict with the base and a check that
  starts over only keep the forge from merging, so the safety run leaves them to `approval_serve`.
  The four configurations differ in merging automatically, in whether approval is required, in
  its policy and in whether the approver is authorized.
- *Submission.* A run has two validators, and the third slot is for what an earlier run left.
  Two faults are a supervisor killed and its broker stopped, or a run and its recovery stopped. Two moves are one that
  takes something away and one that puts it back, or two that hit two checks.
- *Storage.* A fragment, the event that follows it and two rotated segments need four events;
  the second stop is one that hits the recovery from the first.

Deadlock is not checked: the counters that bound a behaviour, calls that end, and batches,
submissions and schedules that are final stop every instance sooner or later.

### Faults

Each definition under "Faults" in a module replaces the one named here by a plausible mistake,
and TLC then finds the property violated, so the property does depend on the code.

| Definition | With the mistake | Violates |
|---|---|---|
| `Innocent` | the culprit is requeued as well | `ChargedForBatchmate` |
| `MayCut` | a published batch does not count as outstanding | `OneOutstandingBatch` |
| `PlanCurrent` | only the status is compared | `BatchCarriesReceipt` |
| `Needed` | prune ignores dependents | `DependenciesKept` |
| `Satisfied` | a cancelled dependency counts as met | `DependenciesMergeFirst` |
| `Stranded` | only tasks of a batch with a branch are requeued | `IntegratingInRunningBatch` |
| `Abandoned` | only batches with a branch are recovered | `RunningEnds` |
| `Superseded` | the refreshed batch is left open | `OneLiveBatchPerTask` |
| `CreateBranch` | the branch is created before it is recorded | `BranchIsNamed` |
| `KeepTombstone` | the tombstone is removed after a reclaim | `ReclaimersYield` |
| `LockOwned` | the fence is not asked | `FenceCatches` |
| `Crashed` | no owner counts as dead | `DeadOwnerReclaimed` |
| `RetiredOwn` | what was renamed is deleted unchecked | `LockSurvives` |
| `Missing` | a requested dependency counts as met | `DependenciesFirst` |
| `Again` | one pass only | `ReasonsHold` |
| `Verified` | an expired token is good | `LeasesAreDisjoint` |
| `StillHeld` | the lease is not checked again | `SubmittedInScope` |
| `Binds` | the revision is not compared | `ApprovalIsExact` |
| `Attempted` | the attempt is not written down | `QueueIsRecorded` |
| `MergedAsApproved` | only the head and the approval are compared | `MergedIsProven` |
| `BranchHead` | recovery takes the push for not made | `BranchIsKnown` |
| `NoneFound` | only open pull requests are looked for | `OnePullRequest` |
| `HeadGuard` | the enable is not bound to the head | `QueuedOnlyIfPermitted` |
| `FirstStep` | the record changes before the queue is off | `Permitted` |
| `SyncEntry` | sync inspects before it carries out a request | `ChangeRequestSettles` |
| `OnMarker` | a close without the marker is an error | `StaleIsReplaced` |
| `OnClosed` | a closed pull request is kept | `CloseIsNoticed` |
| `Finished` | only the supervisor is asked for | `QuietWhileLocked` |
| `StoppedFirst` | the guards are not asked before a removal | `CommandsKeepTheirTree` |
| `FirstMissing` | a missing ref is put back without a record | `VerdictIsHonest` |
| `AdoptStart` | the ref is pinned before the record | `RefIsExplained` |
| `Owned` | the inode is not recorded before Git registers | `WorktreeIsBound` |
| `MayIntend` | a decision is replaced by another | `SidecarsFollow` |
| `MayDelete` | whatever is at the path is removed | `ForeignIsKept` |
| `Forgotten` | the old inode stays on record | `PendingSettles` |
| `Releasable` | a ref that is gone is not released | `ArchiveSettles` |
| `LinkState` | the state is renamed into place | `SequencesAreUnique` |
| `Appended` | a fragment gets no newline | `AuditIsKept` |
| `ReadCopy` | the copy is not looked for | `ReaderMissesNothing` |
| `Rescanned` | the preview is trusted | `HousekeepingIsSafe` |

### Fairness

`Coordinate!FairSpec` assumes weak fairness of the integration steps together: the holder of the
lock runs to its end or stops, and when it stopped, `serve` takes the lock on its next poll
and recovers first (`src/cli.ts` 1462-1570, `src/broker.ts` 1329). Workers and operators owe
nothing. `BrokerLock!FairSpec` assumes that a process in the loop of `withLock` keeps
polling, which the loop does until its timeout; the timeout may come at any time, so the
property speaks only of a lock for which somebody still waits.

`Approval!FairSpec` assumes that a command goes on until it ends or stops, and strong fairness of
the three things that a poll of `serve --publish` does: reconcile every published batch,
refresh a stale one, publish what `publicationRetryReason` names (`src/cli.ts` 45-66,
1531-1643). It is strong because other commands hold the batch lock again and again and a poll
comes round for ever. The forge, reviewers and operators owe nothing. The three properties except a batch with a
pending revision: `serve` settles those only when it starts (Observations).

`Submission!FairSpec` assumes that a process goes on or stops, that a supervisor which lost
its broker stops its group and a killed group disappears, and that `recover` is run again and
again. A command that lost its supervisor and its broker ends when it pleases, so
`PendingSettles` excepts it (`Obstructed`), with a ref that points elsewhere, a directory that
is not the recorded one, and an authority that was replaced: recovery refuses these by design. It refuses the
broker's own directory as well when its inode is not the one on record (observation `RecoverableRoot`), which is
a disjunct of `Obstructed` of its own.

## 4. Findings

- `SupersededWasClosed`, run `superseded`. The comment at `src/broker.ts` 4132 says that the
  pull request is closed before the tasks are requeued, since one left open could still be merged and land the
  batch that is being replaced. The close is skipped when the record has no
  pull request. It has none when the publication stopped between `gh pr create`
  (`src/publisher.ts` 143) and the transaction after it. The retry would find the pull request,
  but it is refused as stale before it looks (`assertBatchBaseFresh`, 2106), and marks the batch for refresh.
- `NoLostUpdate`, run `no_lost_update`. `src/store.ts` 347-350 says that an unlucky reclaim must not let both write;
  `docs/ARCHITECTURE.md` 221 that a delayed reclaimer removes only the lock it observed, never a replacement; `src/store.ts` 986
  that a rename of somebody else's lock needs a forced replacement. A process reads the record of an owner that then
  releases its lock and exits; it finds the owner gone and renames (`reclaimLock`, 1001) what is by then the lock of a
  successor. A third process takes the lock in the meantime, and two are inside. When the rename comes between the fence of
  the successor (325) and its write (326), the update of one of them is lost. `FenceCatches` says what does hold.
- `ForeignSpared`, run `foreign_spared`. `docs/SECURITY.md` 183 says that the root is bound by its inode before recursive
  cleanup, so that a renamed directory at its path is not deleted. The inode is compared (`src/git.ts` 2818, 2864) and
  the directory removed later by its path (2831, 2921), after repairs: a directory that takes the path in between is
  deleted, or has a `.git` marker written into it (2174). `ForeignIsKept` says what does hold.

### Observations

Statements that do not hold in the models either, and are not the subject of a run. Where
a formula is named, it is in the module, and TLC shows the behaviour when it is put in
the place of the properties of the configuration.

- `CancelledIsFinal` (`Coordinate`, configuration `CoordinateOperator`). `recoveryHint`
  (`src/broker.ts` 248) calls cancelling final. A task that is integrating can be cancelled, and
  preparing, verifying or failing its batch then overwrites the status. Without the liberty `cancel`
  the statement holds (theorem `CancelledStays`).
- `RetainedTaskKeepsDependencies` (`Coordinate`, configuration `Coordinate`).
  `docs/ARCHITECTURE.md` 190 says a completed task that a retained task declares as a dependency stays.
  `selectPrunable` (264-306) decides about dependencies before it decides to retain further tasks
  for the sake of their batch. Work that is still queued is not affected: `DependenciesKept` holds.
- `MergedReceiptLanded` (`Coordinate`, configuration `CoordinateOperator`). `docs/ARCHITECTURE.md` 400 says of a merged
  task that its result reached the base. `batch complete` of a closed batch (`src/broker.ts` 4261-4276) checks that its
  tasks belong to no other batch, and not that they are still what the batch carried; a receipt submitted after the batch
  was closed is marked merged. Without the liberty `revive` the statement holds (theorem `MergedLanded`).
- `OneHolder` (`BrokerLock`, configuration `NoLostUpdate`). Two are inside a lock together, as in the finding. The fence of a
  transaction catches every rename before it; the integration and batch locks have none, so the statement of
  `docs/ARCHITECTURE.md` 37, that the integration lock serializes batch construction, has the same exception. An unforced
  `lock release` has the same effect.
- `RecoverableRoot` (`Submission`, configuration `Submission`). `src/submission.ts` 362-366 says that recovery must not
  compare one inode with another for ever. The inode on record is that of the directory that was prepared;
  `addRawDetachedWorktree` prepares the path again (`src/git.ts` 2436), and when the directory was taken away meanwhile, Git
  fills another one. After a stop recovery refuses it, as the inode differs.
- `NeverPartial` (`Storage`, configuration `Storage`). `src/migrations.ts` 208-213 says that a migration refuses when there is
  a file of a newer release, under the state lock. Receipts (`src/store.ts` 409-414), sidecars and archives of submissions
  (527-556) and the Gate authority are written without that lock, so one may appear after the rescan (230).
- A lock that was moved by mistake and put back after its owner's release had looked for it stays until that process
  exits: the owner found another lock, or none, and left.
- What a validator changes and restores before the broker compares the files (`src/submission.ts` 433, 449), and a retained
  ref that is deleted and created again before its next check (331, 500, 535), are accepted. The comment at 495-499 says that
  loss of the ref invalidates an otherwise successful run. `VerdictIsHonest` is about what the broker can see.
- `RejectionIsRecognised` (`Approval`, configuration `ApprovalServe` with three moves).
  `src/publisher.ts` 181 says a reviewer's rejection can never be mistaken for the broker's own close. A pull
  request that refresh closed, and that is reopened and closed by a reviewer before refresh is resumed, has the
  marker on it, and counts as closed by the broker.
- `MetricsMissNothing` (`Storage`, configuration `Storage`). `src/store.ts` 698 says that metrics read
  the archived slices so that housekeeping is not data loss. State and slices are read at the
  same time (`src/broker.ts` 4524): when the slices are read before prune and the state after it, the
  retired tasks are in neither. `readAudit` may in the same way return an event twice.
- A submission that was received, lost its process before its first pin, was abandoned and then archived
  with its ref to be kept, stays in that state: there is no ref to keep, and none is made
  (`docs/PROTOCOL.md` 166 has recover complete recorded intents). `ArchiveSettles` excepts it.
- `serve` recovers a pending revision only when it starts (`src/cli.ts` 1510), and a batch with
  one is refused by every command it polls.
- `claim` and `reopen` write the token file after their transaction, and `release`, `cancel` and
  integration delete it after theirs (`src/broker.ts` 831, 2820; 903, 930, 1611): a claim in
  between loses the file it has just been given, and waits for its lease to expire.
- A task that is reopened with narrower paths and whose batch is then refreshed is queued again with a receipt that
  need not lie in its scope. `SubmittedInScope` speaks of the recording only.
- `patternsMayOverlap` calls `!src/*` and `src/**` disjoint; `src/broker.ts` 164 says that
  overlap is treated conservatively.
- `hooks install` in the default directory, then `--force` into a configured one, then
  `uninstall`, leaves the first guard active again.

## 5. Proofs

Every theorem is about all values of the constants that satisfy the assumptions in the
module that declares them; TLC evaluates these assumptions in every run. They say no more than that
bounds are numbers, that chosen commands, moves and liberties are among those there are, and what a
set of inputs holds. Every safety property that a passing run checks has a theorem. Each inductive
invariant, or the part of it that is not a property already, was first an invariant of a run.

The hypotheses of theorems, all of them about `Coordinate`:

| Hypothesis | Says | Needed, because otherwise |
|---|---|---|
| `Ordinary` | no `force`, no `disk` | a second batch is cut on purpose, or beside one whose sidecar failed |
| `Regular` | no `revive`, no `disk` | a terminal batch takes up tasks that went elsewhere, or a batch is failed after it was prepared |
| `Documented` | at most `force` | also, a batch takes up a cancelled task, whose dependencies nobody kept |

**Coordinate.** `TypeCorrect` is `Spec => []TypeOK`. The only typing that is not immediate
is the range of `attempts`, which the guard of `Innocent` bounds.

`NoTaskStranded` proves `IntegratingInRunningBatch` and `RunningIsIntegrated` together; neither is
inductive alone. That an integrating task is listed by its running batch survives the
steps of the integrator only because the running batch is the one it works on, with the
plan it remembers; and that no batch runs beside it needs the recovery before every plan.
The invariant adds what the integrator's variables say in each phase (the batch it works
on is not yet used while planning, running while applying, and so on) and that a
batch no longer running has no integrating task.

`OneBatchInFlight` assumes `Ordinary` and proves
`OneOutstandingBatch`. Its invariant says that from planning a real batch until it is
prepared nothing is outstanding, which needs that nothing but the integrator makes a batch
outstanding: a published batch was prepared, and a publication under way is of a batch
that still is outstanding.

`BranchesNamed` needs no hypothesis: it holds with every liberty. The failing path clears the record of the name,
and a batch that is started writes its record anew; neither may have a branch then. `BranchInv` adds what record the
integrator finds at each step (`OwnRecord`), that its batch has no branch before it is created and once it is
deleted (`NotBranched`), that a batch that was never cut has none, and that what is pushed was prepared.

`OneLiveBatch`, `ReceiptCarried`, `AttemptsCharged` and `MergedLanded` assume `Regular` and share
`CarryInv`: a live batch and its tasks agree with each other. A task of a live batch names that
batch, has a status that goes with the status of the batch, and has the receipt the batch carries
(`LiveCarry`); a task with such a status is in the live batch it names (`CarriedLive`). Both
directions are needed, the first for what a batch does to its tasks, the second for what a command on a task
may do behind the back of a batch. The thirty actions are first reduced to a few kinds (a command on
one task, forgetting, starting, advancing and ending a batch), and the invariant is proved of the kinds.

`DependenciesStay`, `DependenciesFirst` and `CancelledStays` assume `Documented`. `DepsInv` adds that what a queued
or running task depends on has a record (`DepsHeld`), that a live batch has every dependency that is not merged
(`LiveMet`), and that the plan does (`PlanMet`). The last one is the point: the plan is compared with the
dependencies when it is made, on a snapshot, and started one transaction later. It still holds then for a
task with an unchanged receipt, since a dependency that is merged stays so, and dependencies change only with
a new receipt.

**BrokerLock.** No theorem has a hypothesis: processes may be killed or exit anywhere, and anybody may unlock.
`RecordSurvives` says at whom each process aims in each phase, that a releasing process aims at itself, and that an
unlocker goes on only with an owner that was dead. `TombstonesHold` needs where the record of a killed owner can be: it is
the lock, or in its own tombstone, which nobody empties, or it was displaced, or it went to an unlocker. So a
reclaimer of a killed owner finds that owner's lock or an occupied tombstone. `FenceHolds` says what a call that has not
slipped knows: from its fence to its write it is the lock, and what it read is still the file; and any two
calls of which this is true are one.

**Scheduler.** `PlanSound` follows the plan as it grows: a task is appended when its dependencies
are merged or in it, it fits and collides with nothing in it. `ReasonsCorrect` needs that
commits and collisions only grow with the plan, so an early rejection stays true, and that
a candidate passed over in the last pass, which selected nothing, still misses a dependency.

**Lease.** `Disjoint` speaks of files, while the code compares patterns. The lemma between them, that two
patterns with a file in common are found to overlap, goes through their literal prefixes: each is a prefix of every
path that its pattern matches, since no segment before the first wildcard can take more or less than one name, so
the prefixes of two patterns with a common path are prefixes of each other. It is proved position by
position, up to a bound, without induction over the paths. `LeaseInv` then says that the scopes of two
live leases are separate by the code's test, and `InScope` that what a submission inspected
lies in the scope that it compares again when it records.

**Approval.** One invariant, `IInv`, proves the safety properties. It says what holds at each step
of each command (`PhaseInv`, `AttemptInv`, `ClearInv`, `RecInv`), that what a command saw at the forge is
still true where it matters (`SeenInv`: a merge stays, a tip only moves on), and that a decision of sync is
still right while it is carried out (`SettleInv`, `QueueInv`). The last part is where the invariant has its
size: a sync decides on an inspection, journals, turns the queue off and settles in four
steps, between which the forge goes on. `Sound` and `TipInv` relate the fields of the record.
`PermissionKept` is the refinement of `Authorization`, step by step: a step leaves
the mapped variables as they are, or is one turn of the record (the same authority, granted, confirmed, withdrawn,
renewed, landed), or a move of the queue; a queue is taken up by nobody but `EnableAutoMerge`, which is `PermittedQueue`.

**ExecutionGuard and Submission.** `QuietInside`: a command that is alive has its guard file, what is alive while
a broker is inside is linked to it, and nothing is linked while none is inside. `UsesGuards` shows that every step of
`Submission` is a step of `ExecutionGuard` or leaves its variables alone, so `QuietSubmission` comes from that module's
theorem, and its invariant is available in the proofs. `TreeIsKept` follows from it, because a removal
asks for the guards first. The other theorems need each other: a verdict is honest
because a repair of the ref is on record before it is made (`LossInv`) and a success has seen the
candidate's bytes after each set of validators (`JudgedInv`); that in turn needs to know whose
directory is whose (`WorktreeIsBound`, `ForeignInv`), what a removal has checked (`EraseInv`), what a status promises (`StatusInv`) and what each
step found (`PhaseInv`); the sidecars agree because they are written about records that are done (`SideInv`).

**Storage.** `TypeInv` and `StoreInv` (there is a state as soon as something is
written to it) hold for all kinds of commands; the parts on events, segments, tasks, keys and formats are proved each
by itself. `EventsInv`: the numbers in all files are at most the sequence of the state, and those of a transaction that
has still to tell its events are in no file. `CompactInv`: an original is removed only beside a complete copy, so
that a segment that can be read stays so. `ReaderInv` says of an event not yet found that it is in a segment
the reader has still to open, or in the copy of the one it is at, once the original is gone.
`RetireInv`, `KeysInv` and `FormatsInv` say the same of housekeeping: what is removed is elsewhere already.

**Only model-checked.** The liveness properties (`RunningEnds`, `DeadOwnerReclaimed`, `ChangeRequestSettles`,
`StaleIsReplaced`, `CloseIsNoticed`, `PendingSettles`, `ArchiveSettles`), because the prover does not reason about
fairness and enabledness; the findings and the observations, which are counterexamples; and that a bounded
counter is a bound on the instance and not on the code.

## 6. Plan

What is left, in this order:

1. `Coordinate`: `OneOutstandingBatch` and the properties under `Regular` with the liberty `disk`. A sidecar that
   fails after its transaction leaves a durable state that the next recovery accepts; which of the properties
   survive, and under what weaker hypothesis, is to be found with TLC first.
2. `Approval`: bring `RejectionIsRecognised` to a statement that holds, with the hypothesis that excludes the
   reopened pull request.
3. Hazards without a property: the token file (`src/broker.ts` 903), and metrics beside prune (4524).

## 7. Not modelled

Parsing of `state.json`, configuration, provenance signatures, the verifier of
attestations, Git and forge commands themselves, hooks, service installation, the command line, the MCP
server, status output and doctor: they hold no state that steps of several processes race for, or
are external programs whose outcomes appear in the modules as choices. The order of the locks is
not in one model: a command takes the Gate authority lock before the integration lock, a batch lock
before it as well, and the state lock last; the lock of the batch that a refresh has just cut is
taken after the one of the batch it replaces, by nobody else.
