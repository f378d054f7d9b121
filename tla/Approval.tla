------------------------------ MODULE Approval ------------------------------
(***************************************************************************)
(* One batch from the day it is prepared to the day it is merged, closed,  *)
(* failed or replaced: publication, approval of an exact candidate,        *)
(* reconciliation with the forge, revision and refresh                     *)
(* (src/src/broker.ts, src/src/candidate-lifecycle.ts and                  *)
(* src/src/publisher.ts).  Every command holds the lock of the batch, so   *)
(* one process, `proc`, works at a time; between any two of its steps the  *)
(* forge, the reviewers and the configuration file move on, and it may     *)
(* stop.  A transaction or a call to the forge is one step.  Recovery,     *)
(* which settles an interrupted revision, holds the integration lock       *)
(* instead; `rec` is its local variable.                                   *)
(*                                                                         *)
(* The pull request is external: it is modelled from how the code uses     *)
(* gh.  Heads and bases are numbered: candidate revision r has head r, a   *)
(* head pushed by somebody else is Foreign (a pull request retargeted to   *)
(* another branch is told from the candidate in the same way).             *)
(***************************************************************************)
EXTENDS Integers, FiniteSets

CONSTANTS
    Configs,   \* the configurations an operator may put in place
    First,     \* the one in place when the batch was assembled
    Commands,  \* the commands that are given
    Moves,     \* what the forge, reviewers and operators do meanwhile
    MaxRev,    \* bound: revisions of the candidate
    MaxTip,    \* bound: tips the target branch goes through
    MaxMoves,  \* bound: moves in a behaviour
    MaxFaults  \* bound: processes stopped and calls to the forge that fail

\* A configuration: publish.autoMerge, approval.required, a number for the
\* policy (policyRevision and the evidence it declares), and whether
\* approval.authorizedActors lets the approver in.
Config == [auto : BOOLEAN, required : BOOLEAN, policy : {1, 2}, trusts : BOOLEAN]
AllCommands == {"sync", "publish", "refresh", "approve", "verify", "request",
                "reopen", "revise", "recover", "close", "complete"}
AllMoves == {"base", "push", "checks", "review", "conflict", "merge", "close",
             "reopen", "queue", "config", "lease"}

ASSUME ApprovalAssumption ==
    /\ Configs \subseteq Config
    /\ First \in Configs
    /\ Commands \subseteq AllCommands
    /\ Moves \subseteq AllMoves
    /\ {MaxRev, MaxTip, MaxMoves, MaxFaults} \subseteq Nat
    /\ MaxRev > 0 /\ MaxTip > 0

Foreign == 0
Rev == 1..MaxRev
Tip == 1..MaxTip
NoIntent == [rev |-> 0, base |-> 1, policy |-> 1]

Final == {"superseded", "abandoned", "merged"}
Sticky == Final \cup {"changes_requested", "blocked"}
CandidateState == Sticky \cup {"verifying", "verification_failed", "ready_for_approval",
                               "approved", "merging"}
Verdict == {"none", "passed", "failed"}

\* The batch record.  `tracked`: it has a candidate record (batches assembled
\* without required approval have none).  `approval` is none, recorded or
\* confirmed, `revoked` its revocationRequestedAt, `grant` the binding the
\* approver gave.  `auto` stands for autoMergeEnabled and autoMergePending.
\* `closing` is refreshCloseIntent, `change` changeRequestIntent, `intent` the
\* revisionIntent.  `local` is the head of the local branch, `lease` the editing
\* lease of the task under revision, `requeued` that refresh gave the tasks back.
Binding == [rev : Rev, base : Tip, policy : {1, 2}]
BatchRecord ==
    [status : {"prepared", "published", "merged", "failed", "closed"},
     tracked : BOOLEAN, rev : Rev, base : Tip, policy : {1, 2},
     state : CandidateState, manual : Verdict, checks : Verdict,
     approval : {"none", "recorded", "confirmed"}, revoked : BOOLEAN,
     grant : Binding \cup {NoIntent},
     auto : {"unset", "off", "pending", "on"},
     url : BOOLEAN, refresh : BOOLEAN, closing : BOOLEAN, change : BOOLEAN,
     intent : Binding \cup {NoIntent}, local : Rev,
     lease : BOOLEAN, requeued : BOOLEAN]

\* The pull request at the forge.  `by` is who closed it last, `marker` that the
\* broker's refresh comment is on it, `proven` that it merged on the base it was
\* cut from, `opened` how many were opened for the branch.
PullRequest ==
    [st : {"none", "open", "closed", "merged"}, head : {Foreign} \cup Rev, tip : Tip,
     queue : {"none", "broker", "human"}, checks : {"pending", "passed", "failed"},
     review : {"none", "rejected", "conflict"}, marker : BOOLEAN,
     by : {"none", "broker", "reviewer"}, proven : BOOLEAN, opened : 0..2]

VARIABLES
    config,  \* the configuration file
    batch,   \* the batch record of state.json
    pr,      \* the pull request, and the tip of the branch it targets
    proc,    \* local variables of the command that holds the batch lock
    rec,     \* the head recovery has seen, or NotLooked
    moves,   \* moves made so far
    faults   \* faults so far

vars == <<config, batch, pr, proc, rec, moves, faults>>

NotLooked == MaxRev + 1

\* `stage` tells the calls a command makes to sync apart, `todo` is what sync
\* decided to do, `ok` the answer of the last call to the forge.
Phases == {"idle", "inspect", "journal", "disable", "settle", "change", "fresh", "create",
           "record", "attempt", "enable", "result", "look", "grant", "evidence", "recheck",
           "target", "close", "rejected", "retire", "build", "push", "finalize"}
\* What inspectPullRequest reads of p.
Snapshot(p) == [st |-> p.st, head |-> p.head, tip |-> p.tip, queued |-> p.queue # "none",
                checks |-> p.checks, review |-> p.review, proven |-> p.proven]
NoPullRequest == [st |-> "none", head |-> Foreign, tip |-> 1, queue |-> "none",
                  checks |-> "pending", review |-> "none", marker |-> FALSE, by |-> "none",
                  proven |-> FALSE, opened |-> 0]
Seen == [st : {"none", "open", "closed", "merged"}, head : {Foreign} \cup Rev, tip : Tip,
         queued : BOOLEAN, checks : {"pending", "passed", "failed"},
         review : {"none", "rejected", "conflict"}, proven : BOOLEAN]
Todo == {"none", "violated", "violated, queue off", "late", "queue off", "untracked", "closed",
         "unauthorized", "revoke", "synced", "merged", "mismatch", "mismatch, queue off",
         "adopt", "adopt, queue off", "stale", "stale, queue off", "observe", "keep",
         "changes", "changes, foreign", "changes, closed", "refresh"}
Progress == [cmd : AllCommands \cup {"none"}, pc : Phases, cfg : Configs, seen : Seen,
             stage : {1, 2}, todo : Todo, ok : BOOLEAN, arg : Binding \cup {NoIntent}]
Idle == [cmd |-> "none", pc |-> "idle", cfg |-> First, seen |-> Snapshot(NoPullRequest),
         stage |-> 1, todo |-> "none", ok |-> FALSE, arg |-> NoIntent]

Init ==
    /\ config = First
    /\ batch = [status |-> "prepared", tracked |-> First.required, rev |-> 1, base |-> 1,
                policy |-> First.policy, state |-> "verifying", manual |-> "none",
                checks |-> "none", approval |-> "none", revoked |-> FALSE,
                grant |-> NoIntent, auto |-> "unset", url |-> FALSE, refresh |-> FALSE,
                closing |-> FALSE, change |-> FALSE, intent |-> NoIntent, local |-> 1,
                lease |-> FALSE, requeued |-> FALSE]
    /\ pr = NoPullRequest
    /\ proc = Idle
    /\ rec = NotLooked
    /\ moves = 0
    /\ faults = 0

-----------------------------------------------------------------------------
(* Faults: one thing wrong each, for what the properties must catch; not   *)
(* part of the specification.                                              *)

BindsBaseOnly(arg) == arg.base = batch.base /\ arg.policy = batch.policy
AttemptedSilently(b) == b
MergedAnyhow(b, s, c) == s.head = b.rev /\ b.approval = "confirmed" /\ ~b.revoked
PushNeverHappened == batch.rev
OpenOneFound == pr.st # "open"
AnyHead == TRUE
SettledAtOnce(todo) == "settle"
SyncFirst == "inspect"
KeptAnyway(b) == "keep"
UnmarkedFails == IF pr.marker THEN "retire" ELSE "idle"

-----------------------------------------------------------------------------
(* Readings of the record b under the configuration c.                     *)

Published(b) == b.status = "published"
MayBeQueued(b) == b.auto \in {"pending", "on"}
PolicyCurrent(b, c) == c.required /\ b.policy = c.policy
ActorCurrent(b, c) == b.approval = "none" \/ c.trusts
Bound(b) == [rev |-> b.rev, base |-> b.base, policy |-> b.policy]
Authorized(b) == /\ b.approval = "confirmed"
                 /\ ~b.revoked
                 /\ b.state \in {"approved", "merging"}

\* candidateState: what the evidence amounts to, unless the state is sticky.
StateOf(b) ==
    IF b.state \in Sticky THEN b.state
    ELSE IF "failed" \in {b.manual, b.checks} THEN "verification_failed"
    ELSE IF {b.manual, b.checks} # {"passed"} THEN "verifying"
    ELSE IF b.approval = "none" THEN "ready_for_approval"
    ELSE IF b.state = "merging" THEN "merging" ELSE "approved"

\* makeCandidate, on top of the record b.
WithCandidate(b, rev, base, policy) ==
    [b EXCEPT !.tracked = TRUE, !.rev = rev, !.base = base, !.policy = policy,
              !.state = "verifying", !.manual = "none", !.checks = "none",
              !.approval = "none", !.revoked = FALSE, !.grant = NoIntent]

NoApproval(b) == [b EXCEPT !.approval = "none", !.revoked = FALSE, !.grant = NoIntent]

-----------------------------------------------------------------------------
(* The transactions of sync, as functions of the record b, the answer s of *)
(* the forge and the configuration c.                                      *)

\* The batch fails for good: batch.merge_invariant_violated.
Violated(b) ==
    [NoApproval(b) EXCEPT !.status = "failed", !.auto = "off", !.refresh = FALSE,
                          !.closing = FALSE,
                          !.state = IF b.tracked THEN "blocked" ELSE @]

Untracked(b) == [b EXCEPT !.status = "failed", !.auto = "off"]

QueueOff(b) == [b EXCEPT !.auto = "off",
                         !.state = IF b.approval # "none" /\ @ = "merging" THEN "approved" ELSE @]

\* closeBatchLocked: the work is rejected; its tasks fail and are not queued again.
Closed(b) ==
    IF b.status = "closed" THEN b
    ELSE [NoApproval(b) EXCEPT !.status = "closed", !.auto = "off", !.change = FALSE,
                               !.refresh = FALSE, !.closing = FALSE,
                               !.state = IF b.tracked THEN "abandoned" ELSE @]
MayClose(b) == b.intent = NoIntent /\ b.status \in {"prepared", "published", "closed"}

\* markBatchMergedLocked.
Merged(b) ==
    [b EXCEPT !.status = "merged", !.auto = "off",
              !.state = IF b.tracked THEN "merged" ELSE @]
MayMerge(b, c) ==
    /\ b.intent = NoIntent /\ ~b.change /\ ~b.refresh /\ ~b.closing
    /\ b.status \in {"prepared", "published", "closed"}
    /\ b.tracked \/ c.required =>
          /\ b.tracked /\ PolicyCurrent(b, c) /\ ActorCurrent(b, c)
          /\ b.approval = "confirmed" /\ ~b.revoked

\* Is the approval of b void, given what the forge says?
Invalidated(b, s, c) ==
    /\ b.approval # "none"
    /\ \/ b.revoked
       \/ ~PolicyCurrent(b, c)
       \/ ~ActorCurrent(b, c)
       \/ s.head # b.rev
       \/ s.tip # b.base
       \/ s.review # "none"
       \/ s.checks # "passed"

\* Did the forge merge what was approved?
MergedAsApproved(b, s, c) ==
    /\ PolicyCurrent(b, c) /\ ActorCurrent(b, c)
    /\ s.head = b.rev /\ s.proven
    /\ b.approval = "confirmed" /\ ~b.revoked
    /\ s.review = "none" /\ s.checks = "passed"

\* The reconciling transaction of an open pull request: batch.candidate_synced.
Blocked(b) == [NoApproval(b) EXCEPT !.state = "blocked", !.auto = "off"]
Confirmed(b) == IF b.approval = "recorded" /\ ~b.revoked
                THEN [b EXCEPT !.approval = "confirmed"] ELSE b
WithChecks(b, s) ==
    LET e == [b EXCEPT !.checks = IF s.checks = "pending" THEN "none" ELSE s.checks]
    IN  [e EXCEPT !.state = StateOf(e)]
Kept(b) ==
    IF b.approval # "none" /\ (b.revoked \/ b.state \notin {"approved", "merging"})
    THEN LET e == [NoApproval(b) EXCEPT !.auto = "off"] IN [e EXCEPT !.state = StateOf(e)]
    ELSE b
Requeried(b, s, c) ==
    IF c.auto /\ Authorized(b)
    THEN [b EXCEPT !.auto = IF s.queued THEN "on" ELSE "off",
                   !.state = IF s.queued THEN "merging" ELSE "approved"]
    ELSE IF ~s.queued THEN [b EXCEPT !.auto = "off"] ELSE b
Synced(b, s, c) ==
    IF ~PolicyCurrent(b, c) THEN [Blocked(b) EXCEPT !.refresh = TRUE]
    ELSE IF s.head # b.rev THEN [Blocked(b) EXCEPT !.refresh = FALSE, !.closing = FALSE]
    ELSE IF s.tip # b.base THEN [Blocked(b) EXCEPT !.refresh = TRUE]
    ELSE IF s.review = "rejected"
         THEN [NoApproval(b) EXCEPT !.state = "changes_requested", !.auto = "off"]
    ELSE IF s.review = "conflict" THEN Blocked(b)
    ELSE Requeried(Kept(Confirmed(WithChecks(b, s))), s, c)

\* A close that refresh has announced is left to refresh.
OnClosed(b) == IF b.closing THEN "keep" ELSE "closed"

\* What sync does about the answer s, in the order of its branches.
Decision(b, s, c) ==
    IF s.st = "merged" /\ (b.refresh \/ b.closing) THEN "violated"
    ELSE IF s.st = "open" /\ ~c.auto /\ (MayBeQueued(b) \/ s.queued) THEN "queue off"
    ELSE IF s.head # b.rev /\ (~c.required \/ s.st = "closed")
         THEN IF s.st = "open" /\ c.auto THEN "violated, queue off" ELSE "violated"
    ELSE IF s.st = "closed" THEN OnClosed(b)
    ELSE IF s.st = "open" /\ b.tracked /\ b.approval = "none" /\ (MayBeQueued(b) \/ s.queued)
         THEN "unauthorized"
    ELSE IF b.tracked THEN
         IF s.st = "merged"
         THEN IF MergedAsApproved(b, s, c) THEN "merged" ELSE "violated"
         ELSE IF Invalidated(b, s, c) THEN "revoke" ELSE "synced"
    ELSE IF c.required THEN
         IF s.st = "merged" THEN "untracked"
         ELSE IF s.head # b.rev \/ s.tip # b.base
              THEN IF MayBeQueued(b) \/ s.queued THEN "mismatch, queue off" ELSE "mismatch"
         ELSE IF MayBeQueued(b) \/ s.queued THEN "adopt, queue off" ELSE "adopt"
    ELSE IF s.st = "merged" THEN IF s.proven THEN "merged" ELSE "violated"
    ELSE IF s.tip # b.base
         THEN IF MayBeQueued(b) \/ c.auto THEN "stale, queue off" ELSE "stale"
    ELSE IF (b.auto = "on") # s.queued \/ b.auto = "pending" THEN "observe"
    ELSE "keep"

\* Decisions that are written down before the queue is touched, and those that
\* turn the queue off before anything else is written.
Journaled == {"unauthorized", "mismatch, queue off", "revoke"}
QueueFirst == {"queue off", "violated, queue off", "adopt, queue off", "stale, queue off",
               "changes", "changes, foreign", "refresh"}
FirstStep(todo) == IF todo \in Journaled THEN "journal"
                   ELSE IF todo \in QueueFirst THEN "disable" ELSE "settle"

\* The transaction that settles a decision; `late` is a merge that came first.
Settled(todo, b, s, c) ==
    CASE todo \in {"violated", "violated, queue off", "late"} -> Violated(b)
      [] todo = "queue off" -> QueueOff(b)
      [] todo = "untracked" -> Untracked(b)
      [] todo = "closed" -> IF MayClose(b) THEN Closed(b) ELSE b
      [] todo = "unauthorized" -> [b EXCEPT !.auto = "off", !.state = StateOf(b)]
      [] todo \in {"revoke", "synced"} -> Synced(b, s, c)
      [] todo = "merged" -> IF MayMerge(b, c) THEN Merged(b) ELSE b
      [] todo = "mismatch, queue off" -> [b EXCEPT !.auto = "off"]
      [] todo \in {"adopt", "adopt, queue off"} ->
            [WithCandidate(b, 1, b.base, c.policy) EXCEPT !.auto = "off"]
      [] todo \in {"stale", "stale, queue off"} -> [b EXCEPT !.auto = "off", !.refresh = TRUE]
      [] todo = "observe" -> [b EXCEPT !.auto = IF s.queued THEN "on" ELSE "off"]
      [] todo = "changes" ->
            [NoApproval(b) EXCEPT !.state = "changes_requested", !.auto = "off",
                                  !.change = FALSE]
      [] todo = "changes, foreign" ->
            [NoApproval(b) EXCEPT !.status = "failed", !.state = "blocked", !.auto = "off",
                                  !.change = FALSE]
      [] todo = "changes, closed" -> IF MayClose(b) THEN Closed(b) ELSE b
      [] todo = "refresh" ->
            [b EXCEPT !.auto = "off", !.state = IF @ = "merging" THEN "approved" ELSE @]
      [] OTHER -> b

-----------------------------------------------------------------------------
(* Steps shared by the commands.  `At(pc)` says where the command stands.  *)

At(pc) == proc.pc = pc
Goto(pc) == proc' = [proc EXCEPT !.pc = pc]
End == proc' = Idle
World == <<config, pr, rec, moves, faults>>
Record(b) == batch' = b /\ UNCHANGED World
Local == UNCHANGED <<batch, config, pr, rec, moves, faults>>
Forge(p) == pr' = p /\ UNCHANGED <<batch, config, rec, moves, faults>>

\* Command cmd takes the batch lock and reads the configuration.  Commands refuse
\* a batch with a revision to recover (assertNoPendingRevision).
Begin(cmd, pc, arg) ==
    /\ At("idle")
    /\ cmd \in Commands
    /\ batch.intent = NoIntent
    /\ ~batch.requeued
    /\ proc' = [Idle EXCEPT !.cmd = cmd, !.pc = pc, !.cfg = config, !.arg = arg]

\* Where sync starts: a change request on record comes first.
SyncEntry == IF batch.change THEN "change" ELSE "inspect"

\* Where the command stands when sync has returned the record b.
Resumed(b) ==
    LET on(pc, stage) == [proc EXCEPT !.pc = pc, !.stage = stage, !.todo = "none",
                                      !.seen = Idle.seen]
        c == proc.cfg
    IN  CASE proc.cmd = "publish" /\ proc.stage = 1 /\ Published(b) /\ ~b.refresh ->
                on("fresh", 1)
          [] /\ proc.cmd = "publish" /\ proc.stage = 2 /\ Published(b) /\ ~b.refresh
             /\ b.auto # "on"
             /\ b.tracked \/ c.required => /\ b.tracked /\ PolicyCurrent(b, c)
                                           /\ ActorCurrent(b, c) /\ Authorized(b) ->
                on("attempt", 2)
          [] /\ proc.cmd = "approve" /\ Published(b) /\ b.approval # "none"
             /\ b.state \in {"approved", "merging"} /\ c.auto /\ b.auto # "on" ->
                on("attempt", 2)
          [] proc.cmd = "refresh" /\ Published(b) -> on("target", 1)
          [] proc.cmd = "close" /\ proc.stage = 1 -> on("recheck", 2)
          [] OTHER -> Idle

-----------------------------------------------------------------------------
(* Reconciliation: syncBatchLocked.                                        *)

SyncStart ==
    /\ Begin("sync", SyncEntry, NoIntent)
    /\ batch.url /\ batch.status # "merged"
    /\ Local

\* The pull request is read once; what follows trusts that answer.
SyncInspect ==
    /\ At("inspect")
    /\ LET s == Snapshot(pr)
           todo == Decision(batch, s, proc.cfg)
       IN  proc' = [proc EXCEPT !.seen = s, !.todo = todo, !.pc = FirstStep(todo)]
    /\ Local

\* The side effect on the queue is written down first.
SyncJournal ==
    /\ At("journal")
    /\ Record(IF proc.todo = "revoke" THEN [batch EXCEPT !.revoked = TRUE]
                                      ELSE [batch EXCEPT !.auto = "pending"])
    /\ Goto("disable")

\* disableAutoMerge.  When the pull request merged first, nothing is turned off
\* and most callers give up: the next sync finds the merge.
DisableAutoMerge ==
    /\ At("disable")
    /\ IF pr.st = "merged"
       THEN /\ Forge(pr)
            /\ CASE proc.todo = "stale, queue off" ->
                        proc' = [proc EXCEPT !.pc = "settle", !.todo = "late"]
                 [] proc.todo = "violated, queue off" -> Goto("settle")
                 [] OTHER -> End
       ELSE Forge([pr EXCEPT !.queue = "none"]) /\ Goto("settle")

SyncSettle ==
    /\ At("settle")
    /\ LET b == Settled(proc.todo, batch, proc.seen, proc.cfg)
       IN  /\ Record(b)
           /\ proc' = CASE proc.todo = "unauthorized" -> [proc EXCEPT !.todo = "synced"]
                        [] proc.todo \in {"mismatch", "mismatch, queue off"} -> Idle
                        [] proc.todo = "refresh" -> [proc EXCEPT !.pc = "close", !.todo = "none"]
                        [] OTHER -> Resumed(b)

\* completeChangeRequestLocked, from its own reading of the pull request.
ChangeInspect ==
    /\ At("change")
    /\ LET todo == CASE pr.st = "closed" -> "changes, closed"
                     [] pr.st = "open" /\ pr.head = batch.rev -> "changes"
                     [] OTHER -> "changes, foreign"
       IN  proc' = [proc EXCEPT !.seen = Snapshot(pr), !.todo = todo,
                                !.pc = IF pr.st = "open" THEN "disable" ELSE "settle"]
    /\ Local

-----------------------------------------------------------------------------
(* Publication: publishBatchLocked.  (With a change request on record it   *)
(* does what sync does.)                                                   *)

MayPublish(b) == ~b.change
PublishStart ==
    /\ Begin("publish", IF Published(batch) THEN "inspect" ELSE "fresh", NoIntent)
    /\ MayPublish(batch)
    /\ batch.status \in {"prepared", "published"}
    /\ Local

\* assertBatchBaseFresh, and the transaction that records a stale base.
PublishFresh ==
    /\ At("fresh")
    /\ IF pr.tip # batch.base
       THEN Record([batch EXCEPT !.refresh = TRUE]) /\ End
       ELSE Local /\ Goto(IF Published(batch) THEN "record" ELSE "create")

\* findPullRequest: a closed or merged one counts.
NoneFound == pr.st = "none"

\* The branch is pushed (never by force), then the pull request of that branch
\* is looked up, whatever its state, and opened when there is none.
PublishCreate ==
    /\ At("create")
    /\ \/ /\ NoneFound
          /\ Forge([pr EXCEPT !.st = "open", !.head = batch.rev, !.checks = "pending",
                              !.opened = @ + 1])
          /\ Goto("record")
       \/ ~NoneFound /\ pr.head = batch.rev /\ Forge(pr) /\ Goto("record")
       \/ ~NoneFound /\ pr.head # batch.rev /\ Forge(pr) /\ End

\* Recorded before auto-merge is attempted; then everything is read again.
OnRecord(b) == [b EXCEPT !.status = "published", !.url = TRUE, !.refresh = FALSE,
                         !.closing = FALSE]
PublishRecord ==
    /\ At("record")
    /\ Record(OnRecord(batch))
    /\ IF proc.cfg.auto /\ batch.auto # "on"
       THEN proc' = [proc EXCEPT !.pc = "inspect", !.stage = 2]
       ELSE End

\* Publish and approve alike: the attempt is written down, made, and its result
\* written down.
Attempted(b) == [b EXCEPT !.auto = "pending"]
AttemptRecord ==
    /\ At("attempt")
    /\ Record(Attempted(batch))
    /\ Goto("enable")

\* enableAutoMerge, bound to the head.  It queues the merge, or merges at once a
\* pull request the forge calls clean, or finds it merged already; anything else
\* is a warning.  A call that fails may have had its effect.
HeadGuard == pr.head = batch.rev
Answer(ok) == proc' = [proc EXCEPT !.pc = "result", !.ok = ok]
Clean(p) == p.st = "open" /\ p.checks = "passed" /\ p.review = "none"
Land(p) == [p EXCEPT !.st = "merged", !.queue = "none",
                     !.proven = p.head = batch.rev /\ p.tip = batch.base]
EnableAutoMerge ==
    /\ At("enable")
    /\ \/ /\ pr.st = "open" /\ HeadGuard
          /\ Forge([pr EXCEPT !.queue = "broker"])
          /\ Answer(TRUE)
       \/ /\ Clean(pr) /\ HeadGuard
          /\ Forge(Land(pr))
          /\ Answer(TRUE)
       \/ /\ pr.st # "open" \/ ~HeadGuard
          /\ Forge(pr)
          /\ Answer(pr.st = "merged" /\ HeadGuard)
       \/ /\ faults < MaxFaults
          /\ faults' = faults + 1
          /\ \/ pr' = pr
             \/ pr.st = "open" /\ HeadGuard /\ pr' = [pr EXCEPT !.queue = "broker"]
          /\ UNCHANGED <<batch, config, rec, moves>>
          /\ Answer(FALSE)

\* Publish and approve alike: an approved candidate is merging once it is queued.
Enabled(b) == [b EXCEPT !.auto = "on",
                        !.state = IF b.approval # "none" THEN "merging" ELSE @]
AttemptResult ==
    /\ At("result")
    /\ Record(IF proc.ok THEN Enabled(batch) ELSE batch)
    /\ End

-----------------------------------------------------------------------------
(* Evidence, approval and requests for changes.  `arg` is the candidate,   *)
(* base and policy the caller names.                                       *)

\* assertCandidateBinding.
Binds(arg) == arg = Bound(batch)
InReview == Published(batch) /\ batch.url /\ batch.tracked

VerifyStart(arg) ==
    /\ Begin("verify", "evidence", arg)
    /\ config.required /\ InReview /\ Binds(arg)
    /\ batch.policy = config.policy /\ ActorCurrent(batch, config)
    /\ pr.st = "open" /\ pr.head = batch.rev
    /\ Local

VerifyRecord(verdict) ==
    /\ At("evidence")
    /\ IF batch.state \in Final \cup {"approved", "merging"} THEN Local
       ELSE LET b == [batch EXCEPT !.manual = verdict]
            IN  Record([b EXCEPT !.state = StateOf(b)])
    /\ End

\* approveBatchLocked, which the caller gives a candidate it has reviewed.
Approvable == {"ready_for_approval", "approved", "merging"}
ApproveStart(arg) ==
    /\ Begin("approve", "look", arg)
    /\ config.required /\ config.trusts
    /\ InReview /\ ~batch.lease
    /\ Binds(arg)
    /\ batch.policy = config.policy
    /\ batch.state \in Approvable
    /\ Local

ApproveInspect ==
    /\ At("look")
    /\ IF pr.st = "open" /\ pr.head = batch.rev /\ pr.tip = batch.base
          /\ pr.checks = "passed" /\ pr.review = "none"
       THEN Goto("grant") ELSE End
    /\ Local

\* The approval is recorded, and is confirmed only by the sync that follows.
ApproveGrant ==
    /\ At("grant")
    /\ IF batch.state \in Approvable /\ ~batch.lease
       THEN /\ Record(IF batch.approval # "none" /\ ~batch.revoked /\ proc.cfg.trusts
                      THEN batch
                      ELSE [batch EXCEPT !.approval = "recorded", !.revoked = FALSE,
                                         !.grant = proc.arg, !.state = "approved"])
            /\ Goto(SyncEntry)
       ELSE Local /\ End

\* requestChangesLocked: the request is on record before the queue is touched.
RequestChanges(arg) ==
    /\ Begin("request", "change", arg)
    /\ ~batch.change => /\ ~batch.refresh /\ ~batch.closing
                        /\ InReview /\ Binds(arg)
                        /\ pr.st = "open" /\ pr.head = batch.rev
    /\ Record([batch EXCEPT !.change = TRUE])

-----------------------------------------------------------------------------
(* Revision of the candidate on its branch, and its recovery.              *)

\* reopenTaskForRevisionLocked: one transaction.
ReopenTask ==
    /\ At("idle") /\ "reopen" \in Commands
    /\ batch.intent = NoIntent
    /\ config.required /\ batch.tracked
    /\ batch.status \in {"prepared", "published"}
    /\ batch.state \notin {"approved", "merging"} /\ ~MayBeQueued(batch)
    /\ ~batch.lease
    /\ Record([NoApproval(batch) EXCEPT !.lease = TRUE, !.state = "changes_requested"])
    /\ UNCHANGED proc

Revisable == batch.lease /\ batch.state = "changes_requested"

\* reviseTaskLocked, which holds the integration lock as well.
ReviseStart ==
    /\ Begin("revise", "build", NoIntent)
    /\ rec = NotLooked
    /\ batch.status \in {"prepared", "published"}
    /\ batch.tracked /\ Revisable
    /\ batch.rev < MaxRev
    /\ batch.url => pr.st = "open" /\ pr.head = batch.rev
    /\ Local

\* The new candidate is built on the current tip, then written down as an intent.
ReviseIntend ==
    /\ At("build")
    /\ IF Revisable
       THEN /\ Record([batch EXCEPT !.intent = [rev |-> batch.rev + 1, base |-> pr.tip,
                                                policy |-> proc.cfg.policy]])
            /\ Goto("push")
       ELSE Local /\ End

\* The branch is moved, at the remote only from the head that is replaced.
RevisePush ==
    /\ At("push")
    /\ IF ~batch.url
       THEN /\ Record([batch EXCEPT !.local = batch.intent.rev])
            /\ Goto("finalize")
       ELSE IF pr.head = batch.rev
       THEN /\ Forge([pr EXCEPT !.head = batch.intent.rev, !.checks = "pending",
                                !.review = IF @ = "conflict" THEN "none" ELSE @])
            /\ Goto("finalize")
       ELSE Local /\ End

\* finalizeCandidateRevision.
Finalized(b) ==
    [WithCandidate(b, b.intent.rev, b.intent.base, b.intent.policy)
        EXCEPT !.auto = "unset", !.change = FALSE, !.refresh = FALSE, !.closing = FALSE,
               !.lease = FALSE, !.intent = NoIntent, !.local = b.intent.rev]

ReviseFinalize ==
    /\ At("finalize")
    /\ IF batch.state = "changes_requested" THEN Record(Finalized(batch)) ELSE Local
    /\ End

\* Recovery looks at the branch and settles the intent by what it found there.
BranchHead == IF batch.url THEN pr.head ELSE batch.local
RecoverLook ==
    /\ "recover" \in Commands
    /\ batch.intent # NoIntent
    /\ proc.cmd # "revise" /\ rec = NotLooked
    /\ rec' = BranchHead
    /\ UNCHANGED <<batch, config, pr, proc, moves, faults>>

RecoverSettle ==
    /\ rec # NotLooked
    /\ batch' = IF rec = batch.intent.rev /\ batch.state = "changes_requested"
                THEN Finalized(batch)
                ELSE IF rec = batch.rev THEN [batch EXCEPT !.intent = NoIntent]
                ELSE batch
    /\ rec' = NotLooked
    /\ UNCHANGED <<config, pr, proc, moves, faults>>

-----------------------------------------------------------------------------
(* Refresh: refreshBatchLocked, up to the re-cut of the tasks (which       *)
(* Coordinate models).                                                     *)

RefreshStart ==
    /\ Begin("refresh", IF Published(batch) THEN "inspect" ELSE "target", NoIntent)
    /\ ~batch.change
    /\ batch.status \in {"prepared", "published"}
    /\ Local

\* Why the pull request is about to be closed is on record before it is.
RefreshIntent ==
    /\ At("target")
    /\ IF pr.tip = batch.base /\ ~batch.refresh /\ ~batch.closing
       THEN Local /\ End
       ELSE /\ Record([batch EXCEPT !.refresh = TRUE, !.closing = batch.url])
            /\ proc' = CASE batch.url /\ batch.auto # "off" ->
                                [proc EXCEPT !.pc = "disable", !.todo = "refresh"]
                         [] batch.url /\ batch.auto = "off" -> [proc EXCEPT !.pc = "close"]
                         [] OTHER -> [proc EXCEPT !.pc = "retire"]

\* closePullRequest: a close counts as the broker's when its marker is there.
OnMarker == IF pr.marker THEN "retire" ELSE "rejected"
RefreshClose ==
    /\ At("close")
    /\ CASE pr.st = "open" ->
                /\ Forge([pr EXCEPT !.st = "closed", !.queue = "none", !.marker = TRUE,
                                    !.by = "broker"])
                /\ Goto("retire")
         [] pr.st = "closed" -> Forge(pr) /\ Goto(OnMarker)
         [] OTHER -> Forge(pr) /\ End

RefreshRejected ==
    /\ At("rejected")
    /\ Record(IF MayClose(batch) THEN Closed(batch) ELSE batch)
    /\ End

\* The batch is superseded and its tasks are queued again.
RefreshRetire ==
    /\ At("retire")
    /\ Record([NoApproval(batch) EXCEPT !.status = "closed", !.auto = "off",
                  !.change = FALSE, !.refresh = FALSE, !.closing = FALSE, !.requeued = TRUE,
                  !.state = IF batch.tracked THEN "superseded" ELSE @])
    /\ End

-----------------------------------------------------------------------------
(* closeBatch and markBatchMerged (`batch complete`).                      *)

CloseStart ==
    /\ ~batch.change /\ ~batch.revoked /\ ~batch.refresh /\ ~batch.closing
    /\ IF batch.url
       THEN Begin("close", "inspect", NoIntent) /\ batch.status # "merged" /\ Local
       ELSE /\ At("idle") /\ "close" \in Commands
            /\ ~MayBeQueued(batch) /\ ~batch.requeued /\ MayClose(batch)
            /\ Record(Closed(batch)) /\ UNCHANGED proc

\* The pull request may have merged since the first reconciliation.
CloseRecheck ==
    /\ At("recheck")
    /\ IF pr.st = "merged" /\ batch.status # "merged" THEN Goto("inspect") ELSE End
    /\ Local

\* The operator asserts the merge; here the assertion is true.
Complete ==
    /\ At("idle") /\ "complete" \in Commands
    /\ pr.st = "merged" /\ pr.head = batch.rev /\ pr.proven
    /\ ~batch.requeued
    /\ MayMerge(batch, config)
    /\ Record(Merged(batch))
    /\ UNCHANGED proc

-----------------------------------------------------------------------------
(* What happens around the broker.  A move is bounded; that a check which  *)
(* was pending reports, or that the queue merges, is not.                  *)

Quiet == UNCHANGED <<batch, config, proc, rec, faults>>
Move(name) == name \in Moves /\ moves < MaxMoves /\ moves' = moves + 1 /\ Quiet

ChecksReport(verdict) ==
    /\ pr.st = "open" /\ pr.checks = "pending"
    /\ pr' = [pr EXCEPT !.checks = verdict]
    /\ Quiet /\ UNCHANGED moves
\* The forge merges what is queued and clean, whatever the base is by then.
QueueMerges == /\ pr.queue # "none" /\ Clean(pr)
               /\ pr' = Land(pr)
               /\ Quiet /\ UNCHANGED moves

BaseMoves == /\ Move("base") /\ pr.tip < MaxTip
             /\ pr' = [pr EXCEPT !.tip = @ + 1]
\* Somebody else pushes to the branch, or puts the candidate back.
HeadMoves == /\ Move("push") /\ pr.st = "open"
             /\ pr' = [pr EXCEPT !.head = IF @ = Foreign THEN batch.rev ELSE Foreign,
                                 !.checks = "pending"]
ChecksRestart == /\ Move("checks") /\ pr.st = "open" /\ pr.checks # "pending"
                 /\ pr' = [pr EXCEPT !.checks = "pending"]
ReviewChanges(verdict) == /\ Move(IF verdict = "conflict" THEN "conflict" ELSE "review")
                          /\ pr.st = "open" /\ pr.review # verdict
                          /\ pr' = [pr EXCEPT !.review = verdict]
SomebodyMerges == /\ Move("merge") /\ pr.st = "open"
                  /\ pr' = Land(pr)
SomebodyCloses == /\ Move("close") /\ pr.st = "open"
                  /\ pr' = [pr EXCEPT !.st = "closed", !.queue = "none", !.by = "reviewer"]
SomebodyReopens == /\ Move("reopen") /\ pr.st = "closed"
                   /\ pr' = [pr EXCEPT !.st = "open"]
SomebodyQueues == /\ Move("queue") /\ pr.st = "open"
                  /\ pr' = [pr EXCEPT !.queue = IF @ = "none" THEN "human" ELSE "none"]
LeaseExpires == /\ "lease" \in Moves /\ moves < MaxMoves /\ moves' = moves + 1
                /\ batch.lease
                /\ batch' = [batch EXCEPT !.lease = FALSE]
                /\ UNCHANGED <<config, pr, proc, rec, faults>>
ConfigChanges(c) == /\ "config" \in Moves /\ moves < MaxMoves /\ moves' = moves + 1
                    /\ config' = c
                    /\ UNCHANGED <<batch, pr, proc, rec, faults>>

\* A process stops, or a call to the forge fails and its command gives up: what
\* the call did stands.
Stop == /\ proc.pc # "idle" \/ rec # NotLooked
        /\ faults < MaxFaults
        /\ faults' = faults + 1
        /\ \/ proc' = Idle /\ rec' = IF proc.cmd = "revise" THEN NotLooked ELSE rec
           \/ rec # NotLooked /\ rec' = NotLooked /\ UNCHANGED proc
        /\ UNCHANGED <<batch, config, pr, moves>>

-----------------------------------------------------------------------------
\* What a command already running does next.
Step ==
    \/ SyncInspect \/ SyncJournal \/ DisableAutoMerge \/ SyncSettle \/ ChangeInspect
    \/ PublishFresh \/ PublishCreate \/ PublishRecord
    \/ AttemptRecord \/ EnableAutoMerge \/ AttemptResult
    \/ \E verdict \in {"passed", "failed"} : VerifyRecord(verdict)
    \/ ApproveInspect \/ ApproveGrant
    \/ ReviseIntend \/ RevisePush \/ ReviseFinalize
    \/ RefreshIntent \/ RefreshClose \/ RefreshRejected \/ RefreshRetire
    \/ CloseRecheck

Command ==
    \/ SyncStart \/ PublishStart \/ RefreshStart \/ ReviseStart \/ CloseStart
    \/ \E arg \in Binding : VerifyStart(arg) \/ ApproveStart(arg) \/ RequestChanges(arg)
    \/ ReopenTask \/ Complete

Around ==
    \/ \E verdict \in {"passed", "failed"} : ChecksReport(verdict)
    \/ QueueMerges \/ BaseMoves \/ HeadMoves \/ ChecksRestart
    \/ \E verdict \in {"none", "rejected", "conflict"} : ReviewChanges(verdict)
    \/ SomebodyMerges \/ SomebodyCloses \/ SomebodyReopens \/ SomebodyQueues
    \/ LeaseExpires \/ \E c \in Configs \ {config} : ConfigChanges(c)

Next == Step \/ Command \/ RecoverLook \/ RecoverSettle \/ Around \/ Stop

Spec == Init /\ [][Next]_vars

\* A poll of serve --publish: every published batch is reconciled, then what
\* publicationRetryReason names is refreshed or published.
Retried(b, c) ==
    \/ b.status = "prepared"
    \/ Published(b) /\ c.auto /\ b.auto # "on"
       /\ (c.required \/ b.tracked => c.required /\ b.approval # "none"
                                      /\ b.state \in {"approved", "merging"})
ServeSync == Published(batch) /\ SyncStart
ServeRefresh == batch.refresh /\ RefreshStart
ServePublish == ~batch.refresh /\ Retried(batch, config) /\ PublishStart

FairSpec == /\ Spec
            /\ WF_vars(Step)
            /\ SF_vars(ServeSync) /\ SF_vars(ServeRefresh) /\ SF_vars(ServePublish)

-----------------------------------------------------------------------------
TypeOK ==
    /\ config \in Configs
    /\ batch \in BatchRecord /\ (Published(batch) => batch.url)
    /\ pr \in PullRequest
    /\ proc \in Progress
    /\ rec \in {NotLooked, Foreign} \cup Rev
    /\ moves \in 0..MaxMoves
    /\ faults \in 0..MaxFaults

\* Whatever was approved is exactly what the record holds now: the approver named
\* this revision on this base under this policy, and no task of it is being edited.
ApprovalIsExact ==
    batch.approval # "none" =>
        /\ batch.grant = Bound(batch)
        /\ batch.state \in {"approved", "merging", "merged"}
        /\ ~batch.lease

\* A merge that the broker queued is never forgotten: as long as it is live, the
\* record says that it may be, and the batch is one that sync looks at.
QueueIsRecorded ==
    pr.queue = "broker" => MayBeQueued(batch) /\ Published(batch)

\* Whenever the broker queues a merge, the head is the candidate's, its approval is
\* confirmed and stands, and nobody has asked for changes: a retry of an earlier
\* attempt does not outlive the request that called it off.
QueuedOnlyIfPermitted ==
    [][pr.queue # "broker" /\ pr'.queue = "broker" =>
            /\ pr.head = batch.rev
            /\ ~batch.change /\ batch.state # "changes_requested"
            /\ batch.tracked => batch.approval = "confirmed" /\ ~batch.revoked]_vars

\* A batch is recorded as merged only when the forge merged its candidate, on the
\* base it was validated on, with the approval it needed.
MergedIsProven ==
    batch.status = "merged" =>
        /\ pr.st = "merged" /\ pr.head = batch.rev /\ pr.proven
        /\ batch.tracked => batch.approval = "confirmed"

\* The branch at the forge never carries a revision the record knows nothing of.
BranchIsKnown ==
    pr.head > batch.rev => batch.intent.rev = pr.head

\* The record and the forge implement permission to merge one exact candidate.
Permission == INSTANCE Authorization WITH
    Candidate <- Rev,
    candidate <- IF batch.tracked THEN batch.rev ELSE 0,
    permit <- CASE batch.approval = "none" -> "none"
                [] batch.approval = "recorded" -> "given"
                [] batch.approval = "confirmed" -> "valid",
    queued <- pr.queue = "broker",
    landed <- batch.status = "merged"
Permitted == Permission!Spec

\* However often publication is interrupted and retried, the branch gets one pull
\* request.
OnePullRequest == pr.opened <= 1

\* A request for changes that is on record is carried out by the next polls, also
\* when the process that recorded it stopped before it touched the queue.
ChangeRequestSettles == batch.change ~> (~batch.change \/ batch.intent # NoIntent)

\* A batch marked for refresh is re-cut, published after all, or given up.
StaleIsReplaced == batch.refresh ~> (~batch.refresh \/ batch.intent # NoIntent)

\* A batch whose pull request was closed does not stay published.
CloseIsNoticed ==
    (batch.url /\ pr.st = "closed") ~>
        (~Published(batch) \/ pr.st # "closed" \/ batch.intent # NoIntent)

\* Refresh requeues the tasks of a batch only when no pull request of it was left
\* open ("Closed before the tasks are requeued", refreshBatchLocked).
SupersededWasClosed == batch.requeued => pr.st = "none" \/ pr.by # "none"

\* Refresh takes a close for its own only if it was ("a reviewer's rejection can
\* never be mistaken", closePullRequest).
RejectionIsRecognised ==
    [][proc.pc = "close" /\ proc'.pc = "retire" /\ pr.st = "closed" => pr.by = "broker"]_vars
=============================================================================
