-------------------------- MODULE SubmissionProofs --------------------------
(***************************************************************************)
(* Theorems about Submission, for any number of launches, any commands and *)
(* moves, and any number of stops, kills and failing calls.                *)
(***************************************************************************)
EXTENDS Submission, ExecutionGuardProofs

-----------------------------------------------------------------------------
(* The inductive invariant: what a step may rely on when the process       *)
(* stopped and another command went on in the meantime.                    *)

NothingLeft == ~registered /\ root.fill \notin {"ours", "changed"}

\* The record names a worktree as long as one may be there, and decides to retire only when none is.
StatusInv ==
    /\ rec.tree => rec.status \in {"validating", "abandoned"}
    /\ rec.status = "validating" => rec.tree
    /\ ~rec.tree => rec.inode = NoInode /\ NothingLeft
    /\ rec.intent # "none" => rec.status \in Terminal /\ ~rec.tree
    /\ root.inode = NoInode <=> root.fill = "none"

\* What the steps of a command found when they were reached.
Judging == {"spawn", "register", "handoff", "await", "retire", "preserved"}
AfterRecheck == \/ proc.pc \in {"recheck", "commit", "terminal"}
                \/ proc.pc \in {"journal", "repin", "confirm"} /\ proc.from = "recheck"
PhaseInv ==
    /\ At("adopt") => rec.status = "none" /\ authority = "recorded"
    /\ At("start") => rec.status \in Pending
    /\ proc.pc \in ValidatePhases \ {"start", "manifest"} => rec.status = "validating"
    /\ At("recover") => Active
    /\ At("abandon") => MayAbandon
    /\ proc.pc \in {"cleanup", "eraseAbandoned", "clear"} => rec.status = "abandoned"
    /\ At("clear") => NothingLeft
    /\ proc.pc \in {"manifest", "attest", "intend", "release", "archive", "describe", "remove"} =>
          rec.status \in Terminal
    /\ At("intend") => ~Unclean
    /\ proc.pc \in {"release", "archive", "describe", "remove"} => rec.intent # "none"
    /\ proc.pc \in {"archive", "describe", "remove"} /\ rec.intent = "release" => ref # "ours"
    /\ proc.pc \in {"describe", "remove"} => archive = Retired
    /\ At("remove") => manifest = Retired
    /\ proc.pc \in {"forget", "prepare", "own", "add"} \/ AfterRecheck => NothingLeft
    /\ proc.pc \in {"own", "add", "capture"} \cup Judging => proc.mine # NoInode
    /\ proc.pc \in {"own", "add"} /\ root.fill = "empty" => root.inode = proc.mine
    /\ At("add") => rec.inode = proc.mine
    /\ proc.pc \in Judging => registered
    /\ At("repin") => rec.compromised

\* A submission is adopted and validated under the authority it was received under.
AuthorityInv ==
    /\ rec.status = "none" => authority # "other"
    /\ JudgedAsReceived

\* A ref that was repaired has its loss on record, and the record does not forget it.
LossInv == "repaired" \in history =>
              /\ rec.status \notin {"none", "received", "validated"}
              /\ rec.status = "validating" => rec.compromised

\* Each set of validators ended with the candidate's bytes, or the outcome is no success.
JudgedInv ==
    /\ proc.scope = "authoritative" => "focused" \in proc.judged
    /\ (proc.pc \in {"cache", "clean", "eraseCleaned"} \/ AfterRecheck) /\ proc.outcome = "validated" =>
          proc.judged = Scopes

\* Nobody remembers the inode of somebody else's directory.
ForeignInv == root.fill \in Foreign =>
                 root.inode \notin {NoInode, rec.inode, proc.old, proc.mine, proc.seen}

\* Between the check of a removal and the removal no command runs, and what is not the
\* directory checked is somebody else's.
EraseInv == proc.pc \in ErasePhases =>
               /\ \A l \in Launches : ~Alive(l)
               /\ root.inode \in {NoInode, proc.seen} \/ root.fill \in Foreign

\* A sidecar file is written about a record that is done.
SideInv ==
    /\ archive.archived => archive.status \in Terminal /\ (rec.status = "gone" \/ rec.intent # "none")
    /\ rec.status = "gone" => archive.archived /\ manifest.status = archive.status
    /\ manifest.status # "none" => rec.status \in Terminal \cup {"gone"}
    /\ attested # "none" => rec.status \in Terminal \cup {"gone"}

-----------------------------------------------------------------------------
(* What a step changes.                                                    *)

LEMMA WhoChanges ==
  ASSUME [Next]_vars
  PROVE  /\ UNCHANGED authority \/ SetUpAuthority \/ ReplaceAuthority
         /\ UNCHANGED rec \/ Adopt \/ Start \/ Journal \/ Retain \/ Forget \/ Own \/ Conclude
              \/ Abandon \/ ClearAbandoned \/ ArchiveIntend \/ ArchiveRemove
         /\ UNCHANGED ref \/ Pin \/ Repin \/ ArchiveRelease \/ RefLost \/ RefMoved \/ RefRestored
         /\ UNCHANGED <<root, registered>> \/ EraseSwept \/ EraseCleaned \/ EraseAbandoned
              \/ Prepare \/ Add \/ RootReplaced \/ RootDeleted \/ CommandWrites
         /\ UNCHANGED manifest \/ WriteManifest \/ ArchiveDescribe
         /\ UNCHANGED archive \/ ArchiveWrite
         /\ UNCHANGED attested \/ Attest
         /\ UNCHANGED history \/ Repin \/ Add
         /\ UNCHANGED moves \/ (moves < MaxMoves /\ moves' = moves + 1)
         /\ UNCHANGED faults \/ (faults < MaxFaults /\ faults' = faults + 1)
<1> USE DEF Next, Command, Step, Validate, Maintain, Around, vars,
        AdoptStart, RecoverStart, AbandonStart, ArchiveStart, AttestStart,
        Adopt, Start, Pin, Journal, Repin, Confirm, Retain, Sweep, EraseSwept, Forget, Prepare, Own,
        Add, Capture,
        SpawnValidator, RegisterValidator, HandoffValidator, AwaitValidator, RetireValidator,
        Preserved, CleanCache, Clean, EraseCleaned, Recheck, Commit, Conclude, WriteManifest,
        Recover, Abandon, CleanupAbandoned, EraseAbandoned, ClearAbandoned, ArchiveIntend,
        ArchiveRelease, ArchiveWrite, ArchiveDescribe, ArchiveRemove, Attest,
        SetUpAuthority, ReplaceAuthority, RefLost, RefMoved, RefRestored, RootReplaced, RootDeleted,
        Groups, LooseEnds, CommandWrites, Killed, Lingers, Stop, Fail,
        World, Surroundings, Files, Tree, Pinned, Record, Quits, GivesUp, Local, Kept, Beside, Move,
        ChangesRef
<1>1. UNCHANGED authority \/ SetUpAuthority \/ ReplaceAuthority
  OBVIOUS
<1>2. UNCHANGED rec \/ Adopt \/ Start \/ Journal \/ Retain \/ Forget \/ Own \/ Conclude
        \/ Abandon \/ ClearAbandoned \/ ArchiveIntend \/ ArchiveRemove
  OBVIOUS
<1>3. UNCHANGED ref \/ Pin \/ Repin \/ ArchiveRelease \/ RefLost \/ RefMoved \/ RefRestored
  OBVIOUS
<1>4. UNCHANGED <<root, registered>> \/ EraseSwept \/ EraseCleaned \/ EraseAbandoned
        \/ Prepare \/ Add \/ RootReplaced \/ RootDeleted \/ CommandWrites
  OBVIOUS
<1>5. UNCHANGED manifest \/ WriteManifest \/ ArchiveDescribe
  OBVIOUS
<1>6. UNCHANGED archive \/ ArchiveWrite
  OBVIOUS
<1>7. UNCHANGED attested \/ Attest
  OBVIOUS
<1>8. UNCHANGED history \/ Repin \/ Add
  OBVIOUS
<1>9. UNCHANGED moves \/ (moves < MaxMoves /\ moves' = moves + 1)
  OBVIOUS
<1>10. UNCHANGED faults \/ (faults < MaxFaults /\ faults' = faults + 1)
  BY DEF Fault
<1> QED
  BY <1>1, <1>2, <1>3, <1>4, <1>5, <1>6, <1>7, <1>8, <1>9, <1>10

\* A removal takes away the directory or only its registration, or is refused; a newcomer it
\* does not take away may get the marker.
Erasing == EraseSwept \/ EraseCleaned \/ EraseAbandoned
LEMMA WhatIsErased ==
  ASSUME Erasing
  PROVE  /\ proc.pc \in ErasePhases /\ UNCHANGED <<rec, phase>>
         /\ \/ proc.seen = NoInode /\ root' = root /\ registered' = FALSE
            \/ /\ proc.seen # NoInode /\ root' = Absent /\ registered' = FALSE
               /\ root.inode = proc.seen \/ root = Absent \/ Newcomer
            \/ proc.seen # NoInode /\ root' = root /\ registered' = registered
            \/ /\ proc.seen # NoInode /\ root' = [root EXCEPT !.fill = "marked"] /\ Newcomer
               /\ registered' = registered
BY DEF Erasing, EraseSwept, EraseCleaned, EraseAbandoned, Erased, EraseRefused, ErasePhases, At, Quits,
       End, Leave, Inside, guardVars

-----------------------------------------------------------------------------
(* The submission keeps to the protocol of the execution guards.           *)

\* The submission runs its validators by the steps of ExecutionGuard.
LEMMA GuardsAreUsed ==
  ASSUME proc.launch \in Launches, [Next]_vars
  PROVE  [GuardNext]_guardVars
<1>1. CASE Command
  BY <1>1 DEF Command, AdoptStart, RecoverStart, AbandonStart, ArchiveStart, AttestStart, GuardNext
<1>l. Leave => GuardNext
  BY DEF GuardNext
<1>d. ASSUME NEW E, NEW next, MayRemove(E), Checked(next)
      PROVE  GuardNext
  BY <1>d DEF MayRemove, Checked, StoppedFirst, GuardNext
<1>2. CASE Validate
  <2>1. CASE Adopt \/ Start \/ Pin \/ Journal \/ Repin \/ Confirm \/ Retain \/ EraseSwept \/ Forget
             \/ Prepare \/ Own \/ Add \/ Capture \/ Preserved \/ EraseCleaned \/ Recheck \/ Commit
             \/ Conclude \/ WriteManifest
    BY <1>l, <2>1 DEF Adopt, Start, Pin, Journal, Repin, Confirm, RepairFails, Retain, EraseSwept, Forget,
                      Prepare, Own, Add, Capture, Preserved, EraseCleaned, Recheck, Commit, Conclude,
                      WriteManifest, Inside, End, Quits, GivesUp
  <2>2. CASE SpawnValidator \/ RegisterValidator \/ HandoffValidator \/ AwaitValidator \/ RetireValidator
    BY <2>2 DEF SpawnValidator, RegisterValidator, HandoffValidator, AwaitValidator,
                RetireValidator, Inside, GuardNext, Host
  <2>3. CASE Sweep \/ Clean
    BY <1>l, <1>d, <2>3 DEF Sweep, Clean, Inside, End, Quits, GivesUp
  <2>4. CASE CleanCache
    BY <2>4 DEF CleanCache, GuardNext, guardVars
  <2> QED
    BY <1>2, <2>1, <2>2, <2>3, <2>4 DEF Validate
<1>3. CASE Maintain
  BY <1>3, <1>l, <1>d
     DEF Maintain, Recover, Abandon, CleanupAbandoned, EraseAbandoned, ClearAbandoned, ArchiveIntend,
         ArchiveRelease, ArchiveWrite, ArchiveDescribe, ArchiveRemove, Attest, Inside, End, Quits, GivesUp
<1>4. CASE Around
  <2>1. CASE SetUpAuthority \/ ReplaceAuthority \/ RefLost \/ RefMoved \/ RefRestored \/ RootReplaced
             \/ RootDeleted \/ CommandWrites
    BY <2>1 DEF SetUpAuthority, ReplaceAuthority, RefLost, RefMoved, RefRestored, RootReplaced,
                RootDeleted, CommandWrites, Move, guardVars
  <2>2. CASE Groups \/ LooseEnds
    BY <2>2 DEF Groups, LooseEnds, GuardNext, Host
  <2> QED
    BY <1>4, <2>1, <2>2 DEF Around
<1>5. CASE Killed \/ Lingers \/ Stop \/ Fail
  BY <1>5, <1>l DEF Killed, Lingers, Stop, Fail, Inside, GuardNext
<1>6. CASE UNCHANGED vars
  BY <1>6 DEF vars, guardVars
<1> QED
  BY <1>1, <1>2, <1>3, <1>4, <1>5, <1>6 DEF Next, Step

-----------------------------------------------------------------------------
(* Type correctness.                                                       *)

LEMMA IdleProgress ==
  ASSUME SubmissionAssumption
  PROVE  /\ Idle \in Progress /\ Idle.pc = "idle" /\ Idle.old = NoInode /\ Idle.mine = NoInode
         /\ Idle.seen = NoInode /\ Idle.scope = "focused"
  BY DEF SubmissionAssumption, Idle, Progress, Phases, NoInode, Scopes

LEMMA NewRecords ==
  /\ Received \in SubmissionRecord /\ [Received EXCEPT !.status = "none"] \in SubmissionRecord
  /\ [Received EXCEPT !.status = "gone"] \in SubmissionRecord
  /\ NoFile \in Sidecar
  BY DEF Received, SubmissionRecord, Pending, Terminal, NoInode, NoFile, Sidecar

\* There is an inode that nobody remembers.
LEMMA FreshInode ==
  /\ Fresh \in Inode
  /\ Fresh \notin {NoInode, root.inode, rec.inode, proc.old, proc.mine, proc.seen}
<1>1. \A a, b, c, d, e : \E i \in 1..6 : i # a /\ i # b /\ i # c /\ i # d /\ i # e
  OBVIOUS
<1>2. \E i \in Inode : i \notin Remembered /\ \A j \in Inode : j \notin Remembered => i <= j
  <2>1. PICK i \in 1..6 : i \notin Remembered
    BY <1>1 DEF Remembered
  <2>2. \A j \in 1..6 : j = 1 \/ j = 2 \/ j = 3 \/ j = 4 \/ j = 5 \/ j = 6
    OBVIOUS
  <2> QED
    BY <2>1, <2>2 DEF Inode
<1>3. Fresh \in Inode /\ Fresh \notin Remembered
  BY <1>2 DEF Fresh
<1>4. NoInode \notin Inode
  BY DEF NoInode, Inode
<1> QED
  BY <1>3, <1>4 DEF Remembered

LEMMA InitTypeOK ==
  ASSUME SubmissionAssumption, Init
  PROVE  TypeOK
<1>1. GuardTypeOK /\ inside = ~At("idle")
  BY GuardInitInv, IdleProgress DEF Init, GuardInit, At
<1>2. root \in [inode : {NoInode} \cup Inode, fill : Fills]
  BY DEF Init, Absent, Fills
<1>3. moves \in 0..MaxMoves /\ faults \in 0..MaxFaults
  BY DEF Init, SubmissionAssumption
<1> QED
  BY <1>1, <1>2, <1>3, NewRecords, IdleProgress DEF Init, TypeOK

\* A command that works on goes to another step, and one that ends is idle.
LEMMA StepProgress ==
  ASSUME SubmissionAssumption, TypeOK, [Next]_vars
  PROVE  proc' \in Progress /\ inside' = ~At("idle")'
<1> DEFINE Works == proc' \in Progress /\ proc'.pc # "idle" /\ inside' = TRUE
           Ends == proc' = Idle /\ inside' = FALSE
<1>t. /\ proc \in Progress /\ inside = ~At("idle") /\ rec \in SubmissionRecord
      /\ root.inode \in {NoInode} \cup Inode /\ rec.inode \in {NoInode} \cup Inode
      /\ proc.launch \in Launches /\ Fresh \in Inode
      /\ proc.pc \in Phases /\ proc.judged \subseteq Scopes
  BY FreshInode DEF TypeOK, SubmissionRecord, Progress
<1>p. ValidatePhases \cup {"adopt", "recover", "abandon", "cleanup", "eraseAbandoned", "clear", "intend",
                           "release", "archive", "describe", "remove", "attest"} \subseteq Phases \ {"idle"}
  BY DEF Phases, ValidatePhases
<1>v. {"start", "pin", "journal", "repin", "confirm", "retain", "sweep", "eraseSwept", "forget",
       "prepare", "own", "add", "capture", "spawn", "register", "handoff", "await", "retire",
       "preserved", "cache", "clean", "eraseCleaned", "recheck", "commit", "terminal",
       "manifest"} \subseteq ValidatePhases
  BY DEF ValidatePhases
<1>g. ASSUME NEW p \in Phases \ {"idle"}, Goto(p)
      PROVE  proc' \in Progress /\ proc'.pc # "idle"
  BY <1>g, <1>t DEF Goto, Progress
<1>o. ASSUME NEW p \in Phases \ {"idle"}, NEW o \in {"validated", "rejected", "failed"},
             proc' = [proc EXCEPT !.pc = p, !.outcome = o]
      PROVE  proc' \in Progress /\ proc'.pc # "idle"
  BY <1>o, <1>t DEF Progress
<1>i. Inside /\ ~At("idle") => inside' = TRUE
  BY <1>t DEF Inside, guardVars
<1>e. End => Ends
  BY DEF End, Leave
<1>1. ASSUME Command
      PROVE  Works
  BY <1>1, <1>g, <1>p DEF Command, AdoptStart, RecoverStart, AbandonStart, ArchiveStart, AttestStart, Enter
<1>c. ASSUME NEW p \in Phases \ {"idle"}, Checked(p)
      PROVE  proc' \in Progress /\ proc'.pc # "idle" /\ UNCHANGED inside
  BY <1>c, <1>t DEF Checked, Progress
<1>2. ASSUME Adopt \/ Journal \/ Retain \/ Forget \/ Own \/ Conclude
             \/ Abandon \/ ClearAbandoned \/ ArchiveWrite \/ ArchiveDescribe
      PROVE  Works
  BY <1>2, <1>g, <1>i, <1>p, <1>v DEF Adopt, Journal, Retain, Forget, Own, Conclude, Abandon,
                          ClearAbandoned, ArchiveWrite, ArchiveDescribe, At
<1>3. ASSUME WriteManifest \/ ArchiveRemove \/ Stop
      PROVE  Ends
  BY <1>3, <1>e DEF WriteManifest, ArchiveRemove, Stop, Leave
<1>4. ASSUME Recover \/ ArchiveIntend \/ ArchiveRelease \/ Attest \/ Commit
      PROVE  Works \/ Ends
  BY <1>4, <1>e, <1>g, <1>i, <1>p, <1>v DEF Recover, ArchiveIntend, ArchiveRelease, Attest, Commit,
     Quits, GivesUp, At
<1>5. ASSUME CleanupAbandoned \/ Clean \/ Sweep
      PROVE  Works \/ Ends
  <2>1. CASE CleanupAbandoned
    BY <2>1, <1>c, <1>e, <1>g, <1>i, <1>p, <1>v, <1>t DEF CleanupAbandoned, Quits, GivesUp, At
  <2>2. CASE Clean
    BY <2>2, <1>c, <1>e, <1>g, <1>i, <1>p, <1>v, <1>t DEF Clean, Quits, GivesUp, At
  <2>3. CASE Sweep
    BY <2>3, <1>c, <1>g, <1>i, <1>o, <1>p, <1>v, <1>t DEF Sweep, Caught, At
  <2> QED
    BY <1>5, <2>1, <2>2, <2>3
<1>5a. ASSUME Erasing
       PROVE  Works \/ Ends
  BY <1>5a, <1>e, <1>g, <1>i, <1>o, <1>p, <1>v DEF Erasing, EraseSwept, EraseCleaned, EraseAbandoned,
     Caught, Quits, At
<1>6. ASSUME Start
      PROVE  Works
  <2>1. proc' = [proc EXCEPT !.pc = "pin", !.old = rec.inode] /\ "pin" \in Phases /\ inside' = TRUE
    BY <1>6, <1>i, <1>p, <1>v DEF Start, At
  <2> QED
    BY <1>t, <2>1 DEF Progress
<1>7. ASSUME NEW f \in {"pin", "recheck"}, proc' = [proc EXCEPT !.pc = FirstMissing, !.from = f]
      PROVE  proc' \in Progress /\ proc'.pc # "idle"
  <2>1. FirstMissing = "journal" /\ "journal" \in Phases
    BY <1>p, <1>v DEF FirstMissing
  <2> QED
    BY <1>7, <1>t, <2>1 DEF Progress
<1>8. ASSUME Pin \/ Repin \/ Confirm \/ Recheck
      PROVE  Works \/ Ends
  BY <1>8, <1>e, <1>g, <1>i, <1>o, <1>p, <1>v, <1>7 DEF Pin, Repin, Confirm, RepairFails, Recheck, Caught,
     Quits, GivesUp, At
<1>9. ASSUME Add \/ Capture
      PROVE  Works
  BY <1>9, <1>g, <1>i, <1>o, <1>p, <1>v, <1>t DEF Add, Capture, Caught, At
<1>10. ASSUME Prepare
       PROVE  Works
  <2>1. ASSUME NEW i \in {NoInode} \cup Inode, proc' = [proc EXCEPT !.pc = "own", !.added = TRUE,
  !.mine = i]
        PROVE  proc' \in Progress /\ proc'.pc # "idle"
    <3>1. "own" \in Phases
      BY <1>p, <1>v
    <3> QED
      BY <1>t, <2>1, <3>1 DEF Progress
  <2> QED
    BY <1>10, <1>i, <1>o, <1>p, <1>v, <1>t, <2>1 DEF Prepare, Caught, At
<1>11. ASSUME SpawnValidator
       PROVE  Works
  <2>1. PICK l \in Launches : proc' = [proc EXCEPT !.pc = "register", !.launch = l] /\ Spawn(l)
    BY <1>11 DEF SpawnValidator
  <2> QED
    <3>1. "register" \in Phases /\ inside' = TRUE
      BY <1>p, <1>v, <2>1 DEF Spawn
    <3> QED
      BY <1>t, <2>1, <3>1 DEF Progress
<1>12. ASSUME RegisterValidator \/ HandoffValidator \/ AwaitValidator \/ RetireValidator \/ Lingers
       PROVE  Works
  <2>1. inside' = inside /\ inside = TRUE
    BY <1>12, <1>t DEF RegisterValidator, HandoffValidator, AwaitValidator, RetireValidator, Lingers,
                Register, Handoff, Report, OwnerKills, Retire, Inside, Group, guardVars, At
  <2>2. proc' \in Progress /\ proc'.pc # "idle"
    BY <1>12, <1>g, <1>o, <1>p, <1>v
       DEF RegisterValidator, HandoffValidator, AwaitValidator, RetireValidator, Lingers, AfterRetiring
  <2> QED
    BY <2>1, <2>2
<1>13. ASSUME Preserved
       PROVE  Works
  <2>1. ASSUME NEW p \in {"spawn", "cache"}, NEW x \in Scopes, NEW j \in SUBSET Scopes,
               proc' = [proc EXCEPT !.pc = p, !.scope = x, !.judged = j]
        PROVE  proc' \in Progress /\ proc'.pc # "idle"
    <3>1. p \in Phases
      BY <1>p, <1>v
    <3> QED
      BY <1>t, <2>1, <3>1 DEF Progress
  <2>2. \/ Caught("rejected")
        \/ \E p \in {"spawn", "cache"}, x \in Scopes, j \in SUBSET Scopes :
              proc' = [proc EXCEPT !.pc = p, !.scope = x, !.judged = j]
    <3>1. {proc.judged, proc.judged \cup {"focused"}, proc.judged \cup {"authoritative"}} \subseteq SUBSET Scopes
      BY <1>t DEF Scopes
    <3>2. CASE Caught("rejected")
      BY <3>2
    <3>3. CASE /\ proc.scope = "focused"
               /\ proc' = [proc EXCEPT !.pc = "spawn", !.scope = "authoritative",
                             !.judged = IF Faithful THEN @ \cup {"focused"} ELSE @]
      <4>1. PICK j \in SUBSET Scopes : proc' = [proc EXCEPT !.pc = "spawn", !.scope = "authoritative", !.judged = j]
        BY <3>1, <3>3
      <4> QED
        BY <4>1 DEF Scopes
    <3>4. CASE proc' = [proc EXCEPT !.pc = "cache",
                             !.judged = IF Faithful THEN @ \cup {"authoritative"} ELSE @]
      <4>1. PICK j \in SUBSET Scopes : proc' = [proc EXCEPT !.pc = "cache", !.judged = j]
        BY <3>1, <3>4
      <4>2. proc' = [proc EXCEPT !.pc = "cache", !.scope = proc.scope, !.judged = j] /\ proc.scope \in Scopes
        BY <4>1, <1>t DEF Progress
      <4> QED
        BY <4>2
    <3> QED
      BY <1>13, <3>2, <3>3, <3>4 DEF Preserved
  <2>3. inside' = TRUE
    BY <1>13, <1>i DEF Preserved, At
  <2> QED
    BY <1>o, <1>p, <1>v, <2>1, <2>2, <2>3 DEF Caught
<1>14. ASSUME CleanCache \/ Fail
       PROVE  Works
  <2>1. PICK p \in {"clean", "cache"}, o \in {"validated", "rejected", "failed"} :
           proc' = [proc EXCEPT !.pc = p, !.outcome = o]
    BY <1>14, <1>t DEF CleanCache, Fail, Progress
  <2>2. inside' = inside /\ inside = TRUE
    BY <1>14, <1>t DEF CleanCache, Fail, Inside, guardVars, At, Catching
  <2> QED
    BY <1>o, <1>p, <1>v, <2>1, <2>2
<1>15. ASSUME \/ SetUpAuthority \/ ReplaceAuthority \/ RefLost \/ RefMoved \/ RefRestored
              \/ RootReplaced \/ RootDeleted \/ Groups \/ LooseEnds \/ CommandWrites \/ Killed
              \/ UNCHANGED vars
       PROVE  proc' = proc /\ inside' = inside
  BY <1>15 DEF SetUpAuthority, ReplaceAuthority, RefLost, RefMoved, RefRestored, RootReplaced,
               RootDeleted, Move, Groups, LooseEnds, CommandWrites, Killed, Beside, SupervisorStops,
               GroupEmpties, CommandEnds, SupervisorKilled, Group, guardVars, vars
<1>17. Works \/ Ends \/ (proc' = proc /\ inside' = inside)
  BY <1>1, <1>2, <1>3, <1>4, <1>5, <1>5a, <1>6, <1>8, <1>9, <1>10, <1>11, <1>12, <1>13, <1>14, <1>15
     DEF Next, Step, Validate, Maintain, Around, Erasing
<1> QED
  BY <1>17, <1>t, IdleProgress DEF At

LEMMA StepTypeOK ==
  ASSUME SubmissionAssumption, TypeOK, PhaseInv, [Next]_vars
  PROVE  TypeOK'
<1>t. /\ GuardTypeOK /\ proc \in Progress /\ rec \in SubmissionRecord
      /\ root.inode \in {NoInode} \cup Inode /\ rec.inode \in {NoInode} \cup Inode
      /\ proc.launch \in Launches /\ proc.mine \in {NoInode} \cup Inode /\ Fresh \in Inode
      /\ proc.outcome \in {"validated", "rejected", "failed"}
  BY FreshInode DEF TypeOK, SubmissionRecord, Progress
<1>w. {Absent} \cup {[inode |-> i, fill |-> f] : i \in {NoInode} \cup Inode, f \in Fills}
        \subseteq [inode : {NoInode} \cup Inode, fill : Fills]
  BY DEF Absent, Fills
<1>1. GuardTypeOK'
  BY <1>t, GuardsAreUsed, GuardStepTypeOK
<1>2. (authority \in {"none", "recorded", "other"})'
  BY WhoChanges DEF TypeOK, SetUpAuthority, ReplaceAuthority
<1>3. (rec \in SubmissionRecord)'
  <2>1. ASSUME Adopt \/ ArchiveRemove
        PROVE  rec' \in SubmissionRecord
    BY <2>1, NewRecords DEF Adopt, ArchiveRemove, Record
  <2>2. ASSUME Start \/ Journal \/ Retain \/ Forget \/ Own
        PROVE  rec' \in SubmissionRecord
    BY <2>2, <1>t DEF SubmissionRecord, Start, Journal, Retain, Forget, Forgotten, Own, Owned, Record,
       Pending
  <2>3. ASSUME Conclude \/ Abandon \/ ClearAbandoned
        PROVE  rec' \in SubmissionRecord
    <3>1. Verdict \in Terminal
      BY <1>t DEF Verdict, Terminal
    <3>2. \A s \in Terminal : [rec EXCEPT !.status = s, !.tree = FALSE,
    !.inode = NoInode] \in SubmissionRecord
      BY <1>t DEF SubmissionRecord
    <3>3. CASE Conclude
      BY <3>1, <3>2, <3>3, <1>t DEF Conclude, Record
    <3>4. CASE Abandon \/ ClearAbandoned
      BY <3>4, <1>t DEF SubmissionRecord, Abandon, ClearAbandoned, Record, Terminal
    <3> QED
      BY <2>3, <3>3, <3>4
  <2>4. ASSUME ArchiveIntend
        PROVE  rec' \in SubmissionRecord
    BY <2>4, <1>t DEF SubmissionRecord, ArchiveIntend, Quits, GivesUp, Record
  <2> QED
    BY <1>t, <2>1, <2>2, <2>3, <2>4, WhoChanges
<1>4. (ref \in {"missing", "ours", "copy", "wrong"})'
  BY WhoChanges DEF TypeOK, Pin, Repin, PinRef, Pinned, ArchiveRelease, Quits, GivesUp, Local, RefLost,
                    RefMoved, RefRestored, ChangesRef
<1>5. (root \in [inode : {NoInode} \cup Inode, fill : Fills])'
  <2>1. ASSUME Erasing
        PROVE  root' = root \/ root' = Absent \/ root' = [root EXCEPT !.fill = "marked"]
    BY <2>1, WhatIsErased
  <2>2. ASSUME Prepare \/ Add \/ RootReplaced
        PROVE  root' = root \/ \E i \in {NoInode} \cup Inode, f \in {"empty", "ours", "foreign"} :
                                  root' = [inode |-> i, fill |-> f]
    BY <2>2, <1>t DEF Prepare, Add, RootReplaced, Make, Tree
  <2>3. ASSUME CommandWrites \/ RootDeleted
        PROVE  root' = Absent \/ \E f \in {"ours", "changed"} : root' = [root EXCEPT !.fill = f]
    BY <2>3 DEF CommandWrites, RootDeleted
  <2>4. {"empty", "ours", "foreign", "changed", "marked"} \subseteq Fills
    BY DEF Fills
  <2> QED
    BY <1>w, <2>1, <2>2, <2>3, <2>4, WhoChanges DEF TypeOK, Erasing
<1>6. (registered \in BOOLEAN)'
  BY WhoChanges, WhatIsErased DEF TypeOK, Erasing, Prepare, Add, RootReplaced, RootDeleted, CommandWrites,
                                  Kept, Tree
<1>7. \A s \in Terminal, a, b \in BOOLEAN : [status |-> s, archived |-> a, released |-> b] \in Sidecar
  BY DEF Sidecar
<1>8. At("manifest") \/ At("attest") \/ At("archive") \/ At("describe") => rec.status \in Terminal
  BY DEF PhaseInv, At
<1>9. (manifest \in Sidecar /\ archive \in Sidecar)'
  BY <1>7, <1>8, WhoChanges DEF TypeOK, WriteManifest, ArchiveDescribe, ArchiveWrite, Retired
<1>10. (attested \in {"none"} \cup Terminal)'
  BY <1>8, WhoChanges DEF TypeOK, Attest, Quits, GivesUp, Files
<1>11. (moves \in 0..MaxMoves /\ faults \in 0..MaxFaults)'
  BY WhoChanges DEF TypeOK, SubmissionAssumption
<1>12. (history \subseteq {"repaired", "remade"})'
  BY WhoChanges DEF TypeOK, Repin, Add
<1> QED
  BY <1>1, <1>2, <1>3, <1>4, <1>5, <1>6, <1>9, <1>10, <1>11, <1>12, StepProgress DEF TypeOK

\* A directory is there or it is not.
LEMMA AbsentRoot ==
  ASSUME TypeOK, StatusInv
  PROVE  /\ root = Absent <=> root.inode = NoInode
         /\ root = Absent <=> root.fill = "none"
         /\ Absent.inode = NoInode /\ Absent.fill = "none"
         /\ Fresh # NoInode
<1>1. root = [inode |-> root.inode, fill |-> root.fill]
  BY DEF TypeOK
<1> QED
  BY <1>1, FreshInode DEF Absent, StatusInv

\* What the record says of the worktree, step by step of a validation.
LEMMA PhaseFacts ==
  ASSUME PhaseInv
  PROVE  /\ proc.pc \in {"pin", "journal", "repin", "confirm", "retain", "sweep", "eraseSwept", "forget",
                         "prepare", "own", "add", "capture", "spawn", "register", "handoff", "await",
                         "retire", "preserved", "cache", "clean", "eraseCleaned", "recheck", "commit",
                         "terminal"} => rec.status = "validating"
         /\ proc.pc \in {"forget", "prepare", "own", "add", "recheck", "commit", "terminal"} => NothingLeft
  BY DEF PhaseInv, ValidatePhases, AfterRecheck, At

LEMMA StepStatusInv ==
  ASSUME TypeOK, StatusInv, PhaseInv, [Next]_vars
  PROVE  StatusInv'
<1>t. /\ proc \in Progress /\ rec \in SubmissionRecord
      /\ root \in [inode : {NoInode} \cup Inode, fill : {"none", "empty", "ours", "changed", "foreign", "marked"}]
  BY DEF TypeOK, Fills
<1>1. ASSUME UNCHANGED <<rec, root, registered>>
      PROVE  StatusInv'
  BY <1>1 DEF StatusInv, NothingLeft, Occupied
<1>2. ASSUME Adopt \/ ArchiveRemove
      PROVE  StatusInv'
  BY <1>2, <1>t DEF Adopt, ArchiveRemove, StatusInv, NothingLeft, Occupied, Record, Tree, PhaseInv, At, Received,
     SubmissionRecord, Terminal
<1>3. ASSUME Start
      PROVE  StatusInv'
  BY <1>3, <1>t DEF Start, StatusInv, NothingLeft, Occupied, Record, Tree, PhaseInv, At, SubmissionRecord,
     Terminal, Pending
<1>4. ASSUME Journal \/ Retain
      PROVE  StatusInv'
  BY <1>4, <1>t DEF Journal, Retain, StatusInv, NothingLeft, Occupied, Record, Tree, SubmissionRecord
<1>5. ASSUME Forget \/ Own
      PROVE  StatusInv'
  BY <1>5, <1>t, PhaseFacts DEF Forget, Forgotten, Own, Owned, StatusInv, NothingLeft, Occupied, Record, Tree, At,
     SubmissionRecord
<1>6. ASSUME Conclude
      PROVE  StatusInv'
  <2>1. Verdict \in Terminal /\ "validating" \notin Terminal
    BY <1>t DEF Verdict, Progress, Terminal
  <2> QED
    BY <1>6, <2>1, <1>t, PhaseFacts DEF Conclude, StatusInv, NothingLeft, Occupied, Record, Tree, At,
       SubmissionRecord
<1>7. ASSUME Abandon
      PROVE  StatusInv'
  BY <1>7, <1>t DEF Abandon, StatusInv, NothingLeft, Occupied, Record, Tree, PhaseInv, MayAbandon, At,
     SubmissionRecord, Terminal, Pending
<1>8. ASSUME ClearAbandoned
      PROVE  StatusInv'
  BY <1>8, <1>t DEF ClearAbandoned, StatusInv, NothingLeft, Occupied, Record, Tree, PhaseInv, At, SubmissionRecord
<1>9. ASSUME ArchiveIntend
      PROVE  StatusInv'
  BY <1>9, <1>t DEF ArchiveIntend, Quits, GivesUp, StatusInv, NothingLeft, Occupied, Record, Tree, PhaseInv, Unclean, At,
     SubmissionRecord
<1>11. ASSUME Erasing
       PROVE  StatusInv'
  <2>1. root.fill \in {"none", "empty", "ours", "changed", "foreign", "marked"}
    BY <1>t
  <2>2. /\ rec' = rec
        /\ registered' = registered \/ registered' = FALSE
        /\ \/ root' = root \/ root' = Absent
           \/ root'.inode = root.inode /\ root.inode # NoInode /\ root'.fill = "marked"
    BY <1>11, <1>t, WhatIsErased DEF Newcomer
  <2>3. CASE root'.fill = "marked"
    BY <2>2, <2>3, AbsentRoot DEF StatusInv, NothingLeft, Occupied
  <2> QED
    BY <2>2, <2>3, AbsentRoot DEF StatusInv, NothingLeft, Occupied
<1>12. ASSUME Prepare \/ Add
       PROVE  StatusInv'
  BY <1>12, <1>t, PhaseFacts, AbsentRoot DEF Prepare, Add, Make, Foreign, StatusInv, NothingLeft, Occupied, Tree, At
<1>13. ASSUME RootReplaced \/ RootDeleted
       PROVE  StatusInv'
  <2>1. /\ rec' = rec /\ registered' = registered
        /\ \/ root'.inode # NoInode /\ root'.fill = "foreign"
           \/ root'.inode = NoInode /\ root'.fill = "none"
    <3>1. CASE RootReplaced
      BY <3>1, AbsentRoot DEF RootReplaced, Move, Make
    <3>2. CASE RootDeleted
      BY <3>2, AbsentRoot DEF RootDeleted, Move
    <3> QED
      BY <1>13, <3>1, <3>2
  <2> QED
    BY <2>1 DEF StatusInv, NothingLeft, Occupied
<1>14. ASSUME CommandWrites
       PROVE  StatusInv'
  BY <1>14, <1>t DEF CommandWrites, Kept, StatusInv, NothingLeft, Occupied
<1> QED
  BY <1>1, <1>2, <1>3, <1>4, <1>5, <1>6, <1>7, <1>8, <1>9, <1>11, <1>12, <1>13, <1>14, WhoChanges DEF Erasing

\* What is to be shown of a validation that goes on, by the step it goes on with.
LEMMA GoesOn ==
  ASSUME rec'.status = "validating",
         \/ proc'.pc \in {"pin", "retain", "sweep", "eraseSwept", "cache", "clean", "eraseCleaned"}
         \/ proc'.pc \in {"journal", "confirm"} /\ (proc'.from = "pin" \/ NothingLeft')
         \/ proc'.pc = "repin" /\ (proc'.from = "pin" \/ NothingLeft') /\ rec'.compromised
         \/ proc'.pc \in {"forget", "prepare", "recheck", "commit", "terminal"} /\ NothingLeft'
         \/ /\ proc'.pc \in {"own", "add"} /\ NothingLeft' /\ proc'.mine # NoInode
            /\ root'.fill = "empty" => root'.inode = proc'.mine
            /\ proc'.pc = "add" => rec'.inode = proc'.mine
         \/ proc'.pc = "capture" /\ proc'.mine # NoInode
         \/ proc'.pc \in Judging /\ proc'.mine # NoInode /\ registered'
  PROVE  PhaseInv'
BY DEF PhaseInv, ValidatePhases, Judging, AfterRecheck, At

LEMMA StepPhaseInv ==
  ASSUME SubmissionAssumption, TypeOK, StatusInv, PhaseInv, AuthorityInv, EraseInv, [Next]_vars
  PROVE  PhaseInv'
<1>t. /\ proc \in Progress /\ rec \in SubmissionRecord
      /\ root \in [inode : {NoInode} \cup Inode, fill : {"none", "empty", "ours", "changed", "foreign", "marked"}]
  BY DEF TypeOK, Fills
<1>j. /\ proc.pc \in {"own", "add", "capture"} \cup Judging => proc.mine # NoInode
      /\ At("add") => rec.inode = proc.mine
      /\ proc.pc \in {"own", "add"} /\ root.fill = "empty" => root.inode = proc.mine
      /\ proc.pc \in Judging => registered
      /\ At("repin") => rec.compromised
      /\ At("journal") \/ At("repin") \/ At("confirm") => proc.from = "pin" \/ NothingLeft
  BY <1>t DEF PhaseInv, AfterRecheck, At, Progress
\* A command that ends leaves nothing to be said.
<1>e. ASSUME proc'.pc = "idle"
      PROVE  PhaseInv'
  BY <1>e DEF PhaseInv, ValidatePhases, Judging, AfterRecheck, At
<1>i. End => proc'.pc = "idle"
  BY IdleProgress DEF End
\* What a removal that looked at an empty path leaves there is not the broker's.
<1>r. proc.pc \in ErasePhases /\ proc.seen = NoInode => ~Occupied
  BY AbsentRoot DEF EraseInv, Occupied, Foreign
<1>1. ASSUME Command
      PROVE  PhaseInv'
  BY <1>1, <1>t DEF Command, AdoptStart, RecoverStart, AbandonStart, ArchiveStart, AttestStart, Goto,
                    Local, Tree, Files, World, Surroundings, PhaseInv, AuthorityInv, Registered, Attestable, Retirable,
                    Progress, TypeOK, ValidatePhases, Judging, AfterRecheck, NothingLeft, Active,
                    MayAbandon,
                    Unclean, Terminal, At
<1>2. ASSUME Adopt
      PROVE  PhaseInv'
  BY <1>2, <1>t DEF Adopt, Record, Goto, Received, PhaseInv, Progress, ValidatePhases, Judging,
                    AfterRecheck, Pending, At
<1>3. ASSUME Start
      PROVE  PhaseInv'
  BY <1>3, <1>t, GoesOn DEF Start, Record, Progress, SubmissionRecord
<1>4. ASSUME Pin
      PROVE  PhaseInv'
  BY <1>4, <1>t, PhaseFacts, GoesOn DEF Pin, FirstMissing, Caught, Goto, At, Progress
<1>5. ASSUME Journal \/ Retain \/ Forget
      PROVE  PhaseInv'
  BY <1>5, <1>t, <1>j, PhaseFacts, GoesOn DEF Journal, Retain, Forget, Forgotten, Record, Tree, Goto,
     At, NothingLeft, Occupied,
           Progress, SubmissionRecord
<1>6. ASSUME Repin \/ Confirm
      PROVE  PhaseInv'
  <2>1. /\ UNCHANGED <<rec, root, registered>> /\ proc.pc \in {"repin", "confirm"}
        /\ \/ proc'.pc \in {"idle", "cache"}
           \/ proc'.pc \in {"confirm", "sweep", "commit"} /\ proc'.from = proc.from
              /\ (proc'.pc = "commit" => proc.from # "pin")
    BY <1>6, <1>t, <1>i DEF Repin, Confirm, RepairFails, Caught, Tree, Goto, At, Progress
  <2> QED
    BY <2>1, <1>e, <1>j, PhaseFacts, GoesOn DEF NothingLeft, Occupied, At
<1>7. ASSUME Sweep \/ EraseSwept
      PROVE  PhaseInv'
  <2>1. /\ rec' = rec /\ proc.pc \in {"sweep", "eraseSwept"}
        /\ \/ proc'.pc \in {"eraseSwept", "cache"}
           \/ proc'.pc = "forget" /\ NothingLeft'
    <3>1. CASE Sweep
      BY <3>1, <1>t, AbsentRoot DEF Sweep, NothingThere, Checked, Caught, Tree, Goto, At, NothingLeft,
         Occupied, Progress
    <3>2. CASE EraseSwept
      <4>1. rec' = rec /\ proc.pc = "eraseSwept" /\ (proc'.pc = "cache" \/ (proc'.pc = "forget" /\ Erased(proc.old)))
        BY <3>2, <1>t DEF EraseSwept, Caught, Goto, At, Progress
      <4>2. Erased(proc.old) => NothingLeft'
        BY <3>2, <4>1, <1>r, AbsentRoot DEF Erased, NothingLeft, Occupied, ErasePhases
      <4> QED
        BY <4>1, <4>2
    <3> QED
      BY <1>7, <3>1, <3>2
  <2> QED
    BY <2>1, PhaseFacts, GoesOn
<1>8. ASSUME Prepare
      PROVE  PhaseInv'
  <2>1. /\ rec'.status = "validating" /\ registered' = FALSE
        /\ \/ proc'.pc = "cache"
           \/ /\ proc'.pc = "own" /\ proc'.mine \in {Fresh, root.inode} /\ proc'.mine # NoInode
              /\ root'.fill = "empty" /\ root'.inode = proc'.mine
    <3>1. rec' = rec /\ registered' = registered /\ proc.pc = "prepare"
      BY <1>8 DEF Prepare, At
    <3>2. CASE root = Absent /\ Make("empty", Fresh)
                /\ proc' = [proc EXCEPT !.pc = "own", !.added = TRUE, !.mine = Fresh]
      BY <1>t, <3>1, <3>2, PhaseFacts, AbsentRoot DEF Make, NothingLeft, Occupied, Progress
    <3>3. CASE root.fill = "empty" /\ UNCHANGED root
                /\ proc' = [proc EXCEPT !.pc = "own", !.added = TRUE, !.mine = root.inode]
      BY <1>t, <3>1, <3>3, PhaseFacts, AbsentRoot DEF NothingLeft, Occupied, Progress
    <3>4. CASE Caught("failed")
      BY <1>t, <3>1, <3>4, PhaseFacts DEF Caught, NothingLeft, Progress
    <3> QED
      BY <1>8, <3>2, <3>3, <3>4 DEF Prepare
  <2> QED
    BY <2>1, GoesOn DEF NothingLeft, Occupied
<1>9. ASSUME Own
      PROVE  PhaseInv'
  BY <1>9, <1>t, <1>j, PhaseFacts, GoesOn DEF Own, Owned, Record, Tree, Goto, At, NothingLeft, Occupied,
     Progress, SubmissionRecord
<1>10. ASSUME Add \/ Capture
       PROVE  PhaseInv'
  BY <1>10, <1>t, <1>j, PhaseFacts, GoesOn DEF Add, Capture, Intact, Caught, Tree, Goto, At, Judging,
     Progress
<1>11. ASSUME SpawnValidator \/ RegisterValidator \/ HandoffValidator \/ AwaitValidator
       PROVE  PhaseInv'
  <2>1. /\ UNCHANGED <<rec, registered>>
        /\ proc.pc \in Judging /\ proc.pc \in {"spawn", "register", "handoff", "await"}
        /\ proc'.pc \in Judging /\ proc'.mine = proc.mine
    BY <1>11, <1>t DEF SpawnValidator, RegisterValidator, HandoffValidator, AwaitValidator, Local, Tree,
                       Goto, At, Judging, Progress
  <2> QED
    BY <2>1, <1>j, PhaseFacts, GoesOn
<1>12. ASSUME RetireValidator \/ Lingers \/ Preserved \/ CleanCache \/ Fail
       PROVE  PhaseInv'
  <2>1. /\ UNCHANGED <<rec, registered>>
        /\ proc.pc \in Catching \cup {"retire", "preserved", "cache"}
        /\ \/ proc'.pc \in {"cache", "clean"}
           \/ proc.pc \in Judging /\ proc'.pc \in Judging /\ proc'.mine = proc.mine
    BY <1>12, <1>t DEF RetireValidator, Lingers, Preserved, CleanCache, Fail, AfterRetiring, Caught,
       Local, Tree,
                       Kept, Goto, At, Judging, Progress
  <2>2. rec.status = "validating"
    BY <2>1, PhaseFacts DEF Catching
  <2> QED
    BY <2>1, <2>2, <1>j, GoesOn
<1>13. ASSUME Clean \/ EraseCleaned
       PROVE  PhaseInv'
  <2>1. /\ rec' = rec /\ proc.pc \in {"clean", "eraseCleaned"}
        /\ \/ proc'.pc \in {"eraseCleaned", "idle"}
           \/ proc'.pc = "recheck" /\ NothingLeft'
    <3>1. CASE Clean
      <4>1. CASE NothingThere /\ Goto("recheck") /\ Local
        BY <3>1, <4>1, <1>t, AbsentRoot DEF Clean, NothingThere, Local, Tree, Goto, At, NothingLeft, Progress
      <4>2. CASE Checked("eraseCleaned") /\ Local
        BY <3>1, <4>2, <1>t DEF Clean, Checked, Local, At, Progress
      <4>3. CASE GivesUp
        BY <3>1, <4>3, <1>i DEF Clean, Quits, GivesUp, At
      <4> QED
        BY <3>1, <4>1, <4>2, <4>3 DEF Clean
    <3>2. CASE EraseCleaned
      <4>1. rec' = rec /\ proc.pc = "eraseCleaned" /\ (proc'.pc = "idle" \/ (proc'.pc = "recheck" /\ Erased(Bound)))
        BY <3>2, <1>t, <1>i DEF EraseCleaned, Quits, Goto, At, Progress
      <4>2. Erased(Bound) => NothingLeft'
        BY <4>1, <1>r, AbsentRoot DEF Erased, NothingLeft, Occupied, ErasePhases
      <4> QED
        BY <4>1, <4>2
    <3> QED
      BY <1>13, <3>1, <3>2
  <2> QED
    BY <2>1, <1>e, PhaseFacts, GoesOn
<1>14. ASSUME Recheck \/ Commit
       PROVE  PhaseInv'
  <2>1. /\ UNCHANGED <<rec, root, registered>> /\ proc.pc \in {"recheck", "commit"}
        /\ proc'.pc \in {"idle", "commit", "journal", "terminal"}
    BY <1>14, <1>t, <1>i DEF Recheck, Commit, Local, FirstMissing, Quits, GivesUp, Tree, Goto, At, Progress
  <2> QED
    BY <2>1, <1>e, PhaseFacts, GoesOn DEF NothingLeft, Occupied
<1>15. ASSUME Conclude
       PROVE  PhaseInv'
  <2>1. Verdict \in Terminal /\ Terminal \cap {"none", "gone", "received", "validating"} = {}
    BY <1>t DEF Verdict, Progress, Terminal
  <2>2. rec'.status = Verdict /\ proc'.pc = "manifest"
    BY <1>15, <1>t DEF Conclude, Record, Goto, Progress, SubmissionRecord
  <2> QED
    BY <2>1, <2>2 DEF PhaseInv, ValidatePhases, Judging, AfterRecheck, At
<1>16. ASSUME WriteManifest \/ ArchiveRemove \/ Stop \/ Attest
       PROVE  PhaseInv'
  BY <1>16, <1>e, <1>i, IdleProgress DEF WriteManifest, ArchiveRemove, Stop, Attest, Quits, GivesUp
<1> USE DEF ValidatePhases, Judging, AfterRecheck, NothingLeft, Occupied, Unclean, Terminal, At
<1>17. ASSUME Recover
       PROVE  PhaseInv'
  BY <1>17, <1>t, <1>e, <1>i DEF Recover, ManifestDue, Quits, GivesUp, Local, Tree, Files, World, Surroundings, Goto, PhaseInv,
           StatusInv, Progress, SubmissionRecord, Active, MayAbandon, Retired, Pending
<1>18. ASSUME Abandon
       PROVE  PhaseInv'
  BY <1>18, <1>t DEF Abandon, Record, Goto, PhaseInv, Progress, SubmissionRecord
<1>19. ASSUME ClearAbandoned
       PROVE  PhaseInv'
  BY <1>19, <1>t DEF ClearAbandoned, Record, Goto, PhaseInv, Progress, SubmissionRecord
<1>20. ASSUME CleanupAbandoned \/ EraseAbandoned
       PROVE  PhaseInv'
  <2>1. /\ rec' = rec /\ rec.status = "abandoned"
        /\ \/ proc'.pc \in {"eraseAbandoned", "idle"}
           \/ proc'.pc = "clear" /\ NothingLeft'
    <3>1. CASE CleanupAbandoned
      <4>0. rec.status = "abandoned"
        BY <3>1 DEF CleanupAbandoned, PhaseInv
      <4>1. CASE ~rec.tree /\ Goto("clear") /\ Local
        BY <4>0, <4>1, <1>t DEF StatusInv, Local, Tree, Goto, Progress
      <4>2. CASE Checked("eraseAbandoned") /\ Local
        BY <4>0, <4>2, <1>t DEF Checked, Local, Progress
      <4>3. CASE GivesUp
        BY <4>0, <4>3, <1>i DEF Quits, GivesUp
      <4> QED
        BY <3>1, <4>1, <4>2, <4>3 DEF CleanupAbandoned
    <3>2. CASE EraseAbandoned
      <4>1. rec' = rec /\ proc.pc = "eraseAbandoned" /\ (proc'.pc = "idle" \/ (proc'.pc = "clear" /\ Erased(rec.inode)))
        BY <3>2, <1>t, <1>i DEF EraseAbandoned, Quits, Goto, Progress
      <4>2. Erased(rec.inode) => NothingLeft'
        BY <4>1, <1>r, AbsentRoot DEF Erased, ErasePhases
      <4> QED
        BY <4>1, <4>2 DEF PhaseInv
    <3> QED
      BY <1>20, <3>1, <3>2
  <2> QED
    BY <2>1, <1>e DEF PhaseInv
<1>21. ASSUME ArchiveIntend \/ ArchiveRelease
       PROVE  PhaseInv'
  BY <1>21, <1>t, <1>e, <1>i DEF ArchiveIntend, ArchiveRelease, Quits, GivesUp, Record, Local, Tree, Files,
     World, Surroundings, Goto,
           PhaseInv, Progress, SubmissionRecord
<1>22. ASSUME ArchiveWrite \/ ArchiveDescribe
       PROVE  PhaseInv'
  BY <1>22, <1>t DEF ArchiveWrite, ArchiveDescribe, Tree, World, Goto, PhaseInv, Progress, Retired
<1> HIDE DEF ValidatePhases, Judging, AfterRecheck, Unclean, Terminal, At
<1>23. ASSUME SetUpAuthority \/ ReplaceAuthority
       PROVE  PhaseInv'
  BY <1>23, <1>t DEF SetUpAuthority, ReplaceAuthority, Move, GateAuthorityFree, PhaseInv, TypeOK, At,
     Active,
           MayAbandon, Unclean, Retired, AfterRecheck
<1>24. ASSUME UNCHANGED <<authority, rec, proc, manifest, archive, registered>>,
              ref' = ref \/ ref' # "ours",
              root' = root \/ root'.fill \notin {"empty", "ours", "changed"}
       PROVE  PhaseInv'
  BY <1>24 DEF PhaseInv, At, Active, MayAbandon, Unclean, Retired, AfterRecheck
<1>25. ASSUME RefLost \/ RefMoved \/ RefRestored
       PROVE  PhaseInv'
  BY <1>24, <1>25 DEF RefLost, RefMoved, RefRestored, ChangesRef, Move, Tree
<1>26. ASSUME RootReplaced \/ RootDeleted
       PROVE  PhaseInv'
  <2>1. CASE RootReplaced
    BY <1>24, <2>1 DEF RootReplaced, Make, Move
  <2>2. CASE RootDeleted
    BY <1>24, <2>2, AbsentRoot DEF RootDeleted, Move
  <2> QED
    BY <1>26, <2>1, <2>2
<1>27. ASSUME CommandWrites
       PROVE  PhaseInv'
  BY <1>27, <1>t DEF CommandWrites, Kept, PhaseInv, Progress, At, Active, MayAbandon, Unclean, Retired,
     AfterRecheck
<1>28. ASSUME Groups \/ LooseEnds \/ Killed \/ UNCHANGED vars
       PROVE  PhaseInv'
  BY <1>24, <1>28 DEF Groups, LooseEnds, Killed, Beside, Kept, vars
<1> QED
  BY <1>1, <1>2, <1>3, <1>4, <1>5, <1>6, <1>7, <1>8, <1>9, <1>10, <1>11, <1>12, <1>13, <1>14, <1>15, <1>16,
     <1>17, <1>18, <1>19, <1>20, <1>21, <1>22, <1>23, <1>25, <1>26, <1>27, <1>28
     DEF Next, Step, Validate, Maintain, Around

\* Which of its local variables a command keeps, and who changes the others.
LEMMA WhoRemembers ==
  ASSUME SubmissionAssumption, TypeOK, [Next]_vars
  PROVE  /\ proc'.mine \in {NoInode, proc.mine} \/ Prepare
         /\ proc'.old \in {NoInode, proc.old, rec.inode}
         /\ \/ proc'.seen \in {NoInode, proc.seen}
            \/ /\ proc'.seen = root.inode
               /\ \E E \in {rec.inode, proc.old, proc.mine} : MayRemove(E)
<1> DEFINE Same == proc'.mine = proc.mine /\ proc'.old = proc.old /\ proc'.seen = proc.seen
           Looks == /\ proc'.mine = proc.mine /\ proc'.old = proc.old /\ proc'.seen = root.inode
                    /\ \E E \in {rec.inode, proc.old, proc.mine} : MayRemove(E)
<1>t. proc \in Progress
  BY DEF TypeOK
<1>g. ASSUME NEW p, Goto(p)
      PROVE  Same
  BY <1>g, <1>t DEF Goto, Progress
<1>o. ASSUME NEW o, Caught(o)
      PROVE  Same
  BY <1>o, <1>t DEF Caught, Progress
<1>c. ASSUME NEW p, NEW E \in {rec.inode, proc.old, proc.mine}, MayRemove(E), Checked(p)
      PROVE  Looks
  BY <1>c, <1>t DEF Checked, Progress
<1>e. End => proc' = Idle
  BY DEF End
<1>1. Command => Same
  BY <1>g DEF Command, AdoptStart, RecoverStart, AbandonStart, ArchiveStart, AttestStart
<1>2. Start => proc'.mine = proc.mine /\ proc'.old = rec.inode /\ proc'.seen = proc.seen
  BY <1>t DEF Start, Progress
<1>3. Adopt \/ Journal \/ Retain \/ EraseSwept \/ Forget \/ Own \/ Add \/ Capture \/ Abandon
        \/ ClearAbandoned \/ ArchiveWrite \/ ArchiveDescribe \/ RegisterValidator \/ Conclude => Same
  BY <1>g, <1>o DEF Adopt, Journal, Retain, EraseSwept, Forget, Own, Add, Capture, Abandon, ClearAbandoned,
                    ArchiveWrite, ArchiveDescribe, RegisterValidator, Conclude
<1>4. EraseCleaned \/ Recover \/ EraseAbandoned \/ ArchiveIntend \/ ArchiveRelease \/ Commit
        \/ WriteManifest \/ ArchiveRemove \/ Attest \/ Stop => Same \/ proc' = Idle
  BY <1>g, <1>e DEF EraseCleaned, Recover, EraseAbandoned, ArchiveIntend, ArchiveRelease, Commit,
                    WriteManifest, ArchiveRemove, Attest, Stop, Quits, GivesUp
<1>5. Pin \/ Repin \/ Confirm \/ Recheck => Same \/ proc' = Idle
  BY <1>g, <1>o, <1>e, <1>t DEF Pin, Repin, Confirm, RepairFails, Recheck, Quits, GivesUp, Progress
<1>6. SpawnValidator \/ HandoffValidator \/ AwaitValidator \/ Preserved => Same
  BY <1>g, <1>o, <1>t DEF SpawnValidator, HandoffValidator, AwaitValidator, Preserved, Progress
<1>7. RetireValidator \/ Lingers \/ CleanCache \/ Fail => Same
  BY <1>g, <1>t DEF RetireValidator, Lingers, CleanCache, Fail, AfterRetiring, Progress
<1>8. Prepare => proc'.old = proc.old /\ proc'.seen = proc.seen
  BY <1>o, <1>t DEF Prepare, Progress
<1>9. Sweep \/ Clean \/ CleanupAbandoned => Same \/ Looks \/ proc' = Idle
  <2>1. Bound \in {rec.inode, proc.old, proc.mine}
    BY DEF Bound
  <2> QED
    BY <2>1, <1>c, <1>g, <1>o, <1>e DEF Sweep, Clean, CleanupAbandoned, Quits, GivesUp
<1>10. SetUpAuthority \/ ReplaceAuthority \/ RefLost \/ RefMoved \/ RefRestored \/ RootReplaced
         \/ RootDeleted \/ Groups \/ LooseEnds \/ CommandWrites \/ Killed \/ UNCHANGED vars => Same
  BY DEF SetUpAuthority, ReplaceAuthority, RefLost, RefMoved, RefRestored, RootReplaced, RootDeleted,
         Move, Groups, LooseEnds, CommandWrites, Killed, Beside, vars
<1>11. Same \/ Looks \/ proc' = Idle \/ Start \/ Prepare
  BY <1>1, <1>3, <1>4, <1>5, <1>6, <1>7, <1>9, <1>10 DEF Next, Step, Validate, Maintain, Around
<1> QED
  BY <1>2, <1>8, <1>11, IdleProgress

\* How a record changes: the status goes one way, and retention, once on record, and its loss
\* are not forgotten.
LEMMA RecordMoves ==
  ASSUME TypeOK, StatusInv, PhaseInv, [Next]_vars
  PROVE  \/ /\ rec'.status = rec.status
            /\ rec.retained => rec'.retained
            /\ rec.compromised => rec'.compromised
            /\ rec'.intent = rec.intent \/ (ArchiveIntend /\ rec.intent = "none")
         \/ rec.status = "none" /\ Adopt /\ rec' = Received
         \/ rec.status = "received" /\ Start /\ rec'.status = "validating" /\ rec'.intent = rec.intent
         \/ rec.status = "validating" /\ Conclude /\ rec'.status = Verdict /\ rec'.intent = rec.intent
         \/ rec.status \in Pending /\ Abandon /\ rec'.status = "abandoned" /\ rec'.intent = rec.intent
         \/ rec.status \in Terminal /\ ArchiveRemove /\ rec'.status = "gone"
<1>t. rec \in SubmissionRecord
  BY DEF TypeOK
<1>1. CASE UNCHANGED rec
  BY <1>1
<1>2. CASE Adopt
  BY <1>2 DEF Adopt, Record, PhaseInv, At
<1>3. CASE Start
  BY <1>3, <1>t DEF Start, Record, SubmissionRecord, PhaseInv, At, Pending
<1>4. CASE Journal \/ Retain \/ Forget \/ Own
  BY <1>4, <1>t DEF Journal, Retain, Forget, Forgotten, Own, Owned, Record, SubmissionRecord
<1>5. CASE Conclude
  BY <1>5, <1>t, PhaseFacts DEF Conclude, Record, SubmissionRecord, At
<1>6. CASE Abandon
  BY <1>6, <1>t DEF Abandon, Record, SubmissionRecord, PhaseInv, At, MayAbandon
<1>7. CASE ClearAbandoned
  BY <1>7, <1>t DEF ClearAbandoned, Record, SubmissionRecord
<1>8. CASE ArchiveIntend
  BY <1>1, <1>8, <1>t DEF ArchiveIntend, MayIntend, Quits, GivesUp, Record, SubmissionRecord
<1>9. CASE ArchiveRemove
  BY <1>9 DEF ArchiveRemove, Record, Received, PhaseInv, At
<1> QED
  BY <1>1, <1>2, <1>3, <1>4, <1>5, <1>6, <1>7, <1>8, <1>9, WhoChanges

\* Somebody else's directory passes no check of a removal.
LEMMA ForeignRefused ==
  ASSUME ForeignInv, root.fill \in Foreign, NEW E \in {rec.inode, proc.old, proc.mine}
  PROVE  ~MayRemove(E)
BY DEF ForeignInv, MayRemove, MayDelete, Foreign

LEMMA StepForeignInv ==
  ASSUME SubmissionAssumption, TypeOK, StatusInv, PhaseInv, ForeignInv, EraseInv, [Next]_vars
  PROVE  ForeignInv'
<1>1. rec'.inode \in {NoInode, rec.inode, proc.mine}
  <2>1. Forget \/ Own \/ Conclude \/ ClearAbandoned \/ Start \/ Journal \/ Retain \/ Abandon \/ ArchiveIntend
          => rec'.inode \in {NoInode, rec.inode, proc.mine}
    BY DEF TypeOK, SubmissionRecord, Forget, Forgotten, Own, Owned, Conclude, ClearAbandoned, Start,
           Journal, Retain, Abandon, ArchiveIntend, Quits, GivesUp, Record
  <2>2. Adopt \/ ArchiveRemove => rec'.inode = NoInode
    BY DEF Adopt, ArchiveRemove, Record, Received
  <2> QED
    BY <2>1, <2>2, WhoChanges
\* A foreign directory is neither prepared nor checked, so its inode is not taken down.
<1>2. root.fill \in Foreign => proc'.mine \in {NoInode, proc.mine} /\ proc'.seen \in {NoInode, proc.seen}
  <2>1. Prepare /\ root.fill \in Foreign => Caught("failed")
    BY AbsentRoot DEF Prepare, Foreign
  <2>2. root.fill \in Foreign => proc'.mine \in {NoInode, proc.mine}
    BY <2>1, WhoRemembers DEF TypeOK, Progress, Caught
  <2> QED
    BY <2>2, WhoRemembers, ForeignRefused
<1>3. CASE root.fill \in Foreign /\ root'.inode = root.inode
  BY <1>1, <1>2, <1>3, WhoRemembers DEF ForeignInv
<1>4. CASE root' = root
  BY <1>3, <1>4 DEF ForeignInv
<1>5. CASE root' = Absent
  BY <1>5, AbsentRoot DEF ForeignInv, Foreign
<1>6. CASE RootReplaced
  <2>1. root'.inode = Fresh /\ rec' = rec /\ proc' = proc
    BY <1>6 DEF RootReplaced, Make, Move
  <2> QED
    BY <2>1, FreshInode DEF ForeignInv
<1>7. CASE Erasing
  <2>1. ASSUME Newcomer, root' = [root EXCEPT !.fill = "marked"]
        PROVE  ForeignInv'
    <3>1. root.fill \in Foreign /\ root'.inode = root.inode
      BY <1>7, <2>1, WhatIsErased DEF Newcomer, EraseInv, TypeOK
    <3> QED
      BY <3>1, <1>3
  <2> QED
    BY <1>4, <1>5, <1>7, <2>1, WhatIsErased
<1>8. CASE Prepare \/ Add
  BY <1>4, <1>8 DEF Prepare, Add, Make, Tree, ForeignInv, Foreign
<1>9. CASE CommandWrites
  BY <1>9 DEF CommandWrites, TypeOK, ForeignInv, Foreign
<1> QED
  BY <1>4, <1>5, <1>6, <1>7, <1>8, <1>9, WhoChanges DEF RootDeleted, Erasing

LEMMA StepBound ==
  ASSUME SubmissionAssumption, TypeOK, StatusInv, PhaseInv, WorktreeIsBound, [Next]_vars
  PROVE  WorktreeIsBound'
<1>t. rec \in SubmissionRecord /\ history \subseteq history'
  BY WhoChanges DEF TypeOK, Repin, Add
<1> USE DEF Occupied
<1>1. CASE UNCHANGED <<rec, root, registered>>
  BY <1>t, <1>1 DEF WorktreeIsBound
<1>2. CASE Adopt \/ Forget \/ Own \/ Conclude \/ ClearAbandoned \/ ArchiveRemove
  <2>1. UNCHANGED <<root, registered>> /\ NothingLeft
    BY <1>2, PhaseFacts DEF Adopt, Forget, Own, Conclude, ClearAbandoned, ArchiveRemove, Record, Tree,
                           PhaseInv, StatusInv, Terminal, At
  <2> QED
    BY <2>1 DEF NothingLeft, WorktreeIsBound
<1>3. CASE Start \/ Journal \/ Retain \/ Abandon \/ ArchiveIntend
  <2>1. rec'.inode = rec.inode /\ UNCHANGED <<root, registered>>
    BY <1>3, <1>t DEF Start, Journal, Retain, Abandon, ArchiveIntend, Quits, GivesUp, Record, Tree,
                    SubmissionRecord
  <2> QED
    BY <2>1, <1>t DEF WorktreeIsBound
<1>4. CASE Erasing
  <2>1. /\ rec' = rec
        /\ registered' = registered \/ registered' = FALSE
        /\ root' = root \/ root' = Absent \/ root'.fill = "marked"
    BY <1>4, WhatIsErased DEF TypeOK
  <2> QED
    BY <2>1, <1>t, AbsentRoot DEF WorktreeIsBound
<1>5. CASE RootDeleted
  BY <1>5, <1>t, AbsentRoot DEF RootDeleted, Move, WorktreeIsBound
<1>6. CASE Prepare
  BY <1>6, <1>t DEF Prepare, Make, WorktreeIsBound
<1>7. CASE Add
  <2>1. rec' = rec /\ rec.inode = proc.mine /\ proc.mine # NoInode /\ NothingLeft
        /\ (root.fill = "empty" => root.inode = proc.mine)
    BY <1>7, PhaseFacts DEF Add, PhaseInv, At
  <2>2. CASE root.fill \in Foreign
    BY <1>1, <1>7, <2>1, <2>2 DEF Add, Tree
  <2>3. CASE root.fill \notin Foreign /\ root = Absent
    BY <1>7, <2>1, <2>3 DEF Add, Make, WorktreeIsBound
  <2>4. CASE root.fill \notin Foreign /\ root # Absent
    <3>1. root.fill = "empty"
      BY <2>1, <2>4, AbsentRoot DEF TypeOK, Fills, Foreign, NothingLeft
    <3> QED
      BY <1>7, <2>1, <2>4, <3>1 DEF Add, Make, WorktreeIsBound
  <2> QED
    BY <2>2, <2>3, <2>4
<1>8. CASE RootReplaced
  BY <1>8, <1>t DEF RootReplaced, Make, Move, WorktreeIsBound
<1>9. CASE CommandWrites
  BY <1>9, <1>t DEF CommandWrites, Kept, TypeOK, WorktreeIsBound
<1> QED
  BY <1>1, <1>2, <1>3, <1>4, <1>5, <1>6, <1>7, <1>8, <1>9, WhoChanges DEF Erasing

\* A command begins to run by the start message, and in no other way.
LEMMA WhoStarts ==
  ASSUME TypeOK, [Next]_vars, ~HandoffValidator, NEW l \in Launches, Alive(l)'
  PROVE  Alive(l)
<1>t. phase \in [Launches -> Phase]
  BY DEF TypeOK, GuardTypeOK
<1>1. ASSUME NEW k \in Launches, NEW p, Become(k, p), Alive(k) \/ p \notin {"running", "loose", "dying"}
      PROVE  Alive(l)
  BY <1>1, <1>t DEF Become, Alive
<1>2. CASE UNCHANGED phase
  BY <1>2 DEF Alive
<1>3. CASE SpawnValidator
  BY <1>1, <1>3 DEF SpawnValidator, Spawn
<1>4. CASE AwaitValidator
  BY <1>t, <1>1, <1>2, <1>4 DEF AwaitValidator, Report, OwnerKills, Inside, guardVars, Alive, TypeOK,
     Progress
<1>5. ASSUME NEW k \in Launches, SupervisorStops(k) \/ GroupEmpties(k) \/ CommandEnds(k) \/ SupervisorKilled(k)
      PROVE  Alive(l)
  BY <1>1, <1>5 DEF SupervisorStops, GroupEmpties, CommandEnds, SupervisorKilled, Alive
<1>6. CASE Groups \/ LooseEnds \/ Killed
  BY <1>5, <1>6 DEF Groups, LooseEnds, Killed
<1> QED
  <2>1. UNCHANGED phase \/ SpawnValidator \/ AwaitValidator \/ Groups \/ LooseEnds \/ Killed
    <3> USE DEF Inside, guardVars, Enter, Leave, End, Asked
    <3>1. Command => UNCHANGED phase
      BY DEF Command, AdoptStart, RecoverStart, AbandonStart, ArchiveStart, AttestStart
    <3>2. Adopt \/ Start \/ Pin \/ Journal \/ Repin \/ Confirm \/ Retain \/ Forget \/ Prepare \/ Own \/ Add
            \/ Capture \/ Preserved \/ CleanCache \/ Recheck \/ Commit \/ Conclude \/ WriteManifest
            => UNCHANGED phase
      BY DEF Adopt, Start, Pin, Journal, Repin, Confirm, RepairFails, Retain, Forget, Prepare, Own, Add,
             Capture, Preserved, CleanCache, Recheck, Commit, Conclude, WriteManifest, Quits, GivesUp
    <3>3. RegisterValidator \/ RetireValidator \/ Lingers => UNCHANGED phase
      BY DEF RegisterValidator, Register, RetireValidator, Lingers, Retire
    <3>4. Sweep \/ Clean \/ CleanupAbandoned \/ Erasing => UNCHANGED phase
      BY WhatIsErased DEF Sweep, Clean, CleanupAbandoned, Checked, Quits, GivesUp
    <3>5. Recover \/ Abandon \/ ClearAbandoned \/ ArchiveIntend \/ ArchiveRelease \/ ArchiveWrite
            \/ ArchiveDescribe \/ ArchiveRemove \/ Attest \/ Stop \/ Fail => UNCHANGED phase
      BY DEF Recover, Abandon, ClearAbandoned, ArchiveIntend, ArchiveRelease, ArchiveWrite, ArchiveDescribe,
             ArchiveRemove, Attest, Stop, Fail, Quits, GivesUp
    <3>6. SetUpAuthority \/ ReplaceAuthority \/ RefLost \/ RefMoved \/ RefRestored \/ RootReplaced
            \/ RootDeleted \/ CommandWrites \/ UNCHANGED vars => UNCHANGED phase
      BY DEF SetUpAuthority, ReplaceAuthority, RefLost, RefMoved, RefRestored, RootReplaced, RootDeleted,
             Move, CommandWrites, vars
    <3> QED
      BY <3>1, <3>2, <3>3, <3>4, <3>5, <3>6 DEF Next, Step, Validate, Maintain, Around, Erasing
  <2> QED
    BY <1>2, <1>3, <1>4, <1>6, <2>1

\* Only validators that the broker starts run in the worktree, and none is started
\* between the check of a removal and the removal.
LEMMA StepEraseInv ==
  ASSUME SubmissionAssumption, TypeOK, GuardInv, StatusInv, EraseInv, [Next]_vars
  PROVE  EraseInv'
<1>t. proc \in Progress
  BY DEF TypeOK
<1>1. ASSUME proc'.pc \in ErasePhases, proc'.pc # proc.pc
      PROVE  /\ UNCHANGED <<phase, root>> /\ AllStopped /\ proc'.seen = root.inode
  <2>c. ASSUME NEW p, NEW E, MayRemove(E), Checked(p)
        PROVE  UNCHANGED phase /\ AllStopped /\ proc'.seen = root.inode
    BY <2>c, <1>t DEF MayRemove, Checked, StoppedFirst, Progress
  <2>g. ASSUME NEW p, p \notin ErasePhases, Goto(p)
        PROVE  FALSE
    BY <1>1, <1>t, <2>g DEF Goto, Progress
  <2>o. ASSUME NEW o, Caught(o)
        PROVE  FALSE
    BY <1>1, <1>t, <2>o DEF Caught, Progress, ErasePhases
  <2>e. ~End
    BY <1>1, IdleProgress DEF End, ErasePhases
  <2>1. CASE Sweep \/ Clean \/ CleanupAbandoned
    BY <2>1, <2>c, <2>g, <2>o, <2>e DEF Sweep, Clean, CleanupAbandoned, Quits, GivesUp, Local, Tree, ErasePhases
  <2>2. ~Command
    BY <2>g DEF Command, AdoptStart, RecoverStart, AbandonStart, ArchiveStart, AttestStart, ErasePhases
  <2>3. ~(Adopt \/ Journal \/ Retain \/ EraseSwept \/ Forget \/ Own \/ Add \/ Capture \/ Abandon
           \/ ClearAbandoned \/ ArchiveWrite \/ ArchiveDescribe \/ RegisterValidator \/ Conclude)
    BY <2>g, <2>o DEF Adopt, Journal, Retain, EraseSwept, Forget, Own, Add, Capture, Abandon,
          ClearAbandoned, ArchiveWrite, ArchiveDescribe, RegisterValidator, Conclude, ErasePhases
  <2>4. ~(EraseCleaned \/ Recover \/ EraseAbandoned \/ ArchiveIntend \/ ArchiveRelease \/ Commit
           \/ WriteManifest \/ ArchiveRemove \/ Attest)
    BY <2>g, <2>e DEF EraseCleaned, Recover, EraseAbandoned, ArchiveIntend, ArchiveRelease, Commit,
                    WriteManifest, ArchiveRemove, Attest, Quits, GivesUp, ErasePhases
  <2>5. ~(Start \/ Pin \/ Repin \/ Confirm \/ Recheck \/ Prepare \/ Stop)
    BY <1>1, <1>t, <2>g, <2>o, <2>e, IdleProgress
       DEF Start, Pin, FirstMissing, Repin, Confirm, RepairFails, Recheck, Prepare, Stop, Quits, GivesUp,
           Progress, ErasePhases
  <2>6. ~(SpawnValidator \/ HandoffValidator \/ AwaitValidator \/ Preserved \/ RetireValidator \/ Lingers
           \/ CleanCache \/ Fail)
    BY <1>1, <1>t, <2>g, <2>o DEF SpawnValidator, HandoffValidator, AwaitValidator, Preserved,
         RetireValidator, Lingers, CleanCache, Fail, AfterRetiring, Progress, ErasePhases
  <2>7. ~(SetUpAuthority \/ ReplaceAuthority \/ RefLost \/ RefMoved \/ RefRestored \/ RootReplaced
           \/ RootDeleted \/ Groups \/ LooseEnds \/ CommandWrites \/ Killed \/ UNCHANGED vars)
    BY <1>1 DEF SetUpAuthority, ReplaceAuthority, RefLost, RefMoved, RefRestored, RootReplaced,
         RootDeleted, Move, Groups, LooseEnds, CommandWrites, Killed, Beside, vars
  <2> QED
    BY <2>1, <2>2, <2>3, <2>4, <2>5, <2>6, <2>7 DEF Next, Step, Validate, Maintain, Around
<1>2. ASSUME proc'.pc \in ErasePhases, proc'.pc # proc.pc
      PROVE  EraseInv'
  <2>1. \A l \in Launches : ~Alive(l)
    BY <1>1, <1>2 DEF GuardInv, AllStopped, Finished, Alive
  <2> QED
    BY <1>1, <1>2, <2>1 DEF EraseInv, Alive
\* While a removal is between its two steps, only others act.
<1>3. ASSUME proc'.pc \in ErasePhases, proc'.pc = proc.pc
      PROVE  EraseInv'
  <2>q. \A l \in Launches : ~Alive(l)
    BY <1>3 DEF EraseInv
  <2>1. /\ ~HandoffValidator /\ ~Prepare /\ ~Add /\ ~Erasing
        /\ proc'.seen = proc.seen
    <3>1. proc.pc \in ErasePhases
      BY <1>3
    <3>2. ~Command /\ ~Validate /\ ~Maintain
      <4>1. CASE Erasing
        BY <1>3, <1>t, <4>1, IdleProgress DEF Erasing, EraseSwept, EraseCleaned, EraseAbandoned, Quits,
           Goto, Caught, End, Progress, At, ErasePhases
      <4>2. ~Command
        BY <3>1 DEF Command, AdoptStart, RecoverStart, AbandonStart, ArchiveStart, AttestStart, At, ErasePhases
      <4>3. ~Validate
        BY <3>1, <4>1 DEF Erasing, Validate, Adopt, Start, Pin, Journal, Repin, Confirm, Retain, Sweep,
           Forget, Prepare, Own, Add, Capture, SpawnValidator, RegisterValidator, HandoffValidator,
           AwaitValidator, RetireValidator, Preserved, CleanCache, Clean, Recheck, Commit, Conclude,
           WriteManifest, At, ErasePhases
      <4>4. ~Maintain
        BY <3>1, <4>1 DEF Erasing, Maintain, Recover, Abandon, CleanupAbandoned, ClearAbandoned,
           ArchiveIntend, ArchiveRelease, ArchiveWrite, ArchiveDescribe, ArchiveRemove, Attest, At,
           ErasePhases
      <4> QED
        BY <4>2, <4>3, <4>4
    <3>3. ~Stop /\ ~Lingers /\ ~Fail
      BY <1>3, <1>t, IdleProgress DEF Stop, Lingers, Fail, At, Progress, ErasePhases
    <3>4. proc' = proc
      BY <3>2, <3>3 DEF Next, Step, Around, SetUpAuthority, ReplaceAuthority, RefLost, RefMoved,
         RefRestored, RootReplaced, RootDeleted, Move, Groups, LooseEnds, CommandWrites, Killed, Beside, vars
    <3> QED
      BY <3>2, <3>4 DEF Validate, Maintain, Erasing
  <2>2. \A l \in Launches : ~Alive(l)'
    BY <2>1, <2>q, WhoStarts
  <2>3. root'.inode \in {NoInode, proc.seen} \/ root'.fill \in Foreign
    <3>1. root' = root \/ RootReplaced \/ RootDeleted \/ CommandWrites
      BY <2>1, WhoChanges DEF Erasing
    <3>2. root.inode \in {NoInode, proc.seen} \/ root.fill \in Foreign
      BY <1>3 DEF EraseInv
    <3>3. CASE RootReplaced
      BY <3>3 DEF RootReplaced, Make, Foreign
    <3>4. CASE RootDeleted
      BY <3>4, AbsentRoot DEF RootDeleted
    <3>5. ~CommandWrites
      BY <2>q DEF CommandWrites
    <3> QED
      BY <3>1, <3>2, <3>3, <3>4, <3>5
  <2> QED
    BY <1>3, <2>1, <2>2, <2>3 DEF EraseInv
<1> QED
  BY <1>2, <1>3 DEF EraseInv

LEMMA StepAuthorityInv ==
  ASSUME SubmissionAssumption, TypeOK, StatusInv, PhaseInv, AuthorityInv, [Next]_vars
  PROVE  AuthorityInv'
<1>1. rec'.status = "none" => rec.status = "none"
  <2>1. Verdict \in Terminal
    BY DEF TypeOK, Progress, Verdict, Terminal
  <2> QED
    BY <2>1, RecordMoves DEF Received, Terminal
<1>2. CASE SetUpAuthority
  BY <1>2 DEF SetUpAuthority, AuthorityInv, JudgedAsReceived, SameAuthority
<1>3. CASE ReplaceAuthority
  BY <1>3, <1>1 DEF ReplaceAuthority, Move, Active, GateAuthorityFree, TypeOK, At, AuthorityInv,
     JudgedAsReceived,
               ValidatePhases
<1>4. CASE UNCHANGED authority
  <2>1. ASSUME rec'.status \in Pending, proc'.pc \in ValidatePhases
        PROVE  authority = "recorded"
    <3>1. CASE Adopt
      BY <3>1 DEF Adopt, PhaseInv
    <3>2. rec.status \in Pending \/ Adopt
      <4>1. Verdict \in Terminal
        BY DEF TypeOK, Progress, Verdict, Terminal
      <4> QED
        BY <2>1, <4>1, RecordMoves DEF Pending, Terminal
    <3>3. CASE proc.pc \in ValidatePhases
      BY <3>1, <3>2, <3>3 DEF AuthorityInv, JudgedAsReceived, SameAuthority
    <3>4. CASE Recover
      BY <3>1, <3>2, <3>4, <2>1, IdleProgress DEF Recover, SameAuthority, Quits, GivesUp, End, ValidatePhases
    <3>5. CASE Command \/ Abandon \/ CleanupAbandoned \/ EraseAbandoned \/ ArchiveIntend \/ ArchiveRelease \/ ArchiveWrite
               \/ ArchiveDescribe \/ ArchiveRemove \/ Attest \/ WriteManifest \/ Stop
      <4>g. ASSUME NEW p, p \notin ValidatePhases, Goto(p)
            PROVE  FALSE
        BY <2>1, <4>g DEF Goto, TypeOK, Progress
      <4>e. ~End
        BY <2>1, IdleProgress DEF End, ValidatePhases
      <4>c. ~Checked("eraseAbandoned")
        BY <2>1 DEF Checked, TypeOK, Progress, ValidatePhases
      <4>1. CASE Command \/ Abandon \/ CleanupAbandoned \/ EraseAbandoned
        BY <4>1, <4>c, <4>e, <4>g DEF Command, AdoptStart, RecoverStart, AbandonStart, ArchiveStart,
           AttestStart, Abandon, CleanupAbandoned, EraseAbandoned, Quits, GivesUp, ValidatePhases
      <4>2. CASE ArchiveIntend \/ ArchiveRelease \/ ArchiveWrite \/ ArchiveDescribe
        BY <4>2, <4>e, <4>g DEF ArchiveIntend, ArchiveRelease, ArchiveWrite, ArchiveDescribe, Quits, GivesUp,
           ValidatePhases
      <4>3. CASE ArchiveRemove \/ Attest \/ WriteManifest \/ Stop
        BY <4>3, <4>e DEF ArchiveRemove, Attest, WriteManifest, Stop, End, Quits, GivesUp
      <4> QED
        BY <3>5, <4>1, <4>2, <4>3
    <3>6. CASE ClearAbandoned
      BY <2>1, <3>6 DEF ClearAbandoned, Record, TypeOK, SubmissionRecord, PhaseInv, At, Pending
    <3>7. CASE Around \/ Killed \/ UNCHANGED vars
      <4>1. proc'.pc = proc.pc
        BY <3>7 DEF Around, SetUpAuthority, ReplaceAuthority, RefLost, RefMoved, RefRestored, RootReplaced,
                    RootDeleted, Move, Groups, LooseEnds, CommandWrites, Killed, Beside, vars, TypeOK, Progress
      <4> QED
        BY <2>1, <3>3, <4>1
    <3>8. CASE (Validate /\ ~Adopt) \/ Lingers \/ Fail
      <4>1. proc.pc \in ValidatePhases
        BY <3>8 DEF Validate, Start, Pin, Journal, Repin, Confirm, Retain, Sweep, EraseSwept, Forget, Prepare,
             Own, Add, Capture, SpawnValidator, RegisterValidator, HandoffValidator, AwaitValidator,
             RetireValidator, Preserved, CleanCache, Clean, EraseCleaned, Recheck, Commit, Conclude,
             WriteManifest, Lingers, Fail, Catching, At, ValidatePhases
      <4> QED
        BY <3>3, <4>1
    <3> QED
      BY <3>1, <3>4, <3>5, <3>6, <3>7, <3>8 DEF Next, Step, Maintain
  <2> QED
    BY <1>1, <1>4, <2>1 DEF AuthorityInv, JudgedAsReceived, SameAuthority
<1> QED
  BY <1>2, <1>3, <1>4, WhoChanges

LEMMA StepLossInv ==
  ASSUME TypeOK, StatusInv, PhaseInv, LossInv, [Next]_vars
  PROVE  LossInv'
<1>v. /\ Verdict \in Terminal
      /\ Terminal \cap {"none", "gone", "received", "validating"} = {}
      /\ rec.compromised => Verdict # "validated"
  BY DEF TypeOK, Progress, Verdict, Terminal
<1>1. CASE "repaired" \in history' /\ "repaired" \notin history
  <2>1. Repin
    <3>1. Add => history' = history \/ history' = history \cup {"remade"}
      BY DEF Add
    <3> QED
      BY <1>1, <3>1, WhoChanges
  <2>2. rec.status = "validating" /\ rec.compromised /\ rec' = rec
    BY <2>1, PhaseFacts DEF Repin, PhaseInv, At
  <2> QED
    BY <2>2 DEF LossInv
<1>2. CASE "repaired" \in history
  <2>1. rec'.status \notin {"none", "received", "validated"}
    BY <1>2, <1>v, RecordMoves DEF LossInv, Pending, Received, Terminal
  <2>2. rec'.status = "validating" => rec'.compromised
    BY <1>2, <1>v, RecordMoves DEF LossInv, Pending, Received
  <2> QED
    BY <2>1, <2>2 DEF LossInv
<1>3. CASE "repaired" \notin history'
  BY <1>3 DEF LossInv
<1> QED
  BY <1>1, <1>2, <1>3

\* A scope that passes is taken down with what it found, and the outcome does not become a
\* success afterwards.
LEMMA StepJudgedInv ==
  ASSUME SubmissionAssumption, TypeOK, JudgedInv, [Next]_vars
  PROVE  JudgedInv'
<1>t. proc \in Progress
  BY DEF TypeOK
<1> DEFINE Same == proc'.scope = proc.scope /\ proc'.judged = proc.judged
<1>i. ASSUME proc' = Idle
      PROVE  JudgedInv'
  BY <1>i, IdleProgress DEF JudgedInv, AfterRecheck
\* Before the validation is concluded, only the scopes matter.
<1>n. ASSUME Same, proc'.pc \notin {"cache", "clean", "eraseCleaned", "recheck", "commit", "terminal"},
             proc'.pc \notin {"journal", "repin", "confirm"} \/ proc'.from # "recheck"
      PROVE  JudgedInv'
  BY <1>n DEF JudgedInv, AfterRecheck
<1>f. ASSUME Same, proc'.outcome # "validated"
      PROVE  JudgedInv'
  BY <1>f DEF JudgedInv
\* Once it is, the outcome stays, or ceases to be a success.
<1>a. ASSUME Same, proc.pc \in {"cache", "clean", "eraseCleaned"} \/ AfterRecheck,
             proc'.outcome \in {proc.outcome, "failed"}
      PROVE  JudgedInv'
  BY <1>a DEF JudgedInv
<1>g. ASSUME NEW p, Goto(p)
      PROVE  Same /\ proc'.pc = p /\ proc'.from = proc.from /\ proc'.outcome = proc.outcome
  BY <1>g, <1>t DEF Goto, Progress
<1>c. ASSUME NEW p, Checked(p)
      PROVE  Same /\ proc'.pc = p /\ proc'.from = proc.from /\ proc'.outcome = proc.outcome
  BY <1>c, <1>t DEF Checked, Progress
<1>o. ASSUME NEW o \in {"failed", "rejected"}, Caught(o)
      PROVE  JudgedInv'
  <2>1. Same /\ proc'.outcome = o
    BY <1>o, <1>t DEF Caught, Progress
  <2> QED
    BY <2>1, <1>f
<1>e. End => JudgedInv'
  BY <1>i DEF End
<1>1. CASE Command
  BY <1>1, <1>g, <1>n DEF Command, AdoptStart, RecoverStart, AbandonStart, ArchiveStart, AttestStart
<1>2. CASE Adopt \/ Retain \/ Sweep \/ EraseSwept \/ Forget \/ Own \/ Add \/ Capture \/ Abandon
           \/ CleanupAbandoned \/ EraseAbandoned \/ ClearAbandoned
  BY <1>2, <1>g, <1>c, <1>o, <1>e, <1>n DEF Adopt, Retain, Sweep, EraseSwept, Forget, Own, Add, Capture, Abandon,
     CleanupAbandoned, EraseAbandoned, ClearAbandoned, Quits, GivesUp
<1>3. CASE Recover \/ ArchiveIntend \/ ArchiveRelease \/ ArchiveWrite \/ ArchiveDescribe \/ ArchiveRemove
           \/ Attest \/ Conclude \/ WriteManifest \/ Stop
  BY <1>3, <1>g, <1>e, <1>n, <1>i DEF Recover, ArchiveIntend, ArchiveRelease, ArchiveWrite, ArchiveDescribe,
     ArchiveRemove, Attest, Conclude, WriteManifest, Stop, Quits, GivesUp
<1>4. CASE Start \/ Prepare
  <2>1. Caught("failed") \/ (Same /\ proc'.pc \in {"pin", "own"})
    BY <1>4, <1>t DEF Start, Prepare, Progress
  <2> QED
    BY <2>1, <1>n, <1>o
<1>5. CASE Pin
  <2>1. Caught("failed") \/ (Same /\ (proc'.pc \in {"retain", "sweep"} \/ (proc'.pc = "journal" /\ proc'.from = "pin")))
    BY <1>5, <1>t DEF Pin, Goto, FirstMissing, Progress
  <2> QED
    BY <2>1, <1>n, <1>o
<1>6. CASE Journal \/ Repin \/ Confirm
  <2>1. \/ Caught("failed") \/ End
        \/ /\ Same /\ proc'.outcome = proc.outcome /\ proc'.from = proc.from
           /\ \/ proc'.pc \in {"repin", "confirm"}
              \/ proc'.pc = "sweep"
              \/ proc'.pc = "commit" /\ proc.from # "pin"
    BY <1>6, <1>g DEF Journal, Repin, Confirm, RepairFails
  <2>2. proc.from \in {"pin", "recheck"} /\ proc.pc \in {"journal", "repin", "confirm"}
    BY <1>6, <1>t DEF Journal, Repin, Confirm, At, Progress
  <2>3. AfterRecheck \/ proc.from # "recheck"
    BY <2>2 DEF AfterRecheck
  <2> QED
    BY <2>1, <2>2, <2>3, <1>a, <1>n, <1>o, <1>e
<1>7. CASE Clean \/ EraseCleaned \/ Recheck \/ Commit
  <2>1. proc.pc \in {"cache", "clean", "eraseCleaned"} \/ AfterRecheck
    BY <1>7 DEF Clean, EraseCleaned, Recheck, Commit, At, AfterRecheck
  <2>2. End \/ (Same /\ proc'.outcome = proc.outcome)
    BY <1>7, <1>t, <1>g, <1>c DEF Clean, EraseCleaned, Recheck, Commit, Quits, GivesUp, Progress
  <2> QED
    BY <2>1, <2>2, <1>a, <1>e
<1>8. CASE CleanCache
  <2>1. Same /\ At("cache") /\ proc'.outcome \in {proc.outcome, "failed"}
    BY <1>8, <1>t DEF CleanCache, Progress
  <2> QED
    BY <2>1, <1>a DEF At
<1>9. CASE Fail
  <2>1. Same /\ proc'.outcome # "validated"
    BY <1>9, <1>t DEF Fail, Progress
  <2> QED
    BY <2>1, <1>f
<1>10. CASE SpawnValidator \/ RegisterValidator \/ HandoffValidator \/ AwaitValidator
  <2>1. Same /\ proc'.pc \in {"register", "handoff", "await", "retire"}
    BY <1>10, <1>t DEF SpawnValidator, RegisterValidator, HandoffValidator, AwaitValidator, Goto, Progress
  <2> QED
    BY <2>1, <1>n
<1>11. CASE RetireValidator \/ Lingers
  <2>1. /\ Same /\ proc'.outcome = proc.outcome
        /\ proc'.pc = IF proc.outcome = "validated" THEN "preserved" ELSE "cache"
    BY <1>11, <1>t DEF RetireValidator, Lingers, AfterRetiring, Goto, Progress
  <2> QED
    BY <2>1, <1>n, <1>f
<1>12. CASE Preserved
  <2>1. CASE ~(Intact /\ Untouched)
    BY <1>12, <2>1, <1>o DEF Preserved
  <2>2. CASE Intact /\ Untouched /\ proc.scope = "focused"
    <3>1. proc'.pc = "spawn" /\ proc'.judged = proc.judged \cup {"focused"}
      BY <1>12, <2>2, <1>t DEF Preserved, Faithful, Intact, Untouched, Progress
    <3> QED
      BY <3>1 DEF JudgedInv, AfterRecheck
  <2>3. CASE Intact /\ Untouched /\ proc.scope # "focused"
    <3>1. /\ proc.scope = "authoritative" /\ proc.judged \subseteq Scopes
          /\ proc'.judged = proc.judged \cup {"authoritative"}
      BY <1>12, <2>3, <1>t DEF Preserved, Faithful, Intact, Untouched, Progress, Scopes
    <3> QED
      BY <3>1 DEF JudgedInv, Scopes
  <2> QED
    BY <2>1, <2>2, <2>3
<1>13. CASE Around \/ Killed \/ UNCHANGED vars
  <2>1. proc' = proc
    BY <1>13 DEF Around, SetUpAuthority, ReplaceAuthority, RefLost, RefMoved, RefRestored, RootReplaced,
       RootDeleted, Move, Groups, LooseEnds, CommandWrites, Killed, Beside, vars
  <2> QED
    BY <2>1 DEF JudgedInv, AfterRecheck
<1> QED
  BY <1>1, <1>2, <1>3, <1>4, <1>5, <1>6, <1>7, <1>8, <1>9, <1>10, <1>11, <1>12, <1>13
     DEF Next, Step, Validate, Maintain

\* What the record, the archive and the manifest say of each other.
LEMMA StepSideInv ==
  ASSUME TypeOK, StatusInv, PhaseInv, SideInv, SidecarsFollow, [Next]_vars
  PROVE  SideInv' /\ SidecarsFollow'
<1>v. /\ Verdict \in Terminal
      /\ Terminal \cap {"none", "gone", "received", "validating"} = {}
      /\ rec.intent \in {"none", "keep", "release"}
      /\ rec.status \notin Terminal => rec.intent = "none"
  BY DEF TypeOK, StatusInv, SubmissionRecord, Progress, Verdict, Terminal
<1> USE DEF SideInv, SidecarsFollow, Decided
<1>1. CASE ArchiveWrite
  BY <1>1, <1>v DEF ArchiveWrite, Retired, PhaseInv, At
<1>2. CASE ArchiveDescribe
  BY <1>2, <1>v DEF ArchiveDescribe, Retired, PhaseInv, At
<1>3. CASE WriteManifest
  BY <1>3, <1>v DEF WriteManifest, PhaseInv, At
<1>4. CASE Attest
  BY <1>4, <1>v DEF Attest, Quits, GivesUp, Files, PhaseInv, At
<1>5. CASE ArchiveRemove
  BY <1>5, <1>v DEF ArchiveRemove, Record, Files, Received, Retired, PhaseInv, At
<1>6. CASE UNCHANGED <<archive, manifest, attested>> /\ ~ArchiveRemove
  <2>1. CASE rec'.status = rec.status /\ (rec'.intent = rec.intent \/ rec.intent = "none")
    BY <1>6, <1>v, <2>1
  <2>2. CASE rec.status \notin Terminal \cup {"gone"}
    <3>1. ~archive.archived /\ manifest.status = "none" /\ attested = "none"
      BY <1>v, <2>2
    <3>2. rec'.status # "gone"
      BY <1>6, <1>v, <2>2, RecordMoves DEF Received, Terminal
    <3> QED
      BY <1>6, <3>1, <3>2
  <2> QED
    BY <1>6, <1>v, <2>1, <2>2, RecordMoves DEF Pending
<1> QED
  BY <1>1, <1>2, <1>3, <1>4, <1>5, <1>6, WhoChanges DEF ArchiveRemove, Record, Files

LEMMA StepExplained ==
  ASSUME TypeOK, StatusInv, PhaseInv, SideInv, RefIsExplained, [Next]_vars
  PROVE  RefIsExplained'
<1>v. /\ Verdict \in Terminal
      /\ Terminal \cap {"none", "gone", "received", "validating"} = {}
      /\ rec.intent \in {"none", "keep", "release"}
  BY DEF TypeOK, SubmissionRecord, Progress, Verdict, Terminal
<1>1. CASE ArchiveRemove
  <2>1. /\ archive = Retired /\ (rec.intent = "release" => ref # "ours")
        /\ UNCHANGED <<ref, archive>> /\ rec' = [Received EXCEPT !.status = "gone"]
    BY <1>1 DEF ArchiveRemove, Record, Pinned, Files, PhaseInv, At
  <2>2. rec'.status = "gone" /\ archive.archived /\ (archive.released => rec.intent = "release")
    BY <2>1 DEF Received, Retired
  <2> QED
    BY <2>1, <2>2 DEF RefIsExplained
<1>2. CASE ~ArchiveRemove /\ Active
  <2>1. rec'.status \notin {"none", "gone"}
    BY <1>2, <1>v, RecordMoves DEF Active, Pending
  <2> QED
    BY <2>1 DEF RefIsExplained, Active
<1>3. CASE ~ArchiveRemove /\ ~Active
  <2>1. ~Pin /\ ~Repin /\ ~ArchiveRelease /\ ~ArchiveWrite
    BY <1>3, <1>v, PhaseFacts DEF Active, Pin, Repin, ArchiveRelease, ArchiveWrite, PhaseInv, At
  <2>2. ref' = ref \/ ref' # "ours"
    BY <2>1, WhoChanges DEF RefLost, RefMoved, RefRestored, ChangesRef
  <2>3. archive' = archive
    BY <2>1, WhoChanges
  <2>4. rec'.status = rec.status \/ rec'.status = "received"
    <3>1. rec.status \in {"none", "gone"}
      BY <1>3 DEF Active
    <3>2. rec.status \notin Terminal /\ rec.status \notin Pending
      BY <3>1 DEF Terminal, Pending
    <3>3. Received.status = "received"
      BY DEF Received
    <3> QED
      BY <3>1, <3>2, <3>3, RecordMoves
  <2> QED
    BY <1>3, <2>2, <2>3, <2>4 DEF RefIsExplained, Active
<1> QED
  BY <1>1, <1>2, <1>3

LEMMA StepKeepsTree ==
  ASSUME TypeOK, EraseInv, PhaseInv, CommandsKeepTheirTree, [Next]_vars
  PROVE  CommandsKeepTheirTree'
<1>1. CASE Erasing
  <2>1. \A l \in Launches : ~Alive(l)'
    BY <1>1, WhatIsErased DEF EraseInv, Alive
  <2> QED
    BY <2>1 DEF CommandsKeepTheirTree
<1>2. CASE HandoffValidator
  BY <1>2 DEF HandoffValidator, Local, Tree, PhaseInv, Judging, At, CommandsKeepTheirTree
<1>3. CASE ~HandoffValidator /\ ~Erasing
  <2>1. ASSUME NEW l \in Launches, Alive(l)'
        PROVE  Alive(l)
    BY <1>3, <2>1, WhoStarts
  <2>2. registered => registered'
    BY <1>3, WhoChanges DEF Erasing, Prepare, Add, RootReplaced, RootDeleted, CommandWrites, Kept, Tree
  <2> QED
    BY <2>1, <2>2 DEF CommandsKeepTheirTree
<1> QED
  BY <1>1, <1>2, <1>3

LEMMA StepForeignKept ==
  ASSUME TypeOK, StatusInv, ForeignInv, [Next]_vars, root.fill = "foreign", moves' = moves, root' # root
  PROVE  proc.pc \in ErasePhases /\ proc.seen # NoInode /\ Newcomer
<1>1. Newcomer
  BY DEF ForeignInv, Foreign, Newcomer
<1>2. ~Prepare /\ ~Add /\ ~CommandWrites
  BY AbsentRoot DEF Prepare, Add, CommandWrites, Tree, Foreign
<1>3. ~RootReplaced /\ ~RootDeleted
  <2>1. moves' # moves + 1
    BY SubmissionAssumption DEF TypeOK, SubmissionAssumption
  <2> QED
    BY <2>1 DEF RootReplaced, RootDeleted, Move
<1>4. Erasing
  BY <1>2, <1>3, WhoChanges DEF Erasing
<1> QED
  BY <1>1, <1>4, WhatIsErased

\* The inductive invariant.
IInv ==
    /\ TypeOK /\ GuardInv
    /\ StatusInv /\ PhaseInv /\ AuthorityInv /\ LossInv /\ JudgedInv /\ ForeignInv /\ EraseInv
    /\ SideInv
    /\ CommandsKeepTheirTree /\ WorktreeIsBound /\ RefIsExplained /\ SidecarsFollow

LEMMA InitIInv ==
  ASSUME SubmissionAssumption, Init
  PROVE  IInv
<1>1. TypeOK /\ GuardInv
  BY InitTypeOK, GuardInitInv DEF Init
<1>2. /\ rec.status = "none" /\ ~rec.tree /\ rec.inode = NoInode /\ rec.intent = "none"
      /\ root.inode = NoInode /\ root.fill = "none" /\ ~registered
      /\ archive.status = "none" /\ ~archive.archived /\ manifest.status = "none" /\ attested = "none"
      /\ proc.pc = "idle" /\ proc.scope = "focused" /\ authority = "none" /\ history = {}
      /\ ref = "missing"
  BY IdleProgress DEF Init, Received, Absent, NoFile
<1>3. StatusInv /\ LossInv /\ ForeignInv /\ SideInv /\ RefIsExplained /\ SidecarsFollow /\ WorktreeIsBound
  BY <1>2 DEF StatusInv, NothingLeft, Occupied, LossInv, ForeignInv, Foreign, SideInv, RefIsExplained, SidecarsFollow,
     WorktreeIsBound
<1>4. PhaseInv /\ AuthorityInv /\ JudgedInv /\ EraseInv
  BY <1>2 DEF PhaseInv, ValidatePhases, Judging, AfterRecheck, At, AuthorityInv, JudgedAsReceived,
     JudgedInv, EraseInv, ErasePhases
<1>5. CommandsKeepTheirTree
  BY DEF Init, GuardInit, CommandsKeepTheirTree, Alive
<1> QED
  BY <1>1, <1>3, <1>4, <1>5 DEF IInv

LEMMA StepIInv ==
  ASSUME SubmissionAssumption, IInv, [Next]_vars
  PROVE  IInv'
<1> USE DEF IInv
<1>1. TypeOK' /\ StatusInv' /\ PhaseInv'
  BY StepTypeOK, StepStatusInv, StepPhaseInv
<1>2. GuardInv'
  <2>1. GuardTypeOK /\ proc.launch \in Launches
    BY DEF TypeOK, Progress
  <2> QED
    BY <2>1, GuardsAreUsed, GuardStepInv
<1>3. AuthorityInv' /\ LossInv'
  BY StepAuthorityInv, StepLossInv
<1>4. JudgedInv' /\ ForeignInv' /\ EraseInv'
  BY StepJudgedInv, StepForeignInv, StepEraseInv
<1>5. SideInv' /\ SidecarsFollow' /\ RefIsExplained'
  BY StepSideInv, StepExplained
<1>6. CommandsKeepTheirTree' /\ WorktreeIsBound'
  BY StepKeepsTree, StepBound
<1> QED
  BY <1>1, <1>2, <1>3, <1>4, <1>5, <1>6

LEMMA Invariance == Spec => []IInv
<1>1. Init => IInv
  BY SubmissionAssumption, InitIInv
<1>2. IInv /\ [Next]_vars => IInv'
  BY SubmissionAssumption, StepIInv
<1> QED
  BY <1>1, <1>2, PTL DEF Spec

\* Every variable keeps its type, whatever the commands, moves and faults, however many they are.
THEOREM TypeCorrect == Spec => []TypeOK
<1>1. IInv => TypeOK
  BY DEF IInv
<1> QED
  BY <1>1, Invariance, PTL

\* The submission runs its validators by the protocol of the execution guards, and by nothing
\* else: every step of it is a step of ExecutionGuard or leaves the groups as they are.
THEOREM UsesGuards == Spec => GuardSpec
<1>1. Init => GuardInit
  BY DEF Init
<1>2. IInv /\ [Next]_vars => [GuardNext]_guardVars
  BY GuardsAreUsed DEF IInv, TypeOK, Progress
<1> QED
  BY <1>1, <1>2, Invariance, PTL DEF Spec, GuardSpec

\* Hence no command of an earlier broker runs beside one that works on the submission.
THEOREM QuietSubmission == Spec => []QuietWhileLocked
  BY UsesGuards, QuietInside, PTL

\* The broker does not remove the worktree while a command may still run in it: it asks for the
\* groups that the guard files name, and a command that runs has one.
THEOREM TreeIsKept == Spec => []CommandsKeepTheirTree
<1>1. IInv => CommandsKeepTheirTree
  BY DEF IInv
<1> QED
  BY <1>1, Invariance, PTL

\* A success is not recorded for a candidate whose ref had to be created again, nor unless each set
\* of validators ended with the candidate's bytes in the prepared directory, and a validation goes
\* on only under the authority the candidate was received under.
THEOREM HonestVerdict == Spec => []VerdictIsHonest
<1>1. IInv => VerdictIsHonest
  BY DEF IInv, LossInv, AuthorityInv, JudgedInv, AfterRecheck, VerdictIsHonest, LossIsRemembered, JudgedItsBytes,
         Concluding
<1> QED
  BY <1>1, Invariance, PTL

\* A broker-owned ref always has a record, or the archive of one that kept it.
THEOREM ExplainedRef == Spec => []RefIsExplained
<1>1. IInv => RefIsExplained
  BY DEF IInv
<1> QED
  BY <1>1, Invariance, PTL

\* What the broker left at the path of the worktree has the inode on record, whenever the process
\* stops, unless the prepared directory was taken away before Git filled the path.
THEOREM BoundWorktree == Spec => []WorktreeIsBound
<1>1. IInv => WorktreeIsBound
  BY DEF IInv
<1> QED
  BY <1>1, Invariance, PTL

\* The manifest, the archived record and an attestation agree with what the record decided.
THEOREM SidecarsAgree == Spec => []SidecarsFollow
<1>1. IInv => SidecarsFollow
  BY DEF IInv
<1> QED
  BY <1>1, Invariance, PTL

\* A step of the broker changes a directory at the path of the worktree that is not its own only
\* when it replaced one that a removal under way had checked.
THEOREM ForeignKept == Spec => ForeignIsKept
<1>1. IInv /\ [Next]_vars =>
        [root.fill = "foreign" /\ moves' = moves /\ root' # root =>
           proc.pc \in ErasePhases /\ proc.seen # NoInode /\ Newcomer]_vars
  BY StepForeignKept DEF IInv
<1> QED
  BY <1>1, Invariance, PTL DEF Spec, ForeignIsKept
=============================================================================
