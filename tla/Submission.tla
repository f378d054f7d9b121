----------------------------- MODULE Submission -----------------------------
(***************************************************************************)
(* One candidate submission of the Gate from adoption to its archive       *)
(* (src/src/submission.ts, src/src/submission-retention.ts, and the        *)
(* retained ref and the raw worktree of src/src/git.ts), on top of the     *)
(* execution guards.  A command holds the Gate authority lock and the      *)
(* integration lock, so one process, `proc`, works at a time; it may stop  *)
(* between any two of its steps, and the ref, the directory of the         *)
(* worktree and the validators change under it, and change back.  A        *)
(* transaction, a Git command or a file written is one step; what was      *)
(* checked before it is another.                                           *)
(*                                                                         *)
(* A directory is known by its inode.  The inode of a deleted directory is *)
(* not given to another as long as the record or the process remembers it. *)
(***************************************************************************)
EXTENDS ExecutionGuard

CONSTANTS
    Commands,   \* the commands that are given
    Moves,      \* what happens to the ref, the directory and the authority meanwhile
    MaxMoves,   \* bound: moves in a behaviour
    MaxFaults   \* bound: processes stopped, supervisors killed, calls that fail

AllCommands == {"adopt", "recover", "abandon", "archive", "attest"}
AllMoves == {"ref lost", "ref moved", "ref restored", "root replaced", "root deleted",
             "authority replaced"}

ASSUME SubmissionAssumption ==
    /\ Commands \subseteq AllCommands
    /\ Moves \subseteq AllMoves
    /\ MaxMoves \in Nat /\ MaxFaults \in Nat
    /\ Launches \subseteq Nat /\ Launches # {}

\* At most five inodes are remembered at a time.
NoInode == 0
Inode == 1..6

Pending == {"received", "validating"}
Terminal == {"validated", "rejected", "failed", "abandoned"}

\* The submission record: `tree` and `inode` are worktree and worktreeIdentity,
\* `retained` and `compromised` the times retention was established and lost,
\* `intent` the archiveIntent.  "gone" is a record that was retired.
SubmissionRecord ==
    [status : {"none", "gone"} \cup Pending \cup Terminal, tree : BOOLEAN,
     inode : {NoInode} \cup Inode, retained : BOOLEAN, compromised : BOOLEAN,
     intent : {"none", "keep", "release"}]
Received == [status |-> "received", tree |-> FALSE, inode |-> NoInode,
             retained |-> FALSE, compromised |-> FALSE, intent |-> "none"]

\* A sidecar file: the manifest, or the archived record.
NoFile == [status |-> "none", archived |-> FALSE, released |-> FALSE]
Sidecar == [status : {"none"} \cup Terminal, archived : BOOLEAN, released : BOOLEAN]

Absent == [inode |-> NoInode, fill |-> "none"]

VARIABLES
    authority,   \* the Gate authority registered: "none", "recorded" with the submission, "other"
    rec,         \* the record in state.json
    ref,         \* the retained ref: see InPlace
    root,        \* the directory at the path of the worktree: see Fills
    registered,  \* Git has an administration entry for that path
    manifest,    \* the manifest file
    archive,     \* the archived record
    attested,    \* the status that was signed, or "none"
    proc,        \* local variables of the command inside the locks
    history,     \* "repaired": the broker re-created the ref it had retained; "remade": Git
                 \* filled another directory than the one the broker had prepared
    moves,       \* moves made so far
    faults       \* faults so far

vars == <<phase, guards, linked, inside, authority, rec, ref, root, registered, manifest, archive,
          attested, proc, history, moves, faults>>

\* `old` is the inode the snapshot named, `mine` that of the root prepared by this
\* process, `added` that it prepared one, `seen` the inode that a removal checked,
\* `scope` the validators under way, `from` the step that found the ref missing,
\* `launch` the last process group started, `judged` (history) the scopes that ended
\* with the candidate's bytes in the directory the broker had prepared.
ValidatePhases == {"start", "pin", "journal", "repin", "confirm", "retain", "sweep", "eraseSwept",
                   "forget", "prepare", "own", "add", "capture", "spawn", "register", "handoff",
                   "await", "retire", "preserved", "cache", "clean", "eraseCleaned", "recheck",
                   "commit", "terminal", "manifest"}
Phases == {"idle", "adopt", "recover", "abandon", "cleanup", "eraseAbandoned", "clear", "intend",
           "release", "archive", "describe", "remove", "attest"} \cup ValidatePhases
Scopes == {"focused", "authoritative"}
Progress == [pc : Phases, old : {NoInode} \cup Inode, mine : {NoInode} \cup Inode,
             added : BOOLEAN, seen : {NoInode} \cup Inode,
             outcome : {"validated", "rejected", "failed"},
             scope : Scopes, from : {"pin", "recheck"},
             launch : Launches, judged : SUBSET Scopes]
Idle == [pc |-> "idle", old |-> NoInode, mine |-> NoInode, added |-> FALSE, seen |-> NoInode,
         outcome |-> "validated", scope |-> "focused", from |-> "pin",
         launch |-> CHOOSE l \in Launches : TRUE, judged |-> {}]

Init ==
    /\ GuardInit
    /\ authority = "none"
    /\ rec = [Received EXCEPT !.status = "none"]
    /\ ref = "missing"
    /\ root = Absent
    /\ registered = FALSE
    /\ manifest = NoFile
    /\ archive = NoFile
    /\ attested = "none"
    /\ proc = Idle
    /\ history = {}
    /\ moves = 0
    /\ faults = 0

-----------------------------------------------------------------------------
At(pc) == proc.pc = pc
Goto(pc) == proc' = [proc EXCEPT !.pc = pc]
End == proc' = Idle /\ Leave

Surroundings == UNCHANGED <<authority, moves, faults>>
World == Surroundings /\ UNCHANGED history
Files == UNCHANGED <<manifest, archive, attested>>
Tree == UNCHANGED <<root, registered>>
Inside == UNCHANGED guardVars
Pinned == UNCHANGED ref

\* A transaction.
Record(r) == rec' = r /\ Pinned /\ Tree /\ Files /\ World

\* An error in the part of validateLocked that catches them, and after it.
Caught(outcome) == proc' = [proc EXCEPT !.pc = "cache", !.outcome = outcome]
Quits == End /\ UNCHANGED <<rec, ref>> /\ Files /\ World
GivesUp == Quits /\ Tree

\* The retained ref points to the candidate: the broker's own ("ours"), or one that
\* somebody else created ("copy"), which it cannot tell apart.
InPlace == ref \in {"ours", "copy"}

\* Nothing; an empty directory; Git's checkout, as Git made it or changed since;
\* somebody else's directory, and that with a .git marker the broker wrote into it.
Fills == {"none", "empty", "ours", "changed", "foreign", "marked"}
Foreign == {"foreign", "marked"}
Remembered == {root.inode, rec.inode, proc.old, proc.mine, proc.seen}
Fresh == CHOOSE i \in Inode :
            /\ i \notin Remembered
            /\ \A j \in Inode : j \notin Remembered => i <= j
Make(fill, inode) == root' = [inode |-> inode, fill |-> fill]

-----------------------------------------------------------------------------
(* Faults: one thing wrong each, for what the properties must catch; not   *)
(* part of the specification.                                              *)

GuardsNotAsked == TRUE
AnyRoot(E) == TRUE
AdoptPinned == /\ "adopt" \in Commands /\ authority # "none"
               /\ At("idle") /\ rec.status = "none"
               /\ Enter /\ Goto("adopt")
               /\ ref' = "ours"
               /\ UNCHANGED rec /\ Tree /\ Files /\ World
Unjournalled == "repin"
NotForgotten == rec
NotOwned == rec
AnyIntent(intent) == TRUE
OnlyIfThere == ref = "ours"

-----------------------------------------------------------------------------
(* Removing the worktree.  E is the inode it must have, or NoInode.        *)

\* Which directory may be deleted: the one bound to the record; without a bound
\* inode an empty one, or a registered one that is as Git made it.
MayDelete(E) ==
    IF E # NoInode THEN root.inode \in {NoInode, E}
    ELSE root.fill \in {"none", "empty"} \/ (registered /\ root.fill = "ours")

\* removeWorktree asks for the guards first, looks at what is at the path, and later
\* removes it by its path.
StoppedFirst == AllStopped
MayRemove(E) == StoppedFirst /\ MayDelete(E)
Checked(next) ==
    /\ Asked /\ UNCHANGED <<phase, linked, inside>>
    /\ proc' = [proc EXCEPT !.pc = next, !.seen = root.inode]

\* removeWorktreeIfPresent leaves a path alone that is neither there nor registered.
NothingThere == root = Absent /\ ~registered

\* Something took the place of the directory that was checked.
Newcomer == root.inode \notin {NoInode, proc.seen}

\* Of a path that was empty the registration alone is removed.  An unregistered root is
\* removed recursively, whatever it is by then, if an inode was bound to it; `git
\* worktree remove` puts up with a missing directory.
Erased(E) ==
    /\ IF proc.seen = NoInode
       THEN UNCHANGED root
       ELSE /\ \/ root.inode = proc.seen
               \/ registered /\ root = Absent
               \/ ~registered /\ E # NoInode /\ Newcomer
            /\ root' = Absent
    /\ registered' = FALSE

\* The directory is not there any more; Git does not take a newcomer for its worktree,
\* and the repair writes the marker into it before it sees the inode; rmdir does not
\* remove what is not empty.
EraseRefused(E) ==
    /\ proc.seen # NoInode
    /\ \/ root = Absent /\ UNCHANGED root
       \/ Newcomer /\ registered /\ root' = [root EXCEPT !.fill = "marked"]
       \/ Newcomer /\ ~registered /\ E = NoInode /\ UNCHANGED root
    /\ UNCHANGED registered

-----------------------------------------------------------------------------
(* Adoption and recovery of a pending submission: validateLocked.          *)

\* adopt: the record is durable before anything is pinned.
Registered == authority # "none"
AdoptStart == /\ "adopt" \in Commands /\ Registered
              /\ At("idle") /\ rec.status = "none"
              /\ Enter /\ Goto("adopt")
              /\ UNCHANGED <<rec, ref>> /\ Tree /\ Files /\ World
Adopt == /\ At("adopt")
         /\ Record(Received)
         /\ Goto("start") /\ Inside

Start == /\ At("start")
         /\ Record([rec EXCEPT !.status = "validating", !.tree = TRUE])
         /\ proc' = [proc EXCEPT !.pc = "pin", !.old = rec.inode]
         /\ Inside

\* pinLocalRef creates the ref, or finds it as it should be; it never repairs a wrong one.
PinRef == ref' = IF ref = "missing" THEN "ours" ELSE ref

\* retainPinnedLocalRef, once retention was on record, wants a missing ref journalled
\* before it is pinned again, and looks at it once more then.
FirstMissing == "journal"
Pin == /\ At("pin")
       /\ \/ ~rec.retained /\ ref # "wrong" /\ PinRef /\ Goto("retain")
          \/ rec.retained /\ InPlace /\ Pinned /\ Goto("sweep")
          \/ /\ rec.retained /\ ref = "missing" /\ Pinned
             /\ proc' = [proc EXCEPT !.pc = FirstMissing, !.from = "pin"]
          \/ ref = "wrong" /\ Pinned /\ Caught("failed")
       /\ Inside /\ UNCHANGED rec /\ Tree /\ Files /\ World

Journal == /\ At("journal")
           /\ Record([rec EXCEPT !.compromised = TRUE])
           /\ Goto("repin") /\ Inside

\* The error of a repair is caught in the first place, and ends the command in the second.
RepairFails == IF proc.from = "pin" THEN Caught("failed") /\ Inside ELSE End
Repin == /\ At("repin")
         /\ PinRef
         /\ IF ref = "wrong" THEN RepairFails ELSE Goto("confirm") /\ Inside
         /\ history' = IF ref = "missing" THEN history \cup {"repaired"} ELSE history
         /\ UNCHANGED rec /\ Tree /\ Files /\ Surroundings
Confirm == /\ At("confirm")
           /\ IF InPlace THEN Goto(IF proc.from = "pin" THEN "sweep" ELSE "commit") /\ Inside
                         ELSE RepairFails
           /\ UNCHANGED <<rec, ref>> /\ Tree /\ Files /\ World

Retain == /\ At("retain")
          /\ Record([rec EXCEPT !.retained = TRUE])
          /\ Goto("sweep") /\ Inside

\* What an earlier run left at the path goes first.
Sweep == /\ At("sweep")
         /\ \/ NothingThere /\ Goto("forget") /\ Inside
            \/ ~NothingThere /\ MayRemove(proc.old) /\ Checked("eraseSwept")
            \/ ~NothingThere /\ ~MayRemove(proc.old) /\ Caught("failed") /\ Inside
         /\ UNCHANGED <<rec, ref>> /\ Tree /\ Files /\ World
EraseSwept == /\ At("eraseSwept")
              /\ \/ Erased(proc.old) /\ Goto("forget")
                 \/ EraseRefused(proc.old) /\ Caught("failed")
              /\ Inside /\ UNCHANGED <<rec, ref>> /\ Files /\ World

Forgotten == [rec EXCEPT !.inode = NoInode]
Forget == /\ At("forget")
          /\ Record(Forgotten)
          /\ Goto("prepare") /\ Inside

\* prepareRawWorktreeRoot makes the directory or takes an empty one.
Prepare == /\ At("prepare")
           /\ \/ /\ root = Absent
                 /\ Make("empty", Fresh)
                 /\ proc' = [proc EXCEPT !.pc = "own", !.added = TRUE, !.mine = Fresh]
              \/ /\ root.fill = "empty" /\ UNCHANGED root
                 /\ proc' = [proc EXCEPT !.pc = "own", !.added = TRUE, !.mine = root.inode]
              \/ /\ root.fill \in {"ours", "changed"} \cup Foreign /\ UNCHANGED root
                 /\ Caught("failed")
           /\ Inside /\ UNCHANGED <<rec, ref, registered>> /\ Files /\ World

\* The inode is on record before Git registers the path.
Owned == [rec EXCEPT !.inode = proc.mine]
Own == /\ At("own")
       /\ Record(Owned)
       /\ Goto("add") /\ Inside

\* addRawDetachedWorktree prepares the path once more, registers and fills it.
Add == /\ At("add")
       /\ IF root.fill \in Foreign
          THEN Tree /\ Caught("failed") /\ UNCHANGED history
          ELSE /\ Make("ours", IF root = Absent THEN Fresh ELSE root.inode)
               /\ registered' = TRUE
               /\ history' = IF root = Absent THEN history \cup {"remade"} ELSE history
               /\ Goto("capture")
       /\ Inside /\ UNCHANGED <<rec, ref>> /\ Files /\ Surroundings

\* gateWorktreeIdentity: the root must still be the one prepared.
Intact == registered /\ root.inode = proc.mine
\* assertRawWorktree: HEAD, the index and every file are those of the candidate.
Untouched == root.fill = "ours"
Faithful == Intact /\ root.fill = "ours"
Capture == /\ At("capture")
           /\ IF Intact THEN Goto("spawn") ELSE Caught("failed")
           /\ Inside /\ UNCHANGED <<rec, ref>> /\ Tree /\ Files /\ World

Local == UNCHANGED <<rec, ref>> /\ Tree /\ Files /\ World

SpawnValidator == /\ At("spawn")
                  /\ \E l \in Launches :
                        /\ Spawn(l)
                        /\ \A k \in Launches : Finished(k) /\ k \notin guards => l <= k
                        /\ proc' = [proc EXCEPT !.pc = "register", !.launch = l]
                  /\ Local

RegisterValidator == /\ At("register")
                     /\ Register(proc.launch)
                     /\ Goto("handoff") /\ Local

\* A supervisor that is gone takes no command: the launch fails.
HandoffValidator == /\ At("handoff")
                    /\ \/ Handoff(proc.launch) /\ Goto("await")
                       \/ /\ Finished(proc.launch) /\ Inside
                          /\ proc' = [proc EXCEPT !.pc = "retire", !.outcome = "failed"]
                    /\ Local

\* A validator passes, or it exits with an error or times out: a rejection.  A
\* supervisor gone without a result is a failure.
AwaitValidator ==
    /\ At("await")
    /\ \/ /\ Report(proc.launch)
          /\ \E outcome \in {"validated", "rejected"} :
                proc' = [proc EXCEPT !.pc = "retire", !.outcome = outcome]
       \/ /\ OwnerKills(proc.launch) \/ (Finished(proc.launch) /\ Inside)
          /\ proc' = [proc EXCEPT !.pc = "retire", !.outcome = "failed"]
    /\ Local

AfterRetiring == Goto(IF proc.outcome = "validated" THEN "preserved" ELSE "cache")
RetireValidator == /\ At("retire") /\ Finished(proc.launch)
                   /\ Retire(proc.launch)
                   /\ AfterRetiring /\ Local

\* assertValidatorPreservedCandidate, after the focused and the authoritative ones.
Preserved ==
    /\ At("preserved")
    /\ IF ~(Intact /\ Untouched) THEN Caught("rejected")
       ELSE IF proc.scope = "focused"
            THEN proc' = [proc EXCEPT !.pc = "spawn", !.scope = "authoritative",
                                      !.judged = IF Faithful THEN @ \cup {"focused"} ELSE @]
            ELSE proc' = [proc EXCEPT !.pc = "cache",
                                      !.judged = IF Faithful THEN @ \cup {"authoritative"} ELSE @]
    /\ Inside /\ Local

\* The cache is not removed under a command that may still run.
CleanCache ==
    /\ At("cache")
    /\ IF AllStopped THEN Asked ELSE UNCHANGED guards
    /\ proc' = [proc EXCEPT !.pc = "clean",
                    !.outcome = IF @ = "validated" /\ ~AllStopped THEN "failed" ELSE @]
    /\ UNCHANGED <<phase, linked, inside>> /\ Local

\* Cleanup is part of the verdict: refused, the record stays validating.
Bound == IF proc.added THEN proc.mine ELSE proc.old
Clean == /\ At("clean")
         /\ \/ ~proc.added /\ NothingThere /\ Goto("recheck") /\ Inside /\ Local
            \/ (proc.added \/ ~NothingThere) /\ MayRemove(Bound) /\ Checked("eraseCleaned") /\ Local
            \/ (proc.added \/ ~NothingThere) /\ ~MayRemove(Bound) /\ GivesUp
EraseCleaned == /\ At("eraseCleaned")
                /\ \/ /\ Erased(Bound) /\ Goto("recheck") /\ Inside
                      /\ UNCHANGED <<rec, ref>> /\ Files /\ World
                   \/ EraseRefused(Bound) /\ Quits

Recheck == /\ At("recheck")
           /\ \/ InPlace /\ Goto("commit") /\ Inside /\ Local
              \/ /\ ref = "missing" /\ Inside /\ Local
                 /\ proc' = [proc EXCEPT !.pc = FirstMissing, !.from = "recheck"]
              \/ ref = "wrong" /\ GivesUp

\* The terminal transaction reads the ref as its last external fact, and then replaces
\* the state.
StillPinned == InPlace
Commit == /\ At("commit")
          /\ \/ StillPinned /\ Goto("terminal") /\ Inside /\ Local
             \/ ~StillPinned /\ GivesUp
Verdict == IF rec.compromised /\ proc.outcome = "validated" THEN "failed" ELSE proc.outcome
Conclude == /\ At("terminal")
            /\ Record([rec EXCEPT !.status = Verdict, !.tree = FALSE, !.inode = NoInode])
            /\ Goto("manifest") /\ Inside

WriteManifest ==
    /\ At("manifest")
    /\ manifest' = [status |-> rec.status, archived |-> FALSE, released |-> FALSE]
    /\ End
    /\ UNCHANGED <<rec, ref, archive, attested>> /\ Tree /\ World

Validate ==
    \/ Adopt \/ Start \/ Pin \/ Journal \/ Repin \/ Confirm \/ Retain \/ Sweep \/ EraseSwept
    \/ Forget \/ Prepare \/ Own \/ Add \/ Capture \/ SpawnValidator \/ RegisterValidator
    \/ HandoffValidator \/ AwaitValidator \/ RetireValidator \/ Preserved \/ CleanCache \/ Clean
    \/ EraseCleaned \/ Recheck \/ Commit \/ Conclude \/ WriteManifest

-----------------------------------------------------------------------------
(* recover: interrupted maintenance first, then the manifest of a terminal *)
(* record, then a pending submission.  Maintenance that fails is a warning.*)

Unclean == rec.tree \/ rec.inode # NoInode
RecoverStart == /\ "recover" \in Commands
                /\ At("idle") /\ rec.status \notin {"none", "gone"}
                /\ Enter /\ Goto("recover")
                /\ Local
ManifestDue == rec.status \in Terminal /\ ~rec.tree /\ rec.intent = "none"
\* A pending submission waits for the authority that it was received under.
SameAuthority == authority = "recorded"
Recover ==
    /\ At("recover")
    /\ \/ /\ rec.status \in Pending => SameAuthority
          /\ Goto(IF rec.intent # "none" THEN "release"
                  ELSE IF rec.status = "abandoned" /\ Unclean THEN "cleanup"
                  ELSE IF ManifestDue THEN "manifest" ELSE "start")
          /\ Inside /\ Local
       \/ rec.status \in Pending /\ ~SameAuthority /\ GivesUp

-----------------------------------------------------------------------------
(* abandon: the decision is durable before anything is cleaned up.         *)

MayAbandon == rec.status \in Pending \cup {"abandoned"}
AbandonStart == /\ "abandon" \in Commands
                /\ At("idle") /\ MayAbandon
                /\ Enter /\ Goto("abandon")
                /\ Local
Abandon == /\ At("abandon")
           /\ Record([rec EXCEPT !.status = "abandoned"])
           /\ Goto("cleanup") /\ Inside

CleanupAbandoned ==
    /\ At("cleanup")
    /\ \/ ~rec.tree /\ Goto("clear") /\ Inside /\ Local
       \/ rec.tree /\ MayRemove(rec.inode) /\ Checked("eraseAbandoned") /\ Local
       \/ rec.tree /\ ~MayRemove(rec.inode) /\ GivesUp
EraseAbandoned ==
    /\ At("eraseAbandoned")
    /\ \/ /\ Erased(rec.inode) /\ Goto("clear") /\ Inside
          /\ UNCHANGED <<rec, ref>> /\ Files /\ World
       \/ EraseRefused(rec.inode) /\ Quits
ClearAbandoned == /\ At("clear")
                  /\ Record([rec EXCEPT !.tree = FALSE, !.inode = NoInode])
                  /\ Goto("manifest") /\ Inside

-----------------------------------------------------------------------------
(* archive: the decision to keep or release the ref is captured first.     *)

Retirable == rec.status \in Terminal /\ ~Unclean
ArchiveStart == /\ "archive" \in Commands
                /\ At("idle") /\ Retirable
                /\ Enter /\ Goto("intend")
                /\ Local
\* A decision on record is not replaced by another.
MayIntend(intent) == rec.intent \in {"none", intent}
ArchiveIntend ==
    /\ At("intend")
    /\ \E intent \in {"keep", "release"} :
          IF MayIntend(intent)
          THEN Record([rec EXCEPT !.intent = intent]) /\ Goto("release") /\ Inside
          ELSE GivesUp

\* releasePinnedLocalRef takes a ref that is gone for released; a ref to be kept
\* must be there.
Releasable == ref # "wrong"
ArchiveRelease ==
    /\ At("release")
    /\ IF rec.intent = "release" /\ Releasable
       THEN /\ ref' = "missing"
            /\ Goto("archive") /\ Inside /\ UNCHANGED rec /\ Tree /\ Files /\ World
       ELSE IF rec.intent = "keep" /\ InPlace
            THEN Goto("archive") /\ Inside /\ Local
            ELSE GivesUp

Retired == [status |-> rec.status, archived |-> TRUE, released |-> rec.intent = "release"]
ArchiveWrite == /\ At("archive")
                /\ archive' = Retired
                /\ Goto("describe")
                /\ Inside /\ UNCHANGED <<rec, ref, manifest, attested>> /\ Tree /\ World
ArchiveDescribe == /\ At("describe")
                   /\ manifest' = Retired
                   /\ Goto("remove")
                   /\ Inside /\ UNCHANGED <<rec, ref, archive, attested>> /\ Tree /\ World
ArchiveRemove == /\ At("remove")
                 /\ Record([Received EXCEPT !.status = "gone"])
                 /\ End

-----------------------------------------------------------------------------
(* attest: a verdict is signed while its candidate is retained.            *)

Attestable == /\ rec.status \in Terminal \ {"abandoned"}
              /\ rec.intent = "none" /\ ~Unclean
              /\ SameAuthority /\ StillPinned
AttestStart == /\ "attest" \in Commands
               /\ At("idle") /\ Attestable
               /\ Enter /\ Goto("attest")
               /\ Local
Attest == /\ At("attest")
          /\ \/ /\ StillPinned
                /\ attested' = rec.status
                /\ End
                /\ UNCHANGED <<rec, ref, manifest, archive>> /\ Tree /\ World
             \/ ~StillPinned /\ GivesUp

Maintain == \/ Recover \/ Abandon \/ CleanupAbandoned \/ EraseAbandoned \/ ClearAbandoned
            \/ ArchiveIntend \/ ArchiveRelease \/ ArchiveWrite \/ ArchiveDescribe
            \/ ArchiveRemove \/ Attest

-----------------------------------------------------------------------------
(* What happens around the commands.                                       *)

Active == rec.status \notin {"none", "gone"}
Move(name) == /\ name \in Moves /\ moves < MaxMoves /\ moves' = moves + 1
              /\ Active
              /\ UNCHANGED <<phase, guards, linked, inside, rec, proc, manifest, archive, attested, faults>>
ChangesRef(new) == ref' = new /\ UNCHANGED <<authority, history>> /\ Tree
RefLost == Move("ref lost") /\ ref # "missing" /\ ChangesRef("missing")
RefMoved == Move("ref moved") /\ ref # "wrong" /\ ChangesRef("wrong")
\* Whoever deleted or moved the ref puts it back.
RefRestored == Move("ref restored") /\ ~InPlace /\ ChangesRef("copy")
\* Another directory, with something in it, takes the place of the worktree.
RootReplaced == /\ Move("root replaced") /\ root.fill \notin Foreign
                /\ Make("foreign", Fresh)
                /\ UNCHANGED <<authority, ref, history, registered>>
RootDeleted == /\ Move("root deleted") /\ root # Absent
               /\ root' = Absent
               /\ UNCHANGED <<authority, ref, history, registered>>

\* candidate authority setup, under the Gate authority lock: a registration is created
\* once, and then replaced on request only.
GateAuthorityFree == ~inside
SetUpAuthority == /\ ~Registered /\ GateAuthorityFree
                  /\ authority' = "recorded"
                  /\ UNCHANGED <<phase, guards, linked, inside, rec, ref, root, registered,
                                 manifest, archive, attested, proc, history, moves, faults>>
ReplaceAuthority == /\ Move("authority replaced") /\ GateAuthorityFree
                    /\ authority' \in {"recorded", "other"} \ {authority}
                    /\ UNCHANGED <<ref, root, registered, history>>

Kept == UNCHANGED <<authority, rec, ref, registered, manifest, archive, attested, history, moves>>
Beside == Kept /\ UNCHANGED <<root, proc>>
Groups == /\ \E l \in Launches : SupervisorStops(l) \/ GroupEmpties(l)
          /\ Beside /\ UNCHANGED faults
LooseEnds == /\ \E l \in Launches : CommandEnds(l)
             /\ Beside /\ UNCHANGED faults

\* A command writes in its worktree, and restores what it had changed.
CommandWrites == /\ \E l \in Launches : Alive(l)
                 /\ \/ root.fill = "ours" /\ root' = [root EXCEPT !.fill = "changed"]
                    \/ root.fill = "changed" /\ root' = [root EXCEPT !.fill = "ours"]
                 /\ Kept /\ UNCHANGED proc /\ UNCHANGED guardVars /\ UNCHANGED faults

Fault == faults < MaxFaults /\ faults' = faults + 1
Killed == Fault /\ \E l \in Launches : SupervisorKilled(l) /\ Beside

\* A group outlasts every attempt to retire it (a second): its guard file stays.
Lingers == /\ Fault /\ At("retire") /\ ~Finished(proc.launch)
           /\ Retire(proc.launch)
           /\ AfterRetiring
           /\ Kept /\ UNCHANGED root

\* The process stops; what it did stands.
Stop == /\ Fault /\ proc.pc # "idle"
        /\ proc' = Idle /\ Leave
        /\ Kept /\ UNCHANGED root

\* A call fails where validateLocked catches it: no space, no Git, no object.
Catching == {"pin", "journal", "repin", "confirm", "retain", "sweep", "eraseSwept", "forget",
             "prepare", "own", "add", "capture", "spawn", "preserved", "cache"}
Fail == /\ Fault /\ proc.pc \in Catching
        /\ proc.pc \in {"journal", "repin", "confirm"} => proc.from = "pin"
        /\ proc' = [proc EXCEPT !.pc = IF @ = "cache" THEN "clean" ELSE "cache",
                                !.outcome = IF @ = "rejected" THEN @ ELSE "failed"]
        /\ Inside
        /\ Kept /\ UNCHANGED root

Command == AdoptStart \/ RecoverStart \/ AbandonStart \/ ArchiveStart \/ AttestStart
Step == Validate \/ Maintain
Around == \/ SetUpAuthority \/ ReplaceAuthority
          \/ RefLost \/ RefMoved \/ RefRestored \/ RootReplaced \/ RootDeleted \/ Groups
          \/ LooseEnds \/ CommandWrites

Next == Command \/ Step \/ Around \/ Killed \/ Lingers \/ Stop \/ Fail

Spec == Init /\ [][Next]_vars

\* A command that started goes on; process groups that were sent SIGKILL, and
\* supervisors that lost their broker, stop; recovery is run again and again.
FairSpec == /\ Spec
            /\ WF_vars(Step)
            /\ \A l \in Launches : WF_vars(SupervisorStops(l) /\ Beside /\ UNCHANGED faults)
            /\ \A l \in Launches : WF_vars(GroupEmpties(l) /\ Beside /\ UNCHANGED faults)
            /\ SF_vars(RecoverStart)

-----------------------------------------------------------------------------
TypeOK ==
    /\ GuardTypeOK
    /\ authority \in {"none", "recorded", "other"}
    /\ rec \in SubmissionRecord
    /\ ref \in {"missing", "ours", "copy", "wrong"}
    /\ root \in [inode : {NoInode} \cup Inode, fill : Fills]
    /\ registered \in BOOLEAN
    /\ manifest \in Sidecar /\ archive \in Sidecar
    /\ attested \in {"none"} \cup Terminal
    /\ proc \in Progress
    /\ history \subseteq {"repaired", "remade"}
    /\ inside = ~At("idle")
    /\ moves \in 0..MaxMoves /\ faults \in 0..MaxFaults

\* As long as a command may run in the worktree, the broker does not remove it.
CommandsKeepTheirTree == (\E l \in Launches : Alive(l)) => registered

\* A verdict is honest: a success is not recorded for a candidate whose retained ref the
\* broker had to create again, in this run or in one that stopped, nor unless both sets
\* of validators ended with the candidate's bytes in the directory the broker had
\* prepared; and the validation goes on only under the Gate authority the candidate was
\* received under.  (What is changed and put back before the broker looks is not seen.)
LossIsRemembered == "repaired" \in history => rec.status # "validated"
Concluding == {"cache", "clean", "eraseCleaned", "recheck", "commit", "terminal"}
JudgedItsBytes == proc.pc \in Concluding /\ proc.outcome = "validated" => proc.judged = Scopes
JudgedAsReceived == proc.pc \in ValidatePhases /\ rec.status \in Pending => SameAuthority
VerdictIsHonest == LossIsRemembered /\ JudgedAsReceived /\ JudgedItsBytes

\* A broker-owned ref is explained by a record, or by an archive that kept it.
RefIsExplained ==
    ref = "ours" => Active \/ (rec.status = "gone" /\ archive.archived /\ ~archive.released)

\* What the broker left at the path can be told from somebody else's directory: its
\* inode is the one on record, unless the prepared directory was taken away before Git
\* filled it.  A record that is done names none, so it leaves nothing behind.
Occupied == root.fill \in {"ours", "changed"}
WorktreeIsBound ==
    /\ registered \/ Occupied => rec.inode # NoInode
    /\ Occupied => root.inode = rec.inode \/ "remade" \in history

\* The manifest, the archive and an attestation say nothing the records have not decided.
Decided == IF rec.status = "gone" THEN archive.status ELSE rec.status
SidecarsFollow ==
    /\ archive.archived =>
          rec.status = "gone" \/ (rec.status = archive.status
                                  /\ rec.intent = IF archive.released THEN "release" ELSE "keep")
    /\ manifest.status # "none" =>
          manifest.status = Decided
    /\ attested # "none" => attested = Decided

\* Somebody else's directory at the path of the worktree is left as it is, unless it took
\* the place of one that a removal under way had already checked.
ErasePhases == {"eraseSwept", "eraseCleaned", "eraseAbandoned"}
ForeignIsKept ==
    [][root.fill = "foreign" /\ moves' = moves /\ root' # root =>
          proc.pc \in ErasePhases /\ proc.seen # NoInode /\ Newcomer]_vars

\* What recovery cannot get past: another authority, a ref that points elsewhere, somebody
\* else's directory, the broker's own when its inode is not the one on record, a command
\* without supervisor.
Obstructed == \/ authority = "other"
              \/ ref = "wrong"
              \/ root.fill \in Foreign
              \/ Occupied /\ root.inode # rec.inode
              \/ \E l \in Launches \ linked : phase[l] = "loose"
Settled == rec.status \notin Pending /\ (rec.status = "abandoned" => ~Unclean)

\* A submission that was received gets its verdict, and an abandoned one is cleaned
\* up, however often the process stops.
PendingSettles == (Active /\ ~Settled) ~> (Settled \/ Obstructed)

\* A retirement that was decided is completed, unless the ref to be kept is lost.
ArchiveSettles ==
    (rec.intent # "none") ~>
        (rec.status = "gone" \/ ref = "wrong" \/ (rec.intent = "keep" /\ ~InPlace))

\* As documented: a directory that was moved to the path of the worktree is never deleted
\* as the broker's, nor written to.  [docs/SECURITY.md 183, types.ts 368]
ForeignSpared == [][root.fill = "foreign" /\ moves' = moves => root' = root]_vars

\* As commented: once Git has registered the directory, recovery never compares its inode
\* with that of another.  [submission.ts 362]
RecoverableRoot == registered /\ root.fill = "ours" => rec.inode \in {NoInode, root.inode}
=============================================================================
