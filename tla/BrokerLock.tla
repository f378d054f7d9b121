----------------------------- MODULE BrokerLock -----------------------------
(***************************************************************************)
(* The broker's directory locks (src/src/store.ts): state, integration and *)
(* batch locks are one protocol.  A lock is a directory that holds its     *)
(* owner's record; it is taken, released and reclaimed by renaming it, and *)
(* a rename onto a directory that is not empty fails.  What a process read *)
(* of the owner may be stale when it acts on it.                           *)
(*                                                                         *)
(* Each process makes one call: `transaction` on the state file under the  *)
(* lock, or, an Unlocker, an unforced `lock release`; it is killed at any  *)
(* moment, or exits once its call is over, as every command does.  A       *)
(* call's owner nonce is the process itself.  The file is the set of calls *)
(* whose update it contains.                                               *)
(***************************************************************************)
EXTENDS Integers, FiniteSets

CONSTANTS
    Proc,        \* processes, all on one host, so that each can probe the others
    None,        \* no process
    Unlocker     \* those that run `lock release` without --force

ASSUME ProcAssumption ==
    /\ None \notin Proc
    /\ Unlocker \subseteq Proc

VARIABLES
    active,     \* whose record the lock directory holds, or None
    reclaimed,  \* whose record the directory <lock>.reclaimed-<p> holds
    released,   \* whose record the directory <lock>.released-<p> holds
    pc,         \* the step each process takes next
    target,     \* the owner each process read, or itself once it owns the lock
    file,       \* calls whose update the state file contains
    snapshot,   \* what each call read from the state file
    slipped     \* calls whose lock was moved behind the fence's back (history)

dirs == <<active, reclaimed, released>>
vars == <<dirs, pc, target, file, snapshot, slipped>>

Steps == {"acquire", "probe", "reclaim", "checkReclaimed", "load", "fence", "write",
          "release", "retire", "checkReleased", "done", "dead", "exited"}

\* The calls past their write, if they made one.
Ended == {p \in Proc : pc[p] \in {"release", "retire", "checkReleased", "done", "dead", "exited"}}

TypeOK ==
    /\ active \in Proc \cup {None}
    /\ reclaimed \in [Proc -> Proc \cup {None}]
    /\ released \in [Proc -> Proc \cup {None}]
    /\ pc \in [Proc -> Steps]
    /\ target \in [Proc -> Proc \cup {None}]
    /\ file \subseteq Ended
    /\ snapshot \in [Proc -> SUBSET Ended]
    /\ slipped \subseteq Proc

Init ==
    /\ active = None
    /\ reclaimed = [p \in Proc |-> None]
    /\ released = [p \in Proc |-> None]
    /\ pc = [p \in Proc |-> "acquire"]
    /\ target = [p \in Proc |-> None]
    /\ file = {}
    /\ snapshot = [p \in Proc |-> {}]
    /\ slipped = {}

Goto(p, step) == pc' = [pc EXCEPT ![p] = step]

-----------------------------------------------------------------------------
(* Faults: one thing wrong each, for what the properties must catch; not   *)
(* part of the specification.                                              *)

CrashedNever(p) == FALSE
DeleteUnchecked(p) == TRUE
ForgetTombstone(p) == reclaimed' = [reclaimed EXCEPT ![target[p]] = None]
WriteAnyway(p) == TRUE

-----------------------------------------------------------------------------
(* withLock: taking the lock, and reclaiming it from a dead owner.         *)

\* lockOwnerCrashed: the owner's process is gone, whether or not it held its lock.
Gone == {p \in Proc : pc[p] \in {"dead", "exited"}}
Crashed(p) == p \in Gone

\* What the fence cannot see: the lock of a call that has passed it is renamed, or
\* one that had been renamed is back when the call asks.
Slips(owner, step) == slipped' = slipped \cup {q \in Proc : q = owner /\ pc[q] = step}

\* The complete candidate directory is renamed to the lock's name.
Acquire(p) ==
    /\ pc[p] = "acquire" /\ p \notin Unlocker
    /\ active = None
    /\ active' = p
    /\ target' = [target EXCEPT ![p] = p]
    /\ Goto(p, "load")
    /\ UNCHANGED <<reclaimed, released, file, snapshot, slipped>>

\* A waiting process looks at a lock older than two seconds, of whatever owner; an
\* unlocker inspects the lock.
ReadOwner(p) ==
    /\ pc[p] = "acquire"
    /\ active # None
    /\ target' = [target EXCEPT ![p] = active]
    /\ Goto(p, "probe")
    /\ UNCHANGED <<dirs, file, snapshot, slipped>>

\* LOCK_TIMEOUT; an unlocker finds no lock.
GiveUp(p) ==
    /\ pc[p] = "acquire"
    /\ p \in Unlocker => active = None
    /\ Goto(p, "done")
    /\ UNCHANGED <<dirs, target, file, snapshot, slipped>>

\* The pid of the owner that was read is probed.
Probe(p) ==
    /\ pc[p] = "probe"
    /\ Goto(p, IF p \in Unlocker THEN IF Crashed(target[p]) THEN "release" ELSE "done"
               ELSE IF Crashed(target[p]) THEN "reclaim" ELSE "acquire")
    /\ UNCHANGED <<dirs, target, file, snapshot, slipped>>

\* reclaimLock renames whatever is the lock by now to the tombstone named after
\* the owner that was read.
Reclaim(p) ==
    /\ pc[p] = "reclaim"
    /\ active # None /\ reclaimed[target[p]] = None
    /\ reclaimed' = [reclaimed EXCEPT ![target[p]] = active]
    /\ active' = None
    /\ Slips(active, "write")
    /\ Goto(p, "checkReclaimed")
    /\ UNCHANGED <<released, target, file, snapshot>>

\* There is no lock any more, or there is a tombstone already.
ReclaimRefused(p) ==
    /\ pc[p] = "reclaim"
    /\ active = None \/ reclaimed[target[p]] # None
    /\ Goto(p, "acquire")
    /\ UNCHANGED <<dirs, target, file, snapshot, slipped>>

\* The tombstone of the owner that was read stays where it is, for good.
KeepTombstone(p) == UNCHANGED reclaimed

ReclaimConfirmed(p) ==
    /\ pc[p] = "checkReclaimed"
    /\ reclaimed[target[p]] = target[p]
    /\ KeepTombstone(p)
    /\ Goto(p, "acquire")
    /\ UNCHANGED <<active, released, target, file, snapshot, slipped>>

\* Another owner's lock is put back, unless a third process took the lock
\* meanwhile; then it stays aside.
ReclaimUndone(p) ==
    /\ pc[p] = "checkReclaimed"
    /\ reclaimed[target[p]] # target[p]
    /\ IF active = None
       THEN /\ active' = reclaimed[target[p]]
            /\ reclaimed' = [reclaimed EXCEPT ![target[p]] = None]
            /\ Slips(reclaimed[target[p]], "fence")
       ELSE UNCHANGED <<active, reclaimed, slipped>>
    /\ Goto(p, "acquire")
    /\ UNCHANGED <<released, target, file, snapshot>>

-----------------------------------------------------------------------------
(* transaction: read, check the lock is still ours, write.                 *)

Load(p) ==
    /\ pc[p] = "load"
    /\ snapshot' = [snapshot EXCEPT ![p] = file]
    /\ Goto(p, "fence")
    /\ UNCHANGED <<dirs, target, file, slipped>>

\* assertLockOwned.
LockOwned(p) == active = p

\* LOCK_LOST skips the write.
Fence(p) ==
    /\ pc[p] = "fence"
    /\ Goto(p, IF LockOwned(p) THEN "write" ELSE "release")
    /\ UNCHANGED <<dirs, target, file, snapshot, slipped>>

Write(p) ==
    /\ pc[p] = "write"
    /\ file' = snapshot[p] \cup {p}
    /\ Goto(p, "release")
    /\ UNCHANGED <<dirs, target, snapshot, slipped>>

-----------------------------------------------------------------------------
(* releaseOwnedLock, of the process's own lock or an unlocker's target.    *)

Release(p) ==
    /\ pc[p] = "release"
    /\ Goto(p, IF active = target[p] THEN "retire" ELSE "done")
    /\ UNCHANGED <<dirs, target, file, snapshot, slipped>>

\* The lock is renamed; a rename that fails ends the call.
Retire(p) ==
    /\ pc[p] = "retire"
    /\ IF active # None /\ released[target[p]] = None
       THEN /\ released' = [released EXCEPT ![target[p]] = active]
            /\ active' = None
            /\ Slips(active, "write")
            /\ Goto(p, "checkReleased")
       ELSE /\ Goto(p, "done")
            /\ UNCHANGED <<active, released, slipped>>
    /\ UNCHANGED <<reclaimed, target, file, snapshot>>

RetiredOwn(p) == released[target[p]] = target[p]

\* The right lock is deleted; another one is put back, if it still can be.
FinishRelease(p) ==
    /\ pc[p] = "checkReleased"
    /\ \/ /\ RetiredOwn(p)
          /\ released' = [released EXCEPT ![target[p]] = None]
          /\ UNCHANGED <<active, slipped>>
       \/ /\ ~RetiredOwn(p) /\ active = None
          /\ active' = released[target[p]]
          /\ released' = [released EXCEPT ![target[p]] = None]
          /\ Slips(released[target[p]], "fence")
       \/ /\ ~RetiredOwn(p) /\ active # None
          /\ UNCHANGED <<active, released, slipped>>
    /\ Goto(p, "done")
    /\ UNCHANGED <<reclaimed, target, file, snapshot>>

-----------------------------------------------------------------------------
\* A process that is killed here has not given up a lock it owned.
Holding(p) == p \notin Unlocker /\ pc[p] \in {"load", "fence", "write", "release", "retire"}

\* A process is killed, or exits after its call.
Disappear(p) ==
    /\ pc[p] \notin {"dead", "exited"}
    /\ Goto(p, IF Holding(p) THEN "dead" ELSE "exited")
    /\ UNCHANGED <<dirs, target, file, snapshot, slipped>>

Contend(p) ==
    \/ Acquire(p) \/ ReadOwner(p) \/ Probe(p)
    \/ Reclaim(p) \/ ReclaimRefused(p) \/ ReclaimConfirmed(p) \/ ReclaimUndone(p)

Next ==
    \E p \in Proc :
        \/ Contend(p) \/ GiveUp(p)
        \/ Load(p) \/ Fence(p) \/ Write(p)
        \/ Release(p) \/ Retire(p) \/ FinishRelease(p)
        \/ Disappear(p)

Spec == Init /\ [][Next]_vars

\* A waiting process keeps polling.
FairSpec == Spec /\ \A p \in Proc : WF_vars(Contend(p))

-----------------------------------------------------------------------------
(* Properties.                                                             *)

\* The record of p is the lock, or has been moved aside.
OnDisk(p) == active = p \/ \E q \in Proc : reclaimed[q] = p \/ released[q] = p

\* An unlocker has read the owner p, dead by then.
Unlocked(p) == \E u \in Unlocker : target[u] = p

\* Whatever stale owner others act on, the record of a call that has not released
\* its lock is at worst moved aside, never deleted: the call finds out at its
\* fence.  The lock of a call that was killed goes only to whoever runs `lock
\* release`.  [store.ts releaseOwnedLock, "Restore it rather than deleting somebody
\* else's lock", reclaimLock]
LockSurvives ==
    \A p \in Proc \ Unlocker :
        /\ pc[p] \in {"load", "fence", "write", "release", "retire"} => OnDisk(p)
        /\ pc[p] = "dead" => OnDisk(p) \/ Unlocked(p)

\* p's record lies under a name that is not its own.
Displaced(p) == \E q \in Proc : released[q] = p \/ (reclaimed[q] = p /\ q # p)

\* A delayed reclaimer does not move the lock of a successor: of an owner that was
\* killed the tombstone is in its way.  It moves one only when the owner it read
\* had released its lock and exited, when that record had been moved aside by
\* mistake, or when an operator has released it.  [store.ts reclaimLock, "kept so a
\* delayed second reclaimer cannot later move a newly acquired lock"]
ReclaimersYield ==
    [][\A p \in Proc : (Reclaim(p) /\ active # target[p]) =>
            \/ pc[target[p]] = "exited"
            \/ Displaced(target[p])
            \/ Unlocked(target[p])]_vars

\* As long as no lock is moved behind the back of the fence, no transaction is
\* overwritten by one that had not read it, however many locks are moved from calls
\* that still run.  [store.ts transaction, "Fencing", assertLockOwned]
FenceCatches == [][slipped = {} => file \subseteq file']_vars

Waiting(p) == pc[p] \in {"acquire", "probe", "reclaim", "checkReclaimed"}

\* The tombstone that a reclaimer of p needs holds another lock, for good.
Blocked(p) == reclaimed[p] \notin {None, p}

\* The lock of an owner that is gone does not stay, as long as somebody waits for it.
\* [store.ts withLock, reclaimLock]
DeadOwnerReclaimed ==
    \A p \in Proc : (active = p /\ p \in Gone)
        ~> (active # p \/ Blocked(p) \/ ~\E q \in Proc \ Unlocker : Waiting(q))

\* As documented: two calls are never inside the critical section together.  The
\* integration and batch locks rely on this alone, without a fence.
\* [docs/ARCHITECTURE.md 37 and 221; store.ts 986]
OneHolder ==
    \A p, q \in Proc : pc[p] \in {"load", "fence", "write"} /\ pc[q] \in {"load", "fence", "write"}
                       => p = q

\* As documented: no transaction is overwritten by one that had not read it.
\* [store.ts assertLockOwned: "an unlucky reclaim of a live holder must not let
\* both write"]
NoLostUpdate == [][file \subseteq file']_vars
=============================================================================
