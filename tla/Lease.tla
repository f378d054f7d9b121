-------------------------------- MODULE Lease --------------------------------
(***************************************************************************)
(* Editing leases: who may work on which paths (src/src/broker.ts and      *)
(* src/src/patterns.ts).  A claim declares path patterns and is refused    *)
(* where they may overlap those of a live lease, or touch the same         *)
(* serialized resource; it gives a token, and the commands of the worker   *)
(* show it.  A lease that is not renewed expires while its worker goes on, *)
(* with the token in hand.  A command is one transaction; submission reads *)
(* the state, inspects commits and records in a second step, `pending`.    *)
(*                                                                         *)
(* A path is a sequence of names and a pattern one of names, "*" and "**"; *)
(* "*" stands for every segment with magic in it.                          *)
(***************************************************************************)
EXTENDS Integers, Sequences, SequencesExt

CONSTANTS
    Tasks,       \* the tasks
    Scopes,      \* the sets of patterns that commands declare
    Serialized,  \* leases.serializedPatterns
    Files,       \* the files there may be
    Ttl,         \* leases.ttlSeconds, in ticks of the clock
    MaxToken     \* bound: tokens given out

ASSUME LeaseAssumption ==
    /\ Ttl \in Nat \ {0} /\ MaxToken \in Nat
    /\ {} \notin Scopes
    /\ \A paths \in Scopes \cup {Serialized, Files} : paths \subseteq Seq(STRING)

Star == "*"
Globstar == "**"

NoLease == 0
Token == 1..MaxToken
TaskStatus == {"registered", "claimed", "submitted", "failed", "batched", "cancelled"}

VARIABLES
    task,     \* of every task: status, expected paths, paths changed, lease, time left
    issued,   \* how many tokens were given out
    pending   \* the submission between its two steps

vars == <<task, issued, pending>>

NoSubmission == [token |-> NoLease]

Init ==
    /\ task \in [Tasks -> {[status |-> "registered", expected |-> scope, actual |-> {},
                            lease |-> NoLease, left |-> 0] : scope \in Scopes}]
    /\ issued = 0
    /\ pending = NoSubmission

-----------------------------------------------------------------------------
(* Faults: one thing wrong each, for what the properties must catch; not   *)
(* part of the specification.                                              *)

TokenAlone(t, token) == task[t].lease = token /\ token # NoLease
HeldBefore(t, token) == TRUE

-----------------------------------------------------------------------------
(* patterns.ts                                                             *)

Magic(p) == \E i \in DOMAIN p : p[i] \in {Star, Globstar}

\* matchesPattern: does the path f match p?  It does if it can be cut into what the
\* segments of p stand for, the j-th one ending at cut[j].  A pattern may be matched
\* like a path.
Matches(f, p) ==
    \E cut \in [0..Len(p) -> 0..Len(f)] :
        /\ cut[0] = 0 /\ cut[Len(p)] = Len(f)
        /\ \A j \in 1..Len(p) :
              IF p[j] = Globstar THEN cut[j - 1] <= cut[j]
              ELSE cut[j] = cut[j - 1] + 1 /\ p[j] \in {Star, f[cut[j]]}

\* literalPrefix: the directories in front of the first magic segment.
LiteralPrefix(p) ==
    SubSeq(p, 1, CHOOSE n \in 0..Len(p) :
                     /\ \A i \in 1..n : ~Magic(<<p[i]>>)
                     /\ Magic(<<p[n + 1]>>))

\* patternsMayOverlap: when in doubt, yes.
MayOverlap(p, q) ==
    \/ p = q \/ Matches(p, q) \/ Matches(q, p)
    \/ /\ Magic(p) /\ Magic(q)
       /\ \/ IsPrefix(LiteralPrefix(p), LiteralPrefix(q))
          \/ IsPrefix(LiteralPrefix(q), LiteralPrefix(p))

SetsMayOverlap(ps, qs) == \E p \in ps, q \in qs : MayOverlap(p, q)
Resources(ps) == {r \in Serialized : SetsMayOverlap(ps, {r})}

-----------------------------------------------------------------------------
Live(t) == task[t].lease # NoLease /\ task[t].left > 0

\* verifyLease
Verified(t, token) == Live(t) /\ task[t].lease = token

\* assertNoLeaseConflict
Conflict(t, paths) ==
    \E u \in Tasks \ {t} :
        /\ Live(u)
        /\ \/ SetsMayOverlap(paths, task[u].expected)
           \/ Resources(paths) \cap Resources(task[u].expected) # {}

Covered(files, paths) == \A f \in files : \E p \in paths : Matches(f, p)

Set(t, r) == task' = [task EXCEPT ![t] = r]
Same == UNCHANGED <<issued, pending>>

\* A lease with a new token.  The time it ends was computed before the transaction
\* had the lock: some of it may be over.
Leased(t, status, paths) ==
    /\ issued < MaxToken
    /\ issued' = issued + 1
    /\ \E left \in 0..Ttl :
          Set(t, [task[t] EXCEPT !.status = status, !.expected = paths,
                                 !.lease = issued + 1, !.left = left])
    /\ UNCHANGED pending

ClaimTask(t, paths) ==
    /\ task[t].status \in {"registered", "claimed", "failed"}
    /\ ~Live(t)
    /\ ~Conflict(t, paths)
    /\ Leased(t, "claimed", paths)

Heartbeat(t, token) ==
    /\ Verified(t, token)
    /\ Set(t, [task[t] EXCEPT !.left = Ttl])
    /\ Same

ExtendTask(t, paths, token) ==
    /\ Verified(t, token)
    /\ task[t].status \in {"claimed", "failed"}
    /\ ~Conflict(t, task[t].expected \cup paths)
    /\ Set(t, [task[t] EXCEPT !.expected = @ \cup paths])
    /\ Same

\* By the holder, or forced by the owner of the repository.
ReleaseTask(t) ==
    /\ Set(t, [task[t] EXCEPT !.lease = NoLease, !.left = 0,
                   !.status = IF @ \in {"claimed", "failed"} THEN "registered" ELSE @])
    /\ Same

CancelTask(t) ==
    /\ task[t].status # "batched"
    /\ Set(t, [task[t] EXCEPT !.status = "cancelled", !.lease = NoLease, !.left = 0])
    /\ Same

\* A live lease wants its token; without one anybody may retry.
RetryTask(t) ==
    /\ task[t].status = "failed"
    /\ Set(t, [task[t] EXCEPT !.status = "submitted"])
    /\ Same

Submittable(t) == task[t].status \in {"claimed", "failed", "submitted"}

\* submitTask reads the state and checks the commits against the scope it read.
SubmitRead(t, token, files) ==
    /\ pending = NoSubmission
    /\ Submittable(t) /\ Verified(t, token)
    /\ Covered(files, task[t].expected)
    /\ pending' = [token |-> token, task |-> t, files |-> files]
    /\ UNCHANGED <<task, issued>>

\* Its transaction checks status and lease again.
StillHeld(t, token) == Verified(t, token)
SubmitRecord ==
    /\ pending # NoSubmission
    /\ pending' = NoSubmission
    /\ LET t == pending.task
       IN  IF Submittable(t) /\ StillHeld(t, pending.token)
           THEN Set(t, [task[t] EXCEPT !.status = "submitted", !.actual = pending.files])
           ELSE UNCHANGED task
    /\ UNCHANGED issued

\* Integration ends the lease of what it batches and keeps that of what failed.
Integrate(t) ==
    /\ task[t].status = "submitted"
    /\ \/ Set(t, [task[t] EXCEPT !.status = "batched", !.lease = NoLease, !.left = 0])
       \/ Set(t, [task[t] EXCEPT !.status = "failed"])
    /\ Same

\* reopenTaskForRevision; the batch around the task is in module Approval.
ReopenTask(t, paths) ==
    /\ task[t].status = "batched"
    /\ ~Live(t)
    /\ ~Conflict(t, paths)
    /\ Leased(t, "batched", paths)

\* Refresh gives the tasks of a batch back.
Requeue(t) ==
    /\ task[t].status = "batched"
    /\ Set(t, [task[t] EXCEPT !.status = "submitted"])
    /\ Same

Tick == /\ task' = [t \in Tasks |-> [task[t] EXCEPT !.left = IF @ > 0 THEN @ - 1 ELSE 0]]
        /\ \E t \in Tasks : task[t].left > 0
        /\ Same

Next ==
    \/ \E t \in Tasks :
          \/ \E paths \in Scopes : ClaimTask(t, paths) \/ ReopenTask(t, paths)
          \/ \E token \in Token :
                \/ Heartbeat(t, token)
                \/ \E paths \in Scopes : ExtendTask(t, paths, token)
                \/ \E f \in Files : SubmitRead(t, token, {f})
          \/ ReleaseTask(t) \/ CancelTask(t) \/ RetryTask(t) \/ Integrate(t) \/ Requeue(t)
    \/ SubmitRecord \/ Tick

Spec == Init /\ [][Next]_vars

-----------------------------------------------------------------------------
TypeOK ==
    /\ task \in [Tasks -> [status : TaskStatus, expected : SUBSET UNION Scopes,
                           actual : SUBSET Files, lease : 0..issued, left : 0..Ttl]]
    /\ issued \in 0..MaxToken
    /\ \/ pending = NoSubmission
       \/ pending \in [token : 1..issued, task : Tasks, files : SUBSET Files]

\* No two workers with live leases can be editing one file, or two files of one
\* serialized resource: said of files, not of the patterns the code compares.
Editable(t) == {f \in Files : Covered({f}, task[t].expected)}
Touches(t, r) == \E f \in Editable(t) : Matches(f, r)
LeasesAreDisjoint ==
    \A t, u \in Tasks :
        t # u /\ Live(t) /\ Live(u) =>
            /\ Editable(t) \cap Editable(u) = {}
            /\ \A r \in Serialized : ~(Touches(t, r) /\ Touches(u, r))

\* What a worker submits lies within the paths the task has when the submission is
\* recorded, although they were checked against those it had when it was read.
SubmittedInScope ==
    [][\A t \in Tasks : task'[t].actual # task[t].actual =>
            Covered(task'[t].actual, task'[t].expected)]_vars
=============================================================================
