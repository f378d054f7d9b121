----------------------------- MODULE Scheduler -----------------------------
(***************************************************************************)
(* scheduleTasks (src/src/scheduler.ts): which submitted receipts go into  *)
(* the next batch, in which order, and why the others stay out.  The       *)
(* candidates are walked again and again, in order, until a pass selects   *)
(* none; one action here is the treatment of one candidate.                *)
(*                                                                         *)
(* Tasks are numbered in the order of compareTasks.  Of their change sets  *)
(* only the number of commits and which of them collide matters.           *)
(***************************************************************************)
EXTENDS Integers, Sequences, FiniteSetsExt

CONSTANTS
    N,           \* tasks in the state, 1 the first to be tried
    Sizes,       \* how many commits a receipt may list
    MaxCommits,  \* scheduling.maxCommits
    Limits       \* what options.maxTasks and scheduling.maxTasks may come to

ASSUME SchedulerAssumption ==
    /\ N \in Nat
    /\ Sizes \subseteq Nat
    /\ MaxCommits \in Nat
    /\ Limits \subseteq Nat \ {0}

Task == 1..N
Reason == {"batch commit limit", "conflicting change set", "dependencies not integrated",
           "batch task limit"}
NoReason == "none"

\* What scheduleTasks is given.  `collides` holds what pathsOverlap and the
\* serialized patterns say of two receipts.
Input ==
    [candidates : SUBSET Task,           \* submitted, and requested
     merged     : SUBSET Task,
     dependsOn  : [Task -> SUBSET Task],
     commits    : [Task -> Sizes],
     collides   : SUBSET {pair \in SUBSET Task : Cardinality(pair) = 2},
     require    : BOOLEAN,               \* policies.requireDependencies
     maxTasks   : Limits]

VARIABLES
    input,
    selected,      \* the plan so far, in order
    rejected,      \* per task, why it stays out, or NoReason
    totalCommits,
    next,          \* candidate the pass looks at next
    madeProgress,
    done

vars == <<input, selected, rejected, totalCommits, next, madeProgress, done>>

TypeOK ==
    /\ input \in Input
    /\ selected \in Seq(Task)
    /\ rejected \in [Task -> Reason \cup {NoReason}]
    /\ totalCommits \in Nat
    /\ next \in 1..(N + 1)
    /\ madeProgress \in BOOLEAN
    /\ done \in BOOLEAN

\* A submitted task is not merged and does not depend on itself; what the other
\* tasks depend on is never read.
ValidInput(in) ==
    /\ in.candidates \cap in.merged = {}
    /\ \A t \in in.candidates : t \notin in.dependsOn[t]
    /\ \A t \in Task \ in.candidates : in.dependsOn[t] = {}

Selected == {selected[i] : i \in DOMAIN selected}

Init ==
    /\ input \in {in \in Input : ValidInput(in)}
    /\ selected = <<>>
    /\ rejected = [t \in Task |-> NoReason]
    /\ totalCommits = 0
    /\ next = 1
    /\ madeProgress = FALSE
    /\ done = FALSE

-----------------------------------------------------------------------------
(* Faults: one thing wrong each, for what the properties must catch; not   *)
(* part of the specification.                                              *)

MissingByRequest(t) ==
    {d \in input.dependsOn[t] : input.require /\ d \notin input.merged \cup input.candidates}
OnePass == FALSE

-----------------------------------------------------------------------------
\* Dependencies that are neither merged nor in the plan yet; dependencyReady
\* says there is none.
Missing(t) ==
    {d \in input.dependsOn[t] : input.require /\ d \notin input.merged /\ d \notin Selected}

Fits(t) == totalCommits + input.commits[t] <= MaxCommits
Collides(t) == \E chosen \in Selected : {chosen, t} \in input.collides

\* Neither selected nor rejected so far.
Open(t) == t \in input.candidates /\ t \notin Selected /\ rejected[t] = NoReason

Full == Len(selected) >= input.maxTasks
InPass == ~done /\ next <= N /\ ~Full

Skip ==
    /\ InPass
    /\ ~Open(next) \/ Missing(next) # {}
    /\ next' = next + 1
    /\ UNCHANGED <<input, selected, rejected, totalCommits, madeProgress, done>>

Reject(reason) ==
    /\ rejected' = [rejected EXCEPT ![next] = reason]
    /\ next' = next + 1
    /\ UNCHANGED <<input, selected, totalCommits, madeProgress, done>>

RejectLarge ==
    /\ InPass
    /\ Open(next) /\ Missing(next) = {} /\ ~Fits(next)
    /\ Reject("batch commit limit")

RejectColliding ==
    /\ InPass
    /\ Open(next) /\ Missing(next) = {} /\ Fits(next) /\ Collides(next)
    /\ Reject("conflicting change set")

Select ==
    /\ InPass
    /\ Open(next) /\ Missing(next) = {} /\ Fits(next) /\ ~Collides(next)
    /\ selected' = Append(selected, next)
    /\ totalCommits' = totalCommits + input.commits[next]
    /\ madeProgress' = TRUE
    /\ next' = next + 1
    /\ UNCHANGED <<input, rejected, done>>

\* A pass that selected something may have made another candidate ready.
Again == madeProgress

NextPass ==
    /\ ~done /\ next > N /\ ~Full
    /\ Again
    /\ madeProgress' = FALSE
    /\ next' = 1
    /\ UNCHANGED <<input, selected, rejected, totalCommits, done>>

\* What is still open is given its reason.
Report ==
    /\ ~done
    /\ Full \/ (next > N /\ ~Again)
    /\ rejected' = [t \in Task |->
                     IF ~Open(t) THEN rejected[t]
                     ELSE IF Missing(t) # {} THEN "dependencies not integrated"
                     ELSE "batch task limit"]
    /\ done' = TRUE
    /\ UNCHANGED <<input, selected, totalCommits, next, madeProgress>>

Next == Skip \/ RejectLarge \/ RejectColliding \/ Select \/ NextPass \/ Report

Spec == Init /\ [][Next]_vars

-----------------------------------------------------------------------------
(* Properties.                                                             *)

\* Applied in this order every receipt finds its dependencies merged or applied
\* before it; this is the selection that Coordinate plans with.
\* [scheduler.ts dependencyReady; docs/PROTOCOL.md "selected earlier in the same batch"]
DependenciesFirst ==
    input.require =>
        \A i \in DOMAIN selected : \A d \in input.dependsOn[selected[i]] :
            d \in input.merged \/ \E j \in 1..(i - 1) : selected[j] = d

\* A plan keeps the limits and none of its receipts collide.
PlanCompatible ==
    /\ totalCommits <= MaxCommits
    /\ Len(selected) <= input.maxTasks
    /\ \A i, j \in DOMAIN selected : i # j =>
        selected[i] # selected[j] /\ {selected[i], selected[j]} \notin input.collides

\* What the reason given for t says of the plan.
Holds(t) ==
    CASE rejected[t] = "batch commit limit" -> ~Fits(t)
      [] rejected[t] = "conflicting change set" -> Collides(t)
      [] rejected[t] = "dependencies not integrated" -> Missing(t) # {}
      [] rejected[t] = "batch task limit" -> Full
      [] OTHER -> FALSE

\* Every candidate is in the plan or out of it for a reason that is true of the
\* finished plan: nothing that could still be added is left out, however the
\* candidates unblock one another.  [scheduler.ts scheduleTasks]
ReasonsHold ==
    done => \A t \in input.candidates :
        IF t \in Selected THEN rejected[t] = NoReason ELSE Holds(t)

=============================================================================
