---------------------------- MODULE MCCoordinate ----------------------------
(* Instances of Coordinate for TLC: two tasks, the second of which         *)
(* declares the first as a dependency or does not, or one task alone.      *)
EXTENDS Coordinate, TLC

CONSTANTS t1, t2

MCTask == {t1, t2}
MCDepSets == (t1 :> {{}}) @@ (t2 :> {{}, {t1}})

\* Bound: one of the tasks is submitted again, when the other one is its dependency or
\* its dependent, and not after a stop.
SubmittedOnce == {t \in MCTask : tasks[t].receipt <= 1}
Dependent == tasks[t2].status = "absent" \/ tasks[t2].deps = {t1}
ResubmissionBound ==
    SubmittedOnce = MCTask \/ (SubmittedOnce # {} /\ Dependent /\ crashes = 0)

MCOneTask == {t1}
MCOneTaskDeps == [t \in MCOneTask |-> {{}}]
=============================================================================
