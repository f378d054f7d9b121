--------------------------- MODULE ExecutionGuard ---------------------------
(***************************************************************************)
(* The commands a broker runs under the integration lock and what is left  *)
(* of them when it dies (src/src/execution-guard.ts,                       *)
(* src/src/process-supervisor.ts and src/src/process.ts).  A launch is a   *)
(* process group: a supervisor, and the validator command it starts when   *)
(* it is told to.  A guard file, durable before the command may start,     *)
(* outlives the broker; whoever takes the integration lock next waits for  *)
(* the groups the guard files name.  At most one broker is inside the lock *)
(* (BrokerLock).  A POSIX host is modelled; operator overrides             *)
(* (`unlock --force`, which deletes the guard files) are not.              *)
(***************************************************************************)
EXTENDS Naturals, FiniteSets

CONSTANT Launches   \* slots for process groups

ASSUME GuardAssumption == IsFiniteSet(Launches)

\* "spawned": the supervisor waits for its command; "running": the command runs
\* under it; "loose": the supervisor was killed and the command runs on; "dying":
\* the group was sent SIGKILL; "gone": it is empty.
Phase == {"spawned", "running", "loose", "dying", "gone"}

VARIABLES
    phase,   \* the process group of every launch
    guards,  \* the launches that have a guard file
    linked,  \* those whose supervisor has a channel to a living broker
    inside   \* a broker holds the integration lock and was let in

guardVars == <<phase, guards, linked, inside>>

GuardInit ==
    /\ phase = [l \in Launches |-> "gone"]
    /\ guards = {}
    /\ linked = {}
    /\ inside = FALSE

-----------------------------------------------------------------------------
(* Faults: one thing wrong each, for what the properties must catch; not   *)
(* part of the specification.                                              *)

SupervisorOnly(l) == phase[l] \notin {"spawned", "running"}

-----------------------------------------------------------------------------
Alive(l) == phase[l] \in {"running", "loose", "dying"}

\* executionFinished: the whole group is asked for, not the supervisor.
Finished(l) == phase[l] = "gone"

Become(l, p) == phase' = [phase EXCEPT ![l] = p]

\* waitForExecutions: guard files of finished launches are deleted on the way.
AllStopped == \A l \in guards : Finished(l)
Asked == guards' = {l \in guards : ~Finished(l)}

\* withIntegrationLock, once the wait is over; a wait that times out leaves
\* everything as it is.
Enter == /\ ~inside
         /\ AllStopped
         /\ Asked
         /\ inside' = TRUE
         /\ UNCHANGED <<phase, linked>>

\* The broker leaves the lock or dies: its channels close.
Leave == /\ inside' = FALSE
         /\ linked' = {}
         /\ UNCHANGED <<phase, guards>>

Spawn(l) == /\ inside
            /\ Finished(l) /\ l \notin guards
            /\ Become(l, "spawned")
            /\ linked' = linked \cup {l}
            /\ UNCHANGED <<guards, inside>>

\* registerExecution; the supervisor may be gone by then.
Register(l) == /\ l \in linked
               /\ guards' = guards \cup {l}
               /\ UNCHANGED <<phase, linked, inside>>

\* The start message, sent when registration is durable.
MayStart(l) == l \in guards /\ phase[l] = "spawned"
Handoff(l) == /\ l \in linked
              /\ MayStart(l)
              /\ Become(l, "running")
              /\ UNCHANGED <<guards, linked, inside>>

\* The command ends or times out; the supervisor reports and stops the group.
Report(l) == /\ l \in linked
             /\ phase[l] = "running"
             /\ Become(l, "dying")
             /\ UNCHANGED <<guards, linked, inside>>

\* retireExecution, after the last of its attempts.
Retire(l) == /\ guards' = IF Finished(l) THEN guards \ {l} ELSE guards
             /\ UNCHANGED <<phase, linked, inside>>

Group == UNCHANGED <<guards, linked, inside>>

\* The supervisor notices that its channel closed.
SupervisorStops(l) ==
    /\ l \notin linked
    /\ \/ phase[l] = "spawned" /\ Become(l, "gone")
       \/ phase[l] = "running" /\ Become(l, "dying")
    /\ Group

\* Somebody kills the supervisor alone.
SupervisorKilled(l) ==
    /\ \/ phase[l] = "spawned" /\ Become(l, "gone")
       \/ phase[l] = "running" /\ Become(l, "loose")
    /\ Group

\* A living broker sees its supervisor exit without a result.
OwnerKills(l) == /\ l \in linked
                 /\ phase[l] = "loose"
                 /\ Become(l, "dying")
                 /\ Group

GroupEmpties(l) == /\ phase[l] = "dying"
                   /\ Become(l, "gone")
                   /\ Group

\* A command without supervisor or broker ends when it pleases.
CommandEnds(l) == /\ phase[l] = "loose"
                  /\ Become(l, "gone")
                  /\ Group

Host(l) == SupervisorStops(l) \/ OwnerKills(l) \/ GroupEmpties(l)

GuardNext ==
    \/ Enter \/ Leave
    \/ \E l \in Launches :
          \/ Spawn(l) \/ Register(l) \/ Handoff(l) \/ Report(l) \/ Retire(l)
          \/ Host(l) \/ SupervisorKilled(l) \/ CommandEnds(l)
    \/ AllStopped /\ Asked /\ UNCHANGED <<phase, linked, inside>>

GuardSpec == GuardInit /\ [][GuardNext]_guardVars

-----------------------------------------------------------------------------
GuardTypeOK ==
    /\ phase \in [Launches -> Phase]
    /\ guards \subseteq Launches
    /\ linked \subseteq Launches
    /\ inside \in BOOLEAN

\* Whoever works under the integration lock shares the machine only with commands
\* it started itself: nothing that an earlier broker left behind runs then.
QuietWhileLocked == inside => \A l \in Launches : Alive(l) => l \in linked
=============================================================================
