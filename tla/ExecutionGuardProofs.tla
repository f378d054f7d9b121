------------------------ MODULE ExecutionGuardProofs ------------------------
(***************************************************************************)
(* Theorems about ExecutionGuard, for any number of launches.              *)
(***************************************************************************)
EXTENDS ExecutionGuard, TLAPS

\* A command that may still run has a guard file; inside the lock it is one that this
\* broker started; outside, no broker has a channel to a supervisor.
GuardInv ==
    /\ \A l \in Launches : Alive(l) => l \in guards
    /\ inside => \A l \in Launches : Alive(l) => l \in linked
    /\ ~inside => linked = {}

LEMMA GuardInitInv == GuardInit => GuardTypeOK /\ GuardInv
  BY DEF GuardInit, GuardTypeOK, GuardInv, Alive, Phase

LEMMA GuardStepTypeOK ==
  ASSUME GuardTypeOK, [GuardNext]_guardVars
  PROVE  GuardTypeOK'
<1> USE DEF GuardTypeOK, Phase, Become
<1>1. CASE Enter \/ Leave \/ (AllStopped /\ Asked /\ UNCHANGED <<phase, linked, inside>>)
  BY <1>1 DEF Enter, Leave, Asked
<1>2. ASSUME NEW l \in Launches,
             Spawn(l) \/ Register(l) \/ Handoff(l) \/ Report(l) \/ Retire(l)
      PROVE  GuardTypeOK'
  BY <1>2 DEF Spawn, Register, Handoff, Report, Retire
<1>3. ASSUME NEW l \in Launches, Host(l) \/ SupervisorKilled(l) \/ CommandEnds(l)
      PROVE  GuardTypeOK'
  BY <1>3 DEF Host, SupervisorStops, OwnerKills, GroupEmpties, SupervisorKilled, CommandEnds, Group
<1>4. CASE UNCHANGED guardVars
  BY <1>4 DEF guardVars
<1> QED
  BY <1>1, <1>2, <1>3, <1>4 DEF GuardNext

\* A step that moves one group from one phase to another, no less safe one.
LEMMA OneGroupKeeps ==
  ASSUME GuardTypeOK, GuardInv, NEW l \in Launches, NEW p \in Phase, Become(l, p),
         UNCHANGED <<guards, linked, inside>>,
         Alive(l) \/ p \in {"spawned", "gone"} \/ (l \in guards /\ l \in linked)
  PROVE  GuardInv'
  BY DEF GuardTypeOK, GuardInv, Become, Alive, Phase

LEMMA GuardStepInv ==
  ASSUME GuardTypeOK, GuardInv, [GuardNext]_guardVars
  PROVE  GuardInv'
<1>p. {"running", "dying", "loose", "gone"} \subseteq Phase
  BY DEF Phase
<1>1. CASE Enter
  BY <1>1 DEF Enter, Asked, AllStopped, Finished, GuardInv, Alive
<1>2. CASE Leave
  BY <1>2 DEF Leave, GuardInv, Alive
<1>3. CASE AllStopped /\ Asked /\ UNCHANGED <<phase, linked, inside>>
  BY <1>3 DEF Asked, AllStopped, Finished, GuardInv, Alive
<1>4. ASSUME NEW l \in Launches, Spawn(l)
      PROVE  GuardInv'
  BY <1>4 DEF Spawn, Finished, Become, GuardTypeOK, GuardInv, Alive
<1>5. ASSUME NEW l \in Launches, Register(l) \/ Retire(l)
      PROVE  GuardInv'
  BY <1>5 DEF Register, Retire, Finished, GuardInv, Alive
<1>6. ASSUME NEW l \in Launches, Handoff(l)
      PROVE  GuardInv'
  BY <1>6, <1>p, OneGroupKeeps DEF Handoff, MayStart
<1>7. ASSUME NEW l \in Launches, Report(l) \/ OwnerKills(l) \/ GroupEmpties(l) \/ CommandEnds(l)
      PROVE  GuardInv'
  BY <1>7, <1>p, OneGroupKeeps DEF Report, OwnerKills, GroupEmpties, CommandEnds, Group, Alive
<1>8. ASSUME NEW l \in Launches, SupervisorStops(l) \/ SupervisorKilled(l)
      PROVE  GuardInv'
  BY <1>8, <1>p, OneGroupKeeps DEF SupervisorStops, SupervisorKilled, Group, Alive
<1>9. CASE UNCHANGED guardVars
  BY <1>9 DEF guardVars, GuardInv, Alive
<1> QED
  BY <1>1, <1>2, <1>3, <1>4, <1>5, <1>6, <1>7, <1>8, <1>9 DEF GuardNext, Host

LEMMA GuardInvariant == GuardSpec => [](GuardTypeOK /\ GuardInv)
<1>1. GuardTypeOK /\ GuardInv /\ [GuardNext]_guardVars => (GuardTypeOK /\ GuardInv)'
  BY GuardStepTypeOK, GuardStepInv
<1> QED
  BY <1>1, GuardInitInv, PTL DEF GuardSpec

\* No command of an earlier broker runs beside one that was let into the integration lock,
\* for any number of launches: a command has a guard file before it starts and as long as its
\* group lives, so whoever enters has waited for it.
THEOREM QuietInside == GuardSpec => []QuietWhileLocked
<1>1. GuardInv => QuietWhileLocked
  BY DEF GuardInv, QuietWhileLocked
<1> QED
  BY <1>1, GuardInvariant, PTL
=============================================================================
