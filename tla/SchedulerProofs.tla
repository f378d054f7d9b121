--------------------------- MODULE SchedulerProofs ---------------------------
(***************************************************************************)
(* Theorems about Scheduler, for any number of tasks and any limits.       *)
(***************************************************************************)
EXTENDS Scheduler, TLAPS

\* The reasons given during the passes stay true: the plan only grows.
EarlyReasons ==
    ~done => \A t \in Task :
        /\ rejected[t] \in {NoReason, "batch commit limit", "conflicting change set"}
        /\ rejected[t] = "batch commit limit" => ~Fits(t)
        /\ rejected[t] = "conflicting change set" => Collides(t)
        /\ rejected[t] # NoReason => t \notin Selected

\* A pass that has selected nothing so far found everything it looked at waiting.
PassWaits ==
    ~done /\ ~madeProgress => \A t \in Task : t < next /\ Open(t) => Missing(t) # {}

Inv ==
    /\ TypeOK
    /\ Selected \subseteq input.candidates
    /\ DependenciesFirst /\ PlanCompatible
    /\ EarlyReasons /\ PassWaits /\ ReasonsHold

\* The bounds and what a receipt counts are numbers.
LEMMA InputTypes ==
  ASSUME input \in Input
  PROVE  /\ N \in Nat /\ MaxCommits \in Nat /\ input.maxTasks \in Nat
         /\ \A t \in Task : input.commits[t] \in Nat
<1>1. input.maxTasks \in Limits /\ input.commits \in [Task -> Sizes]
  BY DEF Input
<1> QED
  BY <1>1, SchedulerAssumption DEF SchedulerAssumption

LEMMA SchedulerInit == Init => Inv
<1> SUFFICES ASSUME Init
             PROVE  Inv
  OBVIOUS
<1>1. TypeOK
  <2>1. input \in Input /\ N \in Nat
    BY SchedulerAssumption DEF Init, SchedulerAssumption
  <2>2. selected \in Seq(Task) /\ rejected \in [Task -> Reason \cup {NoReason}]
    BY DEF Init
  <2>3. totalCommits \in Nat /\ madeProgress \in BOOLEAN /\ done \in BOOLEAN
    BY DEF Init
  <2>4. next \in 1..(N + 1)
    <3>1. next = 1
      BY DEF Init
    <3> QED
      BY <2>1, <3>1
  <2> QED
    BY <2>1, <2>2, <2>3, <2>4 DEF TypeOK
<1>2. DOMAIN selected = {} /\ Len(selected) = 0 /\ Selected = {} /\ ~done
  BY DEF Init, Selected
<1>3. DependenciesFirst /\ ReasonsHold
  BY <1>2 DEF DependenciesFirst, ReasonsHold
<1>4. PlanCompatible
  <2>1. input.maxTasks \in Nat /\ MaxCommits \in Nat /\ totalCommits = 0
    BY <1>1, InputTypes DEF Init, TypeOK
  <2> QED
    BY <1>2, <2>1 DEF PlanCompatible
<1>5. EarlyReasons
  BY DEF Init, EarlyReasons, NoReason
<1>6. PassWaits
  BY DEF Init, PassWaits, Task
<1> QED
  BY <1>1, <1>2, <1>3, <1>4, <1>5, <1>6 DEF Inv

\* What appending t to the plan does to it.
LEMMA Appended ==
  ASSUME NEW t \in Task, selected \in Seq(Task), selected' = Append(selected, t)
  PROVE  /\ selected' \in Seq(Task)
         /\ Len(selected') = Len(selected) + 1
         /\ Selected' = Selected \cup {t}
         /\ selected'[Len(selected) + 1] = t
         /\ \A i \in DOMAIN selected : selected'[i] = selected[i]
         /\ DOMAIN selected' = DOMAIN selected \cup {Len(selected) + 1}
<1>1. DOMAIN selected = 1..Len(selected) /\ DOMAIN selected' = 1..(Len(selected) + 1)
  OBVIOUS
<1>2. \A i \in DOMAIN selected : selected'[i] = selected[i]
  OBVIOUS
<1>3. selected'[Len(selected) + 1] = t
  OBVIOUS
<1>4. DOMAIN selected' = DOMAIN selected \cup {Len(selected) + 1}
  BY <1>1
<1>5. Selected' = Selected \cup {t}
  BY <1>2, <1>3, <1>4 DEF Selected
<1> QED
  BY <1>2, <1>3, <1>4, <1>5

\* Selecting keeps the plan compatible and in order.
LEMMA SelectKeeps ==
  ASSUME Inv, Select
  PROVE  Inv'
<1> DEFINE t == next
<1>1. /\ t \in Task /\ t \in input.candidates /\ t \notin Selected
      /\ Missing(t) = {} /\ Fits(t) /\ ~Collides(t) /\ ~Full
      /\ selected' = Append(selected, t) /\ madeProgress' = TRUE
      /\ totalCommits' = totalCommits + input.commits[t]
      /\ next' = next + 1 /\ UNCHANGED <<input, rejected, done>> /\ ~done
  BY DEF Select, InPass, Open, Inv, TypeOK, Task
<1>2. /\ selected' \in Seq(Task)
      /\ Len(selected') = Len(selected) + 1
      /\ Selected' = Selected \cup {t}
      /\ selected'[Len(selected) + 1] = t
      /\ \A i \in DOMAIN selected : selected'[i] = selected[i]
      /\ DOMAIN selected' = DOMAIN selected \cup {Len(selected) + 1}
  BY <1>1, Appended DEF Inv, TypeOK
<1>3. input.commits[t] \in Nat
  BY <1>1, InputTypes DEF Inv, TypeOK
<1>4. TypeOK'
  BY <1>1, <1>2, <1>3, SchedulerAssumption
  DEF Inv, TypeOK, Task, Select, InPass, SchedulerAssumption
<1>5. Selected' \subseteq input'.candidates
  BY <1>1, <1>2 DEF Inv
<1>6. DependenciesFirst'
  <2> SUFFICES ASSUME input.require, NEW i \in DOMAIN selected', NEW d \in input.dependsOn[selected'[i]],
                      d \notin input.merged
               PROVE  \E j \in 1..(i - 1) : selected'[j] = d
    BY <1>1 DEF DependenciesFirst
  <2>1. DOMAIN selected = 1..Len(selected)
    BY DEF Inv, TypeOK
  <2>2. CASE i \in DOMAIN selected
    <3>1. PICK j \in 1..(i - 1) : selected[j] = d
      BY <1>2, <2>2 DEF Inv, DependenciesFirst
    <3>2. j \in DOMAIN selected
      BY <2>1, <2>2
    <3> QED
      BY <1>2, <3>1, <3>2
  <2>3. CASE i = Len(selected) + 1
    <3>1. d \in Selected
      BY <1>1, <1>2, <2>3 DEF Missing
    <3>2. PICK j \in DOMAIN selected : selected[j] = d
      BY <3>1 DEF Selected
    <3>3. j \in 1..(i - 1)
      BY <2>1, <2>3, <3>2 DEF Inv, TypeOK
    <3> QED
      BY <1>2, <3>2, <3>3
  <2> QED
    BY <1>2, <2>2, <2>3
<1>7. PlanCompatible'
  <2>1. totalCommits' <= MaxCommits
    BY <1>1 DEF Fits
  <2>2. Len(selected') <= input'.maxTasks
    <3>1. input.maxTasks \in Nat /\ Len(selected) \in Nat
      BY InputTypes DEF Inv, TypeOK
    <3> QED
      BY <1>1, <1>2, <3>1 DEF Full
  <2>3. ASSUME NEW i \in DOMAIN selected', NEW j \in DOMAIN selected', i # j
        PROVE  selected'[i] # selected'[j] /\ {selected'[i], selected'[j]} \notin input'.collides
    <3>1. CASE i \in DOMAIN selected /\ j \in DOMAIN selected
      BY <1>1, <1>2, <2>3, <3>1 DEF Inv, PlanCompatible
    <3>2. ASSUME NEW k \in DOMAIN selected
          PROVE  selected[k] # t /\ {selected[k], t} \notin input.collides
      BY <1>1, <3>2 DEF Selected, Collides
    <3>3. CASE i \in DOMAIN selected /\ j = Len(selected) + 1
      BY <1>1, <1>2, <3>2, <3>3
    <3>4. CASE j \in DOMAIN selected /\ i = Len(selected) + 1
      <4>1. {selected'[i], selected'[j]} = {selected'[j], selected'[i]}
        OBVIOUS
      <4> QED
        BY <1>1, <1>2, <3>2, <3>4, <4>1
    <3> QED
      BY <1>2, <2>3, <3>1, <3>3, <3>4
  <2> QED
    BY <2>1, <2>2, <2>3 DEF PlanCompatible
<1>8. EarlyReasons'
  <2> SUFFICES ASSUME NEW u \in Task
               PROVE  /\ rejected[u] \in {NoReason, "batch commit limit", "conflicting change set"}
                      /\ rejected[u] = "batch commit limit" => ~Fits(u)'
                      /\ rejected[u] = "conflicting change set" => Collides(u)'
                      /\ rejected[u] # NoReason => u \notin Selected'
    BY <1>1 DEF EarlyReasons
  <2>1. rejected[u] = "batch commit limit" => ~Fits(u)'
    <3>1. input.commits[u] \in Nat /\ totalCommits \in Nat /\ MaxCommits \in Nat
      BY InputTypes DEF Inv, TypeOK
    <3>2. rejected[u] = "batch commit limit" => ~Fits(u)
      BY <1>1 DEF Inv, EarlyReasons
    <3>3. ~Fits(u) => ~Fits(u)'
      <4>1. totalCommits' = totalCommits + input.commits[next] /\ input' = input
        BY <1>1
      <4> QED
        BY <1>3, <3>1, <4>1 DEF Fits
    <3> QED
      BY <3>2, <3>3
  <2>2. rejected[u] = "conflicting change set" => Collides(u)'
    BY <1>1, <1>2 DEF Inv, EarlyReasons, Collides
  <2>3. rejected[t] = NoReason
    BY DEF Select, Open
  <2> QED
    BY <1>1, <1>2, <2>1, <2>2, <2>3 DEF Inv, EarlyReasons
<1>9. PassWaits' /\ ReasonsHold'
  BY <1>1 DEF PassWaits, ReasonsHold
<1> QED
  BY <1>4, <1>5, <1>6, <1>7, <1>8, <1>9 DEF Inv

\* A rejection, or passing over a candidate, leaves the plan as it is.
LEMMA PassKeeps ==
  ASSUME Inv, Skip \/ RejectLarge \/ RejectColliding \/ NextPass
  PROVE  Inv'
<1>1. UNCHANGED <<input, selected, totalCommits, done>> /\ ~done
  BY DEF Skip, RejectLarge, RejectColliding, Reject, NextPass, InPass
<1>2. TypeOK'
  <2>1. next' \in 1..(N + 1)
    <3>1. N \in Nat /\ next \in 1..(N + 1)
      BY SchedulerAssumption DEF SchedulerAssumption, Inv, TypeOK
    <3>2. next' = 1 \/ (next <= N /\ next' = next + 1)
      BY DEF Skip, RejectLarge, RejectColliding, Reject, NextPass, InPass
    <3> QED
      BY <3>1, <3>2
  <2>2. rejected' \in [Task -> Reason \cup {NoReason}] /\ madeProgress' \in BOOLEAN
    BY DEF Inv, TypeOK, Reason, Skip, RejectLarge, RejectColliding, Reject, NextPass
  <2> QED
    BY <1>1, <2>1, <2>2 DEF Inv, TypeOK
<1>3. Selected' = Selected /\ UNCHANGED input
  BY <1>1 DEF Selected
<1>4. DependenciesFirst' /\ PlanCompatible' /\ ReasonsHold'
  BY <1>1 DEF Inv, DependenciesFirst, PlanCompatible, ReasonsHold
<1>5. \A t \in Task : (Fits(t)' <=> Fits(t)) /\ (Collides(t)' <=> Collides(t)) /\ Missing(t)' = Missing(t)
  BY <1>1, <1>3 DEF Fits, Collides, Missing
<1>6. EarlyReasons'
  <2>1. CASE Skip \/ NextPass
    BY <1>1, <1>3, <1>5, <2>1 DEF Inv, EarlyReasons, Skip, NextPass
  <2>2. CASE RejectLarge
    BY <1>1, <1>3, <1>5, <2>2 DEF Inv, TypeOK, EarlyReasons, RejectLarge, Reject, Open, NoReason
  <2>3. CASE RejectColliding
    BY <1>1, <1>3, <1>5, <2>3 DEF Inv, TypeOK, EarlyReasons, RejectColliding, Reject, Open, NoReason
  <2> QED
    BY <2>1, <2>2, <2>3
<1>a. /\ next <= N => next \in Task
      /\ \A t \in Task : t < next + 1 /\ t # next => t < next
  <2>1. N \in Nat /\ next \in 1..(N + 1)
    BY SchedulerAssumption DEF SchedulerAssumption, Inv, TypeOK
  <2> QED
    BY <2>1 DEF Task
<1>7. PassWaits'
  <2> SUFFICES ASSUME ~madeProgress', NEW t \in Task, t < next', Open(t)'
               PROVE  Missing(t) # {}
    BY <1>5 DEF PassWaits
  <2>1. CASE NextPass
    BY <2>1 DEF NextPass, Task
  <2>2. CASE Skip
    <3>1. ~madeProgress /\ Open(t) /\ (t < next \/ t = next)
      BY <1>3, <2>2 DEF Skip, Open, Inv, TypeOK, Task
    <3> QED
      BY <1>1, <2>2, <3>1 DEF Inv, PassWaits, Skip
  <2>3. CASE RejectLarge \/ RejectColliding
    <3>1. next' = next + 1 /\ next <= N
      BY <2>3 DEF RejectLarge, RejectColliding, Reject, InPass
    <3>2. ~madeProgress
      BY <2>3 DEF RejectLarge, RejectColliding, Reject
    <3>3. PICK r \in {"batch commit limit", "conflicting change set"} :
                 rejected' = [rejected EXCEPT ![next] = r]
      BY <2>3 DEF RejectLarge, RejectColliding, Reject
    <3>5. next \in Task
      BY <1>a, <3>1
    <3>6. t # next
      BY <3>3, <3>5 DEF Inv, TypeOK, Open, NoReason
    <3>7. Open(t)
      BY <1>3, <3>3, <3>6 DEF Inv, TypeOK, Open
    <3>8. t < next
      BY <1>a, <3>1, <3>6
    <3> QED
      BY <1>1, <3>2, <3>7, <3>8 DEF Inv, PassWaits
  <2> QED
    BY <2>1, <2>2, <2>3
<1> QED
  BY <1>2, <1>3, <1>4, <1>6, <1>7 DEF Inv

\* The report adds only reasons that hold.
LEMMA ReportKeeps ==
  ASSUME Inv, Report
  PROVE  Inv'
<1>1. UNCHANGED <<input, selected, totalCommits, next, madeProgress>> /\ ~done /\ done' = TRUE
  BY DEF Report
<1>2. Selected' = Selected /\ (Full' <=> Full)
  BY <1>1 DEF Selected, Full
<1>3. \A t \in Task : (Fits(t)' <=> Fits(t)) /\ (Collides(t)' <=> Collides(t)) /\ Missing(t)' = Missing(t)
  BY <1>1, <1>2 DEF Fits, Collides, Missing
<1>4. TypeOK'
  BY <1>1 DEF Inv, TypeOK, Report, Reason
<1>5. DependenciesFirst' /\ PlanCompatible'
  BY <1>1 DEF Inv, DependenciesFirst, PlanCompatible
<1>6. EarlyReasons' /\ PassWaits'
  BY <1>1 DEF EarlyReasons, PassWaits
<1>7. ReasonsHold'
  <2> SUFFICES ASSUME NEW t \in input.candidates
               PROVE  IF t \in Selected THEN rejected'[t] = NoReason ELSE Holds(t)'
    BY <1>1, <1>2 DEF ReasonsHold
  <2>1. t \in Task
    BY DEF Inv, TypeOK, Input
  <2>2. rejected'[t] = IF ~Open(t) THEN rejected[t]
                       ELSE IF Missing(t) # {} THEN "dependencies not integrated"
                       ELSE "batch task limit"
    BY <2>1 DEF Report
  <2>3. CASE t \in Selected
    BY <1>1, <2>1, <2>2, <2>3 DEF Open, Inv, EarlyReasons
  <2>4. CASE t \notin Selected /\ Open(t)
    <3>1. Missing(t) = {} => Full
      <4>1. Full \/ (next > N /\ ~madeProgress)
        BY DEF Report, Again
      <4>2. next > N => t < next
        BY <2>1, SchedulerAssumption DEF Inv, TypeOK, Task, SchedulerAssumption
      <4> QED
        BY <1>1, <2>1, <2>4, <4>1, <4>2 DEF Inv, PassWaits
    <3> QED
      BY <1>2, <1>3, <2>1, <2>2, <2>4, <3>1 DEF Holds
  <2>5. CASE t \notin Selected /\ ~Open(t)
    <3>1. rejected[t] \in {"batch commit limit", "conflicting change set"}
      BY <1>1, <2>1, <2>5 DEF Open, Inv, EarlyReasons
    <3> QED
      BY <1>1, <1>2, <1>3, <2>1, <2>2, <2>5, <3>1 DEF Holds, Inv, EarlyReasons, NoReason
  <2> QED
    BY <2>3, <2>4, <2>5
<1> QED
  BY <1>1, <1>2, <1>4, <1>5, <1>6, <1>7 DEF Inv

LEMMA SchedulerStep == Inv /\ [Next]_vars => Inv'
<1> SUFFICES ASSUME Inv, [Next]_vars
             PROVE  Inv'
  OBVIOUS
<1>1. CASE Next
  BY <1>1, SelectKeeps, PassKeeps, ReportKeeps DEF Next
<1>2. CASE UNCHANGED vars
  <2>1. Selected' = Selected /\ UNCHANGED vars
    BY <1>2 DEF Selected, vars
  <2>2. TypeOK'
    BY <2>1 DEF vars, Inv, TypeOK
  <2>6. DependenciesFirst' /\ PlanCompatible'
    BY <2>1 DEF vars, Inv, DependenciesFirst, PlanCompatible
  <2>3. EarlyReasons'
    BY <2>1 DEF vars, Inv, EarlyReasons, Fits, Collides
  <2>4. PassWaits'
    BY <2>1 DEF vars, Inv, PassWaits, Open, Missing
  <2>5. ReasonsHold'
    BY <2>1 DEF vars, Inv, ReasonsHold, Holds, Fits, Collides, Missing, Full
  <2> QED
    BY <2>1, <2>2, <2>3, <2>4, <2>5, <2>6 DEF vars, Inv
<1> QED
  BY <1>1, <1>2

\* However many tasks there are, the plan applies every receipt after its dependencies
\* and keeps the limits, and no two of its receipts collide.  [scheduler.ts scheduleTasks]
THEOREM PlanSound == Spec => [](DependenciesFirst /\ PlanCompatible)
<1>1. Inv => DependenciesFirst /\ PlanCompatible
  BY DEF Inv
<1> QED
  BY <1>1, SchedulerInit, SchedulerStep, PTL DEF Spec

\* However many tasks there are, whoever is left out is left out for a reason that is true
\* of the finished plan.  [scheduler.ts scheduleTasks]
THEOREM ReasonsCorrect == Spec => []ReasonsHold
<1>1. Inv => ReasonsHold
  BY DEF Inv
<1> QED
  BY <1>1, SchedulerInit, SchedulerStep, PTL DEF Spec
=============================================================================
