-------------------------- MODULE BrokerLockProofs --------------------------
(***************************************************************************)
(* Theorems about BrokerLock, for any number of processes and unlockers,   *)
(* and whatever exits, is killed or is unlocked when: no record that       *)
(* somebody still relies on is deleted, a tombstone stops the delayed      *)
(* reclaimers of a killed owner, and the fence loses no update until a     *)
(* lock is moved behind its back.                                          *)
(***************************************************************************)
EXTENDS BrokerLock, TLAPS

\* A process that probes, reclaims or releases knows whose lock it is after.
Aiming == {"probe", "reclaim", "checkReclaimed", "release", "retire", "checkReleased"}
Aimed == \A p \in Proc : pc[p] \in Aiming => target[p] \in Proc

\* A reclaimer is after the lock of an owner that is gone.
ReclaimsGone == \A p \in Proc : pc[p] = "reclaim" => target[p] \in Gone

\* A call releases its own lock; an unlocker that of a process that is gone, and it
\* reads an owner once.
ReleasesOwn ==
    \A p \in Proc \ Unlocker :
        pc[p] \in {"load", "fence", "write", "release", "retire", "checkReleased"} => target[p] = p
UnlocksGone ==
    \A p \in Unlocker :
        /\ pc[p] \in {"release", "retire", "checkReleased"} => target[p] \in Gone
        /\ pc[p] = "acquire" => target[p] = None
        /\ pc[p] \in {"acquire", "probe", "release", "retire", "checkReleased", "done", "exited"}

SurvivalInv == TypeOK /\ Aimed /\ ReclaimsGone /\ ReleasesOwn /\ UnlocksGone /\ LockSurvives

AnyStep(p) ==
    \/ Contend(p) \/ GiveUp(p) \/ Load(p) \/ Fence(p) \/ Write(p)
    \/ Release(p) \/ Retire(p) \/ FinishRelease(p) \/ Disappear(p)

\* The directory that an undone reclaim or release puts back is that of a target it read.
LEMMA TypeStep ==
  ASSUME ProcAssumption, TypeOK, Aimed, NEW p \in Proc,
         AnyStep(p)
  PROVE  TypeOK'
<1> DEFINE Dirs == /\ active \in Proc \cup {None}
                   /\ reclaimed \in [Proc -> Proc \cup {None}]
                   /\ released \in [Proc -> Proc \cup {None}]
                   /\ target \in [Proc -> Proc \cup {None}]
<1>t. TypeOK /\ Aimed
  OBVIOUS
<1>1. Dirs'
  <2>1. CASE ReclaimUndone(p)
    <3>1. target[p] \in Proc /\ reclaimed[target[p]] \in Proc \cup {None}
      BY <1>t, <2>1 DEF TypeOK, Aimed, Aiming, ReclaimUndone
    <3> QED
      BY <1>t, <2>1, <3>1 DEF TypeOK, ReclaimUndone
  <2>2. CASE FinishRelease(p)
    <3>1. target[p] \in Proc /\ released[target[p]] \in Proc \cup {None}
      BY <1>t, <2>2 DEF TypeOK, Aimed, Aiming, FinishRelease
    <3> QED
      BY <1>t, <2>2, <3>1 DEF TypeOK, FinishRelease
  <2>3. CASE Reclaim(p) \/ Retire(p)
    BY <1>t, <2>3 DEF TypeOK, Reclaim, Retire
  <2>4. CASE Acquire(p) \/ ReadOwner(p)
    BY <1>t, <2>4 DEF TypeOK, Acquire, ReadOwner, dirs
  <2>5. CASE UNCHANGED <<active, reclaimed, released, target>>
    BY <1>t, <2>5 DEF TypeOK
  <2>6. \/ ReclaimUndone(p) \/ FinishRelease(p) \/ Reclaim(p) \/ Retire(p)
        \/ Acquire(p) \/ ReadOwner(p) \/ UNCHANGED <<active, reclaimed, released, target>>
    BY DEF AnyStep, dirs, Contend, Probe, ReclaimRefused, ReclaimConfirmed, KeepTombstone, GiveUp, Load, Fence,
           Write, Release, Disappear
  <2> QED
    BY <2>1, <2>2, <2>3, <2>4, <2>5, <2>6
<1>2. pc' \in [Proc -> Steps]
  BY <1>t DEF TypeOK, Steps, AnyStep, Goto, Contend, Acquire, ReadOwner, Probe, Reclaim, ReclaimRefused,
         ReclaimConfirmed, ReclaimUndone, GiveUp, Load, Fence, Write, Release, Retire,
         FinishRelease, Disappear
<1>3. Ended \subseteq Ended'
  BY <1>t DEF TypeOK, Ended, AnyStep, Goto, Contend, Acquire, ReadOwner, Probe, Reclaim, ReclaimRefused,
         ReclaimConfirmed, ReclaimUndone, GiveUp, Load, Fence, Write, Release, Retire,
         FinishRelease, Disappear
<1>s. slipped' \subseteq Proc
  BY <1>t DEF TypeOK, Slips, AnyStep, Contend, Acquire, ReadOwner, Probe, Reclaim, ReclaimRefused,
         ReclaimConfirmed, ReclaimUndone, GiveUp, Load, Fence, Write, Release, Retire,
         FinishRelease, Disappear
<1>4. CASE Load(p)
  <2>1. UNCHANGED file /\ snapshot' = [snapshot EXCEPT ![p] = file]
    BY <1>4 DEF Load, dirs
  <2> QED
    BY <1>t, <1>1, <1>2, <1>3, <1>s, <2>1 DEF TypeOK
<1>5. CASE Write(p)
  <2>1. file' = snapshot[p] \cup {p} /\ UNCHANGED snapshot
    BY <1>5 DEF Write
  <2>2. p \in Ended'
    BY <1>t, <1>5 DEF TypeOK, Write, Goto, Ended
  <2> QED
    BY <1>t, <1>1, <1>2, <1>3, <1>s, <2>1, <2>2 DEF TypeOK
<1>6. CASE UNCHANGED <<file, snapshot>>
  BY <1>t, <1>1, <1>2, <1>3, <1>s, <1>6 DEF TypeOK
<1>7. Load(p) \/ Write(p) \/ UNCHANGED <<file, snapshot>>
  BY DEF AnyStep, dirs, Contend, Acquire, ReadOwner, Probe, Reclaim, ReclaimRefused, ReclaimConfirmed,
         ReclaimUndone, GiveUp, Fence, Release, Retire, FinishRelease, Disappear
<1> QED
  BY <1>4, <1>5, <1>6, <1>7

\* A process that moves leaves the others where they are.
LEMMA OthersStay ==
  ASSUME TypeOK, NEW p \in Proc, AnyStep(p)
  PROVE  \A q \in Proc \ {p} : pc'[q] = pc[q] /\ target'[q] = target[q]
  BY DEF TypeOK, AnyStep, Goto, Contend, Acquire, ReadOwner, Probe, Reclaim, ReclaimRefused,
         ReclaimConfirmed, ReclaimUndone, GiveUp, Load, Fence, Write, Release, Retire,
         FinishRelease, Disappear

\* Who is gone stays gone.
LEMMA GoneStay ==
  ASSUME TypeOK, NEW p \in Proc, AnyStep(p)
  PROVE  /\ Gone \subseteq Gone' /\ p \notin Gone
         /\ \A q \in Proc : pc[q] = "dead" => pc'[q] = "dead"
<1>1. p \notin Gone
  BY DEF Gone, AnyStep, Contend, Acquire, ReadOwner, Probe, Reclaim, ReclaimRefused, ReclaimConfirmed,
         ReclaimUndone, GiveUp, Load, Fence, Write, Release, Retire, FinishRelease, Disappear
<1>2. \A q \in Proc \ {p} : pc'[q] = pc[q]
  BY OthersStay
<1> QED
  BY <1>1, <1>2 DEF Gone

LEMMA AimStep ==
  ASSUME ProcAssumption, SurvivalInv, NEW p \in Proc, AnyStep(p)
  PROVE  Aimed' /\ ReclaimsGone' /\ ReleasesOwn' /\ UnlocksGone'
<1>t. TypeOK
  BY DEF SurvivalInv
<1>o. \A q \in Proc \ {p} : pc'[q] = pc[q] /\ target'[q] = target[q]
  BY <1>t, OthersStay
<1>d. Gone \subseteq Gone'
  BY <1>t, GoneStay
<1>1. Aimed'
  <2>0. pc'[p] \in Aiming => target'[p] \in Proc
    <3>1. CASE Acquire(p)
      BY <1>t, <3>1 DEF TypeOK, Acquire
    <3>2. CASE ReadOwner(p)
      BY <1>t, <3>2 DEF TypeOK, ReadOwner
    <3>3. CASE Fence(p) \/ Write(p)
      <4>1. target[p] = p
        BY <3>3 DEF SurvivalInv, ReleasesOwn, UnlocksGone, Fence, Write
      <4> QED
        BY <3>3, <4>1 DEF Fence, Write
    <3>4. CASE pc[p] \in Aiming /\ UNCHANGED target
      BY <3>4 DEF SurvivalInv, Aimed
    <3>5. \/ Acquire(p) \/ ReadOwner(p) \/ Fence(p) \/ Write(p)
          \/ pc[p] \in Aiming /\ UNCHANGED target
          \/ pc'[p] \notin Aiming
      BY <1>t DEF TypeOK, Aiming, AnyStep, Goto, Contend, Probe, Reclaim, ReclaimRefused,
         ReclaimConfirmed, ReclaimUndone, GiveUp, Load, Release, Retire, FinishRelease, Disappear
    <3> QED
      BY <3>1, <3>2, <3>3, <3>4, <3>5
  <2> QED
    BY <1>o, <2>0 DEF SurvivalInv, Aimed
<1>2. ReclaimsGone'
  <2>1. pc'[p] = "reclaim" => target'[p] \in Gone
    BY <1>t DEF TypeOK, Crashed, AnyStep, Goto, Contend, Acquire, ReadOwner, Probe, Reclaim,
         ReclaimRefused, ReclaimConfirmed, ReclaimUndone, GiveUp, Load, Fence, Write, Release, Retire,
         FinishRelease, Disappear
  <2> QED
    BY <1>o, <1>d, <2>1 DEF SurvivalInv, ReclaimsGone
<1>3. ReleasesOwn'
  <2>1. p \notin Unlocker =>
          (pc'[p] \in {"load", "fence", "write", "release", "retire", "checkReleased"} => target'[p] = p)
    BY <1>t DEF SurvivalInv, TypeOK, ReleasesOwn, AnyStep, Goto, Contend, Acquire,
         ReadOwner, Probe, Reclaim, ReclaimRefused, ReclaimConfirmed, ReclaimUndone, GiveUp, Load,
         Fence, Write, Release, Retire, FinishRelease, Disappear
  <2> QED
    BY <1>o, <2>1 DEF SurvivalInv, ReleasesOwn
<1>4. UnlocksGone'
  <2>1. p \in Unlocker => pc[p] \notin {"load", "fence", "write", "reclaim", "checkReclaimed"}
    BY DEF SurvivalInv, UnlocksGone
  <2>2. p \in Unlocker => pc'[p] # "acquire"
    BY <1>t, <2>1 DEF TypeOK, AnyStep, Goto, Contend, Acquire, ReadOwner, Probe,
         Reclaim, ReclaimRefused, ReclaimConfirmed, ReclaimUndone, GiveUp, Load, Fence, Write, Release,
         Retire, FinishRelease, Disappear
  <2>3. p \in Unlocker =>
          (pc'[p] \in {"release", "retire", "checkReleased"} => target'[p] \in Gone)
    BY <1>t, <2>1 DEF SurvivalInv, TypeOK, UnlocksGone, Crashed, AnyStep, Goto, Contend, Acquire,
         ReadOwner, Probe, Reclaim, ReclaimRefused, ReclaimConfirmed, ReclaimUndone, GiveUp, Load,
         Fence, Write, Release, Retire, FinishRelease, Disappear
  <2>4. p \in Unlocker =>
          pc'[p] \in {"acquire", "probe", "release", "retire", "checkReleased", "done", "exited"}
    BY <1>t, <2>1 DEF TypeOK, Holding, AnyStep, Goto, Contend, Acquire, ReadOwner, Probe, Reclaim,
         ReclaimRefused, ReclaimConfirmed, ReclaimUndone, GiveUp, Load, Fence, Write, Release, Retire,
         FinishRelease, Disappear
  <2> QED
    BY <1>o, <1>d, <2>2, <2>3, <2>4, ProcAssumption DEF SurvivalInv, UnlocksGone, ProcAssumption
<1> QED
  BY <1>1, <1>2, <1>3, <1>4

\* A record goes from one place to another, and is deleted by its owner or once that is dead.
LEMMA RecordKept ==
  ASSUME ProcAssumption, SurvivalInv, NEW p \in Proc, AnyStep(p), ~Acquire(p),
         NEW x \in Proc, OnDisk(x), pc'[x] # "checkReleased",
         \/ x \notin Unlocker /\ pc[x] \in {"load", "fence", "write", "release", "retire"}
         \/ pc[x] = "dead" /\ ~Unlocked(x)
  PROVE  OnDisk(x)'
<1>t. TypeOK /\ x # None /\ OnDisk(x)
  BY DEF SurvivalInv, ProcAssumption
<1>4. pc[p] \in Aiming => target[p] \in Proc
  BY DEF SurvivalInv, Aimed
<1>5. CASE Reclaim(p)
  <2>1. /\ target[p] \in Proc /\ reclaimed[target[p]] = None
        /\ reclaimed' = [reclaimed EXCEPT ![target[p]] = active] /\ UNCHANGED released
    BY <1>4, <1>5 DEF Reclaim, Aiming
  <2> QED
    BY <1>t, <2>1 DEF OnDisk, TypeOK
<1>6. CASE ReclaimUndone(p)
  <2>1. /\ target[p] \in Proc /\ UNCHANGED released
        /\ \/ UNCHANGED <<active, reclaimed>>
           \/ /\ active = None /\ active' = reclaimed[target[p]]
              /\ reclaimed' = [reclaimed EXCEPT ![target[p]] = None]
    BY <1>4, <1>6 DEF ReclaimUndone, Aiming
  <2> QED
    BY <1>t, <2>1 DEF OnDisk, TypeOK
<1>7. CASE Retire(p)
  <2>1. /\ target[p] \in Proc /\ UNCHANGED reclaimed
        /\ \/ UNCHANGED <<active, released>>
           \/ /\ released[target[p]] = None
              /\ released' = [released EXCEPT ![target[p]] = active]
    BY <1>4, <1>7 DEF Retire, Aiming
  <2> QED
    BY <1>t, <2>1 DEF OnDisk, TypeOK
<1>8. CASE FinishRelease(p)
  <2>1. pc[p] = "checkReleased" /\ target[p] \in Proc /\ UNCHANGED reclaimed
    BY <1>4, <1>8 DEF FinishRelease, Aiming
  <2>2. x # target[p]
    <3>1. CASE p \in Unlocker
      <4>1. target[p] \in Gone
        BY <2>1, <3>1 DEF SurvivalInv, UnlocksGone
      <4>2. x # target[p] \/ Unlocked(x)
        BY <3>1 DEF Unlocked
      <4> QED
        BY <4>1, <4>2 DEF Gone
    <3>2. CASE p \notin Unlocker
      <4>1. target[p] = p /\ pc[p] = "checkReleased"
        BY <2>1, <3>2 DEF SurvivalInv, ReleasesOwn
      <4> QED
        BY <4>1
    <3> QED
      BY <3>1, <3>2
  <2>3. \/ UNCHANGED <<active, released>>
        \/ /\ released[target[p]] = target[p] /\ active' = active
           /\ released' = [released EXCEPT ![target[p]] = None]
        \/ /\ active = None /\ active' = released[target[p]]
           /\ released' = [released EXCEPT ![target[p]] = None]
    BY <1>8 DEF FinishRelease, RetiredOwn
  <2> QED
    BY <1>t, <2>1, <2>2, <2>3 DEF OnDisk, TypeOK
<1>9. CASE UNCHANGED <<active, reclaimed, released>>
  BY <1>t, <1>9 DEF OnDisk, dirs
<1>10. \/ Reclaim(p) \/ ReclaimUndone(p) \/ Retire(p) \/ FinishRelease(p)
       \/ UNCHANGED <<active, reclaimed, released>>
  BY DEF dirs, AnyStep, Contend, ReadOwner, Probe, ReclaimRefused, ReclaimConfirmed, KeepTombstone, GiveUp,
         Load, Fence, Write, Release, Disappear
<1> QED
  BY <1>5, <1>6, <1>7, <1>8, <1>9, <1>10

LEMMA SurvivesStep ==
  ASSUME ProcAssumption, SurvivalInv, NEW p \in Proc, AnyStep(p)
  PROVE  LockSurvives'
<1>t. TypeOK /\ None \notin Proc
  BY DEF SurvivalInv, ProcAssumption
<1>1. ASSUME NEW x \in Proc \ Unlocker, Unlocked(x)
      PROVE  Unlocked(x)'
  <2>1. PICK u \in Unlocker : target[u] = x
    BY <1>1 DEF Unlocked
  <2>2. u \in Proc /\ pc[u] # "acquire"
    BY <1>t, <2>1, ProcAssumption DEF SurvivalInv, UnlocksGone, ProcAssumption
  <2>3. target'[u] = x
    <3>1. CASE u = p
      BY <2>1, <2>2, <3>1 DEF AnyStep, Contend, Acquire, ReadOwner, Probe, Reclaim, ReclaimRefused,
         ReclaimConfirmed, ReclaimUndone, GiveUp, Load, Fence, Write, Release, Retire, FinishRelease,
         Disappear
    <3>2. CASE u # p
      BY <1>t, <2>1, <2>2, <3>2, OthersStay
    <3> QED
      BY <3>1, <3>2
  <2> QED
    BY <2>3 DEF Unlocked
<1>2. CASE Acquire(p)
  <2>1. active' = p /\ active = None /\ UNCHANGED <<reclaimed, released>>
    BY <1>2 DEF Acquire
  <2>2. \A x \in Proc \ Unlocker : OnDisk(x) => OnDisk(x)'
    BY <1>t, <2>1 DEF OnDisk
  <2>3. \A x \in Proc \ {p} : pc'[x] = pc[x]
    BY <1>t, OthersStay
  <2>4. OnDisk(p)' /\ pc'[p] = "load"
    BY <1>t, <1>2, <2>1 DEF OnDisk, TypeOK, Acquire, Goto
  <2> QED
    BY <1>1, <2>2, <2>3, <2>4 DEF SurvivalInv, LockSurvives
<1>3. CASE ~Acquire(p)
  <2> SUFFICES ASSUME NEW x \in Proc \ Unlocker,
                      \/ pc'[x] \in {"load", "fence", "write", "release", "retire"}
                      \/ pc'[x] = "dead" /\ ~Unlocked(x)'
               PROVE  OnDisk(x)'
    BY DEF LockSurvives
  <2>1. ~(pc'[x] = "dead") \/ ~Unlocked(x)
    BY <1>1
  <2>2. \/ pc[x] \in {"load", "fence", "write", "release", "retire"}
        \/ pc[x] = "dead" /\ ~Unlocked(x)
    <3>1. CASE x # p
      BY <1>t, <2>1, <3>1, OthersStay
    <3>2. CASE x = p
      BY <1>t, <1>3, <3>2 DEF TypeOK, Holding, AnyStep, Goto, Contend, ReadOwner, Probe, Reclaim,
         ReclaimRefused, ReclaimConfirmed, ReclaimUndone, GiveUp, Load, Fence, Write, Release, Retire,
         FinishRelease, Disappear
    <3> QED
      BY <3>1, <3>2
  <2>3. OnDisk(x)
    BY <2>2 DEF SurvivalInv, LockSurvives
  <2>4. x \in Proc /\ x \notin Unlocker /\ pc'[x] # "checkReleased"
    OBVIOUS
  <2> QED
    BY <1>3, <2>2, <2>3, <2>4, RecordKept, ProcAssumption
<1> QED
  BY <1>2, <1>3

LEMMA SurvivalStep == SurvivalInv /\ [Next]_vars => SurvivalInv'
<1> SUFFICES ASSUME SurvivalInv, [Next]_vars
             PROVE  SurvivalInv'
  OBVIOUS
<1>1. ASSUME NEW p \in Proc, AnyStep(p)
      PROVE  SurvivalInv'
  <2>1. TypeOK'
    BY <1>1, ProcAssumption, TypeStep DEF SurvivalInv, AnyStep
  <2>2. LockSurvives'
    BY <1>1, ProcAssumption, SurvivesStep
  <2> QED
    BY <1>1, <2>1, <2>2, ProcAssumption, AimStep DEF SurvivalInv
<1>2. CASE UNCHANGED vars
  BY <1>2 DEF vars, dirs, SurvivalInv, TypeOK, Ended, Gone, Aimed, ReclaimsGone, ReleasesOwn,
              UnlocksGone, LockSurvives, OnDisk, Unlocked
<1>3. Next => \E p \in Proc : AnyStep(p)
  BY DEF Next, AnyStep
<1> QED
  BY <1>1, <1>2, <1>3

LEMMA SurvivalInit == Init => SurvivalInv
  BY ProcAssumption DEF ProcAssumption, Init, SurvivalInv, TypeOK, Ended, Steps, Aimed, Aiming,
     ReclaimsGone, ReleasesOwn, UnlocksGone, LockSurvives, OnDisk

\* The types of the lock directories and of what processes remember of them, whoever
\* disappears when.  [store.ts withLock]
THEOREM TypeCorrect == Spec => []TypeOK
<1>1. SurvivalInv => TypeOK
  BY DEF SurvivalInv
<1> QED
  BY <1>1, SurvivalInit, SurvivalStep, PTL DEF Spec

\* The record of a call that still relies on its lock is never deleted: at worst it is
\* moved aside, and the call notices; that of a killed call is deleted by an unlocker
\* only.  [store.ts reclaimLock, releaseOwnedLock]
THEOREM RecordSurvives == Spec => []LockSurvives
<1>1. SurvivalInv => LockSurvives
  BY DEF SurvivalInv
<1> QED
  BY <1>1, SurvivalInit, SurvivalStep, PTL DEF Spec

\* The tombstone of a killed owner keeps every delayed reclaimer off the locks taken
\* since.  [store.ts reclaimLock]
THEOREM TombstonesHold == Spec => ReclaimersYield
<1> DEFINE Yields(p) == (Reclaim(p) /\ active # target[p]) =>
                            \/ pc[target[p]] = "exited"
                            \/ Displaced(target[p])
                            \/ Unlocked(target[p])
<1>1. ASSUME SurvivalInv, NEW p \in Proc
      PROVE  Yields(p)
  <2> SUFFICES ASSUME Reclaim(p), active # target[p], pc[target[p]] # "exited", ~Unlocked(target[p])
               PROVE  Displaced(target[p])
    OBVIOUS
  <2>1. pc[p] = "reclaim" /\ reclaimed[target[p]] = None
    BY DEF Reclaim
  <2>2. target[p] \in Proc /\ pc[target[p]] = "dead"
    BY <1>1, <2>1 DEF SurvivalInv, ReclaimsGone, Gone
  <2>3. OnDisk(target[p])
    BY <1>1, <2>2 DEF SurvivalInv, LockSurvives, UnlocksGone
  <2> QED
    BY <2>1, <2>2, <2>3, ProcAssumption DEF OnDisk, Displaced, ProcAssumption
<1>2. SurvivalInv => [\A p \in Proc : Yields(p)]_vars
  BY <1>1
<1>3. SurvivalInv /\ [Next]_vars => [\A p \in Proc : Yields(p)]_vars
  BY <1>2
<1>4. Spec => [][\A p \in Proc : Yields(p)]_vars
  BY <1>3, SurvivalInit, SurvivalStep, PTL DEF Spec
<1> QED
  BY <1>4 DEF ReclaimersYield

-----------------------------------------------------------------------------
(* The fence.                                                              *)

\* Until something slips, a call that has passed the fence owns the lock, and a call
\* that owns the lock has read the file as it is.
FenceInv ==
    slipped = {} =>
        \A p \in Proc :
            /\ pc[p] = "write" => active = p
            /\ (pc[p] \in {"fence", "write"} /\ active = p) => snapshot[p] = file

LEMMA FenceStep ==
  ASSUME ProcAssumption, SurvivalInv, FenceInv, NEW p \in Proc, AnyStep(p)
  PROVE  FenceInv' /\ (slipped = {} => file \subseteq file')
<1>t. TypeOK /\ None \notin Proc
  BY DEF SurvivalInv, ProcAssumption
<1>o. \A q \in Proc \ {p} : pc'[q] = pc[q]
  BY <1>t, OthersStay
<1>a. pc[p] \in Aiming => target[p] \in Proc
  BY DEF SurvivalInv, Aimed
<1>1. CASE Acquire(p)
  BY <1>t, <1>o, <1>1 DEF TypeOK, FenceInv, Acquire, Goto
<1>2. CASE Load(p)
  BY <1>t, <1>o, <1>2 DEF TypeOK, FenceInv, Load, Goto, dirs
<1>3. CASE Fence(p)
  BY <1>t, <1>o, <1>3 DEF TypeOK, FenceInv, Fence, LockOwned, Goto, dirs
<1>4. ASSUME Write(p) PROVE FenceInv'
  <2>1. /\ pc[p] = "write" /\ pc'[p] = "release"
        /\ UNCHANGED <<active, snapshot, slipped>>
    BY <1>t, <1>4 DEF TypeOK, Write, Goto, dirs
  <2>2. slipped = {} => active = p
    BY <2>1 DEF FenceInv
  <2> SUFFICES ASSUME slipped = {}, NEW q \in Proc, pc'[q] \in {"fence", "write"}
               PROVE  /\ pc'[q] = "write" => active' = q
                      /\ active' # q
    BY <2>1 DEF FenceInv
  <2>3. q # p /\ pc'[q] = pc[q]
    BY <1>o, <2>1
  <2> QED
    BY <2>1, <2>2, <2>3 DEF FenceInv
<1>5. ASSUME active \in Proc, active' = None, Slips(active, "write"),
             UNCHANGED <<file, snapshot>>, pc'[p] # "write"
      PROVE  FenceInv'
  BY <1>t, <1>o, <1>5 DEF TypeOK, FenceInv, Slips
<1>6. ASSUME NEW r \in Proc \cup {None}, active = None, active' = r, Slips(r, "fence"),
             UNCHANGED <<file, snapshot>>, pc'[p] \notin {"fence", "write"}
      PROVE  FenceInv'
  <2> SUFFICES ASSUME slipped' = {}, NEW q \in Proc, pc'[q] \in {"fence", "write"}
               PROVE  /\ pc'[q] = "write" => active' = q
                      /\ active' # q
    BY DEF FenceInv
  <2>1. q # p /\ pc'[q] = pc[q]
    BY <1>o, <1>6
  <2>2. slipped = {} /\ (r \in Proc => pc[r] # "fence")
    BY <1>6 DEF Slips
  <2>3. pc[q] # "write"
    BY <1>t, <1>6, <2>2 DEF FenceInv
  <2>4. pc[q] = "fence"
    BY <2>1, <2>3
  <2>5. q # r
    BY <2>2, <2>4
  <2> QED
    BY <1>6, <2>1, <2>4, <2>5
<1>7. ASSUME UNCHANGED <<active, file, snapshot, slipped>>, pc'[p] \notin {"fence", "write"}
      PROVE  FenceInv'
  BY <1>t, <1>o, <1>7 DEF TypeOK, FenceInv
<1>8. CASE Reclaim(p)
  BY <1>t, <1>5, <1>8 DEF TypeOK, Reclaim, Goto
<1>9. CASE Retire(p)
  BY <1>t, <1>5, <1>7, <1>9 DEF TypeOK, Retire, Goto
<1>10. CASE ReclaimUndone(p)
  <2>1. reclaimed[target[p]] \in Proc \cup {None}
    BY <1>t, <1>a, <1>10 DEF TypeOK, Aiming, ReclaimUndone
  <2> QED
    BY <1>t, <1>6, <1>7, <1>10, <2>1 DEF TypeOK, ReclaimUndone, Goto
<1>11. CASE FinishRelease(p)
  <2>1. released[target[p]] \in Proc \cup {None}
    BY <1>t, <1>a, <1>11 DEF TypeOK, Aiming, FinishRelease
  <2> QED
    BY <1>t, <1>6, <1>7, <1>11, <2>1 DEF TypeOK, FinishRelease, Goto
<1>12. CASE \/ ReadOwner(p) \/ Probe(p) \/ ReclaimRefused(p) \/ ReclaimConfirmed(p)
            \/ GiveUp(p) \/ Release(p) \/ Disappear(p)
  <2>1. UNCHANGED <<active, file, snapshot, slipped>>
    BY <1>12 DEF dirs, ReadOwner, Probe, ReclaimRefused, ReclaimConfirmed, GiveUp, Release, Disappear
  <2>2. pc'[p] \notin {"fence", "write"}
    BY <1>t, <1>12 DEF TypeOK, Goto, ReadOwner, Probe, ReclaimRefused, ReclaimConfirmed, GiveUp,
                       Release, Disappear
  <2> QED
    BY <1>7, <2>1, <2>2
<1>13. ~Write(p) => UNCHANGED file
  BY DEF AnyStep, Contend, Acquire, ReadOwner, Probe, Reclaim, ReclaimRefused, ReclaimConfirmed,
         ReclaimUndone, GiveUp, Load, Fence, Release, Retire, FinishRelease, Disappear
<1>14. FenceInv'
  BY <1>1, <1>2, <1>3, <1>4, <1>8, <1>9, <1>10, <1>11, <1>12 DEF AnyStep, Contend
<1> QED
  BY <1>13, <1>14 DEF Write, FenceInv

\* Until a lock is moved behind the fence's back, no transaction overwrites an update
\* that it did not read.  [store.ts transaction, assertLockOwned]
THEOREM FenceHolds == Spec => FenceCatches
<1> DEFINE Kept == slipped = {} => file \subseteq file'
<1>1. Init => FenceInv
  BY DEF Init, FenceInv
<1>2. ASSUME SurvivalInv, FenceInv, Next
      PROVE  FenceInv' /\ Kept
  BY <1>2, FenceStep, ProcAssumption DEF Next, AnyStep
<1>3. FenceInv /\ UNCHANGED vars => FenceInv'
  BY DEF vars, dirs, FenceInv
<1>4. SurvivalInv /\ FenceInv /\ [Next]_vars => FenceInv' /\ [Kept]_vars
  BY <1>2, <1>3
<1>5. Spec => [][Kept]_vars
  BY <1>1, <1>4, SurvivalInit, SurvivalStep, PTL DEF Spec
<1> QED
  BY <1>5 DEF FenceCatches
=============================================================================
