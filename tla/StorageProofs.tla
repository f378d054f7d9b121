---------------------------- MODULE StorageProofs ----------------------------
(***************************************************************************)
(* Theorems about Storage, for any processes, tasks, keys and files, any   *)
(* length at which the log is rotated, and any number of events and stops. *)
(***************************************************************************)
EXTENDS Storage, SequenceTheorems, TLAPS

-----------------------------------------------------------------------------
(* Type correctness.                                                       *)

\* With these TypeOK is inductive: a job that writes a key has one; a compaction and a
\* reading are at a segment that exists.
InHand ==
    /\ job.at \in {"keyed", "current"} => job.key \in Keys
    /\ job.at \in {"compress", "unlink"} => job.segment \in DOMAIN segments
    /\ reader.at \in {"original", "copy"} => reader.left <= Len(segments)
    /\ reader.at = "copy" => reader.left > 0
TypeInv == TypeOK /\ InHand

LEMMA IdleJob == /\ Idle \in Job /\ EmptyState \in StateFile
                 /\ Idle.at = "idle" /\ Idle.key = NoKey
  BY DEF Idle, Job, EmptyState, StateFile, Phases

LEMMA InitTypeOK == Init => TypeOK
<1> SUFFICES ASSUME Init
             PROVE  TypeOK
  OBVIOUS
<1>1. job \in Job /\ state \in StateJson
  BY IdleJob DEF Init, StateJson
<1>2. log \in AuditLog /\ segments \in Seq(Segment) /\ slices \subseteq SUBSET Tasks
  BY DEF Init, EmptyLog, AuditLog
<1>3. /\ format \in [Files -> {"none", "old", "newer", "current"}] /\ backups \subseteq Files
      /\ keys \in KeyFiles
      /\ policy \in Keys \cup {NoKey} /\ returned \subseteq Keys
      /\ told \subseteq Nat /\ seen \subseteq Tasks
  BY DEF Init, KeyFiles
<1>4. reader \in Reader
  BY DEF Init, Reader
<1> QED
  BY <1>1, <1>2, <1>3, <1>4 DEF TypeOK

\* Every way in which a step rewrites the progress of a job gives a job.
LEMMA JobUpdate ==
  ASSUME NEW r \in Job, NEW at \in Phases
  PROVE  /\ [r EXCEPT !.at = at] \in Job
         /\ [r EXCEPT !.at = at].at = at
         /\ \A n \in Nat : [r EXCEPT !.at = at, !.segment = n] \in Job
         /\ \A S \in SUBSET Files : [r EXCEPT !.at = at, !.todo = S] \in Job
         /\ \A S \in SUBSET Files : [r EXCEPT !.todo = S] \in Job
         /\ \A S \in SUBSET Tasks : [r EXCEPT !.slice = S] \in Job
         /\ \A k \in Keys : [r EXCEPT !.key = k] \in Job
         /\ \A e \in Seq(Nat), f \in StateFile :
              [r EXCEPT !.at = at, !.events = e, !.next = f] \in Job
  BY DEF Job

LEMMA FileUpdate ==
  ASSUME NEW r \in StateFile
  PROVE  /\ \A S \in SUBSET Tasks : [r EXCEPT !.tasks = S] \in StateFile
         /\ \A n \in Nat : [r EXCEPT !.sequence = n] \in StateFile
         /\ r.sequence \in Nat /\ r.tasks \in SUBSET Tasks
  BY DEF StateFile

LEMMA KeyUpdate ==
  ASSUME NEW r \in KeyFiles, NEW k \in Keys
  PROVE  [r EXCEPT !.copies = @ \cup {k}] \in KeyFiles /\ [r EXCEPT !.current = k] \in KeyFiles
  BY DEF KeyFiles

LEMMA SegmentUpdate ==
  ASSUME NEW r \in Segment
  PROVE  /\ \A c \in {"partial", "complete"} : [r EXCEPT !.copy = c] \in Segment
         /\ [r EXCEPT !.original = FALSE] \in Segment
         /\ r.lines \in Seq(Nat)
  BY DEF Segment

LEMMA RangeOfNumbers ==
  ASSUME NEW s \in Seq(Nat)
  PROVE  Range(s) \subseteq Nat
  BY DEF Range

\* Every way in which a step rewrites a reading gives a reading.
LEMMA NewReading ==
  ASSUME NEW S \in SUBSET Nat, NEW T \in SUBSET Nat
  PROVE  [at |-> "list", want |-> S, found |-> T, left |-> 0] \in Reader
  BY DEF Reader

LEMMA ReaderUpdate ==
  ASSUME NEW r \in Reader
  PROVE  /\ [at |-> "idle", want |-> {}, found |-> {}, left |-> 0] \in Reader
         /\ \A n \in Nat : [r EXCEPT !.at = "original", !.left = n] \in Reader
         /\ \A S \in SUBSET Nat : [r EXCEPT !.at = "copy", !.found = @ \cup S] \in Reader
         /\ \A n \in Nat, S \in SUBSET Nat :
              [r EXCEPT !.at = "original", !.left = n, !.found = @ \cup S] \in Reader
         /\ r.left \in Nat /\ r.want \in SUBSET Nat /\ r.found \in SUBSET Nat
  BY DEF Reader

\* What a transaction that begins has in hand.
LEMMA BegunJob ==
  ASSUME TypeOK, NEW at \in Phases, NEW file \in StateFile, NEW count \in Nat,
         NEW fields \in Job, Begin(at, file, count, fields)
  PROVE  /\ job' \in Job
         /\ job'.at = at /\ job'.slice = fields.slice /\ job'.key = fields.key
         /\ job'.events = Numbered(count) /\ Len(job'.events) = count
         /\ job'.next.sequence = file.sequence + count /\ job'.next.tasks = file.tasks
<1>0. state.file.sequence \in Nat
  BY DEF TypeOK, StateFile, StateJson
<1>1. Numbered(count) \in Seq(Nat) /\ Len(Numbered(count)) = count
  BY <1>0 DEF Numbered
<1> DEFINE next == [file EXCEPT !.sequence = @ + count]
<1>2. next \in StateFile /\ next.sequence = file.sequence + count /\ next.tasks = file.tasks
  BY DEF StateFile
<1>3. job' = [fields EXCEPT !.at = at, !.events = Numbered(count), !.next = next]
  BY DEF Begin
<1> HIDE DEF next
<1>4. job' \in Job
  BY <1>1, <1>2, <1>3, JobUpdate
<1>5. job'.at = at /\ job'.slice = fields.slice /\ job'.key = fields.key
  BY <1>3 DEF Job
<1>6. job'.events = Numbered(count) /\ job'.next = next
  BY <1>3 DEF Job
<1> QED
  BY <1>1, <1>2, <1>4, <1>5, <1>6

LEMMA StepTypeOK ==
  ASSUME StorageAssumption, TypeInv, [Next]_vars
  PROVE  TypeOK'
<1> USE DEF disk, migration, signing, history, readers
<1>h. TypeOK /\ InHand
  BY DEF TypeInv
<1>j. /\ job \in Job /\ state \in StateJson /\ state.file \in StateFile
      /\ job.next \in StateFile /\ job.events \in Seq(Nat) /\ job.slice \in SUBSET Tasks
      /\ job.key \in Keys \cup {NoKey} /\ job.todo \in SUBSET Files /\ job.segment \in Nat
  BY <1>h DEF TypeOK, Job, StateJson
<1>l. log.lines \in Seq(Nat) /\ \A i \in DOMAIN segments : segments[i] \in Segment
  BY <1>h DEF TypeOK, AuditLog
<1>g. ASSUME NEW at \in Phases, Goto(at)
      PROVE  job' \in Job
  <2>1. job' = [job EXCEPT !.at = at]
    BY <1>g DEF Goto
  <2> QED
    BY <2>1, <1>j, JobUpdate
<1>p. {"archive", "write", "rotate", "append", "compress", "unlink", "backup", "keyed", "current"}
        \subseteq Phases
  BY DEF Phases
<1>1. ASSUME NEW p \in Processes, FindNoState(p) \/ Initialize(p)
      PROVE  TypeOK'
  <2>1. [present |-> TRUE, file |-> EmptyState] \in StateJson
    BY IdleJob DEF StateJson
  <2> QED
    BY <1>h, <1>1, <2>1 DEF TypeOK, FindNoState, Initialize, LinkState
<1>2. ASSUME NEW new \in SUBSET Tasks, NEW count \in Nat, Command(new, count)
      PROVE  TypeOK'
  <2>1. [state.file EXCEPT !.tasks = @ \cup new] \in StateFile
    BY <1>j, FileUpdate
  <2>2. job' \in Job
    BY <1>2, <1>p, <2>1, IdleJob, <1>h, BegunJob DEF Command
  <2> QED
    BY <1>h, <1>2, <2>2 DEF TypeOK, Command, Begin
<1>3. ASSUME NEW retired \in SUBSET Tasks, Prune(retired)
      PROVE  TypeOK'
  <2>1. [state.file EXCEPT !.tasks = @ \ retired] \in StateFile
    BY <1>j, FileUpdate
  <2>2. [Idle EXCEPT !.slice = retired] \in Job
    BY IdleJob, <1>p, JobUpdate
  <2>3. job' \in Job
    BY <1>3, <1>p, <2>1, <2>2, <1>h, BegunJob DEF Prune
  <2> QED
    BY <1>h, <1>3, <2>3 DEF TypeOK, Prune, Begin
<1>4. CASE Archive
  <2>1. job' \in Job
    BY <1>4, <1>g, <1>p DEF Archive
  <2> QED
    BY <1>h, <1>4, <2>1, <1>j DEF TypeOK, Archive
<1>5. CASE WriteState
  <2>1. job' \in Job
    BY <1>5, <1>g, <1>p, IdleJob DEF WriteState
  <2>2. state' \in StateJson /\ seen' \subseteq Tasks /\ returned' \subseteq Keys
    BY <1>h, <1>5, <1>j, FileUpdate DEF TypeOK, WriteState, StateJson
  <2> QED
    BY <1>h, <1>5, <2>1, <2>2 DEF TypeOK, WriteState
<1>6. CASE RotateIfLarge
  <2>1. job' \in Job
    BY <1>6, <1>g, <1>p DEF RotateIfLarge
  <2>2. EmptyLog \in AuditLog
    BY DEF EmptyLog, AuditLog
  <2>3. [lines |-> log.lines, original |-> TRUE, copy |-> "none"] \in Segment
    BY <1>l DEF Segment
  <2>4. log' \in AuditLog
    BY <1>h, <1>6, <2>2 DEF RotateIfLarge, TypeOK
  <2>5. segments' \in Seq(Segment)
    BY <1>h, <1>6, <2>3 DEF RotateIfLarge, TypeOK
  <2> QED
    BY <1>h, <1>6, <2>1, <2>4, <2>5 DEF TypeOK, RotateIfLarge
<1>7. CASE AppendAudit
  <2>1. log' \in AuditLog
    BY <1>7, <1>l, <1>j DEF AppendAudit, Appended, AuditLog
  <2>2. told' \subseteq Nat
    <3>1. Range(job.events) \subseteq Nat
      BY <1>j DEF Range
    <3> QED
      BY <1>h, <1>7, <3>1 DEF TypeOK, AppendAudit
  <2> QED
    BY <1>h, <1>7, <2>1, <2>2, IdleJob DEF TypeOK, AppendAudit
<1>8. ASSUME NEW whole \in 0..1, NEW last, TornAppend(whole, last)
      PROVE  TypeOK'
  <2>1. whole + 1 \in 1..Len(job.events)
    BY <1>8, <1>j DEF TornAppend
  <2>2. SubSeq(job.events, 1, whole) \in Seq(Nat)
    BY <1>j, <2>1, SubSeqProperties
  <2>5. job.events[whole + 1] \in Nat
    BY <1>j, <2>1
  <2>6. last \in Seq(Nat)
    <3>1. last \in {<<>>, <<0>>, <<job.events[whole + 1]>>}
      BY <1>8 DEF TornAppend, Unreadable
    <3>2. <<>> \in Seq(Nat) /\ <<0>> \in Seq(Nat) /\ <<job.events[whole + 1]>> \in Seq(Nat)
      BY <2>5
    <3> QED
      BY <3>1, <3>2
  <2>3. log.lines \o SubSeq(job.events, 1, whole) \o last \in Seq(Nat)
    BY <1>l, <2>2, <2>6
  <2>4. log' \in AuditLog
    BY <1>8, <2>3 DEF TornAppend, AuditLog
  <2> QED
    BY <1>h, <1>8, <2>4, IdleJob DEF TypeOK, TornAppend
<1>9. CASE Stop
  BY <1>h, <1>9, IdleJob DEF TypeOK, Stop
<1>10. ASSUME NEW i \in DOMAIN segments, Compact(i)
       PROVE  TypeOK'
  <2>0. i \in Nat
    BY <1>h DEF TypeOK
  <2>1. job' \in Job
    BY <1>10, <1>p, <2>0, IdleJob, JobUpdate DEF Compact
  <2>2. [segments[i] EXCEPT !.copy = "partial"] \in Segment
    BY <1>l, SegmentUpdate
  <2>3. segments' \in Seq(Segment)
    BY <1>h, <1>10, <2>2 DEF TypeOK, Compact
  <2> QED
    BY <1>h, <1>10, <2>1, <2>3 DEF TypeOK, Compact
<1>11. CASE CompleteCopy \/ UnlinkOriginal
  <2>1. job' \in Job
    BY <1>11, <1>g, <1>p, IdleJob DEF CompleteCopy, UnlinkOriginal
  <2>2. \A i \in DOMAIN segments : /\ [segments[i] EXCEPT !.copy = "complete"] \in Segment
                                   /\ [segments[i] EXCEPT !.original = FALSE] \in Segment
    BY <1>l, SegmentUpdate
  <2>3. job.segment \in DOMAIN segments
    BY <1>11, <1>h DEF InHand, CompleteCopy, UnlinkOriginal
  <2>5. /\ [segments EXCEPT ![job.segment].copy = "complete"] \in Seq(Segment)
        /\ [segments EXCEPT ![job.segment].original = FALSE] \in Seq(Segment)
    BY <1>h, <2>2, <2>3 DEF TypeOK
  <2>4. segments' \in Seq(Segment)
    BY <1>11, <2>5 DEF CompleteCopy, UnlinkOriginal
  <2> QED
    BY <1>h, <1>11, <2>1, <2>4 DEF TypeOK, CompleteCopy, UnlinkOriginal
<1>12. ASSUME NEW f \in Files, OtherRelease(f) \/ BackUp(f)
       PROVE  TypeOK'
  BY <1>h, <1>12 DEF TypeOK, OtherRelease, BackUp
<1>13. ASSUME NEW f \in Files, Replace(f)
       PROVE  TypeOK'
  <2>0. job.todo \ {f} \in SUBSET Files
    BY <1>j
  <2>1. job' \in Job
    BY <1>13, <1>j, <1>p, <2>0, IdleJob, JobUpdate DEF Replace
  <2> QED
    BY <1>h, <1>13, <2>1 DEF TypeOK, Replace
<1>14. CASE Preview \/ Migrate
  <2>0. Upgradable \in SUBSET Files
    BY DEF Upgradable
  <2>1. [Idle EXCEPT !.at = "backup", !.todo = Upgradable] \in Job
    BY <1>p, <2>0, IdleJob, JobUpdate
  <2>2. job' \in Job
    BY <1>14, <1>j, <2>1, IdleJob DEF Preview, Migrate
  <2> QED
    BY <1>h, <1>14, <2>2 DEF TypeOK, Preview, Migrate
<1>15. ASSUME NEW k \in Keys, Provision(k)
       PROVE  TypeOK'
  <2>1. [Idle EXCEPT !.key = k] \in Job
    BY <1>p, IdleJob, JobUpdate
  <2>2. job' \in Job
    BY <1>15, <1>j, <1>p, <2>1, <1>h, BegunJob DEF Provision
  <2> QED
    BY <1>h, <1>15, <2>2 DEF TypeOK, Provision, Begin
<1>16. ASSUME NEW k \in Keys, WritePolicy(k)
       PROVE  TypeOK'
  BY <1>h, <1>16 DEF TypeOK, WritePolicy
<1>17. CASE WriteKeyed \/ WriteCurrent
  <2>1. job' \in Job
    BY <1>17, <1>g, <1>p DEF WriteKeyed, WriteCurrent
  <2>2. keys' \in KeyFiles
    <3>1. job.key \in Keys
      BY <1>17, <1>h DEF InHand, WriteKeyed, WriteCurrent
    <3>2. keys \in KeyFiles
      BY <1>h DEF TypeOK
    <3>3. /\ [keys EXCEPT !.copies = @ \cup {job.key}] \in KeyFiles
          /\ [keys EXCEPT !.current = job.key] \in KeyFiles
      BY <3>1, <3>2, KeyUpdate
    <3> QED
      BY <1>17, <3>3 DEF WriteKeyed, WriteCurrent, KeepCopy
  <2> QED
    BY <1>h, <1>17, <2>1, <2>2, <1>j DEF TypeOK, WriteKeyed, WriteCurrent
<1>18. CASE ReadAudit
  <2>1. /\ Range(log.lines) \subseteq Nat
        /\ \A i \in DOMAIN segments : Range(segments[i].lines) \subseteq Nat
    BY <1>l, SegmentUpdate, RangeOfNumbers
  <2>2. /\ reader \in Reader /\ told \in SUBSET Nat /\ Len(segments) \in Nat
        /\ DOMAIN segments = 1..Len(segments)
    BY <1>h DEF TypeOK
  <2>3. reader.left \in Nat
    BY <2>2, ReaderUpdate
  <2>4. ASSUME ReadActive PROVE reader' \in Reader
    BY <2>1, <2>2, <2>4, NewReading DEF ReadActive
  <2>5. ASSUME ListArchive PROVE reader' \in Reader
    BY <2>2, <2>5, ReaderUpdate DEF ListArchive
  <2>6. ASSUME ReadOriginal PROVE reader' \in Reader
    <3>1. reader.left \in DOMAIN segments
      BY <1>h, <2>2, <2>3, <2>6 DEF InHand, ReadOriginal
    <3>2. PICK S \in SUBSET Nat : reader' = [reader EXCEPT !.at = "copy", !.found = @ \cup S]
      BY <2>1, <2>6, <3>1 DEF ReadOriginal
    <3> QED
      BY <2>2, <3>2, ReaderUpdate
  <2>7. ASSUME ReadCopy PROVE reader' \in Reader
    <3>1. reader.left \in DOMAIN segments /\ reader.left - 1 \in Nat
      BY <1>h, <2>2, <2>3, <2>7 DEF InHand, ReadCopy
    <3>2. PICK S \in SUBSET Nat :
              reader' = [reader EXCEPT !.at = "original", !.left = reader.left - 1,
                                       !.found = @ \cup S]
      BY <2>1, <2>7, <3>1 DEF ReadCopy
    <3> QED
      BY <2>2, <3>1, <3>2, ReaderUpdate
  <2>8. ASSUME Return PROVE reader' \in Reader
    BY <2>2, <2>8, ReaderUpdate DEF Return
  <2>9. reader' \in Reader
    BY <1>18, <2>4, <2>5, <2>6, <2>7, <2>8 DEF ReadAudit
  <2> QED
    BY <1>h, <1>18, <2>9 DEF TypeOK, ReadAudit
<1>19. CASE ReadMetrics
  BY <1>h, <1>19 DEF TypeOK, ReadMetrics
<1>20. CASE UNCHANGED vars
  BY <1>h, <1>20 DEF TypeOK, vars
<1>21. \A new \in {{}} \cup {{t} : t \in Tasks}, count \in 1..2 : new \in SUBSET Tasks /\ count \in Nat
  OBVIOUS
<1> QED
  BY <1>1, <1>2, <1>3, <1>4, <1>5, <1>6, <1>7, <1>8, <1>9, <1>10, <1>11, <1>12, <1>13,
     <1>14, <1>15, <1>16, <1>17, <1>18, <1>19, <1>20, <1>21 DEF Next, Step

-----------------------------------------------------------------------------
(* What a step changes.                                                    *)

\* The steps that change each of the files, and the readings of them.
LEMMA WhoWrites ==
  ASSUME [Next]_vars
  PROVE  /\ UNCHANGED state \/ WriteState \/ \E p \in Processes : Initialize(p)
         /\ UNCHANGED segments \/ RotateIfLarge \/ CompleteCopy \/ UnlinkOriginal
              \/ \E i \in DOMAIN segments : Compact(i)
         /\ UNCHANGED reader \/ ReadAudit
         /\ UNCHANGED <<policy, returned>> \/ WriteState \/ \E k \in Keys : WritePolicy(k)
         /\ UNCHANGED format \/ \E f \in Files : OtherRelease(f) \/ Replace(f)
         /\ UNCHANGED backups \/ \E f \in Files : BackUp(f)
<1> USE DEF Next, Step, vars, disk, migration, signing, history, readers, FindNoState, Initialize,
        Command, Prune, Begin, Archive, WriteState, RotateIfLarge, AppendAudit, TornAppend, Stop,
        Compact, CompleteCopy, UnlinkOriginal, OtherRelease, BackUp, Replace, Preview, Migrate,
        Provision, WritePolicy, WriteKeyed, WriteCurrent, ReadAudit, ReadMetrics
<1>1. UNCHANGED state \/ WriteState \/ \E p \in Processes : Initialize(p)
  OBVIOUS
<1>2. UNCHANGED segments \/ RotateIfLarge \/ CompleteCopy \/ UnlinkOriginal
        \/ \E i \in DOMAIN segments : Compact(i)
  OBVIOUS
<1>3. UNCHANGED reader \/ ReadAudit
  OBVIOUS
<1>4. UNCHANGED <<policy, returned>> \/ WriteState \/ \E k \in Keys : WritePolicy(k)
  OBVIOUS
<1>5. UNCHANGED format \/ \E f \in Files : OtherRelease(f) \/ Replace(f)
  OBVIOUS
<1>6. UNCHANGED backups \/ \E f \in Files : BackUp(f)
  OBVIOUS
<1> QED
  BY <1>1, <1>2, <1>3, <1>4, <1>5, <1>6

LEMMA JobFields ==
  ASSUME NEW r \in Job, NEW at
  PROVE  LET q == [r EXCEPT !.at = at]
         IN  /\ q.at = at /\ q.next = r.next /\ q.events = r.events /\ q.slice = r.slice
             /\ q.key = r.key /\ q.todo = r.todo /\ q.segment = r.segment
  BY DEF Job

LEMMA NewJobFields ==
  ASSUME NEW at, NEW v
  PROVE  /\ [Idle EXCEPT !.at = at, !.todo = v].at = at
         /\ [Idle EXCEPT !.at = at, !.segment = v].at = at
         /\ [Idle EXCEPT !.at = at, !.segment = v].segment = v
  BY DEF Idle

\* Goto changes the phase of a job and nothing else.
LEMMA GotoFields ==
  ASSUME TypeOK, NEW at, Goto(at)
  PROVE  /\ job'.at = at /\ job'.next = job.next /\ job'.events = job.events
         /\ job'.slice = job.slice /\ job'.key = job.key /\ job'.todo = job.todo
         /\ job'.segment = job.segment
<1>1. job \in Job /\ job' = [job EXCEPT !.at = at]
  BY DEF TypeOK, Goto
<1> QED
  BY <1>1, JobFields

LEMMA ReaderFields ==
  ASSUME NEW r \in Reader, NEW at, NEW n, NEW S
  PROVE  /\ LET q == [r EXCEPT !.at = at, !.left = n]
            IN  q.at = at /\ q.left = n /\ q.want = r.want /\ q.found = r.found
         /\ LET q == [r EXCEPT !.at = at, !.found = @ \cup S]
            IN  q.at = at /\ q.left = r.left /\ q.want = r.want /\ q.found = r.found \cup S
         /\ LET q == [r EXCEPT !.at = at, !.left = @ - 1, !.found = @ \cup S]
            IN  /\ q.at = at /\ q.left = r.left - 1
                /\ q.want = r.want /\ q.found = r.found \cup S
  BY DEF Reader

\* The transactions that begin, and what each has in hand.
Started(at, count) ==
    /\ job = Idle /\ state.present
    /\ job'.at = at /\ job'.events = Numbered(count) /\ Len(job'.events) = count
    /\ job'.next.sequence = state.file.sequence + count
    /\ UNCHANGED <<state, log, segments, slices, told, seen, keys>>

LEMMA BegunIsStarted ==
  ASSUME TypeOK, NEW at \in Phases, NEW file \in StateFile, NEW count \in Nat,
         NEW fields \in Job, Begin(at, file, count, fields),
         file.sequence = state.file.sequence
  PROVE  /\ Started(at, count)
         /\ job'.slice = fields.slice /\ job'.key = fields.key /\ job'.next.tasks = file.tasks
<1>1. /\ job = Idle /\ state.present
      /\ UNCHANGED <<state, log, segments, slices, told, seen, keys>>
  BY DEF Begin, disk, history, signing
<1>2. /\ job'.at = at /\ job'.events = Numbered(count) /\ Len(job'.events) = count
      /\ job'.next.sequence = state.file.sequence + count
      /\ job'.slice = fields.slice /\ job'.key = fields.key /\ job'.next.tasks = file.tasks
  BY BegunJob
<1> QED
  BY <1>1, <1>2 DEF Started

LEMMA BegunCommand ==
  ASSUME TypeOK, NEW new \in SUBSET Tasks, NEW count \in Nat, Command(new, count)
  PROVE  Started("write", count) /\ job'.next.tasks = state.file.tasks \cup new /\ job'.key = NoKey
<1>p. "write" \in Phases
  BY DEF Phases
<1>1. /\ state.file \in StateFile
      /\ [state.file EXCEPT !.tasks = @ \cup new] \in StateFile
      /\ [state.file EXCEPT !.tasks = @ \cup new].sequence = state.file.sequence
      /\ [state.file EXCEPT !.tasks = @ \cup new].tasks = state.file.tasks \cup new
  BY DEF TypeOK, StateJson, StateFile
<1>2. Begin("write", [state.file EXCEPT !.tasks = @ \cup new], count, Idle)
  BY DEF Command
<1> QED
  BY <1>1, <1>2, <1>p, IdleJob, BegunIsStarted

LEMMA BegunPrune ==
  ASSUME TypeOK, NEW retired \in SUBSET Tasks, Prune(retired)
  PROVE  /\ Started("archive", 1) /\ job'.next.tasks = state.file.tasks \ retired
         /\ job'.slice = retired /\ job'.key = NoKey
<1>p. "archive" \in Phases
  BY DEF Phases
<1>1. /\ state.file \in StateFile
      /\ [state.file EXCEPT !.tasks = @ \ retired] \in StateFile
      /\ [state.file EXCEPT !.tasks = @ \ retired].sequence = state.file.sequence
      /\ [state.file EXCEPT !.tasks = @ \ retired].tasks = state.file.tasks \ retired
  BY DEF TypeOK, StateJson, StateFile
<1>2. Begin("archive", [state.file EXCEPT !.tasks = @ \ retired], 1, [Idle EXCEPT !.slice = retired])
  BY DEF Prune
<1>3. [Idle EXCEPT !.slice = retired] \in Job
  BY <1>p, IdleJob, JobUpdate
<1>4. [Idle EXCEPT !.slice = retired].slice = retired /\ [Idle EXCEPT !.slice = retired].key = NoKey
  BY DEF Idle
<1> QED
  BY <1>1, <1>2, <1>3, <1>4, <1>p, BegunIsStarted

LEMMA BegunProvision ==
  ASSUME TypeOK, NEW k \in Keys, Provision(k)
  PROVE  Started("keyed", 0) /\ job'.next.tasks = state.file.tasks /\ job'.key = k
<1>p. "keyed" \in Phases
  BY DEF Phases
<1>1. state.file \in StateFile
  BY DEF TypeOK, StateJson
<1>2. Begin("keyed", state.file, 0, [Idle EXCEPT !.key = k])
  BY DEF Provision
<1>3. [Idle EXCEPT !.key = k] \in Job
  BY <1>p, IdleJob, JobUpdate
<1>4. [Idle EXCEPT !.key = k].key = k
  BY DEF Idle
<1> QED
  BY <1>1, <1>2, <1>3, <1>4, <1>p, BegunIsStarted

\* A step that leaves the holder, the log and the keys alone, and one that ends a job or
\* works on the files of other releases.
Quiet == UNCHANGED <<log, segments, slices, job, told, seen, keys>> /\ state'.file = state.file
Resting == /\ UNCHANGED <<state, log, segments, slices, told, seen, keys>>
           /\ job'.at = "idle" \/ (job'.at = "backup" /\ (Migrate \/ \E f \in Files : Replace(f)))

Writing == job.at \in {"archive", "write", "keyed", "current"}
Telling == job.at \in {"rotate", "append"}

\* A store that is not there yet has no state to lose, and no holder writes to it.
StoreInv ==
    /\ ~state.present => state.file = EmptyState
    /\ Writing => state.present

LEMMA Steps ==
  ASSUME TypeInv, StoreInv, [Next]_vars
  PROVE  \/ Quiet \/ Resting
         \/ \E new \in SUBSET Tasks, count \in Nat : Command(new, count)
         \/ \E retired \in SUBSET Tasks : Prune(retired)
         \/ \E k \in Keys : Provision(k)
         \/ Archive \/ WriteState \/ RotateIfLarge \/ AppendAudit
         \/ \E whole \in 0..1, last \in {<<>>, <<Unreadable>>} \cup {<<n>> : n \in 1..MaxSequence} :
                TornAppend(whole, last)
         \/ \E i \in DOMAIN segments : Compact(i)
         \/ CompleteCopy \/ UnlinkOriginal \/ WriteKeyed \/ WriteCurrent
<1> USE DEF disk, migration, signing, history, readers
<1>1. ASSUME NEW p \in Processes, FindNoState(p) \/ Initialize(p)
      PROVE  Quiet
  BY <1>1 DEF FindNoState, Initialize, LinkState, Quiet, StoreInv
<1>2. ASSUME Stop \/ Migrate
      PROVE  Resting
  <2>0. \A S : [Idle EXCEPT !.at = "backup", !.todo = S].at = "backup"
    BY NewJobFields
  <2>1. job'.at = "idle" \/ (job'.at = "backup" /\ Migrate)
    BY <1>2, <2>0, IdleJob DEF Stop, Migrate
  <2> QED
    BY <1>2, <2>1 DEF Stop, Migrate, Resting
<1>3. ASSUME NEW f \in Files, OtherRelease(f) \/ BackUp(f)
      PROVE  Quiet
  BY <1>3 DEF OtherRelease, BackUp, Quiet
<1>4. ASSUME NEW f \in Files, Replace(f)
      PROVE  Resting
  <2>1. job'.at \in {"idle", "backup"}
    BY <1>4 DEF Replace, Idle, TypeInv, TypeOK, Job
  <2> QED
    BY <1>4, <2>1 DEF Replace, Resting
<1>5. ASSUME Preview \/ ReadAudit \/ ReadMetrics \/ UNCHANGED vars \/ \E k \in Keys : WritePolicy(k)
      PROVE  Quiet
  BY <1>5 DEF Preview, ReadAudit, ReadMetrics, vars, WritePolicy, Quiet
<1>6. \A new \in {{}} \cup {{t} : t \in Tasks}, count \in 1..2 : new \in SUBSET Tasks /\ count \in Nat
  OBVIOUS
<1> QED
  BY <1>1, <1>2, <1>3, <1>4, <1>5, <1>6 DEF Next, Step

LEMMA InitStore == Init => InHand /\ StoreInv
  BY IdleJob DEF Init, InHand, StoreInv, Writing

\* Rotation adds a segment; nothing removes one or changes its lines.
LEMMA SegmentsGrow ==
  ASSUME TypeInv, [Next]_vars
  PROVE  /\ Len(segments) \in Nat /\ Len(segments') \in Nat /\ Len(segments) <= Len(segments')
         /\ DOMAIN segments = 1..Len(segments) /\ DOMAIN segments' = 1..Len(segments')
         /\ \A i \in DOMAIN segments : segments'[i].lines = segments[i].lines
         /\ ~RotateIfLarge => Len(segments') = Len(segments)
<1>1. /\ segments \in Seq(Segment) /\ InHand
      /\ Len(segments) \in Nat /\ DOMAIN segments = 1..Len(segments)
  BY DEF TypeInv, TypeOK
<1>2. CASE UNCHANGED segments
  BY <1>1, <1>2
<1>3. CASE RotateIfLarge
  BY <1>1, <1>3 DEF RotateIfLarge
<1>4. ASSUME NEW i \in DOMAIN segments, NEW r, segments' = [segments EXCEPT ![i] = r],
             r.lines = segments[i].lines
      PROVE  /\ Len(segments') = Len(segments) /\ DOMAIN segments' = DOMAIN segments
             /\ \A j \in DOMAIN segments : segments'[j].lines = segments[j].lines
  BY <1>1, <1>4
<1>5. \A i \in DOMAIN segments : \A c :
         /\ [segments[i] EXCEPT !.copy = c].lines = segments[i].lines
         /\ [segments[i] EXCEPT !.original = c].lines = segments[i].lines
  BY <1>1 DEF Segment
<1>6. CASE \E i \in DOMAIN segments : Compact(i)
  BY <1>1, <1>4, <1>5, <1>6 DEF Compact
<1>7. CASE CompleteCopy \/ UnlinkOriginal
  <2>1. job.segment \in DOMAIN segments
    BY <1>1, <1>7 DEF InHand, CompleteCopy, UnlinkOriginal
  <2>2. \E r : segments' = [segments EXCEPT ![job.segment] = r] /\ r.lines = segments[job.segment].lines
    BY <1>5, <1>7, <2>1 DEF CompleteCopy, UnlinkOriginal
  <2> QED
    BY <1>1, <1>4, <2>1, <2>2
<1> QED
  BY <1>2, <1>3, <1>6, <1>7, WhoWrites

LEMMA StepInHand ==
  ASSUME TypeInv, StoreInv, [Next]_vars
  PROVE  InHand'
<1>h. TypeOK /\ InHand /\ job \in Job /\ reader \in Reader /\ state.file \in StateFile
  BY DEF TypeInv, TypeOK, StateJson
<1>s. /\ Len(segments) \in Nat /\ Len(segments') \in Nat /\ Len(segments) <= Len(segments')
      /\ DOMAIN segments = 1..Len(segments) /\ DOMAIN segments' = 1..Len(segments')
  BY SegmentsGrow
<1>1. /\ job'.at \in {"keyed", "current"} => job'.key \in Keys
      /\ job'.at \in {"compress", "unlink"} => job'.segment \in DOMAIN segments'
  <2>1. CASE Quiet \/ Resting
    BY <1>h, <2>1, <1>s DEF Quiet, Resting, InHand
  <2>2. ASSUME NEW new \in SUBSET Tasks, NEW count \in Nat, Command(new, count)
        PROVE  job'.at = "write"
    BY <2>2, <1>h, BegunCommand DEF Started
  <2>3. ASSUME NEW retired \in SUBSET Tasks, Prune(retired)
        PROVE  job'.at = "archive"
    BY <2>3, <1>h, BegunPrune DEF Started
  <2>4. ASSUME NEW k \in Keys, Provision(k)
        PROVE  job'.at = "keyed" /\ job'.key \in Keys
    BY <2>4, <1>h, BegunProvision DEF Started
  <2>5. CASE Archive \/ RotateIfLarge
    BY <2>5, <1>h, GotoFields DEF Archive, RotateIfLarge
  <2>6. CASE WriteState
    BY <2>6, <1>h, GotoFields, IdleJob DEF WriteState
  <2>7. ASSUME AppendAudit \/ UnlinkOriginal \/ \E whole, last : TornAppend(whole, last)
        PROVE  job'.at = "idle"
    BY <2>7, IdleJob DEF AppendAudit, TornAppend, UnlinkOriginal
  <2>8. ASSUME NEW i \in DOMAIN segments, Compact(i)
        PROVE  job'.at = "compress" /\ job'.segment = i
    BY <2>8, NewJobFields DEF Compact
  <2>9. CASE CompleteCopy
    BY <2>9, <1>h, <1>s, GotoFields DEF CompleteCopy, InHand
  <2>10. CASE WriteKeyed \/ WriteCurrent
    BY <2>10, <1>h, GotoFields DEF WriteKeyed, WriteCurrent, InHand
  <2> QED
    BY <1>s, <2>1, <2>2, <2>3, <2>4, <2>5, <2>6, <2>7, <2>8, <2>9, <2>10, Steps
<1>2. /\ reader'.at \in {"original", "copy"} => reader'.left <= Len(segments')
      /\ reader'.at = "copy" => reader'.left > 0
  <2>r. reader.left \in Nat
    BY <1>h, ReaderUpdate
  <2>1. CASE UNCHANGED reader
    BY <2>1, <2>r, <1>h, <1>s DEF InHand
  <2>2. ASSUME ReadActive \/ Return
        PROVE  reader'.at \notin {"original", "copy"}
    BY <2>2 DEF ReadActive, Return
  <2>3. ASSUME ListArchive
        PROVE  reader'.at = "original" /\ reader'.left <= Len(segments')
    BY <2>3, <1>h, <1>s, ReaderFields DEF ListArchive
  <2>4. ASSUME ReadOriginal
        PROVE  reader'.at = "copy" /\ reader'.left = reader.left /\ reader.left > 0 /\ reader.at = "original"
    BY <2>4, <1>h, ReaderFields DEF ReadOriginal
  <2>5. ASSUME ReadCopy
        PROVE  reader'.at = "original" /\ reader'.left = reader.left - 1 /\ reader.at = "copy"
    BY <2>5, <1>h, ReaderFields DEF ReadCopy
  <2>6. reader.at \in {"original", "copy"} => reader.left <= Len(segments)
    BY <1>h DEF InHand
  <2> QED
    BY <1>s, <2>r, <2>1, <2>2, <2>3, <2>4, <2>5, <2>6, WhoWrites DEF ReadAudit
<1> QED
  BY <1>1, <1>2 DEF InHand

LEMMA StepStore ==
  ASSUME TypeInv, StoreInv, [Next]_vars
  PROVE  StoreInv'
<1>h. TypeOK /\ job \in Job
  BY DEF TypeInv, TypeOK
<1>1. ~state'.present => state'.file = EmptyState
  <2>1. CASE UNCHANGED state
    BY <2>1 DEF StoreInv
  <2>2. CASE WriteState
    BY <2>2, <1>h DEF WriteState, StoreInv, Writing, TypeOK, StateJson
  <2>3. ASSUME NEW p \in Processes, Initialize(p)
        PROVE  ~state'.present => state'.file = EmptyState
    BY <2>3 DEF Initialize, LinkState
  <2> QED
    BY <2>1, <2>2, <2>3, WhoWrites
<1>2. state.present => state'.present
  BY <1>h, WhoWrites DEF WriteState, Initialize, LinkState, TypeOK, StateJson
<1>3. Writing' => Writing \/ state.present
  <2>1. CASE Quiet \/ Resting
    BY <2>1 DEF Quiet, Resting, Writing
  <2>2. CASE \/ \E new \in SUBSET Tasks, count \in Nat : Command(new, count)
             \/ \E retired \in SUBSET Tasks : Prune(retired)
             \/ \E k \in Keys : Provision(k)
    BY <2>2 DEF Command, Prune, Provision, Begin
  <2>3. CASE Archive \/ WriteState \/ WriteKeyed \/ WriteCurrent
    BY <2>3 DEF Archive, WriteState, WriteKeyed, WriteCurrent, Writing
  <2>4. CASE RotateIfLarge \/ CompleteCopy
    BY <2>4, <1>h, GotoFields DEF RotateIfLarge, CompleteCopy, Writing
  <2>5. ASSUME AppendAudit \/ UnlinkOriginal \/ \E whole, last : TornAppend(whole, last)
        PROVE  job'.at = "idle"
    BY <2>5, IdleJob DEF AppendAudit, TornAppend, UnlinkOriginal
  <2>6. ASSUME NEW i \in DOMAIN segments, Compact(i)
        PROVE  job'.at = "compress"
    BY <2>6, NewJobFields DEF Compact
  <2> QED
    BY <2>1, <2>2, <2>3, <2>4, <2>5, <2>6, Steps DEF Writing
<1> QED
  BY <1>1, <1>2, <1>3 DEF StoreInv

LEMMA TypeInvariant == Spec => [](TypeInv /\ StoreInv)
<1>1. Init => TypeInv /\ StoreInv
  BY InitTypeOK, InitStore DEF TypeInv
<1>2. TypeInv /\ StoreInv /\ [Next]_vars => (TypeInv /\ StoreInv)'
  BY StorageAssumption, StepTypeOK, StepInHand, StepStore DEF TypeInv
<1> QED
  BY <1>1, <1>2, PTL DEF Spec

\* The files and the readings of them keep their types: in particular a key is written only
\* when there is one, and no reading or compaction is beyond the segments there are.
THEOREM TypeCorrect == Spec => []TypeOK
<1>1. TypeInv => TypeOK
  BY DEF TypeInv
<1> QED
  BY <1>1, TypeInvariant, PTL

-----------------------------------------------------------------------------
(* Every event is in the trail at most once.                               *)

\* Events in the files have numbers that the state has given out; those of a transaction
\* that has not written its state are the next ones; those of one that has are in no file.
LastGiven == state.file.sequence
EventsInv ==
    /\ \A n \in Trail : \A i \in DOMAIN LinesOf(n) : LinesOf(n)[i] <= LastGiven
    /\ Writing => /\ job.events = Numbered(Len(job.events))
                  /\ job.next.sequence = LastGiven + Len(job.events)
    /\ Telling =>
          \A i \in DOMAIN job.events :
             /\ job.events[i] \in 1..LastGiven
             /\ \A j \in DOMAIN job.events : job.events[i] = job.events[j] => i = j
             /\ \A n \in Trail : \A j \in DOMAIN LinesOf(n) : LinesOf(n)[j] # job.events[i]
TrailInv == EventsInv /\ SequencesAreUnique

LEMMA TrailTypes ==
  ASSUME TypeOK
  PROVE  /\ LastGiven \in Nat /\ job.events \in Seq(Nat) /\ log.lines \in Seq(Nat)
         /\ DOMAIN job.events = 1..Len(job.events) /\ Len(job.events) \in Nat
         /\ DOMAIN segments = 1..Len(segments) /\ Len(segments) \in Nat
         /\ \A n \in Trail : LinesOf(n) \in Seq(Nat)
<1>1. /\ segments \in Seq(Segment) /\ state \in StateJson /\ job \in Job /\ log \in AuditLog
  BY DEF TypeOK
<1>2. LastGiven \in Nat /\ job.events \in Seq(Nat) /\ log.lines \in Seq(Nat)
  BY <1>1 DEF LastGiven, StateJson, StateFile, Job, AuditLog
<1>3. ASSUME NEW i \in DOMAIN segments
      PROVE  segments[i].lines \in Seq(Nat)
  <2>1. segments[i] \in Segment
    BY <1>1
  <2> QED
    BY <2>1, SegmentUpdate
<1> QED
  BY <1>1, <1>2, <1>3 DEF Trail, LinesOf

LEMMA InitTrail == Init => TrailInv
<1> SUFFICES ASSUME Init
             PROVE  TrailInv
  OBVIOUS
<1>1. \A n \in Trail : LinesOf(n) = <<>>
  BY DEF Init, Trail, LinesOf, EmptyLog
<1>2. ~Writing /\ ~Telling
  BY IdleJob DEF Init, Writing, Telling
<1> QED
  BY <1>1, <1>2 DEF TrailInv, EventsInv, SequencesAreUnique

\* A step that changes no line of a file.
SameTrail == Trail' = Trail /\ \A n \in Trail : LinesOf(n)' = LinesOf(n)

LEMMA SameTrailKeeps ==
  ASSUME TypeInv, TrailInv, [Next]_vars, ~RotateIfLarge, log'.lines = log.lines
  PROVE  SameTrail /\ SequencesAreUnique'
<1>1. SameTrail
  BY SegmentsGrow DEF SameTrail, Trail, LinesOf
<1> QED
  BY <1>1 DEF SameTrail, SequencesAreUnique, TrailInv

LEMMA SameTrailStep ==
  ASSUME TypeOK, TrailInv, SameTrail, SequencesAreUnique', LastGiven' = LastGiven,
         Writing' => /\ job'.events = Numbered(Len(job'.events))
                     /\ job'.next.sequence = LastGiven + Len(job'.events),
         Telling' => Telling /\ job'.events = job.events
  PROVE  TrailInv'
<1>1. \A n \in Trail' : \A i \in DOMAIN LinesOf(n)' : LinesOf(n)'[i] <= LastGiven'
  BY DEF SameTrail, TrailInv, EventsInv
<1>2. \A c : Numbered(c)' = Numbered(c)
  BY DEF Numbered, LastGiven
<1>3. Telling' =>
        \A i \in DOMAIN job'.events :
           /\ job'.events[i] \in 1..LastGiven'
           /\ \A j \in DOMAIN job'.events : job'.events[i] = job'.events[j] => i = j
           /\ \A n \in Trail' : \A j \in DOMAIN LinesOf(n)' : LinesOf(n)'[j] # job'.events[i]
  BY DEF SameTrail, TrailInv, EventsInv
<1> QED
  BY <1>1, <1>2, <1>3 DEF TrailInv, EventsInv

\* Rotation moves the lines of the active file into a segment; the active file is empty.
LEMMA RotateTrail ==
  ASSUME TypeInv, TrailInv, RotateIfLarge
  PROVE  TrailInv'
<1>t. TypeOK
  BY DEF TypeInv
<1>1. /\ LastGiven' = LastGiven /\ job'.at = "append" /\ job'.events = job.events /\ Telling
  BY <1>t, GotoFields DEF RotateIfLarge, LastGiven, Telling
<1>2. CASE UNCHANGED <<log, segments>>
  <2>1. SameTrail /\ SequencesAreUnique'
    BY <1>2 DEF SameTrail, Trail, LinesOf, TrailInv, SequencesAreUnique
  <2> QED
    BY <1>t, <1>1, <2>1, SameTrailStep DEF Writing
<1>3. CASE segments' = Append(segments, [lines |-> log.lines, original |-> TRUE, copy |-> "none"])
           /\ log' = EmptyLog
  <2>1. segments \in Seq(Segment)
    BY <1>t DEF TypeOK
  <2>2. /\ Len(segments) \in Nat /\ DOMAIN segments = 1..Len(segments)
        /\ DOMAIN segments' = 1..(Len(segments) + 1) /\ Len(segments') = Len(segments) + 1
        /\ \A i \in DOMAIN segments : segments'[i] = segments[i]
        /\ segments'[Len(segments) + 1].lines = log.lines
    BY <1>3, <2>1
  <2> PICK last \in Nat : last = Len(segments) + 2
    BY <2>2
  <2>3. Trail' = Trail \cup {last} /\ last \notin Trail
    BY <2>2 DEF Trail
  <2>4. \A n \in Trail : LinesOf(n)' = LinesOf(n)
    BY <2>2 DEF Trail, LinesOf
  <2>5. LinesOf(last)' = <<>>
    BY <1>3, <2>2 DEF LinesOf, EmptyLog
  <2>6. SequencesAreUnique'
    BY <2>3, <2>4, <2>5 DEF TrailInv, SequencesAreUnique
  <2>7. \A n \in Trail' : \A i \in DOMAIN LinesOf(n)' : LinesOf(n)'[i] <= LastGiven'
    BY <1>1, <2>3, <2>4, <2>5 DEF TrailInv, EventsInv
  <2>8. \A i \in DOMAIN job'.events :
           /\ job'.events[i] \in 1..LastGiven'
           /\ \A j \in DOMAIN job'.events : job'.events[i] = job'.events[j] => i = j
           /\ \A n \in Trail' : \A j \in DOMAIN LinesOf(n)' : LinesOf(n)'[j] # job'.events[i]
    BY <1>1, <2>3, <2>4, <2>5 DEF TrailInv, EventsInv
  <2> QED
    BY <1>1, <2>6, <2>7, <2>8 DEF TrailInv, EventsInv, Writing
<1> QED
  BY <1>2, <1>3 DEF RotateIfLarge

\* What an append adds to the active file: events of the transaction, in order, or lines
\* that no reader can parse.
Added(x) ==
    /\ log'.lines = log.lines \o x /\ x \in Seq(Nat)
    /\ \A i \in DOMAIN x : x[i] = Unreadable \/ (i \in DOMAIN job.events /\ x[i] = job.events[i])
    /\ UNCHANGED <<segments, state>> /\ job' = Idle /\ job.at = "append"

LEMMA AddedTrail ==
  ASSUME TypeOK, TrailInv, NEW x, Added(x)
  PROVE  TrailInv'
<1>1. /\ LastGiven' = LastGiven /\ job'.at = "idle" /\ Telling
  BY IdleJob DEF Added, LastGiven, Telling
<1>2. /\ log.lines \in Seq(Nat) /\ x \in Seq(Nat) /\ DOMAIN x = 1..Len(x) /\ Len(x) \in Nat
      /\ Len(log.lines) \in Nat
      /\ DOMAIN log.lines = 1..Len(log.lines)
      /\ DOMAIN segments = 1..Len(segments) /\ Len(segments) \in Nat /\ LastGiven \in Nat
  BY TrailTypes DEF Added
<1>3. /\ DOMAIN log'.lines = 1..(Len(log.lines) + Len(x))
      /\ \A i \in DOMAIN log.lines : log'.lines[i] = log.lines[i]
      /\ \A i \in DOMAIN x : log'.lines[Len(log.lines) + i] = x[i]
  <2>1. log'.lines = log.lines \o x
    BY DEF Added
  <2>2. Len(log'.lines) = Len(log.lines) + Len(x) /\ log'.lines \in Seq(Nat)
    BY <1>2, <2>1
  <2>3. \A i \in DOMAIN log.lines : log'.lines[i] = log.lines[i]
    BY <1>2, <2>1
  <2>4. ASSUME NEW i \in DOMAIN x
        PROVE  log'.lines[Len(log.lines) + i] = x[i]
    <3>1. /\ Len(log.lines) + i \in 1..(Len(log.lines) + Len(x)) /\ ~(Len(log.lines) + i <= Len(log.lines))
          /\ (Len(log.lines) + i) - Len(log.lines) = i
      BY <1>2
    <3> QED
      BY <1>2, <2>1, <3>1, ConcatProperties
  <2> QED
    BY <2>2, <2>3, <2>4
<1> PICK last \in Nat : last = Len(segments) + 1
  BY <1>2
<1> PICK old \in Nat : old = Len(log.lines)
  BY <1>2
<1>4. Trail' = Trail /\ last \in Trail /\ LinesOf(last) = log.lines /\ LinesOf(last)' = log'.lines
  BY <1>2 DEF Trail, LinesOf, Added
<1>5. \A n \in Trail : n # last => LinesOf(n)' = LinesOf(n)
  BY <1>2 DEF Trail, LinesOf, Added
<1>6. \A i \in DOMAIN log'.lines :
        \/ i \in DOMAIN log.lines /\ log'.lines[i] = log.lines[i]
        \/ \E k \in DOMAIN x : i = old + k /\ log'.lines[i] = x[k]
  <2> TAKE i \in DOMAIN log'.lines
  <2>1. CASE i <= old
    BY <1>2, <1>3, <2>1
  <2>2. CASE i > old
    <3>1. i - old \in DOMAIN x /\ i = old + (i - old)
      BY <1>2, <1>3, <2>2
    <3>2. log'.lines[i] = x[i - old]
      BY <1>3, <3>1
    <3> QED
      BY <3>1, <3>2
  <2> QED
    BY <1>2, <1>3, <2>1, <2>2
\* A line of the trail was there before, or is one of the lines added.
<1>8. \A n \in Trail : \A i \in DOMAIN LinesOf(n)' :
        \/ i \in DOMAIN LinesOf(n) /\ LinesOf(n)'[i] = LinesOf(n)[i]
        \/ \E k \in DOMAIN x : n = last /\ i = old + k /\ LinesOf(n)'[i] = x[k]
  BY <1>4, <1>5, <1>6
<1>9. \A k \in DOMAIN x : x[k] # Unreadable =>
        /\ k \in DOMAIN job.events /\ x[k] = job.events[k] /\ x[k] <= LastGiven
        /\ \A n \in Trail : \A j \in DOMAIN LinesOf(n) : LinesOf(n)[j] # x[k]
        /\ \A j \in DOMAIN x : x[j] = x[k] => j = k
  BY <1>1, <1>2 DEF Added, TrailInv, EventsInv
<1>10. SequencesAreUnique'
  BY <1>4, <1>8, <1>9 DEF TrailInv, SequencesAreUnique
<1>11. \A n \in Trail' : \A i \in DOMAIN LinesOf(n)' : LinesOf(n)'[i] <= LastGiven'
  BY <1>1, <1>2, <1>4, <1>8, <1>9 DEF TrailInv, EventsInv, Unreadable
<1> QED
  BY <1>1, <1>10, <1>11 DEF TrailInv, EventsInv, Writing, Telling

LEMMA AppendAdds ==
  ASSUME TypeOK, AppendAudit
  PROVE  Added(job.events)
  BY TrailTypes DEF AppendAudit, Appended, Added

LEMMA TornAdds ==
  ASSUME TypeOK, NEW whole \in 0..1, NEW last, TornAppend(whole, last)
  PROVE  \E x : Added(x)
<1>1. /\ job.events \in Seq(Nat) /\ Len(job.events) \in Nat
      /\ DOMAIN job.events = 1..Len(job.events) /\ whole + 1 \in DOMAIN job.events /\ whole \in Nat
  BY TrailTypes DEF TornAppend
<1>2. /\ SubSeq(job.events, 1, whole) \in Seq(Nat) /\ Len(SubSeq(job.events, 1, whole)) = whole
      /\ \A i \in 1..whole : SubSeq(job.events, 1, whole)[i] = job.events[i]
  BY <1>1, SubSeqProperties
<1>3. /\ last \in Seq(Nat) /\ Len(last) <= 1 /\ Len(last) \in Nat
      /\ \A i \in DOMAIN last : last[i] \in {Unreadable, job.events[whole + 1]}
  <2>1. last \in {<<>>, <<Unreadable>>, <<job.events[whole + 1]>>}
    BY DEF TornAppend
  <2>2. job.events[whole + 1] \in Nat /\ Unreadable \in Nat
    BY <1>1 DEF Unreadable
  <2>3. ASSUME NEW e \in Nat
        PROVE  <<e>> \in Seq(Nat) /\ Len(<<e>>) = 1 /\ \A i \in DOMAIN <<e>> : <<e>>[i] = e
    OBVIOUS
  <2>4. <<>> \in Seq(Nat) /\ Len(<<>>) = 0 /\ DOMAIN <<>> = {}
    OBVIOUS
  <2> HIDE DEF Unreadable
  <2>5. CASE last = <<>>
    BY <2>4, <2>5
  <2>6. ASSUME NEW e \in {Unreadable, job.events[whole + 1]}, last = <<e>>
        PROVE  /\ last \in Seq(Nat) /\ Len(last) = 1
               /\ \A i \in DOMAIN last : last[i] \in {Unreadable, job.events[whole + 1]}
    BY <2>2, <2>3, <2>6
  <2> QED
    BY <2>1, <2>5, <2>6
<1> DEFINE x == SubSeq(job.events, 1, whole) \o last
<1>4. /\ x \in Seq(Nat) /\ Len(x) = whole + Len(last) /\ DOMAIN x = 1..(whole + Len(last))
      /\ \A i \in 1..(whole + Len(last)) :
            x[i] = IF i <= whole THEN job.events[i] ELSE last[i - whole]
  BY <1>1, <1>2, <1>3, ConcatProperties
<1>5. log'.lines = log.lines \o x
  <2>1. log'.lines = log.lines \o SubSeq(job.events, 1, whole) \o last
    BY DEF TornAppend
  <2>2. log.lines \in Seq(Nat)
    BY TrailTypes
  <2>3. \A a, b, c \in Seq(Nat) : (a \o b) \o c = a \o (b \o c)
    BY ConcatAssociative
  <2> QED
    BY <1>2, <1>3, <2>1, <2>2, <2>3
<1> HIDE DEF x
<1>6. ASSUME NEW i \in DOMAIN x
      PROVE  x[i] = Unreadable \/ (i \in DOMAIN job.events /\ x[i] = job.events[i])
  <2>1. CASE i <= whole
    BY <1>1, <1>4, <2>1
  <2>2. CASE i > whole
    <3>1. i = whole + 1 /\ i - whole \in DOMAIN last
      BY <1>1, <1>3, <1>4, <2>2
    <3>2. x[i] = last[i - whole]
      BY <1>1, <1>4, <2>2
    <3> QED
      BY <1>1, <1>3, <3>1, <3>2
  <2> QED
    BY <1>1, <1>4, <2>1, <2>2
<1>7. UNCHANGED <<segments, state>> /\ job' = Idle /\ job.at = "append"
  BY DEF TornAppend
<1> QED
  BY <1>4, <1>5, <1>6, <1>7 DEF Added

\* The state takes the numbers of the transaction's events, which are in no file yet.
LEMMA WriteTrail ==
  ASSUME TypeInv, StoreInv, TrailInv, WriteState, [Next]_vars
  PROVE  TrailInv'
<1>t. TypeOK
  BY DEF TypeInv
<1>1. SameTrail /\ SequencesAreUnique'
  <2>1. ~RotateIfLarge /\ log' = log
    BY DEF WriteState, RotateIfLarge, disk
  <2> QED
    BY <2>1, SameTrailKeeps
<1>2. /\ LastGiven \in Nat /\ DOMAIN job.events = 1..Len(job.events) /\ Len(job.events) \in Nat
      /\ \A n \in Trail : LinesOf(n) \in Seq(Nat)
  BY <1>t, TrailTypes
<1>3. /\ job.events = Numbered(Len(job.events))
      /\ LastGiven' = LastGiven + Len(job.events)
  <2>1. state'.file = job.next
    BY <1>t DEF WriteState, TypeOK, StateJson
  <2> QED
    BY <2>1 DEF WriteState, TrailInv, EventsInv, Writing, LastGiven
<1>4. \A i \in DOMAIN job.events : job.events[i] = LastGiven + i
  BY <1>2, <1>3 DEF Numbered, LastGiven
<1>5. \A n \in Trail' : \A i \in DOMAIN LinesOf(n)' : LinesOf(n)'[i] <= LastGiven'
  <2>1. \A n \in Trail : \A i \in DOMAIN LinesOf(n) : LinesOf(n)[i] <= LastGiven /\ LinesOf(n)[i] \in Nat
    BY <1>2 DEF TrailInv, EventsInv
  <2> QED
    BY <1>1, <1>2, <1>3, <2>1 DEF SameTrail
<1>6. job'.at \in {"rotate", "idle"} /\ (job'.at = "rotate" => job'.events = job.events)
  BY <1>t, GotoFields, IdleJob DEF WriteState
<1>7. \A i \in DOMAIN job.events :
         /\ job.events[i] \in 1..LastGiven'
         /\ \A j \in DOMAIN job.events : job.events[i] = job.events[j] => i = j
  BY <1>2, <1>3, <1>4
<1>8. \A i \in DOMAIN job.events : \A n \in Trail : \A j \in DOMAIN LinesOf(n) :
         LinesOf(n)[j] # job.events[i]
  <2>1. \A n \in Trail : \A j \in DOMAIN LinesOf(n) : LinesOf(n)[j] <= LastGiven /\ LinesOf(n)[j] \in Nat
    BY <1>2 DEF TrailInv, EventsInv
  <2> QED
    BY <1>2, <1>4, <2>1
<1> QED
  BY <1>1, <1>5, <1>6, <1>7, <1>8 DEF SameTrail, TrailInv, EventsInv, Writing, Telling

LEMMA StepTrail ==
  ASSUME TypeInv, StoreInv, TrailInv, [Next]_vars
  PROVE  TrailInv'
<1>t. TypeOK
  BY DEF TypeInv
<1>1. ASSUME ~RotateIfLarge, log'.lines = log.lines, LastGiven' = LastGiven,
             Writing' => /\ job'.events = Numbered(Len(job'.events))
                         /\ job'.next.sequence = LastGiven + Len(job'.events),
             Telling' => Telling /\ job'.events = job.events
      PROVE  TrailInv'
  <2>1. SameTrail /\ SequencesAreUnique'
    BY <1>1, SameTrailKeeps
  <2> QED
    BY <1>1, <1>t, <2>1, SameTrailStep
<1>w. Writing => /\ job.events = Numbered(Len(job.events))
                 /\ job.next.sequence = LastGiven + Len(job.events)
  BY DEF TrailInv, EventsInv
<1>2. CASE RotateIfLarge
  BY <1>2, RotateTrail
<1>3. CASE Quiet /\ ~RotateIfLarge
  BY <1>1, <1>3, <1>w DEF Quiet, LastGiven, Writing, Telling
<1>4. CASE Resting /\ ~RotateIfLarge
  BY <1>1, <1>4 DEF Resting, LastGiven, Writing, Telling
<1>5. ASSUME NEW at \in {"write", "archive", "keyed"}, NEW count \in Nat, Started(at, count), ~RotateIfLarge
      PROVE  TrailInv'
  BY <1>1, <1>5 DEF Started, LastGiven, Writing, Telling
<1>6. CASE \/ \E new \in SUBSET Tasks, count \in Nat : Command(new, count)
           \/ \E retired \in SUBSET Tasks : Prune(retired)
           \/ \E k \in Keys : Provision(k)
  <2>1. ~RotateIfLarge
    BY <1>6, IdleJob DEF Command, Prune, Provision, Begin, RotateIfLarge
  <2> QED
    BY <1>t, <1>5, <1>6, <2>1, BegunCommand, BegunPrune, BegunProvision
<1>7. CASE WriteState
  BY <1>7, WriteTrail
<1>8. CASE AppendAudit
  BY <1>8, <1>t, AppendAdds, AddedTrail
<1>9. ASSUME NEW whole \in 0..1, NEW last, TornAppend(whole, last)
      PROVE  TrailInv'
  BY <1>9, <1>t, TornAdds, AddedTrail
<1>10. CASE Archive \/ WriteKeyed \/ WriteCurrent
  <2>1. /\ ~RotateIfLarge /\ log' = log /\ LastGiven' = LastGiven /\ Writing /\ ~Telling'
        /\ job'.events = job.events /\ job'.next = job.next
    BY <1>10, <1>t, GotoFields
       DEF Archive, WriteKeyed, WriteCurrent, RotateIfLarge, LastGiven, Writing, Telling, disk
  <2> QED
    BY <1>1, <1>w, <2>1
<1>11. CASE CompleteCopy \/ UnlinkOriginal \/ \E i \in DOMAIN segments : Compact(i)
  <2>1. ~RotateIfLarge /\ log' = log /\ LastGiven' = LastGiven
    BY <1>11, IdleJob DEF CompleteCopy, UnlinkOriginal, Compact, RotateIfLarge, LastGiven
  <2>2. ASSUME NEW i \in DOMAIN segments, Compact(i)
        PROVE  job'.at = "compress"
    BY <2>2, NewJobFields DEF Compact
  <2>3. job'.at \in {"compress", "unlink", "idle"}
    BY <1>11, <1>t, <2>2, GotoFields, IdleJob DEF CompleteCopy, UnlinkOriginal
  <2> QED
    BY <1>1, <2>1, <2>3 DEF Writing, Telling
<1> QED
  BY <1>2, <1>3, <1>4, <1>6, <1>7, <1>8, <1>9, <1>10, <1>11, Steps

\* No two audit events carry the same sequence number: a holder that stops after the state
\* is written leaves its numbers unused, and the next one starts after them.
THEOREM UniqueSequences == Spec => []SequencesAreUnique
<1>1. Init => TrailInv
  BY InitTrail
<1>2. TypeInv /\ StoreInv /\ TrailInv /\ [Next]_vars => TrailInv'
  BY StepTrail
<1>3. TrailInv => SequencesAreUnique
  BY DEF TrailInv
<1> QED
  BY <1>1, <1>2, <1>3, TypeInvariant, PTL DEF Spec

-----------------------------------------------------------------------------
(* Every event that was told stays where a reader finds it.                *)

LEMMA SegmentFields ==
  ASSUME NEW r \in Segment, NEW c
  PROVE  /\ LET q == [r EXCEPT !.copy = c]
            IN  q.lines = r.lines /\ q.original = r.original /\ q.copy = c
         /\ LET q == [r EXCEPT !.original = c]
            IN  q.lines = r.lines /\ q.original = c /\ q.copy = r.copy
  BY DEF Segment

\* An original is copied while it is there, and removed when its copy is complete.
CompactInv ==
    /\ job.at = "compress" => segments[job.segment].original
    /\ job.at = "unlink" => segments[job.segment].copy = "complete"
KeptInv == CompactInv /\ AuditIsKept

\* A segment that can be read stays so, and no original comes back.
StaysReadable ==
    \A i \in DOMAIN segments :
       /\ i \in DOMAIN segments'
       /\ Readable(segments[i]) \subseteq Readable(segments'[i])
       /\ ~segments[i].original => ~segments'[i].original

LEMMA SegmentsStayReadable ==
  ASSUME TypeInv, StoreInv, KeptInv, [Next]_vars
  PROVE  StaysReadable /\ CompactInv'
<1>t. TypeOK /\ InHand /\ job \in Job
  BY DEF TypeInv, TypeOK
<1>s. /\ segments \in Seq(Segment) /\ Len(segments) \in Nat
      /\ DOMAIN segments = 1..Len(segments) /\ \A i \in DOMAIN segments : segments[i] \in Segment
  BY <1>t DEF TypeOK
<1>1. ASSUME UNCHANGED segments
      PROVE  StaysReadable
  BY <1>1 DEF StaysReadable
<1>2. CASE RotateIfLarge
  <2>1. StaysReadable
    BY <1>2, <1>s DEF RotateIfLarge, StaysReadable
  <2>2. job'.at = "append"
    BY <1>2, <1>t, GotoFields DEF RotateIfLarge
  <2> QED
    BY <2>1, <2>2 DEF CompactInv
<1>3. ASSUME NEW i \in DOMAIN segments, Compact(i)
      PROVE  StaysReadable /\ CompactInv'
  <2> DEFINE q == [segments[i] EXCEPT !.copy = "partial"]
  <2>1. q.lines = segments[i].lines /\ q.original = segments[i].original /\ q.copy = "partial"
    BY <1>s, SegmentFields
  <2>2. segments' = [segments EXCEPT ![i] = q]
    BY <1>3 DEF Compact
  <2> HIDE DEF q
  <2>3. StaysReadable
    BY <1>3, <1>s, <2>1, <2>2 DEF Compact, StaysReadable, Readable
  <2>4. job'.at = "compress" /\ job'.segment = i
    BY <1>3, NewJobFields DEF Compact
  <2> QED
    BY <1>3, <1>s, <2>1, <2>2, <2>3, <2>4 DEF Compact, CompactInv
<1>4. CASE CompleteCopy
  <2> DEFINE q == [segments[job.segment] EXCEPT !.copy = "complete"]
  <2>0. job.segment \in DOMAIN segments
    BY <1>4, <1>t DEF CompleteCopy, InHand
  <2>1. q.lines = segments[job.segment].lines /\ q.original = segments[job.segment].original /\ q.copy = "complete"
    BY <1>s, <2>0, SegmentFields
  <2>2. segments' = [segments EXCEPT ![job.segment] = q]
    BY <1>4 DEF CompleteCopy
  <2>4. job'.at = "unlink" /\ job'.segment = job.segment
    BY <1>4, <1>t, GotoFields DEF CompleteCopy
  <2> HIDE DEF q
  <2>3. StaysReadable
    BY <1>s, <2>0, <2>1, <2>2 DEF StaysReadable, Readable
  <2> QED
    BY <1>s, <2>0, <2>1, <2>2, <2>3, <2>4 DEF CompactInv
<1>5. CASE UnlinkOriginal
  <2> DEFINE q == [segments[job.segment] EXCEPT !.original = FALSE]
  <2>0. job.segment \in DOMAIN segments /\ segments[job.segment].copy = "complete"
    BY <1>5, <1>t DEF UnlinkOriginal, InHand, KeptInv, CompactInv
  <2>1. q.lines = segments[job.segment].lines /\ q.original = FALSE /\ q.copy = segments[job.segment].copy
    BY <1>s, <2>0, SegmentFields
  <2>2. segments' = [segments EXCEPT ![job.segment] = q]
    BY <1>5 DEF UnlinkOriginal
  <2>4. job'.at = "idle"
    BY <1>5, IdleJob DEF UnlinkOriginal
  <2> HIDE DEF q
  <2>3. StaysReadable
    BY <1>s, <2>0, <2>1, <2>2 DEF StaysReadable, Readable
  <2> QED
    BY <2>3, <2>4 DEF CompactInv
<1>6. ASSUME UNCHANGED segments
      PROVE  CompactInv'
  <2>1. CASE Quiet \/ Resting
    BY <1>6, <2>1 DEF Quiet, Resting, KeptInv, CompactInv
  <2>2. CASE \/ \E new \in SUBSET Tasks, count \in Nat : Command(new, count)
             \/ \E retired \in SUBSET Tasks : Prune(retired)
             \/ \E k \in Keys : Provision(k)
    BY <1>t, <2>2, BegunCommand, BegunPrune, BegunProvision DEF Started, CompactInv
  <2>3. CASE Archive \/ WriteState \/ WriteKeyed \/ WriteCurrent
    BY <1>t, <2>3, GotoFields, IdleJob DEF Archive, WriteState, WriteKeyed, WriteCurrent, CompactInv
  <2>4. ASSUME AppendAudit \/ \E whole, last : TornAppend(whole, last)
        PROVE  CompactInv'
    BY <2>4, IdleJob DEF AppendAudit, TornAppend, CompactInv
  <2> QED
    BY <1>2, <1>3, <1>4, <1>5, <2>1, <2>2, <2>3, <2>4, Steps
<1> QED
  BY <1>1, <1>2, <1>3, <1>4, <1>5, <1>6, WhoWrites

LEMMA StepKept ==
  ASSUME TypeInv, StoreInv, KeptInv, [Next]_vars
  PROVE  AuditIsKept'
<1>t. TypeOK /\ segments \in Seq(Segment) /\ log.lines \in Seq(Nat) /\ job.events \in Seq(Nat)
  BY TrailTypes DEF TypeInv, TypeOK
<1>s. StaysReadable
  BY SegmentsStayReadable
<1> DEFINE Stored == Range(log.lines) \cup UNION {Readable(segments[i]) : i \in DOMAIN segments}
<1>1. told \subseteq Stored
  BY DEF KeptInv, AuditIsKept
<1>2. UNION {Readable(segments[i]) : i \in DOMAIN segments}
        \subseteq UNION {Readable(segments'[i]) : i \in DOMAIN segments'}
  BY <1>s DEF StaysReadable
<1>3. ASSUME NEW x, Added(x)
      PROVE  Range(log.lines) \subseteq Range(log'.lines) /\ Range(x) \subseteq Range(log'.lines)
  <2>1. log'.lines = log.lines \o x /\ x \in Seq(Nat)
    BY <1>3 DEF Added
  <2>2. Range(log.lines \o x) = Range(log.lines) \cup Range(x)
    BY <1>t, <2>1, RangeConcatenation
  <2> QED
    BY <2>1, <2>2
<1>4. CASE RotateIfLarge
  <2>1. told' = told
    BY <1>4 DEF RotateIfLarge, history
  <2>2. CASE UNCHANGED <<log, segments>>
    BY <1>1, <2>1, <2>2 DEF AuditIsKept
  <2>3. CASE segments' = Append(segments, [lines |-> log.lines, original |-> TRUE, copy |-> "none"])
    <3>1. Len(segments) + 1 \in DOMAIN segments' /\ Readable(segments'[Len(segments) + 1]) = Range(log.lines)
      BY <1>t, <2>3 DEF Readable
    <3> QED
      BY <1>1, <1>2, <2>1, <3>1 DEF AuditIsKept
  <2> QED
    BY <1>4, <2>2, <2>3 DEF RotateIfLarge
<1>5. CASE AppendAudit
  <2>1. told' = told \cup Range(job.events)
    BY <1>5 DEF AppendAudit
  <2> QED
    BY <1>1, <1>2, <1>3, <1>5, <1>t, <2>1, AppendAdds DEF AuditIsKept
<1>6. ASSUME NEW whole \in 0..1, NEW last, TornAppend(whole, last)
      PROVE  AuditIsKept'
  <2>1. told' = told
    BY <1>6 DEF TornAppend, history
  <2> QED
    BY <1>1, <1>2, <1>3, <1>6, <1>t, <2>1, TornAdds DEF AuditIsKept
<1>7. CASE UNCHANGED <<log, told>>
  BY <1>1, <1>2, <1>7 DEF AuditIsKept
<1>8. CASE Quiet \/ Resting
  BY <1>7, <1>8 DEF Quiet, Resting
<1>9. CASE \/ \E new \in SUBSET Tasks, count \in Nat : Command(new, count)
           \/ \E retired \in SUBSET Tasks : Prune(retired)
           \/ \E k \in Keys : Provision(k)
           \/ Archive \/ WriteState \/ WriteKeyed \/ WriteCurrent
           \/ \E i \in DOMAIN segments : Compact(i)
           \/ CompleteCopy \/ UnlinkOriginal
  BY <1>7, <1>9 DEF Command, Prune, Provision, Begin, Archive, WriteState, WriteKeyed, WriteCurrent,
                   Compact, CompleteCopy, UnlinkOriginal, disk, history
<1> QED
  BY <1>4, <1>5, <1>6, <1>8, <1>9, Steps

LEMMA InitKept == Init => KeptInv
  BY IdleJob DEF Init, KeptInv, CompactInv, AuditIsKept

LEMMA KeptInvariant == Spec => [](TypeInv /\ StoreInv /\ KeptInv)
<1>1. TypeInv /\ StoreInv /\ KeptInv /\ [Next]_vars => KeptInv'
  BY StepKept, SegmentsStayReadable DEF KeptInv
<1> QED
  BY <1>1, InitKept, TypeInvariant, PTL DEF Spec

\* Every event of a completed transaction stays in the active file, an original or a complete
\* copy: an original is removed only by the compaction that completed its copy.
THEOREM TrailIsKept == Spec => []AuditIsKept
<1>1. KeptInv => AuditIsKept
  BY DEF KeptInv
<1> QED
  BY <1>1, KeptInvariant, PTL

-----------------------------------------------------------------------------
(* A reading of the trail.                                                 *)

\* What a reading has not found can still be read, in a segment that it has not passed: from
\* the original or the copy, or from the copy alone once it has looked for the original.
ReaderInv ==
    \A e \in reader.want \ reader.found :
       /\ reader.at = "list" => \E i \in DOMAIN segments : e \in Readable(segments[i])
       /\ reader.at = "original" => \E i \in 1..reader.left : e \in Readable(segments[i])
       /\ reader.at = "copy" =>
             \/ \E i \in 1..(reader.left - 1) : e \in Readable(segments[i])
             \/ /\ e \in Readable(segments[reader.left])
                /\ ~segments[reader.left].original

LEMMA StepReader ==
  ASSUME TypeInv, StoreInv, KeptInv, ReaderInv, [Next]_vars
  PROVE  ReaderInv'
<1>t. TypeOK /\ InHand /\ reader \in Reader
  BY DEF TypeInv, TypeOK
<1>s. StaysReadable /\ DOMAIN segments = 1..Len(segments) /\ Len(segments) \in Nat
  BY SegmentsStayReadable, SegmentsGrow
<1>l. /\ reader.left \in Nat
      /\ reader.at \in {"original", "copy"} => reader.left <= Len(segments)
      /\ reader.at = "copy" => reader.left > 0
      /\ reader.at \in {"idle", "list", "original", "copy"}
  BY <1>t, ReaderUpdate DEF InHand, Reader
<1>1. CASE UNCHANGED reader
  <2> SUFFICES ASSUME NEW e \in reader.want \ reader.found
               PROVE  /\ reader.at = "list" => \E i \in DOMAIN segments' : e \in Readable(segments'[i])
                      /\ reader.at = "original" => \E i \in 1..reader.left : e \in Readable(segments'[i])
                      /\ reader.at = "copy" =>
                            \/ \E i \in 1..(reader.left - 1) : e \in Readable(segments'[i])
                            \/ /\ e \in Readable(segments'[reader.left])
                               /\ ~segments'[reader.left].original
    BY <1>1 DEF ReaderInv, Readable
  <2>1. CASE reader.at = "list"
    BY <1>s, <2>1 DEF ReaderInv, StaysReadable
  <2>2. CASE reader.at = "original"
    BY <1>s, <1>l, <2>2 DEF ReaderInv, StaysReadable
  <2>3. CASE reader.at = "copy"
    BY <1>s, <1>l, <2>3 DEF ReaderInv, StaysReadable
  <2> QED
    BY <2>1, <2>2, <2>3
<1>2. CASE ReadAudit
  <2>0. UNCHANGED <<log, segments>>
    BY <1>2 DEF ReadAudit, disk
  <2>1. CASE ReadActive
    BY <2>0, <2>1 DEF ReadActive, ReaderInv, KeptInv, AuditIsKept, Readable
  <2>2. CASE ListArchive
    <3>1. /\ reader'.at = "original" /\ reader'.left = Len(segments) /\ reader.at = "list"
          /\ reader'.want = reader.want /\ reader'.found = reader.found
      BY <1>t, <2>2, ReaderFields DEF ListArchive
    <3> QED
      BY <1>s, <2>0, <3>1 DEF ReaderInv, Readable
  <2>3. CASE ReadOriginal
    <3>1. PICK S : /\ S = IF segments[reader.left].original THEN Range(segments[reader.left].lines) ELSE {}
                   /\ reader' = [reader EXCEPT !.at = "copy", !.found = @ \cup S]
      BY <2>3 DEF ReadOriginal
    <3>2. /\ reader'.at = "copy" /\ reader'.left = reader.left /\ reader.left > 0 /\ reader.at = "original"
          /\ reader'.want = reader.want /\ reader'.found = reader.found \cup S
      BY <1>t, <2>3, <3>1, ReaderFields DEF ReadOriginal
    <3>3. \A i \in 1..reader.left : i = reader.left \/ i \in 1..(reader.left - 1)
      BY <1>l
    <3> QED
      BY <2>0, <3>1, <3>2, <3>3 DEF ReaderInv, Readable
  <2>4. CASE ReadCopy
    <3>1. PICK S : /\ S = IF ~segments[reader.left].original /\ segments[reader.left].copy = "complete"
                          THEN Range(segments[reader.left].lines) ELSE {}
                   /\ reader' = [reader EXCEPT !.at = "original", !.left = @ - 1, !.found = @ \cup S]
      BY <2>4 DEF ReadCopy
    <3>2. /\ reader'.at = "original" /\ reader'.left = reader.left - 1 /\ reader.at = "copy"
          /\ reader'.want = reader.want /\ reader'.found = reader.found \cup S
      BY <1>t, <2>4, <3>1, ReaderFields DEF ReadCopy
    <3> QED
      BY <2>0, <3>1, <3>2 DEF ReaderInv, Readable
  <2>5. CASE Return
    BY <2>5 DEF Return, ReaderInv
  <2> QED
    BY <1>2, <2>1, <2>2, <2>3, <2>4, <2>5 DEF ReadAudit
<1> QED
  BY <1>1, <1>2, WhoWrites

LEMMA InitReader == Init => ReaderInv
  BY DEF Init, ReaderInv

\* A reading returns every event that was told before it began, whatever was rotated, copied
\* and removed while it went from file to file.
THEOREM ReadingIsComplete == Spec => []ReaderMissesNothing
<1>1. TypeInv /\ StoreInv /\ KeptInv /\ ReaderInv /\ [Next]_vars => ReaderInv'
  BY StepReader
<1>2. ReaderInv => ReaderMissesNothing
  BY DEF ReaderInv, ReaderMissesNothing, Answered
<1> QED
  BY <1>1, <1>2, InitReader, KeptInvariant, PTL DEF Spec

-----------------------------------------------------------------------------
(* What a stop leaves half done is never lost.                             *)

\* A retired task is in its slice before the state without it is written.
RetireInv ==
    /\ job.at = "archive" => state.file.tasks \subseteq job.next.tasks \cup job.slice
    /\ job.at \in {"write", "keyed", "current"} =>
          state.file.tasks \subseteq job.next.tasks \cup UNION slices
    /\ RetiredIsArchived

LEMMA StepRetire ==
  ASSUME TypeInv, StoreInv, RetireInv, [Next]_vars
  PROVE  RetireInv'
<1>t. TypeOK /\ state \in StateJson
  BY DEF TypeInv, TypeOK
<1>1. CASE Quiet
  BY <1>1 DEF Quiet, RetireInv, RetiredIsArchived
<1>2. CASE Resting
  BY <1>2 DEF Resting, RetireInv, RetiredIsArchived
<1>3. ASSUME NEW new \in SUBSET Tasks, NEW count \in Nat, Command(new, count)
      PROVE  RetireInv'
  BY <1>3, <1>t, BegunCommand DEF Started, RetireInv, RetiredIsArchived
<1>4. ASSUME NEW retired \in SUBSET Tasks, Prune(retired)
      PROVE  RetireInv'
  BY <1>4, <1>t, BegunPrune DEF Started, RetireInv, RetiredIsArchived
<1>5. ASSUME NEW k \in Keys, Provision(k)
      PROVE  RetireInv'
  BY <1>5, <1>t, BegunProvision DEF Started, RetireInv, RetiredIsArchived
<1>6. CASE Archive
  <2>1. /\ UNCHANGED <<state, seen>> /\ slices' = slices \cup {job.slice} /\ job.at = "archive"
        /\ job'.at = "write" /\ job'.next = job.next
    BY <1>6, <1>t, GotoFields DEF Archive, history
  <2> QED
    BY <2>1 DEF RetireInv, RetiredIsArchived
<1>7. CASE WriteState
  <2>1. /\ state'.file = job.next /\ seen' = seen \cup job.next.tasks /\ UNCHANGED slices
        /\ job.at = "write" /\ job'.at \in {"idle", "rotate"}
    BY <1>7, <1>t, GotoFields, IdleJob DEF WriteState, StateJson, disk
  <2> QED
    BY <2>1 DEF RetireInv, RetiredIsArchived
<1>8. CASE WriteKeyed \/ WriteCurrent
  <2>1. /\ UNCHANGED <<state, seen, slices>> /\ job.at \in {"keyed", "current"}
        /\ job'.at \in {"write", "current"} /\ job'.next = job.next
    BY <1>8, <1>t, GotoFields DEF WriteKeyed, WriteCurrent, history, disk
  <2> QED
    BY <2>1 DEF RetireInv, RetiredIsArchived
<1>9. ASSUME UNCHANGED <<state, seen, slices>>,
             job'.at \in {"append", "idle", "compress", "unlink"}
      PROVE  RetireInv'
  BY <1>9 DEF RetireInv, RetiredIsArchived
<1>10. ASSUME RotateIfLarge \/ CompleteCopy
       PROVE  UNCHANGED <<state, seen, slices>> /\ job'.at \in {"append", "unlink"}
  BY <1>10, <1>t, GotoFields DEF RotateIfLarge, CompleteCopy, history
<1>11. ASSUME AppendAudit \/ UnlinkOriginal \/ \E whole, last : TornAppend(whole, last)
       PROVE  UNCHANGED <<state, seen, slices>> /\ job'.at = "idle"
  BY <1>11, IdleJob DEF AppendAudit, UnlinkOriginal, TornAppend, history
<1>12. ASSUME NEW i \in DOMAIN segments, Compact(i)
       PROVE  UNCHANGED <<state, seen, slices>> /\ job'.at = "compress"
  BY <1>12, NewJobFields DEF Compact, history
<1> QED
  BY <1>1, <1>2, <1>3, <1>4, <1>5, <1>6, <1>7, <1>8, <1>9, <1>10, <1>11, <1>12, Steps

\* A key that a policy names, or will, has its private copy: the copy is made before the
\* state is written, and a command gets the key after that.
PolicyKeys == returned \cup ({policy} \ {NoKey})
KeysInv ==
    /\ PolicyKeys \subseteq keys.copies
    /\ job.at \in {"archive", "write", "current"} => job.key \in keys.copies \cup {NoKey}

LEMMA StepKeys ==
  ASSUME StorageAssumption, TypeInv, StoreInv, KeysInv, [Next]_vars
  PROVE  KeysInv'
<1>t. TypeOK /\ keys \in KeyFiles
  BY DEF TypeInv, TypeOK
<1>1. keys.copies \subseteq keys'.copies
  <2>1. UNCHANGED keys \/ WriteKeyed \/ WriteCurrent
    BY Steps DEF Quiet, Resting, Command, Prune, Provision, Begin, Archive, WriteState, RotateIfLarge,
                 AppendAudit, TornAppend, Compact, CompleteCopy, UnlinkOriginal, signing
  <2> QED
    BY <1>t, <2>1 DEF WriteKeyed, WriteCurrent, KeepCopy, KeyFiles
<1>2. PolicyKeys' \subseteq keys.copies
  <2>1. CASE UNCHANGED <<policy, returned>>
    BY <2>1 DEF PolicyKeys, KeysInv
  <2>2. CASE WriteState
    BY <2>2 DEF WriteState, PolicyKeys, KeysInv
  <2>3. ASSUME NEW k \in Keys, WritePolicy(k)
        PROVE  PolicyKeys' \subseteq keys.copies
    BY <2>3 DEF WritePolicy, PolicyKeys, KeysInv
  <2> QED
    BY <2>1, <2>2, <2>3, WhoWrites
<1>3. job'.at \in {"archive", "write", "current"} => job'.key \in keys'.copies \cup {NoKey}
  <2>1. CASE Quiet \/ Resting
    BY <2>1 DEF Quiet, Resting, KeysInv
  <2>2. ASSUME NEW new \in SUBSET Tasks, NEW count \in Nat, Command(new, count)
        PROVE  job'.key = NoKey
    BY <2>2, <1>t, BegunCommand
  <2>3. ASSUME NEW retired \in SUBSET Tasks, Prune(retired)
        PROVE  job'.key = NoKey
    BY <2>3, <1>t, BegunPrune
  <2>4. ASSUME NEW k \in Keys, Provision(k)
        PROVE  job'.at = "keyed"
    BY <2>4, <1>t, BegunProvision DEF Started
  <2>5. CASE Archive
    <3>1. job.at = "archive" /\ job'.key = job.key
      BY <2>5, <1>t, GotoFields DEF Archive
    <3> QED
      BY <1>1, <3>1 DEF KeysInv
  <2>6. CASE WriteKeyed
    <3>1. job'.key = job.key /\ job.key \in keys'.copies
      BY <2>6, <1>t, GotoFields DEF WriteKeyed, KeepCopy, KeyFiles
    <3> QED
      BY <3>1
  <2>7. CASE WriteCurrent
    <3>1. job'.key = job.key /\ job.at = "current"
      BY <2>7, <1>t, GotoFields DEF WriteCurrent
    <3> QED
      BY <1>1, <3>1 DEF KeysInv
  <2>8. ASSUME WriteState \/ RotateIfLarge \/ CompleteCopy
        PROVE  job'.at \in {"idle", "rotate", "append", "unlink"}
    BY <2>8, <1>t, GotoFields, IdleJob DEF WriteState, RotateIfLarge, CompleteCopy
  <2>9. ASSUME AppendAudit \/ UnlinkOriginal \/ \E whole, last : TornAppend(whole, last)
        PROVE  job'.at = "idle"
    BY <2>9, IdleJob DEF AppendAudit, UnlinkOriginal, TornAppend
  <2>10. ASSUME NEW i \in DOMAIN segments, Compact(i)
         PROVE  job'.at = "compress"
    BY <2>10, NewJobFields DEF Compact
  <2> QED
    BY <2>1, <2>2, <2>3, <2>4, <2>5, <2>6, <2>7, <2>8, <2>9, <2>10, Steps
<1> QED
  BY <1>1, <1>2, <1>3 DEF KeysInv

\* A file is rewritten only beside its backup, and never beside a slice of a newer release.
FormatsInv == OriginalsKept /\ NotBesideNewer

LEMMA StepFormats ==
  ASSUME StorageAssumption, TypeInv, StoreInv, FormatsInv, [Next]_vars
  PROVE  FormatsInv'
<1>t. TypeOK /\ job \in Job /\ format \in [Files -> {"none", "old", "newer", "current"}]
  BY DEF TypeInv, TypeOK
<1>1. backups \subseteq backups'
  BY WhoWrites DEF BackUp
<1>2. UNCHANGED format \/ (\E f \in Files : OtherRelease(f)) \/ (\E f \in Files : Replace(f))
  BY WhoWrites
<1>3. job'.at = "backup" => UNCHANGED job \/ Migrate \/ \E f \in Files : Replace(f)
  <2>1. CASE Quiet \/ Resting
    BY <2>1 DEF Quiet, Resting
  <2>2. CASE \/ \E new \in SUBSET Tasks, count \in Nat : Command(new, count)
             \/ \E retired \in SUBSET Tasks : Prune(retired)
             \/ \E k \in Keys : Provision(k)
    BY <1>t, <2>2, BegunCommand, BegunPrune, BegunProvision DEF Started
  <2>3. ASSUME Archive \/ WriteState \/ RotateIfLarge \/ CompleteCopy \/ WriteKeyed \/ WriteCurrent
        PROVE  job'.at # "backup"
    BY <2>3, <1>t, GotoFields, IdleJob
       DEF Archive, WriteState, RotateIfLarge, CompleteCopy, WriteKeyed, WriteCurrent
  <2>4. ASSUME AppendAudit \/ UnlinkOriginal \/ \E whole, last : TornAppend(whole, last)
        PROVE  job'.at = "idle"
    BY <2>4, IdleJob DEF AppendAudit, UnlinkOriginal, TornAppend
  <2>5. ASSUME NEW i \in DOMAIN segments, Compact(i)
        PROVE  job'.at = "compress"
    BY <2>5, NewJobFields DEF Compact
  <2> QED
    BY <2>1, <2>2, <2>3, <2>4, <2>5, Steps
<1>4. CASE UNCHANGED format
  <2>1. OriginalsKept'
    BY <1>1, <1>4 DEF FormatsInv, OriginalsKept
  <2>2. ASSUME job'.at = "backup"
        PROVE  \A f \in Locked : format[f] # "newer"
    <3>1. CASE UNCHANGED job
      BY <2>2, <3>1 DEF FormatsInv, NotBesideNewer
    <3>2. CASE Migrate
      BY <2>2, <3>2, IdleJob, StorageAssumption DEF Migrate, Rescanned, NoneBlocked, StorageAssumption
    <3>3. ASSUME NEW f \in Files, Replace(f)
          PROVE  \A g \in Locked : format[g] # "newer"
      BY <3>3 DEF Replace, FormatsInv, NotBesideNewer
    <3> QED
      BY <1>3, <2>2, <3>1, <3>2, <3>3
  <2> QED
    BY <1>4, <2>1, <2>2 DEF FormatsInv, NotBesideNewer
<1>5. ASSUME NEW f \in Files, OtherRelease(f)
      PROVE  FormatsInv'
  <2>1. OriginalsKept'
    BY <1>1, <1>5, <1>t DEF OtherRelease, FormatsInv, OriginalsKept
  <2>2. CASE f \in Locked
    <3>1. job'.at # "backup"
      BY <1>5, <2>2, IdleJob DEF OtherRelease
    <3> QED
      BY <2>1, <3>1 DEF FormatsInv, NotBesideNewer
  <2>3. CASE f \notin Locked
    <3>1. UNCHANGED job /\ \A g \in Locked : format'[g] = format[g]
      BY <1>5, <1>t, <2>3, StorageAssumption DEF OtherRelease, StorageAssumption
    <3> QED
      BY <2>1, <3>1 DEF FormatsInv, NotBesideNewer
  <2> QED
    BY <2>2, <2>3
<1>6. ASSUME NEW f \in Files, Replace(f)
      PROVE  FormatsInv'
  <2>1. OriginalsKept'
    BY <1>1, <1>6, <1>t DEF Replace, FormatsInv, OriginalsKept
  <2>2. NotBesideNewer'
    BY <1>6, <1>t, StorageAssumption
       DEF Replace, FormatsInv, NotBesideNewer, StorageAssumption
  <2> QED
    BY <2>1, <2>2 DEF FormatsInv
<1> QED
  BY <1>2, <1>4, <1>5, <1>6

LEMMA InitHouse == Init => RetireInv /\ KeysInv /\ FormatsInv
  BY IdleJob DEF Init, EmptyState, RetireInv, RetiredIsArchived, KeysInv, PolicyKeys, FormatsInv,
                 OriginalsKept, NotBesideNewer

\* Whatever a stop leaves half done, a retired task is in a slice, a migrated file has its
\* backup, no file is rewritten beside a slice of a newer release, and the key that the policy
\* names can be found.
THEOREM HousekeepingSafe == Spec => []HousekeepingIsSafe
<1>1. TypeInv /\ StoreInv /\ RetireInv /\ [Next]_vars => RetireInv'
  BY StepRetire
<1>2. TypeInv /\ StoreInv /\ KeysInv /\ [Next]_vars => KeysInv'
  BY StorageAssumption, StepKeys
<1>3. TypeInv /\ StoreInv /\ FormatsInv /\ [Next]_vars => FormatsInv'
  BY StorageAssumption, StepFormats
<1>4. RetireInv /\ KeysInv /\ FormatsInv => HousekeepingIsSafe
  BY DEF RetireInv, KeysInv, PolicyKeys, FormatsInv, HousekeepingIsSafe, PolicyFindsItsKey, KeyFor
<1> QED
  BY <1>1, <1>2, <1>3, <1>4, InitHouse, TypeInvariant, PTL DEF Spec
=============================================================================
