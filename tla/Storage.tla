------------------------------- MODULE Storage -------------------------------
(***************************************************************************)
(* The files of a broker and the durable steps they are written in         *)
(* (src/src/store.ts, storage.ts and migrations.ts): the state, created    *)
(* once; the audit log with its rotated and compressed segments; the       *)
(* archived slices; files of other releases; the signing keys.  Writers    *)
(* hold the state lock, one at a time (module BrokerLock), and `job` is    *)
(* the holder's progress.  It may stop between any two steps, and in the   *)
(* middle of an append.  Initialization and readers take no lock.          *)
(***************************************************************************)
EXTENDS Integers, Sequences, SequencesExt

CONSTANTS
    Processes,    \* those that may initialize the store
    Tasks,        \* completed tasks, ripe for retirement
    Keys,         \* signing keys
    Files,        \* saved files that other releases may leave behind
    Locked,       \* those written under the state lock: the archived slices; not the receipts,
                  \* the sidecars of submissions and the Gate authority
    NoKey,
    RotateAt,     \* AUDIT_ROTATE_BYTES, in lines
    Mixes,        \* bound: the sets of kinds of command that one behaviour has
    MaxSequence,  \* bound: audit events
    MaxStops      \* bound: holders that stop half-way

ASSUME StorageAssumption ==
    /\ RotateAt \in Nat \ {0} /\ MaxSequence \in Nat /\ MaxStops \in Nat
    /\ NoKey \notin Keys /\ Locked \subseteq Files
    /\ Mixes \subseteq SUBSET {"tasks", "compact", "trail", "metrics", "formats", "keys"}

\* A line of an audit file is the number of the event that it holds, or no event that
\* a reader can parse.
Unreadable == 0
EmptyLog == [lines |-> <<>>, open |-> FALSE]
EmptyState == [sequence |-> 0, tasks |-> {}]

VARIABLES
    mix,        \* the kinds of command of this behaviour
    state,      \* state.json: whether it is there, its sequence and its tasks
    starting,   \* processes that found no state.json
    log,        \* audit.jsonl: lines, and whether the last one lacks its newline
    segments,   \* rotated files, oldest first: lines, original there or not, gzip copy
    slices,     \* sets of tasks archived together
    format,     \* format of every saved file of another release
    backups,    \* files whose original bytes were copied
    previewed,  \* whether a migration was previewed and found possible
    keys,       \* the private keys: the copies by id, and the current one
    policy,     \* the public key in the committed configuration
    returned,   \* keys given to a command that has not written its policy
    job,        \* the holder of the state lock
    stops,      \* how many holders stopped half-way
    told,       \* history: the events whose transaction completed
    seen,       \* history: the tasks that were in the state
    reader,     \* one reading of the audit trail
    metrics     \* one reading of the tasks, active and archived

disk == <<log, segments, slices>>
migration == <<format, backups, previewed>>
signing == <<keys, policy, returned>>
history == <<told, seen>>
readers == <<reader, metrics>>
vars == <<mix, state, starting, disk, migration, signing, job, stops, history, readers>>

Idle == [at |-> "idle", next |-> EmptyState, events |-> <<>>, slice |-> {}, key |-> NoKey,
         todo |-> {}, segment |-> 0]

Init ==
    /\ mix \in Mixes
    /\ state = [present |-> FALSE, file |-> EmptyState]
    /\ starting = {}
    /\ log = EmptyLog /\ segments = <<>> /\ slices = {}
    /\ format = [f \in Files |-> "none"] /\ backups = {} /\ previewed = FALSE
    /\ keys = [copies |-> {}, current |-> NoKey] /\ policy = NoKey /\ returned = {}
    /\ job = Idle /\ stops = 0
    /\ told = {} /\ seen = {}
    /\ reader = [at |-> "idle", want |-> {}, found |-> {}, left |-> 0]
    /\ metrics = [todo |-> {}, want |-> {}, found |-> {}]

Goto(at) == job' = [job EXCEPT !.at = at]

-----------------------------------------------------------------------------
(* Faults: one thing wrong each, for what the properties must catch; not   *)
(* part of the specification.                                              *)

Renamed == state' = [present |-> TRUE, file |-> EmptyState]
Glued(events) ==
    log' = [lines |-> IF log.open THEN Append(Front(log.lines), Unreadable) \o Tail(events)
                      ELSE log.lines \o events,
            open |-> FALSE]
NoExistsCheck ==
    /\ reader.at = "copy"
    /\ reader' = [reader EXCEPT !.at = "original", !.left = @ - 1]
PreviewTrusted == TRUE

-----------------------------------------------------------------------------
(* Initialization: a complete file is linked into place, unless there is   *)
(* one by then.                                                            *)

LinkState ==
    IF state.present THEN UNCHANGED state
    ELSE state' = [present |-> TRUE, file |-> EmptyState]

FindNoState(p) ==
    /\ ~state.present
    /\ starting' = starting \cup {p}
    /\ UNCHANGED <<state, disk, migration, signing, job, stops, history, readers>>

Initialize(p) ==
    /\ p \in starting
    /\ starting' = starting \ {p}
    /\ LinkState
    /\ UNCHANGED <<disk, migration, signing, job, stops, history, readers>>

-----------------------------------------------------------------------------
(* Transactions: the mutator, the state, the rotation, the audit events.   *)

\* audit(): every event takes the next number.
Numbered(count) == [i \in 1..count |-> state.file.sequence + i]

Begin(at, file, count, fields) ==
    /\ job = Idle /\ state.present
    /\ state.file.sequence + count <= MaxSequence
    /\ job' = [fields EXCEPT !.at = at, !.events = Numbered(count),
                             !.next = [file EXCEPT !.sequence = @ + count]]
    /\ UNCHANGED <<state, starting, disk, migration, signing, stops, history, readers>>

\* A command that records `count` events and may add a task.
Command(new, count) ==
    /\ "tasks" \in mix
    /\ new \cap seen = {}
    /\ Begin("write", [state.file EXCEPT !.tasks = @ \cup new], count, Idle)

\* prune: the retired tasks are archived by the mutator.
Prune(retired) ==
    /\ retired # {} /\ retired \subseteq state.file.tasks
    /\ Begin("archive", [state.file EXCEPT !.tasks = @ \ retired], 1,
             [Idle EXCEPT !.slice = retired])

Archive ==
    /\ job.at = "archive"
    /\ slices' = slices \cup {job.slice}
    /\ Goto("write")
    /\ UNCHANGED <<state, starting, log, segments, migration, signing, stops, history, readers>>

WriteState ==
    /\ job.at = "write"
    /\ state' = [state EXCEPT !.file = job.next]
    /\ seen' = seen \cup job.next.tasks
    /\ returned' = returned \cup ({job.key} \ {NoKey})
    /\ IF job.events = <<>> THEN job' = Idle ELSE Goto("rotate")
    /\ UNCHANGED <<starting, disk, migration, keys, policy, stops, told, readers>>

RotateIfLarge ==
    /\ job.at = "rotate"
    /\ IF Len(log.lines) < RotateAt THEN UNCHANGED <<log, segments>>
       ELSE /\ segments' = Append(segments, [lines |-> log.lines, original |-> TRUE,
                                             copy |-> "none"])
            /\ log' = EmptyLog
    /\ Goto("append")
    /\ UNCHANGED <<state, starting, slices, migration, signing, stops, history, readers>>

\* A fragment at the end of the file gets its newline first.
Appended(events) == log' = [lines |-> log.lines \o events, open |-> FALSE]

AppendAudit ==
    /\ job.at = "append"
    /\ Appended(job.events)
    /\ told' = told \cup Range(job.events)
    /\ job' = Idle
    /\ UNCHANGED <<state, starting, segments, slices, migration, signing, stops, seen, readers>>

\* The holder stops while it appends: some lines are whole, the next is missing, cut, or
\* lacks its newline only.
TornAppend(whole, last) ==
    /\ job.at = "append" /\ stops < MaxStops
    /\ whole < Len(job.events)
    /\ last \in {<<>>, <<Unreadable>>, <<job.events[whole + 1]>>}
    /\ log' = [lines |-> log.lines \o SubSeq(job.events, 1, whole) \o last,
               open |-> last # <<>>]
    /\ job' = Idle
    /\ stops' = stops + 1
    /\ UNCHANGED <<state, starting, segments, slices, migration, signing, history, readers>>

Stop ==
    /\ job # Idle /\ stops < MaxStops
    /\ job' = Idle
    /\ stops' = stops + 1
    /\ UNCHANGED <<state, starting, disk, migration, signing, history, readers>>

-----------------------------------------------------------------------------
(* storage compact: one segment after another, each original removed when  *)
(* its compressed copy is complete.                                        *)

\* An original that has no compressed copy yet.
Compact(i) ==
    /\ "compact" \in mix
    /\ job = Idle
    /\ segments[i].original /\ segments[i].copy = "none"
    /\ segments' = [segments EXCEPT ![i].copy = "partial"]
    /\ job' = [Idle EXCEPT !.at = "compress", !.segment = i]
    /\ UNCHANGED <<state, starting, log, slices, migration, signing, stops, history, readers>>

CompleteCopy ==
    /\ job.at = "compress"
    /\ segments' = [segments EXCEPT ![job.segment].copy = "complete"]
    /\ Goto("unlink")
    /\ UNCHANGED <<state, starting, log, slices, migration, signing, stops, history, readers>>

UnlinkOriginal ==
    /\ job.at = "unlink"
    /\ segments' = [segments EXCEPT ![job.segment].original = FALSE]
    /\ job' = Idle
    /\ UNCHANGED <<state, starting, log, slices, migration, signing, stops, history, readers>>

-----------------------------------------------------------------------------
(* migrate: files of an older release are rewritten, unless there is one   *)
(* that this release cannot read.                                          *)

\* A broker of another release archives a slice, holding the state lock for it, or writes a
\* receipt, a sidecar or the Gate authority, for which it does not.  Only slices have an old
\* format that can be rewritten.
OtherRelease(f) ==
    /\ "formats" \in mix
    /\ state.present /\ format[f] = "none"
    /\ f \in Locked => job = Idle
    /\ \E written \in {"newer"} \cup IF f \in Locked THEN {"old"} ELSE {} :
          format' = [format EXCEPT ![f] = written]
    /\ UNCHANGED <<state, starting, disk, backups, previewed, signing, job, stops, history,
                   readers>>

Upgradable == {f \in Files : format[f] = "old"}
NoneBlocked == \A f \in Files : format[f] # "newer"

\* The preview takes no lock.
Preview ==
    /\ NoneBlocked /\ Upgradable # {}
    /\ previewed' = TRUE
    /\ UNCHANGED <<state, starting, disk, format, backups, signing, job, stops, history, readers>>

\* The scan is repeated under the lock.
Rescanned == NoneBlocked

Migrate ==
    /\ job = Idle /\ previewed
    /\ previewed' = FALSE
    /\ job' = IF Rescanned /\ Upgradable # {}
              THEN [Idle EXCEPT !.at = "backup", !.todo = Upgradable] ELSE Idle
    /\ UNCHANGED <<state, starting, disk, format, backups, signing, stops, history, readers>>

BackUp(f) ==
    /\ job.at = "backup" /\ f \in job.todo \ backups
    /\ backups' = backups \cup {f}
    /\ UNCHANGED <<state, starting, disk, format, previewed, signing, job, stops, history, readers>>

Replace(f) ==
    /\ job.at = "backup" /\ f \in job.todo \cap backups
    /\ format' = [format EXCEPT ![f] = "current"]
    /\ job' = IF job.todo = {f} THEN Idle ELSE [job EXCEPT !.todo = @ \ {f}]
    /\ UNCHANGED <<state, starting, disk, backups, previewed, signing, stops, history, readers>>

-----------------------------------------------------------------------------
(* Signing keys: provisionProvenanceSigningKey is a transaction without    *)
(* events; its caller then writes the policy.                              *)

\* readProvenanceSigningKey: the copy named after the trusted key, else the current one.
KeyFor(trusted) == IF trusted \in keys.copies THEN trusted ELSE keys.current

\* The current key is kept unless rotation is explicit; a rotation imports a key or makes one.
Provision(k) ==
    /\ "keys" \in mix
    /\ Begin("keyed", state.file, 0, [Idle EXCEPT !.key = k])

KeepCopy(k) == keys' = [keys EXCEPT !.copies = @ \cup {k}]

WriteKeyed ==
    /\ job.at = "keyed"
    /\ KeepCopy(job.key)
    /\ Goto(IF job.key = keys.current THEN "write" ELSE "current")
    /\ UNCHANGED <<state, starting, disk, migration, policy, returned, stops, history, readers>>

WriteCurrent ==
    /\ job.at = "current"
    /\ keys' = [keys EXCEPT !.current = job.key]
    /\ Goto("write")
    /\ UNCHANGED <<state, starting, disk, migration, policy, returned, stops, history, readers>>

\* The caller writes the public key into the configuration.
WritePolicy(k) ==
    /\ k \in returned
    /\ policy' = k
    /\ returned' = returned \ {k}
    /\ UNCHANGED <<state, starting, disk, migration, keys, job, stops, history, readers>>

-----------------------------------------------------------------------------
(* Readers, without the lock.                                              *)

\* readAudit: the active file.
ReadActive ==
    /\ reader.at = "idle"
    /\ reader' = [at |-> "list", want |-> told, found |-> Range(log.lines), left |-> 0]

ListArchive ==
    /\ reader.at = "list"
    /\ reader' = [reader EXCEPT !.at = "original", !.left = Len(segments)]

\* The newest segment that is left: its original, and then its copy if there is no
\* original by then.
ReadOriginal ==
    /\ reader.at = "original" /\ reader.left > 0
    /\ LET segment == segments[reader.left]
       IN reader' = [reader EXCEPT !.at = "copy",
                         !.found = @ \cup IF segment.original THEN Range(segment.lines) ELSE {}]

ReadCopy ==
    /\ reader.at = "copy"
    /\ LET segment == segments[reader.left]
       IN reader' = [reader EXCEPT !.at = "original", !.left = @ - 1,
                         !.found = @ \cup IF ~segment.original /\ segment.copy = "complete"
                                          THEN Range(segment.lines) ELSE {}]

Answered == reader.at = "original" /\ reader.left = 0

Return ==
    /\ Answered
    /\ reader' = [at |-> "idle", want |-> {}, found |-> {}, left |-> 0]

ReadAudit ==
    /\ "trail" \in mix
    /\ ReadActive \/ ListArchive \/ ReadOriginal \/ ReadCopy \/ Return
    /\ UNCHANGED <<state, starting, disk, migration, signing, job, stops, history, metrics>>

\* metrics: the state and the archived slices are read at the same time.
BeginMetrics ==
    /\ metrics.todo = {}
    /\ metrics' = [todo |-> {"state", "archive"}, want |-> seen, found |-> {}]

ReadPart(part, found) ==
    /\ part \in metrics.todo
    /\ metrics' = [metrics EXCEPT !.todo = @ \ {part}, !.found = @ \cup found]

ReadMetrics ==
    /\ "metrics" \in mix
    /\ BeginMetrics \/ ReadPart("state", state.file.tasks) \/ ReadPart("archive", UNION slices)
    /\ UNCHANGED <<state, starting, disk, migration, signing, job, stops, history, reader>>

-----------------------------------------------------------------------------
Step ==
    \/ \E p \in Processes : FindNoState(p) \/ Initialize(p)
    \/ \E new \in {{}} \cup {{t} : t \in Tasks}, count \in 1..2 : Command(new, count)
    \/ \E retired \in SUBSET Tasks : Prune(retired)
    \/ Archive \/ WriteState \/ RotateIfLarge \/ AppendAudit
    \/ \E whole \in 0..1, last \in {<<>>, <<Unreadable>>} \cup {<<n>> : n \in 1..MaxSequence} :
          TornAppend(whole, last)
    \/ Stop
    \/ \E i \in DOMAIN segments : Compact(i)
    \/ CompleteCopy \/ UnlinkOriginal
    \/ \E f \in Files : OtherRelease(f) \/ BackUp(f) \/ Replace(f)
    \/ Preview \/ Migrate
    \/ \E k \in Keys : Provision(k) \/ WritePolicy(k)
    \/ WriteKeyed \/ WriteCurrent
    \/ ReadAudit \/ ReadMetrics

Next == Step /\ UNCHANGED mix

Spec == Init /\ [][Next]_vars

-----------------------------------------------------------------------------
(* Properties.                                                             *)

Phases == {"idle", "archive", "write", "rotate", "append", "compress", "unlink", "backup",
           "keyed", "current"}
StateFile == [sequence : Nat, tasks : SUBSET Tasks]
StateJson == [present : BOOLEAN, file : StateFile]
AuditLog == [lines : Seq(Nat), open : BOOLEAN]
Segment == [lines : Seq(Nat), original : BOOLEAN, copy : {"none", "partial", "complete"}]
KeyFiles == [copies : SUBSET Keys, current : Keys \cup {NoKey}]
Job == [at : Phases, next : StateFile, events : Seq(Nat), slice : SUBSET Tasks,
        key : Keys \cup {NoKey}, todo : SUBSET Files, segment : Nat]
Reader == [at : {"idle", "list", "original", "copy"}, want : SUBSET Nat, found : SUBSET Nat,
           left : Nat]

TypeOK ==
    /\ state \in StateJson
    /\ log \in AuditLog /\ segments \in Seq(Segment) /\ slices \subseteq SUBSET Tasks
    /\ format \in [Files -> {"none", "old", "newer", "current"}] /\ backups \subseteq Files
    /\ keys \in KeyFiles /\ policy \in Keys \cup {NoKey} /\ returned \subseteq Keys
    /\ job \in Job
    /\ told \subseteq Nat /\ seen \subseteq Tasks
    /\ reader \in Reader

\* The files of the trail, oldest first; the active one is the last.
Trail == 1..(Len(segments) + 1)
LinesOf(n) == IF n \in DOMAIN segments THEN segments[n].lines ELSE log.lines
Readable(segment) ==
    IF segment.original \/ segment.copy = "complete" THEN Range(segment.lines) ELSE {}

\* No two audit events ever carry the same sequence number, although processes initialize
\* the store at the same time and holders stop between the state and the append
\* (initialize, transaction).
SequencesAreUnique ==
    \A m, n \in Trail : \A i \in DOMAIN LinesOf(m), j \in DOMAIN LinesOf(n) :
        LinesOf(m)[i] = LinesOf(n)[j] /\ LinesOf(m)[i] # Unreadable => m = n /\ i = j

\* Every event of a completed transaction can be read from the active file, a rotated
\* original, or a complete compressed copy, whatever stopped before it or since
\* (appendAudit, rotateAuditIfLarge, compactAuditStorage).
AuditIsKept ==
    told \subseteq Range(log.lines)
                   \cup UNION {Readable(segments[i]) : i \in DOMAIN segments}

\* A reading of the audit trail returns every event told before it began, although files
\* are rotated and compressed while it goes from one to the next without a lock (readAudit).
ReaderMissesNothing == Answered => reader.want \subseteq reader.found

\* What a stop leaves half done is never lost: a retired task is in an archived slice; a
\* migrated file has its original bytes in a backup, and none is rewritten beside a slice of
\* a newer release, which would leave an archive that neither release can read; the committed
\* policy, or the one about to be, finds its private key (prune, applySavedFormatMigrations,
\* provisionProvenanceSigningKey).
RetiredIsArchived == seen \subseteq state.file.tasks \cup UNION slices
OriginalsKept == \A f \in Files : format[f] = "current" => f \in backups
NotBesideNewer == job.at = "backup" => \A f \in Locked : format[f] # "newer"
PolicyFindsItsKey == \A k \in returned \cup ({policy} \ {NoKey}) : KeyFor(k) = k
HousekeepingIsSafe ==
    RetiredIsArchived /\ OriginalsKept /\ NotBesideNewer /\ PolicyFindsItsKey

\* As documented, and violated (applySavedFormatMigrations): no file is rewritten beside any
\* saved file of a newer release.  The rescan is under the state lock, but receipts, sidecars
\* and the Gate authority are written without it.
NeverPartial == [][(\E f \in Files : Replace(f)) => NoneBlocked]_vars

\* metrics counts every task there was, active or archived: prune moves tasks from the state
\* to the archive while the two are read.
MetricsMissNothing == metrics.todo = {} => metrics.want \subseteq metrics.found
=============================================================================
