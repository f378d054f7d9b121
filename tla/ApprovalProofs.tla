--------------------------- MODULE ApprovalProofs ---------------------------
(***************************************************************************)
(* Theorems about Approval, for any configurations, any number of          *)
(* revisions, tips, moves and faults.                                      *)
(***************************************************************************)
EXTENDS Approval, TLAPS

-----------------------------------------------------------------------------
(* The record by itself: what every transaction keeps.                     *)

\* A batch without candidate record has no approval, no revision and no request for changes.
SoundUntracked(b) ==
    ~b.tracked => /\ b.state = "verifying" /\ b.approval = "none" /\ ~b.revoked
                  /\ ~b.change /\ ~b.lease
                  /\ b.rev = 1 /\ b.intent = NoIntent

\* Only a candidate with all its evidence is ready, and only one that is ready was approved.
SoundEvidence(b) == b.state \in Approvable => b.manual = "passed" /\ b.checks = "passed"

\* An approval names what the record holds, and nothing was approved without one.
SoundApproval(b) ==
    /\ b.approval # "none" => /\ b.grant = Bound(b)
                              /\ b.state \in {"approved", "merging", "merged"}
                              /\ ~b.lease
    /\ b.approval = "none" => b.state \notin {"approved", "merging"} /\ ~b.revoked

\* An announced revision is the next one of a batch that is not done.
SoundIntent(b) ==
    b.intent # NoIntent => /\ b.intent.rev = b.rev + 1 /\ b.tracked
                           /\ b.status \in {"prepared", "published"}

\* What the status of the batch goes with.
SoundStatus(b) ==
    /\ b.status = "published" => b.url
    /\ b.closing => b.refresh
    /\ b.state = "merged" => b.status = "merged"
    /\ b.status = "merged" => ~b.change /\ b.intent = NoIntent /\ (b.tracked => b.approval = "confirmed")

\* A record the transactions can leave behind.
Sound(b) == /\ b \in BatchRecord
            /\ SoundUntracked(b) /\ SoundEvidence(b) /\ SoundApproval(b) /\ SoundIntent(b)
            /\ SoundStatus(b)

LEMMA InitSound ==
  ASSUME Init
  PROVE  Sound(batch)
<1>1. batch \in BatchRecord
  BY ApprovalAssumption DEF Init, BatchRecord, CandidateState, Sticky, Final, Verdict, Rev, Tip, NoIntent,
       ApprovalAssumption, Config
<1> QED
  BY <1>1 DEF Init, Sound, SoundUntracked, SoundEvidence, SoundApproval, SoundIntent, SoundStatus, NoIntent, Approvable

LEMMA States ==
  {"verifying", "verification_failed", "ready_for_approval", "approved", "merging", "superseded",
   "abandoned", "merged", "changes_requested", "blocked"} = CandidateState
  BY DEF CandidateState, Sticky, Final

\* The fields of a record that lost its approval, or got a new candidate.
Withdrawn(n, b) ==
    /\ n.status = b.status /\ n.tracked = b.tracked /\ n.rev = b.rev /\ n.base = b.base
    /\ n.policy = b.policy /\ n.state = b.state /\ n.manual = b.manual /\ n.checks = b.checks
    /\ n.approval = "none" /\ n.revoked = FALSE /\ n.grant = NoIntent /\ n.auto = b.auto
    /\ n.url = b.url /\ n.refresh = b.refresh /\ n.closing = b.closing /\ n.change = b.change
    /\ n.intent = b.intent /\ n.local = b.local /\ n.lease = b.lease /\ n.requeued = b.requeued

\* n is b with the unapproved candidate r on base t under policy p.
Fresh(n, b, r, t, p) ==
    /\ n.status = b.status /\ n.tracked = TRUE /\ n.rev = r /\ n.base = t /\ n.policy = p
    /\ n.state = "verifying" /\ n.manual = "none" /\ n.checks = "none" /\ n.approval = "none"
    /\ n.revoked = FALSE /\ n.grant = NoIntent /\ n.auto = b.auto /\ n.url = b.url
    /\ n.refresh = b.refresh /\ n.closing = b.closing /\ n.change = b.change
    /\ n.intent = b.intent /\ n.local = b.local /\ n.lease = b.lease /\ n.requeued = b.requeued

LEMMA NoApprovalFields ==
  ASSUME NEW b \in BatchRecord
  PROVE  NoApproval(b) \in BatchRecord /\ Withdrawn(NoApproval(b), b)
  BY DEF NoApproval, Withdrawn, BatchRecord

LEMMA CandidateFields ==
  ASSUME NEW b \in BatchRecord, NEW r \in Rev, NEW t \in Tip, NEW p \in {1, 2}
  PROVE  WithCandidate(b, r, t, p) \in BatchRecord /\ Fresh(WithCandidate(b, r, t, p), b, r, t, p)
<1>1. "verifying" \in CandidateState /\ "none" \in Verdict
  BY States DEF Verdict
<1>2. WithCandidate(b, r, t, p) \in BatchRecord
  BY <1>1 DEF WithCandidate, BatchRecord
<1> QED
  BY <1>2 DEF WithCandidate, Fresh, BatchRecord

\* What a transaction leaves alone when it is not about another candidate.
SameCandidate(v, b) ==
    /\ v.tracked = b.tracked /\ v.rev = b.rev /\ v.base = b.base /\ v.policy = b.policy
    /\ v.intent = b.intent /\ v.url = b.url

LEMMA Typed ==
  ASSUME NEW b, Sound(b)
  PROVE  b \in BatchRecord /\ b.tracked \in BOOLEAN /\ b.state \in CandidateState
  BY DEF Sound, BatchRecord

\* What the transactions make of a sound record, first those that withdraw the approval.
LEMMA SoundViolated ==
  ASSUME NEW b, Sound(b), b.intent = NoIntent, b.status # "merged"
  PROVE  LET v == Violated(b)
         IN  /\ Sound(v) /\ SameCandidate(v, b) /\ v.status = "failed"
             /\ v.state = (IF b.tracked THEN "blocked" ELSE b.state) /\ v.approval = "none"
             /\ ~v.revoked /\ v.auto = "off" /\ ~v.refresh /\ ~v.closing /\ v.change = b.change
<1>1. b \in BatchRecord /\ b.tracked \in BOOLEAN /\ b.state \in CandidateState
  BY Typed
<1>2. PICK n \in BatchRecord : n = NoApproval(b) /\ Withdrawn(n, b)
  BY <1>1, NoApprovalFields
<1>3. PICK s \in CandidateState : s = IF b.tracked THEN "blocked" ELSE b.state
  BY <1>1, States
<1>4. PICK v : v = [n EXCEPT !.status = "failed", !.auto = "off", !.refresh = FALSE, !.closing = FALSE,
                  !.state = s]
  OBVIOUS
<1>5. v = Violated(b)
  BY <1>1, <1>2, <1>3, <1>4 DEF Violated, Withdrawn
<1>6. v \in BatchRecord
  <2>1. [n EXCEPT !.status = "failed", !.auto = "off", !.refresh = FALSE, !.closing = FALSE,
        !.state = s] \in BatchRecord
    <3> n \in BatchRecord /\ s \in CandidateState
      BY <1>1, <1>2, <1>3
    <3> QED
      BY DEF BatchRecord
  <2> QED
    BY <1>4, <2>1
<1>7. /\ v.status = "failed" /\ v.tracked = n.tracked /\ v.rev = n.rev /\ v.base = n.base
      /\ v.policy = n.policy /\ v.state = s /\ v.manual = n.manual /\ v.checks = n.checks
      /\ v.approval = n.approval /\ v.revoked = n.revoked /\ v.grant = n.grant
      /\ v.auto = "off" /\ v.url = n.url /\ v.refresh = FALSE /\ v.closing = FALSE
      /\ v.change = n.change /\ v.intent = n.intent /\ v.lease = n.lease
  <2> n \in BatchRecord
    BY <1>2
  <2> QED
    BY <1>4 DEF BatchRecord
<1>8. /\ Sound(v) /\ SameCandidate(v, b) /\ v.status = "failed"
      /\ v.state = (IF b.tracked THEN "blocked" ELSE b.state) /\ v.approval = "none"
      /\ ~v.revoked /\ v.auto = "off" /\ ~v.refresh /\ ~v.closing /\ v.change = b.change
  BY <1>1, <1>3, <1>6, <1>7, <1>2
     DEF Sound, SoundUntracked, SoundEvidence, SoundApproval, SoundIntent, SoundStatus,
         Approvable, SameCandidate, Bound, Withdrawn
<1> QED
  BY <1>5, <1>8

LEMMA SoundClosed ==
  ASSUME NEW b, Sound(b), b.intent = NoIntent, b.status \notin {"merged", "closed"}
  PROVE  LET v == Closed(b)
         IN  /\ Sound(v) /\ SameCandidate(v, b) /\ v.status = "closed"
             /\ v.state = (IF b.tracked THEN "abandoned" ELSE b.state) /\ v.approval = "none"
             /\ ~v.revoked /\ v.auto = "off" /\ ~v.refresh /\ ~v.closing /\ ~v.change
<1>1. b \in BatchRecord /\ b.tracked \in BOOLEAN /\ b.state \in CandidateState
  BY Typed
<1>2. PICK n \in BatchRecord : n = NoApproval(b) /\ Withdrawn(n, b)
  BY <1>1, NoApprovalFields
<1>3. PICK s \in CandidateState : s = IF b.tracked THEN "abandoned" ELSE b.state
  BY <1>1, States
<1>4. PICK v : v = [n EXCEPT !.status = "closed", !.auto = "off", !.change = FALSE, !.refresh = FALSE,
                  !.closing = FALSE, !.state = s]
  OBVIOUS
<1>5. v = Closed(b)
  BY <1>1, <1>2, <1>3, <1>4 DEF Closed, Withdrawn
<1>6. v \in BatchRecord
  <2>1. [n EXCEPT !.status = "closed", !.auto = "off", !.change = FALSE, !.refresh = FALSE,
        !.closing = FALSE, !.state = s] \in BatchRecord
    <3> n \in BatchRecord /\ s \in CandidateState
      BY <1>1, <1>2, <1>3
    <3> QED
      BY DEF BatchRecord
  <2> QED
    BY <1>4, <2>1
<1>7. /\ v.status = "closed" /\ v.tracked = n.tracked /\ v.rev = n.rev /\ v.base = n.base
      /\ v.policy = n.policy /\ v.state = s /\ v.manual = n.manual /\ v.checks = n.checks
      /\ v.approval = n.approval /\ v.revoked = n.revoked /\ v.grant = n.grant
      /\ v.auto = "off" /\ v.url = n.url /\ v.refresh = FALSE /\ v.closing = FALSE
      /\ v.change = FALSE /\ v.intent = n.intent /\ v.lease = n.lease
  <2> n \in BatchRecord
    BY <1>2
  <2> QED
    BY <1>4 DEF BatchRecord
<1>8. /\ Sound(v) /\ SameCandidate(v, b) /\ v.status = "closed"
      /\ v.state = (IF b.tracked THEN "abandoned" ELSE b.state) /\ v.approval = "none"
      /\ ~v.revoked /\ v.auto = "off" /\ ~v.refresh /\ ~v.closing /\ ~v.change
  BY <1>1, <1>3, <1>6, <1>7, <1>2
     DEF Sound, SoundUntracked, SoundEvidence, SoundApproval, SoundIntent, SoundStatus,
         Approvable, SameCandidate, Bound, Withdrawn
<1> QED
  BY <1>5, <1>8

LEMMA SoundRetired ==
  ASSUME NEW b, Sound(b), b.intent = NoIntent, b.status # "merged"
  PROVE  LET v == [NoApproval(b) EXCEPT !.status = "closed", !.auto = "off", !.change = FALSE,
                      !.refresh = FALSE, !.closing = FALSE, !.requeued = TRUE,
                      !.state = IF b.tracked THEN "superseded" ELSE @]
         IN  /\ Sound(v) /\ SameCandidate(v, b) /\ v.status = "closed"
             /\ v.state = (IF b.tracked THEN "superseded" ELSE b.state) /\ v.approval = "none"
             /\ ~v.revoked /\ v.auto = "off" /\ ~v.refresh /\ ~v.closing /\ ~v.change
<1>1. b \in BatchRecord /\ b.tracked \in BOOLEAN /\ b.state \in CandidateState
  BY Typed
<1>2. PICK n \in BatchRecord : n = NoApproval(b) /\ Withdrawn(n, b)
  BY <1>1, NoApprovalFields
<1>3. PICK s \in CandidateState : s = IF b.tracked THEN "superseded" ELSE b.state
  BY <1>1, States
<1>4. PICK v : v = [n EXCEPT !.status = "closed", !.auto = "off", !.change = FALSE, !.refresh = FALSE,
                  !.closing = FALSE, !.requeued = TRUE, !.state = s]
  OBVIOUS
<1>5. v = [NoApproval(b) EXCEPT !.status = "closed", !.auto = "off", !.change = FALSE,
               !.refresh = FALSE, !.closing = FALSE, !.requeued = TRUE,
               !.state = IF b.tracked THEN "superseded" ELSE @]
  BY <1>1, <1>2, <1>3, <1>4 DEF Withdrawn
<1>6. v \in BatchRecord
  <2>1. [n EXCEPT !.status = "closed", !.auto = "off", !.change = FALSE, !.refresh = FALSE,
        !.closing = FALSE, !.requeued = TRUE, !.state = s] \in BatchRecord
    <3> n \in BatchRecord /\ s \in CandidateState
      BY <1>1, <1>2, <1>3
    <3> QED
      BY DEF BatchRecord
  <2> QED
    BY <1>4, <2>1
<1>7. /\ v.status = "closed" /\ v.tracked = n.tracked /\ v.rev = n.rev /\ v.base = n.base
      /\ v.policy = n.policy /\ v.state = s /\ v.manual = n.manual /\ v.checks = n.checks
      /\ v.approval = n.approval /\ v.revoked = n.revoked /\ v.grant = n.grant
      /\ v.auto = "off" /\ v.url = n.url /\ v.refresh = FALSE /\ v.closing = FALSE
      /\ v.change = FALSE /\ v.intent = n.intent /\ v.lease = n.lease
  <2> n \in BatchRecord
    BY <1>2
  <2> QED
    BY <1>4 DEF BatchRecord
<1>8. /\ Sound(v) /\ SameCandidate(v, b) /\ v.status = "closed"
      /\ v.state = (IF b.tracked THEN "superseded" ELSE b.state) /\ v.approval = "none"
      /\ ~v.revoked /\ v.auto = "off" /\ ~v.refresh /\ ~v.closing /\ ~v.change
  BY <1>1, <1>3, <1>6, <1>7, <1>2
     DEF Sound, SoundUntracked, SoundEvidence, SoundApproval, SoundIntent, SoundStatus,
         Approvable, SameCandidate, Bound, Withdrawn
<1> QED
  BY <1>5, <1>8

LEMMA SoundBlocked ==
  ASSUME NEW b, Sound(b), b.tracked, b.status # "merged"
  PROVE  LET v == Blocked(b)
         IN  /\ Sound(v) /\ SameCandidate(v, b) /\ v.status = b.status /\ v.state = "blocked"
             /\ v.approval = "none" /\ ~v.revoked /\ v.auto = "off" /\ v.refresh = b.refresh
             /\ v.closing = b.closing /\ v.change = b.change
<1>1. b \in BatchRecord /\ b.state \in CandidateState /\ "blocked" \in CandidateState
  BY Typed, States
<1> DEFINE v == [b EXCEPT !.approval = "none", !.revoked = FALSE, !.grant = NoIntent, !.state
                           = "blocked", !.auto = "off"]
<1>3. v \in BatchRecord /\ v = Blocked(b)
  BY <1>1 DEF BatchRecord, Blocked, NoApproval
<1>4. /\ SameCandidate(v, b) /\ v.status = b.status /\ v.state = "blocked"
      /\ v.approval = "none" /\ ~v.revoked /\ v.auto = "off" /\ v.refresh = b.refresh
      /\ v.closing = b.closing /\ v.change = b.change /\ v.manual = b.manual
      /\ v.checks = b.checks /\ v.grant = NoIntent /\ v.lease = b.lease
  BY <1>1, <1>3 DEF BatchRecord, SameCandidate
<1>5. Sound(v)
  BY <1>1, <1>3, <1>4
     DEF Sound, SoundUntracked, SoundEvidence, SoundApproval, SoundIntent, SoundStatus,
         Approvable, SameCandidate, Bound
<1> QED
  BY <1>3, <1>4, <1>5

LEMMA SoundRejected ==
  ASSUME NEW b, Sound(b), b.tracked, b.status # "merged"
  PROVE  LET v == [NoApproval(b) EXCEPT !.state = "changes_requested", !.auto = "off"]
         IN  /\ Sound(v) /\ SameCandidate(v, b) /\ v.status = b.status
             /\ v.state = "changes_requested" /\ v.approval = "none" /\ ~v.revoked
             /\ v.auto = "off" /\ v.refresh = b.refresh /\ v.closing = b.closing
             /\ v.change = b.change
<1>1. b \in BatchRecord /\ b.state \in CandidateState /\ "changes_requested" \in CandidateState
  BY Typed, States
<1> DEFINE v == [b EXCEPT !.approval = "none", !.revoked = FALSE, !.grant = NoIntent, !.state
                           = "changes_requested", !.auto = "off"]
<1>3. v \in BatchRecord /\ v = [NoApproval(b) EXCEPT !.state = "changes_requested", !.auto = "off"]
  BY <1>1 DEF BatchRecord, NoApproval
<1>4. /\ SameCandidate(v, b) /\ v.status = b.status /\ v.state = "changes_requested"
      /\ v.approval = "none" /\ ~v.revoked /\ v.auto = "off" /\ v.refresh = b.refresh
      /\ v.closing = b.closing /\ v.change = b.change /\ v.manual = b.manual
      /\ v.checks = b.checks /\ v.grant = NoIntent /\ v.lease = b.lease
  BY <1>1, <1>3 DEF BatchRecord, SameCandidate
<1>5. Sound(v)
  BY <1>1, <1>3, <1>4
     DEF Sound, SoundUntracked, SoundEvidence, SoundApproval, SoundIntent, SoundStatus,
         Approvable, SameCandidate, Bound
<1> QED
  BY <1>3, <1>4, <1>5

LEMMA SoundChanges ==
  ASSUME NEW b, Sound(b), b.tracked, b.status # "merged"
  PROVE  LET v == [NoApproval(b) EXCEPT !.state = "changes_requested", !.auto = "off",
                      !.change = FALSE]
         IN  /\ Sound(v) /\ SameCandidate(v, b) /\ v.status = b.status
             /\ v.state = "changes_requested" /\ v.approval = "none" /\ ~v.revoked
             /\ v.auto = "off" /\ v.refresh = b.refresh /\ v.closing = b.closing /\ ~v.change
<1>1. b \in BatchRecord /\ b.state \in CandidateState /\ "changes_requested" \in CandidateState
  BY Typed, States
<1> DEFINE v == [b EXCEPT !.approval = "none", !.revoked = FALSE, !.grant = NoIntent, !.state
                           = "changes_requested", !.auto = "off", !.change = FALSE]
<1>3. v \in BatchRecord /\ v = [NoApproval(b) EXCEPT !.state = "changes_requested", !.auto = "off",
                                   !.change = FALSE]
  BY <1>1 DEF BatchRecord, NoApproval
<1>4. /\ SameCandidate(v, b) /\ v.status = b.status /\ v.state = "changes_requested"
      /\ v.approval = "none" /\ ~v.revoked /\ v.auto = "off" /\ v.refresh = b.refresh
      /\ v.closing = b.closing /\ ~v.change /\ v.manual = b.manual /\ v.checks = b.checks
      /\ v.grant = NoIntent /\ v.lease = b.lease
  BY <1>1, <1>3 DEF BatchRecord, SameCandidate
<1>5. Sound(v)
  BY <1>1, <1>3, <1>4
     DEF Sound, SoundUntracked, SoundEvidence, SoundApproval, SoundIntent, SoundStatus,
         Approvable, SameCandidate, Bound
<1> QED
  BY <1>3, <1>4, <1>5

LEMMA SoundForeign ==
  ASSUME NEW b, Sound(b), b.tracked, b.status # "merged", b.intent = NoIntent
  PROVE  LET v == [NoApproval(b) EXCEPT !.status = "failed", !.state = "blocked", !.auto = "off",
                      !.change = FALSE]
         IN  /\ Sound(v) /\ SameCandidate(v, b) /\ v.status = "failed" /\ v.state = "blocked"
             /\ v.approval = "none" /\ ~v.revoked /\ v.auto = "off" /\ v.refresh = b.refresh
             /\ v.closing = b.closing /\ ~v.change
<1>1. b \in BatchRecord /\ b.tracked \in BOOLEAN /\ b.state \in CandidateState
  BY Typed
<1>2. PICK n \in BatchRecord : n = NoApproval(b) /\ Withdrawn(n, b)
  BY <1>1, NoApprovalFields
<1>4. PICK v : v = [n EXCEPT !.status = "failed", !.state = "blocked", !.auto = "off", !.change =
                  FALSE]
  OBVIOUS
<1>5. v = [NoApproval(b) EXCEPT !.status = "failed", !.state = "blocked", !.auto = "off",
               !.change = FALSE]
  BY <1>1, <1>2, <1>4 DEF Withdrawn
<1>6. v \in BatchRecord
  <2>1. [n EXCEPT !.status = "failed", !.state = "blocked", !.auto = "off", !.change =
        FALSE] \in BatchRecord
    <3> n \in BatchRecord
      BY <1>1, <1>2
    <3> "blocked" \in CandidateState /\ "changes_requested" \in CandidateState
        /\ "approved" \in CandidateState
      BY States
    <3> "merging" \in CandidateState
      BY States
    <3> QED
      BY DEF BatchRecord
  <2> QED
    BY <1>4, <2>1
<1>7. /\ v.status = "failed" /\ v.tracked = n.tracked /\ v.rev = n.rev /\ v.base = n.base
      /\ v.policy = n.policy /\ v.state = "blocked" /\ v.manual = n.manual
      /\ v.checks = n.checks /\ v.approval = n.approval /\ v.revoked = n.revoked
      /\ v.grant = n.grant /\ v.auto = "off" /\ v.url = n.url /\ v.refresh = n.refresh
      /\ v.closing = n.closing /\ v.change = FALSE /\ v.intent = n.intent /\ v.lease = n.lease
  <2> n \in BatchRecord
    BY <1>2
  <2> QED
    BY <1>4 DEF BatchRecord
<1>8. /\ Sound(v) /\ SameCandidate(v, b) /\ v.status = "failed" /\ v.state = "blocked"
      /\ v.approval = "none" /\ ~v.revoked /\ v.auto = "off" /\ v.refresh = b.refresh
      /\ v.closing = b.closing /\ ~v.change
  BY <1>1, <1>6, <1>7, <1>2
     DEF Sound, SoundUntracked, SoundEvidence, SoundApproval, SoundIntent, SoundStatus,
         Approvable, SameCandidate, Bound, Withdrawn
<1> QED
  BY <1>5, <1>8

LEMMA SoundReopened ==
  ASSUME NEW b, Sound(b), b.tracked, b.status # "merged"
  PROVE  LET v == [NoApproval(b) EXCEPT !.lease = TRUE, !.state = "changes_requested"]
         IN  /\ Sound(v) /\ SameCandidate(v, b) /\ v.status = b.status
             /\ v.state = "changes_requested" /\ v.approval = "none" /\ ~v.revoked
             /\ v.auto = b.auto /\ v.refresh = b.refresh /\ v.closing = b.closing
             /\ v.change = b.change
<1>1. b \in BatchRecord /\ b.state \in CandidateState /\ "changes_requested" \in CandidateState
  BY Typed, States
<1> DEFINE v == [b EXCEPT !.approval = "none", !.revoked = FALSE, !.grant = NoIntent, !.lease
                           = TRUE, !.state = "changes_requested"]
<1>3. v \in BatchRecord /\ v = [NoApproval(b) EXCEPT !.lease = TRUE, !.state = "changes_requested"]
  BY <1>1 DEF BatchRecord, NoApproval
<1>4. /\ SameCandidate(v, b) /\ v.status = b.status /\ v.state = "changes_requested"
      /\ v.approval = "none" /\ ~v.revoked /\ v.auto = b.auto /\ v.refresh = b.refresh
      /\ v.closing = b.closing /\ v.change = b.change /\ v.manual = b.manual
      /\ v.checks = b.checks /\ v.grant = NoIntent /\ v.lease
  BY <1>1, <1>3 DEF BatchRecord, SameCandidate
<1>5. Sound(v)
  BY <1>1, <1>3, <1>4
     DEF Sound, SoundUntracked, SoundEvidence, SoundApproval, SoundIntent, SoundStatus,
         Approvable, SameCandidate, Bound
<1> QED
  BY <1>3, <1>4, <1>5

\* Those that are about the merge queue only.
AutoSet(b, a) == [b EXCEPT !.auto = a]

LEMMA SoundAuto ==
  ASSUME NEW b, Sound(b), NEW a \in {"off", "pending", "on"}
  PROVE  LET v == AutoSet(b, a)
         IN  /\ Sound(v) /\ SameCandidate(v, b) /\ v.status = b.status /\ v.state = b.state
             /\ v.approval = b.approval /\ v.revoked = b.revoked /\ v.auto = a
             /\ v.refresh = b.refresh /\ v.closing = b.closing /\ v.change = b.change
<1>1. b \in BatchRecord /\ b.state \in CandidateState
  BY Typed, States
<1> DEFINE v == [b EXCEPT !.auto = a]
<1>3. v \in BatchRecord /\ v = AutoSet(b, a)
  BY <1>1 DEF AutoSet, BatchRecord
<1>4. /\ SameCandidate(v, b) /\ v.status = b.status /\ v.state = b.state
      /\ v.approval = b.approval /\ v.revoked = b.revoked /\ v.auto = a
      /\ v.refresh = b.refresh /\ v.closing = b.closing /\ v.change = b.change
      /\ v.manual = b.manual /\ v.checks = b.checks /\ v.grant = b.grant /\ v.lease = b.lease
  BY <1>1, <1>3 DEF BatchRecord, SameCandidate
<1>5. Sound(v)
  BY <1>1, <1>3, <1>4
     DEF Sound, SoundUntracked, SoundEvidence, SoundApproval, SoundIntent, SoundStatus,
         Approvable, SameCandidate, Bound
<1> QED
  BY <1>3, <1>4, <1>5

LEMMA SoundQueueOff ==
  ASSUME NEW b, Sound(b)
  PROVE  LET v == QueueOff(b)
         IN  /\ Sound(v) /\ SameCandidate(v, b) /\ v.status = b.status
             /\ v.state = (IF b.approval # "none" /\ b.state = "merging" THEN "approved" ELSE b.state)
             /\ v.approval = b.approval /\ v.revoked = b.revoked /\ v.auto = "off"
             /\ v.refresh = b.refresh /\ v.closing = b.closing /\ v.change = b.change
<1>1. b \in BatchRecord /\ b.state \in CandidateState
  BY Typed, States
<1>2. PICK s \in CandidateState : s = IF b.approval # "none" /\ b.state = "merging" THEN "approved" ELSE b.state
  BY <1>1, States
<1> DEFINE v == [b EXCEPT !.auto = "off", !.state = s]
<1>3. v \in BatchRecord /\ v = QueueOff(b)
  BY <1>1, <1>2 DEF BatchRecord, QueueOff
<1>4. /\ SameCandidate(v, b) /\ v.status = b.status /\ v.state = s /\ v.approval = b.approval
      /\ v.revoked = b.revoked /\ v.auto = "off" /\ v.refresh = b.refresh
      /\ v.closing = b.closing /\ v.change = b.change /\ v.manual = b.manual
      /\ v.checks = b.checks /\ v.grant = b.grant /\ v.lease = b.lease
  BY <1>1, <1>3 DEF BatchRecord, SameCandidate
<1>5. Sound(v)
  BY <1>1, <1>2, <1>3, <1>4
     DEF Sound, SoundUntracked, SoundEvidence, SoundApproval, SoundIntent, SoundStatus,
         Approvable, SameCandidate, Bound
<1> QED
  BY <1>2, <1>3, <1>4, <1>5

LEMMA SoundRefreshOff ==
  ASSUME NEW b, Sound(b)
  PROVE  LET v == [b EXCEPT !.auto = "off", !.state = IF @ = "merging" THEN "approved" ELSE @]
         IN  /\ Sound(v) /\ SameCandidate(v, b) /\ v.status = b.status
             /\ v.state = (IF b.state = "merging" THEN "approved" ELSE b.state)
             /\ v.approval = b.approval /\ v.revoked = b.revoked /\ v.auto = "off"
             /\ v.refresh = b.refresh /\ v.closing = b.closing /\ v.change = b.change
<1>1. b \in BatchRecord /\ b.state \in CandidateState
  BY Typed, States
<1>2. PICK s \in CandidateState : s = IF b.state = "merging" THEN "approved" ELSE b.state
  BY <1>1, States
<1> DEFINE v == [b EXCEPT !.auto = "off", !.state = s]
<1>3. v \in BatchRecord /\ v = [b EXCEPT !.auto = "off", !.state = IF @ = "merging" THEN "approved" ELSE @]
  BY <1>1, <1>2 DEF BatchRecord
<1>4. /\ SameCandidate(v, b) /\ v.status = b.status /\ v.state = s /\ v.approval = b.approval
      /\ v.revoked = b.revoked /\ v.auto = "off" /\ v.refresh = b.refresh
      /\ v.closing = b.closing /\ v.change = b.change /\ v.manual = b.manual
      /\ v.checks = b.checks /\ v.grant = b.grant /\ v.lease = b.lease
  BY <1>1, <1>3 DEF BatchRecord, SameCandidate
<1>5. Sound(v)
  BY <1>1, <1>2, <1>3, <1>4
     DEF Sound, SoundUntracked, SoundEvidence, SoundApproval, SoundIntent, SoundStatus,
         Approvable, SameCandidate, Bound
<1> QED
  BY <1>2, <1>3, <1>4, <1>5

LEMMA SoundEnabled ==
  ASSUME NEW b, Sound(b), b.approval # "none" => b.state \in {"approved", "merging"}
  PROVE  LET v == Enabled(b)
         IN  /\ Sound(v) /\ SameCandidate(v, b) /\ v.status = b.status
             /\ v.state = (IF b.approval # "none" THEN "merging" ELSE b.state)
             /\ v.approval = b.approval /\ v.revoked = b.revoked /\ v.auto = "on"
             /\ v.refresh = b.refresh /\ v.closing = b.closing /\ v.change = b.change
<1>1. b \in BatchRecord /\ b.state \in CandidateState
  BY Typed, States
<1>2. PICK s \in CandidateState : s = IF b.approval # "none" THEN "merging" ELSE b.state
  BY <1>1, States
<1> DEFINE v == [b EXCEPT !.auto = "on", !.state = s]
<1>3. v \in BatchRecord /\ v = Enabled(b)
  BY <1>1, <1>2 DEF BatchRecord, Enabled
<1>4. /\ SameCandidate(v, b) /\ v.status = b.status /\ v.state = s /\ v.approval = b.approval
      /\ v.revoked = b.revoked /\ v.auto = "on" /\ v.refresh = b.refresh
      /\ v.closing = b.closing /\ v.change = b.change /\ v.manual = b.manual
      /\ v.checks = b.checks /\ v.grant = b.grant /\ v.lease = b.lease
  BY <1>1, <1>3 DEF BatchRecord, SameCandidate
<1>5. Sound(v)
  BY <1>1, <1>2, <1>3, <1>4
     DEF Sound, SoundUntracked, SoundEvidence, SoundApproval, SoundIntent, SoundStatus,
         Approvable, SameCandidate, Bound
<1> QED
  BY <1>2, <1>3, <1>4, <1>5

LEMMA SoundLost ==
  ASSUME NEW b, Sound(b), ~b.tracked, b.status # "merged"
  PROVE  LET v == Untracked(b)
         IN  /\ Sound(v) /\ SameCandidate(v, b) /\ v.status = "failed" /\ v.state = b.state
             /\ v.approval = b.approval /\ v.revoked = b.revoked /\ v.auto = "off"
             /\ v.refresh = b.refresh /\ v.closing = b.closing /\ v.change = b.change
<1>1. b \in BatchRecord /\ b.state \in CandidateState
  BY Typed, States
<1> DEFINE v == [b EXCEPT !.status = "failed", !.auto = "off"]
<1>3. v \in BatchRecord /\ v = Untracked(b)
  BY <1>1 DEF BatchRecord, Untracked
<1>4. /\ SameCandidate(v, b) /\ v.status = "failed" /\ v.state = b.state
      /\ v.approval = b.approval /\ v.revoked = b.revoked /\ v.auto = "off"
      /\ v.refresh = b.refresh /\ v.closing = b.closing /\ v.change = b.change
      /\ v.manual = b.manual /\ v.checks = b.checks /\ v.grant = b.grant /\ v.lease = b.lease
  BY <1>1, <1>3 DEF BatchRecord, SameCandidate
<1>5. Sound(v)
  BY <1>1, <1>3, <1>4
     DEF Sound, SoundUntracked, SoundEvidence, SoundApproval, SoundIntent, SoundStatus,
         Approvable, SameCandidate, Bound
<1> QED
  BY <1>3, <1>4, <1>5

\* The end, the marks and the requests.
LEMMA SoundMerged ==
  ASSUME NEW b, Sound(b), NEW c, MayMerge(b, c)
  PROVE  LET v == Merged(b)
         IN  /\ Sound(v) /\ SameCandidate(v, b) /\ v.status = "merged"
             /\ v.state = (IF b.tracked THEN "merged" ELSE b.state) /\ v.approval = b.approval
             /\ v.revoked = b.revoked /\ v.auto = "off" /\ v.refresh = b.refresh
             /\ v.closing = b.closing /\ v.change = b.change
<1>1. b \in BatchRecord /\ b.state \in CandidateState
  BY Typed, States
<1>2. PICK s \in CandidateState : s = IF b.tracked THEN "merged" ELSE b.state
  BY <1>1, States
<1> DEFINE v == [b EXCEPT !.status = "merged", !.auto = "off", !.state = s]
<1>3. v \in BatchRecord /\ v = Merged(b)
  BY <1>1, <1>2 DEF BatchRecord, Merged
<1>4. /\ SameCandidate(v, b) /\ v.status = "merged" /\ v.state = s /\ v.approval = b.approval
      /\ v.revoked = b.revoked /\ v.auto = "off" /\ v.refresh = b.refresh
      /\ v.closing = b.closing /\ v.change = b.change /\ v.manual = b.manual
      /\ v.checks = b.checks /\ v.grant = b.grant /\ v.lease = b.lease
  BY <1>1, <1>3 DEF BatchRecord, SameCandidate
<1>5. Sound(v)
  BY <1>1, <1>2, <1>3, <1>4
     DEF Sound, SoundUntracked, SoundEvidence, SoundApproval, SoundIntent, SoundStatus,
         Approvable, SameCandidate, Bound, MayMerge
<1> QED
  BY <1>2, <1>3, <1>4, <1>5

LEMMA SoundStale ==
  ASSUME NEW b, Sound(b)
  PROVE  LET v == [b EXCEPT !.auto = "off", !.refresh = TRUE]
         IN  /\ Sound(v) /\ SameCandidate(v, b) /\ v.status = b.status /\ v.state = b.state
             /\ v.approval = b.approval /\ v.revoked = b.revoked /\ v.auto = "off" /\ v.refresh
             /\ v.closing = b.closing /\ v.change = b.change
<1>1. b \in BatchRecord /\ b.state \in CandidateState
  BY Typed, States
<1> DEFINE v == [b EXCEPT !.auto = "off", !.refresh = TRUE]
<1>3. v \in BatchRecord /\ v = [b EXCEPT !.auto = "off", !.refresh = TRUE]
  BY <1>1 DEF BatchRecord
<1>4. /\ SameCandidate(v, b) /\ v.status = b.status /\ v.state = b.state
      /\ v.approval = b.approval /\ v.revoked = b.revoked /\ v.auto = "off" /\ v.refresh
      /\ v.closing = b.closing /\ v.change = b.change /\ v.manual = b.manual
      /\ v.checks = b.checks /\ v.grant = b.grant /\ v.lease = b.lease
  BY <1>1, <1>3 DEF BatchRecord, SameCandidate
<1>5. Sound(v)
  BY <1>1, <1>3, <1>4
     DEF Sound, SoundUntracked, SoundEvidence, SoundApproval, SoundIntent, SoundStatus,
         Approvable, SameCandidate, Bound
<1> QED
  BY <1>3, <1>4, <1>5

\* RefreshIntent and PublishFresh mark a batch.
ToRefresh(b, x) == [b EXCEPT !.refresh = TRUE, !.closing = x]

LEMMA SoundToRefresh ==
  ASSUME NEW b, Sound(b), NEW x \in BOOLEAN
  PROVE  LET v == ToRefresh(b, x)
         IN  /\ Sound(v) /\ SameCandidate(v, b) /\ v.status = b.status /\ v.state = b.state
             /\ v.approval = b.approval /\ v.revoked = b.revoked /\ v.auto = b.auto
             /\ v.refresh /\ v.closing = x /\ v.change = b.change
<1>1. b \in BatchRecord /\ b.state \in CandidateState
  BY Typed, States
<1> DEFINE v == [b EXCEPT !.refresh = TRUE, !.closing = x]
<1>3. v \in BatchRecord /\ v = ToRefresh(b, x)
  BY <1>1 DEF ToRefresh, BatchRecord
<1>4. /\ SameCandidate(v, b) /\ v.status = b.status /\ v.state = b.state
      /\ v.approval = b.approval /\ v.revoked = b.revoked /\ v.auto = b.auto /\ v.refresh
      /\ v.closing = x /\ v.change = b.change /\ v.manual = b.manual /\ v.checks = b.checks
      /\ v.grant = b.grant /\ v.lease = b.lease
  BY <1>1, <1>3 DEF BatchRecord, SameCandidate
<1>5. Sound(v)
  BY <1>1, <1>3, <1>4
     DEF Sound, SoundUntracked, SoundEvidence, SoundApproval, SoundIntent, SoundStatus,
         Approvable, SameCandidate, Bound
<1> QED
  BY <1>3, <1>4, <1>5

LEMMA SoundMarked ==
  ASSUME NEW b, Sound(b)
  PROVE  LET v == [b EXCEPT !.refresh = TRUE]
         IN  /\ Sound(v) /\ SameCandidate(v, b) /\ v.status = b.status /\ v.state = b.state
             /\ v.approval = b.approval /\ v.revoked = b.revoked /\ v.auto = b.auto
             /\ v.refresh /\ v.closing = b.closing /\ v.change = b.change
<1>1. b \in BatchRecord /\ b.state \in CandidateState
  BY Typed, States
<1> DEFINE v == [b EXCEPT !.refresh = TRUE]
<1>3. v \in BatchRecord /\ v = [b EXCEPT !.refresh = TRUE]
  BY <1>1 DEF BatchRecord
<1>4. /\ SameCandidate(v, b) /\ v.status = b.status /\ v.state = b.state
      /\ v.approval = b.approval /\ v.revoked = b.revoked /\ v.auto = b.auto /\ v.refresh
      /\ v.closing = b.closing /\ v.change = b.change /\ v.manual = b.manual
      /\ v.checks = b.checks /\ v.grant = b.grant /\ v.lease = b.lease
  BY <1>1, <1>3 DEF BatchRecord, SameCandidate
<1>5. Sound(v)
  BY <1>1, <1>3, <1>4
     DEF Sound, SoundUntracked, SoundEvidence, SoundApproval, SoundIntent, SoundStatus,
         Approvable, SameCandidate, Bound
<1> QED
  BY <1>3, <1>4, <1>5

LEMMA SoundUnmarked ==
  ASSUME NEW b, Sound(b)
  PROVE  LET v == [b EXCEPT !.refresh = FALSE, !.closing = FALSE]
         IN  /\ Sound(v) /\ SameCandidate(v, b) /\ v.status = b.status /\ v.state = b.state
             /\ v.approval = b.approval /\ v.revoked = b.revoked /\ v.auto = b.auto
             /\ ~v.refresh /\ ~v.closing /\ v.change = b.change
<1>1. b \in BatchRecord /\ b.state \in CandidateState
  BY Typed, States
<1> DEFINE v == [b EXCEPT !.refresh = FALSE, !.closing = FALSE]
<1>3. v \in BatchRecord /\ v = [b EXCEPT !.refresh = FALSE, !.closing = FALSE]
  BY <1>1 DEF BatchRecord
<1>4. /\ SameCandidate(v, b) /\ v.status = b.status /\ v.state = b.state
      /\ v.approval = b.approval /\ v.revoked = b.revoked /\ v.auto = b.auto /\ ~v.refresh
      /\ ~v.closing /\ v.change = b.change /\ v.manual = b.manual /\ v.checks = b.checks
      /\ v.grant = b.grant /\ v.lease = b.lease
  BY <1>1, <1>3 DEF BatchRecord, SameCandidate
<1>5. Sound(v)
  BY <1>1, <1>3, <1>4
     DEF Sound, SoundUntracked, SoundEvidence, SoundApproval, SoundIntent, SoundStatus,
         Approvable, SameCandidate, Bound
<1> QED
  BY <1>3, <1>4, <1>5

LEMMA SoundRevoked ==
  ASSUME NEW b, Sound(b), b.approval # "none"
  PROVE  LET v == [b EXCEPT !.revoked = TRUE]
         IN  /\ Sound(v) /\ SameCandidate(v, b) /\ v.status = b.status /\ v.state = b.state
             /\ v.approval = b.approval /\ v.revoked /\ v.auto = b.auto
             /\ v.refresh = b.refresh /\ v.closing = b.closing /\ v.change = b.change
<1>1. b \in BatchRecord /\ b.state \in CandidateState
  BY Typed, States
<1> DEFINE v == [b EXCEPT !.revoked = TRUE]
<1>3. v \in BatchRecord /\ v = [b EXCEPT !.revoked = TRUE]
  BY <1>1 DEF BatchRecord
<1>4. /\ SameCandidate(v, b) /\ v.status = b.status /\ v.state = b.state
      /\ v.approval = b.approval /\ v.revoked /\ v.auto = b.auto /\ v.refresh = b.refresh
      /\ v.closing = b.closing /\ v.change = b.change /\ v.manual = b.manual
      /\ v.checks = b.checks /\ v.grant = b.grant /\ v.lease = b.lease
  BY <1>1, <1>3 DEF BatchRecord, SameCandidate
<1>5. Sound(v)
  BY <1>1, <1>3, <1>4
     DEF Sound, SoundUntracked, SoundEvidence, SoundApproval, SoundIntent, SoundStatus,
         Approvable, SameCandidate, Bound
<1> QED
  BY <1>3, <1>4, <1>5

LEMMA SoundRequested ==
  ASSUME NEW b, Sound(b), b.tracked, b.status # "merged"
  PROVE  LET v == [b EXCEPT !.change = TRUE]
         IN  /\ Sound(v) /\ SameCandidate(v, b) /\ v.status = b.status /\ v.state = b.state
             /\ v.approval = b.approval /\ v.revoked = b.revoked /\ v.auto = b.auto
             /\ v.refresh = b.refresh /\ v.closing = b.closing /\ v.change
<1>1. b \in BatchRecord /\ b.state \in CandidateState
  BY Typed, States
<1> DEFINE v == [b EXCEPT !.change = TRUE]
<1>3. v \in BatchRecord /\ v = [b EXCEPT !.change = TRUE]
  BY <1>1 DEF BatchRecord
<1>4. /\ SameCandidate(v, b) /\ v.status = b.status /\ v.state = b.state
      /\ v.approval = b.approval /\ v.revoked = b.revoked /\ v.auto = b.auto
      /\ v.refresh = b.refresh /\ v.closing = b.closing /\ v.change /\ v.manual = b.manual
      /\ v.checks = b.checks /\ v.grant = b.grant /\ v.lease = b.lease
  BY <1>1, <1>3 DEF BatchRecord, SameCandidate
<1>5. Sound(v)
  BY <1>1, <1>3, <1>4
     DEF Sound, SoundUntracked, SoundEvidence, SoundApproval, SoundIntent, SoundStatus,
         Approvable, SameCandidate, Bound
<1> QED
  BY <1>3, <1>4, <1>5

LEMMA SoundExpired ==
  ASSUME NEW b, Sound(b)
  PROVE  LET v == [b EXCEPT !.lease = FALSE]
         IN  /\ Sound(v) /\ SameCandidate(v, b) /\ v.status = b.status /\ v.state = b.state
             /\ v.approval = b.approval /\ v.revoked = b.revoked /\ v.auto = b.auto
             /\ v.refresh = b.refresh /\ v.closing = b.closing /\ v.change = b.change
<1>1. b \in BatchRecord /\ b.state \in CandidateState
  BY Typed, States
<1> DEFINE v == [b EXCEPT !.lease = FALSE]
<1>3. v \in BatchRecord /\ v = [b EXCEPT !.lease = FALSE]
  BY <1>1 DEF BatchRecord
<1>4. /\ SameCandidate(v, b) /\ v.status = b.status /\ v.state = b.state
      /\ v.approval = b.approval /\ v.revoked = b.revoked /\ v.auto = b.auto
      /\ v.refresh = b.refresh /\ v.closing = b.closing /\ v.change = b.change
      /\ v.manual = b.manual /\ v.checks = b.checks /\ v.grant = b.grant /\ ~v.lease
  BY <1>1, <1>3 DEF BatchRecord, SameCandidate
<1>5. Sound(v)
  BY <1>1, <1>3, <1>4
     DEF Sound, SoundUntracked, SoundEvidence, SoundApproval, SoundIntent, SoundStatus,
         Approvable, SameCandidate, Bound
<1> QED
  BY <1>3, <1>4, <1>5

\* Publication, evidence and approval.
LEMMA SoundOnRecord ==
  ASSUME NEW b, Sound(b), b.status \in {"prepared", "published"}
  PROVE  LET v == OnRecord(b)
         IN  /\ Sound(v) /\ v.tracked = b.tracked /\ v.rev = b.rev /\ v.base = b.base
             /\ v.policy = b.policy /\ v.intent = b.intent /\ v.url /\ v.status = "published"
             /\ v.state = b.state /\ v.approval = b.approval /\ v.revoked = b.revoked
             /\ v.auto = b.auto /\ ~v.refresh /\ ~v.closing /\ v.change = b.change
<1>1. b \in BatchRecord /\ b.state \in CandidateState
  BY Typed, States
<1> DEFINE v == [b EXCEPT !.status = "published", !.url = TRUE, !.refresh = FALSE, !.closing =
                           FALSE]
<1>3. v \in BatchRecord /\ v = OnRecord(b)
  BY <1>1 DEF BatchRecord, OnRecord
<1>4. /\ v.tracked = b.tracked /\ v.rev = b.rev /\ v.base = b.base /\ v.policy = b.policy
      /\ v.intent = b.intent /\ v.url /\ v.status = "published" /\ v.state = b.state
      /\ v.approval = b.approval /\ v.revoked = b.revoked /\ v.auto = b.auto /\ ~v.refresh
      /\ ~v.closing /\ v.change = b.change /\ v.manual = b.manual /\ v.checks = b.checks
      /\ v.grant = b.grant /\ v.lease = b.lease
  BY <1>1, <1>3 DEF BatchRecord, SameCandidate
<1>5. Sound(v)
  BY <1>1, <1>3, <1>4
     DEF Sound, SoundUntracked, SoundEvidence, SoundApproval, SoundIntent, SoundStatus,
         Approvable, SameCandidate, Bound
<1> QED
  BY <1>3, <1>4, <1>5

LEMMA SoundGranted ==
  ASSUME NEW b, Sound(b), b.tracked, b.state \in Approvable, ~b.lease, b.status # "merged"
  PROVE  LET v == [b EXCEPT !.approval = "recorded", !.revoked = FALSE, !.grant = Bound(b),
                      !.state = "approved"]
         IN  /\ Sound(v) /\ SameCandidate(v, b) /\ v.status = b.status /\ v.state = "approved"
             /\ v.approval = "recorded" /\ ~v.revoked /\ v.auto = b.auto
             /\ v.refresh = b.refresh /\ v.closing = b.closing /\ v.change = b.change
<1>1. b \in BatchRecord /\ b.state \in CandidateState /\ "approved" \in CandidateState
  BY Typed, States
<1>9. Bound(b) \in Binding
  BY <1>1 DEF Bound, Binding, BatchRecord
<1> DEFINE v == [b EXCEPT !.approval = "recorded", !.revoked = FALSE, !.grant = Bound(b),
                           !.state = "approved"]
<1>3. v \in BatchRecord /\ v = [b EXCEPT !.approval = "recorded", !.revoked = FALSE, !.grant = Bound(b),
                                   !.state = "approved"]
  BY <1>1, <1>9 DEF BatchRecord
<1>4. /\ SameCandidate(v, b) /\ v.status = b.status /\ v.state = "approved"
      /\ v.approval = "recorded" /\ ~v.revoked /\ v.auto = b.auto /\ v.refresh = b.refresh
      /\ v.closing = b.closing /\ v.change = b.change /\ v.manual = b.manual
      /\ v.checks = b.checks /\ v.grant = Bound(b) /\ v.lease = b.lease
  BY <1>1, <1>3 DEF BatchRecord, SameCandidate
<1>5. Sound(v)
  BY <1>1, <1>9, <1>3, <1>4
     DEF Sound, SoundUntracked, SoundEvidence, SoundApproval, SoundIntent, SoundStatus,
         Approvable, SameCandidate, Bound
<1> QED
  BY <1>3, <1>4, <1>5

LEMMA SoundUnauthorized ==
  ASSUME NEW b, Sound(b), b.tracked, b.status # "merged", b.approval = "none"
  PROVE  LET v == [b EXCEPT !.auto = "off", !.state = StateOf(b)]
         IN  /\ Sound(v) /\ SameCandidate(v, b) /\ v.status = b.status
             /\ (b.state \in Sticky => v.state = b.state) /\ v.approval = b.approval
             /\ v.revoked = b.revoked /\ v.auto = "off" /\ v.refresh = b.refresh
             /\ v.closing = b.closing /\ v.change = b.change
<1>1. b \in BatchRecord /\ b.state \in CandidateState
  BY Typed, States
<1>2. PICK s \in CandidateState : s = StateOf(b)
  BY <1>1, States DEF StateOf
<1> DEFINE v == [b EXCEPT !.auto = "off", !.state = s]
<1>3. v \in BatchRecord /\ v = [b EXCEPT !.auto = "off", !.state = StateOf(b)]
  BY <1>1, <1>2 DEF BatchRecord
<1>4. /\ SameCandidate(v, b) /\ v.status = b.status /\ v.approval = b.approval
      /\ v.revoked = b.revoked /\ v.auto = "off" /\ v.refresh = b.refresh
      /\ v.closing = b.closing /\ v.change = b.change /\ v.state = s /\ v.manual = b.manual
      /\ v.checks = b.checks /\ v.grant = b.grant /\ v.lease = b.lease
  BY <1>1, <1>3 DEF BatchRecord, SameCandidate
<1>5. Sound(v) /\ (b.state \in Sticky => v.state = b.state)
  BY <1>1, <1>2, <1>3, <1>4
     DEF Sound, SoundUntracked, SoundEvidence, SoundApproval, SoundIntent, SoundStatus,
         Approvable, SameCandidate, Bound, StateOf, Sticky, Final
<1> QED
  BY <1>2, <1>3, <1>4, <1>5

\* VerifyRecord: the evidence, and the state it amounts to.
Verified(b, m) == [[b EXCEPT !.manual = m] EXCEPT !.state = StateOf([b EXCEPT !.manual = m])]

LEMMA SoundVerified ==
  ASSUME NEW b, Sound(b), NEW m \in {"passed", "failed"}, b.tracked,
         b.state \notin Final \cup {"approved", "merging"}
  PROVE  LET v == Verified(b, m)
         IN  /\ Sound(v) /\ SameCandidate(v, b) /\ v.status = b.status
             /\ (b.state \in Sticky => v.state = b.state) /\ v.approval = b.approval
             /\ v.revoked = b.revoked /\ v.auto = b.auto /\ v.refresh = b.refresh
             /\ v.closing = b.closing /\ v.change = b.change
<1>1. b \in BatchRecord /\ b.state \in CandidateState
  BY Typed, States
<1>2. PICK s \in CandidateState : s = StateOf([b EXCEPT !.manual = m])
  BY <1>1, States DEF StateOf, BatchRecord
<1> DEFINE v == [b EXCEPT !.manual = m, !.state = s]
<1>3. v \in BatchRecord /\ v = Verified(b, m)
  BY <1>1, <1>2 DEF Verified, BatchRecord, Verdict
<1>4. /\ SameCandidate(v, b) /\ v.status = b.status /\ v.approval = b.approval
      /\ v.revoked = b.revoked /\ v.auto = b.auto /\ v.refresh = b.refresh
      /\ v.closing = b.closing /\ v.change = b.change /\ v.state = s /\ v.manual = m
      /\ v.checks = b.checks /\ v.grant = b.grant /\ v.lease = b.lease
  BY <1>1, <1>3 DEF BatchRecord, SameCandidate
<1>5. Sound(v) /\ (b.state \in Sticky => v.state = b.state)
  BY <1>1, <1>2, <1>3, <1>4
     DEF Sound, SoundUntracked, SoundEvidence, SoundApproval, SoundIntent, SoundStatus,
         Approvable, SameCandidate, Bound, StateOf, Sticky, Final, BatchRecord
<1> QED
  BY <1>2, <1>3, <1>4, <1>5

LEMMA SoundChecked ==
  ASSUME NEW b, Sound(b), NEW a \in Seen, b.tracked, b.status # "merged",
         b.approval = "none" \/ (~b.revoked /\ a.checks = "passed")
  PROVE  LET v == WithChecks(b, a)
         IN  /\ Sound(v) /\ SameCandidate(v, b) /\ v.status = b.status
             /\ (b.state \in Sticky => v.state = b.state)
             /\ (b.approval # "none" => v.state = b.state) /\ v.approval = b.approval
             /\ v.revoked = b.revoked /\ v.auto = b.auto /\ v.refresh = b.refresh
             /\ v.closing = b.closing /\ v.change = b.change
<1>1. b \in BatchRecord /\ b.state \in CandidateState
  BY Typed, States
<1>9. PICK x \in Verdict : x = IF a.checks = "pending" THEN "none" ELSE a.checks
  BY DEF Seen, Verdict
<1>2. PICK s \in CandidateState : s = StateOf([b EXCEPT !.checks = x])
  BY <1>1, States DEF StateOf, BatchRecord
<1> DEFINE v == [b EXCEPT !.checks = x, !.state = s]
<1>3. v \in BatchRecord /\ v = WithChecks(b, a)
  BY <1>1, <1>2, <1>9 DEF BatchRecord, WithChecks
<1>4. /\ SameCandidate(v, b) /\ v.status = b.status /\ v.approval = b.approval
      /\ v.revoked = b.revoked /\ v.auto = b.auto /\ v.refresh = b.refresh
      /\ v.closing = b.closing /\ v.change = b.change /\ v.state = s /\ v.manual = b.manual
      /\ v.checks = x /\ v.grant = b.grant /\ v.lease = b.lease
  BY <1>1, <1>3 DEF BatchRecord, SameCandidate
<1>5. Sound(v) /\ (b.state \in Sticky => v.state = b.state) /\ (b.approval # "none" => v.state = b.state)
  BY <1>1, <1>2, <1>9, <1>3, <1>4
     DEF Sound, SoundUntracked, SoundEvidence, SoundApproval, SoundIntent, SoundStatus,
         Approvable, SameCandidate, Bound, StateOf, Sticky, Final, BatchRecord
<1> QED
  BY <1>2, <1>3, <1>4, <1>5

LEMMA SoundConfirmed ==
  ASSUME NEW b, Sound(b), b.approval # "none"
  PROVE  LET v == [b EXCEPT !.approval = "confirmed"]
         IN  /\ Sound(v) /\ SameCandidate(v, b) /\ v.status = b.status /\ v.state = b.state
             /\ v.approval = "confirmed" /\ v.revoked = b.revoked /\ v.auto = b.auto
             /\ v.refresh = b.refresh /\ v.closing = b.closing /\ v.change = b.change
<1>1. b \in BatchRecord /\ b.state \in CandidateState
  BY Typed, States
<1> DEFINE v == [b EXCEPT !.approval = "confirmed"]
<1>3. v \in BatchRecord /\ v = [b EXCEPT !.approval = "confirmed"]
  BY <1>1 DEF BatchRecord
<1>4. /\ SameCandidate(v, b) /\ v.status = b.status /\ v.state = b.state
      /\ v.approval = "confirmed" /\ v.revoked = b.revoked /\ v.auto = b.auto
      /\ v.refresh = b.refresh /\ v.closing = b.closing /\ v.change = b.change
      /\ v.manual = b.manual /\ v.checks = b.checks /\ v.grant = b.grant /\ v.lease = b.lease
  BY <1>1, <1>3 DEF BatchRecord, SameCandidate
<1>5. Sound(v)
  BY <1>1, <1>3, <1>4
     DEF Sound, SoundUntracked, SoundEvidence, SoundApproval, SoundIntent, SoundStatus,
         Approvable, SameCandidate, Bound
<1> QED
  BY <1>3, <1>4, <1>5

\* Another candidate.
Adopted(b, p) == [WithCandidate(b, 1, b.base, p) EXCEPT !.auto = "off"]

LEMMA SoundAdopted ==
  ASSUME NEW b, Sound(b), NEW p \in {1, 2}, ~b.tracked, b.status # "merged"
  PROVE  LET v == Adopted(b, p)
         IN  /\ Sound(v) /\ v.tracked = TRUE /\ v.rev = 1 /\ v.base = b.base /\ v.policy = p
             /\ v.intent = b.intent /\ v.url = b.url /\ v.status = b.status
             /\ v.state = "verifying" /\ v.approval = "none" /\ ~v.revoked /\ v.auto = "off"
             /\ v.refresh = b.refresh /\ v.closing = b.closing /\ v.change = b.change
<1>1. b \in BatchRecord /\ b.tracked \in BOOLEAN /\ b.state \in CandidateState
  BY Typed
<1>2. PICK n \in BatchRecord : n = WithCandidate(b, 1, b.base, p) /\ Fresh(n, b, 1, b.base, p)
  BY <1>1, CandidateFields, ApprovalAssumption DEF BatchRecord, ApprovalAssumption, Rev
<1>4. PICK v : v = [n EXCEPT !.auto = "off"]
  OBVIOUS
<1>5. v = Adopted(b, p)
  BY <1>1, <1>2, <1>4 DEF Adopted, Fresh
<1>6. v \in BatchRecord
  <2>1. [n EXCEPT !.auto = "off"] \in BatchRecord
    <3> n \in BatchRecord
      BY <1>1, <1>2
    <3> QED
      BY DEF BatchRecord
  <2> QED
    BY <1>4, <2>1
<1>7. /\ v.status = n.status /\ v.tracked = n.tracked /\ v.rev = n.rev /\ v.base = n.base
      /\ v.policy = n.policy /\ v.state = n.state /\ v.manual = n.manual /\ v.checks = n.checks
      /\ v.approval = n.approval /\ v.revoked = n.revoked /\ v.grant = n.grant
      /\ v.auto = "off" /\ v.url = n.url /\ v.refresh = n.refresh /\ v.closing = n.closing
      /\ v.change = n.change /\ v.intent = n.intent /\ v.lease = n.lease
  <2> n \in BatchRecord
    BY <1>2
  <2> QED
    BY <1>4 DEF BatchRecord
<1>8. /\ Sound(v) /\ v.tracked = TRUE /\ v.rev = 1 /\ v.base = b.base /\ v.policy = p
      /\ v.intent = b.intent /\ v.url = b.url /\ v.status = b.status /\ v.state = "verifying"
      /\ v.approval = "none" /\ ~v.revoked /\ v.auto = "off" /\ v.refresh = b.refresh
      /\ v.closing = b.closing /\ v.change = b.change
  BY <1>1, <1>6, <1>7, <1>2
     DEF Sound, SoundUntracked, SoundEvidence, SoundApproval, SoundIntent, SoundStatus,
         Approvable, SameCandidate, Bound, Fresh
<1> QED
  BY <1>5, <1>8

\* A revision is announced, or its announcement taken back.
Intended(b, i) == [b EXCEPT !.intent = i]

LEMMA SoundIntended ==
  ASSUME NEW b, Sound(b), NEW i \in Binding, b.tracked, i.rev = b.rev + 1,
         b.status \in {"prepared", "published"}
  PROVE  LET v == Intended(b, i)
         IN  /\ Sound(v) /\ v.tracked = b.tracked /\ v.rev = b.rev /\ v.base = b.base
             /\ v.policy = b.policy /\ v.intent = i /\ v.url = b.url /\ v.status = b.status
             /\ v.state = b.state /\ v.approval = b.approval /\ v.revoked = b.revoked
             /\ v.auto = b.auto /\ v.refresh = b.refresh /\ v.closing = b.closing
             /\ v.change = b.change
<1>1. b \in BatchRecord /\ b.state \in CandidateState
  BY Typed, States
<1> DEFINE v == [b EXCEPT !.intent = i]
<1>3. v \in BatchRecord /\ v = Intended(b, i)
  BY <1>1 DEF Intended, BatchRecord
<1>4. /\ v.tracked = b.tracked /\ v.rev = b.rev /\ v.base = b.base /\ v.policy = b.policy
      /\ v.intent = i /\ v.url = b.url /\ v.status = b.status /\ v.state = b.state
      /\ v.approval = b.approval /\ v.revoked = b.revoked /\ v.auto = b.auto
      /\ v.refresh = b.refresh /\ v.closing = b.closing /\ v.change = b.change
      /\ v.manual = b.manual /\ v.checks = b.checks /\ v.grant = b.grant /\ v.lease = b.lease
  BY <1>1, <1>3 DEF BatchRecord, SameCandidate
<1>5. Sound(v)
  BY <1>1, <1>3, <1>4
     DEF Sound, SoundUntracked, SoundEvidence, SoundApproval, SoundIntent, SoundStatus,
         Approvable, SameCandidate, Bound
<1> QED
  BY <1>3, <1>4, <1>5

\* RevisePush of a batch without pull request.
LocalMoved(b, r) == [b EXCEPT !.local = r]

LEMMA SoundLocal ==
  ASSUME NEW b, Sound(b), NEW r \in Rev
  PROVE  LET v == LocalMoved(b, r)
         IN  /\ Sound(v) /\ SameCandidate(v, b) /\ v.status = b.status /\ v.state = b.state
             /\ v.approval = b.approval /\ v.revoked = b.revoked /\ v.auto = b.auto
             /\ v.refresh = b.refresh /\ v.closing = b.closing /\ v.change = b.change
<1>1. b \in BatchRecord /\ b.state \in CandidateState
  BY Typed, States
<1> DEFINE v == [b EXCEPT !.local = r]
<1>3. v \in BatchRecord /\ v = LocalMoved(b, r)
  BY <1>1 DEF LocalMoved, BatchRecord
<1>4. /\ SameCandidate(v, b) /\ v.status = b.status /\ v.state = b.state
      /\ v.approval = b.approval /\ v.revoked = b.revoked /\ v.auto = b.auto
      /\ v.refresh = b.refresh /\ v.closing = b.closing /\ v.change = b.change
      /\ v.manual = b.manual /\ v.checks = b.checks /\ v.grant = b.grant /\ v.lease = b.lease
  BY <1>1, <1>3 DEF BatchRecord, SameCandidate
<1>5. Sound(v)
  BY <1>1, <1>3, <1>4
     DEF Sound, SoundUntracked, SoundEvidence, SoundApproval, SoundIntent, SoundStatus,
         Approvable, SameCandidate, Bound
<1> QED
  BY <1>3, <1>4, <1>5

LEMMA SoundForgotten ==
  ASSUME NEW b, Sound(b)
  PROVE  LET v == [b EXCEPT !.intent = NoIntent]
         IN  /\ Sound(v) /\ v.tracked = b.tracked /\ v.rev = b.rev /\ v.base = b.base
             /\ v.policy = b.policy /\ v.intent = NoIntent /\ v.url = b.url
             /\ v.status = b.status /\ v.state = b.state /\ v.approval = b.approval
             /\ v.revoked = b.revoked /\ v.auto = b.auto /\ v.refresh = b.refresh
             /\ v.closing = b.closing /\ v.change = b.change
<1>1. b \in BatchRecord /\ b.state \in CandidateState
  BY Typed, States
<1> DEFINE v == [b EXCEPT !.intent = NoIntent]
<1>3. v \in BatchRecord /\ v = [b EXCEPT !.intent = NoIntent]
  BY <1>1 DEF BatchRecord
<1>4. /\ v.tracked = b.tracked /\ v.rev = b.rev /\ v.base = b.base /\ v.policy = b.policy
      /\ v.intent = NoIntent /\ v.url = b.url /\ v.status = b.status /\ v.state = b.state
      /\ v.approval = b.approval /\ v.revoked = b.revoked /\ v.auto = b.auto
      /\ v.refresh = b.refresh /\ v.closing = b.closing /\ v.change = b.change
      /\ v.manual = b.manual /\ v.checks = b.checks /\ v.grant = b.grant /\ v.lease = b.lease
  BY <1>1, <1>3 DEF BatchRecord, SameCandidate
<1>5. Sound(v)
  BY <1>1, <1>3, <1>4
     DEF Sound, SoundUntracked, SoundEvidence, SoundApproval, SoundIntent, SoundStatus,
         Approvable, SameCandidate, Bound
<1> QED
  BY <1>3, <1>4, <1>5

LEMMA SoundFinalized ==
  ASSUME NEW b, Sound(b), b.intent # NoIntent
  PROVE  LET v == Finalized(b)
         IN  /\ Sound(v) /\ v.tracked = TRUE /\ v.rev = b.intent.rev /\ v.base = b.intent.base
             /\ v.policy = b.intent.policy /\ v.intent = NoIntent /\ v.url = b.url
             /\ v.status = b.status /\ v.state = "verifying" /\ v.approval = "none"
             /\ ~v.revoked /\ v.auto = "unset" /\ ~v.refresh /\ ~v.closing /\ ~v.change
<1>1. b \in BatchRecord /\ b.tracked \in BOOLEAN /\ b.state \in CandidateState
  BY Typed
<1>9. b.intent \in Binding /\ b.intent.rev \in Rev /\ b.intent.base \in Tip /\ b.intent.policy \in {1, 2}
  BY <1>1 DEF BatchRecord, Binding
<1>2. PICK n \in BatchRecord : n = WithCandidate(b, b.intent.rev, b.intent.base, b.intent.policy) /\ Fresh(n, b, b.intent.rev, b.intent.base, b.intent.policy)
  BY <1>1, <1>9, CandidateFields
<1>4. PICK v : v = [n EXCEPT !.auto = "unset", !.change = FALSE, !.refresh = FALSE, !.closing = FALSE,
                  !.lease = FALSE, !.intent = NoIntent, !.local = b.intent.rev]
  OBVIOUS
<1>5. v = Finalized(b)
  BY <1>1, <1>2, <1>4 DEF Finalized, Fresh
<1>6. v \in BatchRecord
  <2>1. [n EXCEPT !.auto = "unset", !.change = FALSE, !.refresh = FALSE, !.closing = FALSE,
        !.lease = FALSE, !.intent = NoIntent, !.local = b.intent.rev] \in BatchRecord
    <3> n \in BatchRecord
      BY <1>1, <1>2
    <3> "blocked" \in CandidateState /\ "changes_requested" \in CandidateState
        /\ "approved" \in CandidateState
      BY States
    <3> "merging" \in CandidateState
      BY States
    <3> QED
      BY <1>9 DEF BatchRecord
  <2> QED
    BY <1>4, <2>1
<1>7. /\ v.status = n.status /\ v.tracked = n.tracked /\ v.rev = n.rev /\ v.base = n.base
      /\ v.policy = n.policy /\ v.state = n.state /\ v.manual = n.manual /\ v.checks = n.checks
      /\ v.approval = n.approval /\ v.revoked = n.revoked /\ v.grant = n.grant
      /\ v.auto = "unset" /\ v.url = n.url /\ v.refresh = FALSE /\ v.closing = FALSE
      /\ v.change = FALSE /\ v.intent = NoIntent /\ v.lease = FALSE
  <2> n \in BatchRecord
    BY <1>2
  <2> QED
    BY <1>4 DEF BatchRecord
<1>8. /\ Sound(v) /\ v.tracked = TRUE /\ v.rev = b.intent.rev /\ v.base = b.intent.base
      /\ v.policy = b.intent.policy /\ v.intent = NoIntent /\ v.url = b.url
      /\ v.status = b.status /\ v.state = "verifying" /\ v.approval = "none" /\ ~v.revoked
      /\ v.auto = "unset" /\ ~v.refresh /\ ~v.closing /\ ~v.change
  BY <1>1, <1>6, <1>7, <1>2
     DEF Sound, SoundUntracked, SoundEvidence, SoundApproval, SoundIntent, SoundStatus,
         Approvable, SameCandidate, Bound, Fresh
<1> QED
  BY <1>5, <1>8

\* A withdrawn approval is cleared by the reconciliation, and the state follows the evidence.
LEMMA SoundDropped ==
  ASSUME NEW b, Sound(b), NEW a \in Seen, b.status # "merged", b.approval # "none", b.revoked
  PROVE  LET v == Kept(Confirmed(WithChecks(b, a)))
         IN  /\ Sound(v) /\ SameCandidate(v, b) /\ v.status = b.status /\ v.approval = "none"
             /\ ~v.revoked /\ v.auto = "off" /\ v.refresh = b.refresh /\ v.closing = b.closing
             /\ v.change = b.change
<1>1. b \in BatchRecord /\ b.state \in {"approved", "merging"}
  BY DEF Sound, SoundApproval, SoundStatus
<1>2. PICK x \in Verdict : x = IF a.checks = "pending" THEN "none" ELSE a.checks
  BY DEF Seen, Verdict
<1>3. PICK s \in CandidateState \ Sticky : s = StateOf([b EXCEPT !.checks = x])
  BY <1>1, States DEF StateOf, BatchRecord, Sticky, Final
<1>4. PICK w \in BatchRecord : w = [b EXCEPT !.checks = x, !.state = s]
  BY <1>1 DEF BatchRecord
<1>5. WithChecks(b, a) = w
  BY <1>1, <1>2, <1>3, <1>4 DEF BatchRecord, WithChecks
<1>6. /\ SameCandidate(w, b) /\ w.status = b.status /\ w.approval # "none" /\ w.revoked
      /\ w.refresh = b.refresh /\ w.closing = b.closing /\ w.change = b.change /\ w.state = s
  BY <1>1, <1>4 DEF BatchRecord, SameCandidate
<1>7. PICK n \in BatchRecord : n = NoApproval(w) /\ Withdrawn(n, w)
  BY NoApprovalFields
<1>8. PICK e \in BatchRecord : e = [n EXCEPT !.auto = "off"]
  <2> n \in BatchRecord
    BY <1>7
  <2> QED
    BY DEF BatchRecord
<1>9. /\ SameCandidate(e, b) /\ e.status = b.status /\ e.approval = "none" /\ ~e.revoked
      /\ e.refresh = b.refresh /\ e.closing = b.closing /\ e.change = b.change /\ e.state = s
      /\ e.auto = "off"
  BY <1>6, <1>7, <1>8 DEF BatchRecord, SameCandidate, Withdrawn
<1>10. PICK t \in CandidateState : t = StateOf(e)
  BY <1>3, <1>9, States DEF StateOf
<1>11. PICK k \in BatchRecord : k = [e EXCEPT !.state = t]
  BY <1>10 DEF BatchRecord
<1>12. /\ SameCandidate(k, b) /\ k.status = b.status /\ k.approval = "none" /\ ~k.revoked
       /\ k.refresh = b.refresh /\ k.closing = b.closing /\ k.change = b.change /\ k.state = t
       /\ k.auto = "off" /\ k.manual = e.manual /\ k.checks = e.checks
  BY <1>9, <1>11 DEF BatchRecord, SameCandidate
<1>13. Kept(Confirmed(WithChecks(b, a))) = k
  <2>1. Confirmed(w) = w
    BY <1>6 DEF Confirmed
  <2>2. Kept(w) = [e EXCEPT !.state = StateOf(e)]
    BY <1>6, <1>7, <1>8 DEF Kept
  <2> QED
    BY <1>5, <1>10, <1>11, <2>1, <2>2
<1>14. t \in {"verification_failed", "verifying", "ready_for_approval"}
       /\ (t = "ready_for_approval" => e.manual = "passed" /\ e.checks = "passed")
  BY <1>3, <1>9, <1>10 DEF StateOf
<1>15. Sound(k)
  <2>1. b.tracked
    BY <1>1 DEF Sound, SoundUntracked
  <2> QED
    BY <1>12, <1>14, <2>1 DEF Sound, SoundUntracked, SoundEvidence, SoundApproval, SoundIntent,
          SoundStatus, Approvable, SameCandidate
<1> QED
  BY <1>12, <1>13, <1>15

\* The last branch of the reconciliation: checks, confirmation, queue.
LEMMA SoundReconciled ==
  ASSUME NEW b, Sound(b), NEW a \in Seen, NEW c \in Config, b.tracked, b.status # "merged",
         b.approval = "none" \/ b.revoked \/ a.checks = "passed"
  PROVE  LET v == Requeried(Kept(Confirmed(WithChecks(b, a))), a, c)
         IN  /\ Sound(v) /\ SameCandidate(v, b) /\ v.status = b.status
             /\ v.approval \in {"none", "confirmed"} /\ ~v.revoked
             /\ (b.approval = "none" => v.approval = "none")
             /\ (b.approval # "none" /\ ~b.revoked => v.approval = "confirmed")
             /\ (b.approval # "none" /\ ~b.revoked /\ a.queued /\ MayBeQueued(b) => MayBeQueued(v))
             /\ (b.state \in Sticky => v.state = b.state)
             /\ v.refresh = b.refresh /\ v.closing = b.closing /\ v.change = b.change
<1> DEFINE k == Kept(Confirmed(WithChecks(b, a)))
           v == Requeried(k, a, c)
<1>1. CASE b.approval = "none"
  <2>1. PICK w : w = WithChecks(b, a)
    OBVIOUS
  <2>2. /\ Sound(w) /\ SameCandidate(w, b) /\ w.status = b.status /\ w.approval = "none"
        /\ ~w.revoked /\ (b.state \in Sticky => w.state = b.state)
        /\ w.refresh = b.refresh /\ w.closing = b.closing /\ w.change = b.change
    BY <1>1, <2>1, SoundChecked DEF Sound, SoundApproval
  <2>3. k = w
    BY <2>1, <2>2 DEF Confirmed, Kept
  <2>4. v = AutoSet(w, "off") \/ v = w
    BY <2>2, <2>3 DEF Requeried, Authorized, AutoSet
  <2>5. PICK u : u = AutoSet(w, "off")
    OBVIOUS
  <2>6. /\ Sound(u) /\ SameCandidate(u, w) /\ u.status = w.status /\ u.state = w.state
        /\ u.approval = w.approval /\ u.revoked = w.revoked
        /\ u.refresh = w.refresh /\ u.closing = w.closing /\ u.change = w.change
    BY <2>2, <2>5, SoundAuto
  <2> HIDE DEF v
  <2> QED
    BY <1>1, <2>2, <2>4, <2>5, <2>6 DEF SameCandidate, v
<1>2. CASE b.approval # "none" /\ b.revoked
  <2>1. PICK w : w = k
    OBVIOUS
  <2>2. /\ Sound(w) /\ SameCandidate(w, b) /\ w.status = b.status /\ w.approval = "none"
        /\ ~w.revoked
        /\ w.refresh = b.refresh /\ w.closing = b.closing /\ w.change = b.change
    BY <1>2, <2>1, SoundDropped
  <2>4. v = AutoSet(w, "off") \/ v = w
    BY <2>1, <2>2 DEF Requeried, Authorized, AutoSet
  <2>5. PICK u : u = AutoSet(w, "off")
    OBVIOUS
  <2>6. /\ Sound(u) /\ SameCandidate(u, w) /\ u.status = w.status /\ u.state = w.state
        /\ u.approval = w.approval /\ u.revoked = w.revoked
        /\ u.refresh = w.refresh /\ u.closing = w.closing /\ u.change = w.change
    BY <2>2, <2>5, SoundAuto
  <2>7. b.state \notin Sticky
    BY <1>2 DEF Sound, SoundApproval, SoundStatus, Sticky, Final
  <2> HIDE DEF v
  <2> QED
    BY <1>2, <2>2, <2>4, <2>5, <2>6, <2>7 DEF SameCandidate, v
<1>3. CASE b.approval # "none" /\ ~b.revoked
  <2>0. b.state \in {"approved", "merging"} /\ b.approval \in {"recorded", "confirmed"}
    BY <1>3 DEF Sound, SoundApproval, SoundStatus, BatchRecord
  <2>1. PICK w : w = WithChecks(b, a)
    OBVIOUS
  <2>2. /\ Sound(w) /\ SameCandidate(w, b) /\ w.status = b.status /\ w.approval = b.approval
        /\ ~w.revoked /\ w.state = b.state /\ w.auto = b.auto
        /\ w.refresh = b.refresh /\ w.closing = b.closing /\ w.change = b.change
    BY <1>3, <2>1, SoundChecked
  <2>3. PICK x : x = [w EXCEPT !.approval = "confirmed"]
    OBVIOUS
  <2>4. /\ Sound(x) /\ SameCandidate(x, w) /\ x.status = w.status /\ x.approval = "confirmed"
        /\ x.revoked = w.revoked /\ x.state = w.state /\ x.auto = w.auto
        /\ x.refresh = w.refresh /\ x.closing = w.closing /\ x.change = w.change
    BY <1>3, <2>2, <2>3, SoundConfirmed
  <2>5. PICK y : y = Confirmed(w)
    OBVIOUS
  <2>6. /\ Sound(y) /\ SameCandidate(y, b) /\ y.status = b.status /\ y.approval = "confirmed"
        /\ ~y.revoked /\ y.state = b.state /\ y.auto = b.auto
        /\ y.refresh = b.refresh /\ y.closing = b.closing /\ y.change = b.change
    <3>1. CASE b.approval = "recorded"
      <4>1. y = x
        BY <2>2, <2>3, <2>5, <3>1 DEF Confirmed
      <4> QED
        BY <2>2, <2>4, <4>1 DEF SameCandidate
    <3>2. CASE b.approval = "confirmed"
      <4>1. y = w
        BY <2>2, <2>5, <3>2 DEF Confirmed
      <4> QED
        BY <2>2, <3>2, <4>1
    <3> QED
      BY <2>0, <3>1, <3>2
  <2>7. k = y
    BY <2>0, <2>1, <2>5, <2>6 DEF Kept
  <2>8. PICK q : q = IF a.queued THEN "on" ELSE "off"
    OBVIOUS
  <2>9. PICK s : s = IF a.queued THEN "merging" ELSE "approved"
    OBVIOUS
  <2>10. PICK u : u = [y EXCEPT !.auto = q, !.state = s]
    OBVIOUS
  <2>11. /\ Sound(u) /\ SameCandidate(u, y) /\ u.status = y.status /\ u.approval = "confirmed"
         /\ u.revoked = y.revoked /\ u.auto = q
         /\ u.refresh = y.refresh /\ u.closing = y.closing /\ u.change = y.change
    <3>1. q \in {"on", "off"} /\ s \in {"approved", "merging"} /\ y.state \in {"approved", "merging"}
      BY <2>0, <2>6, <2>8, <2>9
    <3>2. y \in BatchRecord /\ s \in CandidateState
      BY <2>6, <3>1, States DEF Sound
    <3>3. u \in BatchRecord
      BY <2>10, <3>1, <3>2 DEF BatchRecord
    <3>4. /\ SameCandidate(u, y) /\ u.status = y.status /\ u.approval = y.approval
          /\ u.revoked = y.revoked /\ u.auto = q /\ u.state = s
          /\ u.refresh = y.refresh /\ u.closing = y.closing /\ u.change = y.change
          /\ u.manual = y.manual /\ u.checks = y.checks /\ u.grant = y.grant /\ u.lease = y.lease
      BY <2>10, <3>2 DEF BatchRecord, SameCandidate
    <3>5. Sound(u)
      BY <2>6, <3>1, <3>3, <3>4 DEF Sound, SoundUntracked, SoundEvidence, SoundApproval, SoundIntent,
         SoundStatus, Approvable, SameCandidate, Bound
    <3> QED
      BY <2>6, <3>4, <3>5
  <2>12. PICK z : z = AutoSet(y, "off")
    OBVIOUS
  <2>13. /\ Sound(z) /\ SameCandidate(z, y) /\ z.status = y.status /\ z.approval = "confirmed"
         /\ z.revoked = y.revoked
         /\ z.refresh = y.refresh /\ z.closing = y.closing /\ z.change = y.change
    BY <2>6, <2>12, SoundAuto
  <2>14. v = u \/ (v = z /\ ~a.queued) \/ v = y
    BY <2>7, <2>8, <2>9, <2>10, <2>12 DEF Requeried, AutoSet
  <2>15. b.state \notin Sticky
    BY <2>0 DEF Sticky, Final
  <2>16. \A g \in {u, z, y} :
            /\ Sound(g) /\ SameCandidate(g, b) /\ g.status = b.status /\ g.approval = "confirmed"
            /\ ~g.revoked /\ g.refresh = b.refresh /\ g.closing = b.closing /\ g.change = b.change
    BY <2>6, <2>11, <2>13 DEF SameCandidate
  <2>17. a.queued /\ MayBeQueued(b) => MayBeQueued(v)
    BY <2>6, <2>8, <2>11, <2>14 DEF MayBeQueued
  <2>18. v \in {u, z, y}
    BY <2>14
  <2> HIDE DEF v
  <2> QED
    BY <1>3, <2>15, <2>16, <2>17, <2>18 DEF v
<1> QED
  BY <1>1, <1>2, <1>3

\* The whole reconciliation: an approval that the answer of the forge does not speak against is
\* confirmed and a queued merge of it stays on record; any other is cleared.
LEMMA SoundSynced ==
  ASSUME NEW b, Sound(b), NEW a \in Seen, NEW c \in Config, b.tracked, b.status # "merged",
         b.approval = "none" \/ b.revoked \/ ~Invalidated(b, a, c)
  PROVE  LET v == Synced(b, a, c)
         IN  /\ Sound(v) /\ SameCandidate(v, b) /\ v.status = b.status
             /\ v.approval \in {"none", "confirmed"} /\ ~v.revoked
             /\ (b.approval = "none" => v.approval = "none")
             /\ (b.approval # "none" /\ ~Invalidated(b, a, c)
                    => v.approval = "confirmed" /\ (a.queued /\ MayBeQueued(b) => MayBeQueued(v)))
             /\ (b.state \in Sticky => v.state \in Sticky)
             /\ (v.refresh => b.refresh \/ v.state \in Sticky)
             /\ (v.closing => b.closing) /\ v.change = b.change
<1> DEFINE v == Synced(b, a, c)
           clean == b.approval # "none" /\ ~Invalidated(b, a, c)
<1>0. clean => PolicyCurrent(b, c) /\ a.head = b.rev /\ a.tip = b.base /\ a.review = "none"
                /\ a.checks = "passed" /\ ~b.revoked
  BY DEF Invalidated
<1>1. PICK w : w = Blocked(b)
  OBVIOUS
<1>2. /\ Sound(w) /\ SameCandidate(w, b) /\ w.status = b.status /\ w.state = "blocked"
      /\ w.approval = "none" /\ ~w.revoked
      /\ w.refresh = b.refresh /\ w.closing = b.closing /\ w.change = b.change
  BY <1>1, SoundBlocked
<1>3. "blocked" \in Sticky /\ "changes_requested" \in Sticky
  BY DEF Sticky
<1>4. CASE v = [w EXCEPT !.refresh = TRUE] /\ ~clean
  <2>1. PICK u : u = [w EXCEPT !.refresh = TRUE]
    OBVIOUS
  <2>2. /\ Sound(u) /\ SameCandidate(u, w) /\ u.status = w.status /\ u.state = w.state
        /\ u.approval = w.approval /\ u.revoked = w.revoked
        /\ u.closing = w.closing /\ u.change = w.change
    BY <1>2, <2>1, SoundMarked
  <2>3. v = u
    BY <1>4, <2>1
  <2> HIDE DEF v
  <2> QED
    BY <1>2, <1>3, <1>4, <2>2, <2>3 DEF SameCandidate, v
<1>5. CASE v = [w EXCEPT !.refresh = FALSE, !.closing = FALSE] /\ ~clean
  <2>1. PICK u : u = [w EXCEPT !.refresh = FALSE, !.closing = FALSE]
    OBVIOUS
  <2>2. /\ Sound(u) /\ SameCandidate(u, w) /\ u.status = w.status /\ u.state = w.state
        /\ u.approval = w.approval /\ u.revoked = w.revoked
        /\ ~u.closing /\ ~u.refresh /\ u.change = w.change
    BY <1>2, <2>1, SoundUnmarked
  <2>3. v = u
    BY <1>5, <2>1
  <2>4. SameCandidate(u, b) /\ u.status = b.status /\ u.state = "blocked" /\ u.approval = "none"
        /\ ~u.revoked /\ u.change = b.change
    BY <1>2, <2>2 DEF SameCandidate
  <2>5. b.approval = "none" \/ Invalidated(b, a, c)
    BY <1>5
  <2> HIDE DEF v, clean
  <2> QED
    BY <1>3, <2>2, <2>3, <2>4, <2>5 DEF v
<1>6. CASE v = [NoApproval(b) EXCEPT !.state = "changes_requested", !.auto = "off"] /\ ~clean
  <2>1. PICK u : u = [NoApproval(b) EXCEPT !.state = "changes_requested", !.auto = "off"]
    OBVIOUS
  <2>2. /\ Sound(u) /\ SameCandidate(u, b) /\ u.status = b.status
        /\ u.state = "changes_requested" /\ u.approval = "none" /\ ~u.revoked
        /\ u.refresh = b.refresh /\ u.closing = b.closing /\ u.change = b.change
    BY <2>1, SoundRejected
  <2>3. v = u
    BY <1>6, <2>1
  <2> HIDE DEF v
  <2> QED
    BY <1>3, <1>6, <2>2, <2>3 DEF SameCandidate, v
<1>7. CASE v = w /\ ~clean
  <2> HIDE DEF v
  <2> QED
    BY <1>2, <1>3, <1>7 DEF v
<1>8. CASE v = Requeried(Kept(Confirmed(WithChecks(b, a))), a, c)
  <2>1. b.approval = "none" \/ b.revoked \/ a.checks = "passed"
    BY <1>0
  <2>2. PICK u : u = Requeried(Kept(Confirmed(WithChecks(b, a))), a, c)
    OBVIOUS
  <2>3. /\ Sound(u) /\ SameCandidate(u, b) /\ u.status = b.status
        /\ u.approval \in {"none", "confirmed"} /\ ~u.revoked
        /\ (b.approval = "none" => u.approval = "none")
        /\ (b.approval # "none" /\ ~b.revoked => u.approval = "confirmed")
        /\ (b.approval # "none" /\ ~b.revoked /\ a.queued /\ MayBeQueued(b) => MayBeQueued(u))
        /\ (b.state \in Sticky => u.state = b.state)
        /\ u.refresh = b.refresh /\ u.closing = b.closing /\ u.change = b.change
    BY <2>1, <2>2, SoundReconciled
  <2>4. v = u
    BY <1>8, <2>2
  <2> HIDE DEF v
  <2> QED
    BY <1>0, <2>3, <2>4 DEF v
<1> QED
  <2>1. \/ v = [w EXCEPT !.refresh = TRUE] /\ ~clean
        \/ v = [w EXCEPT !.refresh = FALSE, !.closing = FALSE] /\ ~clean
        \/ v = [NoApproval(b) EXCEPT !.state = "changes_requested", !.auto = "off"] /\ ~clean
        \/ v = w /\ ~clean
        \/ v = Requeried(Kept(Confirmed(WithChecks(b, a))), a, c)
    BY <1>0, <1>1 DEF Synced
  <2> QED
    BY <2>1, <1>4, <1>5, <1>6, <1>7, <1>8

-----------------------------------------------------------------------------
(* The invariant: what the record, the pull request and the command that   *)
(* works say about each other.                                             *)

\* The steps of an attempt to queue the merge, those that carry a decision of sync out, and
\* the decisions that carry a request for changes out.
Attempting == {"attempt", "enable", "result"}
Settling == {"journal", "disable", "settle"}
Carrying == {"changes", "changes, foreign", "changes, closed"}

\* Where a command stands says what it works on: a batch without an announced revision (a
\* revision aside), not merged, of the status it has asked for.
PhaseInv ==
    /\ proc.cmd = "none" <=> proc.pc = "idle"
    /\ proc.cmd \notin {"none", "revise"} => batch.intent = NoIntent
    /\ proc.pc \in {"build", "push", "finalize"} <=> proc.cmd = "revise"
    /\ proc.cmd = "revise" => /\ batch.tracked /\ batch.status \in {"prepared", "published"}
                              /\ proc.seen.st = "none"
    /\ proc.pc = "build" => batch.intent = NoIntent /\ batch.rev < MaxRev
    /\ proc.pc \in {"push", "finalize"} => /\ batch.intent # NoIntent
                                           /\ batch.state = "changes_requested"
    /\ proc.pc \in {"fresh", "create", "record"} =>
            proc.cmd = "publish" /\ batch.status \in {"prepared", "published"}
    /\ proc.pc \in {"look", "grant"} => /\ proc.cmd = "approve" /\ proc.arg = Bound(batch)
                                        /\ batch.tracked /\ Published(batch)
    /\ proc.pc = "look" => batch.state \in Approvable
    /\ proc.pc = "evidence" => batch.tracked /\ Published(batch)
    /\ proc.pc \in {"target", "close", "rejected", "retire"} => proc.cmd = "refresh"
    /\ proc.pc = "recheck" => proc.cmd = "close"
    /\ proc.pc = "change" => batch.change
    /\ batch.status = "merged" => proc.pc \in {"idle", "recheck"}

\* What sync decided is still right when it is carried out.
SettleInv ==
    proc.pc \in Settling =>
        /\ proc.todo # "none"
        /\ proc.pc = "journal" => proc.todo \in Journaled
        /\ proc.todo \in {"adopt", "adopt, queue off", "stale", "stale, queue off", "untracked",
                          "observe"} => ~batch.tracked
        /\ proc.todo \in {"stale", "stale, queue off"} => batch.base < proc.seen.tip
        /\ proc.todo \in {"synced", "revoke", "unauthorized"} => batch.tracked
        /\ proc.todo = "unauthorized" => batch.approval = "none"
        /\ proc.todo = "queue off" => ~proc.cfg.auto
        /\ proc.todo = "revoke" => /\ batch.approval # "none"
                                   /\ proc.pc # "journal" => batch.revoked
        /\ proc.todo = "synced" => \/ batch.approval = "none"
                                   \/ ~Invalidated(batch, proc.seen, proc.cfg)
        /\ proc.todo = "keep" /\ batch.tracked => batch.closing
        /\ proc.todo = "merged" =>
                /\ proc.seen.st = "merged" /\ proc.seen.head = batch.rev /\ proc.seen.proven
                /\ batch.tracked => batch.approval = "confirmed" /\ ~batch.revoked
        /\ proc.todo \in Carrying => batch.change
        /\ proc.todo = "refresh" => proc.cmd = "refresh"

\* Auto-merge is attempted only with an approval that is confirmed and stands.
AttemptInv ==
    /\ proc.pc \in Attempting =>
            /\ Published(batch) /\ ~batch.change
            /\ batch.tracked => batch.approval = "confirmed" /\ ~batch.revoked
    /\ proc.pc \in {"enable", "result"} => batch.auto = "pending"

\* Publication and approval do not go on over a request for changes or an announced close.
ClearInv ==
    /\ proc.cmd = "publish" => ~batch.change
    /\ /\ proc.cmd = "approve"
       /\ proc.pc = "inspect" \/ (proc.pc \in Settling /\ proc.todo \notin Carrying)
       => ~batch.change /\ ~batch.closing
    /\ proc.pc = "grant" => ~batch.closing

\* A merge that was seen stays what it was, and the tip only moves on.
SeenInv ==
    /\ proc.seen.st = "merged" => /\ pr.st = "merged" /\ pr.head = proc.seen.head
                                  /\ pr.proven = proc.seen.proven
    /\ proc.seen.tip <= pr.tip

\* A queued merge is recorded and approved; while sync settles, its decision leaves the record
\* of it alone; and refresh goes on only once it is off.
SettleQueue ==
    \/ pr.queue # "broker"
    \/ proc.todo = "observe" /\ proc.seen.queued
    \/ proc.todo = "keep"
    \/ /\ proc.todo = "synced" /\ proc.seen.queued /\ batch.approval # "none"
       /\ ~Invalidated(batch, proc.seen, proc.cfg)

QueueInv ==
    /\ pr.queue = "broker" => /\ MayBeQueued(batch) /\ Published(batch)
                              /\ batch.tracked => batch.approval # "none"
    /\ proc.pc = "settle" => SettleQueue
    /\ proc.pc \in {"close", "rejected", "retire"} => pr.queue # "broker"

\* The pull request by itself.
PrInv ==
    /\ pr.st = "none" <=> pr.opened = 0
    /\ pr.opened <= 1
    /\ pr.queue # "none" => pr.st = "open"

\* A head beyond the record is the announced one, of a published branch.
HeadInv == pr.head > batch.rev => batch.intent.rev = pr.head /\ batch.url

\* Recovery works alone on an announced revision, and what it saw tells whether the branch
\* was moved.
RecInv ==
    rec # NotLooked => /\ proc.cmd = "none" /\ batch.intent # NoIntent
                       /\ rec = batch.rev => pr.head <= batch.rev

\* Bases are tips there have been, and a batch is marked for refresh for a reason that lasts.
TipInv ==
    /\ batch.base <= pr.tip /\ batch.intent.base <= pr.tip
    /\ batch.refresh => batch.base < pr.tip \/ batch.state \in Sticky

\* The inductive invariant.
ProcInv == PhaseInv /\ SettleInv /\ AttemptInv /\ ClearInv /\ SeenInv
IInv == /\ TypeOK /\ Sound(batch) /\ ProcInv
        /\ QueueInv /\ PrInv /\ HeadInv /\ MergedIsProven /\ RecInv /\ TipInv

-----------------------------------------------------------------------------
(* The transaction that settles a decision of sync.                        *)

\* What it makes of the batch, whatever the decision was.
SettleEffect(v) ==
    /\ Sound(v)
    /\ v.rev = batch.rev /\ v.base = batch.base /\ v.intent = batch.intent /\ v.url = batch.url
    /\ batch.tracked => v.tracked
    /\ v.status = "merged" => /\ pr.st = "merged" /\ pr.head = v.rev /\ pr.proven
                              /\ v.tracked = batch.tracked /\ v.approval = batch.approval
    /\ pr.queue = "broker" => /\ MayBeQueued(v) /\ Published(v)
                              /\ v.tracked = batch.tracked /\ (v.tracked => v.approval # "none")
    /\ v.refresh => v.base < pr.tip \/ v.state \in Sticky
    /\ v.change => batch.change
    /\ \/ v.approval = batch.approval
       \/ v.approval = "none" /\ pr.queue # "broker"
       \/ v.approval = "confirmed" /\ batch.approval = "recorded"
    /\ proc.cmd = "approve" /\ Published(v) /\ v.approval # "none" /\ proc.cfg.auto
       /\ proc.todo \notin {"unauthorized", "mismatch", "mismatch, queue off", "refresh"}
       => v.approval = "confirmed" /\ ~v.revoked /\ ~v.change
    /\ proc.todo = "unauthorized" => v.tracked /\ v.approval = "none" /\ v.closing = batch.closing
    /\ proc.todo \in {"unauthorized", "refresh"} => v.status # "merged"

LEMMA SettleSound ==
  ASSUME IInv, proc.pc = "settle"
  PROVE  SettleEffect(Settled(proc.todo, batch, proc.seen, proc.cfg))
<1> DEFINE v == Settled(proc.todo, batch, proc.seen, proc.cfg)
<1>1. /\ Sound(batch) /\ batch.intent = NoIntent /\ batch.status # "merged"
      /\ proc.seen \in Seen /\ proc.cfg \in Config /\ proc.todo # "none"
  BY ApprovalAssumption
     DEF IInv, ProcInv, PhaseInv, SettleInv, Settling, TypeOK, Progress, ApprovalAssumption
<1>2. /\ batch.base \in Tip /\ pr.tip \in Tip /\ batch.base <= pr.tip /\ proc.seen.tip <= pr.tip
      /\ proc.seen.tip \in Tip
  BY <1>1 DEF IInv, ProcInv, SeenInv, TipInv, TypeOK, BatchRecord, PullRequest, Seen
<1>3. batch.refresh => batch.base < pr.tip \/ batch.state \in Sticky
  BY DEF IInv, TipInv
<1>4. /\ pr.queue = "broker" => /\ MayBeQueued(batch) /\ Published(batch)
                               /\ (batch.tracked => batch.approval # "none") /\ SettleQueue
  BY DEF IInv, QueueInv
<1>5. batch.change \/ batch.closing => proc.cmd # "approve" \/ proc.todo \in Carrying
  BY DEF IInv, ProcInv, ClearInv, Settling
<1>6. ~batch.tracked => batch.approval = "none" /\ batch.rev = 1
  BY <1>1 DEF Sound, SoundUntracked
<1>7. SettleInv /\ SeenInv
  BY DEF IInv, ProcInv
<1> SUFFICES SettleEffect(v)
  OBVIOUS
<1> HIDE DEF v
<1>11. CASE proc.todo \in {"violated", "violated, queue off", "late"}
  <2>1. PICK w : w = Violated(batch)
    OBVIOUS
  <2>2. v = w
    BY <1>11, <2>1 DEF v, Settled
  <2>3. /\ Sound(w) /\ SameCandidate(w, batch) /\ w.status = "failed" /\ w.approval = "none"
        /\ ~w.revoked /\ w.auto = "off" /\ ~w.refresh /\ ~w.closing
        /\ w.change = batch.change
    BY <1>1, <1>11, <1>6, <2>1, SoundViolated
  <2> QED
    BY <1>1, <1>2, <1>3, <1>4, <1>5, <1>6, <1>7, <1>11, <2>2, <2>3
       DEF SettleEffect, SameCandidate, SettleQueue, SettleInv, SeenInv, Settling, Carrying, Published,
           MayBeQueued
<1>12. CASE proc.todo = "queue off"
  <2>1. PICK w : w = QueueOff(batch)
    OBVIOUS
  <2>2. v = w
    BY <1>12, <2>1 DEF v, Settled
  <2>3. /\ Sound(w) /\ SameCandidate(w, batch) /\ w.status = batch.status
        /\ w.state = (IF batch.approval # "none" /\ batch.state = "merging" THEN "approved" ELSE batch.state)
        /\ w.approval = batch.approval /\ w.revoked = batch.revoked /\ w.auto = "off"
        /\ w.refresh = batch.refresh /\ w.closing = batch.closing /\ w.change = batch.change
    BY <1>1, <1>12, <1>6, <2>1, SoundQueueOff
  <2> QED
    BY <1>1, <1>2, <1>3, <1>4, <1>5, <1>6, <1>7, <1>12, <2>2, <2>3
       DEF SettleEffect, SameCandidate, SettleQueue, SettleInv, SeenInv, Settling, Carrying, Published,
           MayBeQueued, Sticky, Final
<1>13. CASE proc.todo = "untracked"
  <2>0. ~batch.tracked
    BY <1>7, <1>13 DEF SettleInv, Settling
  <2>1. PICK w : w = Untracked(batch)
    OBVIOUS
  <2>2. v = w
    BY <1>13, <2>0, <2>1 DEF v, Settled
  <2>3. /\ Sound(w) /\ SameCandidate(w, batch) /\ w.status = "failed"
        /\ w.state = batch.state /\ w.approval = batch.approval /\ w.revoked = batch.revoked
        /\ w.auto = "off" /\ w.refresh = batch.refresh /\ w.closing = batch.closing
        /\ w.change = batch.change
    BY <1>1, <1>13, <1>6, <2>0, <2>1, SoundLost
  <2> QED
    BY <1>1, <1>2, <1>3, <1>4, <1>5, <1>6, <1>7, <1>13, <2>0, <2>2, <2>3
       DEF SettleEffect, SameCandidate, SettleQueue, SettleInv, SeenInv, Settling, Carrying, Published,
           MayBeQueued
<1>14. CASE proc.todo \in {"closed", "changes, closed"} /\ MayClose(batch) /\ batch.status # "closed"
  <2>1. PICK w : w = Closed(batch)
    OBVIOUS
  <2>2. v = w
    BY <1>14, <2>1 DEF v, Settled
  <2>3. /\ Sound(w) /\ SameCandidate(w, batch) /\ w.status = "closed" /\ w.approval = "none"
        /\ ~w.revoked /\ w.auto = "off" /\ ~w.refresh /\ ~w.closing /\ ~w.change
    BY <1>1, <1>14, <1>6, <2>1, SoundClosed
  <2> QED
    BY <1>1, <1>2, <1>3, <1>4, <1>5, <1>6, <1>7, <1>14, <2>2, <2>3
       DEF SettleEffect, SameCandidate, SettleQueue, SettleInv, SeenInv, Settling, Carrying, Published,
           MayBeQueued
<1>16. CASE proc.todo = "unauthorized"
  <2>0. batch.tracked /\ batch.approval = "none"
    BY <1>7, <1>16 DEF SettleInv, Settling
  <2>1. PICK w : w = [batch EXCEPT !.auto = "off", !.state = StateOf(batch)]
    OBVIOUS
  <2>2. v = w
    BY <1>16, <2>0, <2>1 DEF v, Settled
  <2>3. /\ Sound(w) /\ SameCandidate(w, batch) /\ w.status = batch.status
        /\ w.approval = batch.approval /\ w.revoked = batch.revoked /\ w.auto = "off"
        /\ w.refresh = batch.refresh /\ w.closing = batch.closing /\ w.change = batch.change
        /\ (batch.state \in Sticky => w.state = batch.state)
    BY <1>1, <1>16, <1>6, <2>0, <2>1, SoundUnauthorized
  <2> QED
    BY <1>1, <1>2, <1>3, <1>4, <1>5, <1>6, <1>7, <1>16, <2>0, <2>2, <2>3
       DEF SettleEffect, SameCandidate, SettleQueue, SettleInv, SeenInv, Settling, Carrying, Published,
           MayBeQueued
<1>17. CASE proc.todo \in {"revoke", "synced"}
  <2>0. batch.tracked /\ (batch.approval = "none" \/ batch.revoked \/ ~Invalidated(batch, proc.seen, proc.cfg))
    BY <1>7, <1>17 DEF SettleInv, Settling
  <2>1. PICK w : w = Synced(batch, proc.seen, proc.cfg)
    OBVIOUS
  <2>2. v = w
    BY <1>17, <2>1 DEF v, Settled
  <2>3. /\ Sound(w) /\ SameCandidate(w, batch) /\ w.status = batch.status
        /\ w.approval \in {"none", "confirmed"} /\ ~w.revoked
        /\ (batch.approval = "none" => w.approval = "none")
        /\ (batch.approval # "none" /\ ~Invalidated(batch, proc.seen, proc.cfg)
               => w.approval = "confirmed" /\ (proc.seen.queued /\ MayBeQueued(batch) => MayBeQueued(w)))
        /\ (batch.state \in Sticky => w.state \in Sticky)
        /\ (w.refresh => batch.refresh \/ w.state \in Sticky)
        /\ (w.closing => batch.closing) /\ w.change = batch.change
    BY <1>1, <2>0, <2>1, SoundSynced
  <2>4. pr.queue = "broker" => /\ proc.seen.queued /\ batch.approval # "none"
                              /\ ~Invalidated(batch, proc.seen, proc.cfg)
    BY <1>4, <1>17 DEF SettleQueue
  <2>5. batch.approval \in {"none", "recorded", "confirmed"}
    BY <1>1 DEF Sound, BatchRecord
  <2> QED
    BY <1>1, <1>2, <1>3, <1>4, <1>5, <1>17, <2>2, <2>3, <2>4, <2>5
       DEF SettleEffect, SameCandidate, Carrying, Published
<1>18. CASE proc.todo = "merged" /\ MayMerge(batch, proc.cfg)
  <2>1. PICK w : w = Merged(batch)
    OBVIOUS
  <2>2. v = w
    BY <1>18, <2>1 DEF v, Settled
  <2>3. /\ Sound(w) /\ SameCandidate(w, batch) /\ w.status = "merged"
        /\ w.approval = batch.approval /\ w.refresh = batch.refresh /\ w.change = batch.change
    BY <1>1, <1>18, <2>1, SoundMerged
  <2>4. ~batch.refresh
    BY <1>18 DEF MayMerge
  <2> QED
    BY <1>1, <1>2, <1>4, <1>7, <1>18, <2>2, <2>3, <2>4
       DEF SettleEffect, SameCandidate, SettleQueue, SettleInv, SeenInv, Settling, Published
<1>20. CASE proc.todo = "mismatch, queue off"
  <2>1. PICK w : w = AutoSet(batch, "off")
    OBVIOUS
  <2>2. v = w
    BY <1>20, <2>1 DEF v, Settled, AutoSet
  <2>3. /\ Sound(w) /\ SameCandidate(w, batch) /\ w.status = batch.status
        /\ w.state = batch.state /\ w.approval = batch.approval /\ w.revoked = batch.revoked
        /\ w.auto = "off" /\ w.refresh = batch.refresh /\ w.closing = batch.closing
        /\ w.change = batch.change
    BY <1>1, <1>20, <1>6, <2>1, SoundAuto
  <2> QED
    BY <1>1, <1>2, <1>3, <1>4, <1>5, <1>6, <1>7, <1>20, <2>2, <2>3
       DEF SettleEffect, SameCandidate, SettleQueue, SettleInv, SeenInv, Settling, Carrying, Published,
           MayBeQueued
<1>21. CASE proc.todo \in {"adopt", "adopt, queue off"}
  <2>0. ~batch.tracked /\ proc.cfg.policy \in {1, 2}
    BY <1>1, <1>7, <1>21 DEF SettleInv, Settling, Config
  <2>5. PICK p \in {1, 2} : p = proc.cfg.policy
    BY <2>0
  <2>1. PICK w : w = Adopted(batch, p)
    OBVIOUS
  <2>2. v = w
    BY <1>21, <2>1, <2>5 DEF v, Settled, Adopted
  <2>3. /\ Sound(w) /\ w.tracked /\ w.rev = 1 /\ w.base = batch.base /\ w.intent = batch.intent
        /\ w.url = batch.url /\ w.status = batch.status /\ w.state = "verifying"
        /\ w.approval = "none" /\ w.refresh = batch.refresh /\ w.change = batch.change
    <3>1. Sound(batch) /\ batch.status # "merged" /\ ~batch.tracked /\ p \in {1, 2}
      BY <1>1, <2>0, <2>5
    <3> QED
      BY <2>1, <3>1, SoundAdopted
  <2>4. batch.state = "verifying"
    BY <1>1, <2>0 DEF Sound, SoundUntracked
  <2> QED
    BY <1>1, <1>2, <1>3, <1>4, <1>6, <1>21, <2>0, <2>2, <2>3, <2>4
       DEF SettleEffect, SettleQueue, Sticky, Final
<1>22. CASE proc.todo \in {"stale", "stale, queue off"}
  <2>1. PICK w : w = [batch EXCEPT !.auto = "off", !.refresh = TRUE]
    OBVIOUS
  <2>2. v = w
    BY <1>22, <2>1 DEF v, Settled
  <2>3. /\ Sound(w) /\ SameCandidate(w, batch) /\ w.status = batch.status
        /\ w.state = batch.state /\ w.approval = batch.approval /\ w.revoked = batch.revoked
        /\ w.auto = "off" /\ w.refresh /\ w.closing = batch.closing
        /\ w.change = batch.change
    BY <1>1, <1>22, <1>6, <2>1, SoundStale
  <2>5. batch.base < proc.seen.tip
    BY <1>7, <1>22 DEF SettleInv, Settling
  <2>6. batch.base \in Int /\ proc.seen.tip \in Int /\ pr.tip \in Int
    BY <1>2 DEF Tip
  <2>4. batch.base < pr.tip
    BY <1>2, <2>5, <2>6
  <2> QED
    BY <2>4, <1>1, <1>2, <1>3, <1>4, <1>5, <1>6, <1>7, <1>22, <2>2, <2>3
       DEF SettleEffect, SameCandidate, SettleQueue, SettleInv, SeenInv, Settling, Carrying, Published,
           MayBeQueued
<1>23. CASE proc.todo = "observe"
  <2>0. PICK a \in {"off", "pending", "on"} : a = IF proc.seen.queued THEN "on" ELSE "off"
    OBVIOUS
  <2>1. PICK w : w = AutoSet(batch, a)
    OBVIOUS
  <2>2. v = w
    BY <1>23, <2>0, <2>1 DEF v, Settled, AutoSet
  <2>3. /\ Sound(w) /\ SameCandidate(w, batch) /\ w.status = batch.status /\ w.state = batch.state
        /\ w.approval = batch.approval /\ w.auto = a /\ w.refresh = batch.refresh
        /\ w.change = batch.change
    BY <1>1, <2>0, <2>1, SoundAuto
  <2> QED
    BY <1>1, <1>2, <1>3, <1>4, <1>6, <1>7, <1>23, <2>0, <2>2, <2>3
       DEF SettleEffect, SameCandidate, SettleQueue, SettleInv, Settling, Published, MayBeQueued
<1>24. CASE proc.todo = "changes"
  <2>0. batch.tracked
    BY <1>1, <1>7, <1>24 DEF SettleInv, Settling, Carrying, Sound, SoundUntracked
  <2>1. PICK w : w = [NoApproval(batch) EXCEPT !.state = "changes_requested", !.auto = "off",
                                                !.change = FALSE]
    OBVIOUS
  <2>2. v = w
    BY <1>24, <2>0, <2>1 DEF v, Settled
  <2>3. /\ Sound(w) /\ SameCandidate(w, batch) /\ w.status = batch.status
        /\ w.state = "changes_requested" /\ w.approval = "none" /\ ~w.revoked
        /\ w.auto = "off" /\ w.refresh = batch.refresh /\ w.closing = batch.closing
        /\ ~w.change
    BY <1>1, <1>24, <1>6, <2>0, <2>1, SoundChanges
  <2> QED
    BY <1>1, <1>2, <1>3, <1>4, <1>5, <1>6, <1>7, <1>24, <2>0, <2>2, <2>3
       DEF SettleEffect, SameCandidate, SettleQueue, SettleInv, SeenInv, Settling, Carrying, Published,
           MayBeQueued, Sticky
<1>25. CASE proc.todo = "changes, foreign"
  <2>0. batch.tracked
    BY <1>1, <1>7, <1>25 DEF SettleInv, Settling, Carrying, Sound, SoundUntracked
  <2>1. PICK w : w = [NoApproval(batch) EXCEPT !.status = "failed", !.state = "blocked", !.auto = "off",
                                                !.change = FALSE]
    OBVIOUS
  <2>2. v = w
    BY <1>25, <2>0, <2>1 DEF v, Settled
  <2>3. /\ Sound(w) /\ SameCandidate(w, batch) /\ w.status = "failed" /\ w.state = "blocked"
        /\ w.approval = "none" /\ ~w.revoked /\ w.auto = "off" /\ w.refresh = batch.refresh
        /\ w.closing = batch.closing /\ ~w.change
    BY <1>1, <1>25, <1>6, <2>0, <2>1, SoundForeign
  <2> QED
    BY <1>1, <1>2, <1>3, <1>4, <1>5, <1>6, <1>7, <1>25, <2>0, <2>2, <2>3
       DEF SettleEffect, SameCandidate, SettleQueue, SettleInv, SeenInv, Settling, Carrying, Published,
           MayBeQueued, Sticky
<1>26. CASE proc.todo = "refresh"
  <2>1. PICK w : w = [batch EXCEPT !.auto = "off", !.state = IF @ = "merging" THEN "approved" ELSE @]
    OBVIOUS
  <2>2. v = w
    BY <1>26, <2>1 DEF v, Settled
  <2>3. /\ Sound(w) /\ SameCandidate(w, batch) /\ w.status = batch.status
        /\ w.state = (IF batch.state = "merging" THEN "approved" ELSE batch.state)
        /\ w.approval = batch.approval /\ w.revoked = batch.revoked /\ w.auto = "off"
        /\ w.refresh = batch.refresh /\ w.closing = batch.closing /\ w.change = batch.change
    BY <1>1, <1>26, <1>6, <2>1, SoundRefreshOff
  <2> QED
    BY <1>1, <1>2, <1>3, <1>4, <1>5, <1>6, <1>7, <1>26, <2>2, <2>3
       DEF SettleEffect, SameCandidate, SettleQueue, SettleInv, SeenInv, Settling, Carrying, Published,
           MayBeQueued, Sticky, Final
<1>27. CASE \/ proc.todo \in {"keep", "mismatch"}
            \/ proc.todo \in {"closed", "changes, closed"} /\ (~MayClose(batch) \/ batch.status = "closed")
            \/ proc.todo = "merged" /\ ~MayMerge(batch, proc.cfg)
  <2>0. v = batch
    BY <1>27 DEF v, Settled, Closed
  <2>1. pr.queue = "broker" => proc.todo = "keep"
    BY <1>4, <1>27 DEF SettleQueue
  <2>2. proc.todo \in {"closed", "changes, closed"} => ~Published(batch)
    BY <1>1, <1>27 DEF MayClose, Published
  <2>3. proc.todo = "keep" /\ batch.tracked => batch.closing
    BY <1>7 DEF SettleInv, Settling
  <2>4. proc.todo = "merged" => (batch.tracked => batch.approval = "confirmed" /\ ~batch.revoked)
    BY <1>7 DEF SettleInv, Settling
  <2> QED
    BY <1>1, <1>2, <1>3, <1>4, <1>5, <1>6, <1>27, <2>0, <2>1, <2>2, <2>3, <2>4 DEF SettleEffect, Carrying
<1> QED
  <2>1. proc.todo \in Todo
    BY DEF IInv, TypeOK, Progress
  <2>2. CASE proc.todo \in {"violated", "violated, queue off", "late", "queue off", "untracked"}
    BY <2>2, <1>11, <1>12, <1>13
  <2>3. CASE proc.todo \in {"closed", "changes, closed"}
    BY <2>3, <1>14, <1>27
  <2>4. CASE proc.todo \in {"unauthorized", "revoke", "synced", "mismatch, queue off"}
    BY <2>4, <1>16, <1>17, <1>20
  <2>5. CASE proc.todo = "merged"
    BY <2>5, <1>18, <1>27
  <2>6. CASE proc.todo \in {"keep", "mismatch"}
    BY <2>6, <1>27
  <2>7. CASE proc.todo \in {"adopt", "adopt, queue off", "stale", "stale, queue off", "observe"}
    BY <2>7, <1>21, <1>22, <1>23
  <2>8. CASE proc.todo \in {"changes", "changes, foreign", "refresh"}
    BY <2>8, <1>24, <1>25, <1>26
  <2> QED
    BY <1>1, <2>1, <2>2, <2>3, <2>4, <2>5, <2>6, <2>7, <2>8 DEF Todo

-----------------------------------------------------------------------------
(* Steps: the parts of the invariant that most of them leave alone.        *)

\* Another record of the same candidate, which may only lose what the invariant asks for.
Keeps(v) ==
    /\ Sound(v)
    /\ v.rev = batch.rev /\ v.base = batch.base /\ v.intent = batch.intent
    /\ batch.url => v.url
    /\ v.status = "merged" => /\ batch.status = "merged"
                              /\ v.tracked = batch.tracked /\ v.approval = batch.approval
    /\ v.refresh => v.base < pr.tip \/ v.state \in Sticky

\* A move of the pull request that brings no revision the record does not know.
Drifts(q) ==
    /\ q \in PullRequest
    /\ q.st = "none" <=> q.opened = 0
    /\ q.opened <= 1
    /\ q.queue # "none" => q.st = "open"
    /\ pr.tip <= q.tip
    /\ pr.st = "merged" => q.st = "merged" /\ q.head = pr.head /\ q.proven = pr.proven
    /\ q.head = pr.head \/ q.head <= batch.rev

\* A live merge of the broker is recorded in v, and approved.
Queues(v, q) ==
    q.queue = "broker" => MayBeQueued(v) /\ Published(v) /\ (v.tracked => v.approval # "none")

LEMMA Standing ==
  ASSUME IInv
  PROVE  Keeps(batch) /\ Drifts(pr) /\ Queues(batch, pr) /\ pr.tip \in Tip /\ pr.tip \in Int
<1>1. pr \in PullRequest /\ pr.tip \in Tip /\ pr.tip \in Int
  BY DEF IInv, TypeOK, PullRequest, Tip
<1> QED
  BY <1>1 DEF IInv, QueueInv, PrInv, TipInv, Keeps, Drifts, Queues, Sound, SoundStatus

LEMMA Framed ==
  ASSUME IInv, Keeps(batch'), Drifts(pr'), Queues(batch', pr'), config' \in Configs,
         rec' = rec, rec # NotLooked => proc'.cmd = "none",
         moves' \in 0..MaxMoves, faults' \in 0..MaxFaults,
         proc' \in Progress, ProcInv',
         proc'.pc = "settle" => SettleQueue',
         proc'.pc \in {"close", "rejected", "retire"} => pr'.queue # "broker"
  PROVE  IInv'
<1>1. /\ batch.rev \in Int /\ batch.base \in Int /\ batch.intent.base \in Int
      /\ pr.tip \in Int /\ pr'.tip \in Int /\ pr.head \in Int /\ pr'.head \in Int
  <2>1. batch \in BatchRecord /\ pr \in PullRequest /\ pr' \in PullRequest
    BY DEF IInv, TypeOK, Drifts
  <2>2. batch.rev \in Rev /\ batch.base \in Tip /\ batch.intent \in Binding \cup {NoIntent}
    BY <2>1 DEF BatchRecord
  <2>3. batch.intent.base \in Tip \cup {1}
    BY <2>2 DEF Binding, NoIntent
  <2>4. pr.tip \in Tip /\ pr'.tip \in Tip /\ pr.head \in {Foreign} \cup Rev /\ pr'.head \in {Foreign} \cup Rev
    BY <2>1 DEF PullRequest
  <2> QED
    BY <2>2, <2>3, <2>4 DEF Tip, Rev, Foreign
<1>2. TypeOK'
  BY DEF TypeOK, IInv, Keeps, Sound, SoundStatus, Drifts, Published
<1>3. QueueInv' /\ PrInv'
  BY DEF QueueInv, PrInv, Queues, Drifts, MayBeQueued, Published
<1>4. HeadInv' /\ RecInv'
  BY <1>1 DEF IInv, HeadInv, RecInv, Keeps, Drifts
<1>5. MergedIsProven'
  BY DEF IInv, MergedIsProven, Keeps, Drifts
<1>6. TipInv'
  BY <1>1 DEF IInv, TipInv, Keeps, Drifts
<1> QED
  BY <1>2, <1>3, <1>4, <1>5, <1>6 DEF IInv, Keeps

LEMMA IdleType == Idle \in Progress /\ Idle.seen \in Seen
<1>1. 1 \in Tip /\ First \in Configs
  BY ApprovalAssumption DEF Tip, ApprovalAssumption
<1>2. NoPullRequest.st = "none" /\ NoPullRequest.head = Foreign /\ NoPullRequest.tip = 1
      /\ NoPullRequest.queue = "none" /\ NoPullRequest.checks = "pending"
      /\ NoPullRequest.review = "none" /\ NoPullRequest.proven = FALSE
  BY DEF NoPullRequest
<1>3. Snapshot(NoPullRequest) \in Seen
  BY <1>1, <1>2 DEF Snapshot, Seen
<1> QED
  BY <1>1, <1>3 DEF Idle, Progress, AllCommands, Phases, Todo

LEMMA IdleFields ==
  /\ Idle.cmd = "none" /\ Idle.pc = "idle" /\ Idle.cfg = First /\ Idle.stage = 1
  /\ Idle.todo = "none" /\ Idle.ok = FALSE /\ Idle.arg = NoIntent
  /\ Idle.seen.st = "none" /\ Idle.seen.tip = 1
  BY DEF Idle, Snapshot, NoPullRequest

LEMMA Ended ==
  ASSUME proc' = Idle, pr'.tip \in Tip
  PROVE  proc' \in Progress /\ ProcInv' /\ proc'.pc = "idle" /\ proc'.cmd = "none"
<1>1. /\ proc'.cmd = "none" /\ proc'.pc = "idle" /\ proc'.seen.st = "none" /\ proc'.seen.tip = 1
      /\ proc' \in Progress
  BY IdleFields, IdleType
<1>2. 1 <= pr'.tip
  BY DEF Tip
<1> QED
  BY <1>1, <1>2 DEF ProcInv, PhaseInv, SettleInv, AttemptInv, ClearInv, SeenInv, Settling, Attempting

\* A command that starts reads the configuration and works alone.
LEMMA Begun ==
  ASSUME IInv, NEW cmd \in AllCommands, NEW pc \in Phases, NEW arg \in Binding \cup {NoIntent},
         Begin(cmd, pc, arg)
  PROVE  /\ proc' \in Progress
         /\ proc'.cmd = cmd /\ proc'.pc = pc /\ proc'.cfg = config /\ proc'.arg = arg
         /\ proc'.stage = 1 /\ proc'.todo = "none" /\ proc'.seen.st = "none" /\ proc'.seen.tip = 1
         /\ proc.cmd = "none" /\ proc.pc = "idle" /\ batch.intent = NoIntent /\ rec = NotLooked
<1>1. proc' = [Idle EXCEPT !.cmd = cmd, !.pc = pc, !.cfg = config, !.arg = arg]
  BY DEF Begin
<1>2. config \in Configs
  BY DEF IInv, TypeOK
<1>3. proc' \in Progress
  BY <1>1, <1>2, IdleType DEF Progress
<1>4. /\ proc'.cmd = cmd /\ proc'.pc = pc /\ proc'.cfg = config /\ proc'.arg = arg
      /\ proc'.stage = Idle.stage /\ proc'.todo = Idle.todo /\ proc'.seen = Idle.seen
  BY <1>1, IdleType DEF Progress
<1>5. proc.cmd = "none" /\ proc.pc = "idle" /\ batch.intent = NoIntent /\ rec = NotLooked
  BY DEF Begin, At, IInv, ProcInv, PhaseInv, RecInv
<1> QED
  BY <1>3, <1>4, <1>5, IdleFields

LEMMA Going ==
  ASSUME proc \in Progress, NEW pc \in Phases, Goto(pc)
  PROVE  /\ proc' \in Progress /\ proc'.cmd = proc.cmd /\ proc'.pc = pc /\ proc'.cfg = proc.cfg
         /\ proc'.seen = proc.seen /\ proc'.stage = proc.stage /\ proc'.todo = proc.todo
         /\ proc'.ok = proc.ok /\ proc'.arg = proc.arg
  BY DEF Goto, Progress

LEMMA Busy ==
  ASSUME IInv, proc.pc # "idle"
  PROVE  proc \in Progress /\ proc.cmd # "none" /\ rec = NotLooked
  BY DEF IInv, TypeOK, ProcInv, PhaseInv, RecInv

-----------------------------------------------------------------------------
(* What happens around the broker.                                         *)

LEMMA Watching ==
  ASSUME IInv, UNCHANGED <<batch, config, proc, rec, faults>>, moves' \in 0..MaxMoves,
         Drifts(pr'), pr'.queue = "broker" => pr.queue = "broker"
  PROVE  IInv'
<1>1. Keeps(batch') /\ Queues(batch', pr')
  BY Standing DEF Queues, Keeps
<1>2. config' \in Configs /\ faults' \in 0..MaxFaults /\ proc' \in Progress
  BY DEF IInv, TypeOK
<1>3. rec' = rec /\ (rec # NotLooked => proc'.cmd = "none")
  BY DEF IInv, RecInv
<1>4. proc.seen.tip \in Int /\ pr.tip \in Int /\ pr'.tip \in Int
  <2>1. proc \in Progress /\ pr \in PullRequest /\ pr' \in PullRequest
    BY DEF IInv, TypeOK, Drifts
  <2>2. proc.seen.tip \in Tip /\ pr.tip \in Tip /\ pr'.tip \in Tip
    BY <2>1 DEF Progress, Seen, PullRequest
  <2> QED
    BY <2>2 DEF Tip
<1>5. SeenInv'
  BY <1>4 DEF IInv, ProcInv, SeenInv, Drifts
<1>6. PhaseInv' /\ SettleInv' /\ AttemptInv' /\ ClearInv'
  <2>1. PhaseInv'
    BY DEF IInv, ProcInv, PhaseInv, Published, Bound
  <2>2. SettleInv'
    BY DEF IInv, ProcInv, SettleInv, Invalidated, PolicyCurrent, ActorCurrent
  <2>3. AttemptInv'
    BY DEF IInv, ProcInv, AttemptInv, Published
  <2>4. ClearInv'
    BY DEF IInv, ProcInv, ClearInv
  <2> QED
    BY <2>1, <2>2, <2>3, <2>4
<1>7. /\ proc'.pc = "settle" => SettleQueue'
      /\ proc'.pc \in {"close", "rejected", "retire"} => pr'.queue # "broker"
  BY DEF IInv, QueueInv, SettleQueue, Invalidated, PolicyCurrent, ActorCurrent
<1> QED
  BY <1>1, <1>2, <1>3, <1>5, <1>6, <1>7, Framed DEF ProcInv

\* A pull request of which one or two fields changed.
LEMMA Landing ==
  ASSUME IInv, pr.st = "open", pr' = Land(pr)
  PROVE  /\ Drifts(pr') /\ pr'.queue = "none" /\ pr'.st = "merged" /\ pr'.head = pr.head
         /\ pr'.tip = pr.tip
<1>1. pr \in PullRequest /\ Drifts(pr) /\ pr.tip \in Int
  BY Standing DEF Drifts
<1>2. PICK x \in BOOLEAN : x = (pr.head = batch.rev /\ pr.tip = batch.base)
  OBVIOUS
<1>3. pr' = [pr EXCEPT !.st = "merged", !.queue = "none", !.proven = x]
  BY <1>2 DEF Land
<1>4. /\ pr' \in PullRequest /\ pr'.st = "merged" /\ pr'.queue = "none" /\ pr'.opened = pr.opened
      /\ pr'.tip = pr.tip /\ pr'.head = pr.head
  BY <1>1, <1>3 DEF PullRequest
<1> QED
  BY <1>1, <1>4 DEF Drifts

LEMMA AroundSafe ==
  ASSUME IInv, Around
  PROVE  IInv'
<1>1. pr \in PullRequest /\ Drifts(pr) /\ pr.tip \in Tip /\ pr.tip \in Int
  BY Standing DEF Drifts
<1>2. MaxMoves \in Nat /\ MaxTip \in Nat /\ moves \in 0..MaxMoves
  BY ApprovalAssumption DEF IInv, TypeOK, ApprovalAssumption
<1>3. \A name : Move(name) => UNCHANGED <<batch, config, proc, rec, faults>> /\ moves' \in 0..MaxMoves
  BY <1>2 DEF Move, Quiet
<1>4. Quiet /\ UNCHANGED moves => UNCHANGED <<batch, config, proc, rec, faults>> /\ moves' \in 0..MaxMoves
  BY <1>2 DEF Quiet
<1>5. ASSUME NEW verdict \in {"passed", "failed"}, ChecksReport(verdict)
      PROVE  IInv'
  <2>1. pr' = [pr EXCEPT !.checks = verdict]
    BY <1>5 DEF ChecksReport
  <2>2. /\ pr' \in PullRequest /\ pr'.st = pr.st /\ pr'.head = pr.head /\ pr'.tip = pr.tip
        /\ pr'.queue = pr.queue /\ pr'.proven = pr.proven /\ pr'.opened = pr.opened
    BY <1>1, <2>1 DEF PullRequest
  <2> QED
    BY <1>1, <1>4, <1>5, <2>2, Watching DEF Drifts, ChecksReport
<1>6. CASE QueueMerges
  <2>1. pr.st = "open" /\ pr' = Land(pr)
    BY <1>6 DEF QueueMerges, Clean
  <2> QED
    BY <1>4, <1>6, <2>1, Landing, Watching DEF QueueMerges
<1>7. CASE BaseMoves
  <2>1. pr' = [pr EXCEPT !.tip = pr.tip + 1] /\ pr.tip + 1 \in Tip
    BY <1>1, <1>2, <1>7 DEF BaseMoves, Tip
  <2>2. /\ pr' \in PullRequest /\ pr'.st = pr.st /\ pr'.head = pr.head /\ pr'.tip = pr.tip + 1
        /\ pr'.queue = pr.queue /\ pr'.proven = pr.proven /\ pr'.opened = pr.opened
    BY <1>1, <2>1 DEF PullRequest
  <2> QED
    BY <1>1, <1>3, <1>7, <2>2, Watching DEF Drifts, BaseMoves
<1>8. CASE HeadMoves
  <2>0. batch.rev \in Rev
    BY DEF IInv, TypeOK, BatchRecord
  <2>1. PICK h \in {Foreign} \cup Rev :
            h = (IF pr.head = Foreign THEN batch.rev ELSE Foreign) /\ h <= batch.rev
    BY <2>0 DEF Foreign, Rev
  <2>2. pr' = [pr EXCEPT !.head = h, !.checks = "pending"] /\ pr.st = "open"
    BY <1>8, <2>1 DEF HeadMoves
  <2>3. /\ pr' \in PullRequest /\ pr'.st = pr.st /\ pr'.head = h /\ pr'.tip = pr.tip
        /\ pr'.queue = pr.queue /\ pr'.proven = pr.proven /\ pr'.opened = pr.opened
    BY <1>1, <2>2 DEF PullRequest
  <2> QED
    BY <1>1, <1>3, <1>8, <2>1, <2>2, <2>3, Watching DEF Drifts, HeadMoves
<1>9. CASE ChecksRestart
  <2>1. pr' = [pr EXCEPT !.checks = "pending"]
    BY <1>9 DEF ChecksRestart
  <2>2. /\ pr' \in PullRequest /\ pr'.st = pr.st /\ pr'.head = pr.head /\ pr'.tip = pr.tip
        /\ pr'.queue = pr.queue /\ pr'.proven = pr.proven /\ pr'.opened = pr.opened
    BY <1>1, <2>1 DEF PullRequest
  <2> QED
    BY <1>1, <1>3, <1>9, <2>2, Watching DEF Drifts, ChecksRestart
<1>10. ASSUME NEW verdict \in {"none", "rejected", "conflict"}, ReviewChanges(verdict)
       PROVE  IInv'
  <2>1. pr' = [pr EXCEPT !.review = verdict]
    BY <1>10 DEF ReviewChanges
  <2>2. /\ pr' \in PullRequest /\ pr'.st = pr.st /\ pr'.head = pr.head /\ pr'.tip = pr.tip
        /\ pr'.queue = pr.queue /\ pr'.proven = pr.proven /\ pr'.opened = pr.opened
    BY <1>1, <2>1 DEF PullRequest
  <2> QED
    BY <1>1, <1>3, <1>10, <2>2, Watching DEF Drifts, ReviewChanges
<1>11. CASE SomebodyMerges
  BY <1>3, <1>11, Landing, Watching DEF SomebodyMerges
<1>12. CASE SomebodyCloses
  <2>1. pr' = [pr EXCEPT !.st = "closed", !.queue = "none", !.by = "reviewer"] /\ pr.st = "open"
    BY <1>12 DEF SomebodyCloses
  <2>2. /\ pr' \in PullRequest /\ pr'.st = "closed" /\ pr'.head = pr.head /\ pr'.tip = pr.tip
        /\ pr'.queue = "none" /\ pr'.proven = pr.proven /\ pr'.opened = pr.opened
    BY <1>1, <2>1 DEF PullRequest
  <2> QED
    BY <1>1, <1>3, <1>12, <2>1, <2>2, Watching DEF Drifts, SomebodyCloses
<1>13. CASE SomebodyReopens
  <2>1. pr' = [pr EXCEPT !.st = "open"] /\ pr.st = "closed"
    BY <1>13 DEF SomebodyReopens
  <2>2. /\ pr' \in PullRequest /\ pr'.st = "open" /\ pr'.head = pr.head /\ pr'.tip = pr.tip
        /\ pr'.queue = pr.queue /\ pr'.proven = pr.proven /\ pr'.opened = pr.opened
    BY <1>1, <2>1 DEF PullRequest
  <2> QED
    BY <1>1, <1>3, <1>13, <2>1, <2>2, Watching DEF Drifts, SomebodyReopens
<1>14. CASE SomebodyQueues
  <2>0. PICK x \in {"none", "human"} : x = IF pr.queue = "none" THEN "human" ELSE "none"
    OBVIOUS
  <2>1. pr' = [pr EXCEPT !.queue = x] /\ pr.st = "open"
    BY <1>14, <2>0 DEF SomebodyQueues
  <2>2. /\ pr' \in PullRequest /\ pr'.st = "open" /\ pr'.head = pr.head /\ pr'.tip = pr.tip
        /\ pr'.queue = x /\ pr'.proven = pr.proven /\ pr'.opened = pr.opened
    BY <1>1, <2>1 DEF PullRequest
  <2> QED
    BY <1>1, <1>3, <1>14, <2>1, <2>2, Watching DEF Drifts, SomebodyQueues
<1>15. CASE LeaseExpires
  <2>1. PICK w : w = [batch EXCEPT !.lease = FALSE]
    OBVIOUS
  <2>2. batch' = w /\ UNCHANGED <<config, pr, proc, rec, faults>> /\ moves' \in 0..MaxMoves
    BY <1>2, <1>15, <2>1 DEF LeaseExpires
  <2>3. Sound(batch)
    BY DEF IInv
  <2>4. /\ Sound(w) /\ SameCandidate(w, batch) /\ w.status = batch.status /\ w.state = batch.state
        /\ w.approval = batch.approval /\ w.revoked = batch.revoked /\ w.auto = batch.auto
        /\ w.refresh = batch.refresh /\ w.closing = batch.closing /\ w.change = batch.change
    BY <2>1, <2>3, SoundExpired
  <2>5. Keeps(batch') /\ Queues(batch', pr') /\ Drifts(pr')
    BY <2>2, <2>4, Standing DEF Keeps, Queues, SameCandidate, MayBeQueued, Published, Drifts
  <2>6. ProcInv'
    <3>1. PhaseInv'
      BY <2>2, <2>4 DEF SameCandidate, IInv, ProcInv, PhaseInv, Published, Bound
    <3>2. SettleInv'
      BY <2>2, <2>4 DEF SameCandidate, IInv, ProcInv, SettleInv, Invalidated, PolicyCurrent, ActorCurrent
    <3>3. AttemptInv' /\ ClearInv' /\ SeenInv'
      BY <2>2, <2>4 DEF SameCandidate, IInv, ProcInv, AttemptInv, ClearInv, SeenInv, Published
    <3> QED
      BY <3>1, <3>2, <3>3 DEF ProcInv
  <2>7. /\ proc'.pc = "settle" => SettleQueue'
        /\ proc'.pc \in {"close", "rejected", "retire"} => pr'.queue # "broker"
    BY <2>2, <2>4 DEF SameCandidate, IInv, QueueInv, SettleQueue, Invalidated, PolicyCurrent, ActorCurrent
  <2>8. config' \in Configs /\ faults' \in 0..MaxFaults /\ proc' \in Progress
        /\ (rec # NotLooked => proc'.cmd = "none")
    BY <2>2 DEF IInv, TypeOK, RecInv
  <2> QED
    BY <2>2, <2>5, <2>6, <2>7, <2>8, Framed
<1>16. ASSUME NEW c \in Configs, ConfigChanges(c)
       PROVE  IInv'
  <2>1. UNCHANGED <<batch, pr, proc, rec, faults>> /\ config' \in Configs /\ moves' \in 0..MaxMoves
    BY <1>2, <1>16 DEF ConfigChanges
  <2>2. Keeps(batch') /\ Queues(batch', pr') /\ Drifts(pr')
    BY <2>1, Standing DEF Keeps, Queues, Drifts
  <2>3. ProcInv'
    <3>1. PhaseInv'
      BY <2>1 DEF IInv, ProcInv, PhaseInv, Published, Bound
    <3>2. SettleInv'
      BY <2>1 DEF IInv, ProcInv, SettleInv, Invalidated, PolicyCurrent, ActorCurrent
    <3>3. AttemptInv' /\ ClearInv' /\ SeenInv'
      BY <2>1 DEF IInv, ProcInv, AttemptInv, ClearInv, SeenInv, Published
    <3> QED
      BY <3>1, <3>2, <3>3 DEF ProcInv
  <2>4. /\ proc'.pc = "settle" => SettleQueue'
        /\ proc'.pc \in {"close", "rejected", "retire"} => pr'.queue # "broker"
    BY <2>1 DEF IInv, QueueInv, SettleQueue, Invalidated, PolicyCurrent, ActorCurrent
  <2>5. faults' \in 0..MaxFaults /\ proc' \in Progress /\ (rec # NotLooked => proc'.cmd = "none")
    BY <2>1 DEF IInv, TypeOK, RecInv
  <2> QED
    BY <2>1, <2>2, <2>3, <2>4, <2>5, Framed
<1> QED
  BY <1>5, <1>6, <1>7, <1>8, <1>9, <1>10, <1>11, <1>12, <1>13, <1>14, <1>15, <1>16 DEF Around

-----------------------------------------------------------------------------
(* Commands.                                                               *)

LEMMA Starting ==
  ASSUME IInv, NEW cmd \in AllCommands \ {"revise"},
         NEW pc \in {"inspect", "change", "fresh", "look", "evidence", "target"},
         NEW arg \in Binding \cup {NoIntent}, Begin(cmd, pc, arg), Local,
         batch.status # "merged",
         pc = "change" => batch.change,
         pc = "fresh" => cmd = "publish" /\ batch.status \in {"prepared", "published"},
         pc = "look" => /\ cmd = "approve" /\ arg = Bound(batch) /\ batch.tracked /\ Published(batch)
                        /\ batch.state \in Approvable,
         pc = "evidence" => batch.tracked /\ Published(batch),
         pc = "target" => cmd = "refresh",
         cmd = "publish" => ~batch.change,
         cmd = "approve" => pc # "inspect"
  PROVE  IInv'
<1>1. pc \in Phases
  BY DEF Phases
<1>2. /\ proc' \in Progress /\ proc'.cmd = cmd /\ proc'.pc = pc /\ proc'.arg = arg
      /\ proc'.todo = "none" /\ proc'.seen.st = "none" /\ proc'.seen.tip = 1
      /\ batch.intent = NoIntent /\ rec = NotLooked
  BY <1>1, Begun
<1>3. batch' = batch /\ config' = config /\ pr' = pr /\ rec' = rec /\ moves' = moves /\ faults' = faults
  BY DEF Local
<1>4. config' \in Configs /\ moves' \in 0..MaxMoves /\ faults' \in 0..MaxFaults
  BY <1>3 DEF IInv, TypeOK
<1>5. Keeps(batch') /\ Drifts(pr') /\ Queues(batch', pr') /\ 1 <= pr'.tip
  BY <1>3, Standing DEF Keeps, Drifts, Queues, Tip
<1>6. cmd # "none"
  BY DEF AllCommands
<1>7. ProcInv'
  <2>1. PhaseInv'
    BY <1>2, <1>3, <1>6 DEF PhaseInv, Bound, Published
  <2>2. SettleInv' /\ AttemptInv' /\ SeenInv'
    BY <1>2, <1>5 DEF SettleInv, AttemptInv, SeenInv, Settling, Attempting
  <2>3. ClearInv'
    BY <1>2, <1>3 DEF ClearInv, Settling
  <2> QED
    BY <2>1, <2>2, <2>3 DEF ProcInv
<1> QED
  BY <1>2, <1>3, <1>4, <1>5, <1>7, Framed

LEMMA ReviseStartSafe ==
  ASSUME IInv, ReviseStart
  PROVE  IInv'
<1>1. /\ proc' \in Progress /\ proc'.cmd = "revise" /\ proc'.pc = "build"
      /\ proc'.todo = "none" /\ proc'.seen.st = "none" /\ proc'.seen.tip = 1
      /\ batch.intent = NoIntent /\ rec = NotLooked
  BY Begun DEF ReviseStart, AllCommands, Phases
<1>2. /\ batch' = batch /\ config' = config /\ pr' = pr /\ rec' = rec /\ moves' = moves /\ faults' = faults
      /\ batch.tracked /\ batch.status \in {"prepared", "published"} /\ batch.rev < MaxRev
  BY DEF ReviseStart, Local
<1>3. config' \in Configs /\ moves' \in 0..MaxMoves /\ faults' \in 0..MaxFaults
  BY <1>2 DEF IInv, TypeOK
<1>4. Keeps(batch') /\ Drifts(pr') /\ Queues(batch', pr') /\ 1 <= pr'.tip
  <2>1. Keeps(batch) /\ Drifts(pr) /\ Queues(batch, pr) /\ 1 <= pr.tip
    BY Standing DEF Tip
  <2> QED
    BY <1>2, <2>1 DEF Keeps, Drifts, Queues
<1>5. ProcInv'
  <2>1. PhaseInv'
    BY <1>1, <1>2 DEF PhaseInv
  <2>2. SettleInv' /\ AttemptInv' /\ SeenInv' /\ ClearInv'
    BY <1>1, <1>4 DEF SettleInv, AttemptInv, SeenInv, ClearInv, Settling, Attempting
  <2> QED
    BY <2>1, <2>2 DEF ProcInv
<1> QED
  BY <1>1, <1>2, <1>3, <1>4, <1>5, Framed

\* A transaction of a command that is done, or was never under way.
LEMMA Recorded ==
  ASSUME IInv, NEW v, Record(v), Keeps(v), Queues(v, pr),
         rec # NotLooked => proc'.cmd = "none",
         \/ proc' = Idle
         \/ proc' \in Progress /\ ProcInv' /\ proc'.pc \notin {"settle", "close", "rejected", "retire"}
  PROVE  IInv'
<1>1. /\ batch' = v /\ config' = config /\ pr' = pr /\ rec' = rec /\ moves' = moves
      /\ faults' = faults
  BY DEF Record, World
<1>2. /\ config' \in Configs /\ moves' \in 0..MaxMoves /\ faults' \in 0..MaxFaults
      /\ Keeps(batch') /\ Drifts(pr') /\ Queues(batch', pr') /\ pr'.tip \in Tip
  BY <1>1, Standing DEF IInv, TypeOK, Keeps, Drifts, Queues
<1>3. proc' \in Progress /\ ProcInv' /\ proc'.pc \notin {"settle", "close", "rejected", "retire"}
  BY <1>2, Ended
<1> QED
  BY <1>1, <1>2, <1>3, Framed

\* While no command is under way, a record may change without one.
LEMMA IdleKept ==
  ASSUME IInv, proc.pc = "idle", UNCHANGED <<proc, pr>>
  PROVE  proc' \in Progress /\ ProcInv' /\ proc'.pc = "idle" /\ proc'.cmd = "none"
<1>1. proc.cmd = "none" /\ proc \in Progress
  BY DEF IInv, TypeOK, ProcInv, PhaseInv
<1> QED
  BY <1>1 DEF IInv, ProcInv, PhaseInv, SettleInv, AttemptInv, ClearInv, SeenInv, Settling, Attempting

LEMMA RequestSafe ==
  ASSUME IInv, NEW arg \in Binding, RequestChanges(arg)
  PROVE  IInv'
<1>1. /\ proc' \in Progress /\ proc'.cmd = "request" /\ proc'.pc = "change"
      /\ proc'.todo = "none" /\ proc'.seen.st = "none" /\ proc'.seen.tip = 1
      /\ batch.intent = NoIntent /\ rec = NotLooked
  BY Begun DEF RequestChanges, AllCommands, Phases
<1>2. PICK w : w = [batch EXCEPT !.change = TRUE]
  OBVIOUS
<1>3. Record(w)
  BY <1>2 DEF RequestChanges
<1>4. Sound(batch) /\ batch.tracked /\ batch.status # "merged"
  BY DEF IInv, RequestChanges, InReview, Published, Sound, SoundUntracked, SoundStatus
<1>5. /\ Sound(w) /\ SameCandidate(w, batch) /\ w.status = batch.status /\ w.state = batch.state
      /\ w.approval = batch.approval /\ w.revoked = batch.revoked /\ w.auto = batch.auto
      /\ w.refresh = batch.refresh /\ w.closing = batch.closing /\ w.change
  BY <1>2, <1>4, SoundRequested
<1>6. Keeps(w) /\ Queues(w, pr)
  BY <1>5, Standing DEF Keeps, Queues, SameCandidate, MayBeQueued, Published
<1>7. batch' = w /\ pr' = pr /\ 1 <= pr'.tip
  BY <1>3, Standing DEF Record, World, Tip
<1>8. ProcInv'
  <2>1. PhaseInv'
    BY <1>1, <1>4, <1>5, <1>7 DEF PhaseInv, SameCandidate
  <2>2. SettleInv' /\ AttemptInv' /\ SeenInv' /\ ClearInv'
    BY <1>1, <1>7 DEF SettleInv, AttemptInv, SeenInv, ClearInv, Settling, Attempting
  <2> QED
    BY <2>1, <2>2 DEF ProcInv
<1> QED
  BY <1>1, <1>3, <1>6, <1>8, Recorded

LEMMA ReopenSafe ==
  ASSUME IInv, ReopenTask
  PROVE  IInv'
<1>1. /\ proc.pc = "idle" /\ batch.tracked /\ batch.status \in {"prepared", "published"}
      /\ batch.intent = NoIntent /\ ~MayBeQueued(batch) /\ Sound(batch)
      /\ proc' = proc /\ pr' = pr /\ rec = NotLooked
  BY DEF ReopenTask, At, IInv, Record, World, RecInv
<1>2. PICK w : w = [NoApproval(batch) EXCEPT !.lease = TRUE, !.state = "changes_requested"]
  OBVIOUS
<1>3. Record(w)
  BY <1>2 DEF ReopenTask
<1>4. /\ Sound(w) /\ SameCandidate(w, batch) /\ w.status = batch.status
      /\ w.state = "changes_requested" /\ w.refresh = batch.refresh
  BY <1>1, <1>2, SoundReopened
<1>5. Keeps(w) /\ Queues(w, pr)
  BY <1>1, <1>4, Standing DEF Keeps, Queues, SameCandidate, Sticky
<1>6. proc' \in Progress /\ ProcInv' /\ proc'.pc = "idle"
  BY <1>1, IdleKept
<1> QED
  BY <1>1, <1>3, <1>5, <1>6, Recorded

\* Closing what is not queued.
LEMMA ClosedKept ==
  ASSUME IInv, MayClose(batch), pr.queue # "broker", batch.status # "merged"
  PROVE  Keeps(Closed(batch)) /\ Queues(Closed(batch), pr)
<1>1. CASE batch.status = "closed"
  <2>1. Closed(batch) = batch
    BY <1>1 DEF Closed
  <2> QED
    BY <2>1, Standing
<1>2. CASE batch.status # "closed"
  <2>1. PICK w : w = Closed(batch)
    OBVIOUS
  <2>2. Sound(batch) /\ batch.intent = NoIntent /\ batch.status \notin {"merged", "closed"}
    BY <1>2 DEF IInv, MayClose
  <2>3. Sound(w) /\ SameCandidate(w, batch) /\ w.status = "closed" /\ ~w.refresh
    BY <2>1, <2>2, SoundClosed
  <2>4. Keeps(w) /\ Queues(w, pr)
    BY <2>3 DEF Keeps, Queues, SameCandidate
  <2> QED
    BY <2>1, <2>4
<1> QED
  BY <1>1, <1>2

LEMMA CloseSafe ==
  ASSUME IInv, CloseStart
  PROVE  IInv'
<1>1. NoIntent \in Binding \cup {NoIntent} /\ "close" \in AllCommands \ {"revise"}
  BY DEF AllCommands
<1>2. CASE batch.url
  <2>1. Begin("close", "inspect", NoIntent) /\ Local /\ batch.status # "merged"
    BY <1>2 DEF CloseStart
  <2> QED
    BY <1>1, <2>1, Starting
<1>3. CASE ~batch.url
  <2>1. /\ proc.pc = "idle" /\ ~MayBeQueued(batch) /\ MayClose(batch) /\ Record(Closed(batch))
        /\ proc' = proc /\ pr' = pr
    BY <1>3 DEF CloseStart, At, Record, World
  <2>2. pr.queue # "broker" /\ batch.status # "merged" /\ rec = NotLooked
    BY <2>1 DEF IInv, QueueInv, MayClose, RecInv
  <2>3. Keeps(Closed(batch)) /\ Queues(Closed(batch), pr)
    BY <2>1, <2>2, ClosedKept
  <2>4. proc' \in Progress /\ ProcInv' /\ proc'.pc = "idle"
    BY <2>1, IdleKept
  <2> QED
    BY <2>1, <2>2, <2>3, <2>4, Recorded
<1> QED
  BY <1>2, <1>3

\* The one transaction outside sync that records a merge.
LEMMA CompleteSafe ==
  ASSUME IInv, Complete
  PROVE  IInv'
<1>1. /\ proc.pc = "idle" /\ MayMerge(batch, config) /\ Sound(batch) /\ proc' = proc
      /\ pr.st = "merged" /\ pr.head = batch.rev /\ pr.proven
      /\ Record(Merged(batch)) /\ batch.intent = NoIntent /\ rec = NotLooked
  BY DEF Complete, At, IInv, MayMerge, RecInv
<1>2. PICK w : w = Merged(batch)
  OBVIOUS
<1>3. /\ Sound(w) /\ SameCandidate(w, batch) /\ w.status = "merged"
      /\ w.approval = batch.approval /\ w.refresh = batch.refresh /\ w.change = batch.change
  BY <1>1, <1>2, SoundMerged
<1>4. batch.tracked => batch.approval = "confirmed"
  BY <1>1 DEF MayMerge
<1>5. ~batch.refresh
  BY <1>1 DEF MayMerge
<1>6. /\ batch' = w /\ pr' = pr /\ config' = config /\ rec' = rec /\ moves' = moves /\ faults' = faults
  BY <1>1, <1>2 DEF Record, World
<1>7. proc' \in Progress /\ ProcInv' /\ proc'.pc = "idle" /\ proc'.cmd = "none"
  BY <1>1, <1>6, IdleKept
<1>8. pr.queue # "broker"
  BY <1>1 DEF IInv, PrInv
<1>9. TypeOK'
  BY <1>3, <1>6, <1>7 DEF IInv, TypeOK, Sound, Published
<1>10. QueueInv' /\ PrInv' /\ MergedIsProven'
  BY <1>1, <1>3, <1>4, <1>6, <1>7, <1>8 DEF IInv, QueueInv, PrInv, MergedIsProven, SameCandidate
<1>11. HeadInv' /\ RecInv' /\ TipInv'
  BY <1>1, <1>3, <1>5, <1>6 DEF IInv, HeadInv, RecInv, TipInv, SameCandidate
<1> QED
  BY <1>3, <1>6, <1>7, <1>9, <1>10, <1>11 DEF IInv

LEMMA CommandSafe ==
  ASSUME IInv, Command
  PROVE  IInv'
<1>1. NoIntent \in Binding \cup {NoIntent} /\ AllCommands \ {"revise"} =
        {"sync", "publish", "refresh", "approve", "verify", "request", "reopen", "recover", "close", "complete"}
  BY DEF AllCommands
<1>2. CASE SyncStart
  <2>1. PICK pc : pc = SyncEntry
    OBVIOUS
  <2>2. pc \in {"inspect", "change"} /\ (pc = "change" => batch.change)
    BY <2>1 DEF SyncEntry
  <2>3. Begin("sync", pc, NoIntent) /\ Local /\ batch.status # "merged"
    BY <1>2, <2>1 DEF SyncStart
  <2> QED
    BY <1>1, <2>2, <2>3, Starting
<1>3. CASE PublishStart
  <2>1. PICK pc \in {"inspect", "fresh"} : pc = IF Published(batch) THEN "inspect" ELSE "fresh"
    OBVIOUS
  <2>2. Begin("publish", pc, NoIntent) /\ Local /\ ~batch.change /\ batch.status \in {"prepared", "published"}
    BY <1>3, <2>1 DEF PublishStart, MayPublish
  <2> QED
    BY <1>1, <2>2, Starting
<1>4. CASE RefreshStart
  <2>1. PICK pc \in {"inspect", "target"} : pc = IF Published(batch) THEN "inspect" ELSE "target"
    OBVIOUS
  <2>2. Begin("refresh", pc, NoIntent) /\ Local /\ batch.status \in {"prepared", "published"}
    BY <1>4, <2>1 DEF RefreshStart
  <2> QED
    BY <1>1, <2>2, Starting
<1>5. ASSUME NEW arg \in Binding, VerifyStart(arg)
      PROVE  IInv'
  <2>1. Begin("verify", "evidence", arg) /\ Local /\ Published(batch) /\ batch.tracked
    BY <1>5 DEF VerifyStart, InReview
  <2> QED
    BY <1>1, <2>1, Starting DEF Published
<1>6. ASSUME NEW arg \in Binding, ApproveStart(arg)
      PROVE  IInv'
  <2>1. /\ Begin("approve", "look", arg) /\ Local /\ Published(batch) /\ batch.tracked
        /\ arg = Bound(batch) /\ batch.state \in Approvable
    BY <1>6 DEF ApproveStart, InReview, Binds
  <2> QED
    BY <1>1, <2>1, Starting DEF Published
<1> QED
  BY <1>2, <1>3, <1>4, <1>5, <1>6, ReviseStartSafe, RequestSafe, ReopenSafe, CloseSafe, CompleteSafe DEF Command

-----------------------------------------------------------------------------
(* Reconciliation.                                                         *)

\* A step of the command that works.
LEMMA Stepping ==
  ASSUME IInv, rec = NotLooked, UNCHANGED <<config, rec, moves>>, faults' \in 0..MaxFaults,
         Keeps(batch'), Drifts(pr'), Queues(batch', pr'), proc' \in Progress, ProcInv',
         proc'.pc = "settle" => SettleQueue',
         proc'.pc \in {"close", "rejected", "retire"} => pr'.queue # "broker"
  PROVE  IInv'
<1>1. config' \in Configs /\ moves' \in 0..MaxMoves
  BY DEF IInv, TypeOK
<1> QED
  BY <1>1, Framed

LEMMA Staying ==
  ASSUME IInv, Local
  PROVE  /\ UNCHANGED <<batch, config, pr, rec, moves>> /\ faults' \in 0..MaxFaults
         /\ Keeps(batch') /\ Drifts(pr') /\ Queues(batch', pr')
<1>1. UNCHANGED <<batch, config, pr, rec, moves>> /\ faults' \in 0..MaxFaults
  BY DEF Local, IInv, TypeOK
<1> QED
  BY <1>1, Standing DEF Keeps, Drifts, Queues

\* A command that ends, having changed nothing.
LEMMA Ending ==
  ASSUME IInv, proc.pc # "idle", Local, End
  PROVE  IInv'
<1>1. /\ UNCHANGED <<batch, config, pr, rec, moves>> /\ faults' \in 0..MaxFaults
      /\ Keeps(batch') /\ Drifts(pr') /\ Queues(batch', pr') /\ pr'.tip \in Tip /\ rec = NotLooked
  BY Staying, Standing, Busy
<1>2. proc' \in Progress /\ ProcInv' /\ proc'.pc = "idle"
  BY <1>1, Ended DEF End
<1> QED
  BY <1>1, <1>2, Stepping

LEMMA SnapshotFields ==
  ASSUME NEW p \in PullRequest
  PROVE  /\ Snapshot(p) \in Seen
         /\ Snapshot(p).st = p.st /\ Snapshot(p).head = p.head /\ Snapshot(p).tip = p.tip
         /\ Snapshot(p).proven = p.proven /\ (Snapshot(p).queued <=> p.queue # "none")
  BY DEF Snapshot, Seen, PullRequest

\* What sync decides is right when it decides it.
RightDecision(d, b, a, c) ==
    /\ d \in Todo /\ d \notin {"none", "refresh", "changes", "changes, foreign", "changes, closed"}
    /\ d \in {"adopt", "adopt, queue off", "stale", "stale, queue off", "untracked", "observe"}
         => ~b.tracked
    /\ d \in {"stale", "stale, queue off"} => b.base < a.tip
    /\ d \in {"synced", "revoke", "unauthorized"} => b.tracked
    /\ d = "unauthorized" => b.approval = "none"
    /\ d = "queue off" => ~c.auto
    /\ d = "revoke" => Invalidated(b, a, c)
    /\ d = "synced" => ~Invalidated(b, a, c)
    /\ d = "keep" /\ b.tracked => b.closing
    /\ d = "merged" => /\ a.st = "merged" /\ a.head = b.rev /\ a.proven
                       /\ b.tracked => b.approval = "confirmed" /\ ~b.revoked
    /\ a.st = "open" /\ a.queued /\ MayBeQueued(b)
         => d \notin {"violated", "closed", "untracked", "merged", "mismatch", "adopt", "stale"}

LEMMA Decided ==
  ASSUME NEW b, b.tracked \in BOOLEAN, b.base \in Int, NEW a \in Seen, NEW c \in Config, b.base <= a.tip
  PROVE  RightDecision(Decision(b, a, c), b, a, c)
<1>1. PICK d : d = Decision(b, a, c)
  OBVIOUS
<1>2. a.tip \in Int
  BY DEF Seen, Tip
<1>3. d \in Todo /\ d \notin {"none", "refresh", "changes", "changes, foreign", "changes, closed"}
  BY <1>1 DEF Decision, OnClosed, Todo
<1>4. /\ d \in {"adopt", "adopt, queue off", "stale", "stale, queue off", "untracked", "observe"}
           => ~b.tracked
      /\ d \in {"stale", "stale, queue off"} => b.base < a.tip
  <2>1. d \in {"adopt", "adopt, queue off", "stale", "stale, queue off", "untracked", "observe"}
           => ~b.tracked
    BY <1>1 DEF Decision, OnClosed
  <2>2. d \in {"stale", "stale, queue off"} => a.tip # b.base
    BY <1>1 DEF Decision, OnClosed
  <2>3. a.tip # b.base => b.base < a.tip
    BY <1>2
  <2> QED
    BY <2>1, <2>2, <2>3
<1>5. /\ d \in {"synced", "revoke", "unauthorized"} => b.tracked
      /\ d = "unauthorized" => b.approval = "none"
      /\ d = "queue off" => ~c.auto
      /\ d = "revoke" => Invalidated(b, a, c)
      /\ d = "synced" => ~Invalidated(b, a, c)
  BY <1>1 DEF Decision, OnClosed
<1>6. /\ d = "keep" /\ b.tracked => b.closing
      /\ d = "merged" => /\ a.st = "merged" /\ a.head = b.rev /\ a.proven
                         /\ b.tracked => b.approval = "confirmed" /\ ~b.revoked
  BY <1>1 DEF Decision, OnClosed, MergedAsApproved
<1>7. a.st = "open" /\ a.queued /\ MayBeQueued(b)
         => d \notin {"violated", "closed", "untracked", "merged", "mismatch", "adopt", "stale"}
  BY <1>1 DEF Decision, OnClosed
<1> QED
  BY <1>1, <1>3, <1>4, <1>5, <1>6, <1>7 DEF RightDecision

LEMMA InspectSafe ==
  ASSUME IInv, SyncInspect
  PROVE  IInv'
<1>1. PICK a : a = Snapshot(pr)
  OBVIOUS
<1>2. PICK d : d = Decision(batch, a, proc.cfg)
  OBVIOUS
<1>3. PICK pc : pc = FirstStep(d)
  OBVIOUS
<1>4. /\ proc.pc = "inspect" /\ proc \in Progress /\ proc.cmd # "none" /\ rec = NotLooked
      /\ proc' = [proc EXCEPT !.seen = a, !.todo = d, !.pc = pc]
      /\ PhaseInv /\ ClearInv /\ QueueInv /\ PrInv /\ TipInv /\ Sound(batch)
  BY <1>1, <1>2, <1>3, Busy DEF SyncInspect, At, IInv, ProcInv
<1>5. /\ a \in Seen /\ a.st = pr.st /\ a.head = pr.head /\ a.tip = pr.tip /\ a.proven = pr.proven
      /\ (a.queued <=> pr.queue # "none")
  BY <1>1, SnapshotFields DEF IInv, TypeOK
<1>6. batch.tracked \in BOOLEAN /\ batch.base \in Int /\ batch.base <= a.tip /\ proc.cfg \in Config
  BY <1>4, <1>5, ApprovalAssumption DEF TipInv, Sound, BatchRecord, Tip, Progress, ApprovalAssumption
<1>7. /\ d \in Todo /\ d \notin {"none", "refresh", "changes", "changes, foreign", "changes, closed"}
      /\ d \in {"adopt", "adopt, queue off", "stale", "stale, queue off", "untracked", "observe"}
           => ~batch.tracked
      /\ d \in {"stale", "stale, queue off"} => batch.base < a.tip
      /\ d \in {"synced", "revoke", "unauthorized"} => batch.tracked
      /\ d = "unauthorized" => batch.approval = "none"
      /\ d = "queue off" => ~proc.cfg.auto
      /\ d = "revoke" => Invalidated(batch, a, proc.cfg)
      /\ d = "synced" => ~Invalidated(batch, a, proc.cfg)
      /\ d = "keep" /\ batch.tracked => batch.closing
      /\ d = "merged" => /\ a.st = "merged" /\ a.head = batch.rev /\ a.proven
                         /\ batch.tracked => batch.approval = "confirmed" /\ ~batch.revoked
      /\ a.st = "open" /\ a.queued /\ MayBeQueued(batch)
           => d \notin {"violated", "closed", "untracked", "merged", "mismatch", "adopt", "stale"}
  <2>1. a \in Seen /\ batch.tracked \in BOOLEAN /\ batch.base \in Int /\ batch.base <= a.tip
        /\ proc.cfg \in Config
    BY <1>5, <1>6
  <2>2. RightDecision(d, batch, a, proc.cfg)
    BY <1>2, <2>1, Decided
  <2> QED
    BY <2>2 DEF RightDecision
<1>8. /\ pc \in Settling /\ pc \in Phases
      /\ pc = "journal" <=> d \in Journaled
      /\ pc = "disable" <=> d \in QueueFirst
  BY <1>3 DEF FirstStep, Settling, Phases, Journaled, QueueFirst
<1>9. /\ proc' \in Progress /\ proc'.cmd = proc.cmd /\ proc'.pc = pc /\ proc'.cfg = proc.cfg
      /\ proc'.seen = a /\ proc'.todo = d
  BY <1>4, <1>5, <1>7, <1>8 DEF Progress
<1>10. /\ UNCHANGED <<batch, config, pr, rec, moves>> /\ faults' \in 0..MaxFaults
       /\ Keeps(batch') /\ Drifts(pr') /\ Queues(batch', pr') /\ pr.tip \in Int
  BY Staying, Standing DEF SyncInspect
<1>11. ProcInv'
  <2>1. PhaseInv'
    BY <1>4, <1>8, <1>9, <1>10 DEF PhaseInv, Settling
  <2>2. d = "revoke" => batch.approval # "none" /\ pc = "journal"
    BY <1>7, <1>8 DEF Invalidated, Journaled
  <2>3. SettleInv'
    BY <1>7, <1>8, <1>9, <1>10, <2>2
       DEF SettleInv, Settling, Carrying, Invalidated, PolicyCurrent, ActorCurrent
  <2>4. AttemptInv' /\ ClearInv'
    BY <1>4, <1>8, <1>9, <1>10 DEF AttemptInv, ClearInv, Settling, Attempting
  <2>5. SeenInv'
    BY <1>5, <1>9, <1>10 DEF SeenInv
  <2> QED
    BY <2>1, <2>3, <2>4, <2>5 DEF ProcInv
<1>12. proc'.pc = "settle" => SettleQueue'
  <2>1. CASE pr.queue # "broker"
    BY <1>10, <2>1 DEF SettleQueue
  <2>2. CASE pr.queue = "broker" /\ pc = "settle"
    <3>1. a.st = "open" /\ a.queued /\ MayBeQueued(batch) /\ (batch.tracked => batch.approval # "none")
      BY <1>4, <1>5, <2>2 DEF QueueInv, PrInv
    <3>2. d \in {"late", "synced", "observe", "keep"}
      BY <1>7, <1>8, <2>2, <3>1 DEF Todo, Journaled, QueueFirst
    <3>3. d # "late"
      BY <1>2 DEF Decision, OnClosed
    <3> QED
      BY <1>7, <1>9, <1>10, <3>1, <3>2, <3>3 DEF SettleQueue, Invalidated, PolicyCurrent, ActorCurrent
  <2> QED
    BY <1>9, <2>1, <2>2
<1> QED
  BY <1>4, <1>8, <1>9, <1>10, <1>11, <1>12, Stepping DEF Settling

LEMMA JournalSafe ==
  ASSUME IInv, SyncJournal
  PROVE  IInv'
<1>1. /\ proc.pc = "journal" /\ proc \in Progress /\ proc.cmd # "none" /\ rec = NotLooked
      /\ Sound(batch) /\ PhaseInv /\ SettleInv /\ ClearInv /\ SeenInv /\ Goto("disable") /\ "disable" \in Phases
  BY Busy DEF SyncJournal, At, IInv, ProcInv, Phases
<1>2. PICK w : w = IF proc.todo = "revoke" THEN [batch EXCEPT !.revoked = TRUE]
                                           ELSE AutoSet(batch, "pending")
  OBVIOUS
<1>3. Record(w)
  BY <1>2 DEF SyncJournal, AutoSet
<1>4. /\ proc.todo \in Journaled
      /\ proc.todo = "revoke" => batch.approval # "none"
  BY <1>1 DEF SettleInv, Settling
<1>5. /\ Sound(w) /\ SameCandidate(w, batch) /\ w.status = batch.status /\ w.state = batch.state
      /\ w.approval = batch.approval /\ (proc.todo = "revoke" => w.revoked)
      /\ (w.auto = batch.auto \/ w.auto = "pending")
      /\ w.refresh = batch.refresh /\ w.closing = batch.closing /\ w.change = batch.change
  <2>1. CASE proc.todo = "revoke"
    BY <1>1, <1>2, <1>4, <2>1, SoundRevoked
  <2>2. CASE proc.todo # "revoke"
    BY <1>1, <1>2, <2>2, SoundAuto
  <2> QED
    BY <2>1, <2>2
<1>6. Keeps(w) /\ Queues(w, pr)
  BY <1>5, Standing DEF Keeps, Queues, SameCandidate, MayBeQueued, Published
<1>7. /\ proc' \in Progress /\ proc'.cmd = proc.cmd /\ proc'.pc = "disable" /\ proc'.cfg = proc.cfg
      /\ proc'.seen = proc.seen /\ proc'.todo = proc.todo
  BY <1>1, Going
<1>8. batch' = w /\ pr' = pr
  BY <1>3 DEF Record, World
<1>9. ProcInv'
  <2>1. PhaseInv'
    BY <1>1, <1>5, <1>7, <1>8 DEF PhaseInv, SameCandidate
  <2>2. SettleInv'
    BY <1>1, <1>4, <1>5, <1>7, <1>8 DEF SettleInv, Settling, SameCandidate, Journaled, Carrying
  <2>3. AttemptInv' /\ ClearInv' /\ SeenInv'
    BY <1>1, <1>5, <1>7, <1>8 DEF AttemptInv, ClearInv, SeenInv, Settling, Attempting
  <2> QED
    BY <2>1, <2>2, <2>3 DEF ProcInv
<1> QED
  BY <1>1, <1>3, <1>6, <1>7, <1>9, Recorded

LEMMA DisableSafe ==
  ASSUME IInv, DisableAutoMerge
  PROVE  IInv'
<1>1. /\ proc.pc = "disable" /\ proc \in Progress /\ proc.cmd # "none" /\ rec = NotLooked
      /\ PhaseInv /\ SettleInv /\ ClearInv /\ SeenInv /\ PrInv /\ pr \in PullRequest
      /\ UNCHANGED <<batch, config, rec, moves>> /\ faults' \in 0..MaxFaults
  BY Busy DEF DisableAutoMerge, At, IInv, TypeOK, ProcInv, Forge
<1>2. /\ pr' \in PullRequest /\ pr'.st = pr.st /\ pr'.head = pr.head /\ pr'.tip = pr.tip
      /\ pr'.queue = "none" /\ pr'.proven = pr.proven /\ pr'.opened = pr.opened
  <2>1. CASE pr.st = "merged"
    <3>1. pr' = pr /\ pr.queue = "none"
      BY <1>1, <2>1 DEF DisableAutoMerge, Forge, PrInv
    <3> QED
      BY <1>1, <3>1
  <2>2. CASE pr.st # "merged"
    <3>1. pr' = [pr EXCEPT !.queue = "none"]
      BY <2>2 DEF DisableAutoMerge, Forge
    <3> QED
      BY <1>1, <3>1 DEF PullRequest
  <2> QED
    BY <2>1, <2>2
<1>3. Keeps(batch') /\ Drifts(pr') /\ Queues(batch', pr') /\ pr'.tip \in Tip
  BY <1>1, <1>2, Standing DEF Keeps, Drifts, Queues
<1>4. /\ proc' \in Progress /\ ProcInv'
      /\ proc'.pc \in {"idle", "settle"}
  <2>1. CASE End
    BY <1>3, <2>1, Ended DEF End
  <2>2. CASE Goto("settle")
    <3>1. /\ proc' \in Progress /\ proc'.cmd = proc.cmd /\ proc'.pc = "settle" /\ proc'.cfg = proc.cfg
          /\ proc'.seen = proc.seen /\ proc'.todo = proc.todo
      BY <1>1, <2>2, Going DEF Phases
    <3>2. PhaseInv'
      BY <1>1, <3>1 DEF PhaseInv
    <3>3. SettleInv'
      BY <1>1, <3>1 DEF SettleInv, Settling, Invalidated, PolicyCurrent, ActorCurrent
    <3>4. AttemptInv' /\ ClearInv' /\ SeenInv'
      BY <1>1, <1>2, <3>1 DEF AttemptInv, ClearInv, SeenInv, Settling, Attempting
    <3> QED
      BY <3>1, <3>2, <3>3, <3>4 DEF ProcInv
  <2>3. CASE proc.todo = "stale, queue off" /\ proc' = [proc EXCEPT !.pc = "settle", !.todo = "late"]
    <3>1. /\ proc' \in Progress /\ proc'.cmd = proc.cmd /\ proc'.pc = "settle" /\ proc'.cfg = proc.cfg
          /\ proc'.seen = proc.seen /\ proc'.todo = "late"
      BY <1>1, <2>3 DEF Progress, Phases, Todo
    <3>2. PhaseInv'
      BY <1>1, <3>1 DEF PhaseInv
    <3>3. SettleInv'
      BY <3>1 DEF SettleInv, Carrying
    <3>4. AttemptInv' /\ ClearInv' /\ SeenInv'
      BY <1>1, <1>2, <2>3, <3>1 DEF AttemptInv, ClearInv, SeenInv, Settling, Attempting, Carrying
    <3> QED
      BY <3>1, <3>2, <3>3, <3>4 DEF ProcInv
  <2>4. \/ End \/ Goto("settle")
        \/ proc.todo = "stale, queue off" /\ proc' = [proc EXCEPT !.pc = "settle", !.todo = "late"]
    BY DEF DisableAutoMerge
  <2> QED
    BY <2>1, <2>2, <2>3, <2>4
<1>5. SettleQueue'
  BY <1>2 DEF SettleQueue
<1> QED
  BY <1>1, <1>3, <1>4, <1>5, Stepping

LEMMA ChangeSafe ==
  ASSUME IInv, ChangeInspect
  PROVE  IInv'
<1>1. PICK a : a = Snapshot(pr)
  OBVIOUS
<1>2. PICK d \in Carrying : d = CASE pr.st = "closed" -> "changes, closed"
                                  [] pr.st = "open" /\ pr.head = batch.rev -> "changes"
                                  [] OTHER -> "changes, foreign"
  BY DEF Carrying
<1>3. PICK pc \in {"disable", "settle"} : pc = IF pr.st = "open" THEN "disable" ELSE "settle"
  OBVIOUS
<1>4. /\ proc.pc = "change" /\ proc \in Progress /\ proc.cmd # "none" /\ rec = NotLooked
      /\ proc' = [proc EXCEPT !.seen = a, !.todo = d, !.pc = pc]
      /\ PhaseInv /\ ClearInv /\ QueueInv /\ PrInv
  BY <1>1, <1>2, <1>3, Busy DEF ChangeInspect, At, IInv, ProcInv
<1>5. a \in Seen /\ a.st = pr.st /\ a.head = pr.head /\ a.tip = pr.tip /\ a.proven = pr.proven
  BY <1>1, SnapshotFields DEF IInv, TypeOK
<1>6. /\ proc' \in Progress /\ proc'.cmd = proc.cmd /\ proc'.pc = pc /\ proc'.cfg = proc.cfg
      /\ proc'.seen = a /\ proc'.todo = d
  BY <1>4, <1>5 DEF Progress, Phases, Todo, Carrying
<1>7. /\ UNCHANGED <<batch, config, pr, rec, moves>> /\ faults' \in 0..MaxFaults
      /\ Keeps(batch') /\ Drifts(pr') /\ Queues(batch', pr') /\ pr.tip \in Int
  BY Staying, Standing DEF ChangeInspect
<1>8. ProcInv'
  <2>1. PhaseInv'
    BY <1>4, <1>6, <1>7 DEF PhaseInv
  <2>2. SettleInv'
    BY <1>4, <1>6, <1>7 DEF SettleInv, PhaseInv, Carrying
  <2>3. AttemptInv' /\ ClearInv'
    BY <1>4, <1>6, <1>7 DEF AttemptInv, ClearInv, Settling, Attempting
  <2>4. SeenInv'
    BY <1>5, <1>6, <1>7 DEF SeenInv
  <2> QED
    BY <2>1, <2>2, <2>3, <2>4 DEF ProcInv
<1>9. proc'.pc = "settle" => SettleQueue'
  BY <1>3, <1>4, <1>6, <1>7 DEF SettleQueue, PrInv
<1> QED
  BY <1>4, <1>6, <1>7, <1>8, <1>9, Stepping

\* Where the command goes on when sync has returned the record b.
LEMMA Resuming ==
  ASSUME proc \in Progress, NEW b, proc' = Resumed(b), proc' # Idle
  PROVE  /\ proc' \in Progress /\ proc'.cmd = proc.cmd /\ proc'.cfg = proc.cfg
         /\ proc'.arg = proc.arg /\ proc'.todo = "none"
         /\ proc'.seen.st = "none" /\ proc'.seen.tip = 1
         /\ proc'.pc \in {"fresh", "attempt", "target", "recheck"}
         /\ proc'.pc \in {"fresh", "attempt", "target"} => Published(b)
         /\ proc'.pc = "fresh" => proc.cmd = "publish"
         /\ proc'.pc = "target" => proc.cmd = "refresh"
         /\ proc'.pc = "recheck" => proc.cmd = "close"
         /\ proc'.pc = "attempt" =>
                \/ /\ proc.cmd = "publish" /\ (b.tracked => Authorized(b))
                \/ /\ proc.cmd = "approve" /\ b.approval # "none" /\ proc.cfg.auto
<1> DEFINE on(pc, stage) == [proc EXCEPT !.pc = pc, !.stage = stage, !.todo = "none", !.seen = Idle.seen]
<1>1. \/ proc' = Idle
      \/ proc' = on("fresh", 1) /\ Published(b) /\ proc.cmd = "publish"
      \/ proc' = on("attempt", 2) /\ Published(b) /\ proc.cmd = "publish" /\ (b.tracked => Authorized(b))
      \/ /\ proc' = on("attempt", 2) /\ Published(b) /\ proc.cmd = "approve" /\ b.approval # "none"
         /\ proc.cfg.auto
      \/ proc' = on("target", 1) /\ Published(b) /\ proc.cmd = "refresh"
      \/ proc' = on("recheck", 2) /\ proc.cmd = "close"
  <2> DEFINE Ready == b.tracked \/ proc.cfg.required => /\ b.tracked /\ PolicyCurrent(b, proc.cfg)
                                                      /\ ActorCurrent(b, proc.cfg) /\ Authorized(b)
  <2>1. proc' = CASE proc.cmd = "publish" /\ proc.stage = 1 /\ Published(b) /\ ~b.refresh -> on("fresh", 1)
                  [] proc.cmd = "publish" /\ proc.stage = 2 /\ Published(b) /\ ~b.refresh
                     /\ b.auto # "on" /\ Ready -> on("attempt", 2)
                  [] proc.cmd = "approve" /\ Published(b) /\ b.approval # "none"
                     /\ b.state \in {"approved", "merging"} /\ proc.cfg.auto /\ b.auto # "on" -> on("attempt", 2)
                  [] proc.cmd = "refresh" /\ Published(b) -> on("target", 1)
                  [] proc.cmd = "close" /\ proc.stage = 1 -> on("recheck", 2)
                  [] OTHER -> Idle
    BY DEF Resumed
  <2>2. Ready => (b.tracked => Authorized(b))
    OBVIOUS
  <2> HIDE DEF Ready, on
  <2> QED
    BY <2>1, <2>2
<1>2. ASSUME NEW pc \in Phases, NEW stage \in {1, 2}, proc' = on(pc, stage)
      PROVE  /\ proc' \in Progress /\ proc'.cmd = proc.cmd /\ proc'.pc = pc /\ proc'.cfg = proc.cfg
             /\ proc'.arg = proc.arg /\ proc'.todo = "none" /\ proc'.seen = Idle.seen
  <2>1. PICK a \in Seen : a = Idle.seen
    BY IdleType
  <2>2. proc' = [proc EXCEPT !.pc = pc, !.stage = stage, !.todo = "none", !.seen = a]
    BY <1>2, <2>1
  <2>3. "none" \in Todo
    BY DEF Todo
  <2>4. /\ proc' \in Progress /\ proc'.cmd = proc.cmd /\ proc'.pc = pc /\ proc'.cfg = proc.cfg
        /\ proc'.arg = proc.arg /\ proc'.todo = "none" /\ proc'.seen = a
    BY <2>2, <2>3 DEF Progress
  <2> QED
    BY <2>1, <2>4
<1>3. {"fresh", "attempt", "target", "recheck"} \subseteq Phases
  BY DEF Phases
<1> HIDE DEF on
<1> QED
  BY <1>1, <1>2, <1>3, IdleFields

LEMMA SettleSafe ==
  ASSUME IInv, SyncSettle
  PROVE  IInv'
<1>1. PICK v : v = Settled(proc.todo, batch, proc.seen, proc.cfg)
  OBVIOUS
<1>2. /\ proc.pc = "settle" /\ proc \in Progress /\ proc.cmd # "none" /\ rec = NotLooked
      /\ PhaseInv /\ SettleInv /\ ClearInv /\ SeenInv /\ QueueInv /\ PrInv /\ Sound(batch)
      /\ HeadInv /\ TipInv /\ TypeOK
  BY Busy DEF SyncSettle, At, IInv, ProcInv
<1>3. SettleEffect(v)
  BY <1>1, <1>2, SettleSound
<1>4. /\ batch' = v /\ config' = config /\ pr' = pr /\ rec' = rec /\ moves' = moves /\ faults' = faults
  BY <1>1 DEF SyncSettle, Record, World
<1>5. batch.intent = NoIntent /\ batch.status # "merged"
  BY <1>2 DEF PhaseInv
<1>6. \/ proc.todo = "unauthorized" /\ proc' = [proc EXCEPT !.todo = "synced"]
      \/ proc.todo = "refresh" /\ proc' = [proc EXCEPT !.pc = "close", !.todo = "none"]
      \/ proc.todo \in {"mismatch", "mismatch, queue off"} /\ proc' = Idle
      \/ /\ proc.todo \notin {"unauthorized", "mismatch", "mismatch, queue off", "refresh"}
         /\ proc' = Resumed(v)
  BY <1>1 DEF SyncSettle
<1>7. pr'.tip \in Tip /\ 1 <= pr'.tip
  BY <1>4, Standing DEF Tip
<1>8. /\ proc' \in Progress /\ ProcInv'
      /\ proc'.pc = "settle" => SettleQueue'
      /\ proc'.pc \in {"close", "rejected", "retire"} => pr'.queue # "broker"
  <2>1. CASE proc' = Idle
    BY <1>7, <2>1, Ended
  <2>2. CASE proc.todo = "unauthorized" /\ proc' = [proc EXCEPT !.todo = "synced"]
    <3>1. /\ proc' \in Progress /\ proc'.cmd = proc.cmd /\ proc'.pc = "settle" /\ proc'.cfg = proc.cfg
          /\ proc'.arg = proc.arg /\ proc'.todo = "synced" /\ proc'.seen = proc.seen
      BY <1>2, <2>2 DEF Progress, Todo
    <3>2. /\ v.tracked /\ v.approval = "none" /\ v.status # "merged" /\ v.closing = batch.closing
          /\ v.intent = batch.intent /\ (v.change => batch.change)
      BY <1>3, <2>2 DEF SettleEffect
    <3>3. PhaseInv'
      BY <1>2, <1>4, <3>1, <3>2 DEF PhaseInv
    <3>4. SettleInv'
      BY <1>4, <3>1, <3>2 DEF SettleInv, Carrying
    <3>5. AttemptInv' /\ ClearInv' /\ SeenInv'
      BY <1>2, <1>4, <2>2, <3>1, <3>2 DEF AttemptInv, ClearInv, SeenInv, Attempting, Settling, Carrying
    <3>6. SettleQueue'
      BY <1>2, <1>4, <2>2 DEF QueueInv, SettleQueue
    <3> QED
      BY <3>1, <3>3, <3>4, <3>5, <3>6 DEF ProcInv
  <2>3. CASE proc.todo = "refresh" /\ proc' = [proc EXCEPT !.pc = "close", !.todo = "none"]
    <3>1. /\ proc' \in Progress /\ proc'.cmd = proc.cmd /\ proc'.pc = "close" /\ proc'.cfg = proc.cfg
          /\ proc'.arg = proc.arg /\ proc'.todo = "none" /\ proc'.seen = proc.seen
      BY <1>2, <2>3 DEF Progress, Todo, Phases
    <3>2. v.status # "merged" /\ v.intent = batch.intent /\ (v.change => batch.change) /\ proc.cmd = "refresh"
      BY <1>2, <1>3, <2>3 DEF SettleEffect, SettleInv, Settling
    <3>3. PhaseInv'
      BY <1>2, <1>4, <3>1, <3>2 DEF PhaseInv
    <3>4. SettleInv' /\ AttemptInv' /\ ClearInv' /\ SeenInv'
      BY <1>2, <1>4, <3>1, <3>2 DEF SettleInv, AttemptInv, ClearInv, SeenInv, Attempting, Settling
    <3>5. pr'.queue # "broker"
      BY <1>2, <1>4, <2>3 DEF QueueInv, SettleQueue
    <3> QED
      BY <3>1, <3>3, <3>4, <3>5 DEF ProcInv
  <2>4. CASE /\ proc.todo \notin {"unauthorized", "mismatch", "mismatch, queue off", "refresh"}
             /\ proc' = Resumed(v) /\ proc' # Idle
    <3>1. /\ proc' \in Progress /\ proc'.cmd = proc.cmd /\ proc'.cfg = proc.cfg
          /\ proc'.arg = proc.arg /\ proc'.todo = "none"
          /\ proc'.seen.st = "none" /\ proc'.seen.tip = 1
          /\ proc'.pc \in {"fresh", "attempt", "target", "recheck"}
          /\ proc'.pc \in {"fresh", "attempt", "target"} => Published(v)
          /\ proc'.pc = "fresh" => proc.cmd = "publish"
          /\ proc'.pc = "target" => proc.cmd = "refresh"
          /\ proc'.pc = "recheck" => proc.cmd = "close"
          /\ proc'.pc = "attempt" =>
                \/ /\ proc.cmd = "publish" /\ (v.tracked => Authorized(v))
                \/ /\ proc.cmd = "approve" /\ v.approval # "none" /\ proc.cfg.auto
      BY <1>2, <2>4, Resuming
    <3>2. v.intent = batch.intent /\ (v.change => batch.change)
      BY <1>3 DEF SettleEffect
    <3>3. PhaseInv'
      <4>1. proc'.cmd \notin {"none", "revise"} /\ batch'.intent = NoIntent /\ proc'.pc # "idle"
        BY <1>2, <1>4, <1>5, <3>1, <3>2 DEF PhaseInv
      <4>2. proc'.pc \in {"fresh", "attempt", "target"} => batch'.status = "published"
        BY <1>4, <3>1 DEF Published
      <4> QED
        BY <3>1, <4>1, <4>2 DEF PhaseInv
    <3>4. SettleInv' /\ SeenInv'
      BY <1>7, <3>1 DEF SettleInv, SeenInv, Settling
    <3>5. AttemptInv'
      <4>1. proc'.pc = "attempt" => /\ Published(v) /\ ~v.change
                                    /\ v.tracked => v.approval = "confirmed" /\ ~v.revoked
        <5>1. proc'.pc = "attempt" /\ proc.cmd = "publish" => ~v.change /\ (v.tracked => Authorized(v))
          BY <1>2, <3>1, <3>2 DEF ClearInv
        <5>2. proc'.pc = "attempt" /\ proc.cmd = "approve"
                => v.approval = "confirmed" /\ ~v.revoked /\ ~v.change
          <6>1. /\ proc.cmd = "approve" /\ Published(v) /\ v.approval # "none" /\ proc.cfg.auto
                /\ proc.todo \notin {"unauthorized", "mismatch", "mismatch, queue off", "refresh"}
                => v.approval = "confirmed" /\ ~v.revoked /\ ~v.change
            BY <1>3 DEF SettleEffect
          <6>2. proc'.pc = "attempt" => Published(v)
            BY <3>1
          <6>3. proc'.pc = "attempt" /\ proc.cmd = "approve" => v.approval # "none" /\ proc.cfg.auto
            BY <3>1
          <6> QED
            BY <2>4, <6>1, <6>2, <6>3
        <5> QED
          BY <3>1, <5>1, <5>2 DEF Authorized
      <4> QED
        <5>1. proc'.pc \notin {"enable", "result"} /\ batch' = v
          BY <1>4, <3>1
        <5>2. proc'.pc = "attempt" => /\ batch'.status = "published" /\ ~batch'.change
                                      /\ batch'.tracked => batch'.approval = "confirmed" /\ ~batch'.revoked
          BY <4>1, <5>1 DEF Published
        <5> QED
          BY <5>1, <5>2 DEF AttemptInv, Attempting, Published
    <3>6. ClearInv'
      BY <1>2, <1>4, <3>1, <3>2 DEF ClearInv, Settling
    <3> QED
      BY <3>1, <3>3, <3>4, <3>5, <3>6 DEF ProcInv
  <2> QED
    BY <1>6, <2>1, <2>2, <2>3, <2>4
<1>9. TypeOK'
  BY <1>2, <1>3, <1>4, <1>8 DEF TypeOK, SettleEffect, Sound, SoundStatus, Published
<1>10. QueueInv'
  BY <1>3, <1>4, <1>8 DEF QueueInv, SettleEffect, MayBeQueued, Published
<1>11. PrInv' /\ HeadInv' /\ RecInv' /\ MergedIsProven'
  <2>1. PrInv' /\ RecInv'
    BY <1>2, <1>4 DEF PrInv, RecInv
  <2>2. HeadInv'
    BY <1>2, <1>3, <1>4 DEF HeadInv, SettleEffect
  <2>3. v.status = "merged" => (v.tracked => v.approval = "confirmed")
    BY <1>3 DEF SettleEffect, Sound, SoundStatus
  <2>4. MergedIsProven'
    BY <1>3, <1>4, <2>3 DEF MergedIsProven, SettleEffect
  <2> QED
    BY <2>1, <2>2, <2>4
<1>12. TipInv'
  BY <1>2, <1>3, <1>4 DEF TipInv, SettleEffect
<1> QED
  BY <1>3, <1>4, <1>8, <1>9, <1>10, <1>11, <1>12 DEF IInv, SettleEffect

-----------------------------------------------------------------------------
(* Publication and the attempt to queue.                                   *)

LEMMA FreshSafe ==
  ASSUME IInv, PublishFresh
  PROVE  IInv'
<1>1. /\ proc.pc = "fresh" /\ proc \in Progress /\ proc.cmd = "publish" /\ rec = NotLooked
      /\ batch.status \in {"prepared", "published"} /\ Sound(batch)
      /\ PhaseInv /\ SettleInv /\ AttemptInv /\ ClearInv /\ SeenInv /\ TipInv
      /\ pr.tip \in Int /\ batch.base \in Int
  BY Busy, Standing DEF PublishFresh, At, IInv, ProcInv, PhaseInv, Sound, BatchRecord, Tip
<1>2. CASE pr.tip # batch.base
  <2>1. PICK w : w = [batch EXCEPT !.refresh = TRUE]
    OBVIOUS
  <2>2. Record(w) /\ proc' = Idle
    BY <1>2, <2>1 DEF PublishFresh, End
  <2>3. /\ Sound(w) /\ SameCandidate(w, batch) /\ w.status = batch.status /\ w.state = batch.state
        /\ w.approval = batch.approval /\ w.auto = batch.auto
    BY <1>1, <2>1, SoundMarked
  <2>4. batch.base < pr.tip
    BY <1>1, <1>2 DEF TipInv
  <2>5. Keeps(w) /\ Queues(w, pr)
    BY <2>3, <2>4, Standing DEF Keeps, Queues, SameCandidate, MayBeQueued, Published
  <2> QED
    BY <1>1, <2>2, <2>5, Recorded
<1>3. CASE pr.tip = batch.base
  <2>1. PICK pc \in {"record", "create"} : pc = IF Published(batch) THEN "record" ELSE "create"
    OBVIOUS
  <2>2. Local /\ Goto(pc) /\ pc \in Phases
    BY <1>3, <2>1 DEF PublishFresh, Phases
  <2>3. /\ proc' \in Progress /\ proc'.cmd = proc.cmd /\ proc'.pc = pc /\ proc'.cfg = proc.cfg
        /\ proc'.seen = proc.seen /\ proc'.todo = proc.todo
    BY <1>1, <2>2, Going
  <2>4. /\ UNCHANGED <<batch, config, pr, rec, moves>> /\ faults' \in 0..MaxFaults
        /\ Keeps(batch') /\ Drifts(pr') /\ Queues(batch', pr')
    BY <2>2, Staying
  <2>5. PhaseInv' /\ ClearInv'
    BY <1>1, <2>3, <2>4 DEF PhaseInv, ClearInv, Settling
  <2>6. SettleInv' /\ AttemptInv' /\ SeenInv'
    BY <1>1, <2>3, <2>4 DEF SettleInv, AttemptInv, SeenInv, Settling, Attempting
  <2> QED
    BY <1>1, <2>3, <2>4, <2>5, <2>6, Stepping DEF ProcInv
<1> QED
  BY <1>2, <1>3

LEMMA CreateSafe ==
  ASSUME IInv, PublishCreate
  PROVE  IInv'
<1>1. /\ proc.pc = "create" /\ proc \in Progress /\ proc.cmd = "publish" /\ rec = NotLooked
      /\ batch.status \in {"prepared", "published"} /\ batch \in BatchRecord
      /\ PhaseInv /\ SettleInv /\ AttemptInv /\ ClearInv /\ SeenInv /\ PrInv /\ pr \in PullRequest
  BY Busy DEF PublishCreate, At, IInv, ProcInv, PhaseInv, TypeOK
<1>2. /\ UNCHANGED <<batch, config, rec, moves>> /\ faults' \in 0..MaxFaults
      /\ Keeps(batch')
  BY Standing DEF PublishCreate, Forge, IInv, TypeOK, Keeps
<1>3. /\ pr' \in PullRequest /\ Drifts(pr') /\ Queues(batch', pr') /\ pr'.tip = pr.tip
      /\ (pr.st = "merged" => pr'.st = "merged" /\ pr'.head = pr.head /\ pr'.proven = pr.proven)
  <2>1. CASE pr' = pr
    BY <1>1, <1>2, <2>1, Standing DEF Drifts, Queues
  <2>2. CASE pr.st = "none" /\ pr' = [pr EXCEPT !.st = "open", !.head = batch.rev, !.checks = "pending",
                                                !.opened = @ + 1]
    <3>1. pr.opened = 0 /\ batch.rev \in Rev /\ batch.rev <= batch.rev
      BY <1>1, <2>2 DEF PrInv, BatchRecord, Rev
    <3>4. PICK h \in {Foreign} \cup Rev : h = batch.rev
      BY <3>1
    <3>2. pr' = [pr EXCEPT !.st = "open", !.head = h, !.checks = "pending", !.opened = 1]
      BY <2>2, <3>1, <3>4
    <3>3. /\ pr' \in PullRequest /\ pr'.st = "open" /\ pr'.head = batch.rev /\ pr'.opened = 1
          /\ pr'.tip = pr.tip /\ pr'.queue = pr.queue
      <4>1. pr \in PullRequest /\ 1 \in 0..2
        BY <1>1
      <4>2. /\ pr' \in PullRequest /\ pr'.st = "open" /\ pr'.head = h /\ pr'.opened = 1
            /\ pr'.tip = pr.tip /\ pr'.queue = pr.queue
        BY <3>2, <4>1 DEF PullRequest
      <4> QED
        BY <3>4, <4>2
    <3> QED
      BY <1>1, <1>2, <2>2, <3>1, <3>3, Standing DEF Drifts, Queues, PrInv
  <2> QED
    BY <2>1, <2>2 DEF PublishCreate, Forge, NoneFound
<1>4. proc' \in Progress /\ ProcInv' /\ proc'.pc \in {"idle", "record"}
  <2>1. CASE proc' = Idle
    BY <1>3, <2>1, Ended, Standing
  <2>2. CASE Goto("record")
    <3>1. /\ proc' \in Progress /\ proc'.cmd = proc.cmd /\ proc'.pc = "record" /\ proc'.cfg = proc.cfg
          /\ proc'.seen = proc.seen /\ proc'.todo = proc.todo
      BY <1>1, <2>2, Going DEF Phases
    <3>2. PhaseInv' /\ ClearInv'
      BY <1>1, <1>2, <3>1 DEF PhaseInv, ClearInv, Settling
    <3>3. SettleInv' /\ AttemptInv' /\ SeenInv'
      BY <1>1, <1>3, <3>1 DEF SettleInv, AttemptInv, SeenInv, Settling, Attempting
    <3> QED
      BY <3>1, <3>2, <3>3 DEF ProcInv
  <2> QED
    BY <2>1, <2>2 DEF PublishCreate, End
<1> QED
  BY <1>1, <1>2, <1>3, <1>4, Stepping

LEMMA RecordSafe ==
  ASSUME IInv, PublishRecord
  PROVE  IInv'
<1>1. /\ proc.pc = "record" /\ proc \in Progress /\ proc.cmd = "publish" /\ rec = NotLooked
      /\ batch.status \in {"prepared", "published"} /\ Sound(batch)
      /\ PhaseInv /\ SettleInv /\ AttemptInv /\ ClearInv /\ SeenInv
  BY Busy DEF PublishRecord, At, IInv, ProcInv, PhaseInv
<1>2. PICK w : w = OnRecord(batch)
  OBVIOUS
<1>3. Record(w) /\ batch' = w /\ pr' = pr
  BY <1>2 DEF PublishRecord, Record, World
<1>4. /\ Sound(w) /\ w.tracked = batch.tracked /\ w.rev = batch.rev /\ w.base = batch.base
      /\ w.intent = batch.intent /\ w.url /\ w.status = "published"
      /\ w.approval = batch.approval /\ w.auto = batch.auto /\ ~w.refresh /\ ~w.closing
      /\ w.change = batch.change
  BY <1>1, <1>2, SoundOnRecord
<1>5. Keeps(w) /\ Queues(w, pr)
  BY <1>4, Standing DEF Keeps, Queues, MayBeQueued, Published
<1>6. CASE proc' = Idle
  BY <1>1, <1>3, <1>5, <1>6, Recorded
<1>7. CASE proc' = [proc EXCEPT !.pc = "inspect", !.stage = 2]
  <2>1. /\ proc' \in Progress /\ proc'.cmd = proc.cmd /\ proc'.pc = "inspect" /\ proc'.cfg = proc.cfg
        /\ proc'.seen = proc.seen /\ proc'.todo = proc.todo
    BY <1>1, <1>7 DEF Progress, Phases
  <2>2. PhaseInv' /\ ClearInv'
    BY <1>1, <1>3, <1>4, <2>1 DEF PhaseInv, ClearInv
  <2>3. SettleInv' /\ AttemptInv' /\ SeenInv'
    BY <1>1, <1>3, <2>1 DEF SettleInv, AttemptInv, SeenInv, Settling, Attempting
  <2> QED
    BY <1>1, <1>3, <1>5, <2>1, <2>2, <2>3, Recorded DEF ProcInv
<1> QED
  BY <1>6, <1>7 DEF PublishRecord, End

LEMMA AttemptSafe ==
  ASSUME IInv, AttemptRecord
  PROVE  IInv'
<1>1. /\ proc.pc = "attempt" /\ proc \in Progress /\ proc.cmd # "none" /\ rec = NotLooked /\ Sound(batch)
      /\ PhaseInv /\ SettleInv /\ AttemptInv /\ ClearInv /\ SeenInv
      /\ Goto("enable") /\ "enable" \in Phases
  BY Busy DEF AttemptRecord, At, IInv, ProcInv, Phases
<1>2. PICK w : w = AutoSet(batch, "pending")
  OBVIOUS
<1>3. Record(w) /\ batch' = w /\ pr' = pr
  BY <1>2 DEF AttemptRecord, Attempted, AutoSet, Record, World
<1>4. /\ Sound(w) /\ SameCandidate(w, batch) /\ w.status = batch.status /\ w.state = batch.state
      /\ w.approval = batch.approval /\ w.revoked = batch.revoked /\ w.auto = "pending"
      /\ w.refresh = batch.refresh /\ w.closing = batch.closing /\ w.change = batch.change
  BY <1>1, <1>2, SoundAuto
<1>5. Keeps(w) /\ Queues(w, pr)
  BY <1>4, Standing DEF Keeps, Queues, SameCandidate, MayBeQueued, Published
<1>6. /\ proc' \in Progress /\ proc'.cmd = proc.cmd /\ proc'.pc = "enable" /\ proc'.cfg = proc.cfg
      /\ proc'.seen = proc.seen /\ proc'.todo = proc.todo
  BY <1>1, Going
<1>7. PhaseInv'
  BY <1>1, <1>3, <1>4, <1>6 DEF PhaseInv, SameCandidate
<1>8. AttemptInv'
  BY <1>1, <1>3, <1>4, <1>6 DEF AttemptInv, Attempting, Published, SameCandidate
<1>9. ClearInv' /\ SettleInv' /\ SeenInv'
  BY <1>1, <1>3, <1>4, <1>6 DEF ClearInv, SettleInv, SeenInv, Settling
<1> QED
  BY <1>1, <1>3, <1>5, <1>6, <1>7, <1>8, <1>9, Recorded DEF ProcInv

LEMMA EnableSafe ==
  ASSUME IInv, EnableAutoMerge
  PROVE  IInv'
<1>1. /\ proc.pc = "enable" /\ proc \in Progress /\ proc.cmd # "none" /\ rec = NotLooked
      /\ PhaseInv /\ SettleInv /\ AttemptInv /\ ClearInv /\ SeenInv /\ PrInv /\ pr \in PullRequest
      /\ faults \in 0..MaxFaults /\ MaxFaults \in Nat
  BY Busy, ApprovalAssumption DEF EnableAutoMerge, At, IInv, ProcInv, TypeOK, ApprovalAssumption
<1>2. UNCHANGED <<batch, config, rec, moves>> /\ faults' \in 0..MaxFaults
  <2>1. /\ UNCHANGED <<batch, config, rec, moves>>
        /\ \/ faults' = faults
           \/ faults < MaxFaults /\ faults' = faults + 1
    BY DEF EnableAutoMerge, Forge
  <2> QED
    BY <1>1, <2>1
<1>3. /\ Published(batch) /\ batch.auto = "pending" /\ ~batch.change
      /\ batch.tracked => batch.approval = "confirmed" /\ ~batch.revoked
  BY <1>1 DEF AttemptInv, Attempting
<1>4. /\ Drifts(pr') /\ Queues(batch', pr') /\ pr'.tip = pr.tip
      /\ (pr.st = "merged" => pr'.st = "merged" /\ pr'.head = pr.head /\ pr'.proven = pr.proven)
  <2>1. CASE pr' = pr
    BY <1>1, <1>2, <2>1, Standing DEF Drifts, Queues
  <2>2. CASE pr.st = "open" /\ pr' = [pr EXCEPT !.queue = "broker"]
    <3>1. /\ pr' \in PullRequest /\ pr'.st = "open" /\ pr'.head = pr.head /\ pr'.tip = pr.tip
          /\ pr'.queue = "broker" /\ pr'.proven = pr.proven /\ pr'.opened = pr.opened
      BY <1>1, <2>2 DEF PullRequest
    <3>2. Drifts(pr')
      BY <2>2, <3>1, Standing DEF Drifts
    <3> QED
      BY <1>2, <1>3, <2>2, <3>1, <3>2 DEF Queues, MayBeQueued, Published
  <2>3. CASE pr.st = "open" /\ pr' = Land(pr)
    BY <2>3, Landing DEF Queues
  <2> QED
    BY <2>1, <2>2, <2>3 DEF EnableAutoMerge, Forge, Clean
<1>5. PICK ok \in BOOLEAN : proc' = [proc EXCEPT !.pc = "result", !.ok = ok]
  BY DEF EnableAutoMerge, Answer
<1>6. /\ proc' \in Progress /\ proc'.cmd = proc.cmd /\ proc'.pc = "result" /\ proc'.cfg = proc.cfg
      /\ proc'.seen = proc.seen /\ proc'.todo = proc.todo
  BY <1>1, <1>5 DEF Progress, Phases
<1>7. PhaseInv' /\ ClearInv'
  BY <1>1, <1>2, <1>6 DEF PhaseInv, ClearInv, Settling
<1>8. AttemptInv'
  BY <1>2, <1>3, <1>6 DEF AttemptInv, Published
<1>9. SettleInv' /\ SeenInv'
  BY <1>1, <1>4, <1>6 DEF SettleInv, SeenInv, Settling
<1>10. Keeps(batch')
  BY <1>2, Standing DEF Keeps
<1> QED
  BY <1>1, <1>2, <1>4, <1>6, <1>7, <1>8, <1>9, <1>10, Stepping DEF ProcInv

LEMMA ResultSafe ==
  ASSUME IInv, AttemptResult
  PROVE  IInv'
<1>1. /\ proc.pc = "result" /\ rec = NotLooked /\ Sound(batch) /\ AttemptInv /\ TipInv /\ proc' = Idle
  BY Busy DEF AttemptResult, At, End, IInv, ProcInv
<1>2. CASE ~proc.ok
  <2>1. Record(batch)
    BY <1>2 DEF AttemptResult
  <2> QED
    BY <1>1, <2>1, Recorded, Standing
<1>3. CASE proc.ok
  <2>1. PICK w : w = Enabled(batch)
    OBVIOUS
  <2>2. batch.status = "published" /\ (batch.approval # "none" => batch.state \in {"approved", "merging"})
    BY <1>1 DEF AttemptInv, Attempting, Published, Sound, SoundApproval, SoundStatus
  <2>3. /\ Sound(w) /\ SameCandidate(w, batch) /\ w.status = batch.status
        /\ w.state = (IF batch.approval # "none" THEN "merging" ELSE batch.state)
        /\ w.approval = batch.approval /\ w.auto = "on" /\ w.refresh = batch.refresh
    BY <1>1, <2>1, <2>2, SoundEnabled
  <2>4. Keeps(w) /\ Queues(w, pr)
    BY <1>1, <2>2, <2>3, Standing
       DEF Keeps, Queues, SameCandidate, MayBeQueued, Published, TipInv, Sticky, Final
  <2>5. Record(w)
    BY <1>3, <2>1 DEF AttemptResult
  <2> QED
    BY <1>1, <2>4, <2>5, Recorded
<1> QED
  BY <1>2, <1>3

-----------------------------------------------------------------------------
(* Evidence and approval.                                                  *)

LEMMA VerifySafe ==
  ASSUME IInv, NEW verdict \in {"passed", "failed"}, VerifyRecord(verdict)
  PROVE  IInv'
<1>1. /\ proc.pc = "evidence" /\ rec = NotLooked /\ Sound(batch) /\ PhaseInv /\ proc' = Idle
  BY Busy DEF VerifyRecord, At, End, IInv, ProcInv
<1>2. CASE batch.state \in Final \cup {"approved", "merging"}
  <2>1. Local /\ End
    BY <1>2 DEF VerifyRecord
  <2> QED
    BY <1>1, <2>1, Ending
<1>3. CASE batch.state \notin Final \cup {"approved", "merging"}
  <2>1. PICK w : w = Verified(batch, verdict)
    OBVIOUS
  <2>2. Record(w)
    BY <1>3, <2>1 DEF VerifyRecord, Verified
  <2>3. batch.tracked
    BY <1>1 DEF PhaseInv
  <2>4. /\ Sound(w) /\ SameCandidate(w, batch) /\ w.status = batch.status
        /\ (batch.state \in Sticky => w.state = batch.state) /\ w.approval = batch.approval
        /\ w.auto = batch.auto /\ w.refresh = batch.refresh
    BY <1>1, <1>3, <2>1, <2>3, SoundVerified
  <2>5. Keeps(w) /\ Queues(w, pr)
    BY <2>4, Standing DEF Keeps, Queues, SameCandidate, MayBeQueued, Published
  <2> QED
    BY <1>1, <2>2, <2>5, Recorded
<1> QED
  BY <1>2, <1>3

LEMMA LookSafe ==
  ASSUME IInv, ApproveInspect
  PROVE  IInv'
<1>1. /\ proc.pc = "look" /\ proc \in Progress /\ proc.cmd # "none" /\ rec = NotLooked /\ Sound(batch)
      /\ PhaseInv /\ SettleInv /\ AttemptInv /\ ClearInv /\ SeenInv /\ TipInv /\ Local
      /\ "grant" \in Phases
  BY Busy DEF ApproveInspect, At, IInv, ProcInv, Phases
<1>2. CASE End
  BY <1>1, <1>2, Ending
<1>3. CASE pr.tip = batch.base /\ Goto("grant")
  <2>1. /\ UNCHANGED <<batch, config, pr, rec, moves>> /\ faults' \in 0..MaxFaults
        /\ Keeps(batch') /\ Drifts(pr') /\ Queues(batch', pr')
    BY <1>1, Staying
  <2>2. /\ proc' \in Progress /\ proc'.cmd = proc.cmd /\ proc'.pc = "grant" /\ proc'.cfg = proc.cfg
        /\ proc'.seen = proc.seen /\ proc'.todo = proc.todo /\ proc'.arg = proc.arg
    BY <1>1, <1>3, Going
  <2>3. ~batch.closing
    <3>1. batch.state \notin Sticky
      BY <1>1 DEF PhaseInv, Approvable, Sticky, Final
    <3>2. ~batch.refresh
      BY <1>1, <1>3, <3>1, Standing DEF TipInv
    <3> QED
      BY <1>1, <3>2 DEF Sound, SoundStatus
  <2>4. PhaseInv'
    BY <1>1, <2>1, <2>2 DEF PhaseInv, Bound, Published
  <2>5. ClearInv'
    BY <1>1, <2>1, <2>2, <2>3 DEF ClearInv, Settling
  <2>6. SettleInv' /\ AttemptInv' /\ SeenInv'
    BY <1>1, <2>1, <2>2 DEF SettleInv, AttemptInv, SeenInv, Settling, Attempting
  <2> QED
    BY <1>1, <2>1, <2>2, <2>4, <2>5, <2>6, Stepping DEF ProcInv
<1> QED
  BY <1>2, <1>3 DEF ApproveInspect

LEMMA GrantSafe ==
  ASSUME IInv, ApproveGrant
  PROVE  IInv'
<1>1. /\ proc.pc = "grant" /\ proc \in Progress /\ proc.cmd = "approve" /\ proc.arg = Bound(batch)
      /\ rec = NotLooked /\ Sound(batch) /\ batch.tracked /\ batch.status = "published"
      /\ PhaseInv /\ SettleInv /\ AttemptInv /\ ClearInv /\ SeenInv /\ TipInv
  BY Busy DEF ApproveGrant, At, IInv, ProcInv, PhaseInv, Published
<1>2. CASE ~(batch.state \in Approvable /\ ~batch.lease)
  <2>1. Local /\ End
    BY <1>2 DEF ApproveGrant
  <2> QED
    BY <1>1, <2>1, Ending
<1>3. CASE batch.state \in Approvable /\ ~batch.lease
  <2>1. PICK w : w = IF batch.approval # "none" /\ ~batch.revoked /\ proc.cfg.trusts
                     THEN batch
                     ELSE [batch EXCEPT !.approval = "recorded", !.revoked = FALSE,
                                        !.grant = proc.arg, !.state = "approved"]
    OBVIOUS
  <2>2. Record(w) /\ Goto(SyncEntry) /\ batch' = w /\ pr' = pr
    BY <1>3, <2>1 DEF ApproveGrant, Record, World
  <2>3. \/ w = batch /\ batch.approval # "none"
        \/ /\ Sound(w) /\ SameCandidate(w, batch) /\ w.status = batch.status
           /\ w.approval = "recorded" /\ w.auto = batch.auto
           /\ w.refresh = batch.refresh /\ w.closing = batch.closing /\ w.change = batch.change
    <3>1. CASE w = batch /\ batch.approval # "none"
      BY <3>1
    <3>2. CASE w = [batch EXCEPT !.approval = "recorded", !.revoked = FALSE,
                                 !.grant = Bound(batch), !.state = "approved"]
      BY <1>1, <1>3, <3>2, SoundGranted
    <3> QED
      BY <1>1, <2>1, <3>1, <3>2
  <2>4. /\ Sound(w) /\ SameCandidate(w, batch) /\ w.status = batch.status
        /\ w.approval # "none" /\ w.auto = batch.auto
        /\ w.refresh = batch.refresh /\ w.closing = batch.closing /\ w.change = batch.change
    BY <1>1, <2>3 DEF SameCandidate
  <2>5. batch.refresh => batch.base < pr.tip
    BY <1>1, <1>3 DEF TipInv, Approvable, Sticky, Final
  <2>6. Keeps(w) /\ Queues(w, pr)
    BY <1>1, <2>4, <2>5, Standing DEF Keeps, Queues, SameCandidate, MayBeQueued, Published
  <2>7. PICK pc \in {"inspect", "change"} :
            pc = SyncEntry /\ (pc = "change" <=> batch.change)
    BY DEF SyncEntry
  <2>8. /\ proc' \in Progress /\ proc'.cmd = proc.cmd /\ proc'.pc = pc /\ proc'.cfg = proc.cfg
        /\ proc'.seen = proc.seen /\ proc'.todo = proc.todo /\ proc'.arg = proc.arg
    <3>1. pc \in Phases /\ Goto(pc)
      BY <2>2, <2>7 DEF Phases
    <3> QED
      BY <1>1, <3>1, Going
  <2>9. PhaseInv'
    BY <1>1, <2>2, <2>4, <2>7, <2>8 DEF PhaseInv, SameCandidate
  <2>10. ~batch.closing
    BY <1>1 DEF ClearInv
  <2>11. ClearInv'
    BY <1>1, <2>2, <2>4, <2>7, <2>8, <2>10 DEF ClearInv, Settling
  <2>12. SettleInv' /\ AttemptInv' /\ SeenInv'
    BY <1>1, <2>2, <2>8 DEF SettleInv, AttemptInv, SeenInv, Settling, Attempting
  <2> QED
    BY <1>1, <2>2, <2>6, <2>8, <2>9, <2>11, <2>12, Recorded DEF ProcInv
<1> QED
  BY <1>2, <1>3

-----------------------------------------------------------------------------
(* Revision and its recovery.                                              *)

LEMMA IntendSafe ==
  ASSUME IInv, ReviseIntend
  PROVE  IInv'
<1>1. /\ proc.pc = "build" /\ proc \in Progress /\ proc.cmd = "revise" /\ rec = NotLooked
      /\ Sound(batch) /\ batch \in BatchRecord /\ pr \in PullRequest
      /\ batch.tracked /\ batch.status \in {"prepared", "published"} /\ batch.intent = NoIntent
      /\ batch.rev < MaxRev /\ proc.seen.st = "none"
      /\ PhaseInv /\ SettleInv /\ AttemptInv /\ ClearInv /\ SeenInv /\ HeadInv /\ TipInv
      /\ proc.cfg \in Config /\ MaxRev \in Nat
  BY Busy, ApprovalAssumption
     DEF ReviseIntend, At, IInv, ProcInv, PhaseInv, TypeOK, Progress, ApprovalAssumption
<1>2. CASE ~Revisable
  <2>1. Local /\ End
    BY <1>2 DEF ReviseIntend
  <2> QED
    BY <1>1, <2>1, Ending
<1>3. CASE Revisable
  <2>1. PICK i : i = [rev |-> batch.rev + 1, base |-> pr.tip, policy |-> proc.cfg.policy]
    OBVIOUS
  <2>2. /\ batch.rev \in Int /\ 1 <= batch.rev /\ batch.rev + 1 \in Rev /\ pr.tip \in Tip /\ pr.tip \in Int
        /\ pr.head \in Int /\ proc.cfg.policy \in {1, 2} /\ batch.base \in Int
    BY <1>1 DEF BatchRecord, PullRequest, Config, Rev, Tip, Foreign
  <2>3. i \in Binding /\ i.rev = batch.rev + 1 /\ i.base = pr.tip /\ i # NoIntent
    BY <2>1, <2>2 DEF Binding, NoIntent
  <2>4. PICK w : w = Intended(batch, i)
    OBVIOUS
  <2>5. /\ batch' = w /\ config' = config /\ pr' = pr /\ rec' = rec /\ moves' = moves
        /\ faults' = faults /\ Goto("push") /\ "push" \in Phases
    BY <1>3, <2>1, <2>4 DEF ReviseIntend, Record, World, Intended, Phases
  <2>6. /\ Sound(w) /\ w.tracked = batch.tracked /\ w.rev = batch.rev /\ w.base = batch.base
        /\ w.intent = i /\ w.url = batch.url /\ w.status = batch.status
        /\ w.state = batch.state /\ w.approval = batch.approval /\ w.auto = batch.auto
        /\ w.refresh = batch.refresh
    <3>1. /\ Sound(batch) /\ i \in Binding /\ batch.tracked /\ i.rev = batch.rev + 1
          /\ batch.status \in {"prepared", "published"}
      BY <1>1, <2>3
    <3> QED
      BY <2>4, <3>1, SoundIntended
  <2>7. /\ proc' \in Progress /\ proc'.cmd = proc.cmd /\ proc'.pc = "push" /\ proc'.cfg = proc.cfg
        /\ proc'.seen = proc.seen /\ proc'.todo = proc.todo /\ proc'.arg = proc.arg
    BY <1>1, <2>5, Going
  <2>8. ProcInv'
    <3>1. PhaseInv'
      BY <1>1, <1>3, <2>3, <2>5, <2>6, <2>7 DEF PhaseInv, Revisable
    <3>2. SettleInv' /\ AttemptInv' /\ ClearInv' /\ SeenInv'
      BY <1>1, <2>5, <2>7 DEF SettleInv, AttemptInv, ClearInv, SeenInv, Settling, Attempting
    <3> QED
      BY <3>1, <3>2 DEF ProcInv
  <2>9. TypeOK'
    BY <2>5, <2>6, <2>7 DEF IInv, TypeOK, Sound, SoundStatus, Published
  <2>10. QueueInv' /\ PrInv' /\ MergedIsProven'
    <3>1. QueueInv'
      BY <2>5, <2>6, <2>7 DEF IInv, QueueInv, MayBeQueued, Published
    <3>2. PrInv' /\ MergedIsProven'
      BY <1>1, <2>5, <2>6 DEF IInv, PrInv, MergedIsProven
    <3> QED
      BY <3>1, <3>2
  <2>11. HeadInv' /\ RecInv' /\ TipInv'
    <3>1. ~(pr.head > batch.rev)
      BY <1>1, <2>2 DEF HeadInv, NoIntent
    <3>2. HeadInv' /\ RecInv'
      BY <1>1, <2>5, <2>6, <3>1 DEF HeadInv, RecInv
    <3>3. TipInv'
      BY <1>1, <2>2, <2>3, <2>5, <2>6 DEF TipInv
    <3> QED
      BY <3>2, <3>3
  <2> QED
    BY <2>5, <2>6, <2>8, <2>9, <2>10, <2>11 DEF IInv
<1> QED
  BY <1>2, <1>3

LEMMA PushSafe ==
  ASSUME IInv, RevisePush
  PROVE  IInv'
<1>1. /\ proc.pc = "push" /\ proc \in Progress /\ proc.cmd = "revise" /\ rec = NotLooked
      /\ Sound(batch) /\ batch \in BatchRecord /\ pr \in PullRequest
      /\ batch.tracked /\ batch.status \in {"prepared", "published"} /\ batch.intent # NoIntent
      /\ proc.seen.st = "none" /\ batch.state = "changes_requested"
      /\ PhaseInv /\ SettleInv /\ AttemptInv /\ ClearInv /\ SeenInv
      /\ "finalize" \in Phases
  BY Busy DEF RevisePush, At, IInv, ProcInv, PhaseInv, TypeOK, Phases
<1>2. batch.intent.rev \in Rev
  BY <1>1 DEF BatchRecord, Binding
<1>3. CASE End
  <2>1. Local
    <3>1. (batch.url /\ pr.head # batch.rev) \/ Goto("finalize")
      BY DEF RevisePush
    <3>2. ~Goto("finalize")
      BY <1>1, <1>3, Going, IdleFields DEF End
    <3> QED
      BY <3>1, <3>2 DEF RevisePush
  <2> QED
    BY <1>1, <1>3, <2>1, Ending
<1>4. CASE Goto("finalize")
  <2>1. /\ proc' \in Progress /\ proc'.cmd = proc.cmd /\ proc'.pc = "finalize" /\ proc'.cfg = proc.cfg
        /\ proc'.seen = proc.seen /\ proc'.todo = proc.todo /\ proc'.arg = proc.arg
    BY <1>1, <1>4, Going
  <2>2. CASE ~batch.url
    <3>1. PICK w : w = LocalMoved(batch, batch.intent.rev)
      OBVIOUS
    <3>2. Record(w) /\ batch' = w /\ pr' = pr
      BY <2>2, <3>1 DEF RevisePush, LocalMoved, Record, World
    <3>3. /\ Sound(w) /\ SameCandidate(w, batch) /\ w.status = batch.status /\ w.state = batch.state
          /\ w.approval = batch.approval /\ w.auto = batch.auto /\ w.refresh = batch.refresh
      BY <1>1, <1>2, <3>1, SoundLocal
    <3>4. Keeps(w) /\ Queues(w, pr)
      BY <3>3, Standing DEF Keeps, Queues, SameCandidate, MayBeQueued, Published
    <3>5. PhaseInv'
      BY <1>1, <2>1, <3>2, <3>3 DEF PhaseInv, SameCandidate
    <3>6. SettleInv' /\ AttemptInv' /\ ClearInv' /\ SeenInv'
      BY <1>1, <2>1, <3>2 DEF SettleInv, AttemptInv, ClearInv, SeenInv, Settling, Attempting
    <3> QED
      BY <1>1, <2>1, <3>2, <3>4, <3>5, <3>6, Recorded DEF ProcInv
  <2>3. CASE batch.url
    <3>1. PICK x : x = IF pr.review = "conflict" THEN "none" ELSE pr.review
      OBVIOUS
    <3>2. x \in {"none", "rejected", "conflict"}
      BY <1>1, <3>1 DEF PullRequest
    <3>3. PICK h \in Rev : h = batch.intent.rev
      BY <1>2
    <3>4. /\ pr' = [pr EXCEPT !.head = h, !.checks = "pending", !.review = x]
          /\ UNCHANGED <<batch, config, rec, moves, faults>>
      <4>1. pr.head = batch.rev
        <5>1. End => ~Goto("finalize")
          BY <1>1, Going, IdleFields DEF End
        <5> QED
          BY <1>4, <2>3, <5>1 DEF RevisePush
      <4> QED
        BY <2>3, <3>1, <3>3, <4>1 DEF RevisePush, Forge
    <3>5. /\ pr' \in PullRequest /\ pr'.st = pr.st /\ pr'.head = h /\ pr'.tip = pr.tip
          /\ pr'.queue = pr.queue /\ pr'.proven = pr.proven /\ pr'.opened = pr.opened
      BY <1>1, <3>2, <3>4 DEF PullRequest
    <3>6. TypeOK'
      BY <2>1, <3>4, <3>5 DEF IInv, TypeOK, Published
    <3>7. PhaseInv'
      BY <1>1, <2>1, <3>4 DEF PhaseInv
    <3>8. SettleInv' /\ AttemptInv' /\ ClearInv' /\ SeenInv'
      BY <1>1, <2>1, <3>4, <3>5 DEF SettleInv, AttemptInv, ClearInv, SeenInv, Settling, Attempting
    <3>9. QueueInv' /\ PrInv'
      BY <2>1, <3>4, <3>5 DEF IInv, QueueInv, PrInv, MayBeQueued, Published
    <3>10. HeadInv' /\ RecInv' /\ MergedIsProven'
      BY <1>1, <2>3, <3>3, <3>4, <3>5 DEF HeadInv, RecInv, MergedIsProven
    <3>11. TipInv'
      BY <3>4, <3>5 DEF IInv, TipInv
    <3>12. Sound(batch')
      BY <1>1, <3>4
    <3> QED
      BY <3>6, <3>7, <3>8, <3>9, <3>10, <3>11, <3>12 DEF IInv, ProcInv
  <2> QED
    BY <2>2, <2>3
<1> QED
  BY <1>3, <1>4 DEF RevisePush

\* The candidate is replaced by the revision that was announced.
LEMMA Replaced ==
  ASSUME IInv, batch.intent # NoIntent, batch.state = "changes_requested",
         batch' = Finalized(batch), UNCHANGED <<config, pr, moves, faults>>, rec' = NotLooked,
         proc' \in Progress, ProcInv', proc'.pc = "idle"
  PROVE  IInv'
<1>1. PICK w : w = Finalized(batch)
  OBVIOUS
<1>2. Sound(batch) /\ batch \in BatchRecord /\ pr \in PullRequest /\ QueueInv /\ HeadInv /\ TipInv
  BY DEF IInv, TypeOK
<1>3. /\ Sound(w) /\ w.tracked = TRUE /\ w.rev = batch.intent.rev /\ w.base = batch.intent.base
      /\ w.intent = NoIntent /\ w.url = batch.url /\ w.status = batch.status /\ w.approval = "none"
      /\ ~w.refresh
  BY <1>1, <1>2, SoundFinalized
<1>4. pr.queue # "broker"
  BY <1>2 DEF QueueInv, Sound, SoundApproval, SoundIntent
<1>5. batch.status \in {"prepared", "published"} /\ batch.intent.rev = batch.rev + 1
  BY <1>2 DEF Sound, SoundIntent
<1>6. pr.head \in Int /\ batch.rev \in Int /\ pr.tip \in Tip
  BY <1>2 DEF BatchRecord, PullRequest, Rev, Foreign
<1>7. TypeOK'
  BY <1>1, <1>3 DEF IInv, TypeOK, Sound, SoundStatus, Published, NotLooked
<1>8. QueueInv' /\ PrInv' /\ MergedIsProven'
  BY <1>1, <1>3, <1>4, <1>5 DEF IInv, QueueInv, PrInv, MergedIsProven
<1>9. HeadInv' /\ RecInv'
  BY <1>1, <1>2, <1>3, <1>5, <1>6 DEF HeadInv, RecInv
<1>10. TipInv'
  <2>1. NoIntent.base <= pr.tip
    BY <1>6 DEF NoIntent, Tip
  <2> QED
    BY <1>1, <1>2, <1>3, <2>1 DEF TipInv
<1> QED
  BY <1>1, <1>3, <1>7, <1>8, <1>9, <1>10 DEF IInv

LEMMA FinalizeSafe ==
  ASSUME IInv, ReviseFinalize
  PROVE  IInv'
<1>1. /\ proc.pc = "finalize" /\ rec = NotLooked /\ batch.intent # NoIntent
      /\ batch.state = "changes_requested" /\ proc' = Idle
  BY Busy DEF ReviseFinalize, At, End, IInv, ProcInv, PhaseInv
<1>2. batch' = Finalized(batch) /\ UNCHANGED <<config, pr, moves, faults>> /\ rec' = NotLooked
  BY <1>1 DEF ReviseFinalize, Record, World
<1>3. proc' \in Progress /\ ProcInv' /\ proc'.pc = "idle"
  BY <1>1, <1>2, Standing, Ended
<1> QED
  BY <1>1, <1>2, <1>3, Replaced

LEMMA LookUpSafe ==
  ASSUME IInv, RecoverLook
  PROVE  IInv'
<1>1. /\ batch.intent # NoIntent /\ proc.cmd = "none" /\ rec' = BranchHead
      /\ UNCHANGED <<batch, config, pr, proc, moves, faults>>
      /\ batch \in BatchRecord /\ pr \in PullRequest
  BY DEF RecoverLook, IInv, ProcInv, PhaseInv, TypeOK
<1>2. rec' \in {NotLooked, Foreign} \cup Rev
  BY <1>1 DEF BranchHead, BatchRecord, PullRequest
<1>3. TypeOK'
  BY <1>1, <1>2 DEF IInv, TypeOK, Published
<1>4. RecInv'
  <2>1. pr.head \in Int /\ batch.rev \in Int
    BY <1>1 DEF BatchRecord, PullRequest, Rev, Foreign
  <2> QED
    BY <1>1, <2>1 DEF IInv, RecInv, HeadInv, BranchHead
<1>5. ProcInv'
  <2>1. proc.pc = "idle"
    BY <1>1 DEF IInv, ProcInv, PhaseInv
  <2> QED
    BY <1>1, <2>1, IdleKept
<1>6. QueueInv' /\ PrInv' /\ HeadInv' /\ MergedIsProven' /\ TipInv'
  <2>1. proc.pc = "idle"
    BY <1>1 DEF IInv, ProcInv, PhaseInv
  <2> QED
    BY <1>1, <2>1 DEF IInv, QueueInv, PrInv, HeadInv, MergedIsProven, TipInv, MayBeQueued, Published
<1>7. Sound(batch')
  BY <1>1 DEF IInv
<1> QED
  BY <1>3, <1>4, <1>5, <1>6, <1>7 DEF IInv

LEMMA SettledUpSafe ==
  ASSUME IInv, RecoverSettle
  PROVE  IInv'
<1>1. /\ rec # NotLooked /\ rec' = NotLooked /\ proc.cmd = "none" /\ batch.intent # NoIntent
      /\ UNCHANGED <<config, pr, proc, moves, faults>> /\ Sound(batch) /\ PhaseInv /\ RecInv
      /\ batch \in BatchRecord /\ pr \in PullRequest
  BY DEF RecoverSettle, IInv, RecInv, ProcInv, TypeOK
<1>2. proc.pc = "idle"
  BY <1>1 DEF PhaseInv
<1>3. proc' \in Progress /\ ProcInv' /\ proc'.pc = "idle"
  BY <1>1, <1>2, IdleKept
<1>4. CASE rec = batch.intent.rev /\ batch.state = "changes_requested"
  <2>1. batch' = Finalized(batch)
    BY <1>4 DEF RecoverSettle
  <2> QED
    BY <1>1, <1>3, <1>4, <2>1, Replaced
<1>5. CASE rec = batch.rev /\ batch' = [batch EXCEPT !.intent = NoIntent]
  <2>1. PICK w : w = [batch EXCEPT !.intent = NoIntent]
    OBVIOUS
  <2>2. /\ Sound(w) /\ w.tracked = batch.tracked /\ w.rev = batch.rev /\ w.base = batch.base
        /\ w.intent = NoIntent /\ w.url = batch.url /\ w.status = batch.status
        /\ w.state = batch.state /\ w.approval = batch.approval /\ w.auto = batch.auto
        /\ w.refresh = batch.refresh
    BY <1>1, <2>1, SoundForgotten
  <2>3. batch' = w
    BY <1>5, <2>1
  <2>4. TypeOK'
    BY <1>1, <1>3, <2>2, <2>3 DEF IInv, TypeOK, Sound, SoundStatus, Published
  <2>5. QueueInv' /\ PrInv' /\ MergedIsProven'
    BY <1>1, <1>2, <2>2, <2>3 DEF IInv, QueueInv, PrInv, MergedIsProven, MayBeQueued, Published
  <2>6. HeadInv' /\ RecInv'
    <3>1. pr.head \in Int /\ batch.rev \in Int
      BY <1>1 DEF BatchRecord, PullRequest, Rev, Foreign
    <3> QED
      BY <1>1, <1>5, <2>2, <2>3, <3>1 DEF HeadInv, RecInv
  <2>7. TipInv'
    <3>1. NoIntent.base <= pr.tip
      BY Standing DEF NoIntent, Tip
    <3> QED
      BY <1>1, <2>2, <2>3, <3>1 DEF IInv, TipInv
  <2> QED
    BY <1>3, <2>2, <2>3, <2>4, <2>5, <2>6, <2>7 DEF IInv
<1>6. CASE batch' = batch
  <2>1. TypeOK' /\ Sound(batch')
    BY <1>1, <1>6 DEF IInv, TypeOK, Published
  <2>2. QueueInv' /\ PrInv' /\ MergedIsProven' /\ HeadInv' /\ RecInv' /\ TipInv'
    BY <1>1, <1>2, <1>6
       DEF IInv, QueueInv, PrInv, MergedIsProven, HeadInv, RecInv, TipInv, MayBeQueued, Published
  <2> QED
    BY <1>3, <2>1, <2>2 DEF IInv
<1> QED
  BY <1>4, <1>5, <1>6 DEF RecoverSettle

-----------------------------------------------------------------------------
(* Refresh and close.                                                      *)

LEMMA TargetSafe ==
  ASSUME IInv, RefreshIntent
  PROVE  IInv'
<1>1. /\ proc.pc = "target" /\ proc \in Progress /\ proc.cmd = "refresh" /\ rec = NotLooked
      /\ Sound(batch) /\ batch \in BatchRecord /\ pr.tip \in Int /\ batch.base \in Int
      /\ PhaseInv /\ SettleInv /\ AttemptInv /\ ClearInv /\ SeenInv /\ QueueInv /\ TipInv
  BY Busy, Standing DEF RefreshIntent, At, IInv, ProcInv, PhaseInv, TypeOK, BatchRecord, Tip
<1>2. CASE pr.tip = batch.base /\ ~batch.refresh /\ ~batch.closing
  <2>1. Local /\ End
    BY <1>2 DEF RefreshIntent
  <2> QED
    BY <1>1, <2>1, Ending
<1>3. CASE ~(pr.tip = batch.base /\ ~batch.refresh /\ ~batch.closing)
  <2>1. PICK x \in BOOLEAN : x = batch.url
    BY <1>1 DEF BatchRecord
  <2>2. PICK w : w = ToRefresh(batch, x)
    OBVIOUS
  <2>3. Record(w) /\ batch' = w /\ pr' = pr /\ config' = config /\ rec' = rec /\ moves' = moves
        /\ faults' = faults
    BY <1>3, <2>1, <2>2 DEF RefreshIntent, ToRefresh, Record, World
  <2>4. /\ Sound(w) /\ SameCandidate(w, batch) /\ w.status = batch.status /\ w.state = batch.state
        /\ w.approval = batch.approval /\ w.auto = batch.auto /\ w.change = batch.change
    BY <1>1, <2>2, SoundToRefresh
  <2>5. batch.base < pr.tip \/ batch.state \in Sticky
    BY <1>1, <1>3 DEF TipInv, Sound, SoundStatus
  <2>6. Keeps(w) /\ Queues(w, pr)
    BY <2>4, <2>5, Standing DEF Keeps, Queues, SameCandidate, MayBeQueued, Published
  <2>7. \/ proc' = [proc EXCEPT !.pc = "disable", !.todo = "refresh"]
        \/ proc' = [proc EXCEPT !.pc = "close"] /\ batch.auto = "off"
        \/ proc' = [proc EXCEPT !.pc = "retire"] /\ ~batch.url
    BY <1>3, <2>1 DEF RefreshIntent
  <2>8. /\ proc' \in Progress /\ proc'.cmd = proc.cmd /\ proc'.pc \in {"disable", "close", "retire"}
        /\ proc'.seen = proc.seen /\ (proc'.pc = "disable" => proc'.todo = "refresh")
        /\ proc'.pc = "close" => batch.auto = "off"
        /\ proc'.pc = "retire" => ~batch.url
    <3>1. {"disable", "close", "retire"} \subseteq Phases /\ "refresh" \in Todo
      BY DEF Phases, Todo
    <3> QED
      BY <1>1, <2>7, <3>1 DEF Progress
  <2>9. PhaseInv'
    BY <1>1, <2>3, <2>4, <2>8 DEF PhaseInv, SameCandidate
  <2>10. SettleInv'
    BY <1>1, <2>3, <2>8 DEF SettleInv, Settling, Carrying
  <2>11. AttemptInv' /\ ClearInv' /\ SeenInv'
    BY <1>1, <2>3, <2>8 DEF AttemptInv, ClearInv, SeenInv, Attempting
  <2>12. proc'.pc \in {"close", "rejected", "retire"} => pr'.queue # "broker"
    BY <1>1, <2>3, <2>8 DEF QueueInv, MayBeQueued, Published, Sound, SoundStatus
  <2>13. proc'.pc # "settle" /\ Drifts(pr') /\ faults' \in 0..MaxFaults
    BY <2>3, <2>8, Standing DEF Drifts, IInv, TypeOK
  <2> QED
    BY <1>1, <2>3, <2>6, <2>8, <2>9, <2>10, <2>11, <2>12, <2>13, Stepping DEF ProcInv, Queues
<1> QED
  BY <1>2, <1>3

LEMMA CloseRequestSafe ==
  ASSUME IInv, RefreshClose
  PROVE  IInv'
<1>1. /\ proc.pc = "close" /\ proc \in Progress /\ proc.cmd = "refresh" /\ rec = NotLooked
      /\ pr \in PullRequest /\ UNCHANGED <<batch, config, rec, moves>> /\ faults' \in 0..MaxFaults
      /\ PhaseInv /\ SettleInv /\ AttemptInv /\ ClearInv /\ SeenInv /\ QueueInv /\ PrInv
  BY Busy DEF RefreshClose, At, IInv, ProcInv, PhaseInv, TypeOK, Forge
<1>2. Keeps(batch')
  BY <1>1, Standing DEF Keeps
<1>3. /\ Drifts(pr') /\ pr'.tip = pr.tip /\ pr'.queue # "broker"
      /\ (pr.st = "merged" => pr'.st = "merged" /\ pr'.head = pr.head /\ pr'.proven = pr.proven)
  <2>1. CASE pr' = pr
    BY <1>1, <2>1, Standing DEF Drifts, QueueInv
  <2>2. CASE pr.st = "open" /\ pr' = [pr EXCEPT !.st = "closed", !.queue = "none", !.marker = TRUE,
                                                !.by = "broker"]
    <3>1. /\ pr' \in PullRequest /\ pr'.st = "closed" /\ pr'.head = pr.head /\ pr'.tip = pr.tip
          /\ pr'.queue = "none" /\ pr'.proven = pr.proven /\ pr'.opened = pr.opened
      BY <1>1, <2>2 DEF PullRequest
    <3> QED
      BY <2>2, <3>1, Standing DEF Drifts
  <2> QED
    BY <2>1, <2>2 DEF RefreshClose, Forge
<1>4. Queues(batch', pr')
  BY <1>3 DEF Queues
<1>5. CASE proc' = Idle
  <2>1. proc' \in Progress /\ ProcInv' /\ proc'.pc = "idle"
    BY <1>3, <1>5, Standing, Ended
  <2> QED
    BY <1>1, <1>2, <1>3, <1>4, <2>1, Stepping
<1>6. ASSUME NEW pc \in {"retire", "rejected"}, Goto(pc)
      PROVE  IInv'
  <2>1. /\ proc' \in Progress /\ proc'.cmd = proc.cmd /\ proc'.pc = pc /\ proc'.cfg = proc.cfg
        /\ proc'.seen = proc.seen /\ proc'.todo = proc.todo
    BY <1>1, <1>6, Going DEF Phases
  <2>2. PhaseInv'
    BY <1>1, <2>1 DEF PhaseInv
  <2>3. SettleInv' /\ AttemptInv' /\ ClearInv' /\ SeenInv'
    BY <1>1, <1>3, <2>1 DEF SettleInv, AttemptInv, ClearInv, SeenInv, Settling, Attempting
  <2> QED
    BY <1>1, <1>2, <1>3, <1>4, <2>1, <2>2, <2>3, Stepping DEF ProcInv
<1> QED
  BY <1>5, <1>6 DEF RefreshClose, End, OnMarker

LEMMA RejectedSafe ==
  ASSUME IInv, RefreshRejected
  PROVE  IInv'
<1>1. /\ proc.pc = "rejected" /\ rec = NotLooked /\ proc' = Idle
      /\ batch.status # "merged" /\ pr.queue # "broker"
  BY Busy DEF RefreshRejected, At, End, IInv, ProcInv, PhaseInv, QueueInv
<1>2. CASE MayClose(batch)
  <2>1. Record(Closed(batch))
    BY <1>2 DEF RefreshRejected
  <2> QED
    BY <1>1, <1>2, <2>1, ClosedKept, Recorded
<1>3. CASE ~MayClose(batch)
  <2>1. Record(batch)
    BY <1>3 DEF RefreshRejected
  <2> QED
    BY <1>1, <2>1, Standing, Recorded
<1> QED
  BY <1>2, <1>3

LEMMA RetireSafe ==
  ASSUME IInv, RefreshRetire
  PROVE  IInv'
<1>1. /\ proc.pc = "retire" /\ rec = NotLooked /\ proc' = Idle /\ Sound(batch)
      /\ batch.status # "merged" /\ pr.queue # "broker" /\ batch.intent = NoIntent
  BY Busy DEF RefreshRetire, At, End, IInv, ProcInv, PhaseInv, QueueInv
<1>2. PICK w : w = [NoApproval(batch) EXCEPT !.status = "closed", !.auto = "off",
                      !.change = FALSE, !.refresh = FALSE, !.closing = FALSE, !.requeued = TRUE,
                      !.state = IF batch.tracked THEN "superseded" ELSE @]
  OBVIOUS
<1>3. Record(w)
  BY <1>2 DEF RefreshRetire
<1>4. Sound(w) /\ SameCandidate(w, batch) /\ w.status = "closed" /\ ~w.refresh
  BY <1>1, <1>2, SoundRetired
<1>5. Keeps(w) /\ Queues(w, pr)
  BY <1>1, <1>4 DEF Keeps, Queues, SameCandidate
<1> QED
  BY <1>1, <1>3, <1>5, Recorded

LEMMA RecheckSafe ==
  ASSUME IInv, CloseRecheck
  PROVE  IInv'
<1>1. /\ proc.pc = "recheck" /\ proc \in Progress /\ proc.cmd = "close" /\ rec = NotLooked
      /\ PhaseInv /\ SettleInv /\ AttemptInv /\ ClearInv /\ SeenInv /\ Local /\ "inspect" \in Phases
  BY Busy DEF CloseRecheck, At, IInv, ProcInv, PhaseInv, Phases
<1>2. CASE End
  BY <1>1, <1>2, Ending
<1>3. CASE batch.status # "merged" /\ Goto("inspect")
  <2>1. /\ UNCHANGED <<batch, config, pr, rec, moves>> /\ faults' \in 0..MaxFaults
        /\ Keeps(batch') /\ Drifts(pr') /\ Queues(batch', pr')
    BY <1>1, Staying
  <2>2. /\ proc' \in Progress /\ proc'.cmd = proc.cmd /\ proc'.pc = "inspect" /\ proc'.cfg = proc.cfg
        /\ proc'.seen = proc.seen /\ proc'.todo = proc.todo
    BY <1>1, <1>3, Going
  <2>3. PhaseInv'
    BY <1>1, <1>3, <2>1, <2>2 DEF PhaseInv
  <2>4. SettleInv' /\ AttemptInv' /\ ClearInv' /\ SeenInv'
    BY <1>1, <2>1, <2>2 DEF SettleInv, AttemptInv, ClearInv, SeenInv, Settling, Attempting
  <2> QED
    BY <1>1, <2>1, <2>2, <2>3, <2>4, Stepping DEF ProcInv
<1> QED
  BY <1>2, <1>3 DEF CloseRecheck

LEMMA StopSafe ==
  ASSUME IInv, Stop
  PROVE  IInv'
<1>1. /\ UNCHANGED <<batch, config, pr, moves>> /\ faults' \in 0..MaxFaults
      /\ rec' \in {rec, NotLooked}
      /\ \/ proc' = Idle
         \/ rec # NotLooked /\ rec' = NotLooked /\ proc' = proc
  <2>1. faults' = faults + 1 /\ faults < MaxFaults /\ faults \in 0..MaxFaults /\ MaxFaults \in Nat
    BY ApprovalAssumption DEF Stop, IInv, TypeOK, ApprovalAssumption
  <2> QED
    BY <2>1 DEF Stop
<1>2. /\ proc' \in Progress /\ ProcInv' /\ proc'.pc = "idle" /\ proc'.cmd = "none"
  <2>1. CASE proc' = Idle
    BY <1>1, <2>1, Standing, Ended
  <2>2. CASE rec # NotLooked /\ rec' = NotLooked /\ proc' = proc
    <3>1. proc.pc = "idle"
      BY <2>2 DEF IInv, RecInv, ProcInv, PhaseInv
    <3> QED
      BY <1>1, <2>2, <3>1, IdleKept
  <2> QED
    BY <1>1, <2>1, <2>2
<1>3. TypeOK' /\ Sound(batch')
  BY <1>1, <1>2 DEF IInv, TypeOK, Published
<1>4. QueueInv' /\ PrInv' /\ HeadInv' /\ MergedIsProven' /\ TipInv' /\ RecInv'
  BY <1>1, <1>2 DEF IInv, QueueInv, PrInv, HeadInv, MergedIsProven, TipInv, RecInv, MayBeQueued, Published
<1> QED
  BY <1>2, <1>3, <1>4 DEF IInv

-----------------------------------------------------------------------------
(* The inductive invariant, and what follows from it.                      *)

LEMMA InitInv ==
  ASSUME Init
  PROVE  IInv
<1>1. /\ pr.st = "none" /\ pr.head = Foreign /\ pr.tip = 1 /\ pr.queue = "none" /\ pr.checks = "pending"
      /\ pr.review = "none" /\ pr.marker = FALSE /\ pr.by = "none" /\ pr.proven = FALSE /\ pr.opened = 0
  BY DEF Init, NoPullRequest
<1>2. /\ batch.status = "prepared" /\ batch.rev = 1 /\ batch.base = 1 /\ batch.intent = NoIntent
      /\ ~batch.refresh
  BY DEF Init
<1>3. proc = Idle /\ rec = NotLooked /\ moves = 0 /\ faults = 0 /\ config = First
  BY DEF Init
<1>4. Sound(batch)
  BY InitSound
<1>5. TypeOK
  <2>1. pr \in PullRequest
    <3>1. 1 \in Tip
      BY ApprovalAssumption DEF Tip, ApprovalAssumption
    <3>2. [st |-> "none", head |-> Foreign, tip |-> 1, queue |-> "none", checks |-> "pending",
           review |-> "none", marker |-> FALSE, by |-> "none", proven |-> FALSE, opened |-> 0]
          \in PullRequest
      BY <3>1 DEF PullRequest
    <3> QED
      BY <3>2 DEF Init, NoPullRequest
  <2>2. First \in Configs /\ 0 \in 0..MaxMoves /\ 0 \in 0..MaxFaults
    BY ApprovalAssumption DEF ApprovalAssumption
  <2> QED
    BY <1>2, <1>3, <1>4, <2>1, <2>2, IdleType DEF TypeOK, Sound, Published
<1>6. ProcInv
  <2>1. proc.cmd = "none" /\ proc.pc = "idle" /\ proc.seen.st = "none" /\ proc.seen.tip = 1
    BY <1>3, IdleFields
  <2> QED
    BY <1>1, <2>1 DEF ProcInv, PhaseInv, SettleInv, AttemptInv, ClearInv, SeenInv, Settling, Attempting
<1>7. QueueInv /\ PrInv /\ HeadInv /\ MergedIsProven /\ RecInv /\ TipInv
  BY <1>1, <1>2, <1>3, IdleFields
     DEF QueueInv, PrInv, HeadInv, MergedIsProven, RecInv, TipInv, Foreign, NoIntent
<1> QED
  BY <1>4, <1>5, <1>6, <1>7 DEF IInv

LEMMA StepSafe ==
  ASSUME IInv, Step
  PROVE  IInv'
  BY InspectSafe, JournalSafe, DisableSafe, SettleSafe, ChangeSafe, FreshSafe, CreateSafe, RecordSafe,
     AttemptSafe, EnableSafe, ResultSafe, VerifySafe, LookSafe, GrantSafe, IntendSafe, PushSafe,
     FinalizeSafe, TargetSafe, CloseRequestSafe, RejectedSafe, RetireSafe, RecheckSafe
     DEF Step

LEMMA NextSafe ==
  ASSUME IInv, [Next]_vars
  PROVE  IInv'
<1>1. CASE Next
  BY <1>1, StepSafe, CommandSafe, LookUpSafe, SettledUpSafe, AroundSafe, StopSafe DEF Next
<1>2. CASE UNCHANGED vars
  <2>1. TypeOK' /\ Sound(batch')
    BY <1>2 DEF vars, IInv, TypeOK, Published
  <2>2. PhaseInv'
    BY <1>2 DEF vars, IInv, ProcInv, PhaseInv, Published, Bound
  <2>3. SettleInv'
    BY <1>2 DEF vars, IInv, ProcInv, SettleInv, Invalidated, PolicyCurrent, ActorCurrent
  <2>4. AttemptInv' /\ ClearInv' /\ SeenInv'
    BY <1>2 DEF vars, IInv, ProcInv, AttemptInv, ClearInv, SeenInv, Published
  <2>5. QueueInv'
    BY <1>2 DEF vars, IInv, QueueInv, SettleQueue, MayBeQueued, Published, Invalidated, PolicyCurrent,
                ActorCurrent
  <2>6. PrInv' /\ HeadInv' /\ MergedIsProven' /\ RecInv' /\ TipInv'
    BY <1>2 DEF vars, IInv, PrInv, HeadInv, MergedIsProven, RecInv, TipInv
  <2> QED
    BY <2>1, <2>2, <2>3, <2>4, <2>5, <2>6 DEF IInv, ProcInv
<1> QED
  BY <1>1, <1>2

LEMMA Invariant == Spec => []IInv
<1>1. Init => IInv
  BY InitInv
<1>2. IInv /\ [Next]_vars => IInv'
  BY NextSafe
<1> QED
  BY <1>1, <1>2, PTL DEF Spec

\* Every field of the record, of the pull request and of the local variables of a command
\* keeps its range, and a published batch has its pull request on record.
THEOREM TypeCorrect == Spec => []TypeOK
<1>1. IInv => TypeOK
  BY DEF IInv
<1> QED
  BY <1>1, Invariant, PTL

\* An approval that is on record names the revision, base and policy on record, and no task
\* of the batch is being edited: reopening a task, revising, re-cutting and adopting drop it.
THEOREM ExactApproval == Spec => []ApprovalIsExact
<1>1. IInv => ApprovalIsExact
  BY DEF IInv, Sound, SoundApproval, ApprovalIsExact
<1> QED
  BY <1>1, Invariant, PTL

\* A merge the broker has queued is on record, wherever the process stopped that queued it
\* or was about to turn the queue off.
THEOREM RecordedQueue == Spec => []QueueIsRecorded
<1>1. IInv => QueueIsRecorded
  BY DEF IInv, QueueInv, QueueIsRecorded
<1> QED
  BY <1>1, Invariant, PTL

\* markBatchMerged is reached only for a merge of the candidate, on its base, with the
\* approval it needed, also when another command saw the merge first.
THEOREM ProvenMerge == Spec => []MergedIsProven
<1>1. IInv => MergedIsProven
  BY DEF IInv
<1> QED
  BY <1>1, Invariant, PTL

\* A branch that is ahead of the record carries the revision whose intent is on record.
THEOREM KnownBranch == Spec => []BranchIsKnown
<1>1. IInv => BranchIsKnown
  BY DEF IInv, HeadInv, BranchIsKnown
<1> QED
  BY <1>1, Invariant, PTL

\* A retried publication finds the pull request an interrupted one has opened.
THEOREM SinglePullRequest == Spec => []OnePullRequest
<1>1. IInv => OnePullRequest
  BY DEF IInv, PrInv, OnePullRequest
<1> QED
  BY <1>1, Invariant, PTL

-----------------------------------------------------------------------------
(* Who queues a merge.                                                     *)

LEMMA LandsUnqueued ==
  ASSUME pr \in PullRequest, pr' = Land(pr)
  PROVE  pr'.queue = "none"
  BY DEF Land, PullRequest

\* No step but the attempt itself puts the broker's merge into the queue.
LEMMA OnlyEnableQueues ==
  ASSUME IInv, [Next]_vars, ~EnableAutoMerge
  PROVE  pr'.queue = "broker" => pr.queue = "broker"
<1>1. pr \in PullRequest
  BY DEF IInv, TypeOK
<1>2. CASE pr' = pr
  BY <1>2
<1>3. CASE DisableAutoMerge
  BY <1>1, <1>3 DEF DisableAutoMerge, Forge, PullRequest
<1>4. CASE PublishCreate
  BY <1>1, <1>4 DEF PublishCreate, Forge, PullRequest
<1>5. CASE RevisePush
  BY <1>1, <1>5 DEF RevisePush, Forge, Record, World, Local, PullRequest
<1>6. CASE RefreshClose
  BY <1>1, <1>6 DEF RefreshClose, Forge, PullRequest
<1>7. CASE Around
  <2>1. CASE \E verdict \in {"passed", "failed"} : ChecksReport(verdict)
    BY <1>1, <2>1 DEF ChecksReport, PullRequest
  <2>2. CASE QueueMerges \/ SomebodyMerges
    BY <1>1, <2>2, LandsUnqueued DEF QueueMerges, SomebodyMerges
  <2>3. CASE BaseMoves \/ HeadMoves \/ ChecksRestart \/ SomebodyCloses \/ SomebodyReopens
    BY <1>1, <2>3
       DEF BaseMoves, HeadMoves, ChecksRestart, SomebodyCloses, SomebodyReopens, PullRequest
  <2>4. CASE \E verdict \in {"none", "rejected", "conflict"} : ReviewChanges(verdict)
    BY <1>1, <2>4 DEF ReviewChanges, PullRequest
  <2>5. CASE SomebodyQueues
    BY <1>1, <2>5 DEF SomebodyQueues, PullRequest
  <2>6. CASE LeaseExpires \/ \E c \in Configs \ {config} : ConfigChanges(c)
    BY <2>6 DEF LeaseExpires, ConfigChanges
  <2> QED
    BY <1>7, <2>1, <2>2, <2>3, <2>4, <2>5, <2>6 DEF Around
<1>8. CASE UNCHANGED vars \/ Command \/ RecoverLook \/ RecoverSettle \/ Stop
  BY <1>8
     DEF vars, Command, RecoverLook, RecoverSettle, Stop, SyncStart, PublishStart, RefreshStart, ReviseStart,
         CloseStart, VerifyStart, ApproveStart, RequestChanges, ReopenTask, Complete, Local, Record, World
<1>9. CASE Step
  <2>1. \/ pr' = pr \/ DisableAutoMerge \/ PublishCreate \/ RevisePush \/ RefreshClose
    BY <1>9
       DEF Step, SyncInspect, SyncJournal, SyncSettle, ChangeInspect, PublishFresh, PublishRecord,
           AttemptRecord, AttemptResult, VerifyRecord, ApproveInspect, ApproveGrant, ReviseIntend,
           ReviseFinalize, RefreshIntent, RefreshRejected, RefreshRetire, CloseRecheck, Local, Record, World
  <2> QED
    BY <1>2, <1>3, <1>4, <1>5, <1>6, <2>1
<1> QED
  BY <1>7, <1>8, <1>9 DEF Next

\* Whatever was decided before the attempt, it is made only for a published candidate whose
\* approval is confirmed and stands, and while no change is requested.
THEOREM PermittedQueue == Spec => QueuedOnlyIfPermitted
<1>1. ASSUME IInv, [Next]_vars, pr.queue # "broker", pr'.queue = "broker"
      PROVE  /\ pr.head = batch.rev
             /\ ~batch.change /\ batch.state # "changes_requested"
             /\ batch.tracked => batch.approval = "confirmed" /\ ~batch.revoked
  <2>1. EnableAutoMerge
    BY <1>1, OnlyEnableQueues
  <2>2. AttemptInv /\ Sound(batch) /\ proc.pc = "enable" /\ pr \in PullRequest
    BY <1>1, <2>1 DEF IInv, TypeOK, ProcInv, EnableAutoMerge, At
  <2>3. /\ ~batch.change
        /\ batch.tracked => batch.approval = "confirmed" /\ ~batch.revoked
    BY <2>2 DEF AttemptInv, Attempting
  <2>4. batch.state # "changes_requested"
    BY <2>2, <2>3 DEF Sound, SoundUntracked, SoundApproval
  <2>5. pr.head = batch.rev
    BY <1>1, <2>1, <2>2, LandsUnqueued DEF EnableAutoMerge, Forge, HeadGuard
  <2> QED
    BY <2>3, <2>4, <2>5
<1>2. IInv /\ [Next]_vars =>
        [pr.queue # "broker" /\ pr'.queue = "broker" =>
            /\ pr.head = batch.rev
            /\ ~batch.change /\ batch.state # "changes_requested"
            /\ batch.tracked => batch.approval = "confirmed" /\ ~batch.revoked]_vars
  BY <1>1
<1> QED
  BY <1>2, Invariant, PTL DEF Spec, QueuedOnlyIfPermitted

-----------------------------------------------------------------------------
(* Every step is a step of Authorization, or none: the record and the      *)
(* forge implement permission to merge one exact candidate.                *)

\* The two records stand for the same permission.
SameAuthority(v, b) ==
    /\ v.tracked = b.tracked /\ v.rev = b.rev /\ v.approval = b.approval
    /\ v.status = "merged" <=> b.status = "merged"

\* What a transaction may do to it, the queue being as it is.
SameBatch(v, b) ==
    /\ v.tracked = b.tracked /\ v.rev = b.rev
    /\ b.status # "merged" /\ v.status # "merged"
Granted(v, b) == SameBatch(v, b) /\ b.tracked /\ v.approval = "recorded"
Checked(v, b) == SameBatch(v, b) /\ b.approval = "recorded" /\ v.approval = "confirmed"
Revoked(v, b) == SameBatch(v, b) /\ v.approval = "none" /\ pr.queue # "broker"
Renewed(v, b) == /\ v.tracked /\ v.rev > (IF b.tracked THEN b.rev ELSE 0)
                 /\ b.approval = "none" /\ v.approval = "none"
                 /\ b.status # "merged" /\ v.status # "merged" /\ pr.queue # "broker"
Landed(v, b) == /\ v.tracked = b.tracked /\ v.rev = b.rev /\ v.approval = b.approval
                /\ v.status = "merged" /\ (b.tracked => b.approval = "confirmed")
                /\ pr.queue # "broker"
Turn(v, b) == \/ SameAuthority(v, b) \/ Granted(v, b) \/ Checked(v, b)
              \/ Revoked(v, b) \/ Renewed(v, b) \/ Landed(v, b)

\* The fields that Authorization reads.
LEMMA AuthorityTypes ==
  ASSUME NEW b \in BatchRecord
  PROVE  /\ b.tracked \in BOOLEAN /\ b.rev \in Rev /\ b.rev \in Nat /\ b.rev > 0
         /\ b.approval \in {"none", "recorded", "confirmed"}
  BY ApprovalAssumption DEF BatchRecord, Rev, ApprovalAssumption

\* A transaction of one of these kinds is a step of Authorization.
LEMMA TurnPermitted ==
  ASSUME batch \in BatchRecord, batch' \in BatchRecord, pr' = pr, Turn(batch', batch)
  PROVE  [Permission!Next]_(Permission!vars)
<1>1. /\ batch.tracked \in BOOLEAN /\ batch.rev \in Rev /\ batch.rev \in Nat /\ batch.rev > 0
      /\ batch.approval \in {"none", "recorded", "confirmed"}
      /\ batch'.tracked \in BOOLEAN /\ batch'.rev \in Rev /\ batch'.rev \in Nat /\ batch'.rev > 0
      /\ batch'.approval \in {"none", "recorded", "confirmed"}
  BY AuthorityTypes
<1>2. CASE SameAuthority(batch', batch)
  BY <1>2 DEF SameAuthority, Permission!vars
<1>3. CASE Granted(batch', batch)
  <2>1. CASE batch.approval = "recorded"
    BY <1>3, <2>1 DEF Granted, SameBatch, Permission!vars
  <2>2. CASE batch.approval = "none"
    <3>1. Permission!Give
      BY <1>1, <1>3, <2>2 DEF Granted, SameBatch, Permission!Give
    <3> QED
      BY <3>1 DEF Permission!Next
  <2>3. CASE batch.approval = "confirmed"
    <3>1. Permission!GiveAgain
      BY <1>1, <1>3, <2>3 DEF Granted, SameBatch, Permission!GiveAgain
    <3> QED
      BY <3>1 DEF Permission!Next
  <2> QED
    BY <1>1, <2>1, <2>2, <2>3
<1>4. CASE Checked(batch', batch)
  <2>1. Permission!Confirm
    BY <1>1, <1>4 DEF Checked, SameBatch, Permission!Confirm
  <2> QED
    BY <2>1 DEF Permission!Next
<1>5. CASE Revoked(batch', batch)
  <2>1. CASE batch.approval = "none"
    BY <1>5, <2>1 DEF Revoked, SameBatch, Permission!vars
  <2>2. CASE batch.approval # "none"
    <3>1. Permission!Withdraw
      BY <1>1, <1>5, <2>2 DEF Revoked, SameBatch, Permission!Withdraw
    <3> QED
      BY <3>1 DEF Permission!Next
  <2> QED
    BY <2>1, <2>2
<1>6. CASE Renewed(batch', batch)
  <2>1. Permission!Replace
    BY <1>1, <1>6 DEF Renewed, Permission!Replace
  <2> QED
    BY <2>1 DEF Permission!Next
<1>7. CASE Landed(batch', batch)
  <2>1. Permission!Land
    BY <1>1, <1>7 DEF Landed, Permission!Land
  <2> QED
    BY <2>1 DEF Permission!Next
<1> QED
  BY <1>2, <1>3, <1>4, <1>5, <1>6, <1>7 DEF Turn

\* What happens at the forge queues a merge, ends one, or means nothing to Authorization.
LEMMA QueuePermitted ==
  ASSUME IInv, [Next]_vars, batch' = batch
  PROVE  [Permission!Next]_(Permission!vars)
<1>1. CASE pr'.queue = "broker" <=> pr.queue = "broker"
  BY <1>1 DEF Permission!vars
<1>2. CASE pr.queue = "broker" /\ pr'.queue # "broker"
  <2>1. Permission!Unqueue
    BY <1>2 DEF Permission!Unqueue
  <2> QED
    BY <2>1 DEF Permission!Next
<1>3. CASE pr.queue # "broker" /\ pr'.queue = "broker"
  <2>1. EnableAutoMerge
    BY <1>3, OnlyEnableQueues
  <2>2. Published(batch) /\ (batch.tracked => batch.approval = "confirmed")
    BY <2>1 DEF EnableAutoMerge, At, IInv, ProcInv, AttemptInv, Attempting
  <2>3. Permission!Queue
    BY <1>3, <2>2 DEF Published, Permission!Queue
  <2> QED
    BY <2>3 DEF Permission!Next
<1> QED
  BY <1>1, <1>2, <1>3

\* The transactions of sync: adopting replaces the candidate nobody has approved, a recorded
\* approval is confirmed, and one is withdrawn only after the queue is off.
LEMMA SettleTurns ==
  ASSUME IInv, SyncSettle
  PROVE  pr' = pr /\ Turn(batch', batch)
<1>1. PICK v : v = Settled(proc.todo, batch, proc.seen, proc.cfg)
  OBVIOUS
<1>2. proc.pc = "settle" /\ batch' = v /\ pr' = pr
  BY <1>1 DEF SyncSettle, At, Record, World
<1>3. SettleEffect(v)
  BY <1>1, <1>2, SettleSound
<1>4. Sound(batch) /\ batch.status # "merged" /\ PrInv
  BY <1>2 DEF IInv, ProcInv, PhaseInv
<1>5. Sound(v) /\ v.rev = batch.rev /\ (batch.tracked => v.tracked)
  BY <1>3 DEF SettleEffect
<1>6. batch \in BatchRecord /\ v \in BatchRecord
  BY <1>4, <1>5 DEF Sound
<1>7. CASE v.tracked # batch.tracked
  <2>1. v.tracked /\ ~batch.tracked
    BY <1>5, <1>6, <1>7, AuthorityTypes
  <2>2. v.status # "merged" /\ pr.queue # "broker"
    BY <1>3, <1>7 DEF SettleEffect
  <2>3. batch.approval = "none"
    BY <1>4, <2>1 DEF Sound, SoundUntracked
  <2>4. v.approval = "none"
    BY <1>3, <2>3 DEF SettleEffect
  <2>5. v.rev > 0
    BY <1>6, AuthorityTypes
  <2> QED
    BY <1>2, <1>4, <2>1, <2>2, <2>3, <2>4, <2>5 DEF Turn, Renewed
<1>8. CASE v.tracked = batch.tracked /\ v.status = "merged"
  <2>1. /\ pr.st = "merged" /\ v.approval = batch.approval
    BY <1>3, <1>8 DEF SettleEffect
  <2>2. pr.queue # "broker"
    BY <1>4, <2>1 DEF PrInv
  <2>3. v.tracked => v.approval = "confirmed"
    BY <1>5, <1>8 DEF Sound, SoundStatus
  <2> QED
    BY <1>2, <1>5, <1>8, <2>1, <2>2, <2>3 DEF Turn, Landed
<1>9. CASE v.tracked = batch.tracked /\ v.status # "merged"
  <2>1. \/ v.approval = batch.approval
        \/ v.approval = "none" /\ pr.queue # "broker"
        \/ v.approval = "confirmed" /\ batch.approval = "recorded"
    BY <1>3 DEF SettleEffect
  <2> QED
    BY <1>2, <1>4, <1>5, <1>9, <2>1
       DEF Turn, SameAuthority, Checked, Revoked, SameBatch
<1> QED
  BY <1>2, <1>7, <1>8, <1>9

\* The other transactions that leave the permission as it is: they mark, announce or note.
LEMMA NoteTurns ==
  ASSUME IInv,
         \/ SyncJournal \/ PublishFresh \/ PublishRecord \/ AttemptRecord \/ AttemptResult
         \/ \E verdict \in {"passed", "failed"} : VerifyRecord(verdict)
         \/ \E arg \in Binding : RequestChanges(arg)
         \/ ReviseIntend \/ RefreshIntent \/ LeaseExpires
  PROVE  pr' = pr /\ Turn(batch', batch)
<1> SUFFICES pr' = pr /\ SameAuthority(batch', batch)
  BY DEF Turn
<1>1. batch \in BatchRecord
  BY DEF IInv, TypeOK
<1>2. batch' = batch => SameAuthority(batch', batch)
  BY DEF SameAuthority
<1>3. CASE SyncJournal
  BY <1>1, <1>3 DEF SyncJournal, Record, World, SameAuthority, BatchRecord
<1>4. CASE PublishFresh
  BY <1>1, <1>2, <1>4 DEF PublishFresh, Record, World, Local, SameAuthority, BatchRecord
<1>5. CASE PublishRecord
  <2>1. batch.status # "merged"
    BY <1>5 DEF PublishRecord, At, IInv, ProcInv, PhaseInv
  <2> QED
    BY <1>1, <1>5, <2>1 DEF PublishRecord, OnRecord, Record, World, SameAuthority, BatchRecord
<1>6. CASE AttemptRecord
  BY <1>1, <1>6 DEF AttemptRecord, Attempted, Record, World, SameAuthority, BatchRecord
<1>7. CASE AttemptResult
  BY <1>1, <1>2, <1>7 DEF AttemptResult, Enabled, Record, World, SameAuthority, BatchRecord
<1>8. CASE \E verdict \in {"passed", "failed"} : VerifyRecord(verdict)
  <2>1. PICK verdict : VerifyRecord(verdict)
    BY <1>8
  <2>2. CASE batch' = batch
    BY <1>2, <2>1, <2>2 DEF VerifyRecord, Record, World, Local
  <2>3. CASE batch' # batch
    <3>1. PICK w : w = [batch EXCEPT !.manual = verdict]
      OBVIOUS
    <3>2. PICK s : s = StateOf(w)
      OBVIOUS
    <3>3. pr' = pr /\ batch' = [w EXCEPT !.state = s]
      BY <2>1, <2>3, <3>1, <3>2 DEF VerifyRecord, Record, World, Local
    <3> QED
      BY <1>1, <3>1, <3>3 DEF SameAuthority, BatchRecord
  <2> QED
    BY <2>2, <2>3
<1>9. CASE \E arg \in Binding : RequestChanges(arg)
  BY <1>1, <1>9 DEF RequestChanges, Record, World, SameAuthority, BatchRecord
<1>10. CASE ReviseIntend
  BY <1>1, <1>2, <1>10 DEF ReviseIntend, Record, World, Local, SameAuthority, BatchRecord
<1>11. CASE RefreshIntent
  BY <1>1, <1>2, <1>11 DEF RefreshIntent, Record, World, Local, SameAuthority, BatchRecord
<1>12. CASE LeaseExpires
  BY <1>1, <1>12 DEF LeaseExpires, SameAuthority, BatchRecord
<1> QED
  BY <1>3, <1>4, <1>5, <1>6, <1>7, <1>8, <1>9, <1>10, <1>11, <1>12

\* An approval is given for the candidate on record, or again when its withdrawal was under way.
LEMMA GrantTurns ==
  ASSUME IInv, ApproveGrant
  PROVE  pr' = pr /\ Turn(batch', batch)
<1>1. /\ proc.pc = "grant" /\ batch.tracked /\ Published(batch) /\ batch \in BatchRecord
  BY DEF ApproveGrant, At, IInv, TypeOK, ProcInv, PhaseInv
<1>2. CASE batch' = batch
  BY <1>2 DEF ApproveGrant, Record, World, Local, Turn, SameAuthority
<1>3. CASE batch' # batch
  <2>1. PICK a : a = proc.arg
    OBVIOUS
  <2>2. /\ pr' = pr
        /\ batch' = [batch EXCEPT !.approval = "recorded", !.revoked = FALSE, !.grant = a,
                                  !.state = "approved"]
    BY <1>3, <2>1 DEF ApproveGrant, Record, World, Local
  <2> QED
    BY <1>1, <2>2 DEF Turn, Granted, SameBatch, Published, BatchRecord
<1> QED
  BY <1>2, <1>3

\* Reopening a task drops an approval only of a batch that is not queued.
LEMMA ReopenTurns ==
  ASSUME IInv, ReopenTask
  PROVE  pr' = pr /\ Turn(batch', batch)
<1>1. /\ batch.tracked /\ batch.status \in {"prepared", "published"} /\ Sound(batch)
      /\ pr' = pr /\ pr.queue # "broker"
  BY DEF ReopenTask, Record, World, IInv, QueueInv
<1>2. PICK w : w = [NoApproval(batch) EXCEPT !.lease = TRUE, !.state = "changes_requested"]
  OBVIOUS
<1>3. batch' = w
  BY <1>2 DEF ReopenTask, Record
<1>4. Sound(w) /\ SameCandidate(w, batch) /\ w.status = batch.status /\ w.approval = "none"
  BY <1>1, <1>2, SoundReopened
<1> QED
  BY <1>1, <1>3, <1>4 DEF Turn, Revoked, SameBatch, SameCandidate

\* A revision, finished or recovered, replaces a candidate whose approval is gone.
LEMMA ReplaceTurns ==
  ASSUME IInv, batch.intent # NoIntent, batch.state = "changes_requested",
         batch' = Finalized(batch)
  PROVE  Turn(batch', batch)
<1>1. PICK w : w = Finalized(batch)
  OBVIOUS
<1>2. Sound(batch) /\ batch \in BatchRecord /\ QueueInv
  BY DEF IInv, TypeOK
<1>3. w.tracked = TRUE /\ w.rev = batch.intent.rev /\ w.status = batch.status /\ w.approval = "none"
  BY <1>1, <1>2, SoundFinalized
<1>4. /\ batch.status \in {"prepared", "published"} /\ batch.intent.rev = batch.rev + 1
      /\ batch.tracked /\ batch.approval = "none"
  BY <1>2 DEF Sound, SoundIntent, SoundApproval
<1>5. pr.queue # "broker" /\ batch.rev \in Nat
  BY <1>2, <1>4, AuthorityTypes DEF QueueInv
<1> QED
  BY <1>1, <1>3, <1>4, <1>5 DEF Turn, Renewed

LEMMA ReviseTurns ==
  ASSUME IInv, ReviseFinalize \/ RecoverSettle
  PROVE  pr' = pr /\ Turn(batch', batch)
<1>1. pr' = pr
  BY DEF ReviseFinalize, RecoverSettle, Record, World, Local
<1>2. batch.intent # NoIntent /\ batch \in BatchRecord
  BY DEF ReviseFinalize, RecoverSettle, At, IInv, TypeOK, ProcInv, PhaseInv, RecInv
<1>3. \/ batch' = batch
      \/ batch.state = "changes_requested" /\ batch' = Finalized(batch)
      \/ batch' = [batch EXCEPT !.intent = NoIntent]
  BY DEF ReviseFinalize, RecoverSettle, Record, Local
<1>4. CASE batch' = batch
  BY <1>1, <1>4 DEF Turn, SameAuthority
<1>5. CASE batch.state = "changes_requested" /\ batch' = Finalized(batch)
  BY <1>1, <1>2, <1>5, ReplaceTurns
<1>6. CASE batch' = [batch EXCEPT !.intent = NoIntent]
  BY <1>1, <1>2, <1>6 DEF Turn, SameAuthority, BatchRecord
<1> QED
  BY <1>3, <1>4, <1>5, <1>6

\* A batch is closed or superseded when nothing of it is queued any more.
LEMMA CloseTurns ==
  ASSUME IInv, pr.queue # "broker", MayClose(batch), batch' = Closed(batch)
  PROVE  Turn(batch', batch)
<1>1. Sound(batch) /\ batch.intent = NoIntent /\ batch.status # "merged"
  BY DEF IInv, MayClose
<1>2. CASE batch.status = "closed"
  BY <1>2 DEF Closed, Turn, SameAuthority
<1>3. CASE batch.status # "closed"
  <2>1. PICK w : w = Closed(batch)
    OBVIOUS
  <2>2. SameCandidate(w, batch) /\ w.status = "closed" /\ w.approval = "none"
    BY <1>1, <1>3, <2>1, SoundClosed
  <2> QED
    BY <1>1, <2>1, <2>2 DEF Turn, Revoked, SameBatch, SameCandidate
<1> QED
  BY <1>2, <1>3

LEMMA RetireTurns ==
  ASSUME IInv, RefreshRejected \/ RefreshRetire
  PROVE  pr' = pr /\ Turn(batch', batch)
<1>1. /\ pr' = pr /\ pr.queue # "broker" /\ batch.status # "merged" /\ batch.intent = NoIntent
      /\ Sound(batch)
  BY DEF RefreshRejected, RefreshRetire, At, Record, World, IInv, ProcInv, PhaseInv, QueueInv
<1>2. CASE batch' = batch
  BY <1>1, <1>2 DEF Turn, SameAuthority
<1>3. CASE RefreshRejected /\ batch' # batch
  BY <1>1, <1>3, CloseTurns DEF RefreshRejected, Record
<1>4. CASE RefreshRetire
  <2>1. PICK w : w = [NoApproval(batch) EXCEPT !.status = "closed", !.auto = "off",
                        !.change = FALSE, !.refresh = FALSE, !.closing = FALSE, !.requeued = TRUE,
                        !.state = IF batch.tracked THEN "superseded" ELSE @]
    OBVIOUS
  <2>2. batch' = w
    BY <1>4, <2>1 DEF RefreshRetire, Record
  <2>3. SameCandidate(w, batch) /\ w.status = "closed" /\ w.approval = "none"
    BY <1>1, <2>1, SoundRetired
  <2> QED
    BY <1>1, <2>2, <2>3 DEF Turn, Revoked, SameBatch, SameCandidate
<1> QED
  BY <1>2, <1>3, <1>4

\* `batch complete` records a merge only under a confirmed approval, or of a batch without one.
LEMMA CompleteTurns ==
  ASSUME IInv, Complete
  PROVE  pr' = pr /\ Turn(batch', batch)
<1>1. /\ MayMerge(batch, config) /\ Sound(batch) /\ pr.st = "merged" /\ pr' = pr
  BY DEF Complete, Record, World, IInv
<1>2. PICK w : w = Merged(batch)
  OBVIOUS
<1>3. SameCandidate(w, batch) /\ w.status = "merged" /\ w.approval = batch.approval
  BY <1>1, <1>2, SoundMerged
<1>4. pr.queue # "broker"
  BY <1>1 DEF IInv, PrInv
<1>5. batch.tracked => batch.approval = "confirmed"
  BY <1>1 DEF MayMerge
<1>6. batch' = w
  BY <1>2 DEF Complete, Record
<1> QED
  BY <1>1, <1>3, <1>4, <1>5, <1>6 DEF Turn, Landed, SameCandidate

\* Every step of Approval is one of these, or leaves the record alone.
LEMMA RecordTurns ==
  ASSUME IInv, [Next]_vars
  PROVE  batch' = batch \/ (pr' = pr /\ Turn(batch', batch))
<1>1. CASE Step
  <2>1. \/ batch' = batch
        \/ SyncJournal \/ PublishFresh \/ PublishRecord \/ AttemptRecord \/ AttemptResult
        \/ \E verdict \in {"passed", "failed"} : VerifyRecord(verdict)
        \/ ReviseIntend \/ RefreshIntent \/ SyncSettle \/ ApproveGrant \/ ReviseFinalize
        \/ RevisePush \/ RefreshRejected \/ RefreshRetire
    BY <1>1
       DEF Step, SyncInspect, DisableAutoMerge, ChangeInspect, PublishCreate, EnableAutoMerge,
           ApproveInspect, RefreshClose, CloseRecheck, Forge, Local
  <2>2. CASE RevisePush
    <3>1. PICK r : r = batch.intent.rev
      OBVIOUS
    <3>2. batch' = batch \/ (pr' = pr /\ batch' = [batch EXCEPT !.local = r])
      BY <2>2, <3>1 DEF RevisePush, Record, World, Forge, Local
    <3>3. batch \in BatchRecord
      BY DEF IInv, TypeOK
    <3> QED
      BY <3>2, <3>3 DEF Turn, SameAuthority, BatchRecord
  <2> QED
    BY <2>1, <2>2, NoteTurns, SettleTurns, GrantTurns, ReviseTurns, RetireTurns
<1>2. CASE Command
  <2>1. CASE CloseStart
    <3>1. CASE batch.url
      BY <2>1, <3>1 DEF CloseStart, Local
    <3>2. CASE ~batch.url
      <4>1. MayClose(batch) /\ batch' = Closed(batch) /\ pr' = pr /\ ~MayBeQueued(batch)
        BY <2>1, <3>2 DEF CloseStart, Record, World
      <4>2. pr.queue # "broker"
        BY <4>1 DEF IInv, QueueInv
      <4> QED
        BY <4>1, <4>2, CloseTurns
    <3> QED
      BY <3>1, <3>2
  <2>2. \/ batch' = batch \/ CloseStart \/ ReopenTask \/ Complete
        \/ \E arg \in Binding : RequestChanges(arg)
    BY <1>2
       DEF Command, SyncStart, PublishStart, RefreshStart, ReviseStart, VerifyStart, ApproveStart, Local
  <2> QED
    BY <2>1, <2>2, NoteTurns, ReopenTurns, CompleteTurns
<1>3. CASE Around
  <2>1. batch' = batch \/ LeaseExpires
    BY <1>3
       DEF Around, ChecksReport, QueueMerges, BaseMoves, HeadMoves, ChecksRestart, ReviewChanges,
           SomebodyMerges, SomebodyCloses, SomebodyReopens, SomebodyQueues, ConfigChanges, Move, Quiet
  <2> QED
    BY <2>1, NoteTurns
<1>4. CASE RecoverSettle
  BY <1>4, ReviseTurns
<1>5. CASE RecoverLook \/ Stop \/ UNCHANGED vars
  BY <1>5 DEF RecoverLook, Stop, vars
<1> QED
  BY <1>1, <1>2, <1>3, <1>4, <1>5 DEF Next

\* Approval implements Authorization: permission is given to one candidate, withdrawn before
\* the candidate is replaced and only once nothing is queued, and it stands whenever the
\* broker queues a merge or records one.
THEOREM PermissionKept == Spec => Permitted
<1>1. Init => Permission!Init
  <2>1. ASSUME Init PROVE Permission!Init
    <3>1. /\ batch.tracked \in BOOLEAN /\ batch.rev \in Rev /\ batch.approval = "none"
          /\ batch.status = "prepared" /\ pr.queue = "none"
      BY <2>1, InitSound, Typed, AuthorityTypes DEF Init, NoPullRequest
    <3> QED
      BY <3>1 DEF Permission!Init
  <2> QED
    BY <2>1
<1>2. IInv /\ IInv' /\ [Next]_vars => [Permission!Next]_(Permission!vars)
  <2>1. ASSUME IInv, IInv', [Next]_vars
        PROVE  [Permission!Next]_(Permission!vars)
    <3>1. CASE batch' = batch
      BY <2>1, <3>1, QueuePermitted
    <3>2. CASE pr' = pr /\ Turn(batch', batch)
      <4>1. batch \in BatchRecord /\ batch' \in BatchRecord
        BY <2>1 DEF IInv, TypeOK
      <4> QED
        BY <3>2, <4>1, TurnPermitted
    <3> QED
      BY <2>1, <3>1, <3>2, RecordTurns
  <2> QED
    BY <2>1
<1> QED
  BY <1>1, <1>2, Invariant, PTL DEF Spec, Permitted, Permission!Spec
=============================================================================
