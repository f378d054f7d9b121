----------------------------- MODULE LeaseProofs -----------------------------
(***************************************************************************)
(* Theorems about Lease, for any tasks, scopes, serialized patterns and    *)
(* files, any length of a lease and any number of tokens.  The first part  *)
(* is about the patterns: what may not overlap has no file in common.      *)
(***************************************************************************)
EXTENDS Lease, SequenceTheorems, WellFoundedInduction, TLAPS

-----------------------------------------------------------------------------
(* Natural numbers, as facts about sets.                                   *)

\* A set of natural numbers that is not empty has a least element.
LEMMA LeastNatural ==
  ASSUME NEW T \in SUBSET Nat, T # {}
  PROVE  \E n \in T : \A k \in T : n <= k
<1>1. PICK n \in T : \A k \in T : ~(<<k, n>> \in OpToRel(<, Nat))
  BY NatLessThanWellFounded, WFMin, Zenon
<1>2. \A k \in T : <<k, n>> \in OpToRel(<, Nat) <=> k < n
  BY DEF OpToRel
<1>3. \A k \in T : ~(k < n)
  BY <1>1, <1>2, Zenon
<1>4. n \in Nat /\ \A k \in T : k \in Nat
  OBVIOUS
<1> QED
  BY <1>3, <1>4

\* A set that has 0 and the successor of each of its numbers below n has all of 0..n.
LEMMA InductionUpTo ==
  ASSUME NEW S, NEW n \in Nat, 0 \in S,
         \A k \in 0..n : k \in S /\ k < n => k + 1 \in S
  PROVE  0..n \subseteq S
<1> DEFINE T == (0..n) \ S
<1> SUFFICES ASSUME T # {} PROVE FALSE
  OBVIOUS
<1>1. PICK k \in T : \A l \in T : k <= l
  <2>1. T \in SUBSET Nat
    OBVIOUS
  <2> HIDE DEF T
  <2> QED
    BY <2>1, LeastNatural
<1>2. k \in 0..n /\ k # 0
  BY <1>1
<1>3. k - 1 \in 0..n /\ k - 1 < n /\ k - 1 \notin T
  BY <1>1, <1>2
<1> QED
  BY <1>1, <1>2, <1>3

-----------------------------------------------------------------------------
(* Patterns.                                                               *)

\* A path that matches a pattern begins with its literal segments.
LEMMA LiteralsMatched ==
  ASSUME NEW f \in Seq(STRING), NEW p \in Seq(STRING), Matches(f, p),
         NEW n \in 0..Len(p), \A i \in 1..n : p[i] \notin {Star, Globstar}
  PROVE  n <= Len(f) /\ \A i \in 1..n : f[i] = p[i]
<1>1. PICK cut \in [0..Len(p) -> 0..Len(f)] :
        /\ cut[0] = 0 /\ cut[Len(p)] = Len(f)
        /\ \A j \in 1..Len(p) :
              IF p[j] = Globstar THEN cut[j - 1] <= cut[j]
              ELSE cut[j] = cut[j - 1] + 1 /\ p[j] \in {Star, f[cut[j]]}
  BY DEF Matches
<1> DEFINE S == {k \in 0..n : cut[k] = k}
<1>2. \A j \in 1..n : cut[j] = cut[j - 1] + 1 /\ p[j] = f[cut[j]]
  BY <1>1
<1>3. 0..n \subseteq S
  <2>1. 0 \in S
    BY <1>1
  <2>2. ASSUME NEW k \in 0..n, k \in S, k < n
        PROVE  k + 1 \in S
    <3>1. k + 1 \in 1..n
      BY <2>2
    <3>2. cut[k + 1] = cut[(k + 1) - 1] + 1
      BY <1>2, <3>1
    <3>3. (k + 1) - 1 = k /\ cut[k] = k
      BY <2>2
    <3> QED
      BY <3>1, <3>2, <3>3
  <2>3. \A k \in 0..n : k \in S /\ k < n => k + 1 \in S
    BY <2>2
  <2>4. n \in Nat
    OBVIOUS
  <2> HIDE DEF S
  <2> QED
    BY <2>1, <2>3, <2>4, InductionUpTo
<1>4. \A i \in 1..n : cut[i] = i
  BY <1>3
<1>5. n <= Len(f)
  <2>1. cut[n] = n /\ n \in 0..Len(p)
    BY <1>3
  <2>2. cut[n] \in 0..Len(f)
    BY <1>1, <2>1
  <2> QED
    BY <2>1, <2>2
<1> QED
  BY <1>2, <1>4, <1>5

\* Without magic a pattern matches only itself.
LEMMA PlainMatched ==
  ASSUME NEW f \in Seq(STRING), NEW p \in Seq(STRING), Matches(f, p), ~Magic(p)
  PROVE  f = p
<1>0. Len(p) \in 0..Len(p) /\ \A i \in 1..Len(p) : p[i] \notin {Star, Globstar}
  BY DEF Magic
<1>1. Len(p) <= Len(f) /\ \A i \in 1..Len(p) : f[i] = p[i]
  BY <1>0, LiteralsMatched
<1>2. PICK cut \in [0..Len(p) -> 0..Len(f)] :
        /\ cut[0] = 0 /\ cut[Len(p)] = Len(f)
        /\ \A j \in 1..Len(p) : cut[j] = cut[j - 1] + 1
  BY <1>0 DEF Matches
<1> DEFINE S == {k \in 0..Len(p) : cut[k] = k}
<1>3. 0..Len(p) \subseteq S
  <2>1. 0 \in S
    BY <1>2
  <2>2. ASSUME NEW k \in 0..Len(p), k \in S, k < Len(p)
        PROVE  k + 1 \in S
    <3>1. k + 1 \in 1..Len(p)
      BY <2>2
    <3>2. cut[k + 1] = cut[(k + 1) - 1] + 1
      BY <1>2, <3>1
    <3>3. (k + 1) - 1 = k /\ cut[k] = k
      BY <2>2
    <3> QED
      BY <3>1, <3>2, <3>3
  <2>3. \A k \in 0..Len(p) : k \in S /\ k < Len(p) => k + 1 \in S
    BY <2>2
  <2>4. Len(p) \in Nat
    OBVIOUS
  <2> HIDE DEF S
  <2> QED
    BY <2>1, <2>3, <2>4, InductionUpTo
<1>4. Len(f) = Len(p)
  BY <1>2, <1>3
<1> QED
  BY <1>1, <1>4, SeqEqual

\* The literal prefix of a pattern with magic begins every path that matches it.
LEMMA PrefixMatched ==
  ASSUME NEW f \in Seq(STRING), NEW p \in Seq(STRING), Matches(f, p), Magic(p)
  PROVE  \E n \in 0..Len(f) : LiteralPrefix(p) = SubSeq(f, 1, n)
<1> DEFINE At(n) == /\ \A i \in 1..n : ~Magic(<<p[i]>>)
                    /\ Magic(<<p[n + 1]>>)
           n == CHOOSE n \in 0..Len(p) : At(n)
           T == {i \in 1..Len(p) : p[i] \in {Star, Globstar}}
<1>1. \A s : Magic(<<s>>) <=> s \in {Star, Globstar}
  BY DEF Magic
<1>2. PICK k \in T : \A l \in T : k <= l
  <2>1. T # {} /\ T \in SUBSET Nat
    BY DEF Magic
  <2> QED
    BY <2>1, LeastNatural
<1>3. k - 1 \in 0..Len(p) /\ At(k - 1)
  <2>1. k - 1 \in 0..Len(p) /\ (k - 1) + 1 = k /\ \A i \in 1..(k - 1) : i \notin T /\ i \in 1..Len(p)
    BY <1>2
  <2> QED
    BY <1>1, <1>2, <2>1
<1>4. n \in 0..Len(p) /\ At(n)
  BY <1>3
<1>5. n <= Len(f) /\ \A i \in 1..n : f[i] = p[i]
  <2>1. \A i \in 1..n : p[i] \notin {Star, Globstar}
    BY <1>1, <1>4
  <2> HIDE DEF n
  <2> QED
    BY <1>4, <2>1, LiteralsMatched
<1>6. LiteralPrefix(p) = SubSeq(p, 1, n)
  BY DEF LiteralPrefix
<1> HIDE DEF n
<1>7. SubSeq(p, 1, n) = SubSeq(f, 1, n)
  <2>1. SubSeq(p, 1, n) = [i \in 1..n |-> p[i]] /\ SubSeq(f, 1, n) = [i \in 1..n |-> f[i]]
    BY <1>4, <1>5
  <2> QED
    BY <1>5, <2>1
<1> QED
  BY <1>4, <1>5, <1>6, <1>7

\* Two patterns that match one path are found to overlap.  [patterns.ts
\* patternsMayOverlap]
LEMMA OverlapFound ==
  ASSUME NEW f \in Seq(STRING), NEW p \in Seq(STRING), NEW q \in Seq(STRING),
         Matches(f, p), Matches(f, q)
  PROVE  MayOverlap(p, q)
<1>1. CASE ~Magic(p)
  BY <1>1, PlainMatched DEF MayOverlap
<1>2. CASE ~Magic(q)
  BY <1>2, PlainMatched DEF MayOverlap
<1>3. CASE Magic(p) /\ Magic(q)
  <2>1. PICK m \in 0..Len(f) : LiteralPrefix(p) = SubSeq(f, 1, m)
    BY <1>3, PrefixMatched
  <2>2. PICK n \in 0..Len(f) : LiteralPrefix(q) = SubSeq(f, 1, n)
    BY <1>3, PrefixMatched
  <2>3. ASSUME NEW k \in 0..Len(f), NEW l \in 0..Len(f), k <= l
        PROVE  IsPrefix(SubSeq(f, 1, k), SubSeq(f, 1, l))
    <3> DEFINE s == SubSeq(f, 1, k)
               t == SubSeq(f, 1, l)
    <3>1. s = [i \in 1..k |-> f[i]] /\ t = [i \in 1..l |-> f[i]]
      BY <2>3
    <3>2. Len(s) = k /\ Len(t) = l
      BY <2>3
    <3>3. SubSeq(s, 1, k) = [i \in 1..k |-> f[i]] /\ SubSeq(t, 1, k) = [i \in 1..k |-> f[i]]
      BY <2>3
    <3> QED
      BY <2>3, <3>2, <3>3 DEF IsPrefix
  <2>4. m <= n \/ n <= m
    OBVIOUS
  <2> QED
    BY <1>3, <2>1, <2>2, <2>3, <2>4 DEF MayOverlap
<1> QED
  BY <1>1, <1>2, <1>3

LEMMA OverlapSymmetric ==
  ASSUME NEW ps, NEW qs
  PROVE  SetsMayOverlap(ps, qs) <=> SetsMayOverlap(qs, ps)
<1>1. \A p, q : MayOverlap(p, q) <=> MayOverlap(q, p)
  BY DEF MayOverlap
<1> QED
  BY <1>1 DEF SetsMayOverlap

-----------------------------------------------------------------------------
(* No two live leases overlap.                                             *)

Separate(ps, qs) == ~SetsMayOverlap(ps, qs) /\ Resources(ps) \cap Resources(qs) = {}
Patterns == SUBSET UNION Scopes

LiveSeparate ==
    \A t, u \in Tasks : t # u /\ Live(t) /\ Live(u) =>
        Separate(task[t].expected, task[u].expected)

\* As long as the lease is the one under which it was read, what a submission read lies
\* in the scope: a holder can only extend it.
PendingInScope ==
    pending # NoSubmission /\ task[pending.task].lease = pending.token =>
        Covered(pending.files, task[pending.task].expected)

LeaseInv == TypeOK /\ LiveSeparate /\ PendingInScope

\* Separate scopes have no file in common, nor two files of one serialized resource.
LEMMA SeparateFiles ==
  ASSUME NEW ps \in Patterns, NEW qs \in Patterns, Separate(ps, qs)
  PROVE  /\ \A f \in Files : ~(Covered({f}, ps) /\ Covered({f}, qs))
         /\ \A r \in Serialized, f, g \in Files :
               ~(/\ Covered({f}, ps) /\ Matches(f, r)
                 /\ Covered({g}, qs) /\ Matches(g, r))
<1>1. ps \subseteq Seq(STRING) /\ qs \subseteq Seq(STRING)
  BY LeaseAssumption DEF LeaseAssumption, Patterns
<1>2. Files \subseteq Seq(STRING) /\ Serialized \subseteq Seq(STRING)
  BY LeaseAssumption DEF LeaseAssumption
<1>3. ASSUME NEW f \in Files, NEW xs \in {ps, qs}, Covered({f}, xs)
      PROVE  \E p \in xs : Matches(f, p)
  BY <1>3 DEF Covered
<1>4. ASSUME NEW f \in Files, Covered({f}, ps), Covered({f}, qs)
      PROVE  FALSE
  <2>1. PICK p \in ps : Matches(f, p)
    BY <1>3, <1>4
  <2>2. PICK q \in qs : Matches(f, q)
    BY <1>3, <1>4
  <2>3. MayOverlap(p, q)
    BY <1>1, <1>2, <2>1, <2>2, OverlapFound
  <2> QED
    BY <2>3 DEF Separate, SetsMayOverlap
<1>5. ASSUME NEW r \in Serialized, NEW f \in Files, NEW xs \in {ps, qs},
             Covered({f}, xs), Matches(f, r)
      PROVE  r \in Resources(xs)
  <2>1. PICK p \in xs : Matches(f, p)
    BY <1>3, <1>5
  <2>2. MayOverlap(p, r)
    BY <1>1, <1>2, <1>5, <2>1, OverlapFound
  <2> QED
    BY <2>2 DEF Resources, SetsMayOverlap
<1> QED
  BY <1>4, <1>5 DEF Separate

LEMMA LeaseInit == Init => LeaseInv
<1> SUFFICES ASSUME Init
             PROVE  LeaseInv
  OBVIOUS
<1>1. /\ \A t \in Tasks : /\ task[t] \in [status : TaskStatus, expected : Patterns,
                                         actual : SUBSET Files, lease : 0..0, left : 0..Ttl]
                          /\ task[t].lease = NoLease
      /\ task = [t \in Tasks |-> task[t]]
  BY LeaseAssumption DEF Init, TaskStatus, NoLease, Patterns, LeaseAssumption
<1>2. TypeOK
  BY <1>1, LeaseAssumption DEF Init, TypeOK, Patterns, LeaseAssumption
<1>3. LiveSeparate
  BY <1>1 DEF LiveSeparate, Live
<1>4. PendingInScope
  BY DEF Init, PendingInScope
<1> QED
  BY <1>2, <1>3, <1>4 DEF LeaseInv

TaskRecord(last) == [status : TaskStatus, expected : Patterns, actual : SUBSET Files,
                     lease : 0..last, left : 0..Ttl]

\* A task whose lease was ended.
LEMMA Unleased ==
  ASSUME NEW last \in Nat, NEW x \in TaskRecord(last), NEW s \in TaskStatus, Ttl \in Nat
  PROVE  /\ [x EXCEPT !.status = s, !.lease = NoLease, !.left = 0] \in TaskRecord(last)
         /\ [x EXCEPT !.status = s, !.lease = NoLease, !.left = 0].lease = NoLease
         /\ [x EXCEPT !.lease = NoLease, !.left = 0, !.status = s] \in TaskRecord(last)
         /\ [x EXCEPT !.lease = NoLease, !.left = 0, !.status = s].lease = NoLease
<1>1. NoLease \in 0..last /\ 0 \in 0..Ttl
  BY DEF NoLease
<1>2. [x EXCEPT !.status = s, !.lease = NoLease, !.left = 0] \in TaskRecord(last)
  BY <1>1 DEF TaskRecord
<1>3. [x EXCEPT !.lease = NoLease, !.left = 0, !.status = s] \in TaskRecord(last)
  BY <1>1 DEF TaskRecord
<1>4. [x EXCEPT !.status = s, !.lease = NoLease, !.left = 0].lease = NoLease
  BY DEF TaskRecord
<1>5. [x EXCEPT !.lease = NoLease, !.left = 0, !.status = s].lease = NoLease
  BY DEF TaskRecord
<1> QED
  BY <1>2, <1>3, <1>4, <1>5

\* A step that changes one task to r keeps the invariant when r, if it is live, is
\* separate from the other live tasks, and r has the lease of the pending submission
\* only with a scope that covers it.
LEMMA OneTaskKeeps ==
  ASSUME LeaseInv, NEW t \in Tasks, NEW r \in TaskRecord(issued'),
         issued' \in issued..MaxToken, task' = [task EXCEPT ![t] = r],
         pending' \in {pending, NoSubmission},
         r.lease # NoLease /\ r.left > 0 =>
            \A u \in Tasks \ {t} : Live(u) => Separate(r.expected, task[u].expected),
         pending # NoSubmission /\ pending.task = t /\ r.lease = pending.token =>
            Covered(pending.files, r.expected)
  PROVE  LeaseInv'
<1>0. issued \in Nat /\ MaxToken \in Nat
  BY LeaseAssumption DEF LeaseInv, TypeOK, LeaseAssumption
<1>1. TypeOK'
  <2>1. \A u \in Tasks : task[u] \in TaskRecord(issued')
    BY <1>0 DEF LeaseInv, TypeOK, TaskRecord, Patterns
  <2>2. task' \in [Tasks -> TaskRecord(issued')]
    BY <2>1 DEF LeaseInv, TypeOK
  <2>3. pending # NoSubmission => pending \in [token : 1..issued', task : Tasks, files : SUBSET Files]
    BY <1>0 DEF LeaseInv, TypeOK
  <2> QED
    BY <1>0, <2>2, <2>3 DEF TypeOK, TaskRecord, Patterns
<1>2. task'[t] = r /\ \A u \in Tasks \ {t} : task'[u] = task[u]
  BY DEF LeaseInv, TypeOK
<1>3. LiveSeparate'
  <2>1. \A ps, qs : Separate(ps, qs) => Separate(qs, ps)
    BY OverlapSymmetric DEF Separate
  <2>2. \A u \in Tasks \ {t} : Live(u)' <=> Live(u)
    BY <1>2 DEF Live
  <2>3. Live(t)' <=> r.lease # NoLease /\ r.left > 0
    BY <1>2 DEF Live
  <2> QED
    BY <1>2, <2>1, <2>2, <2>3 DEF LeaseInv, LiveSeparate
<1>4. PendingInScope'
  BY <1>2 DEF LeaseInv, PendingInScope, TypeOK
<1> QED
  BY <1>1, <1>3, <1>4 DEF LeaseInv

\* A task that does not become live and does not change its scope or lease.
LEMMA QuietTaskKeeps ==
  ASSUME LeaseInv, NEW t \in Tasks, NEW r \in TaskRecord(issued),
         task' = [task EXCEPT ![t] = r], issued' = issued,
         pending' \in {pending, NoSubmission},
         \/ r.lease = NoLease
         \/ /\ r.lease = task[t].lease /\ r.expected = task[t].expected
            /\ r.left > 0 => task[t].left > 0
  PROVE  LeaseInv'
<1>0. issued \in Nat /\ MaxToken \in Nat /\ issued \in issued..MaxToken
  BY LeaseAssumption DEF LeaseInv, TypeOK, LeaseAssumption
<1>1. r.lease # NoLease /\ r.left > 0 =>
          \A u \in Tasks \ {t} : Live(u) => Separate(r.expected, task[u].expected)
  BY DEF LeaseInv, LiveSeparate, Live
<1>2. pending # NoSubmission /\ pending.task = t /\ r.lease = pending.token =>
          Covered(pending.files, r.expected)
  BY <1>0 DEF LeaseInv, PendingInScope, TypeOK, NoLease
<1> QED
  BY <1>0, <1>1, <1>2, OneTaskKeeps

\* A new lease: its token is no submission's, and its scope was compared with the live ones.
LEMMA LeasedKeeps ==
  ASSUME LeaseInv, NEW t \in Tasks, NEW status \in TaskStatus, NEW paths \in Scopes,
         ~Conflict(t, paths), Leased(t, status, paths)
  PROVE  LeaseInv'
<1>0. issued \in Nat /\ MaxToken \in Nat /\ issued' = issued + 1 /\ issued' \in issued..MaxToken
  BY LeaseAssumption DEF LeaseInv, TypeOK, LeaseAssumption, Leased
<1>1. PICK left \in 0..Ttl :
        task' = [task EXCEPT ![t] = [task[t] EXCEPT !.status = status, !.expected = paths,
                                                    !.lease = issued + 1, !.left = left]]
  BY DEF Leased, Set
<1> DEFINE r == [task[t] EXCEPT !.status = status, !.expected = paths,
                                !.lease = issued + 1, !.left = left]
<1>2. r \in TaskRecord(issued')
  <2>1. /\ task[t] \in TaskRecord(issued') /\ paths \in Patterns /\ issued + 1 \in 0..issued'
    BY <1>0 DEF LeaseInv, TypeOK, TaskRecord, Patterns
  <2> QED
    BY <2>1 DEF TaskRecord
<1>3. r.lease = issued + 1 /\ r.expected = paths
  BY <1>0 DEF LeaseInv, TypeOK
<1>4. \A u \in Tasks \ {t} : Live(u) => Separate(paths, task[u].expected)
  BY DEF Conflict, Separate
<1>5. pending # NoSubmission => r.lease # pending.token
  BY <1>0, <1>3 DEF LeaseInv, TypeOK
<1>6. task' = [task EXCEPT ![t] = r] /\ pending' = pending
  BY <1>1 DEF Leased
<1> HIDE DEF r
<1> QED
  BY <1>0, <1>2, <1>3, <1>4, <1>5, <1>6, OneTaskKeeps

LEMMA LeaseStep == LeaseInv /\ [Next]_vars => LeaseInv'
<1> SUFFICES ASSUME LeaseInv, [Next]_vars
             PROVE  LeaseInv'
  OBVIOUS
<1>0. /\ issued \in Nat /\ MaxToken \in Nat /\ issued \in issued..MaxToken
      /\ Ttl \in Nat \ {0}
      /\ \A t \in Tasks : task[t] \in TaskRecord(issued)
  BY LeaseAssumption DEF LeaseInv, TypeOK, TaskRecord, Patterns, LeaseAssumption
<1>1. ASSUME NEW t \in Tasks, NEW paths \in Scopes, ClaimTask(t, paths)
      PROVE  LeaseInv'
  BY <1>1, LeasedKeeps DEF ClaimTask, TaskStatus
<1>2. ASSUME NEW t \in Tasks, NEW paths \in Scopes, ReopenTask(t, paths)
      PROVE  LeaseInv'
  BY <1>2, LeasedKeeps DEF ReopenTask, TaskStatus
<1>3. ASSUME NEW t \in Tasks, NEW token \in Token, Heartbeat(t, token)
      PROVE  LeaseInv'
  <2> DEFINE r == [task[t] EXCEPT !.left = Ttl]
  <2>1. r \in TaskRecord(issued) /\ r.lease = task[t].lease /\ r.expected = task[t].expected
    BY <1>0 DEF TaskRecord
  <2>2. task' = [task EXCEPT ![t] = r] /\ issued' = issued /\ pending' = pending /\ task[t].left > 0
    BY <1>3 DEF Heartbeat, Set, Same, Verified, Live
  <2> HIDE DEF r
  <2> QED
    BY <2>1, <2>2, QuietTaskKeeps
<1>4. ASSUME NEW t \in Tasks, NEW paths \in Scopes, NEW token \in Token,
             ExtendTask(t, paths, token)
      PROVE  LeaseInv'
  <2> DEFINE scope == task[t].expected \cup paths
             r == [task[t] EXCEPT !.expected = scope]
  <2>1. r \in TaskRecord(issued') /\ r.lease = task[t].lease /\ r.expected = scope
    BY <1>0, <1>4 DEF TaskRecord, Patterns, ExtendTask, Same
  <2>2. task' = [task EXCEPT ![t] = r] /\ issued' = issued /\ pending' = pending
    BY <1>4 DEF ExtendTask, Set, Same
  <2>3. \A u \in Tasks \ {t} : Live(u) => Separate(scope, task[u].expected)
    BY <1>4 DEF ExtendTask, Conflict, Separate
  <2>4. pending # NoSubmission /\ pending.task = t /\ r.lease = pending.token =>
            Covered(pending.files, scope)
    BY <2>1 DEF LeaseInv, PendingInScope, Covered
  <2> HIDE DEF r, scope
  <2> QED
    BY <1>0, <2>1, <2>2, <2>3, <2>4, OneTaskKeeps
<1>5. ASSUME NEW t \in Tasks, NEW token \in Token, NEW f \in Files, SubmitRead(t, token, {f})
      PROVE  LeaseInv'
  <2>1. /\ UNCHANGED <<task, issued>>
        /\ pending' = [token |-> token, task |-> t, files |-> {f}]
        /\ Covered({f}, task[t].expected)
        /\ task[t].lease = token
    BY <1>5 DEF SubmitRead, Verified
  <2>2. token \in 1..issued
    BY <1>0, <2>1 DEF TaskRecord, Token
  <2>3. TypeOK'
    BY <2>1, <2>2 DEF LeaseInv, TypeOK
  <2>4. LiveSeparate'
    BY <2>1 DEF LeaseInv, LiveSeparate, Live
  <2>5. PendingInScope'
    BY <2>1 DEF PendingInScope
  <2> QED
    BY <2>3, <2>4, <2>5 DEF LeaseInv
<1>6. ASSUME NEW t \in Tasks, ReleaseTask(t) \/ CancelTask(t)
      PROVE  LeaseInv'
  <2>1. PICK r \in TaskRecord(issued) : task' = [task EXCEPT ![t] = r] /\ r.lease = NoLease
    <3>1. CASE ReleaseTask(t)
      <4> DEFINE s == IF task[t].status \in {"claimed", "failed"} THEN "registered" ELSE task[t].status
      <4>1. s \in TaskStatus
        BY <1>0 DEF TaskRecord, TaskStatus
      <4>2. task' = [task EXCEPT ![t] = [task[t] EXCEPT !.lease = NoLease, !.left = 0, !.status = s]]
        BY <3>1 DEF ReleaseTask, Set
      <4> HIDE DEF s
      <4> QED
        BY <1>0, <4>1, <4>2, Unleased
    <3>2. CASE CancelTask(t)
      BY <1>0, <3>2, Unleased DEF CancelTask, Set, TaskStatus
    <3> QED
      BY <1>6, <3>1, <3>2
  <2>2. issued' = issued /\ pending' = pending
    BY <1>6 DEF ReleaseTask, CancelTask, Same
  <2> QED
    BY <2>1, <2>2, QuietTaskKeeps
<1>7. ASSUME NEW t \in Tasks, RetryTask(t) \/ Requeue(t) \/ Integrate(t)
      PROVE  LeaseInv'
  <2>1. PICK r \in TaskRecord(issued) :
            /\ task' = [task EXCEPT ![t] = r]
            /\ \/ r.lease = NoLease
               \/ /\ r.lease = task[t].lease /\ r.expected = task[t].expected
                  /\ r.left = task[t].left
    <3>1. /\ [task[t] EXCEPT !.status = "batched", !.lease = NoLease, !.left = 0] \in TaskRecord(issued)
          /\ [task[t] EXCEPT !.status = "batched", !.lease = NoLease, !.left = 0].lease = NoLease
      BY <1>0, Unleased DEF TaskStatus
    <3>2. \A s \in TaskStatus :
            LET r == [task[t] EXCEPT !.status = s]
            IN  /\ r \in TaskRecord(issued)
                /\ r.lease = task[t].lease /\ r.expected = task[t].expected
                /\ r.left = task[t].left
      BY <1>0 DEF TaskRecord
    <3> QED
      BY <1>7, <3>1, <3>2 DEF RetryTask, Requeue, Integrate, Set, TaskStatus
  <2>2. issued' = issued /\ pending' = pending
    BY <1>7 DEF RetryTask, Requeue, Integrate, Same
  <2> QED
    BY <2>1, <2>2, QuietTaskKeeps
<1>8. CASE SubmitRecord
  <2>1. pending' = NoSubmission /\ issued' = issued
    BY <1>8 DEF SubmitRecord
  <2> DEFINE t == pending.task
             r == [task[t] EXCEPT !.status = "submitted", !.actual = pending.files]
  <2>2. CASE task' = [task EXCEPT ![t] = r]
    <3>1. t \in Tasks /\ pending.files \in SUBSET Files
      BY <1>8 DEF SubmitRecord, LeaseInv, TypeOK
    <3>2. /\ r \in TaskRecord(issued) /\ r.lease = task[t].lease
          /\ r.expected = task[t].expected /\ r.left = task[t].left
      BY <1>0, <3>1 DEF TaskRecord, TaskStatus
    <3> HIDE DEF r, t
    <3> QED
      BY <2>1, <2>2, <3>1, <3>2, QuietTaskKeeps
  <2>3. CASE UNCHANGED task
    BY <2>1, <2>3 DEF LeaseInv, TypeOK, LiveSeparate, Live, PendingInScope
  <2> QED
    BY <1>8, <2>2, <2>3 DEF SubmitRecord, Set
<1>9. CASE Tick
  <2>1. UNCHANGED <<issued, pending>>
    BY <1>9 DEF Tick, Same
  <2>2. \A t \in Tasks : /\ task'[t] \in TaskRecord(issued)
                         /\ task'[t].lease = task[t].lease /\ task'[t].expected = task[t].expected
                         /\ task'[t].left > 0 => task[t].left > 0
    BY <1>0, <1>9 DEF Tick, TaskRecord
  <2>3. TypeOK'
    BY <1>9, <2>1, <2>2 DEF LeaseInv, TypeOK, Tick, TaskRecord, Patterns
  <2>4. LiveSeparate'
    BY <2>2 DEF LeaseInv, LiveSeparate, Live
  <2>5. PendingInScope'
    BY <2>1, <2>2 DEF LeaseInv, TypeOK, PendingInScope
  <2> QED
    BY <2>3, <2>4, <2>5 DEF LeaseInv
<1>10. CASE UNCHANGED vars
  BY <1>10 DEF vars, LeaseInv, TypeOK, LiveSeparate, Live, PendingInScope
<1> QED
  BY <1>1, <1>2, <1>3, <1>4, <1>5, <1>6, <1>7, <1>8, <1>9, <1>10 DEF Next

\* The record of every task, the tokens given out and the submission between its two steps keep
\* their types: a lease in a record is a token that was given out.  [types.ts TaskRecord]
THEOREM TypeCorrect == Spec => []TypeOK
<1>1. LeaseInv => TypeOK
  BY DEF LeaseInv
<1> QED
  BY <1>1, LeaseInit, LeaseStep, PTL DEF Spec

\* However leases expire, are renewed, extended and handed on, no file can be edited
\* under two live leases, nor two files of one serialized resource, for every set of
\* patterns.  [broker.ts assertNoLeaseConflict, patterns.ts patternsMayOverlap]
THEOREM Disjoint == Spec => []LeasesAreDisjoint
<1>1. LeaseInv => LeasesAreDisjoint
  <2> SUFFICES ASSUME LeaseInv, NEW t \in Tasks, NEW u \in Tasks, t # u, Live(t), Live(u)
               PROVE  /\ Editable(t) \cap Editable(u) = {}
                      /\ \A r \in Serialized : ~(Touches(t, r) /\ Touches(u, r))
    BY DEF LeasesAreDisjoint
  <2>1. task[t].expected \in Patterns /\ task[u].expected \in Patterns
    BY DEF LeaseInv, TypeOK, Patterns
  <2>2. Separate(task[t].expected, task[u].expected)
    BY DEF LeaseInv, LiveSeparate
  <2> QED
    BY <2>1, <2>2, SeparateFiles DEF Editable, Touches
<1> QED
  BY <1>1, LeaseInit, LeaseStep, PTL DEF Spec

\* What is recorded as submitted lies in the scope of the task, although the scope was
\* read before and the lease may have changed hands since.  [broker.ts submitTask]
THEOREM InScope == Spec => SubmittedInScope
<1>1. LeaseInv /\ [Next]_vars =>
        \A t \in Tasks : task'[t].actual # task[t].actual =>
            Covered(task'[t].actual, task'[t].expected)
  <2> SUFFICES ASSUME LeaseInv, [Next]_vars, NEW t \in Tasks, task'[t].actual # task[t].actual
               PROVE  Covered(task'[t].actual, task'[t].expected)
    OBVIOUS
  <2>0. \A u \in Tasks : task[u] \in TaskRecord(issued)
    BY DEF LeaseInv, TypeOK, TaskRecord, Patterns
  <2>1. CASE SubmitRecord
    <3> DEFINE p == pending.task
               r == [task[p] EXCEPT !.status = "submitted", !.actual = pending.files]
    <3>0. pending # NoSubmission /\ p \in Tasks /\ Verified(p, pending.token)
          /\ task' = [task EXCEPT ![p] = r]
      BY <2>1 DEF SubmitRecord, StillHeld, Set, LeaseInv, TypeOK
    <3>1. /\ pending # NoSubmission /\ t = p /\ Verified(t, pending.token)
          /\ task'[t].actual = pending.files /\ task'[t].expected = task[t].expected
      <4>1. r.actual = pending.files /\ r.expected = task[p].expected
        BY <2>0, <3>0 DEF TaskRecord
      <4>2. t = p /\ task'[t] = r
        BY <3>0 DEF LeaseInv, TypeOK
      <4> QED
        BY <3>0, <4>1, <4>2
    <3> QED
      BY <3>1 DEF LeaseInv, PendingInScope, Verified
  <2>2. CASE ~SubmitRecord
    <3>1. ASSUME NEW u \in Tasks, NEW r, task' = [task EXCEPT ![u] = r], r.actual = task[u].actual
          PROVE  FALSE
      BY <3>1 DEF LeaseInv, TypeOK
    <3> QED
      BY <2>0, <2>2, <3>1 DEF Next, vars, ClaimTask, ReopenTask, Leased, Heartbeat, ExtendTask,
          SubmitRead, ReleaseTask, CancelTask, RetryTask, Integrate, Requeue, Tick, Set, TaskRecord
  <2> QED
    BY <2>1, <2>2
<1>2. LeaseInv /\ [Next]_vars =>
        [\A t \in Tasks : task'[t].actual # task[t].actual =>
            Covered(task'[t].actual, task'[t].expected)]_vars
  BY <1>1
<1> QED
  BY <1>2, LeaseInit, LeaseStep, PTL DEF Spec, SubmittedInScope
=============================================================================
