---------------------------- MODULE LeaseHistory ----------------------------
(***************************************************************************)
(* Leases as Fram keeps them: not in a table but as lease propositions in  *)
(* the ordinary history, found again by folding it.  Two routes write and  *)
(* read them differently.                                                  *)
(*                                                                         *)
(*   "jvm"     server.clj and database.clj.  A new lease is asserted next  *)
(*             to the one it replaces, with a :kernel/supersedes           *)
(*             proposition that hides the old occurrence from the          *)
(*             effective view; a release retracts the newest only.         *)
(*   "native"  native_lease_ops.bgl and native_dispatch.bgl.  A new lease  *)
(*             retracts the one it replaces in the same transaction.       *)
(*                                                                         *)
(* A root is the part of a TermStore this needs: next-sequence, the live   *)
(* lease occurrences in history order, and the live supersessions.  A      *)
(* transaction asserts at most one lease, so its sequence stands for the   *)
(* occurrence coordinate as well as for the epoch.  `roots' is the line of *)
(* roots of the commit path (CommitSequencer, NativeServer): the root of   *)
(* the forced log first, the published one at `shown', then the private    *)
(* roots of the open cohort.  A request refused before it is prepared      *)
(* (stale expected-version, cancelled, response too large to encode)       *)
(* changes nothing and is left out.  Ordinary writes are taken to stay     *)
(* away from the lease and supersession vocabulary.                        *)
(***************************************************************************)
EXTENDS LeaseConstants, Integers, Sequences

Route == {"jvm", "native"}

Occurrence == [resource : Resource, holder : Holder, expires : Nat, epoch : Nat]
Supersession == [by : Nat, target : Nat]
Event == [resource : Resource, epoch : Nat, at : Nat]
Root == [next : Nat, leases : Seq(Occurrence), supersessions : SUBSET Supersession,
         grants : SUBSET Occurrence, releases : SUBSET Event, writes : SUBSET Event]

\* The lease table a root stands for (AsTable).
LeaseTable == [next : Nat, held : [Resource -> Occurrence \cup {None}],
               grants : SUBSET Occurrence, releases : SUBSET Event, writes : SUBSET Event]

ASSUME MarkAssumption ==
    /\ None \notin Occurrence
    /\ None \notin [grant : Occurrence, root : Root, forced : BOOLEAN]
    /\ None \notin [grant : Occurrence, table : LeaseTable, forced : BOOLEAN]

VARIABLES route,      \* which of the two serves the log
          backwards,  \* System/currentTimeMillis may be set back
          now, roots, shown, delivered, relinquished, checking, refuted

vars == <<route, now, backwards, roots, shown, delivered, relinquished, checking, refuted>>

\* new-term-store: no occurrence yet.
EmptyRoot ==
    [next |-> 1, leases |-> <<>>, supersessions |-> {},
     grants |-> {}, releases |-> {}, writes |-> {}]

Last(s) == s[Len(s)]

Scratch == Last(roots)

-----------------------------------------------------------------------------
(* Reading leases                                                          *)

\* Mutant: a supersession hides its target only while the occurrence that
\* made it is live itself.
SuppressedByLive(root) ==
    {s.target : s \in {x \in root.supersessions :
                         \E i \in 1..Len(root.leases) : root.leases[i].epoch = x.by}}

\* suppressed-occurrences
SuppressedOccurrences(root) == {s.target : s \in root.supersessions}

\* database/live-occurrences on the jvm route, store/live-occurrences on the
\* native one, by index in the history.
LiveOccurrences(root) ==
    {i \in 1..Len(root.leases) :
        route = "jvm" => root.leases[i].epoch \notin SuppressedOccurrences(root)}

LiveLeases(root, r) == {i \in LiveOccurrences(root) : root.leases[i].resource = r}

Newest(S) == CHOOSE i \in S : \A j \in S : j <= i

\* current-lease, in each route: the last live lease of the resource.
CurrentLease(root, r) ==
    IF LiveLeases(root, r) = {} THEN None ELSE root.leases[Newest(LiveLeases(root, r))]

\* lease-held?
Held(lease) == lease # None /\ lease.expires > now

\* matching-fence?: holder and epoch name the current lease.
MatchingFence(lease, g) ==
    lease # None /\ lease.holder = g.holder /\ lease.epoch = g.epoch

\* valid-fence? and fence-valid?
FenceValid(root, g) ==
    LET lease == CurrentLease(root, g.resource) IN MatchingFence(lease, g) /\ Held(lease)

-----------------------------------------------------------------------------
(* Changing them                                                           *)

SameProposition(a, b) ==
    a.resource = b.resource /\ a.holder = b.holder /\ a.expires = b.expires

\* Mutant: the oldest equal proposition is withdrawn.
MatchingOldest(leases, o) ==
    {i \in 1..Len(leases) :
        /\ SameProposition(leases[i], o)
        /\ \A j \in 1..Len(leases) : SameProposition(leases[j], o) => i <= j}

\* The live occurrences of the proposition of o, by index.
Matching(leases, o) == {i \in 1..Len(leases) : SameProposition(leases[i], o)}

\* A retraction withdraws the newest live equal occurrence (TermStore).
Retract(leases, o) ==
    IF Matching(leases, o) = {} THEN leases
    ELSE LET n == Newest(Matching(leases, o)) IN
         SubSeq(leases, 1, n - 1) \o SubSeq(leases, n + 1, Len(leases))

\* Mutant: the replaced lease is neither retracted nor superseded.
ReplaceOnlyAsserts(root, prior, new) == [root EXCEPT !.leases = Append(@, new)]

\* acquire-lease! and renew-lease! of the jvm route: assert! with :supersedes.
SupersedeLease(root, prior, new) ==
    [root EXCEPT
       !.leases = Append(@, new),
       !.supersessions = IF prior = None THEN @
                         ELSE @ \cup {[by |-> new.epoch, target |-> prior.epoch]}]

\* replace-lease! of the native route.
RetractAndAssert(root, prior, new) ==
    [root EXCEPT !.leases = Append(IF prior = None THEN @ ELSE Retract(@, prior), new)]

ReplaceLease(root, prior, new) ==
    IF route = "jvm" THEN SupersedeLease(root, prior, new)
    ELSE RetractAndAssert(root, prior, new)

\* The conditions of withdraw-occurrence!: the target is effective, and the
\* retraction of its proposition would withdraw it and no other occurrence.
WithdrawalExact(root, lease) ==
    /\ \E i \in LiveOccurrences(root) : root.leases[i] = lease
    /\ root.leases[Newest(Matching(root.leases, lease))] = lease

\* One transaction of the cohort.
Transact(root) ==
    /\ Len(roots) - shown < (IF route = "jvm" THEN CohortMax ELSE 1)
    /\ Scratch.next <= MaxSequence
    /\ roots' = Append(roots, [root EXCEPT !.next = Scratch.next + 1])
    /\ UNCHANGED <<now, backwards, shown, delivered, checking, refuted>>

\* predicted-next-lease-epoch: what the answer prepared before the commit says.
PredictedEpoch(root) == root.next

GrantLease(r, h, ttl) ==
    LET prior  == CurrentLease(Scratch, r)
        lease  == [resource |-> r, holder |-> h, expires |-> now + ttl,
                   epoch |-> Scratch.next]
        answer == [lease EXCEPT !.epoch = PredictedEpoch(Scratch)]
    IN  Transact([ReplaceLease(Scratch, prior, lease) EXCEPT !.grants = @ \cup {answer}])

-----------------------------------------------------------------------------
(* The handlers                                                            *)

Init ==
    /\ route \in Route
    /\ backwards \in BOOLEAN
    /\ now = 0
    /\ roots = <<EmptyRoot>>
    /\ shown = 1
    /\ delivered = {}
    /\ relinquished = {}
    /\ checking = None
    /\ refuted = {}

\* Mutant: any holder may acquire a held lease.
AcquireHeld(r, h, ttl) == GrantLease(r, h, ttl) /\ UNCHANGED relinquished

\* handle-lease-acquire!, acquire-lease!, acquire-response!: refused with
\* :rpc/lease-held, changing nothing, while the current lease has not expired.
Acquire(r, h, ttl) ==
    /\ ~Held(CurrentLease(Scratch, r))
    /\ GrantLease(r, h, ttl)
    /\ UNCHANGED relinquished

Refuse(g) ==
    /\ relinquished' = relinquished \cup {g}
    /\ UNCHANGED <<now, backwards, roots, shown, delivered, checking, refuted>>

\* handle-lease-renew!, renew-lease!, renew-response!: :rpc/lease-fence-mismatch
\* unless the fence names the current unexpired lease.
Renew(g, ttl) ==
    \/ /\ FenceValid(Scratch, g)
       /\ GrantLease(g.resource, g.holder, ttl)
       /\ relinquished' = relinquished \cup {g}
    \/ /\ ~FenceValid(Scratch, g)
       /\ Refuse(g)

\* withdraw-occurrence! or retract-lease!, in one transaction.
ReleaseCommits(g) ==
    LET lease == CurrentLease(Scratch, g.resource) IN
    /\ MatchingFence(lease, g)
    /\ route = "jvm" => WithdrawalExact(Scratch, lease)
    /\ Transact([Scratch EXCEPT
                   !.leases = Retract(@, lease),
                   !.releases = @ \cup {[resource |-> g.resource, epoch |-> g.epoch,
                                         at |-> Scratch.next]}])
    /\ relinquished' = relinquished \cup {g}

\* handle-lease-release!, release-lease!, release-response!: a fence that
\* does not name the current lease is answered `released false'; expiry does
\* not matter here.  That withdraw-occurrence! refuses a matching fence is
\* unreachable: MatchingReleaseSucceeds.
Release(g) ==
    \/ ReleaseCommits(g)
    \/ /\ ~MatchingFence(CurrentLease(Scratch, g.resource), g)
       /\ Refuse(g)

\* Mutant: the epoch of the fence is not compared.
WriteByHolder(g) ==
    LET lease == CurrentLease(Scratch, g.resource) IN
    /\ Held(lease) /\ lease.holder = g.holder
    /\ Transact([Scratch EXCEPT
                   !.writes = @ \cup {[resource |-> g.resource, epoch |-> g.epoch,
                                       at |-> Scratch.next]}])
    /\ UNCHANGED relinquished

\* A write or batch that carries a fence: require-fence!, execute-actions!.
FencedWrite(g) ==
    /\ FenceValid(Scratch, g)
    /\ Transact([Scratch EXCEPT
                   !.writes = @ \cup {[resource |-> g.resource, epoch |-> g.epoch,
                                       at |-> Scratch.next]}])
    /\ UNCHANGED relinquished

\* A write or batch without one.
PlainWrite ==
    /\ Transact(Scratch)
    /\ UNCHANGED relinquished

-----------------------------------------------------------------------------
(* The commit path, as CommitSequencer describes it                        *)

\* Mutant: the callers get their grants before the cohort is forced and shown.
AnswerFirst ==
    /\ Len(roots) > shown
    /\ delivered' = delivered \cup (Scratch.grants \ roots[shown].grants)
    /\ UNCHANGED <<now, backwards, roots, shown, relinquished, checking, refuted>>

\* commit-cohort! returns: the barrier covers the whole file, the scratch root
\* is published, the grants go out.
PublishCohort ==
    /\ Len(roots) > shown
    /\ roots' = <<Scratch>>
    /\ shown' = 1
    /\ delivered' = delivered \cup (Scratch.grants \ roots[shown].grants)
    /\ UNCHANGED <<now, backwards, relinquished, checking, refuted>>

\* The append or its barrier fails, or the process is killed, and a restart
\* folds whatever prefix of the cohort reached the file: no caller gets its
\* grant.  boot! of the jvm route replays and publishes that prefix without a
\* barrier, unless a torn tail is truncated; the native boot syncs the log
\* before it serves.
LoseCohort ==
    /\ Len(roots) > shown
    /\ \E i \in shown..Len(roots) :
          \/ route = "jvm" /\ roots' = SubSeq(roots, 1, i) /\ shown' = i
          \/ roots' = <<roots[i]>> /\ shown' = 1
    /\ UNCHANGED <<now, backwards, delivered, relinquished, checking, refuted>>

\* A power failure leaves of the frames no barrier covers some prefix, also of
\* those a boot has published.
PowerLoss ==
    /\ Len(roots) > 1
    /\ \E i \in 1..Len(roots) : roots' = <<roots[i]>>
    /\ shown' = 1
    /\ UNCHANGED <<now, backwards, delivered, relinquished, checking, refuted>>

\* handle-lease-check!, check-response: the published root is captured when
\* the request is read, the answer may come after any number of commits.
BeginCheck(g) ==
    /\ checking = None
    /\ checking' = [grant |-> g, root |-> roots[shown], forced |-> shown = 1]
    /\ UNCHANGED <<now, backwards, roots, shown, delivered, relinquished, refuted>>

AnswerCheck ==
    /\ checking # None
    /\ checking' = None
    /\ refuted' =
         IF MatchingFence(CurrentLease(checking.root, checking.grant.resource),
                          checking.grant)
         THEN refuted
         ELSE refuted \cup {[grant |-> checking.grant, forced |-> checking.forced]}
    /\ UNCHANGED <<now, backwards, roots, shown, delivered, relinquished>>

\* The wall clock is read anew by every handler.
Tick ==
    /\ now' \in (0..MaxClock) \ {now}
    /\ backwards \/ now' > now
    /\ UNCHANGED <<backwards, roots, shown, delivered, relinquished, checking, refuted>>

\* One route serves a log.
Next ==
    /\ UNCHANGED route
    /\ \/ \E r \in Resource, h \in Holder, ttl \in Ttl : Acquire(r, h, ttl)
       \/ \E g \in delivered, ttl \in Ttl : Renew(g, ttl)
       \/ \E g \in delivered : Release(g)
       \/ \E g \in delivered : FencedWrite(g)
       \/ PlainWrite
       \/ PublishCohort
       \/ LoseCohort
       \/ PowerLoss
       \/ \E g \in delivered : BeginCheck(g)
       \/ AnswerCheck
       \/ Tick

Spec == Init /\ [][Next]_vars

-----------------------------------------------------------------------------
(* Properties                                                              *)

\* Roots, grants and checks have the shapes their declarations give them.
TypeOK ==
    /\ route \in Route
    /\ backwards \in BOOLEAN
    /\ now \in 0..MaxClock
    /\ roots \in Seq(Root) /\ shown \in 1..Len(roots)
    /\ \A i \in 1..Len(roots) : roots[i].next \in 1..(MaxSequence + 1)
    /\ checking \in [grant : delivered, root : Root, forced : BOOLEAN] \cup {None}
    /\ delivered \subseteq Occurrence
    /\ relinquished \subseteq delivered
    /\ refuted \subseteq [grant : delivered, forced : BOOLEAN]

\* current-lease takes the last of the live leases of a resource; there is
\* never more than one to choose from, after any mixture of acquires, renewals,
\* releases and lost cohorts, and it is the very lease a caller was granted:
\* the epoch and expiry predicted before the commit are those of the occurrence
\* found after it.
OneEffectiveLease ==
    \A i \in 1..Len(roots) : \A r \in Resource :
        LET lease == CurrentLease(roots[i], r) IN
        lease # None => /\ \A p, q \in LiveLeases(roots[i], r) : p = q
                        /\ lease \in roots[i].grants

\* A release whose fence names the current lease is never refused by
\* withdraw-occurrence!: a retraction of its proposition takes away that very
\* occurrence, however many equal ones the history still holds superseded.
MatchingReleaseSucceeds ==
    \A i \in 1..Len(roots) : \A r \in Resource :
        LET lease == CurrentLease(roots[i], r) IN
        route = "jvm" /\ lease # None => WithdrawalExact(roots[i], lease)

AsTable(root) ==
    [next |-> root.next, held |-> [r \in Resource |-> CurrentLease(root, r)],
     grants |-> root.grants, releases |-> root.releases, writes |-> root.writes]

Promised == INSTANCE Lease WITH
    tables   <- [i \in 1..Len(roots) |-> AsTable(roots[i])],
    checking <- IF checking = None THEN None
                ELSE [grant |-> checking.grant, table |-> AsTable(checking.root),
                      forced |-> checking.forced]

\* Both routes, however differently they write leases down, implement the
\* one table of leases.
ImplementsLease == Promised!Spec

\* fence-valid?, require-fence!: a write accepted under a fence was made under
\* the newest lease granted on its resource before it, and one not yet
\* released, although predecessors of the lease stay in the history.
FencedWritesHoldNewestLease == Promised!FencedWritesHoldNewestLease

\* handle-lease-check!, check-response: a lease that a check of a forced root
\* answered is not current is not found in any root after it, nor in one that a
\* power failure brings back.  A check of what a boot published unforced
\* promises nothing.
RefutedStaysRefuted == Promised!RefutedStaysRefuted

\* While the wall clock is never set back, two clients never both hold an
\* unexpired grant on one resource that they were answered with and have not
\* offered for renewal or release.
ExclusiveReliance == Promised!ExclusiveReliance
=============================================================================
