------------------------ MODULE LeaseHistoryProofs ------------------------
(***************************************************************************)
(* Proofs about the leases kept as propositions, for any set of resources, *)
(* holders and times to live, any cohort size and any clock, on both       *)
(* routes: a root has one effective lease of a resource, a grant names it, *)
(* and the history implements the table of leases, whose promises it       *)
(* thereby keeps.                                                          *)
(***************************************************************************)
EXTENDS LeaseHistory, SequenceTheorems, TLAPS

-----------------------------------------------------------------------------
(* The inductive invariant                                                 *)

\* What the history in one root satisfies: epochs are sequences already used,
\* no two occurrences share one, only occurrences already made are superseded,
\* and a live lease was granted and is the newest occurrence of its resource,
\* superseded ones included.
RootSound(root) ==
    /\ root \in Root
    /\ root.next > 0
    /\ \A i \in 1..Len(root.leases) : root.leases[i].epoch < root.next
    /\ \A i, j \in 1..Len(root.leases) :
          root.leases[i].epoch = root.leases[j].epoch => i = j
    /\ \A s \in root.supersessions : s.target < root.next
    /\ \A r \in Resource : \A i \in LiveLeases(root, r) :
          /\ root.leases[i] \in root.grants
          /\ \A j \in 1..Len(root.leases) : root.leases[j].resource = r => j <= i

\* Every root of the commit path is sound, and so is the one a check read.
IInv ==
    /\ TypeOK
    /\ \A i \in 1..Len(roots) : RootSound(roots[i])
    /\ checking # None => RootSound(checking.root)

-----------------------------------------------------------------------------
(* Reading one root                                                        *)

\* The parts of a root.
LEMMA RootType ==
    ASSUME NEW root \in Root
    PROVE  /\ root.next \in Nat
           /\ root.leases \in Seq(Occurrence)
           /\ Len(root.leases) \in Nat
           /\ \A i \in 1..Len(root.leases) :
                 /\ root.leases[i] \in Occurrence
                 /\ root.leases[i].resource \in Resource
                 /\ root.leases[i].holder \in Holder
                 /\ root.leases[i].expires \in Nat
                 /\ root.leases[i].epoch \in Nat
                 /\ root.leases[i] # None
           /\ root.supersessions \subseteq Supersession
           /\ \A s \in root.supersessions : s.target \in Nat
           /\ root.grants \subseteq Occurrence
           /\ root.releases \subseteq Event
           /\ root.writes \subseteq Event
  <1>1. /\ root.next \in Nat
        /\ root.leases \in Seq(Occurrence)
        /\ root.supersessions \subseteq Supersession
        /\ root.grants \subseteq Occurrence
        /\ root.releases \subseteq Event
        /\ root.writes \subseteq Event
    BY DEF Root
  <1>2. Len(root.leases) \in Nat BY <1>1
  <1>3. \A i \in 1..Len(root.leases) : root.leases[i] \in Occurrence BY <1>1
  <1>4. \A o \in Occurrence :
           /\ o.resource \in Resource /\ o.holder \in Holder
           /\ o.expires \in Nat /\ o.epoch \in Nat
    BY DEF Occurrence
  <1>5. \A o \in Occurrence : o # None BY MarkAssumption
  <1>6. \A s \in root.supersessions : s.target \in Nat BY <1>1 DEF Supersession
  <1> QED BY <1>1, <1>2, <1>3, <1>4, <1>5, <1>6

\* A root is the record of its parts.
LEMMA RootShape ==
    ASSUME NEW root \in Root
    PROVE  root = [next |-> root.next, leases |-> root.leases,
                   supersessions |-> root.supersessions, grants |-> root.grants,
                   releases |-> root.releases, writes |-> root.writes]
  BY DEF Root

\* A live lease of a resource is an occurrence of the history, and lies below
\* its end.
LEMMA LiveIsIndex ==
    ASSUME NEW root, NEW r, NEW i \in LiveLeases(root, r)
    PROVE  /\ i \in 1..Len(root.leases)
           /\ root.leases[i].resource = r
  BY DEF LiveLeases, LiveOccurrences

\* Of a set with one index that index is the newest.
LEMMA NewestOfOne ==
    ASSUME NEW S, S \subseteq Int, NEW i \in S, \A j \in S : j <= i
    PROVE  Newest(S) = i
  <1>1. \E k \in S : \A j \in S : j <= k OBVIOUS
  <1>2. /\ Newest(S) \in S
        /\ \A j \in S : j <= Newest(S)
    BY <1>1 DEF Newest
  <1>3. Newest(S) <= i /\ i <= Newest(S) BY <1>2
  <1>4. Newest(S) \in Int /\ i \in Int BY <1>2
  <1> HIDE DEF Newest
  <1> QED BY <1>3, <1>4

\* In a sound root the current lease of a resource is the live one, if there
\* is one, and there are never two.
LEMMA CurrentIsLive ==
    ASSUME NEW root, RootSound(root), NEW r \in Resource, NEW i \in LiveLeases(root, r)
    PROVE  /\ LiveLeases(root, r) = {i}
           /\ CurrentLease(root, r) = root.leases[i]
           /\ CurrentLease(root, r) \in Occurrence
           /\ CurrentLease(root, r) # None
           /\ CurrentLease(root, r) \in root.grants
           /\ CurrentLease(root, r).resource = r
  <1>0. root \in Root BY DEF RootSound
  <1>1. \A j \in LiveLeases(root, r) :
           /\ j \in 1..Len(root.leases)
           /\ root.leases[j].resource = r
    BY LiveIsIndex
  <1>2. \A j \in LiveLeases(root, r) : j = i
    <2>1. \A p, q \in LiveLeases(root, r) : q <= p BY <1>1 DEF RootSound
    <2> QED BY <1>1, <2>1, <1>0, RootType
  <1>3. LiveLeases(root, r) = {i} BY <1>2
  <1>4. Newest(LiveLeases(root, r)) = i
    <2>1. LiveLeases(root, r) \subseteq Int BY <1>1, <1>0, RootType
    <2> QED BY <1>1, <1>2, <2>1, NewestOfOne, <1>0, RootType
  <1>5. CurrentLease(root, r) = root.leases[i]
    BY <1>3, <1>4 DEF CurrentLease
  <1>6. root.leases[i] \in root.grants BY DEF RootSound
  <1> QED BY <1>0, <1>1, <1>3, <1>5, <1>6, RootType

\* Without a live lease there is no current one.
LEMMA CurrentIsNone ==
    ASSUME NEW root, NEW r, LiveLeases(root, r) = {}
    PROVE  CurrentLease(root, r) = None
  BY DEF CurrentLease

\* And the other way round.
LEMMA CurrentIsSome ==
    ASSUME NEW root, RootSound(root), NEW r \in Resource, CurrentLease(root, r) # None
    PROVE  \E i \in LiveLeases(root, r) : CurrentLease(root, r) = root.leases[i]
  <1>1. LiveLeases(root, r) # {} BY DEF CurrentLease
  <1>2. PICK i \in LiveLeases(root, r) : TRUE BY <1>1
  <1> QED BY <1>2, CurrentIsLive

\* The current lease is an occurrence or none.
LEMMA CurrentType ==
    ASSUME NEW root, RootSound(root), NEW r \in Resource
    PROVE  CurrentLease(root, r) \in Occurrence \cup {None}
  BY CurrentIsSome, CurrentIsLive

-----------------------------------------------------------------------------
(* One root and the next                                                   *)

\* What a lease asserted next makes of a root: every other live lease of its
\* resource is superseded, by supersessions that touch no other resource.
LEMMA AppendStep ==
    ASSUME NEW root, RootSound(root), NEW u \in Root,
           NEW r \in Resource, NEW lease \in Occurrence,
           lease.resource = r, lease.epoch = root.next,
           u.next = root.next + 1,
           u.leases = Append(root.leases, lease),
           root.supersessions \subseteq u.supersessions,
           \A s \in u.supersessions : s.target < root.next,
           \A i \in 1..Len(root.leases) : i \notin LiveLeases(u, r),
           \A i \in 1..Len(root.leases) : root.leases[i].resource # r =>
              (root.leases[i].epoch \in SuppressedOccurrences(u)
                 <=> root.leases[i].epoch \in SuppressedOccurrences(root)),
           u.grants = root.grants \cup {lease}
    PROVE  /\ RootSound(u)
           /\ CurrentLease(u, r) = lease
           /\ \A x \in Resource : x # r => CurrentLease(u, x) = CurrentLease(root, x)
  <1> DEFINE n == Len(root.leases)
  <1>0. root \in Root BY DEF RootSound
  <1>1. /\ n \in Nat
        /\ Len(u.leases) = n + 1
        /\ \A i \in 1..n : u.leases[i] = root.leases[i]
        /\ u.leases[n + 1] = lease
    BY <1>0, RootType
  <1>2. \A i \in 1..Len(u.leases) : i \in 1..n \/ i = n + 1 BY <1>1
  <1>3. n + 1 \in 1..Len(u.leases) /\ \A i \in 1..n : i \in 1..Len(u.leases) BY <1>1
  <1>4. \A i \in 1..n :
           /\ root.leases[i].epoch \in Nat
           /\ root.leases[i].epoch < root.next
    BY <1>0, RootType DEF RootSound
  <1>5. root.next \in Nat /\ lease.epoch \in Nat BY <1>0, RootType
  <1> HIDE DEF n
  <1>6. root.next \notin SuppressedOccurrences(u)
    <2>1. \A s \in u.supersessions : s.target \in Nat BY RootType
    <2> QED BY <1>5, <2>1 DEF SuppressedOccurrences
  <1>7. LiveLeases(u, r) = {n + 1}
    <2>1. n + 1 \in LiveLeases(u, r)
      BY <1>1, <1>3, <1>6 DEF LiveLeases, LiveOccurrences
    <2>2. \A i \in LiveLeases(u, r) : i = n + 1
      BY <1>2, LiveIsIndex DEF n
    <2> QED BY <2>1, <2>2
  <1>8. ASSUME NEW x \in Resource, x # r
        PROVE  LiveLeases(u, x) = LiveLeases(root, x)
    <2>1. ASSUME NEW i \in LiveLeases(u, x) PROVE i \in LiveLeases(root, x)
      <3>1. i \in 1..Len(u.leases) /\ u.leases[i].resource = x BY LiveIsIndex
      <3>2. i \in 1..n BY <1>1, <1>2, <1>8, <3>1
      <3> QED BY <1>1, <1>8, <3>1, <3>2 DEF LiveLeases, LiveOccurrences, n
    <2>2. ASSUME NEW i \in LiveLeases(root, x) PROVE i \in LiveLeases(u, x)
      <3>1. i \in 1..n /\ root.leases[i].resource = x BY LiveIsIndex DEF n
      <3> QED BY <1>1, <1>3, <1>8, <3>1 DEF LiveLeases, LiveOccurrences, n
    <2> QED BY <2>1, <2>2
  <1>9. RootSound(u)
    <2>1. \A i \in 1..Len(u.leases) : u.leases[i].epoch < u.next
      BY <1>1, <1>2, <1>4, <1>5
    <2>2. \A i, j \in 1..Len(u.leases) : u.leases[i].epoch = u.leases[j].epoch => i = j
      <3>1. \A i, j \in 1..n : root.leases[i].epoch = root.leases[j].epoch => i = j
        BY DEF RootSound, n
      <3>2. \A i \in 1..n : u.leases[i].epoch # u.leases[n + 1].epoch
        BY <1>1, <1>4, <1>5
      <3> QED BY <1>1, <1>2, <3>1, <3>2
    <2>3. \A s \in u.supersessions : s.target < u.next
      <3>1. \A s \in u.supersessions : s.target \in Nat BY RootType
      <3> QED BY <1>5, <3>1
    <2>4. ASSUME NEW x \in Resource, NEW i \in LiveLeases(u, x)
          PROVE  /\ u.leases[i] \in u.grants
                 /\ \A j \in 1..Len(u.leases) : u.leases[j].resource = x => j <= i
      <3>1. CASE x = r
        <4>1. i = n + 1 BY <1>7, <2>4, <3>1
        <4> QED BY <4>1, <1>1
      <3>2. CASE x # r
        <4>1. i \in LiveLeases(root, x) BY <1>8, <2>4, <3>2
        <4>2. i \in 1..n BY <4>1, LiveIsIndex DEF n
        <4>3. /\ root.leases[i] \in root.grants
              /\ \A j \in 1..n : root.leases[j].resource = x => j <= i
          BY <4>1, <2>4 DEF RootSound, n
        <4>4. u.leases[i] \in u.grants BY <1>1, <4>2, <4>3
        <4>5. \A j \in 1..Len(u.leases) : u.leases[j].resource = x => j <= i
          BY <1>1, <1>2, <3>2, <4>3
        <4> QED BY <4>4, <4>5
      <3> QED BY <3>1, <3>2
    <2>5. u.next > 0 BY <1>5
    <2> QED BY <2>1, <2>2, <2>3, <2>4, <2>5 DEF RootSound
  <1>10. CurrentLease(u, r) = lease
    BY <1>1, <1>7, <1>9, CurrentIsLive
  <1>11. ASSUME NEW x \in Resource, x # r
         PROVE  CurrentLease(u, x) = CurrentLease(root, x)
    <2>1. CASE LiveLeases(root, x) = {}
      BY <1>8, <1>11, <2>1, CurrentIsNone
    <2>2. ASSUME NEW i \in LiveLeases(root, x)
          PROVE  CurrentLease(u, x) = CurrentLease(root, x)
      <3>0. LiveLeases(u, x) = LiveLeases(root, x) BY <1>8, <1>11
      <3>1. i \in 1..n /\ i \in LiveLeases(u, x) BY <2>2, <3>0, LiveIsIndex DEF n
      <3>2. CurrentLease(u, x) = u.leases[i] BY ONLY <1>9, <1>11, <3>1, CurrentIsLive
      <3>3. CurrentLease(root, x) = root.leases[i] BY CurrentIsLive
      <3> QED BY <1>1, <3>1, <3>2, <3>3
    <2> QED BY <2>1, <2>2
  <1> QED BY <1>9, <1>10, <1>11

\* What a retraction of the live lease at n makes of a root: the resource has
\* none, the others keep theirs.
LEMMA RemoveStep ==
    ASSUME NEW root, RootSound(root), NEW u \in Root,
           NEW r \in Resource, NEW n \in LiveLeases(root, r),
           u.next >= root.next,
           u.leases = SubSeq(root.leases, 1, n - 1)
                        \o SubSeq(root.leases, n + 1, Len(root.leases)),
           u.supersessions = root.supersessions,
           u.grants = root.grants
    PROVE  /\ RootSound(u)
           /\ LiveLeases(u, r) = {}
           /\ \A x \in Resource : x # r => CurrentLease(u, x) = CurrentLease(root, x)
  <1> DEFINE m == Len(root.leases)
             L == root.leases
             At(i) == IF i < n THEN i ELSE i + 1
  <1>0. root \in Root BY DEF RootSound
  <1>1. /\ m \in Nat /\ n \in 1..m
        /\ L \in Seq(Occurrence)
        /\ L[n].resource = r
    BY <1>0, RootType, LiveIsIndex
  <1>2. /\ Len(u.leases) = m - 1
        /\ \A i \in 1..(m - 1) : u.leases[i] = L[At(i)]
    <2>1. /\ SubSeq(L, 1, n - 1) \in Seq(Occurrence)
          /\ Len(SubSeq(L, 1, n - 1)) = n - 1
          /\ \A i \in 1..(n - 1) : SubSeq(L, 1, n - 1)[i] = L[i]
      BY <1>1
    <2>2. /\ SubSeq(L, n + 1, m) \in Seq(Occurrence)
          /\ Len(SubSeq(L, n + 1, m)) = m - n
          /\ \A i \in 1..(m - n) : SubSeq(L, n + 1, m)[i] = L[n + i]
      BY <1>1
    <2>3. u.leases = SubSeq(L, 1, n - 1) \o SubSeq(L, n + 1, m) OBVIOUS
    <2> DEFINE A == SubSeq(L, 1, n - 1)
               B == SubSeq(L, n + 1, m)
    <2>4. /\ A \in Seq(Occurrence) /\ B \in Seq(Occurrence)
          /\ Len(A) = n - 1 /\ Len(B) = m - n
          /\ \A i \in 1..(n - 1) : A[i] = L[i]
          /\ \A i \in 1..(m - n) : B[i] = L[n + i]
          /\ u.leases = A \o B
      BY <2>1, <2>2, <2>3
    <2>6. /\ m \in Nat /\ n \in 1..m BY <1>1
    <2> HIDE DEF L, m, A, B
    <2>7. /\ Len(A \o B) = Len(A) + Len(B)
          /\ \A i \in 1..(Len(A) + Len(B)) :
                (A \o B)[i] = IF i <= Len(A) THEN A[i] ELSE B[i - Len(A)]
      BY ONLY <2>4, ConcatProperties
    <2>8. Len(u.leases) = m - 1 BY ONLY <2>4, <2>6, <2>7
    <2>5. ASSUME NEW i \in 1..(m - 1) PROVE u.leases[i] = L[At(i)]
      <3>0. u.leases[i] = IF i <= n - 1 THEN A[i] ELSE B[i - (n - 1)]
        BY ONLY <2>4, <2>6, <2>7, i \in 1..(m - 1)
      <3>1. CASE i < n
        <4>1. i \in 1..(n - 1) /\ i <= n - 1 BY ONLY <3>1, <2>6, i \in 1..(m - 1)
        <4> QED BY <3>0, <3>1, <4>1, <2>4
      <3>2. CASE ~(i < n)
        <4>1. /\ i - (n - 1) \in 1..(m - n) /\ ~(i <= n - 1)
              /\ n + (i - (n - 1)) = i + 1
          BY ONLY <3>2, <2>6, i \in 1..(m - 1)
        <4> QED BY <3>0, <3>2, <4>1, <2>4
      <3> QED BY <3>1, <3>2
    <2> QED BY <2>5, <2>8
  <1>3. \A i \in 1..(m - 1) : At(i) \in 1..m /\ At(i) # n BY <1>1
  <1>4. \A i, j \in 1..(m - 1) : (At(i) = At(j) => i = j) /\ (At(j) <= At(i) => j <= i)
    BY <1>1
  <1>5. \A k \in 1..m : k # n => \E i \in 1..(m - 1) : At(i) = k
    <2> SUFFICES ASSUME NEW k \in 1..m, k # n PROVE \E i \in 1..(m - 1) : At(i) = k
      OBVIOUS
    <2>1. CASE k < n
      <3>1. k \in 1..(m - 1) /\ At(k) = k BY <2>1, <1>1
      <3> QED BY <3>1
    <2>2. CASE k > n
      <3>1. k - 1 \in 1..(m - 1) /\ At(k - 1) = k BY <2>2, <1>1
      <3> QED BY <3>1
    <2> QED BY <2>1, <2>2, <1>1
  <1>6. \A x : \A i \in 1..(m - 1) : i \in LiveLeases(u, x) <=> At(i) \in LiveLeases(root, x)
    <2> SUFFICES ASSUME NEW x, NEW i \in 1..(m - 1)
                 PROVE  i \in LiveLeases(u, x) <=> At(i) \in LiveLeases(root, x)
      OBVIOUS
    <2>1. u.leases[i] = root.leases[At(i)] BY <1>2
    <2>2. SuppressedOccurrences(u) = SuppressedOccurrences(root)
      BY DEF SuppressedOccurrences
    <2>3. i \in 1..Len(u.leases) /\ At(i) \in 1..Len(root.leases) BY <1>2, <1>3
    <2> HIDE DEF At
    <2> QED BY <2>1, <2>2, <2>3 DEF LiveLeases, LiveOccurrences
  <1>7. \A x : \A i \in LiveLeases(u, x) : i \in 1..(m - 1) BY <1>2, LiveIsIndex
  <1>8. LiveLeases(root, r) = {n} BY CurrentIsLive
  <1>10. root.next \in Nat /\ u.next \in Nat BY <1>0, RootType
  <1>11. \A k \in 1..m : L[k].epoch \in Nat BY <1>0, RootType
  <1> HIDE DEF At, m, L
  <1>9. LiveLeases(u, r) = {} BY <1>3, <1>6, <1>7, <1>8
  <1>12. RootSound(u)
    <2>1. \A i \in 1..Len(u.leases) : u.leases[i].epoch < u.next
      <3>1. \A k \in 1..m : L[k].epoch < root.next BY DEF RootSound, L, m
      <3>2. \A k \in 1..m : L[k].epoch < u.next BY <3>1, <1>10, <1>11
      <3> QED BY <1>2, <1>3, <3>2
    <2>2. \A i, j \in 1..Len(u.leases) : u.leases[i].epoch = u.leases[j].epoch => i = j
      <3>1. \A k, l \in 1..m : L[k].epoch = L[l].epoch => k = l BY DEF RootSound, L, m
      <3>2. ASSUME NEW i \in 1..Len(u.leases), NEW j \in 1..Len(u.leases),
                   u.leases[i].epoch = u.leases[j].epoch
            PROVE  i = j
        <4>1. i \in 1..(m - 1) /\ j \in 1..(m - 1) BY <1>2
        <4>2. L[At(i)].epoch = L[At(j)].epoch BY <1>2, <3>2, <4>1
        <4>3. At(i) \in 1..m /\ At(j) \in 1..m BY <1>3, <4>1
        <4>4. At(i) = At(j) BY ONLY <3>1, <4>2, <4>3
        <4> QED BY <1>4, <4>1, <4>4
      <3> QED BY <3>2
    <2>3. \A s \in u.supersessions : s.target < u.next
      <3>1. \A s \in root.supersessions : s.target \in Nat BY <1>0, RootType
      <3>2. \A s \in root.supersessions : s.target < root.next BY DEF RootSound
      <3> QED BY <1>10, <3>1, <3>2
    <2>4. ASSUME NEW x \in Resource, NEW i \in LiveLeases(u, x)
          PROVE  /\ u.leases[i] \in u.grants
                 /\ \A j \in 1..Len(u.leases) : u.leases[j].resource = x => j <= i
      <3>1. i \in 1..(m - 1) BY <1>7
      <3>2. At(i) \in LiveLeases(root, x) BY <1>6, <3>1
      <3>3. /\ L[At(i)] \in root.grants
            /\ \A k \in 1..m : L[k].resource = x => k <= At(i)
        BY <3>2 DEF RootSound, L, m
      <3>4. u.leases[i] \in u.grants BY <1>2, <3>1, <3>3
      <3>5. \A j \in 1..Len(u.leases) : u.leases[j].resource = x => j <= i
        BY <1>2, <1>3, <1>4, <3>1, <3>3
      <3> QED BY <3>4, <3>5
    <2>5. u.next > 0 BY <1>10 DEF RootSound
    <2> QED BY <2>1, <2>2, <2>3, <2>4, <2>5 DEF RootSound
  <1>13. ASSUME NEW x \in Resource, x # r
         PROVE  CurrentLease(u, x) = CurrentLease(root, x)
    <2>1. CASE LiveLeases(root, x) = {}
      <3>1. LiveLeases(u, x) = {} BY <1>6, <1>7, <2>1
      <3> QED BY <2>1, <3>1, CurrentIsNone
    <2>2. ASSUME NEW k \in LiveLeases(root, x)
          PROVE  CurrentLease(u, x) = CurrentLease(root, x)
      <3>1. k \in 1..m /\ L[k].resource = x BY LiveIsIndex DEF L, m
      <3>2. k # n BY <1>1, <1>13, <3>1
      <3>3. PICK i \in 1..(m - 1) : At(i) = k BY <1>5, <3>1, <3>2
      <3>4. i \in LiveLeases(u, x) BY <1>6, <2>2, <3>3
      <3>5. CurrentLease(u, x) = u.leases[i] BY ONLY <1>12, <1>13, <3>4, CurrentIsLive
      <3>6. CurrentLease(root, x) = root.leases[k] BY CurrentIsLive
      <3> QED BY <1>2, <3>3, <3>5, <3>6 DEF L
    <2> QED BY <2>1, <2>2
  <1> QED BY <1>9, <1>12, <1>13

\* Retracting the proposition of a live lease withdraws that occurrence: no
\* equal proposition, superseded or not, is newer.
LEMMA RetractsLive ==
    ASSUME NEW root, RootSound(root), NEW r \in Resource, NEW n \in LiveLeases(root, r)
    PROVE  /\ Newest(Matching(root.leases, root.leases[n])) = n
           /\ Retract(root.leases, root.leases[n])
                = SubSeq(root.leases, 1, n - 1) \o SubSeq(root.leases, n + 1, Len(root.leases))
  <1> DEFINE S == Matching(root.leases, root.leases[n])
  <1>0. root \in Root BY DEF RootSound
  <1>1. n \in 1..Len(root.leases) /\ root.leases[n].resource = r BY LiveIsIndex
  <1>2. n \in S BY <1>1 DEF Matching, SameProposition
  <1>3. \A j \in S : j \in 1..Len(root.leases) /\ root.leases[j].resource = r
    BY <1>1 DEF Matching, SameProposition
  <1>4. \A j \in S : j <= n BY <1>3 DEF RootSound
  <1>5. S \subseteq Int BY <1>0, <1>3, RootType
  <1> HIDE DEF S
  <1>6. Newest(S) = n BY <1>2, <1>4, <1>5, NewestOfOne
  <1>7. S # {} BY <1>2
  <1> QED BY <1>6, <1>7 DEF Retract, S

\* A retraction leaves a history of lease occurrences.
LEMMA RetractType ==
    ASSUME NEW root, RootSound(root), NEW r \in Resource, NEW n \in LiveLeases(root, r)
    PROVE  Retract(root.leases, root.leases[n]) \in Seq(Occurrence)
  <1>0. root \in Root BY DEF RootSound
  <1>1. /\ n \in 1..Len(root.leases) /\ Len(root.leases) \in Nat
        /\ root.leases \in Seq(Occurrence)
    BY <1>0, RootType, LiveIsIndex
  <1>2. /\ SubSeq(root.leases, 1, n - 1) \in Seq(Occurrence)
        /\ SubSeq(root.leases, n + 1, Len(root.leases)) \in Seq(Occurrence)
    BY ONLY <1>1
  <1>3. SubSeq(root.leases, 1, n - 1) \o SubSeq(root.leases, n + 1, Len(root.leases))
          \in Seq(Occurrence)
    BY ONLY <1>2, ConcatProperties
  <1> QED BY <1>3, RetractsLive

\* The transaction of an acquire or a renewal.
GrantRoot(root, lease) ==
    [[ReplaceLease(root, CurrentLease(root, lease.resource), lease)
        EXCEPT !.grants = @ \cup {lease}]
        EXCEPT !.next = root.next + 1]

\* On either route it leaves the new lease as the one of its resource.
LEMMA GrantStep ==
    ASSUME NEW root, RootSound(root), route \in Route,
           NEW lease \in Occurrence, lease.epoch = root.next
    PROVE  /\ RootSound(GrantRoot(root, lease))
           /\ CurrentLease(GrantRoot(root, lease), lease.resource) = lease
           /\ \A x \in Resource : x # lease.resource =>
                 CurrentLease(GrantRoot(root, lease), x) = CurrentLease(root, x)
           /\ GrantRoot(root, lease).next = root.next + 1
           /\ GrantRoot(root, lease).grants = root.grants \cup {lease}
           /\ GrantRoot(root, lease).releases = root.releases
           /\ GrantRoot(root, lease).writes = root.writes
  <1> DEFINE r == lease.resource
             u == GrantRoot(root, lease)
             prior == CurrentLease(root, r)
  <1>0. root \in Root /\ r \in Resource BY DEF RootSound, Occurrence
  <1>1. root.next \in Nat /\ root.next > 0 BY <1>0, RootType DEF RootSound
  <1>2. CASE route = "jvm"
    <2> DEFINE new == IF prior = None THEN {}
                      ELSE {[by |-> lease.epoch, target |-> prior.epoch]}
    <2>1. /\ u.next = root.next + 1
          /\ u.leases = Append(root.leases, lease)
          /\ u.supersessions = root.supersessions \cup new
          /\ u.grants = root.grants \cup {lease}
          /\ u.releases = root.releases
          /\ u.writes = root.writes
          /\ u = [next |-> u.next, leases |-> u.leases, supersessions |-> u.supersessions,
                  grants |-> u.grants, releases |-> u.releases, writes |-> u.writes]
      <3> DEFINE w == ReplaceLease(root, prior, lease)
      <3>2. w = [next |-> root.next, leases |-> Append(root.leases, lease),
                 supersessions |-> root.supersessions \cup new, grants |-> root.grants,
                 releases |-> root.releases, writes |-> root.writes]
        BY <1>0, <1>2 DEF ReplaceLease, SupersedeLease, Root
      <3>3. u = [[w EXCEPT !.grants = @ \cup {lease}] EXCEPT !.next = root.next + 1]
        BY DEF GrantRoot
      <3> HIDE DEF w, u, prior, new
      <3>4. u = [next |-> root.next + 1, leases |-> Append(root.leases, lease),
                 supersessions |-> root.supersessions \cup new,
                 grants |-> root.grants \cup {lease},
                 releases |-> root.releases, writes |-> root.writes]
        BY <3>2, <3>3
      <3> QED BY <3>4
    <2>2. prior # None => /\ prior \in Occurrence /\ prior.epoch \in Nat
                          /\ prior.epoch < root.next
      <3> SUFFICES ASSUME prior # None
                   PROVE  /\ prior \in Occurrence /\ prior.epoch \in Nat
                          /\ prior.epoch < root.next
        OBVIOUS
      <3>1. PICK i \in LiveLeases(root, r) : prior = root.leases[i]
        BY <1>0, CurrentIsSome
      <3>2. i \in 1..Len(root.leases) BY LiveIsIndex
      <3>3. root.leases[i].epoch < root.next BY <3>2 DEF RootSound
      <3>4. root.leases[i] \in Occurrence /\ root.leases[i].epoch \in Nat
        BY <1>0, <3>2, RootType
      <3> QED BY <3>1, <3>3, <3>4
    <2>3. /\ new \subseteq Supersession
          /\ \A s \in new : s.target < root.next
      BY <1>1, <2>2 DEF Supersession
    <2> HIDE DEF u
    <2>4. u \in Root
      <3>1. u.leases \in Seq(Occurrence) BY <1>0, <2>1, RootType
      <3>2. /\ u.next \in Nat
            /\ u.supersessions \in SUBSET Supersession
            /\ u.grants \in SUBSET Occurrence
            /\ u.releases \in SUBSET Event
            /\ u.writes \in SUBSET Event
        BY <1>0, <1>1, <2>1, <2>3, RootType
      <3> QED BY <2>1, <3>1, <3>2 DEF Root
    <2>5. /\ root.supersessions \subseteq u.supersessions
          /\ \A s \in u.supersessions : s.target < root.next
      BY <2>1, <2>3 DEF RootSound
    <2>6. SuppressedOccurrences(u)
            = SuppressedOccurrences(root) \cup (IF prior = None THEN {} ELSE {prior.epoch})
      <3> HIDE DEF prior
      <3>1. \A e : (\E s \in new : e = s.target) <=> prior # None /\ e = prior.epoch
        <4>1. CASE prior = None
          <5>1. new = {} BY <4>1
          <5> QED BY <4>1, <5>1
        <4>2. CASE prior # None
          <5> DEFINE s0 == [by |-> lease.epoch, target |-> prior.epoch]
          <5>1. new = {s0} /\ s0.target = prior.epoch BY <4>2
          <5> HIDE DEF new, s0
          <5> QED BY <4>2, <5>1
        <4> QED BY <4>1, <4>2
      <3> HIDE DEF new
      <3>2. SuppressedOccurrences(u) = {s.target : s \in root.supersessions \cup new}
        BY <2>1 DEF SuppressedOccurrences
      <3> QED BY <3>1, <3>2 DEF SuppressedOccurrences
    <2>7. ASSUME NEW i \in 1..Len(root.leases) PROVE i \notin LiveLeases(u, r)
      <3> SUFFICES ASSUME i \in LiveLeases(u, r) PROVE FALSE OBVIOUS
      <3>1. u.leases[i] = root.leases[i] BY <1>0, <2>1, RootType
      <3>2. /\ root.leases[i].resource = r
            /\ root.leases[i].epoch \notin SuppressedOccurrences(u)
        BY <1>2, <3>1 DEF LiveLeases, LiveOccurrences
      <3>3. i \in LiveLeases(root, r)
        BY <3>2, <2>6 DEF LiveLeases, LiveOccurrences
      <3>4. prior = root.leases[i] /\ prior # None BY <1>0, <3>3, CurrentIsLive
      <3> QED BY <2>6, <3>2, <3>4
    <2>8. \A i \in 1..Len(root.leases) : root.leases[i].resource # r =>
             (root.leases[i].epoch \in SuppressedOccurrences(u)
                <=> root.leases[i].epoch \in SuppressedOccurrences(root))
      <3> SUFFICES ASSUME NEW i \in 1..Len(root.leases), root.leases[i].resource # r,
                          prior # None
                   PROVE  root.leases[i].epoch # prior.epoch
        BY <2>6
      <3>1. PICK k \in LiveLeases(root, r) : prior = root.leases[k]
        BY <1>0, CurrentIsSome
      <3>2. k \in 1..Len(root.leases) /\ root.leases[k].resource = r BY LiveIsIndex
      <3> QED BY <3>1, <3>2 DEF RootSound
    <2> HIDE DEF prior, r, new
    <2>9. r = lease.resource BY DEF r
    <2>10. /\ RootSound(u)
           /\ CurrentLease(u, r) = lease
           /\ \A x \in Resource : x # r => CurrentLease(u, x) = CurrentLease(root, x)
      BY <1>0, <2>1, <2>4, <2>5, <2>7, <2>8, <2>9, AppendStep
    <2> QED BY <2>1, <2>10 DEF u, r
  <1>3. CASE route = "native"
    <2> DEFINE kept == IF prior = None THEN root.leases ELSE Retract(root.leases, prior)
               v == [root EXCEPT !.leases = kept]
    <2>1. /\ u.next = root.next + 1
          /\ u.leases = Append(kept, lease)
          /\ u.supersessions = root.supersessions
          /\ u.grants = root.grants \cup {lease}
          /\ u.releases = root.releases
          /\ u.writes = root.writes
          /\ u = [next |-> u.next, leases |-> u.leases, supersessions |-> u.supersessions,
                  grants |-> u.grants, releases |-> u.releases, writes |-> u.writes]
      <3> DEFINE w == ReplaceLease(root, prior, lease)
      <3>2. w = [next |-> root.next, leases |-> Append(kept, lease),
                 supersessions |-> root.supersessions, grants |-> root.grants,
                 releases |-> root.releases, writes |-> root.writes]
        BY <1>0, <1>3 DEF ReplaceLease, RetractAndAssert, Root
      <3>3. u = [[w EXCEPT !.grants = @ \cup {lease}] EXCEPT !.next = root.next + 1]
        BY DEF GrantRoot
      <3> HIDE DEF w, u, prior, kept
      <3>4. u = [next |-> root.next + 1, leases |-> Append(kept, lease),
                 supersessions |-> root.supersessions,
                 grants |-> root.grants \cup {lease},
                 releases |-> root.releases, writes |-> root.writes]
        BY <3>2, <3>3
      <3> QED BY <3>4
    <2>2. kept \in Seq(Occurrence)
      <3>1. CASE prior = None BY <1>0, <3>1, RootType
      <3>2. CASE prior # None
        <4>1. PICK n \in LiveLeases(root, r) : prior = root.leases[n]
          BY <1>0, <3>2, CurrentIsSome
        <4> QED BY <1>0, <3>2, <4>1, RetractType
      <3> QED BY <3>1, <3>2
    <2>3. /\ v \in Root /\ v.next = root.next /\ v.leases = kept
          /\ v.supersessions = root.supersessions /\ v.grants = root.grants
      BY <1>0, <2>2 DEF Root
    <2>4. u \in Root
      <3>1. u.leases \in Seq(Occurrence) BY <2>1, <2>2
      <3>2. /\ u.next \in Nat
            /\ u.supersessions \in SUBSET Supersession
            /\ u.grants \in SUBSET Occurrence
            /\ u.releases \in SUBSET Event
            /\ u.writes \in SUBSET Event
        BY <1>0, <1>1, <2>1, RootType
      <3> HIDE DEF u
      <3> QED BY <2>1, <3>1, <3>2 DEF Root
    <2> HIDE DEF u
    <2>5. /\ RootSound(v)
          /\ LiveLeases(v, r) = {}
          /\ \A x \in Resource : x # r => CurrentLease(v, x) = CurrentLease(root, x)
      <3>1. CASE prior = None
        <4>1. v = root BY <1>0, <3>1 DEF Root
        <4>2. \A i \in LiveLeases(root, r) : FALSE BY <1>0, <3>1, CurrentIsLive
        <4> HIDE DEF v
        <4> QED BY <4>1, <4>2
      <3>2. CASE prior # None
        <4>1. PICK n \in LiveLeases(root, r) : prior = root.leases[n]
          BY <1>0, <3>2, CurrentIsSome
        <4>2. v.leases = SubSeq(root.leases, 1, n - 1)
                           \o SubSeq(root.leases, n + 1, Len(root.leases))
          BY <1>0, <2>3, <3>2, <4>1, RetractsLive
        <4>3. v.next >= root.next BY <1>1, <2>3
        <4> HIDE DEF v, kept, prior
        <4> QED BY <1>0, <2>3, <4>1, <4>2, <4>3, RemoveStep
      <3> QED BY <3>1, <3>2
    <2> HIDE DEF v, kept, prior
    <2>6. /\ u.next = v.next + 1
          /\ u.leases = Append(v.leases, lease)
          /\ u.grants = v.grants \cup {lease}
          /\ lease.epoch = v.next
          /\ v.supersessions \subseteq u.supersessions
          /\ \A s \in u.supersessions : s.target < v.next
      BY <2>1, <2>3 DEF RootSound
    <2>7. SuppressedOccurrences(u) = SuppressedOccurrences(v)
      BY <2>1, <2>3 DEF SuppressedOccurrences
    <2>8. ASSUME NEW i \in 1..Len(v.leases) PROVE i \notin LiveLeases(u, r)
      <3>1. u.leases[i] = v.leases[i] BY <2>3, <2>6, RootType
      <3>2. i \in LiveLeases(u, r) => i \in LiveLeases(v, r)
        BY <3>1, <2>7 DEF LiveLeases, LiveOccurrences
      <3> QED BY <3>2, <2>5
    <2>9. \A i \in 1..Len(v.leases) : v.leases[i].resource # r =>
             (v.leases[i].epoch \in SuppressedOccurrences(u)
                <=> v.leases[i].epoch \in SuppressedOccurrences(v))
      BY <2>7
    <2>10. r = lease.resource OBVIOUS
    <2> HIDE DEF r
    <2>11. /\ RootSound(u)
           /\ CurrentLease(u, r) = lease
           /\ \A x \in Resource : x # r => CurrentLease(u, x) = CurrentLease(v, x)
      BY <1>0, <2>4, <2>5, <2>6, <2>8, <2>9, <2>10, AppendStep
    <2> QED BY <2>1, <2>5, <2>11 DEF u, r
  <1> QED BY <1>2, <1>3 DEF Route

\* The transaction of a release.
ReleaseRoot(root, lease, e) ==
    [[root EXCEPT !.leases = Retract(@, lease), !.releases = @ \cup {e}]
        EXCEPT !.next = root.next + 1]

\* On either route it leaves its resource without a lease.
LEMMA ReleaseStep ==
    ASSUME NEW root, RootSound(root), NEW r \in Resource, NEW e \in Event,
           CurrentLease(root, r) # None
    PROVE  LET u == ReleaseRoot(root, CurrentLease(root, r), e) IN
           /\ RootSound(u)
           /\ CurrentLease(u, r) = None
           /\ \A x \in Resource : x # r => CurrentLease(u, x) = CurrentLease(root, x)
           /\ u.next = root.next + 1
           /\ u.grants = root.grants
           /\ u.releases = root.releases \cup {e}
           /\ u.writes = root.writes
  <1> DEFINE lease == CurrentLease(root, r)
             u == ReleaseRoot(root, lease, e)
             kept == Retract(root.leases, lease)
  <1>0. root \in Root BY DEF RootSound
  <1>1. root.next \in Nat BY <1>0, RootType
  <1>2. PICK n \in LiveLeases(root, r) : lease = root.leases[n] BY CurrentIsSome
  <1>3. /\ kept \in Seq(Occurrence)
        /\ kept = SubSeq(root.leases, 1, n - 1)
                    \o SubSeq(root.leases, n + 1, Len(root.leases))
    BY <1>2, RetractType, RetractsLive
  <1>4. u = [next |-> root.next + 1, leases |-> kept,
             supersessions |-> root.supersessions, grants |-> root.grants,
             releases |-> root.releases \cup {e}, writes |-> root.writes]
    <2> DEFINE w == [root EXCEPT !.leases = kept, !.releases = @ \cup {e}]
    <2>1. u = [w EXCEPT !.next = root.next + 1] BY DEF ReleaseRoot
    <2> HIDE DEF lease, kept, u
    <2>2. w = [next |-> root.next, leases |-> kept,
               supersessions |-> root.supersessions, grants |-> root.grants,
               releases |-> root.releases \cup {e}, writes |-> root.writes]
      <3> DEFINE v == [root EXCEPT !.leases = kept]
      <3>1. v = [next |-> root.next, leases |-> kept,
                 supersessions |-> root.supersessions, grants |-> root.grants,
                 releases |-> root.releases, writes |-> root.writes]
        BY <1>0, RootShape
      <3>2. w = [v EXCEPT !.releases = root.releases \cup {e}]
        BY <1>0 DEF Root
      <3> HIDE DEF v
      <3> QED BY ONLY <3>1, <3>2
    <2> HIDE DEF w
    <2> QED BY <2>1, <2>2
  <1> HIDE DEF u, kept, lease
  <1>5. /\ u.next = root.next + 1 /\ u.leases = kept
        /\ u.supersessions = root.supersessions /\ u.grants = root.grants
        /\ u.releases = root.releases \cup {e} /\ u.writes = root.writes
    BY <1>4
  <1>6. u \in Root
    <2>1. /\ root.next + 1 \in Nat
          /\ root.supersessions \in SUBSET Supersession
          /\ root.grants \in SUBSET Occurrence
          /\ root.releases \cup {e} \in SUBSET Event
          /\ root.writes \in SUBSET Event
      BY <1>0, <1>1, RootType
    <2> QED BY <1>3, <1>4, <2>1 DEF Root
  <1>7. /\ u.next >= root.next
        /\ u.leases = SubSeq(root.leases, 1, n - 1)
                         \o SubSeq(root.leases, n + 1, Len(root.leases))
    BY <1>1, <1>3, <1>5
  <1>8. /\ RootSound(u)
        /\ LiveLeases(u, r) = {}
        /\ \A x \in Resource : x # r => CurrentLease(u, x) = CurrentLease(root, x)
    BY <1>5, <1>6, <1>7, RemoveStep
  <1>9. CurrentLease(u, r) = None BY <1>8, CurrentIsNone
  <1> QED BY <1>5, <1>8, <1>9 DEF u, lease

\* The transaction of a write, fenced or not.
WriteRoot(root, W) ==
    [[root EXCEPT !.writes = W] EXCEPT !.next = root.next + 1]

\* It leaves the leases alone.
LEMMA WriteStep ==
    ASSUME NEW root, RootSound(root), NEW W \in SUBSET Event
    PROVE  /\ RootSound(WriteRoot(root, W))
           /\ \A x \in Resource : CurrentLease(WriteRoot(root, W), x) = CurrentLease(root, x)
           /\ WriteRoot(root, W).next = root.next + 1
           /\ WriteRoot(root, W).grants = root.grants
           /\ WriteRoot(root, W).releases = root.releases
           /\ WriteRoot(root, W).writes = W
  <1> DEFINE u == WriteRoot(root, W)
  <1>0. root \in Root BY DEF RootSound
  <1>1. root.next \in Nat BY <1>0, RootType
  <1>2. u = [next |-> root.next + 1, leases |-> root.leases,
             supersessions |-> root.supersessions, grants |-> root.grants,
             releases |-> root.releases, writes |-> W]
    <2> DEFINE w == [root EXCEPT !.writes = W]
    <2>1. u = [w EXCEPT !.next = root.next + 1] BY DEF WriteRoot
    <2> HIDE DEF u
    <2>2. w = [next |-> root.next, leases |-> root.leases,
               supersessions |-> root.supersessions, grants |-> root.grants,
               releases |-> root.releases, writes |-> W]
      BY <1>0, RootShape
    <2> HIDE DEF w
    <2> QED BY <2>1, <2>2
  <1> HIDE DEF u
  <1>3. /\ u.next = root.next + 1 /\ u.leases = root.leases
        /\ u.supersessions = root.supersessions /\ u.grants = root.grants
        /\ u.releases = root.releases /\ u.writes = W
    BY <1>2
  <1>4. u \in Root BY <1>0, <1>1, <1>2, RootType DEF Root
  <1>5. \A x : LiveLeases(u, x) = LiveLeases(root, x)
    BY <1>3 DEF LiveLeases, LiveOccurrences, SuppressedOccurrences
  <1>6. RootSound(u)
    <2>1. \A i \in 1..Len(root.leases) : root.leases[i].epoch \in Nat BY <1>0, RootType
    <2>2. \A s \in root.supersessions : s.target \in Nat BY <1>0, RootType
    <2>3. /\ u.next > 0
          /\ \A i \in 1..Len(u.leases) : u.leases[i].epoch < u.next
          /\ \A s \in u.supersessions : s.target < u.next
      BY <1>1, <1>3, <2>1, <2>2 DEF RootSound
    <2>4. \A i, j \in 1..Len(u.leases) : u.leases[i].epoch = u.leases[j].epoch => i = j
      BY <1>3 DEF RootSound
    <2>5. \A x \in Resource : \A i \in LiveLeases(u, x) :
            /\ u.leases[i] \in u.grants
            /\ \A j \in 1..Len(u.leases) : u.leases[j].resource = x => j <= i
      BY <1>3, <1>5 DEF RootSound
    <2> QED BY <1>4, <2>3, <2>4, <2>5 DEF RootSound
  <1>7. \A x \in Resource : CurrentLease(u, x) = CurrentLease(root, x)
    BY <1>3, <1>5 DEF CurrentLease
  <1> QED BY <1>3, <1>6, <1>7 DEF u

-----------------------------------------------------------------------------
(* The invariant                                                           *)

\* The last root is one of the roots.
LEMMA ScratchSound ==
    ASSUME IInv
    PROVE  /\ Len(roots) \in Nat \ {0}
           /\ Scratch = roots[Len(roots)]
           /\ RootSound(Scratch)
           /\ Scratch \in Root
           /\ Scratch.next \in Nat
           /\ route \in Route
           /\ shown \in 1..Len(roots)
           /\ 1 \in 1..Len(roots)
  <1>1. /\ Len(roots) \in Nat \ {0} /\ route \in Route
        /\ shown \in 1..Len(roots) /\ 1 \in 1..Len(roots)
    BY DEF IInv, TypeOK
  <1>2. Len(roots) \in 1..Len(roots) BY <1>1
  <1>3. RootSound(roots[Len(roots)]) BY <1>2 DEF IInv
  <1>4. Scratch = roots[Len(roots)] BY DEF Scratch, Last
  <1>5. Scratch \in Root BY <1>3, <1>4 DEF RootSound
  <1> QED BY <1>1, <1>3, <1>4, <1>5, RootType

\* Soundness is that of the route, which does not change.
LEMMA SoundStays ==
    ASSUME NEW root, RootSound(root), route' = route
    PROVE  RootSound(root)'
  BY DEF RootSound, LiveLeases, LiveOccurrences, SuppressedOccurrences

\* A line of sound roots keeps the invariant.
LEMMA RootsSound ==
    ASSUME route' = route,
           \A i \in 1..Len(roots') : RootSound(roots'[i])
    PROVE  (\A i \in 1..Len(roots) : RootSound(roots[i]))'
  <1> SUFFICES ASSUME NEW i \in 1..Len(roots') PROVE RootSound(roots[i])'
    OBVIOUS
  <1>1. PICK root : root = roots'[i] OBVIOUS
  <1>2. RootSound(root) BY <1>1
  <1>3. RootSound(root)' BY <1>2, SoundStays
  <1> QED BY <1>1, <1>3 DEF RootSound, LiveLeases, LiveOccurrences, SuppressedOccurrences

\* So does the root of a check that goes on.
LEMMA CheckSound ==
    ASSUME IInv, route' = route, checking' = checking
    PROVE  (checking # None => RootSound(checking.root))'
  <1> SUFFICES ASSUME checking # None PROVE RootSound(checking.root)' OBVIOUS
  <1>1. PICK root : root = checking.root OBVIOUS
  <1>2. RootSound(root) BY <1>1 DEF IInv
  <1>3. RootSound(root)' BY <1>2, SoundStays
  <1> QED BY <1>1, <1>3 DEF RootSound, LiveLeases, LiveOccurrences, SuppressedOccurrences

\* A transaction that makes a sound root keeps the invariant.
LEMMA TransactPreserves ==
    ASSUME IInv, NEW u, RootSound(u), u.next = Scratch.next + 1,
           Scratch.next <= MaxSequence,
           roots' = Append(roots, u),
           UNCHANGED <<route, now, backwards, shown, delivered, checking, refuted>>,
           relinquished' \subseteq delivered
    PROVE  IInv'
  <1>0. u \in Root BY DEF RootSound
  <1>1. /\ roots \in Seq(Root) /\ Len(roots) \in Nat \ {0}
        /\ \A i \in 1..Len(roots) : roots[i].next \in 1..(MaxSequence + 1)
    BY DEF IInv, TypeOK
  <1>2. /\ roots' \in Seq(Root) /\ Len(roots') = Len(roots) + 1
        /\ \A i \in 1..Len(roots) : roots'[i] = roots[i]
        /\ roots'[Len(roots) + 1] = u
    BY <1>0, <1>1
  <1>3. \A i \in 1..Len(roots') : i \in 1..Len(roots) \/ i = Len(roots) + 1
    BY <1>1, <1>2
  <1>4. \A i \in 1..Len(roots') : RootSound(roots'[i])
    BY <1>2, <1>3 DEF IInv
  <1>5. u.next \in 1..(MaxSequence + 1)
    BY LeaseAssumption, ScratchSound
  <1>6. \A i \in 1..Len(roots') : roots'[i].next \in 1..(MaxSequence + 1)
    BY <1>1, <1>2, <1>3, <1>5
  <1>7. shown' \in 1..Len(roots') BY <1>1, <1>2 DEF IInv, TypeOK
  <1>8. TypeOK'
    <2>1. /\ route' \in Route /\ now' \in 0..MaxClock /\ backwards' \in BOOLEAN
          /\ checking' \in [grant : delivered', root : Root, forced : BOOLEAN] \cup {None}
          /\ delivered' \subseteq Occurrence
          /\ relinquished' \subseteq delivered'
          /\ refuted' \subseteq [grant : delivered', forced : BOOLEAN]
      BY DEF IInv, TypeOK
    <2> QED BY <1>2, <1>6, <1>7, <2>1 DEF TypeOK
  <1> QED BY <1>4, <1>8, RootsSound, CheckSound DEF IInv

\* The first root is the empty one.
LEMMA InitInv == Init => IInv
  <1> SUFFICES ASSUME Init PROVE IInv OBVIOUS
  <1>0. /\ EmptyRoot.next = 1 /\ EmptyRoot.leases = <<>>
        /\ EmptyRoot.supersessions = {} /\ EmptyRoot.grants = {}
        /\ EmptyRoot.releases = {} /\ EmptyRoot.writes = {}
    BY DEF EmptyRoot
  <1>1. EmptyRoot \in Root
    <2>1. <<>> \in Seq(Occurrence) OBVIOUS
    <2> QED BY <2>1 DEF EmptyRoot, Root
  <1>2. /\ route \in Route /\ backwards \in BOOLEAN
        /\ now = 0 /\ roots = <<EmptyRoot>> /\ shown = 1
        /\ Len(roots) = 1 /\ roots[1] = EmptyRoot /\ roots \in Seq(Root)
        /\ delivered = {} /\ relinquished = {} /\ checking = None /\ refuted = {}
    BY <1>1 DEF Init
  <1>3. Len(EmptyRoot.leases) = 0 BY <1>0
  <1>4. \A r : LiveLeases(EmptyRoot, r) = {}
    BY <1>3 DEF LiveLeases, LiveOccurrences
  <1>5. RootSound(EmptyRoot) BY <1>0, <1>1, <1>3, <1>4 DEF RootSound
  <1>6. TypeOK BY <1>0, <1>2, LeaseAssumption DEF TypeOK
  <1> QED BY <1>2, <1>5, <1>6 DEF IInv

\* The lease a transaction grants.
NewLease(r, h, ttl) ==
    [resource |-> r, holder |-> h, expires |-> now + ttl, epoch |-> Scratch.next]

\* What granting it does.
LEMMA GrantLeaseStep ==
    ASSUME IInv, NEW r \in Resource, NEW h \in Holder, NEW ttl \in Ttl,
           GrantLease(r, h, ttl)
    PROVE  /\ NewLease(r, h, ttl) \in Occurrence
           /\ NewLease(r, h, ttl).resource = r
           /\ NewLease(r, h, ttl).epoch = Scratch.next
           /\ roots' = Append(roots, GrantRoot(Scratch, NewLease(r, h, ttl)))
           /\ Len(roots) - shown < CohortMax
           /\ Scratch.next <= MaxSequence
           /\ UNCHANGED <<now, backwards, shown, delivered, checking, refuted>>
  <1> DEFINE lease == NewLease(r, h, ttl)
  <1>1. now \in Nat /\ ttl \in Nat BY LeaseAssumption DEF IInv, TypeOK
  <1>2. Scratch.next \in Nat BY ScratchSound
  <1>3. /\ lease \in Occurrence /\ lease.resource = r /\ lease.epoch = Scratch.next
    BY <1>1, <1>2 DEF NewLease, Occurrence
  <1>4. [lease EXCEPT !.epoch = PredictedEpoch(Scratch)] = lease
    BY DEF NewLease, PredictedEpoch
  <1>5. Transact([ReplaceLease(Scratch, CurrentLease(Scratch, r), lease)
                    EXCEPT !.grants = @ \cup {lease}])
    BY <1>4 DEF GrantLease, NewLease
  <1>6. /\ roots' = Append(roots, GrantRoot(Scratch, lease))
        /\ Len(roots) - shown < (IF route = "jvm" THEN CohortMax ELSE 1)
        /\ Scratch.next <= MaxSequence
        /\ UNCHANGED <<now, backwards, shown, delivered, checking, refuted>>
    BY <1>3, <1>5 DEF Transact, GrantRoot
  <1>7. Len(roots) - shown < CohortMax
    BY <1>6, LeaseAssumption, ScratchSound
  <1> QED BY <1>3, <1>6, <1>7

\* The record of a release, or of a write under a fence.
Mark(g) == [resource |-> g.resource, epoch |-> g.epoch, at |-> Scratch.next]

\* A grant a client holds has a resource, and its mark is an event.
LEMMA GrantType ==
    ASSUME IInv, NEW g \in delivered
    PROVE  /\ g \in Occurrence
           /\ g.resource \in Resource /\ g.holder \in Holder /\ g.epoch \in Nat
           /\ Mark(g) \in Event
  <1>1. g \in Occurrence BY DEF IInv, TypeOK
  <1>2. g.resource \in Resource /\ g.holder \in Holder /\ g.epoch \in Nat
    BY <1>1 DEF Occurrence
  <1>3. Scratch.next \in Nat BY ScratchSound
  <1> QED BY <1>1, <1>2, <1>3 DEF Mark, Event

\* What a release does.
LEMMA ReleaseCommitsStep ==
    ASSUME IInv, NEW g \in delivered, ReleaseCommits(g)
    PROVE  /\ MatchingFence(CurrentLease(Scratch, g.resource), g)
           /\ roots' = Append(roots,
                         ReleaseRoot(Scratch, CurrentLease(Scratch, g.resource), Mark(g)))
           /\ Len(roots) - shown < CohortMax
           /\ Scratch.next <= MaxSequence
           /\ UNCHANGED <<now, backwards, shown, delivered, checking, refuted>>
           /\ relinquished' = relinquished \cup {g}
  <1>1. /\ roots' = Append(roots,
                      ReleaseRoot(Scratch, CurrentLease(Scratch, g.resource), Mark(g)))
        /\ Len(roots) - shown < (IF route = "jvm" THEN CohortMax ELSE 1)
        /\ Scratch.next <= MaxSequence
        /\ UNCHANGED <<now, backwards, shown, delivered, checking, refuted>>
        /\ MatchingFence(CurrentLease(Scratch, g.resource), g)
        /\ relinquished' = relinquished \cup {g}
    BY DEF ReleaseCommits, Transact, ReleaseRoot, Mark
  <1>2. Len(roots) - shown < CohortMax
    BY <1>1, LeaseAssumption, ScratchSound
  <1> QED BY <1>1, <1>2

\* What a write does, fenced or not.
LEMMA FencedWriteStep ==
    ASSUME IInv, NEW g \in delivered, FencedWrite(g)
    PROVE  /\ FenceValid(Scratch, g)
           /\ roots' = Append(roots, WriteRoot(Scratch, Scratch.writes \cup {Mark(g)}))
           /\ Scratch.writes \cup {Mark(g)} \in SUBSET Event
           /\ Len(roots) - shown < CohortMax
           /\ Scratch.next <= MaxSequence
           /\ UNCHANGED <<now, backwards, shown, delivered, checking, refuted, relinquished>>
  <1>1. /\ roots' = Append(roots, WriteRoot(Scratch, Scratch.writes \cup {Mark(g)}))
        /\ Len(roots) - shown < (IF route = "jvm" THEN CohortMax ELSE 1)
        /\ Scratch.next <= MaxSequence
        /\ UNCHANGED <<now, backwards, shown, delivered, checking, refuted, relinquished>>
        /\ FenceValid(Scratch, g)
    BY DEF FencedWrite, Transact, WriteRoot, Mark
  <1>2. Len(roots) - shown < CohortMax
    BY <1>1, LeaseAssumption, ScratchSound
  <1>3. Scratch.writes \cup {Mark(g)} \in SUBSET Event
    BY ScratchSound, RootType, GrantType
  <1> QED BY <1>1, <1>2, <1>3

\* The same of a write without a fence.
LEMMA PlainWriteStep ==
    ASSUME IInv, PlainWrite
    PROVE  /\ roots' = Append(roots, WriteRoot(Scratch, Scratch.writes))
           /\ Scratch.writes \in SUBSET Event
           /\ Len(roots) - shown < CohortMax
           /\ Scratch.next <= MaxSequence
           /\ UNCHANGED <<now, backwards, shown, delivered, checking, refuted, relinquished>>
  <1>1. [Scratch EXCEPT !.writes = Scratch.writes] = Scratch
    <2>1. Scratch \in Root BY ScratchSound
    <2> HIDE DEF Scratch
    <2> QED BY <2>1 DEF Root
  <1>2. /\ roots' = Append(roots, WriteRoot(Scratch, Scratch.writes))
        /\ Len(roots) - shown < (IF route = "jvm" THEN CohortMax ELSE 1)
        /\ Scratch.next <= MaxSequence
        /\ UNCHANGED <<now, backwards, shown, delivered, checking, refuted, relinquished>>
    BY <1>1 DEF PlainWrite, Transact, WriteRoot
  <1>3. Len(roots) - shown < CohortMax
    BY <1>2, LeaseAssumption, ScratchSound
  <1>4. Scratch.writes \in SUBSET Event BY ScratchSound, RootType
  <1> QED BY <1>2, <1>3, <1>4

\* Any of the roots can be what is left, and any of those the published one.
LEMMA KeptPreserves ==
    ASSUME IInv, roots' \in Seq(Root), shown' \in 1..Len(roots'),
           \A i \in 1..Len(roots') : \E k \in 1..Len(roots) : roots'[i] = roots[k],
           delivered \subseteq delivered', delivered' \subseteq Occurrence,
           UNCHANGED <<route, now, backwards, relinquished, checking, refuted>>
    PROVE  IInv'
  <1>1. \A i \in 1..Len(roots') : /\ RootSound(roots'[i])
                                  /\ roots'[i].next \in 1..(MaxSequence + 1)
    BY DEF IInv, TypeOK
  <1>2. checking' \in [grant : delivered', root : Root, forced : BOOLEAN] \cup {None}
    <2>1. checking \in [grant : delivered, root : Root, forced : BOOLEAN] \cup {None}
      BY DEF IInv, TypeOK
    <2> QED BY <2>1
  <1>3. refuted' \subseteq [grant : delivered', forced : BOOLEAN]
    <2>1. refuted \subseteq [grant : delivered, forced : BOOLEAN] BY DEF IInv, TypeOK
    <2> QED BY <2>1
  <1>4. TypeOK' BY <1>1, <1>2, <1>3 DEF IInv, TypeOK
  <1> QED BY <1>1, <1>4, RootsSound, CheckSound DEF IInv

\* One of them alone.
LEMMA KeepOnePreserves ==
    ASSUME IInv, NEW k \in 1..Len(roots), roots' = <<roots[k]>>, shown' = 1,
           delivered \subseteq delivered',
           delivered' \subseteq delivered \cup roots[k].grants,
           UNCHANGED <<route, now, backwards, relinquished, checking, refuted>>
    PROVE  IInv'
  <1>1. roots[k] \in Root BY DEF IInv, RootSound
  <1>2. /\ Len(roots') = 1 /\ roots'[1] = roots[k] /\ roots' \in Seq(Root)
    BY <1>1
  <1>3. \A i \in 1..Len(roots') : roots'[i] = roots[k] BY <1>2
  <1>4. shown' \in 1..Len(roots') BY <1>2
  <1>5. delivered' \subseteq Occurrence BY <1>1, RootType DEF IInv, TypeOK
  <1> QED BY <1>2, <1>3, <1>4, <1>5, KeptPreserves

\* What a cohort lost without a barrier leaves.
LEMMA PrefixLeft ==
    ASSUME IInv, NEW k \in shown..Len(roots), roots' = SubSeq(roots, 1, k), shown' = k
    PROVE  /\ k \in 1..Len(roots) /\ Len(roots') = k /\ roots' \in Seq(Root)
           /\ \A i \in 1..k : i \in 1..Len(roots) /\ roots'[i] = roots[i]
           /\ shown' \in 1..Len(roots')
  <1>1. roots \in Seq(Root) /\ shown \in 1..Len(roots) /\ Len(roots) \in Nat
    BY DEF IInv, TypeOK
  <1>2. k \in 1..Len(roots) BY <1>1
  <1>3. /\ Len(roots') = k /\ roots' \in Seq(Root)
        /\ \A i \in 1..k : i \in 1..Len(roots) /\ roots'[i] = roots[i]
    BY <1>1, <1>2
  <1> QED BY <1>2, <1>3

\* A lost cohort leaves the roots up to one of its own, or one root alone.
LEMMA LosePreserves ==
    ASSUME IInv, route' = route, LoseCohort
    PROVE  IInv'
  <1>1. UNCHANGED <<now, backwards, delivered, relinquished, checking, refuted>> BY DEF LoseCohort
  <1>2. delivered \subseteq Occurrence BY DEF IInv, TypeOK
  <1>3. PICK k \in shown..Len(roots) : \/ roots' = SubSeq(roots, 1, k) /\ shown' = k
                                       \/ roots' = <<roots[k]>> /\ shown' = 1
    BY DEF LoseCohort
  <1>4. CASE roots' = SubSeq(roots, 1, k) /\ shown' = k
    <2>1. /\ k \in 1..Len(roots) /\ Len(roots') = k /\ roots' \in Seq(Root)
          /\ \A i \in 1..k : i \in 1..Len(roots) /\ roots'[i] = roots[i]
          /\ shown' \in 1..Len(roots')
      BY <1>4, PrefixLeft
    <2>2. \A i \in 1..Len(roots') : \E n \in 1..Len(roots) : roots'[i] = roots[n]
      BY <2>1
    <2> QED BY <1>1, <1>2, <2>1, <2>2, KeptPreserves
  <1>5. CASE roots' = <<roots[k]>> /\ shown' = 1
    <2>1. k \in 1..Len(roots) BY ScratchSound
    <2> QED BY <1>1, <1>5, <2>1, KeepOnePreserves
  <1> QED BY <1>3, <1>4, <1>5

\* A step that leaves the roots alone.
LEMMA RootsUnchanged ==
    ASSUME IInv, UNCHANGED <<route, roots>>, TypeOK',
           checking' # None => checking' = checking \/ checking'.root = roots[shown]
    PROVE  IInv'
  <1>1. \A i \in 1..Len(roots') : RootSound(roots'[i]) BY DEF IInv
  <1>2. (checking # None => RootSound(checking.root))'
    <2>1. CASE checking' = checking BY <2>1, CheckSound
    <2>2. CASE checking' # None /\ checking'.root = roots[shown]
      <3>1. PICK root : root = roots[shown] OBVIOUS
      <3>2. RootSound(root) BY <3>1, ScratchSound DEF IInv
      <3>3. RootSound(root)' BY <3>2, SoundStays
      <3> QED BY <2>2, <3>1, <3>3
          DEF RootSound, LiveLeases, LiveOccurrences, SuppressedOccurrences
    <2> QED BY <2>1, <2>2
  <1> QED BY <1>1, <1>2, RootsSound DEF IInv

\* Every step keeps the invariant.
LEMMA NextPreserves == IInv /\ [Next]_vars => IInv'
  <1> SUFFICES ASSUME IInv, [Next]_vars PROVE IInv' OBVIOUS
  <1>0. /\ relinquished \subseteq delivered
        /\ refuted \subseteq [grant : delivered, forced : BOOLEAN]
        /\ checking \in [grant : delivered, root : Root, forced : BOOLEAN] \cup {None}
        /\ RootSound(Scratch) /\ route \in Route
    BY ScratchSound DEF IInv, TypeOK
  <1>1. CASE UNCHANGED vars
    <2>1. TypeOK' BY <1>1 DEF IInv, TypeOK, vars
    <2> QED BY <1>1, <2>1, RootsUnchanged DEF vars
  <1>2. ASSUME route' = route, NEW r \in Resource, NEW h \in Holder, NEW ttl \in Ttl,
               GrantLease(r, h, ttl), relinquished' \subseteq delivered
        PROVE  IInv'
    <2> DEFINE lease == NewLease(r, h, ttl)
    <2>1. /\ lease \in Occurrence
          /\ lease.epoch = Scratch.next
          /\ roots' = Append(roots, GrantRoot(Scratch, lease))
          /\ Scratch.next <= MaxSequence
          /\ UNCHANGED <<now, backwards, shown, delivered, checking, refuted>>
      BY <1>2, GrantLeaseStep
    <2> HIDE DEF lease
    <2>2. /\ RootSound(GrantRoot(Scratch, lease))
          /\ GrantRoot(Scratch, lease).next = Scratch.next + 1
      BY <1>0, <2>1, GrantStep
    <2> QED BY <1>2, <2>1, <2>2, TransactPreserves
  <1>3. ASSUME route' = route, NEW r \in Resource, NEW h \in Holder, NEW ttl \in Ttl,
               Acquire(r, h, ttl)
        PROVE  IInv'
    BY <1>0, <1>2, <1>3 DEF Acquire
  <1>4. ASSUME NEW g \in delivered, route' = route, Refuse(g) PROVE IInv'
    <2>1. TypeOK' BY <1>4 DEF Refuse, IInv, TypeOK
    <2> QED BY <1>4, <2>1, RootsUnchanged DEF Refuse
  <1>5. ASSUME route' = route, NEW g \in delivered, NEW ttl \in Ttl, Renew(g, ttl)
        PROVE  IInv'
    <2>1. CASE Refuse(g) BY <1>4, <1>5, <2>1
    <2>2. CASE ~Refuse(g)
      <3>1. /\ GrantLease(g.resource, g.holder, ttl)
            /\ relinquished' = relinquished \cup {g}
        BY <1>5, <2>2 DEF Renew
      <3>2. g.resource \in Resource /\ g.holder \in Holder BY GrantType
      <3>3. relinquished' \subseteq delivered BY <1>0, <3>1
      <3> QED BY <1>2, <1>5, <3>1, <3>2, <3>3
    <2> QED BY <2>1, <2>2
  <1>6. ASSUME route' = route, NEW g \in delivered, Release(g) PROVE IInv'
    <2>1. CASE Refuse(g) BY <1>4, <1>6, <2>1
    <2>2. CASE ReleaseCommits(g)
      <3> DEFINE lease == CurrentLease(Scratch, g.resource)
                 u == ReleaseRoot(Scratch, lease, Mark(g))
      <3>1. /\ lease # None
            /\ roots' = Append(roots, u)
            /\ Scratch.next <= MaxSequence
            /\ UNCHANGED <<now, backwards, shown, delivered, checking, refuted>>
            /\ relinquished' = relinquished \cup {g}
        BY <2>2, ReleaseCommitsStep DEF MatchingFence
      <3>2. RootSound(u) /\ u.next = Scratch.next + 1
        BY <1>0, <3>1, GrantType, ReleaseStep
      <3>3. relinquished' \subseteq delivered BY <1>0, <3>1
      <3> HIDE DEF u
      <3> QED BY <1>6, <3>1, <3>2, <3>3, TransactPreserves
    <2> QED BY <1>6, <2>1, <2>2 DEF Release
  <1>7. ASSUME route' = route, NEW g \in delivered, FencedWrite(g) PROVE IInv'
    <2> DEFINE u == WriteRoot(Scratch, Scratch.writes \cup {Mark(g)})
    <2>1. /\ roots' = Append(roots, u)
          /\ Scratch.writes \cup {Mark(g)} \in SUBSET Event
          /\ Scratch.next <= MaxSequence
          /\ UNCHANGED <<now, backwards, shown, delivered, checking, refuted, relinquished>>
      BY <1>7, FencedWriteStep
    <2>2. RootSound(u) /\ u.next = Scratch.next + 1 BY <1>0, <2>1, WriteStep
    <2> HIDE DEF u
    <2> QED BY <1>0, <1>7, <2>1, <2>2, TransactPreserves
  <1>8. CASE route' = route /\ PlainWrite
    <2> DEFINE u == WriteRoot(Scratch, Scratch.writes)
    <2>1. /\ roots' = Append(roots, u)
          /\ Scratch.writes \in SUBSET Event
          /\ Scratch.next <= MaxSequence
          /\ UNCHANGED <<now, backwards, shown, delivered, checking, refuted, relinquished>>
      BY <1>8, PlainWriteStep
    <2>2. RootSound(u) /\ u.next = Scratch.next + 1 BY <1>0, <2>1, WriteStep
    <2> HIDE DEF u
    <2> QED BY <1>0, <1>8, <2>1, <2>2, TransactPreserves
  <1>9. CASE route' = route /\ PublishCohort
    <2>1. Len(roots) \in 1..Len(roots) BY ScratchSound
    <2>2. /\ roots' = <<roots[Len(roots)]>> /\ shown' = 1
          /\ delivered' = delivered \cup (Scratch.grants \ roots[shown].grants)
          /\ UNCHANGED <<now, backwards, relinquished, checking, refuted>>
          /\ Scratch = roots[Len(roots)]
      BY <1>9, ScratchSound DEF PublishCohort
    <2>3. /\ delivered \subseteq delivered'
          /\ delivered' \subseteq delivered \cup roots[Len(roots)].grants
      BY <2>2
    <2> QED BY <1>9, <2>1, <2>2, <2>3, KeepOnePreserves
  <1>10. CASE route' = route /\ LoseCohort BY <1>10, LosePreserves
  <1>14. CASE route' = route /\ PowerLoss
    <2>1. PICK k \in 1..Len(roots) : roots' = <<roots[k]>> BY <1>14 DEF PowerLoss
    <2>2. shown' = 1 /\ UNCHANGED <<now, backwards, delivered, relinquished, checking, refuted>>
      BY <1>14 DEF PowerLoss
    <2> QED BY <1>14, <2>1, <2>2, KeepOnePreserves
  <1>11. ASSUME route' = route, NEW g \in delivered, BeginCheck(g) PROVE IInv'
    <2>1. roots[shown] \in Root BY ScratchSound DEF IInv, RootSound
    <2>2. TypeOK' BY <1>11, <2>1 DEF BeginCheck, IInv, TypeOK
    <2> QED BY <1>11, <2>2, RootsUnchanged DEF BeginCheck
  <1>12. CASE route' = route /\ AnswerCheck
    <2>1. checking.grant \in delivered /\ checking.forced \in BOOLEAN
      BY <1>0, <1>12 DEF AnswerCheck
    <2>2. refuted' \subseteq [grant : delivered, forced : BOOLEAN]
      BY <1>0, <1>12, <2>1 DEF AnswerCheck
    <2>3. TypeOK' BY <1>12, <2>2 DEF AnswerCheck, IInv, TypeOK
    <2> QED BY <1>12, <2>3, RootsUnchanged DEF AnswerCheck
  <1>13. CASE route' = route /\ Tick
    <2>1. TypeOK' BY <1>13 DEF Tick, IInv, TypeOK
    <2> QED BY <1>13, <2>1, RootsUnchanged DEF Tick
  <1> QED BY <1>1, <1>3, <1>5, <1>6, <1>7, <1>8, <1>9, <1>10, <1>11, <1>12, <1>13,
             <1>14
          DEF Next

\* Every root of either route is sound, in every reachable state.
THEOREM HistoryInvariant == Spec => []IInv
  BY InitInv, NextPreserves, PTL DEF Spec

\* Roots, grants and checks always have the shapes declared for them.
THEOREM HistoryTypes == Spec => []TypeOK
  <1>1. IInv => TypeOK BY DEF IInv
  <1> QED BY <1>1, HistoryInvariant, PTL

\* No root ever has two effective leases of one resource, whatever mixture of
\* acquires, renewals, releases and lost cohorts came before: current-lease has
\* nothing to choose from, and what it finds is a lease a caller was granted,
\* epoch and expiry included, although the answer is prepared before the
\* transaction has a sequence.
THEOREM OneLeaseTheorem == Spec => []OneEffectiveLease
  <1>1. IInv => OneEffectiveLease
    <2> SUFFICES ASSUME IInv, NEW i \in 1..Len(roots), NEW r \in Resource,
                        CurrentLease(roots[i], r) # None
                 PROVE  /\ \A p, q \in LiveLeases(roots[i], r) : p = q
                        /\ CurrentLease(roots[i], r) \in roots[i].grants
      BY DEF OneEffectiveLease
    <2>1. RootSound(roots[i]) BY DEF IInv
    <2> QED BY <2>1, CurrentIsSome, CurrentIsLive
  <1> QED BY <1>1, HistoryInvariant, PTL

\* withdraw-occurrence! never refuses a release whose fence names the current
\* lease, however many equal propositions are superseded beside it.
THEOREM ReleaseTheorem == Spec => []MatchingReleaseSucceeds
  <1>1. IInv => MatchingReleaseSucceeds
    <2> SUFFICES ASSUME IInv, NEW i \in 1..Len(roots), NEW r \in Resource,
                        CurrentLease(roots[i], r) # None
                 PROVE  WithdrawalExact(roots[i], CurrentLease(roots[i], r))
      BY DEF MatchingReleaseSucceeds
    <2>1. RootSound(roots[i]) BY DEF IInv
    <2>2. PICK n \in LiveLeases(roots[i], r) : CurrentLease(roots[i], r) = roots[i].leases[n]
      BY <2>1, CurrentIsSome
    <2>3. n \in LiveOccurrences(roots[i]) BY DEF LiveLeases
    <2>4. Newest(Matching(roots[i].leases, roots[i].leases[n])) = n
      BY <2>1, RetractsLive
    <2> QED BY <2>2, <2>3, <2>4 DEF WithdrawalExact
  <1> QED BY <1>1, HistoryInvariant, PTL

-----------------------------------------------------------------------------
(* The table of leases                                                     *)

\* The refinement mapping: the tables the roots stand for, and the check.
Line == [i \in 1..Len(roots) |-> AsTable(roots[i])]
Asked == IF checking = None THEN None
         ELSE [grant |-> checking.grant, table |-> AsTable(checking.root),
               forced |-> checking.forced]

\* The table of a root is that of the route, which does not change.
LEMMA TableStays ==
    ASSUME NEW root, route' = route
    PROVE  AsTable(root)' = AsTable(root)
  BY DEF AsTable, CurrentLease, LiveLeases, LiveOccurrences, SuppressedOccurrences

\* The tables of the next state.
LEMMA LineNext ==
    ASSUME route' = route
    PROVE  Line' = [i \in 1..Len(roots') |-> AsTable(roots'[i])]
  <1>1. ASSUME NEW i \in 1..Len(roots') PROVE AsTable(roots[i])' = AsTable(roots'[i])
    <2>1. PICK root : root = roots'[i] OBVIOUS
    <2>2. AsTable(root)' = AsTable(root) BY <1>1, TableStays
    <2> QED BY <2>1, <2>2
        DEF AsTable, CurrentLease, LiveLeases, LiveOccurrences, SuppressedOccurrences
  <1> QED BY <1>1 DEF Line

\* A check of the next state.
LEMMA AskedStays ==
    ASSUME route' = route, checking' = checking
    PROVE  Asked' = Asked
  <1>1. AsTable(checking.root)' = AsTable(checking.root)
    BY DEF AsTable, CurrentLease, LiveLeases, LiveOccurrences, SuppressedOccurrences
  <1> QED BY <1>1 DEF Asked

\* The newest table is that of the scratch root.
LEMMA LineNow ==
    ASSUME IInv
    PROVE  /\ Len(Line) = Len(roots)
           /\ Line[Len(Line)] = AsTable(Scratch)
           /\ Line[shown] = AsTable(roots[shown])
           /\ \A i \in 1..Len(roots) : Line[i] = AsTable(roots[i])
  <1>1. Len(roots) \in Nat \ {0} /\ Scratch = roots[Len(roots)] BY ScratchSound
  <1>2. shown \in 1..Len(roots) /\ Len(roots) \in 1..Len(roots) BY <1>1, ScratchSound
  <1>3. DOMAIN Line = 1..Len(roots) /\ \A i \in 1..Len(roots) : Line[i] = AsTable(roots[i])
    BY DEF Line
  <1>4. Len(Line) = Len(roots)
    <2> DEFINE S == {AsTable(roots[i]) : i \in 1..Len(roots)}
    <2>1. Line \in [1..Len(roots) -> S] BY DEF Line
    <2>2. Line \in Seq(S) BY <1>1, <2>1, SeqDef
    <2> HIDE DEF S
    <2>3. Len(Line) \in Nat /\ DOMAIN Line = 1..Len(Line) BY <2>2, LenProperties
    <2> QED BY <1>1, <1>3, <2>3
  <1> QED BY <1>1, <1>2, <1>3, <1>4

\* The parts of a root's table.
LEMMA TableParts ==
    ASSUME NEW root
    PROVE  /\ AsTable(root).next = root.next
           /\ AsTable(root).grants = root.grants
           /\ AsTable(root).releases = root.releases
           /\ AsTable(root).writes = root.writes
           /\ AsTable(root).held = [r \in Resource |-> CurrentLease(root, r)]
           /\ \A r \in Resource : AsTable(root).held[r] = CurrentLease(root, r)
  BY DEF AsTable

\* The table names a fence when the root's current lease matches it, and
\* holds it unexpired when lease-held? says so.
LEMMA SameVerdicts ==
    ASSUME NEW root, NEW r \in Resource
    PROVE  /\ Promised!Unexpired(AsTable(root), r) <=> Held(CurrentLease(root, r))
           /\ \A g : g.resource = r =>
                 (Promised!Names(AsTable(root), g)
                    <=> MatchingFence(CurrentLease(root, r), g))
  BY TableParts DEF Promised!Unexpired, Promised!Names, Held, MatchingFence

\* The tables of roots.
LEMMA LineType ==
    ASSUME NEW line, line \in Seq(Root)
    PROVE  /\ [i \in 1..Len(line) |-> AsTable(line[i])] \in Seq({AsTable(x) : x \in Root})
           /\ Len([i \in 1..Len(line) |-> AsTable(line[i])]) = Len(line)
  <1> DEFINE S == {AsTable(x) : x \in Root}
             L == [i \in 1..Len(line) |-> AsTable(line[i])]
  <1>1. Len(line) \in Nat /\ \A i \in 1..Len(line) : line[i] \in Root OBVIOUS
  <1>2. \A i \in 1..Len(line) : AsTable(line[i]) \in S BY <1>1
  <1>3. L \in [1..Len(line) -> S] /\ DOMAIN L = 1..Len(line)
    <2> HIDE DEF S
    <2> QED BY <1>2
  <1> HIDE DEF S, L
  <1>4. L \in Seq(S) BY <1>1, <1>3, SeqDef
  <1>5. Len(L) \in Nat /\ DOMAIN L = 1..Len(L) BY <1>4, LenProperties
  <1>6. Len(L) = Len(line) BY <1>1, <1>3, <1>5
  <1> QED BY <1>4, <1>6 DEF L, S

\* One more root is one more table.
LEMMA LineAppend ==
    ASSUME IInv, route' = route, NEW u \in Root, roots' = Append(roots, u)
    PROVE  Line' = Append(Line, AsTable(u))
  <1> DEFINE S == {AsTable(x) : x \in Root}
  <1>1. roots \in Seq(Root) /\ Len(roots) \in Nat BY DEF IInv, TypeOK
  <1>2. /\ roots' \in Seq(Root)
        /\ Len(roots') = Len(roots) + 1
        /\ \A i \in 1..Len(roots) : roots'[i] = roots[i]
        /\ roots'[Len(roots) + 1] = u
    BY <1>1
  <1>3. Line \in Seq(S) /\ Len(Line) = Len(roots) BY <1>1, LineType DEF Line
  <1>4. Line' = [i \in 1..Len(roots') |-> AsTable(roots'[i])] BY LineNext
  <1>5. Line' \in Seq(S) /\ Len(Line') = Len(roots) + 1
    BY <1>2, <1>4, LineType
  <1>6. AsTable(u) \in S OBVIOUS
  <1>7. \A i \in 1..Len(roots) : Line[i] = AsTable(roots[i]) BY DEF Line
  <1> HIDE DEF S
  <1>8. /\ Append(Line, AsTable(u)) \in Seq(S)
        /\ Len(Append(Line, AsTable(u))) = Len(Line) + 1
        /\ \A i \in 1..Len(Line) : Append(Line, AsTable(u))[i] = Line[i]
        /\ Append(Line, AsTable(u))[Len(Line) + 1] = AsTable(u)
    BY ONLY <1>3, <1>6, AppendProperties
  <1>9. ASSUME NEW i \in 1..Len(Line') PROVE Line'[i] = Append(Line, AsTable(u))[i]
    <2>1. i \in 1..Len(roots') /\ Line'[i] = AsTable(roots'[i]) BY <1>2, <1>4, <1>5
    <2>2. CASE i \in 1..Len(roots)
      <3>1. Append(Line, AsTable(u))[i] = AsTable(roots[i]) BY <1>3, <1>7, <1>8, <2>2
      <3> QED BY <2>1, <2>2, <3>1, <1>2
    <2>3. CASE i = Len(roots) + 1 BY <1>2, <1>3, <1>8, <2>1, <2>3
    <2>4. i \in 1..Len(roots) \/ i = Len(roots) + 1 BY ONLY <1>1, <1>2, <2>1
    <2> QED BY <2>2, <2>3, <2>4
  <1>10. Len(Line') = Len(Append(Line, AsTable(u))) BY <1>3, <1>5, <1>8
  <1> QED BY ONLY <1>5, <1>8, <1>9, <1>10, SeqEqual

\* The root kept is the only table.
LEMMA LineOne ==
    ASSUME IInv, route' = route, NEW k \in 1..Len(roots), roots' = <<roots[k]>>
    PROVE  Line' = <<Line[k]>>
  <1>1. Line' = [i \in 1..Len(roots') |-> AsTable(roots'[i])] BY LineNext
  <1>2. Len(roots') = 1 /\ roots'[1] = roots[k] BY DEF IInv, TypeOK
  <1>3. Line[k] = AsTable(roots[k]) BY DEF Line
  <1>4. DOMAIN Line' = 1..1 /\ Line'[1] = Line[k] BY <1>1, <1>2, <1>3
  <1>5. Line' = [i \in 1..1 |-> Line[k]]
    <2>1. \A i \in 1..1 : AsTable(roots'[i]) = Line[k] BY <1>2, <1>3
    <2>2. Line' = [i \in 1..1 |-> AsTable(roots'[i])] BY <1>1, <1>2
    <2> HIDE DEF Line
    <2> QED BY <2>1, <2>2
  <1>6. <<Line[k]>> = [i \in 1..1 |-> Line[k]]
    <2>1. PICK t : t = Line[k] OBVIOUS
    <2>2. <<t>> = [i \in 1..1 |-> t] OBVIOUS
    <2> QED BY <2>1, <2>2
  <1> QED BY <1>5, <1>6

\* The roots up to one of them are the tables up to its own.
LEMMA LinePrefix ==
    ASSUME IInv, route' = route,
           NEW k \in shown..Len(roots), roots' = SubSeq(roots, 1, k), shown' = k
    PROVE  Line' = SubSeq(Line, 1, k)
  <1> DEFINE S == {AsTable(x) : x \in Root}
  <1>1. /\ k \in 1..Len(roots) /\ Len(roots') = k /\ roots' \in Seq(Root)
        /\ \A i \in 1..k : i \in 1..Len(roots) /\ roots'[i] = roots[i]
    BY PrefixLeft
  <1>2. roots \in Seq(Root) BY DEF IInv, TypeOK
  <1>3. Line \in Seq(S) /\ Len(Line) = Len(roots) BY <1>2, LineType DEF Line
  <1>4. Line' = [i \in 1..Len(roots') |-> AsTable(roots'[i])] BY LineNext
  <1>5. Line' \in Seq(S) /\ Len(Line') = k BY <1>1, <1>4, LineType
  <1>6. \A i \in 1..Len(roots) : Line[i] = AsTable(roots[i]) BY DEF Line
  <1>7. \A i \in 1..k : Line'[i] = Line[i]
    <2>1. ASSUME NEW i \in 1..k PROVE Line'[i] = Line[i]
      <3>1. Line'[i] = AsTable(roots'[i]) BY <1>1, <1>4
      <3> QED BY <3>1, <1>1, <1>6
    <2> QED BY <2>1
  <1> HIDE DEF S
  <1>8. Len(Line) \in Nat BY <1>3
  <1>9. /\ SubSeq(Line, 1, k) \in Seq(S) /\ Len(SubSeq(Line, 1, k)) = k
        /\ \A i \in 1..k : SubSeq(Line, 1, k)[i] = Line[i]
    <2>1. PICK line \in Seq(S) : line = Line BY <1>3
    <2>2. k \in 1..Len(line) BY <1>1, <1>3, <2>1
    <2>3. /\ SubSeq(line, 1, k) \in Seq(S) /\ Len(SubSeq(line, 1, k)) = k
          /\ \A i \in 1..k : SubSeq(line, 1, k)[i] = line[i]
      BY ONLY <2>2
    <2> QED BY <2>1, <2>3
  <1>10. \A i \in 1..Len(Line') : Line'[i] = SubSeq(Line, 1, k)[i] BY <1>5, <1>7, <1>9
  <1>11. Len(Line') = Len(SubSeq(Line, 1, k)) BY <1>5, <1>9
  <1> QED BY ONLY <1>5, <1>9, <1>10, <1>11, SeqEqual

\* A transaction of the commit path is one of the table.
LEMMA TransactRefines ==
    ASSUME IInv, route' = route, NEW u \in Root, roots' = Append(roots, u),
           Len(roots) - shown < CohortMax, Scratch.next <= MaxSequence,
           UNCHANGED <<now, backwards, shown, delivered, checking, refuted>>
    PROVE  Promised!Transact(AsTable(u))
  <1>1. Line' = Append(Line, AsTable(u)) BY LineAppend
  <1>2. Asked' = Asked BY AskedStays
  <1>3. Len(Line) = Len(roots) /\ Line[Len(Line)] = AsTable(Scratch) BY LineNow
  <1>4. Line[Len(Line)].next = Scratch.next BY <1>3, TableParts
  <1>5. Len(Line) - shown < CohortMax /\ Line[Len(Line)].next <= MaxSequence BY <1>3, <1>4
  <1> QED BY <1>1, <1>2, <1>5 DEF Promised!Transact, Promised!Newest, Line, Asked

\* Both records of a grant are the same record.
LEMMA GrantsAgree == Promised!Grant = Occurrence
  BY DEF Promised!Grant, Occurrence

\* Granting in the history is granting in the table.
LEMMA GrantRefines ==
    ASSUME IInv, route' = route, NEW r \in Resource, NEW h \in Holder, NEW ttl \in Ttl,
           GrantLease(r, h, ttl)
    PROVE  Promised!Transact(
             Promised!Granted(AsTable(Scratch), Promised!NewGrant(r, h, ttl)))
  <1> DEFINE lease == NewLease(r, h, ttl)
             u == GrantRoot(Scratch, lease)
  <1>1. /\ lease \in Occurrence /\ lease.resource = r /\ lease.epoch = Scratch.next
        /\ roots' = Append(roots, u)
        /\ Len(roots) - shown < CohortMax /\ Scratch.next <= MaxSequence
        /\ UNCHANGED <<now, backwards, shown, delivered, checking, refuted>>
    BY GrantLeaseStep
  <1>2. Line[Len(Line)].next = Scratch.next BY LineNow, TableParts
  <1>3. Promised!NewGrant(r, h, ttl) = lease
    BY <1>2 DEF Promised!NewGrant, Promised!Newest, NewLease, Line
  <1> HIDE DEF lease
  <1>4. /\ RootSound(u)
        /\ CurrentLease(u, r) = lease
        /\ \A x \in Resource : x # r => CurrentLease(u, x) = CurrentLease(Scratch, x)
        /\ u.next = Scratch.next + 1
        /\ u.grants = Scratch.grants \cup {lease}
        /\ u.releases = Scratch.releases
        /\ u.writes = Scratch.writes
    BY <1>1, ScratchSound, GrantStep
  <1> HIDE DEF u
  <1>5. [x \in Resource |-> CurrentLease(u, x)]
          = [AsTable(Scratch).held EXCEPT ![r] = lease]
    BY <1>4, TableParts
  <1>6. AsTable(u) = Promised!Granted(AsTable(Scratch), lease)
    BY <1>1, <1>4, <1>5, TableParts DEF Promised!Granted, AsTable
  <1>7. u \in Root BY <1>4 DEF RootSound
  <1>8. Promised!Transact(AsTable(u)) BY <1>1, <1>7, TransactRefines
  <1> QED BY <1>3, <1>6, <1>8

\* What the table's newest lease says of a grant a client offers.
LEMMA OfferVerdicts ==
    ASSUME IInv, NEW g \in delivered
    PROVE  /\ Promised!Names(Line[Len(Line)], g)
                <=> MatchingFence(CurrentLease(Scratch, g.resource), g)
           /\ Promised!Unexpired(Line[Len(Line)], g.resource)
                <=> Held(CurrentLease(Scratch, g.resource))
  <1>1. Line[Len(Line)] = AsTable(Scratch) /\ g.resource \in Resource
    BY LineNow, GrantType
  <1>2. /\ Promised!Names(AsTable(Scratch), g)
             <=> MatchingFence(CurrentLease(Scratch, g.resource), g)
        /\ Promised!Unexpired(AsTable(Scratch), g.resource)
             <=> Held(CurrentLease(Scratch, g.resource))
    BY <1>1, SameVerdicts
  <1> QED BY <1>1, <1>2

\* An acquire takes a free resource of the table.
LEMMA AcquireRefines ==
    ASSUME IInv, route' = route, NEW r \in Resource, NEW h \in Holder, NEW ttl \in Ttl,
           Acquire(r, h, ttl)
    PROVE  Promised!Acquire(r, h, ttl)
  <1>1. ~Promised!Unexpired(Line[Len(Line)], r)
    BY LineNow, SameVerdicts DEF Acquire
  <1>2. Promised!Transact(Promised!Granted(Line[Len(Line)], Promised!NewGrant(r, h, ttl)))
    BY LineNow, GrantRefines DEF Acquire
  <1>3. relinquished' = relinquished BY DEF Acquire
  <1> QED BY <1>1, <1>2, <1>3 DEF Promised!Acquire, Promised!Newest, Line

\* A refused renewal or release forfeits the grant.
LEMMA RefuseRefines ==
    ASSUME IInv, route' = route, NEW g \in delivered, Refuse(g),
           ~FenceValid(Scratch, g)
    PROVE  Promised!Forfeit(g)
  <1>1. ~(Promised!Names(Line[Len(Line)], g)
            /\ Promised!Unexpired(Line[Len(Line)], g.resource))
    BY OfferVerdicts DEF FenceValid
  <1>2. /\ relinquished' = relinquished \cup {g}
        /\ UNCHANGED <<now, backwards, roots, shown, delivered, checking, refuted>>
    BY DEF Refuse
  <1>3. Asked' = Asked BY <1>2, AskedStays
  <1>4. Line' = Line
    <2>1. Line' = [i \in 1..Len(roots') |-> AsTable(roots'[i])] BY LineNext
    <2> QED BY <1>2, <2>1 DEF Line
  <1> QED BY <1>1, <1>2, <1>3, <1>4 DEF Promised!Forfeit, Promised!Newest, Line, Asked

\* A renewal renews, or is refused.
LEMMA RenewRefines ==
    ASSUME IInv, route' = route, NEW g \in delivered, NEW ttl \in Ttl, Renew(g, ttl)
    PROVE  Promised!Renew(g, ttl) \/ Promised!Forfeit(g)
  <1>1. CASE ~FenceValid(Scratch, g)
    <2>1. Refuse(g) BY <1>1 DEF Renew
    <2> QED BY <1>1, <2>1, RefuseRefines
  <1>2. CASE FenceValid(Scratch, g)
    <2>1. /\ GrantLease(g.resource, g.holder, ttl)
          /\ relinquished' = relinquished \cup {g}
      BY <1>2 DEF Renew
    <2>2. /\ Promised!Names(Line[Len(Line)], g)
          /\ Promised!Unexpired(Line[Len(Line)], g.resource)
      BY <1>2, OfferVerdicts DEF FenceValid
    <2>3. Promised!Transact(Promised!Granted(Line[Len(Line)],
                              Promised!NewGrant(g.resource, g.holder, ttl)))
      BY <2>1, LineNow, GrantRefines, GrantType
    <2> QED BY <2>1, <2>2, <2>3 DEF Promised!Renew, Promised!Newest, Line
  <1> QED BY <1>1, <1>2

\* A release gives the table's lease up, or is refused.
LEMMA ReleaseRefines ==
    ASSUME IInv, route' = route, NEW g \in delivered, Release(g)
    PROVE  Promised!Release(g) \/ Promised!Forfeit(g)
  <1>1. CASE ~ReleaseCommits(g)
    <2>1. ~MatchingFence(CurrentLease(Scratch, g.resource), g) /\ Refuse(g)
      BY <1>1 DEF Release
    <2>2. ~FenceValid(Scratch, g) BY <2>1 DEF FenceValid
    <2> QED BY <2>1, <2>2, RefuseRefines
  <1>2. CASE ReleaseCommits(g)
    <2> DEFINE r == g.resource
               lease == CurrentLease(Scratch, r)
               u == ReleaseRoot(Scratch, lease, Mark(g))
    <2>1. /\ MatchingFence(lease, g)
          /\ roots' = Append(roots, u)
          /\ Len(roots) - shown < CohortMax /\ Scratch.next <= MaxSequence
          /\ UNCHANGED <<now, backwards, shown, delivered, checking, refuted>>
          /\ relinquished' = relinquished \cup {g}
      BY <1>2, ReleaseCommitsStep
    <2>2. lease # None BY <2>1 DEF MatchingFence
    <2>3. /\ RootSound(u)
          /\ CurrentLease(u, r) = None
          /\ \A x \in Resource : x # r => CurrentLease(u, x) = CurrentLease(Scratch, x)
          /\ u.next = Scratch.next + 1
          /\ u.grants = Scratch.grants
          /\ u.releases = Scratch.releases \cup {Mark(g)}
          /\ u.writes = Scratch.writes
      BY <2>2, ScratchSound, GrantType, ReleaseStep
    <2>4. Promised!Names(Line[Len(Line)], g) BY <2>1, OfferVerdicts
    <2> HIDE DEF u
    <2>5. u \in Root BY <2>3 DEF RootSound
    <2>6. Promised!Transact(AsTable(u)) BY <2>1, <2>5, TransactRefines
    <2>7. [x \in Resource |-> CurrentLease(u, x)]
            = [AsTable(Scratch).held EXCEPT ![r] = None]
      BY <2>3, TableParts
    <2>8. AsTable(u) = Promised!Released(AsTable(Scratch), g)
      BY <2>3, <2>7, TableParts DEF Promised!Released, AsTable, Mark
    <2>9. Promised!Transact(Promised!Released(Line[Len(Line)], g))
      BY <2>6, <2>8, LineNow
    <2> QED BY <2>1, <2>4, <2>9 DEF Promised!Release, Promised!Newest, Line
  <1> QED BY <1>1, <1>2

\* A write, fenced or not, is the table's.
LEMMA WriteTable ==
    ASSUME IInv, NEW W \in SUBSET Event
    PROVE  AsTable(WriteRoot(Scratch, W))
             = [next |-> AsTable(Scratch).next + 1, held |-> AsTable(Scratch).held,
                grants |-> AsTable(Scratch).grants,
                releases |-> AsTable(Scratch).releases, writes |-> W]
  <1> DEFINE u == WriteRoot(Scratch, W)
  <1>1. /\ \A x \in Resource : CurrentLease(u, x) = CurrentLease(Scratch, x)
        /\ u.next = Scratch.next + 1
        /\ u.grants = Scratch.grants
        /\ u.releases = Scratch.releases
        /\ u.writes = W
    BY ScratchSound, WriteStep
  <1> HIDE DEF u
  <1>2. [x \in Resource |-> CurrentLease(u, x)]
          = [x \in Resource |-> CurrentLease(Scratch, x)]
    BY <1>1
  <1>3. AsTable(u)
          = [next |-> AsTable(Scratch).next + 1, held |-> AsTable(Scratch).held,
             grants |-> AsTable(Scratch).grants,
             releases |-> AsTable(Scratch).releases, writes |-> W]
    BY <1>1, <1>2, TableParts DEF AsTable
  <1> QED BY <1>3 DEF u

\* Under a fence.
LEMMA FencedWriteRefines ==
    ASSUME IInv, route' = route, NEW g \in delivered, FencedWrite(g)
    PROVE  Promised!FencedWrite(g)
  <1> DEFINE W == Scratch.writes \cup {Mark(g)}
             u == WriteRoot(Scratch, W)
  <1>1. /\ FenceValid(Scratch, g)
        /\ roots' = Append(roots, u)
        /\ W \in SUBSET Event
        /\ Len(roots) - shown < CohortMax /\ Scratch.next <= MaxSequence
        /\ UNCHANGED <<now, backwards, shown, delivered, checking, refuted, relinquished>>
    BY FencedWriteStep
  <1>2. /\ Promised!Names(Line[Len(Line)], g)
        /\ Promised!Unexpired(Line[Len(Line)], g.resource)
    BY <1>1, OfferVerdicts DEF FenceValid
  <1>3. AsTable(u) = Promised!Written(AsTable(Scratch), g)
    <2>1. W = AsTable(Scratch).writes
                \cup {[resource |-> g.resource, epoch |-> g.epoch,
                       at |-> AsTable(Scratch).next]}
      BY TableParts DEF Mark
    <2> QED BY <1>1, <2>1, WriteTable DEF Promised!Written
  <1>4. u \in Root BY <1>1, ScratchSound, WriteStep DEF RootSound
  <1> HIDE DEF u, W
  <1>5. Promised!Transact(AsTable(u)) BY <1>1, <1>4, TransactRefines
  <1>6. Promised!Transact(Promised!Written(Line[Len(Line)], g))
    BY <1>3, <1>5, LineNow
  <1> QED BY <1>1, <1>2, <1>6 DEF Promised!FencedWrite, Promised!Newest, Line

\* And without one.
LEMMA PlainWriteRefines ==
    ASSUME IInv, route' = route, PlainWrite
    PROVE  Promised!PlainWrite
  <1> DEFINE u == WriteRoot(Scratch, Scratch.writes)
  <1>1. /\ roots' = Append(roots, u)
        /\ Scratch.writes \in SUBSET Event
        /\ Len(roots) - shown < CohortMax /\ Scratch.next <= MaxSequence
        /\ UNCHANGED <<now, backwards, shown, delivered, checking, refuted, relinquished>>
    BY PlainWriteStep
  <1>2. AsTable(u) = Promised!Touched(AsTable(Scratch))
    BY <1>1, WriteTable, TableParts DEF Promised!Touched
  <1>3. u \in Root BY <1>1, ScratchSound, WriteStep DEF RootSound
  <1> HIDE DEF u
  <1>4. Promised!Transact(AsTable(u)) BY <1>1, <1>3, TransactRefines
  <1>5. Promised!Transact(Promised!Touched(Line[Len(Line)])) BY <1>2, <1>4, LineNow
  <1> QED BY <1>1, <1>5 DEF Promised!PlainWrite, Promised!Newest, Line

\* One root left alone, none before the forced one, is a power failure's table.
LEMMA OneLeftRefines ==
    ASSUME IInv, route' = route, Len(roots) > 1,
           NEW k \in 1..Len(roots), roots' = <<roots[k]>>, shown' = 1,
           UNCHANGED <<now, backwards, delivered, relinquished, checking, refuted>>
    PROVE  Promised!PowerLoss
  <1>1. Line' = <<Line[k]>> BY LineOne
  <1>2. Asked' = Asked BY AskedStays
  <1>3. Len(Line) > 1 /\ \E i \in 1..Len(Line) : Line' = <<Line[i]>>
    BY <1>1, LineNow
  <1> QED BY <1>2, <1>3 DEF Promised!PowerLoss, Line, Asked

\* A cohort published or lost, and a power failure, are the table's.
LEMMA CohortRefines ==
    ASSUME IInv, route' = route, PublishCohort \/ LoseCohort \/ PowerLoss
    PROVE  Promised!Publish \/ Promised!Lose \/ Promised!PowerLoss
  <1>0. Len(roots) \in 1..Len(roots) /\ shown \in 1..Len(roots) BY ScratchSound
  <1>1. CASE PublishCohort
    <2>1. /\ Len(roots) > shown
          /\ roots' = <<roots[Len(roots)]>> /\ shown' = 1
          /\ delivered' = delivered \cup (Scratch.grants \ roots[shown].grants)
          /\ UNCHANGED <<now, backwards, relinquished, checking, refuted>>
      BY <1>1, ScratchSound DEF PublishCohort
    <2>2. Line' = <<Line[Len(roots)]>> BY <1>0, <2>1, LineOne
    <2>3. Asked' = Asked BY <2>1, AskedStays
    <2>4. /\ Len(Line) = Len(roots)
          /\ Line[Len(Line)].grants = Scratch.grants
          /\ Line[shown].grants = roots[shown].grants
      BY LineNow, TableParts
    <2>5. /\ Len(Line) > shown
          /\ Line' = <<Line[Len(Line)]>>
          /\ delivered' = delivered \cup (Line[Len(Line)].grants \ Line[shown].grants)
      BY <2>1, <2>2, <2>4
    <2> QED BY <2>1, <2>3, <2>5
        DEF Promised!Publish, Promised!Newest, Promised!Fresh, Line, Asked
  <1>2. CASE LoseCohort
    <2>1. /\ Len(roots) > shown
          /\ UNCHANGED <<now, backwards, delivered, relinquished, checking, refuted>>
      BY <1>2 DEF LoseCohort
    <2>2. PICK k \in shown..Len(roots) : \/ roots' = SubSeq(roots, 1, k) /\ shown' = k
                                         \/ roots' = <<roots[k]>> /\ shown' = 1
      BY <1>2 DEF LoseCohort
    <2>3. CASE roots' = SubSeq(roots, 1, k) /\ shown' = k
      <3>1. Line' = SubSeq(Line, 1, k) BY <2>3, LinePrefix
      <3>2. Asked' = Asked BY <2>1, AskedStays
      <3>3. /\ Len(Line) > shown
            /\ \E i \in shown..Len(Line) : Line' = SubSeq(Line, 1, i) /\ shown' = i
        BY <2>1, <2>3, <3>1, LineNow
      <3> QED BY <2>1, <3>2, <3>3 DEF Promised!Lose, Line, Asked
    <2>4. CASE roots' = <<roots[k]>> /\ shown' = 1
      BY <1>0, <2>1, <2>4, OneLeftRefines
    <2> QED BY <2>2, <2>3, <2>4
  <1>3. CASE PowerLoss BY <1>3, OneLeftRefines DEF PowerLoss
  <1> QED BY <1>1, <1>2, <1>3

\* The table of a sound root is a table.
LEMMA TableType ==
    ASSUME NEW root, RootSound(root)
    PROVE  AsTable(root) \in LeaseTable
  <1>1. root \in Root BY DEF RootSound
  <1>2. [r \in Resource |-> CurrentLease(root, r)] \in [Resource -> Occurrence \cup {None}]
    BY CurrentType
  <1> QED BY <1>1, <1>2, RootType DEF AsTable, LeaseTable

\* No check under way is none of the table's, and no other.
LEMMA AskedType ==
    ASSUME IInv
    PROVE  /\ checking = None => Asked = None
           /\ checking # None =>
                 /\ Asked = [grant |-> checking.grant, table |-> AsTable(checking.root),
                             forced |-> checking.forced]
                 /\ Asked # None
                 /\ checking.grant \in delivered
  <1>1. CASE checking = None BY <1>1 DEF Asked
  <1>2. CASE checking # None
    <2>1. /\ checking \in [grant : delivered, root : Root, forced : BOOLEAN]
          /\ delivered \subseteq Occurrence
      BY <1>2 DEF IInv, TypeOK
    <2>2. /\ checking.grant \in delivered /\ checking.root \in Root
          /\ checking.forced \in BOOLEAN
      BY <2>1
    <2>3. AsTable(checking.root) \in LeaseTable
      BY <1>2, TableType DEF IInv
    <2>4. [grant |-> checking.grant, table |-> AsTable(checking.root),
           forced |-> checking.forced] # None
      BY <2>1, <2>2, <2>3, MarkAssumption
    <2> QED BY <1>2, <2>2, <2>4 DEF Asked
  <1> QED BY <1>1, <1>2

\* The steps that leave the line of roots alone.
LEMMA LineStays ==
    ASSUME route' = route, roots' = roots
    PROVE  Line' = Line
  <1>1. Line' = [i \in 1..Len(roots') |-> AsTable(roots'[i])] BY LineNext
  <1> QED BY <1>1 DEF Line

\* A check begins, and is answered, in the history as in the table.
LEMMA CheckRefines ==
    ASSUME IInv, IInv', route' = route
    PROVE  /\ \A g \in delivered : BeginCheck(g) => Promised!BeginCheck(g)
           /\ AnswerCheck => Promised!AnswerCheck
  <1>1. ASSUME NEW g \in delivered, BeginCheck(g) PROVE Promised!BeginCheck(g)
    <2>1. /\ checking = None
          /\ checking' = [grant |-> g, root |-> roots[shown], forced |-> shown = 1]
          /\ UNCHANGED <<now, backwards, roots, shown, delivered, relinquished, refuted>>
      BY <1>1 DEF BeginCheck
    <2>2. Asked = None BY <2>1, AskedType
    <2>3. Line' = Line BY <2>1, LineStays
    <2>4. checking' # None
      <3>1. roots[shown] \in Root BY ScratchSound DEF IInv, RootSound
      <3>2. g \in Occurrence BY GrantType
      <3>3. PICK root \in Root : root = roots[shown] BY ONLY <3>1
      <3>4. PICK forced \in BOOLEAN : forced = (shown = 1) OBVIOUS
      <3>5. checking' = [grant |-> g, root |-> root, forced |-> forced]
        BY ONLY <2>1, <3>3, <3>4
      <3>6. [grant |-> g, root |-> root, forced |-> forced]
              \in [grant : Occurrence, root : Root, forced : BOOLEAN]
        BY ONLY <3>2, <3>3, <3>4
      <3>7. None \notin [grant : Occurrence, root : Root, forced : BOOLEAN]
        BY MarkAssumption
      <3> QED BY ONLY <3>5, <3>6, <3>7
    <2>5. Asked' = [grant |-> g, table |-> Line[shown], forced |-> shown = 1]
      <3>1. Asked' = [grant |-> checking'.grant, table |-> AsTable(checking.root)',
                      forced |-> checking'.forced]
        BY <2>4 DEF Asked
      <3>2. /\ checking'.grant = g /\ checking'.root = roots[shown]
            /\ checking'.forced = (shown = 1)
        BY <2>1
      <3>3. PICK root : root = roots[shown] OBVIOUS
      <3>4. AsTable(root)' = AsTable(root) BY TableStays
      <3>5. AsTable(checking.root)' = AsTable(roots[shown])
        BY <3>2, <3>3, <3>4
           DEF AsTable, CurrentLease, LiveLeases, LiveOccurrences, SuppressedOccurrences
      <3>6. Asked' = [grant |-> g, table |-> AsTable(roots[shown]), forced |-> shown = 1]
        BY ONLY <3>1, <3>2, <3>5
      <3>7. Line[shown] = AsTable(roots[shown]) BY LineNow
      <3> QED BY ONLY <3>6, <3>7
    <2> QED BY <2>1, <2>2, <2>3, <2>5 DEF Promised!BeginCheck, Line, Asked
  <1>2. ASSUME AnswerCheck PROVE Promised!AnswerCheck
    <2>1. /\ checking # None /\ checking' = None
          /\ refuted' = IF MatchingFence(CurrentLease(checking.root,
                                           checking.grant.resource), checking.grant)
                        THEN refuted
                        ELSE refuted \cup {[grant  |-> checking.grant,
                                            forced |-> checking.forced]}
          /\ UNCHANGED <<now, backwards, roots, shown, delivered, relinquished>>
      BY <1>2 DEF AnswerCheck
    <2>2. /\ Asked # None
          /\ Asked.grant = checking.grant
          /\ Asked.table = AsTable(checking.root)
          /\ Asked.forced = checking.forced
          /\ checking.grant \in delivered
      BY <2>1, AskedType
    <2>3. Asked' = None BY <2>1 DEF Asked
    <2>4. Line' = Line BY <2>1, LineStays
    <2>5. Promised!Names(Asked.table, Asked.grant)
            <=> MatchingFence(CurrentLease(checking.root, checking.grant.resource),
                              checking.grant)
      BY <2>2, GrantType, SameVerdicts
    <2>6. refuted' = IF Promised!Names(Asked.table, Asked.grant) THEN refuted
                     ELSE refuted \cup {[grant  |-> Asked.grant,
                                         forced |-> Asked.forced]}
      BY <2>1, <2>2, <2>5
    <2> QED BY <2>1, <2>2, <2>3, <2>4, <2>6 DEF Promised!AnswerCheck, Line, Asked
  <1> QED BY <1>1, <1>2

\* The clock is the table's.
LEMMA TickRefines ==
    ASSUME IInv, route' = route, Tick
    PROVE  Promised!Tick
  <1>1. /\ now' \in 0..MaxClock
        /\ backwards \/ now' > now
        /\ UNCHANGED <<backwards, roots, shown, delivered, relinquished, checking, refuted>>
    BY DEF Tick
  <1>2. now \in Nat /\ now' \in Nat BY <1>1, LeaseAssumption DEF IInv, TypeOK
  <1>3. backwards \/ now' >= now BY <1>1, <1>2
  <1>4. Line' = Line /\ Asked' = Asked BY <1>1, LineStays, AskedStays
  <1> QED BY <1>1, <1>3, <1>4 DEF Promised!Tick, Line, Asked

\* The empty root stands for the empty table.
LEMMA InitRefines == Init => Promised!Init
  <1> SUFFICES ASSUME Init PROVE Promised!Init OBVIOUS
  <1>1. /\ now = 0 /\ roots = <<EmptyRoot>> /\ shown = 1
        /\ delivered = {} /\ relinquished = {} /\ checking = None /\ refuted = {}
        /\ Len(roots) = 1 /\ roots[1] = EmptyRoot /\ backwards \in BOOLEAN
    BY DEF Init
  <1>2. /\ EmptyRoot.next = 1 /\ EmptyRoot.leases = <<>>
        /\ EmptyRoot.grants = {} /\ EmptyRoot.releases = {} /\ EmptyRoot.writes = {}
    BY DEF EmptyRoot
  <1>3. \A r : CurrentLease(EmptyRoot, r) = None
    <2>1. Len(EmptyRoot.leases) = 0 BY <1>2
    <2>2. \A r : LiveLeases(EmptyRoot, r) = {} BY <2>1 DEF LiveLeases, LiveOccurrences
    <2> QED BY <2>2, CurrentIsNone
  <1>4. AsTable(EmptyRoot) = Promised!EmptyTable
    <2>1. [r \in Resource |-> CurrentLease(EmptyRoot, r)] = [r \in Resource |-> None]
      BY <1>3
    <2> QED BY <1>2, <2>1 DEF AsTable, Promised!EmptyTable
  <1>5. Line = <<Promised!EmptyTable>>
    <2>1. Line = [i \in 1..1 |-> AsTable(roots[i])] BY <1>1 DEF Line
    <2>2. \A i \in 1..1 : AsTable(roots[i]) = Promised!EmptyTable BY <1>1, <1>4
    <2>3. PICK t : t = Promised!EmptyTable OBVIOUS
    <2>4. Line = [i \in 1..1 |-> t]
      <3> HIDE DEF Line
      <3> QED BY <2>1, <2>2, <2>3
    <2>5. <<t>> = [i \in 1..1 |-> t] OBVIOUS
    <2> QED BY <2>3, <2>4, <2>5
  <1>6. Asked = None BY <1>1 DEF Asked
  <1> QED BY <1>1, <1>5, <1>6 DEF Promised!Init, Line, Asked

\* Every step of either route is a step of the table, or none.
LEMMA StepRefines == IInv /\ IInv' /\ [Next]_vars => [Promised!Next]_(Promised!vars)
  <1> SUFFICES ASSUME IInv, IInv', [Next]_vars PROVE [Promised!Next]_(Promised!vars)
    OBVIOUS
  <1>1. CASE UNCHANGED vars
    <2>1. Line' = Line /\ Asked' = Asked BY <1>1, LineStays, AskedStays DEF vars
    <2> QED BY <1>1, <2>1 DEF vars, Promised!vars, Line, Asked
  <1>2. CASE Next
    <2>0. route' = route BY <1>2 DEF Next
    <2>1. CASE \E r \in Resource, h \in Holder, ttl \in Ttl : Acquire(r, h, ttl)
      <3>1. PICK r \in Resource, h \in Holder, ttl \in Ttl : Acquire(r, h, ttl) BY <2>1
      <3> QED BY <2>0, <3>1, AcquireRefines DEF Promised!Next
    <2>2. CASE \E g \in delivered, ttl \in Ttl : Renew(g, ttl)
      <3>1. PICK g \in delivered, ttl \in Ttl : Renew(g, ttl) BY <2>2
      <3> QED BY <2>0, <3>1, RenewRefines DEF Promised!Next
    <2>3. CASE \E g \in delivered : Release(g)
      <3>1. PICK g \in delivered : Release(g) BY <2>3
      <3> QED BY <2>0, <3>1, ReleaseRefines DEF Promised!Next
    <2>4. CASE \E g \in delivered : FencedWrite(g)
      <3>1. PICK g \in delivered : FencedWrite(g) BY <2>4
      <3> QED BY <2>0, <3>1, FencedWriteRefines DEF Promised!Next
    <2>5. CASE PlainWrite BY <2>0, <2>5, PlainWriteRefines DEF Promised!Next
    <2>6. CASE PublishCohort \/ LoseCohort \/ PowerLoss
      BY <2>0, <2>6, CohortRefines DEF Promised!Next
    <2>7. CASE \E g \in delivered : BeginCheck(g)
      <3>1. PICK g \in delivered : BeginCheck(g) BY <2>7
      <3> QED BY <2>0, <3>1, CheckRefines DEF Promised!Next
    <2>8. CASE AnswerCheck BY <2>0, <2>8, CheckRefines DEF Promised!Next
    <2>9. CASE Tick BY <2>0, <2>9, TickRefines DEF Promised!Next
    <2> QED BY <1>2, <2>1, <2>2, <2>3, <2>4, <2>5, <2>6, <2>7, <2>8, <2>9 DEF Next
  <1> QED BY <1>1, <1>2

\* Both routes, however they write leases down, implement the table of leases,
\* also when a power failure takes back what a boot of the jvm route had published.
THEOREM RefinementTheorem == Spec => ImplementsLease
  <1>1. Init => Promised!Init BY InitRefines
  <1>2. IInv /\ IInv' /\ [Next]_vars => [Promised!Next]_(Promised!vars) BY StepRefines
  <1> QED BY <1>1, <1>2, HistoryInvariant, PTL DEF Spec, ImplementsLease, Promised!Spec
=============================================================================
