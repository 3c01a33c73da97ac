---------------------------- MODULE LeaseProofs ----------------------------
(***************************************************************************)
(* Proofs about the table of leases, for any set of resources, holders and *)
(* times to live, any group size and any clock.                            *)
(***************************************************************************)
EXTENDS Lease, TLAPS

-----------------------------------------------------------------------------
(* One table and the next                                                  *)

\* The newest table is one of the tables.
LEMMA NewestType ==
    ASSUME TypeOK
    PROVE  Newest \in Table /\ tables[shown] \in Table /\ Len(tables) \in Nat
  BY DEF TypeOK, Newest

\* A grant given now has the sequence of its transaction as its epoch.
LEMMA NewGrantType ==
    ASSUME TypeOK, NEW r \in Resource, NEW h \in Holder, NEW ttl \in Ttl
    PROVE  /\ NewGrant(r, h, ttl) \in Grant
           /\ NewGrant(r, h, ttl).resource = r
           /\ NewGrant(r, h, ttl).holder = h
           /\ NewGrant(r, h, ttl).epoch = Newest.next
  <1>1. Newest.next \in Nat BY NewestType DEF Table
  <1>2. now + ttl \in Nat BY LeaseAssumption DEF TypeOK
  <1> QED BY <1>1, <1>2 DEF NewGrant, Grant

\* Granting a lease yields a sound table, later than the one before.
LEMMA GrantedStep ==
    ASSUME NEW t \in Table, TableOK(t), NEW g \in Grant, g.epoch = t.next
    PROVE  /\ Granted(t, g) \in Table
           /\ TableOK(Granted(t, g))
           /\ Later(t, Granted(t, g))
           /\ WritesOK(t) => WritesOK(Granted(t, g))
  <1> DEFINE u == Granted(t, g)
  <1>1. u \in Table BY DEF Granted, Table, Grant
  <1>2. /\ u.next = t.next + 1
        /\ u.grants = t.grants \cup {g}
        /\ u.releases = t.releases
        /\ u.writes = t.writes
        /\ u.held = [t.held EXCEPT ![g.resource] = g]
    BY DEF Granted
  <1>3. /\ g.resource \in Resource
        /\ u.held[g.resource] = g
        /\ \A r \in Resource : r # g.resource => u.held[r] = t.held[r]
        /\ t.next \in Nat
    BY <1>2 DEF Grant, Table
  <1>a. \A x \in t.grants : x \in Grant /\ x.epoch \in Nat /\ x.resource \in Resource
    BY DEF Table, Grant
  <1>b. \A x \in t.releases : x.epoch \in Nat /\ x.at \in Nat /\ x.resource \in Resource
    BY DEF Table, Event
  <1>c. \A x \in t.writes : x.epoch \in Nat /\ x.at \in Nat /\ x.resource \in Resource
    BY DEF Table, Event
  <1> HIDE DEF u
  <1>4. TableOK(u)
    <2>1. u.next > 0 BY <1>2, <1>3 DEF TableOK
    <2>2. \A x \in u.grants : x.epoch < u.next BY <1>2, <1>3, <1>a DEF TableOK
    <2>3. \A x, y \in u.grants : x.epoch = y.epoch => x = y
      BY <1>2, <1>3, <1>a DEF TableOK
    <2>4. \A r \in Resource : u.held[r] # None =>
            /\ u.held[r] \in u.grants
            /\ u.held[r].resource = r
            /\ \A x \in u.grants : x.resource = r => x.epoch <= u.held[r].epoch
      <3> SUFFICES ASSUME NEW r \in Resource, u.held[r] # None
                   PROVE  /\ u.held[r] \in u.grants
                          /\ u.held[r].resource = r
                          /\ \A x \in u.grants : x.resource = r => x.epoch <= u.held[r].epoch
        OBVIOUS
      <3>1. CASE r = g.resource
        BY <3>1, <1>2, <1>3, <1>a DEF TableOK
      <3>2. CASE r # g.resource
        BY <3>2, <1>2, <1>3, <1>a DEF TableOK
      <3> QED BY <3>1, <3>2
    <2>5. \A w \in u.writes : w.at < u.next BY <1>2, <1>3, <1>c DEF TableOK
    <2>6. \A e \in u.releases :
            /\ e.epoch < u.next
            /\ u.held[e.resource] # None => u.held[e.resource].epoch # e.epoch
      BY <1>2, <1>3, <1>b DEF TableOK
    <2> QED BY <2>1, <2>2, <2>3, <2>4, <2>5, <2>6 DEF TableOK
  <1>5. Later(t, u)
    <2>1. \A x \in t.grants : Names(u, x) => Names(t, x)
      BY <1>2, <1>3, <1>a DEF TableOK, Names
    <2> QED BY <2>1, <1>2 DEF Later
  <1>6. WritesOK(t) => WritesOK(u)
    BY <1>2, <1>3, <1>c DEF TableOK, WritesOK
  <1> QED BY <1>1, <1>4, <1>5, <1>6 DEF u

\* So does releasing the lease its fence names.
LEMMA ReleasedStep ==
    ASSUME NEW t \in Table, TableOK(t), NEW g \in Grant, Names(t, g)
    PROVE  /\ Released(t, g) \in Table
           /\ TableOK(Released(t, g))
           /\ Later(t, Released(t, g))
           /\ WritesOK(t) => WritesOK(Released(t, g))
  <1> DEFINE u == Released(t, g)
             e0 == [resource |-> g.resource, epoch |-> g.epoch, at |-> t.next]
  <1>0. e0 \in Event /\ e0.resource = g.resource /\ e0.epoch = g.epoch /\ e0.at = t.next
    BY DEF Event, Grant, Table
  <1>1. u \in Table BY <1>0 DEF Released, Table, Grant
  <1>2. /\ u.next = t.next + 1
        /\ u.grants = t.grants
        /\ u.releases = t.releases \cup {e0}
        /\ u.writes = t.writes
        /\ u.held = [t.held EXCEPT ![g.resource] = None]
    BY DEF Released
  <1>3. /\ g.resource \in Resource
        /\ u.held[g.resource] = None
        /\ \A r \in Resource : r # g.resource => u.held[r] = t.held[r]
        /\ t.next \in Nat
        /\ t.held[g.resource] \in t.grants
        /\ t.held[g.resource].epoch = g.epoch
    BY <1>2 DEF Grant, Table, TableOK, Names
  <1>a. \A x \in t.grants : x \in Grant /\ x.epoch \in Nat /\ x.resource \in Resource
    BY DEF Table, Grant
  <1>b. \A x \in t.releases : x.epoch \in Nat /\ x.at \in Nat /\ x.resource \in Resource
    BY DEF Table, Event
  <1>c. \A x \in t.writes : x.epoch \in Nat /\ x.at \in Nat /\ x.resource \in Resource
    BY DEF Table, Event
  <1> HIDE DEF u, e0
  <1>4. TableOK(u)
    <2>1. u.next > 0 BY <1>2, <1>3 DEF TableOK
    <2>2. \A x \in u.grants : x.epoch < u.next BY <1>2, <1>3, <1>a DEF TableOK
    <2>3. \A x, y \in u.grants : x.epoch = y.epoch => x = y BY <1>2 DEF TableOK
    <2>4. \A r \in Resource : u.held[r] # None =>
            /\ u.held[r] \in u.grants
            /\ u.held[r].resource = r
            /\ \A x \in u.grants : x.resource = r => x.epoch <= u.held[r].epoch
      BY <1>2, <1>3 DEF TableOK
    <2>5. \A w \in u.writes : w.at < u.next BY <1>2, <1>3, <1>c DEF TableOK
    <2>6. \A e \in u.releases :
            /\ e.epoch < u.next
            /\ u.held[e.resource] # None => u.held[e.resource].epoch # e.epoch
      <3>1. g.epoch < t.next BY <1>3 DEF TableOK
      <3> QED BY <1>0, <1>2, <1>3, <1>a, <1>b, <3>1 DEF TableOK
    <2> QED BY <2>1, <2>2, <2>3, <2>4, <2>5, <2>6 DEF TableOK
  <1>5. Later(t, u)
    <2>1. \A x \in t.grants : Names(u, x) => Names(t, x)
      BY <1>2, <1>3, <1>a DEF Names
    <2> QED BY <2>1, <1>2 DEF Later
  <1>6. WritesOK(t) => WritesOK(u)
    BY <1>0, <1>2, <1>3, <1>c DEF TableOK, WritesOK
  <1> QED BY <1>1, <1>4, <1>5, <1>6 DEF u

\* So does a write under the fence of the lease held.
LEMMA WrittenStep ==
    ASSUME NEW t \in Table, TableOK(t), NEW g \in Grant, Names(t, g)
    PROVE  /\ Written(t, g) \in Table
           /\ TableOK(Written(t, g))
           /\ Later(t, Written(t, g))
           /\ WritesOK(t) => WritesOK(Written(t, g))
  <1> DEFINE u == Written(t, g)
             w0 == [resource |-> g.resource, epoch |-> g.epoch, at |-> t.next]
  <1>0. w0 \in Event /\ w0.resource = g.resource /\ w0.epoch = g.epoch /\ w0.at = t.next
    BY DEF Event, Grant, Table
  <1>1. u \in Table BY <1>0 DEF Written, Table, Grant
  <1>2. /\ u.next = t.next + 1
        /\ u.grants = t.grants
        /\ u.releases = t.releases
        /\ u.writes = t.writes \cup {w0}
        /\ u.held = t.held
    BY DEF Written
  <1>3. /\ g.resource \in Resource
        /\ t.next \in Nat
        /\ t.held[g.resource] # None
        /\ t.held[g.resource].epoch = g.epoch
    BY DEF Grant, Table, Names
  <1>a. \A x \in t.grants : x \in Grant /\ x.epoch \in Nat /\ x.resource \in Resource
    BY DEF Table, Grant
  <1>b. \A x \in t.releases : x.epoch \in Nat /\ x.at \in Nat /\ x.resource \in Resource
    BY DEF Table, Event
  <1>c. \A x \in t.writes : x.epoch \in Nat /\ x.at \in Nat /\ x.resource \in Resource
    BY DEF Table, Event
  <1> HIDE DEF u, w0
  <1>4. TableOK(u) BY <1>0, <1>2, <1>3, <1>a, <1>b, <1>c DEF TableOK
  <1>5. Later(t, u) BY <1>2 DEF Later, Names
  <1>6. WritesOK(t) => WritesOK(u)
    <2>1. \A x \in t.grants : x.resource = g.resource => x.epoch <= g.epoch
      BY <1>3 DEF TableOK
    <2>2. \A e \in t.releases : e.resource = g.resource => e.epoch # g.epoch
      BY <1>3 DEF TableOK
    <2> QED BY <1>0, <1>2, <2>1, <2>2 DEF WritesOK
  <1> QED BY <1>1, <1>4, <1>5, <1>6 DEF u

\* And a write without a fence.
LEMMA TouchedStep ==
    ASSUME NEW t \in Table, TableOK(t)
    PROVE  /\ Touched(t) \in Table
           /\ TableOK(Touched(t))
           /\ Later(t, Touched(t))
           /\ WritesOK(t) => WritesOK(Touched(t))
  <1> DEFINE u == Touched(t)
  <1>1. u \in Table BY DEF Touched, Table
  <1>2. /\ u.next = t.next + 1
        /\ u.grants = t.grants
        /\ u.releases = t.releases
        /\ u.writes = t.writes
        /\ u.held = t.held
        /\ t.next \in Nat
    BY DEF Touched, Table
  <1>a. \A x \in t.grants : x.epoch \in Nat BY DEF Table, Grant
  <1>b. \A x \in t.releases : x.epoch \in Nat BY DEF Table, Event
  <1>c. \A x \in t.writes : x.at \in Nat BY DEF Table, Event
  <1> HIDE DEF u
  <1>4. TableOK(u) BY <1>2, <1>a, <1>b, <1>c DEF TableOK
  <1>5. Later(t, u) BY <1>2 DEF Later, Names
  <1>6. WritesOK(t) => WritesOK(u) BY <1>2 DEF WritesOK
  <1> QED BY <1>1, <1>4, <1>5, <1>6 DEF u

\* Coming later is transitive.
LEMMA LaterTransitive ==
    ASSUME NEW t, NEW u, NEW v, Later(t, u), Later(u, v)
    PROVE  Later(t, v)
  BY DEF Later

-----------------------------------------------------------------------------
(* The invariant                                                           *)

\* The table invariant, with what the properties add to it.
IInv ==
    /\ TypeOK
    /\ TableInvariant
    /\ FencedWritesHoldNewestLease
    /\ RefutedStaysRefuted

\* The invariant, table by table.
LEMMA TablesSound ==
    ASSUME IInv, NEW i \in 1..Len(tables)
    PROVE  /\ tables[i] \in Table
           /\ TableOK(tables[i])
           /\ WritesOK(tables[i])
           /\ Later(tables[1], tables[i])
           /\ ~backwards => Accounted(tables[i])
           /\ delivered \subseteq tables[i].grants
           /\ \A x \in refuted : x.forced => ~Names(tables[i], x.grant)
           /\ checking # None /\ checking.forced => Later(checking.table, tables[i])
  <1>1. tables[i] \in Table BY DEF IInv, TypeOK
  <1>2. /\ TableOK(tables[i])
        /\ Later(tables[1], tables[i])
        /\ ~backwards => Accounted(tables[i])
        /\ checking # None /\ checking.forced => Later(checking.table, tables[i])
    BY DEF IInv, TableInvariant
  <1>3. WritesOK(tables[i])
    BY DEF IInv, FencedWritesHoldNewestLease, WritesOK
  <1>4. delivered \subseteq tables[i].grants
    BY <1>2 DEF IInv, TableInvariant, Later
  <1>5. \A x \in refuted : x.forced => ~Names(tables[i], x.grant)
    BY DEF IInv, RefutedStaysRefuted
  <1> QED BY <1>1, <1>2, <1>3, <1>4, <1>5

\* The same of the newest table.
LEMMA NewestSound ==
    ASSUME IInv
    PROVE  /\ Newest \in Table
           /\ TableOK(Newest)
           /\ WritesOK(Newest)
           /\ Later(tables[1], Newest)
           /\ ~backwards => Accounted(Newest)
           /\ delivered \subseteq Newest.grants
           /\ \A x \in refuted : x.forced => ~Names(Newest, x.grant)
           /\ checking # None /\ checking.forced => Later(checking.table, Newest)
  <1>1. Len(tables) \in 1..Len(tables) BY DEF IInv, TypeOK
  <1> QED BY <1>1, TablesSound DEF Newest

\* A table whose fence names its lease holds exactly that grant.
LEMMA NamedIsHeld ==
    ASSUME NEW t \in Table, TableOK(t), NEW g \in t.grants, Names(t, g)
    PROVE  t.held[g.resource] = g
  BY DEF Table, TableOK, Names, Grant

\* A transaction whose table is sound, later and accounted for keeps the
\* invariant.
LEMMA TransactPreserves ==
    ASSUME IInv,
           NEW u, u \in Table, TableOK(u), WritesOK(u), Later(Newest, u),
           Transact(u),
           relinquished \subseteq relinquished', relinquished' \subseteq delivered,
           ~backwards => \A g \in u.grants :
              u.held[g.resource] = g \/ g.expires <= now \/ g \in relinquished'
    PROVE  IInv'
  <1>1. /\ tables' = Append(tables, u)
        /\ now' = now /\ backwards' = backwards
        /\ shown' = shown /\ delivered' = delivered
        /\ checking' = checking /\ refuted' = refuted
    BY DEF Transact
  <1>2. /\ Len(tables) \in Nat \ {0}
        /\ Len(tables') = Len(tables) + 1
        /\ tables' \in Seq(Table)
        /\ \A i \in 1..Len(tables) : tables'[i] = tables[i]
        /\ tables'[Len(tables) + 1] = u
        /\ tables'[1] = tables[1]
    BY <1>1 DEF IInv, TypeOK
  <1>3. TypeOK' BY <1>1, <1>2 DEF IInv, TypeOK
  <1>4. /\ Later(tables[1], u)
        /\ checking # None /\ checking.forced => Later(checking.table, u)
    BY NewestSound, LaterTransitive
  <1>5. ASSUME NEW x \in refuted, x.forced PROVE ~Names(u, x.grant)
    BY <1>5, NewestSound DEF IInv, TableInvariant, Later
  <1>6. ASSUME NEW i \in 1..Len(tables')
        PROVE  /\ TableOK(tables'[i])
               /\ WritesOK(tables'[i])
               /\ Later(tables[1], tables'[i])
               /\ checking # None /\ checking.forced => Later(checking.table, tables'[i])
               /\ \A x \in refuted : x.forced => ~Names(tables'[i], x.grant)
    <2>1. CASE i \in 1..Len(tables)
      BY <2>1, <1>2, TablesSound
    <2>2. CASE i = Len(tables) + 1
      BY <2>2, <1>2, <1>4, <1>5
    <2> QED BY <2>1, <2>2, <1>2
  <1>7. ASSUME NEW i \in 1..Len(tables'), ~backwards, NEW g \in tables'[i].grants
        PROVE  tables'[i].held[g.resource] = g \/ g.expires <= now \/ g \in relinquished'
    <2>1. CASE i \in 1..Len(tables)
      BY <2>1, <1>2, <1>7, TablesSound DEF Accounted
    <2>2. CASE i = Len(tables) + 1
      BY <2>2, <1>2, <1>7
    <2> QED BY <2>1, <2>2, <1>2
  <1>8. TableInvariant'
    <2>1. \A i \in 1..Len(tables') : ~backwards => Accounted(tables[i])'
      BY <1>1, <1>7 DEF Accounted
    <2>2. \A i \in 1..Len(tables') : TableOK(tables[i])' /\ Later(tables[1], tables[i])'
      BY <1>2, <1>6 DEF TableOK, Later, Names
    <2>3. /\ delivered' \subseteq tables'[1].grants
          /\ \A x \in refuted' : x.grant \in delivered'
      BY <1>1, <1>2 DEF IInv, TableInvariant
    <2>4. checking' # None =>
            /\ checking'.grant \in delivered'
            /\ checking'.grant \in checking'.table.grants
            /\ checking'.forced =>
                 \A i \in 1..Len(tables') : Later(checking.table, tables[i])'
      BY <1>1, <1>6 DEF IInv, TableInvariant, Later, Names
    <2> QED BY <1>1, <2>1, <2>2, <2>3, <2>4 DEF TableInvariant
  <1>9. FencedWritesHoldNewestLease'
    BY <1>6 DEF FencedWritesHoldNewestLease, WritesOK
  <1>10. RefutedStaysRefuted'
    BY <1>1, <1>6 DEF RefutedStaysRefuted, Names
  <1> QED BY <1>3, <1>8, <1>9, <1>10 DEF IInv

\* The first table is the empty one, which is sound.
LEMMA InitInv == Init => IInv
  <1> SUFFICES ASSUME Init PROVE IInv OBVIOUS
  <1>1. EmptyTable \in Table
    BY DEF EmptyTable, Table, Grant, Event
  <1>2. /\ tables = <<EmptyTable>>
        /\ Len(tables) = 1 /\ tables[1] = EmptyTable
        /\ tables \in Seq(Table)
        /\ now = 0 /\ backwards \in BOOLEAN /\ shown = 1 /\ delivered = {} /\ relinquished = {}
        /\ checking = None /\ refuted = {}
    BY <1>1 DEF Init
  <1>3. /\ EmptyTable.next = 1
        /\ EmptyTable.grants = {} /\ EmptyTable.releases = {} /\ EmptyTable.writes = {}
        /\ \A r \in Resource : EmptyTable.held[r] = None
    BY DEF EmptyTable
  <1>4. TypeOK BY <1>2 DEF TypeOK
  <1>5. TableOK(EmptyTable) /\ Later(EmptyTable, EmptyTable) /\ Accounted(EmptyTable)
    BY <1>3 DEF TableOK, Later, Accounted
  <1>6. TableInvariant BY <1>2, <1>3, <1>5 DEF TableInvariant
  <1>7. FencedWritesHoldNewestLease BY <1>2, <1>3 DEF FencedWritesHoldNewestLease
  <1>8. RefutedStaysRefuted BY <1>2 DEF RefutedStaysRefuted
  <1> QED BY <1>4, <1>6, <1>7, <1>8 DEF IInv

\* Taking a resource whose lease is absent or has run out.
LEMMA AcquirePreserves ==
    ASSUME IInv, NEW r \in Resource, NEW h \in Holder, NEW ttl \in Ttl, Acquire(r, h, ttl)
    PROVE  IInv'
  <1> DEFINE g == NewGrant(r, h, ttl)
             u == Granted(Newest, g)
  <1>1. /\ g \in Grant /\ g.resource = r /\ g.epoch = Newest.next
    BY NewGrantType DEF IInv
  <1>2. /\ u \in Table /\ TableOK(u) /\ WritesOK(u) /\ Later(Newest, u)
    BY <1>1, NewestSound, GrantedStep
  <1>3. /\ u.grants = Newest.grants \cup {g}
        /\ u.held[r] = g
        /\ \A x \in Resource : x # r => u.held[x] = Newest.held[x]
    BY <1>1, NewestSound DEF Granted, Table
  <1>4. ASSUME ~backwards, NEW x \in u.grants
        PROVE  u.held[x.resource] = x \/ x.expires <= now \/ x \in relinquished'
    <2>1. CASE x = g BY <2>1, <1>1, <1>3
    <2>2. CASE x \in Newest.grants /\ x.resource # r
      BY <2>2, <1>3, <1>4, NewestSound DEF Accounted, Acquire, Table, Grant
    <2>3. CASE x \in Newest.grants /\ x.resource = r
      <3>1. Newest.held[r] = x \/ x.expires <= now \/ x \in relinquished
        BY <2>3, <1>4, NewestSound DEF Accounted
      <3>2. Newest.held[r] = x => x.expires <= now
        <4>1. x \in Grant /\ x # None /\ x.expires \in Nat
          BY <2>3, NewestSound, NoneAssumption DEF Table, Grant
        <4>2. ~(x.expires > now) \/ Newest.held[r] # x
          BY <4>1 DEF Acquire, Unexpired
        <4>3. now \in Nat BY DEF IInv, TypeOK
        <4> QED BY <4>1, <4>2, <4>3
      <3> QED BY <3>1, <3>2 DEF Acquire
    <2> QED BY <2>1, <2>2, <2>3, <1>3
  <1>5. Transact(u) /\ relinquished' = relinquished BY DEF Acquire
  <1>6. relinquished \subseteq delivered BY DEF IInv, TypeOK
  <1> HIDE DEF g, u
  <1> QED BY <1>2, <1>4, <1>5, <1>6, TransactPreserves

\* A grant a client offers is the lease the newest table holds, if its fence
\* names it.
LEMMA OfferedIsHeld ==
    ASSUME IInv, NEW g \in delivered, Names(Newest, g)
    PROVE  /\ g \in Grant /\ g \in Newest.grants
           /\ Newest.held[g.resource] = g
  <1>1. g \in Newest.grants BY NewestSound
  <1> QED BY <1>1, NewestSound, NamedIsHeld DEF IInv, TypeOK

\* Renewing the unexpired lease under a new epoch.
LEMMA RenewPreserves ==
    ASSUME IInv, NEW o \in delivered, NEW ttl \in Ttl, Renew(o, ttl)
    PROVE  IInv'
  <1> DEFINE g == NewGrant(o.resource, o.holder, ttl)
             u == Granted(Newest, g)
  <1>0. /\ o \in Grant /\ o \in Newest.grants /\ Newest.held[o.resource] = o
        /\ o.resource \in Resource /\ o.holder \in Holder
    BY OfferedIsHeld DEF Renew, Grant
  <1>1. /\ g \in Grant /\ g.resource = o.resource /\ g.epoch = Newest.next
    BY <1>0, NewGrantType DEF IInv
  <1>2. /\ u \in Table /\ TableOK(u) /\ WritesOK(u) /\ Later(Newest, u)
    BY <1>1, NewestSound, GrantedStep
  <1>3. /\ u.grants = Newest.grants \cup {g}
        /\ u.held[o.resource] = g
        /\ \A x \in Resource : x # o.resource => u.held[x] = Newest.held[x]
    BY <1>0, <1>1, NewestSound DEF Granted, Table
  <1>4. ASSUME ~backwards, NEW x \in u.grants
        PROVE  u.held[x.resource] = x \/ x.expires <= now \/ x \in relinquished'
    <2>1. CASE x = g BY <2>1, <1>1, <1>3
    <2>2. CASE x \in Newest.grants /\ x.resource # o.resource
      BY <2>2, <1>3, <1>4, NewestSound DEF Accounted, Renew, Table, Grant
    <2>3. CASE x \in Newest.grants /\ x.resource = o.resource
      BY <2>3, <1>0, <1>4, NewestSound DEF Accounted, Renew
    <2> QED BY <2>1, <2>2, <2>3, <1>3
  <1>5. Transact(u) /\ relinquished' = relinquished \cup {o} BY DEF Renew
  <1>6. relinquished \subseteq delivered BY DEF IInv, TypeOK
  <1> HIDE DEF g, u
  <1> QED BY <1>2, <1>4, <1>5, <1>6, TransactPreserves

\* Giving the lease up.
LEMMA ReleasePreserves ==
    ASSUME IInv, NEW o \in delivered, Release(o)
    PROVE  IInv'
  <1> DEFINE u == Released(Newest, o)
  <1>0. /\ o \in Grant /\ o \in Newest.grants /\ Newest.held[o.resource] = o
        /\ Names(Newest, o) /\ o.resource \in Resource
    BY OfferedIsHeld DEF Release, Grant
  <1>2. /\ u \in Table /\ TableOK(u) /\ WritesOK(u) /\ Later(Newest, u)
    BY <1>0, NewestSound, ReleasedStep
  <1>3. /\ u.grants = Newest.grants
        /\ \A x \in Resource : x # o.resource => u.held[x] = Newest.held[x]
    BY <1>0, NewestSound DEF Released, Table
  <1>4. ASSUME ~backwards, NEW x \in u.grants
        PROVE  u.held[x.resource] = x \/ x.expires <= now \/ x \in relinquished'
    <2>1. CASE x.resource # o.resource
      BY <2>1, <1>3, <1>4, NewestSound DEF Accounted, Release, Table, Grant
    <2>2. CASE x.resource = o.resource
      BY <2>2, <1>0, <1>3, <1>4, NewestSound DEF Accounted, Release
    <2> QED BY <2>1, <2>2
  <1>5. Transact(u) /\ relinquished' = relinquished \cup {o} BY DEF Release
  <1>6. relinquished \subseteq delivered BY DEF IInv, TypeOK
  <1> HIDE DEF u
  <1> QED BY <1>2, <1>4, <1>5, <1>6, TransactPreserves

\* Writing under a fence, or without one.
LEMMA WritePreserves ==
    ASSUME IInv, PlainWrite \/ \E o \in delivered : FencedWrite(o)
    PROVE  IInv'
  <1>1. relinquished \subseteq delivered BY DEF IInv, TypeOK
  <1>2. ASSUME NEW o \in delivered, FencedWrite(o) PROVE IInv'
    <2> DEFINE u == Written(Newest, o)
    <2>0. o \in Grant /\ Names(Newest, o) BY <1>2, OfferedIsHeld DEF FencedWrite
    <2>1. /\ u \in Table /\ TableOK(u) /\ WritesOK(u) /\ Later(Newest, u)
      BY <2>0, NewestSound, WrittenStep
    <2>2. u.grants = Newest.grants /\ u.held = Newest.held BY DEF Written
    <2>3. Transact(u) /\ relinquished' = relinquished BY <1>2 DEF FencedWrite
    <2>4. ~backwards => \A x \in u.grants :
             u.held[x.resource] = x \/ x.expires <= now \/ x \in relinquished'
      BY <2>2, <2>3, NewestSound DEF Accounted
    <2> HIDE DEF u
    <2> QED BY <1>1, <2>1, <2>3, <2>4, TransactPreserves
  <1>3. ASSUME PlainWrite PROVE IInv'
    <2> DEFINE u == Touched(Newest)
    <2>1. /\ u \in Table /\ TableOK(u) /\ WritesOK(u) /\ Later(Newest, u)
      BY NewestSound, TouchedStep
    <2>2. u.grants = Newest.grants /\ u.held = Newest.held BY DEF Touched
    <2>3. Transact(u) /\ relinquished' = relinquished BY <1>3 DEF PlainWrite
    <2>4. ~backwards => \A x \in u.grants :
             u.held[x.resource] = x \/ x.expires <= now \/ x \in relinquished'
      BY <2>2, <2>3, NewestSound DEF Accounted
    <2> HIDE DEF u
    <2> QED BY <1>1, <2>1, <2>3, <2>4, TransactPreserves
  <1> QED BY <1>2, <1>3

\* Any of the tables, none before the first, can be what is left, and any of
\* those the published one.
LEMMA KeptPreserves ==
    ASSUME IInv,
           tables' \in Seq(Table), shown' \in 1..Len(tables'),
           \A i \in 1..Len(tables') : \E k \in 1..Len(tables) : tables'[i] = tables[k],
           \A i \in 1..Len(tables') : Later(tables'[1], tables'[i]),
           delivered \subseteq delivered', delivered' \subseteq tables'[1].grants,
           UNCHANGED <<now, backwards, relinquished, checking, refuted>>
    PROVE  IInv'
  <1>0. Len(tables') \in Nat /\ 1 \in 1..Len(tables') OBVIOUS
  <1>1. ASSUME NEW i \in 1..Len(tables')
        PROVE  /\ TableOK(tables'[i]) /\ WritesOK(tables'[i])
               /\ ~backwards => Accounted(tables'[i])
               /\ \A x \in refuted : x.forced => ~Names(tables'[i], x.grant)
               /\ checking # None /\ checking.forced => Later(checking.table, tables'[i])
    BY TablesSound
  <1>2. TypeOK'
    <2>1. tables'[1] \in Table BY <1>0
    <2>2. delivered' \subseteq Grant BY <2>1 DEF Table
    <2> QED BY <2>2 DEF IInv, TypeOK
  <1>3. TableInvariant'
    <2>1. \A i \in 1..Len(tables') : TableOK(tables[i])' /\ Later(tables[1], tables[i])'
      BY <1>1 DEF TableOK, Later, Names
    <2>2. \A i \in 1..Len(tables') : ~backwards => Accounted(tables[i])'
      BY <1>1 DEF Accounted
    <2>3. /\ delivered' \subseteq tables'[1].grants
          /\ \A x \in refuted' : x.grant \in delivered'
      BY DEF IInv, TableInvariant
    <2>4. checking' # None =>
            /\ checking'.grant \in delivered'
            /\ checking'.grant \in checking'.table.grants
            /\ checking'.forced =>
                 \A i \in 1..Len(tables') : Later(checking.table, tables[i])'
      BY <1>1 DEF IInv, TableInvariant, Later, Names
    <2> QED BY <2>1, <2>2, <2>3, <2>4 DEF TableInvariant
  <1>4. FencedWritesHoldNewestLease'
    BY <1>1 DEF FencedWritesHoldNewestLease, WritesOK
  <1>5. RefutedStaysRefuted'
    BY <1>1 DEF RefutedStaysRefuted, Names
  <1> QED BY <1>2, <1>3, <1>4, <1>5 DEF IInv

\* A line of one table has no other to be earlier than.
LEMMA KeepOnePreserves ==
    ASSUME IInv, NEW k \in 1..Len(tables), tables' = <<tables[k]>>, shown' = 1,
           delivered \subseteq delivered', delivered' \subseteq tables[k].grants,
           UNCHANGED <<now, backwards, relinquished, checking, refuted>>
    PROVE  IInv'
  <1>1. tables[k] \in Table BY TablesSound
  <1>2. /\ Len(tables') = 1 /\ tables'[1] = tables[k] /\ tables' \in Seq(Table)
    BY <1>1
  <1>3. \A i \in 1..Len(tables') : tables'[i] = tables[k] BY <1>2
  <1>4. Later(tables[k], tables[k]) BY DEF Later
  <1> QED BY <1>2, <1>3, <1>4, KeptPreserves

\* Publication: the newest table goes to the disk, alone.
LEMMA PublishPreserves == ASSUME IInv, Publish PROVE IInv'
  <1>1. Len(tables) \in 1..Len(tables) BY DEF IInv, TypeOK
  <1>2. delivered \subseteq Newest.grants BY NewestSound
  <1>3. /\ tables' = <<tables[Len(tables)]>> /\ shown' = 1
        /\ delivered \subseteq delivered'
        /\ delivered' \subseteq tables[Len(tables)].grants
        /\ UNCHANGED <<now, backwards, relinquished, checking, refuted>>
    BY <1>2 DEF Publish, Newest, Fresh
  <1> QED BY <1>1, <1>3, KeepOnePreserves

\* A lost group leaves the tables up to one of its own, and delivers nothing.
LEMMA LosePreserves == ASSUME IInv, Lose PROVE IInv'
  <1>1. PICK k \in shown..Len(tables) : tables' = SubSeq(tables, 1, k) /\ shown' = k
    BY DEF Lose
  <1>2. tables \in Seq(Table) /\ shown \in 1..Len(tables) /\ Len(tables) \in Nat
    BY DEF IInv, TypeOK
  <1>3. k \in 1..Len(tables) BY <1>2
  <1>4. /\ tables' \in Seq(Table) /\ Len(tables') = k
        /\ \A i \in 1..k : i \in 1..Len(tables) /\ tables'[i] = tables[i]
    BY <1>1, <1>2, <1>3
  <1>5. \A i \in 1..k : Later(tables[1], tables[i]) BY <1>4, TablesSound
  <1>6. delivered \subseteq tables[1].grants BY DEF IInv, TableInvariant
  <1>7. 1 \in 1..k /\ tables'[1] = tables[1] BY <1>3, <1>4
  <1>8. \A i \in 1..Len(tables') : Later(tables'[1], tables'[i]) BY <1>4, <1>5, <1>7
  <1>9. \A i \in 1..Len(tables') : \E n \in 1..Len(tables) : tables'[i] = tables[n]
    BY <1>4
  <1>10. shown' \in 1..Len(tables') BY <1>1, <1>3, <1>4
  <1> QED BY <1>4, <1>6, <1>7, <1>8, <1>9, <1>10, KeptPreserves DEF Lose

\* A power failure leaves one table, no earlier than the one on the disk.
LEMMA PowerLossPreserves == ASSUME IInv, PowerLoss PROVE IInv'
  <1>1. PICK k \in 1..Len(tables) : tables' = <<tables[k]>> BY DEF PowerLoss
  <1>2. delivered \subseteq tables[k].grants BY TablesSound
  <1> QED BY <1>1, <1>2, KeepOnePreserves DEF PowerLoss

\* The steps that change no table: a grant given up, a check that begins or
\* ends, the clock, and stuttering.
LEMMA ForfeitPreserves == ASSUME IInv, NEW o \in delivered, Forfeit(o) PROVE IInv'
  <1>1. /\ relinquished' = relinquished \cup {o}
        /\ UNCHANGED <<now, backwards, tables, shown, delivered, checking, refuted>>
    BY DEF Forfeit
  <1>2. TypeOK' BY <1>1 DEF IInv, TypeOK
  <1>3. TableInvariant'
    <2>1. \A i \in 1..Len(tables) : ~backwards => Accounted(tables[i])'
      BY <1>1 DEF IInv, TableInvariant, Accounted
    <2> QED BY <1>1, <2>1 DEF IInv, TableInvariant, TableOK, Later, Names
  <1>4. FencedWritesHoldNewestLease' BY <1>1 DEF IInv, FencedWritesHoldNewestLease
  <1>5. RefutedStaysRefuted' BY <1>1 DEF IInv, RefutedStaysRefuted, Names
  <1> QED BY <1>2, <1>3, <1>4, <1>5 DEF IInv

\* The clock moves; when it only moves forward, what has run out stays so.
LEMMA TickPreserves == ASSUME IInv, Tick PROVE IInv'
  <1>1. /\ now \in Nat /\ now' \in Nat
        /\ ~backwards => now <= now'
        /\ UNCHANGED <<backwards, tables, shown, delivered, relinquished, checking, refuted>>
    BY LeaseAssumption DEF Tick, IInv, TypeOK
  <1>2. TypeOK' BY <1>1 DEF IInv, TypeOK
  <1>3. TableInvariant'
    <2>1. ASSUME NEW i \in 1..Len(tables), ~backwards, NEW g \in tables[i].grants
          PROVE  tables[i].held[g.resource] = g \/ g.expires <= now' \/ g \in relinquished
      <3>1. g.expires \in Nat BY TablesSound DEF Table, Grant
      <3>2. tables[i].held[g.resource] = g \/ g.expires <= now \/ g \in relinquished
        BY <2>1, TablesSound DEF Accounted
      <3> QED BY <1>1, <2>1, <3>1, <3>2
    <2>2. \A i \in 1..Len(tables) : ~backwards => Accounted(tables[i])'
      BY <1>1, <2>1 DEF Accounted
    <2> QED BY <1>1, <2>2 DEF IInv, TableInvariant, TableOK, Later, Names
  <1>4. FencedWritesHoldNewestLease' BY <1>1 DEF IInv, FencedWritesHoldNewestLease
  <1>5. RefutedStaysRefuted' BY <1>1 DEF IInv, RefutedStaysRefuted, Names
  <1> QED BY <1>2, <1>3, <1>4, <1>5 DEF IInv

\* A check starts from the published table, which, if it is forced, no other
\* precedes.
LEMMA BeginCheckPreserves == ASSUME IInv, NEW o \in delivered, BeginCheck(o) PROVE IInv'
  <1>1. /\ checking' = [grant |-> o, table |-> tables[shown], forced |-> shown = 1]
        /\ UNCHANGED <<now, backwards, tables, shown, delivered, relinquished, refuted>>
    BY DEF BeginCheck
  <1>2. checking' \in Check
    BY <1>1, NewestType DEF IInv, TypeOK, Check
  <1>3. TypeOK' BY <1>1, <1>2 DEF IInv, TypeOK
  <1>4. TableInvariant'
    <2>1. /\ checking'.grant = o /\ checking'.table = tables[shown]
          /\ checking'.forced <=> shown = 1
      BY <1>1
    <2>2. \A i \in 1..Len(tables) : ~backwards => Accounted(tables[i])'
      BY <1>1 DEF IInv, TableInvariant, Accounted
    <2>3. \A i \in 1..Len(tables) : TableOK(tables[i])' /\ Later(tables[1], tables[i])'
      BY <1>1 DEF IInv, TableInvariant, TableOK, Later, Names
    <2>4. o \in tables[shown].grants BY TablesSound DEF IInv, TypeOK
    <2>5. shown = 1 => \A i \in 1..Len(tables) : Later(checking.table, tables[i])'
      BY <1>1, <2>1, <2>3 DEF Later, Names
    <2> QED BY <1>1, <2>1, <2>2, <2>3, <2>4, <2>5 DEF IInv, TableInvariant
  <1>5. FencedWritesHoldNewestLease' BY <1>1 DEF IInv, FencedWritesHoldNewestLease
  <1>6. RefutedStaysRefuted' BY <1>1 DEF IInv, RefutedStaysRefuted, Names
  <1> QED BY <1>3, <1>4, <1>5, <1>6 DEF IInv

\* A grant that was not current in the forced table a check read is not current
\* in any table since.
LEMMA AnswerCheckPreserves == ASSUME IInv, AnswerCheck PROVE IInv'
  <1>1. /\ checking # None /\ checking' = None
        /\ refuted' = IF Names(checking.table, checking.grant) THEN refuted
                      ELSE refuted \cup {[grant  |-> checking.grant,
                                          forced |-> checking.forced]}
        /\ UNCHANGED <<now, backwards, tables, shown, delivered, relinquished>>
    BY DEF AnswerCheck
  <1>2. /\ checking.grant \in delivered
        /\ checking.grant \in checking.table.grants
        /\ checking.forced => \A i \in 1..Len(tables) : Later(checking.table, tables[i])
        /\ checking.grant \in Grant /\ checking.forced \in BOOLEAN
    BY <1>1 DEF IInv, TableInvariant, TypeOK, Check
  <1>3. TypeOK' BY <1>1, <1>2 DEF IInv, TypeOK, Refutation
  <1>4. TableInvariant'
    <2>1. \A i \in 1..Len(tables) : ~backwards => Accounted(tables[i])'
      BY <1>1 DEF IInv, TableInvariant, Accounted
    <2>2. \A x \in refuted' : x.grant \in delivered'
      BY <1>1, <1>2 DEF IInv, TableInvariant
    <2> QED BY <1>1, <2>1, <2>2 DEF IInv, TableInvariant, TableOK, Later, Names
  <1>5. FencedWritesHoldNewestLease' BY <1>1 DEF IInv, FencedWritesHoldNewestLease
  <1>6. RefutedStaysRefuted'
    <2>1. ASSUME NEW i \in 1..Len(tables), checking.forced, ~Names(checking.table, checking.grant)
          PROVE  ~Names(tables[i], checking.grant)
      BY <1>2, <2>1 DEF Later
    <2> QED BY <1>1, <2>1 DEF IInv, RefutedStaysRefuted, Names
  <1> QED BY <1>3, <1>4, <1>5, <1>6 DEF IInv

\* Stuttering.
LEMMA StutterPreserves == ASSUME IInv, UNCHANGED vars PROVE IInv'
  <1>1. TypeOK' BY DEF IInv, TypeOK, vars
  <1>2. TableInvariant'
    BY DEF IInv, TableInvariant, TableOK, Later, Names, Accounted, vars
  <1>3. FencedWritesHoldNewestLease' BY DEF IInv, FencedWritesHoldNewestLease, vars
  <1>4. RefutedStaysRefuted' BY DEF IInv, RefutedStaysRefuted, Names, vars
  <1> QED BY <1>1, <1>2, <1>3, <1>4 DEF IInv

\* Every step keeps the invariant.
LEMMA NextPreserves == IInv /\ [Next]_vars => IInv'
  <1> SUFFICES ASSUME IInv, [Next]_vars PROVE IInv' OBVIOUS
  <1>1. ASSUME NEW r \in Resource, NEW h \in Holder, NEW ttl \in Ttl, Acquire(r, h, ttl)
        PROVE  IInv'
    BY <1>1, AcquirePreserves
  <1>2. ASSUME NEW o \in delivered, NEW ttl \in Ttl, Renew(o, ttl) PROVE IInv'
    BY <1>2, RenewPreserves
  <1>3. ASSUME NEW o \in delivered, Release(o) PROVE IInv' BY <1>3, ReleasePreserves
  <1>4. ASSUME NEW o \in delivered, Forfeit(o) PROVE IInv' BY <1>4, ForfeitPreserves
  <1>5. ASSUME NEW o \in delivered, FencedWrite(o) PROVE IInv' BY <1>5, WritePreserves
  <1>6. ASSUME NEW o \in delivered, BeginCheck(o) PROVE IInv' BY <1>6, BeginCheckPreserves
  <1>7. CASE PlainWrite BY <1>7, WritePreserves
  <1>8. CASE Publish BY <1>8, PublishPreserves
  <1>9. CASE Lose BY <1>9, LosePreserves
  <1>13. CASE PowerLoss BY <1>13, PowerLossPreserves
  <1>10. CASE AnswerCheck BY <1>10, AnswerCheckPreserves
  <1>11. CASE Tick BY <1>11, TickPreserves
  <1>12. CASE UNCHANGED vars BY <1>12, StutterPreserves
  <1> QED BY <1>1, <1>2, <1>3, <1>4, <1>5, <1>6, <1>7, <1>8, <1>9, <1>10, <1>11, <1>12,
             <1>13
          DEF Next

\* The table of leases satisfies its invariant in every reachable state.
THEOREM LeaseInvariant == Spec => []IInv
  BY InitInv, NextPreserves, PTL DEF Spec

\* The grants, tables and checks always have the shapes declared for them.
THEOREM LeaseTypes == Spec => []TypeOK
  <1>1. IInv => TypeOK BY DEF IInv
  <1> QED BY <1>1, LeaseInvariant, PTL

\* The records of every table agree, and none goes back on an earlier one.
THEOREM TableTheorem == Spec => []TableInvariant
  <1>1. IInv => TableInvariant BY DEF IInv
  <1> QED BY <1>1, LeaseInvariant, PTL

\* Fencing: no write is accepted behind the back of a newer lease or after a
\* release, whatever the clock does and however groups fail.
THEOREM FencingTheorem == Spec => []FencedWritesHoldNewestLease
  <1>1. IInv => FencedWritesHoldNewestLease BY DEF IInv
  <1> QED BY <1>1, LeaseInvariant, PTL

\* A lease that a check of a forced table has answered not to be current never
\* comes back, whatever groups are lost and whatever a power failure takes back.
THEOREM RefutedTheorem == Spec => []RefutedStaysRefuted
  <1>1. IInv => RefutedStaysRefuted BY DEF IInv
  <1> QED BY <1>1, LeaseInvariant, PTL

\* On a clock that is never set back, two clients never both rely on an
\* unexpired grant of one resource.
THEOREM ExclusionTheorem == Spec => []ExclusiveReliance
  <1>1. IInv => ExclusiveReliance
    <2> SUFFICES ASSUME IInv, ~backwards,
                        NEW g1 \in ReliedOn, NEW g2 \in ReliedOn,
                        g1.resource = g2.resource, g1.expires > now, g2.expires > now
                 PROVE  g1.holder = g2.holder
      BY DEF ExclusiveReliance
    <2>1. ASSUME NEW g \in ReliedOn, g.expires > now
          PROVE  Newest.held[g.resource] = g
      <3>1. g \in Newest.grants /\ g \notin relinquished
        BY NewestSound DEF ReliedOn
      <3>2. g.expires \in Nat /\ now \in Nat
        BY <3>1, NewestSound DEF Table, Grant, IInv, TypeOK
      <3> QED BY <2>1, <3>1, <3>2, NewestSound DEF Accounted
    <2> QED BY <2>1
  <1> QED BY <1>1, LeaseInvariant, PTL
=============================================================================
