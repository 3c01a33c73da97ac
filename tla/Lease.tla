------------------------------- MODULE Lease -------------------------------
(***************************************************************************)
(* What Fram promises the holders of its leases: a table with at most one  *)
(* lease per resource, on a clock nobody controls, read and changed by one *)
(* writer that publishes its changes in groups.                            *)
(*                                                                         *)
(* `tables' is the line of tables a power failure can still return to: the *)
(* first is on the disk, the one at `shown' is published, those after it   *)
(* are the private steps of the open group.  A group is forced to the disk *)
(* and published whole, or a failure keeps some prefix of it, and the      *)
(* callers of a failed group get no grant.  What a killed writer left      *)
(* behind is published again by the next one before anything forces it, so *)
(* that readers may see tables a power failure takes back.  grants,        *)
(* releases and writes record, inside each table, what its transactions    *)
(* did.                                                                    *)
(***************************************************************************)
EXTENDS LeaseConstants, Integers, Sequences

VARIABLES now,          \* the wall clock
          backwards,    \* it may be set back
          tables,       \* the table on the disk and those made since
          shown,        \* which of them is published
          delivered,    \* grants the clients have been answered with
          relinquished, \* grants their holders have since offered up
          checking,     \* a lease check under way: the fence and its table
          refuted       \* grants some check has answered are not current

vars == <<now, backwards, tables, shown, delivered, relinquished, checking, refuted>>

Event == [resource : Resource, epoch : Nat, at : Nat]
Table == [next : Nat, held : [Resource -> Grant \cup {None}],
          grants : SUBSET Grant, releases : SUBSET Event, writes : SUBSET Event]
\* A check, and its answer, with whether the table it read was forced.
Check == [grant : Grant, table : Table, forced : BOOLEAN]
Refutation == [grant : Grant, forced : BOOLEAN]

EmptyTable ==
    [next |-> 1, held |-> [r \in Resource |-> None],
     grants |-> {}, releases |-> {}, writes |-> {}]

\* The table the next transaction starts from.
Newest == tables[Len(tables)]

\* The fence of g names the lease the table holds.
Names(t, g) ==
    /\ t.held[g.resource] # None
    /\ t.held[g.resource].holder = g.holder
    /\ t.held[g.resource].epoch = g.epoch

Unexpired(t, r) == t.held[r] # None /\ t.held[r].expires > now

-----------------------------------------------------------------------------
Init ==
    /\ now = 0
    /\ backwards \in BOOLEAN
    /\ tables = <<EmptyTable>>
    /\ shown = 1
    /\ delivered = {}
    /\ relinquished = {}
    /\ checking = None
    /\ refuted = {}

\* The tables a transaction can lead to.
Granted(t, g) ==
    [next |-> t.next + 1, held |-> [t.held EXCEPT ![g.resource] = g],
     grants |-> t.grants \cup {g}, releases |-> t.releases, writes |-> t.writes]

Released(t, g) ==
    [next |-> t.next + 1, held |-> [t.held EXCEPT ![g.resource] = None],
     grants |-> t.grants,
     releases |-> t.releases \cup {[resource |-> g.resource, epoch |-> g.epoch, at |-> t.next]},
     writes |-> t.writes]

Written(t, g) ==
    [next |-> t.next + 1, held |-> t.held, grants |-> t.grants, releases |-> t.releases,
     writes |-> t.writes \cup {[resource |-> g.resource, epoch |-> g.epoch, at |-> t.next]}]

Touched(t) ==
    [next |-> t.next + 1, held |-> t.held, grants |-> t.grants,
     releases |-> t.releases, writes |-> t.writes]

\* One more transaction of the open group.
Transact(t) ==
    /\ Len(tables) - shown < CohortMax
    /\ Newest.next <= MaxSequence
    /\ tables' = Append(tables, t)
    /\ UNCHANGED <<now, backwards, shown, delivered, checking, refuted>>

NewGrant(r, h, ttl) ==
    [resource |-> r, holder |-> h, epoch |-> Newest.next, expires |-> now + ttl]

\* A free resource, or one whose lease has run out, can be taken.
Acquire(r, h, ttl) ==
    /\ ~Unexpired(Newest, r)
    /\ Transact(Granted(Newest, NewGrant(r, h, ttl)))
    /\ UNCHANGED relinquished

\* The holder of the unexpired lease can have it again, under a new epoch.
Renew(g, ttl) ==
    /\ Names(Newest, g)
    /\ Unexpired(Newest, g.resource)
    /\ Transact(Granted(Newest, NewGrant(g.resource, g.holder, ttl)))
    /\ relinquished' = relinquished \cup {g}

\* The holder can give its lease up, expired or not.
Release(g) ==
    /\ Names(Newest, g)
    /\ Transact(Released(Newest, g))
    /\ relinquished' = relinquished \cup {g}

\* A holder offers its grant and is told it has lost it.
Forfeit(g) ==
    /\ ~(Names(Newest, g) /\ Unexpired(Newest, g.resource))
    /\ relinquished' = relinquished \cup {g}
    /\ UNCHANGED <<now, backwards, tables, shown, delivered, checking, refuted>>

\* A write under the fence of g.
FencedWrite(g) ==
    /\ Names(Newest, g)
    /\ Unexpired(Newest, g.resource)
    /\ Transact(Written(Newest, g))
    /\ UNCHANGED relinquished

PlainWrite ==
    /\ Transact(Touched(Newest))
    /\ UNCHANGED relinquished

\* What publishing the newest table delivers.
Fresh == Newest.grants \ tables[shown].grants

\* The group is forced, with all that came before it, and becomes visible, and
\* its callers get their grants.
Publish ==
    /\ Len(tables) > shown
    /\ tables' = <<Newest>>
    /\ shown' = 1
    /\ delivered' = delivered \cup Fresh
    /\ UNCHANGED <<now, backwards, relinquished, checking, refuted>>

\* The group fails, or the writer is killed: the next writer publishes what
\* is left of the group, a prefix, whether or not it is on the disk.
Lose ==
    /\ Len(tables) > shown
    /\ \E i \in shown..Len(tables) : tables' = SubSeq(tables, 1, i) /\ shown' = i
    /\ UNCHANGED <<now, backwards, delivered, relinquished, checking, refuted>>

\* The machine loses power, and of what was not forced any part is left; or
\* the next writer forces what it found before it publishes it.
PowerLoss ==
    /\ Len(tables) > 1
    /\ \E i \in 1..Len(tables) : tables' = <<tables[i]>>
    /\ shown' = 1
    /\ UNCHANGED <<now, backwards, delivered, relinquished, checking, refuted>>

\* A check reads the published table it starts from, however late it answers.
BeginCheck(g) ==
    /\ checking = None
    /\ checking' = [grant |-> g, table |-> tables[shown], forced |-> shown = 1]
    /\ UNCHANGED <<now, backwards, tables, shown, delivered, relinquished, refuted>>

AnswerCheck ==
    /\ checking # None
    /\ checking' = None
    /\ refuted' = IF Names(checking.table, checking.grant) THEN refuted
                  ELSE refuted \cup {[grant  |-> checking.grant,
                                      forced |-> checking.forced]}
    /\ UNCHANGED <<now, backwards, tables, shown, delivered, relinquished>>

Tick ==
    /\ now' \in 0..MaxClock
    /\ backwards \/ now' >= now
    /\ UNCHANGED <<backwards, tables, shown, delivered, relinquished, checking, refuted>>

Next ==
    \/ \E r \in Resource, h \in Holder, ttl \in Ttl : Acquire(r, h, ttl)
    \/ \E g \in delivered, ttl \in Ttl : Renew(g, ttl)
    \/ \E g \in delivered : Release(g) \/ Forfeit(g) \/ FencedWrite(g) \/ BeginCheck(g)
    \/ PlainWrite
    \/ Publish
    \/ Lose
    \/ PowerLoss
    \/ AnswerCheck
    \/ Tick

Spec == Init /\ [][Next]_vars

-----------------------------------------------------------------------------
\* Every variable keeps the shape its declaration gives it.
TypeOK ==
    /\ now \in Nat
    /\ backwards \in BOOLEAN
    /\ tables \in Seq(Table)
    /\ shown \in 1..Len(tables)
    /\ delivered \subseteq Grant
    /\ relinquished \subseteq delivered
    /\ checking \in Check \cup {None}
    /\ refuted \subseteq Refutation

\* A write accepted under a fence was made under the newest lease granted on
\* its resource before it, and one not yet released: a holder that lost its
\* lease and does not know it cannot write behind its successor's back,
\* whatever the wall clock does.
FencedWritesHoldNewestLease ==
    \A i \in 1..Len(tables) : \A w \in tables[i].writes :
        /\ \A g \in tables[i].grants :
              g.resource = w.resource /\ g.epoch < w.at => g.epoch <= w.epoch
        /\ \A e \in tables[i].releases :
              e.resource = w.resource /\ e.epoch = w.epoch => e.at > w.at

\* Once a check of a forced table has answered that a grant is not the current
\* lease, no table published or in preparation holds that lease again, nor one
\* that a power failure can bring back.  A check of a table which a restart
\* published unforced promises nothing: its answer may be taken back.
RefutedStaysRefuted ==
    \A x \in refuted : x.forced => \A i \in 1..Len(tables) : ~Names(tables[i], x.grant)

\* A grant its holder still relies on: it was delivered, and has not been
\* offered for renewal or release since.
ReliedOn == delivered \ relinquished

\* While the wall clock is never set back, two clients never both hold an
\* unexpired grant on one resource.
ExclusiveReliance ==
    ~backwards =>
      \A g1, g2 \in ReliedOn :
        /\ g1.resource = g2.resource
        /\ g1.expires > now
        /\ g2.expires > now
        => g1.holder = g2.holder

-----------------------------------------------------------------------------
(* The inductive invariant                                                 *)

\* What one table's records say of each other.
TableOK(t) ==
    /\ t.next > 0
    /\ \A g \in t.grants : g.epoch < t.next
    /\ \A g1, g2 \in t.grants : g1.epoch = g2.epoch => g1 = g2
    /\ \A r \in Resource : t.held[r] # None =>
          /\ t.held[r] \in t.grants
          /\ t.held[r].resource = r
          /\ \A g \in t.grants : g.resource = r => g.epoch <= t.held[r].epoch
    /\ \A w \in t.writes : w.at < t.next
    /\ \A e \in t.releases :
          /\ e.epoch < t.next
          /\ t.held[e.resource] # None => t.held[e.resource].epoch # e.epoch

\* The writes of one table, as in FencedWritesHoldNewestLease.
WritesOK(t) ==
    \A w \in t.writes :
        /\ \A g \in t.grants :
              g.resource = w.resource /\ g.epoch < w.at => g.epoch <= w.epoch
        /\ \A e \in t.releases :
              e.resource = w.resource /\ e.epoch = w.epoch => e.at > w.at

\* u comes after t: it has t's grants, and none comes back that t had lost.
Later(t, u) ==
    /\ t.grants \subseteq u.grants
    /\ \A g \in t.grants : Names(u, g) => Names(t, g)

\* A grant is current, has run out, or has been offered up by its holder.
Accounted(t) ==
    \A g \in t.grants :
        t.held[g.resource] = g \/ g.expires <= now \/ g \in relinquished

\* Every table is sound, none is earlier than the one on the disk or than a
\* forced one that a check has read, and what clients hold comes from the
\* table on the disk.
TableInvariant ==
    /\ \A i \in 1..Len(tables) :
          /\ TableOK(tables[i])
          /\ Later(tables[1], tables[i])
          /\ ~backwards => Accounted(tables[i])
    /\ delivered \subseteq tables[1].grants
    /\ \A x \in refuted : x.grant \in delivered
    /\ checking # None =>
          /\ checking.grant \in delivered
          /\ checking.grant \in checking.table.grants
          /\ checking.forced => \A i \in 1..Len(tables) : Later(checking.table, tables[i])
=============================================================================
