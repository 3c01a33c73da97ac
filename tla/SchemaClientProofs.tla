--------------------------- MODULE SchemaClientProofs ---------------------------
(***************************************************************************)
(* Theorems about SchemaClient, for every set of clients, commands and     *)
(* batches of other programs: commands are serial, and what a client is    *)
(* told is what happened.  Databases and plans are left unexpanded, so     *)
(* nothing here depends on what a batch does to a database.                *)
(***************************************************************************)
EXTENDS SchemaClient, FiniteSetTheorems, SequenceTheorems, WellFoundedInduction, TLAPS

-----------------------------------------------------------------------------
(* The inductive invariant.                                                *)

\* A sequence, whatever its elements are.
Sequence(s) == Len(s) \in Nat /\ s = [i \in 1 .. Len(s) |-> s[i]]

\* The commands that are not rejected before the first request, normalised.
Accepted == {Normalised(k) : k \in {k \in Commands : InputError(k) = OK}}

\* What the attempt of a client has read allows the batch it plans.
Cleared(d, k) == GuardError(d, k) = OK /\ PlanError(d, k) = OK

Batch(c) == [from |-> c, expected |-> asOf[c], actions |-> Actions(Snapshot(c), cmd[c])]
OnTheWay(c) == {m \in wire : m.from = c}
Told(c) == {r \in replies : r.to = c}
Untouched(c) == Wrote(c) = {} /\ OnTheWay(c) = {}

Before == {"idle", "version", "guards", "scan", "write"}

TypeOK ==
    /\ Sequence(versions) /\ versions # <<>>
    /\ Sequence(author) /\ Len(author) = Len(versions)
    /\ pc \in [Client -> Before \cup {"sent", "over"}]
    /\ cmd = [c \in Client |-> cmd[c]] /\ asOf \in [Client -> Nat]
    /\ retries = [c \in Client |-> retries[c]]
    /\ outcome = [c \in Client |-> outcome[c]]
    /\ \A m \in wire : m.from \in Client

\* What a client has read so far is about a version that exists.
HasRead(c) ==
    /\ pc[c] # "idle" /\ pc[c] # "over" => cmd[c] \in Accepted
    /\ pc[c] \in {"guards", "scan", "write", "sent"} => asOf[c] \in 1 .. Latest
    /\ pc[c] = "scan" => GuardError(Snapshot(c), cmd[c]) = OK
    /\ pc[c] \in {"write", "sent"} => Cleared(Snapshot(c), cmd[c])

\* The batch of a client is on its way, refused, or applied once.
OneBatch(c) ==
    \/ OnTheWay(c) = {Batch(c)} /\ Wrote(c) = {} /\ Told(c) = {}
    \/ OnTheWay(c) = {} /\ Wrote(c) = {}
       /\ \E r \in replies : Told(c) = {r} /\ r.kind = "conflict"
    \/ OnTheWay(c) = {}
       /\ \E r \in replies : Told(c) = {r} /\ r.kind = "done" /\ Wrote(c) = {r.at}

\* The client is gone and its batch may be served still, once.
LostBatch(c) ==
    /\ cmd[c] \in Accepted /\ asOf[c] \in 1 .. Latest /\ Cleared(Snapshot(c), cmd[c])
    /\ \/ OnTheWay(c) \subseteq {Batch(c)} /\ Wrote(c) = {}
       \/ OnTheWay(c) = {} /\ \E v \in 1 .. Latest : Wrote(c) = {v}

Ended(c) ==
    \/ outcome[c].kind = "refused" /\ Untouched(c)
    \/ /\ outcome[c].kind = "noop" /\ Untouched(c)
       /\ cmd[c] \in Accepted /\ outcome[c].at \in 1 .. Latest
       /\ Cleared(versions[outcome[c].at], cmd[c])
       /\ Actions(versions[outcome[c].at], cmd[c]) = <<>>
    \/ outcome[c].kind = "done" /\ OnTheWay(c) = {} /\ Wrote(c) = {outcome[c].at}
    \/ outcome[c].kind = "unknown" /\ LostBatch(c)

Progress(c) ==
    /\ pc[c] \in Before => outcome[c] = Pending /\ Untouched(c) /\ Told(c) = {}
    /\ pc[c] = "sent" => outcome[c] = Pending /\ OneBatch(c)
    /\ pc[c] = "over" => Ended(c)

\* Every version a client wrote is its plan applied to the one before.
Serial(c) ==
    \A v \in Wrote(c) :
        /\ v \in 2 .. Latest /\ cmd[c] \in Accepted
        /\ Cleared(versions[v - 1], cmd[c])
        /\ versions[v] = ApplyActions(versions[v - 1], Actions(versions[v - 1], cmd[c]))

Sound(c) == HasRead(c) /\ Progress(c) /\ Serial(c)

IInv == TypeOK /\ \A c \in Client : Sound(c)

-----------------------------------------------------------------------------
(* Sequences of anything, and the first of several errors.                 *)

LEMMA SequenceIsSeq ==
    ASSUME NEW s, Sequence(s), NEW e
    PROVE  \E S : s \in Seq(S) /\ e \in S
  <1> DEFINE S == {s[i] : i \in 1 .. Len(s)} \cup {e}
  <1>1. s \in [1 .. Len(s) -> S] BY DEF Sequence
  <1>2. s \in Seq(S)
    <2>1. Len(s) \in Nat BY DEF Sequence
    <2> QED BY <1>1, <2>1, SeqDef
  <1> QED BY <1>2

\* What Append does to a sequence, whatever its elements are.
LEMMA AppendSequence ==
    ASSUME NEW s, Sequence(s), NEW e
    PROVE  /\ Sequence(Append(s, e)) /\ Append(s, e) # <<>>
           /\ Len(Append(s, e)) = Len(s) + 1
           /\ \A i \in 1 .. Len(s) : Append(s, e)[i] = s[i]
           /\ Append(s, e)[Len(s) + 1] = e
  <1>1. PICK S : s \in Seq(S) /\ e \in S BY SequenceIsSeq
  <1>2. /\ Append(s, e) \in Seq(S) /\ Len(Append(s, e)) = Len(s) + 1
        /\ \A i \in 1 .. Len(s) : Append(s, e)[i] = s[i]
        /\ Append(s, e)[Len(s) + 1] = e
    BY <1>1, AppendProperties
  <1>3. Sequence(Append(s, e)) BY <1>2, LenProperties DEF Sequence
  <1>4. Append(s, e) # <<>>
    <2>1. Len(Append(s, e)) \in Nat /\ Len(s) \in Nat BY <1>3 DEF Sequence
    <2> QED BY <1>2, <2>1
  <1> QED BY <1>2, <1>3, <1>4

Less == {q \in Nat \X Nat : q[1] < q[2]}

LEMMA LeastNumber ==
    ASSUME NEW S \in SUBSET Nat, S # {}
    PROVE  \E n \in S : \A m \in S : n <= m
  <1>1. Less = OpToRel(<, Nat) BY Zenon DEF Less, OpToRel
  <1>2. IsWellFoundedOn(Less, Nat) BY <1>1, NatLessThanWellFounded, Zenon
  <1>3. PICK n \in S : \A m \in S : <<m, n>> \notin Less
    BY ONLY <1>2, WFMin, S \in SUBSET Nat, S # {}, Zenon
  <1>4. \A m \in S : ~(m < n)
    <2> SUFFICES ASSUME NEW m \in S, m < n PROVE FALSE OBVIOUS
    <2>1. <<m, n>> \in Less BY DEF Less
    <2> QED BY <1>3, <2>1
  <1> QED BY <1>4

\* A sequence of checks without an error has none in it.
LEMMA NoError ==
    ASSUME NEW checks, DOMAIN checks \subseteq Nat, FirstError(checks) = OK
    PROVE  \A k \in DOMAIN checks : checks[k] = OK
  <1> DEFINE bad == {k \in DOMAIN checks : checks[k] # OK}
  <1> SUFFICES ASSUME bad # {} PROVE FALSE OBVIOUS
  <1>1. bad \in SUBSET Nat OBVIOUS
  <1>2. \E n \in bad : \A m \in bad : n <= m BY <1>1, LeastNumber
  <1>3. Min(bad) \in bad BY <1>2 DEF Min
  <1>4. FirstError(checks) = checks[Min(bad)] BY DEF FirstError
  <1> QED BY <1>3, <1>4
-----------------------------------------------------------------------------
(* Guards that were checked hold.                                          *)

\* What Commands have in common survives normalisation.
LEMMA AcceptedShape ==
    ASSUME NEW k \in Accepted
    PROVE  /\ k.kind \in {"create", "upsert", "replace", "transact"}
           /\ DOMAIN k.creates = 1 .. Len(k.creates) /\ Len(k.creates) \in Nat
           /\ DOMAIN k.updates = 1 .. Len(k.updates) /\ Len(k.updates) \in Nat
           /\ k.kind # "transact" => DOMAIN k.creates = {1} /\ DOMAIN k.updates = {}
           /\ k.kind = "replace" => k.require = {}
  <1>1. PICK asked \in Commands : k = Normalised(asked) BY DEF Accepted
  <1> DEFINE creates == [n \in DOMAIN asked.creates |-> DistinctFields(asked.creates[n])]
             updates == [n \in DOMAIN asked.updates |-> DistinctValues(asked.updates[n])]
  <1>2. asked = [kind |-> asked.kind, creates |-> asked.creates, updates |-> asked.updates,
                 require |-> asked.require]
    BY CommandsAssumption
  <1>3. k = [asked EXCEPT !.creates = creates, !.updates = updates]
    BY <1>1 DEF Normalised
  <1> HIDE DEF creates, updates
  <1>4. k.kind = asked.kind /\ k.require = asked.require
        /\ k.creates = creates /\ k.updates = updates
    BY <1>2, <1>3
  <1>5. /\ asked.creates \in Seq(Elements(asked.creates))
        /\ asked.updates \in Seq(Elements(asked.updates))
    BY CommandsAssumption
  <1>6. /\ Len(asked.creates) \in Nat /\ DOMAIN asked.creates = 1 .. Len(asked.creates)
        /\ Len(asked.updates) \in Nat /\ DOMAIN asked.updates = 1 .. Len(asked.updates)
    BY <1>5, LenProperties
  <1>7. DOMAIN creates = DOMAIN asked.creates /\ DOMAIN updates = DOMAIN asked.updates
    BY DEF creates, updates
  <1>8. /\ DOMAIN creates = 1 .. Len(creates) /\ Len(creates) \in Nat
        /\ DOMAIN updates = 1 .. Len(updates) /\ Len(updates) \in Nat
    <2>1. creates \in Seq(Elements(creates))
      BY <1>6, <1>7, SeqDef DEF creates, Elements
    <2>2. updates \in Seq(Elements(updates))
      BY <1>6, <1>7, SeqDef DEF updates, Elements
    <2> QED BY <2>1, <2>2, LenProperties
  <1>9. /\ asked.kind \in {"create", "upsert", "replace", "transact"}
        /\ asked.kind # "transact" => Len(asked.creates) = 1 /\ asked.updates = <<>>
        /\ asked.kind = "replace" => asked.require = {}
    BY CommandsAssumption
  <1>10. asked.kind # "transact" => DOMAIN creates = {1} /\ DOMAIN updates = {}
    <2> SUFFICES ASSUME asked.kind # "transact"
                 PROVE  DOMAIN asked.creates = {1} /\ DOMAIN asked.updates = {}
      BY <1>7
    <2>1. Len(asked.creates) = 1 /\ Len(asked.updates) = 0 BY <1>9
    <2> QED BY ONLY <1>6, <2>1
  <1> QED BY <1>4, <1>8, <1>9, <1>10

LEMMA Checked ==
    ASSUME NEW holds, NEW code, code # OK, Check(holds, code) = OK
    PROVE  holds
  BY DEF Check

\* The checks of a list that is written down.
LEMMA NoErrorInTwo ==
    ASSUME NEW a, NEW b, FirstError(<<a, b>>) = OK
    PROVE  a = OK /\ b = OK
  <1>1. \A i \in 1 .. 2 : <<a, b>>[i] = OK BY NoError
  <1> QED BY <1>1

LEMMA NoErrorInSeven ==
    ASSUME NEW a, NEW b, NEW c, NEW d, NEW e, NEW f, NEW g,
           FirstError(<<a, b, c, d, e, f, g>>) = OK
    PROVE  f = OK
  <1>1. \A i \in 1 .. 7 : <<a, b, c, d, e, f, g>>[i] = OK BY NoError
  <1> QED BY <1>1

\* The check across creates and updates that a guard relies on: a planned
\* identity that is also required is required of the subject that gets it.
LEMMA AcceptedAcross ==
    ASSUME NEW k \in Accepted, k.kind = "transact"
    PROVE  \A r \in k.require, n \in DOMAIN k.creates :
               k.creates[n].identity = r.identity => k.creates[n].subject = r.subject
  <1>1. PICK asked \in Commands : k = Normalised(asked) /\ InputError(asked) = OK
    BY DEF Accepted
  <1> DEFINE records == [n \in DOMAIN asked.creates |-> CreateRecordError(asked.creates[n])]
             changes == [n \in DOMAIN asked.updates |-> UpdateError(asked.updates[n])]
             checks  == records \o changes \o <<AcrossError(k)>>
  <1>2. asked.kind = "transact"
    <2>1. asked = [kind |-> asked.kind, creates |-> asked.creates,
                   updates |-> asked.updates, require |-> asked.require]
      BY CommandsAssumption
    <2> QED BY <1>1, <2>1 DEF Normalised
  <1>3. FirstError(checks) = OK BY <1>1, <1>2 DEF InputError
  <1>4. /\ Len(asked.creates) \in Nat /\ DOMAIN asked.creates = 1 .. Len(asked.creates)
        /\ Len(asked.updates) \in Nat /\ DOMAIN asked.updates = 1 .. Len(asked.updates)
    BY CommandsAssumption, LenProperties
  <1> DEFINE Errors == {records[n] : n \in DOMAIN asked.creates}
                         \cup {changes[n] : n \in DOMAIN asked.updates} \cup {AcrossError(k)}
  <1>5. records \in Seq(Errors) /\ changes \in Seq(Errors) /\ <<AcrossError(k)>> \in Seq(Errors)
    <2>1. records \in [1 .. Len(asked.creates) -> Errors] BY <1>4
    <2>2. changes \in [1 .. Len(asked.updates) -> Errors] BY <1>4
    <2>3. <<AcrossError(k)>> \in Seq(Errors) OBVIOUS
    <2> QED BY <1>4, <2>1, <2>2, <2>3, SeqDef
  <1> HIDE DEF records, changes, Errors
  <1>6. records \o changes \in Seq(Errors) BY <1>5, ConcatProperties
  <1>7. /\ checks \in Seq(Errors) /\ Len(checks) = Len(records \o changes) + 1
        /\ checks[Len(records \o changes) + 1] = AcrossError(k)
    BY <1>5, <1>6, ConcatProperties
  <1> HIDE DEF checks
  <1>8. DOMAIN checks \subseteq Nat /\ Len(checks) \in DOMAIN checks
    BY <1>6, <1>7, LenProperties
  <1>9. AcrossError(k) = OK BY <1>3, <1>7, <1>8, NoError
  <1>10. Check(\A r \in k.require, n \in DOMAIN k.creates :
                   k.creates[n].identity = r.identity => k.creates[n].subject = r.subject,
               "required-identity-missing") = OK
    BY <1>9, NoErrorInSeven, Zenon DEF AcrossError
  <1> QED BY <1>10, Checked DEF OK

LEMMA RequiredOwned ==
    ASSUME NEW d, NEW require, RequireError(d, require) = OK
    PROVE  \A r \in require : Owners(d, r.identity) = {r.subject}
  <1>1. Check(\A r \in require : Owners(d, r.identity) = {r.subject},
              "required-identity-missing") = OK
    BY DEF RequireError, OK
  <1> QED BY <1>1, Checked DEF OK

LEMMA NoOwner ==
    ASSUME NEW d, NEW id, CreateOwnersError(d, id) = OK
    PROVE  Owners(d, id) = {}
  <1>1. Check(Owners(d, id) = {}, "identity-exists") = OK
    BY NoErrorInTwo DEF CreateOwnersError
  <1> QED BY <1>1, Checked DEF OK

LEMMA OwnersCount ==
    ASSUME NEW d, NEW id
    PROVE  /\ IsFiniteSet(Owners(d, id)) /\ Cardinality(Owners(d, id)) \in Nat
           /\ Cardinality(Owners(d, id)) = 0 <=> Owners(d, id) = {}
  <1>1. Owners(d, id) \subseteq Subject BY DEF Owners
  <1>2. IsFiniteSet(Owners(d, id)) BY <1>1, FS_Subset, SchemaAssumption
  <1> QED BY <1>2, FS_CardinalityType, FS_EmptySet

LEMMA OneSource ==
    ASSUME NEW d, NEW id, SourceError(d, id) = OK
    PROVE  Cardinality(Owners(d, id)) = 1
  <1>1. /\ Check(Cardinality(Owners(d, id)) <= 1, "duplicate-identity") = OK
        /\ Check(Owners(d, id) # {}, "identity-missing") = OK
    BY NoErrorInTwo DEF SourceError
  <1>2. Cardinality(Owners(d, id)) <= 1 BY <1>1 DEF Check, OK
  <1>3. Owners(d, id) # {} BY <1>1, Checked DEF OK
  <1> QED BY <1>2, <1>3, OwnersCount

\* The owners a transaction looks up: none of what it creates, one of what it
\* updates.
LEMMA TransactionOwners ==
    ASSUME NEW d, NEW k \in Accepted,
           FirstError([n \in DOMAIN k.creates |-> CreateOwnersError(d, k.creates[n].identity)]
                      \o [n \in DOMAIN k.updates |-> SourceError(d, k.updates[n].identity)]) = OK
    PROVE  /\ \A n \in DOMAIN k.creates : CreateOwnersError(d, k.creates[n].identity) = OK
           /\ \A n \in DOMAIN k.updates : SourceError(d, k.updates[n].identity) = OK
  <1> DEFINE creates == [n \in DOMAIN k.creates |-> CreateOwnersError(d, k.creates[n].identity)]
             updates == [n \in DOMAIN k.updates |-> SourceError(d, k.updates[n].identity)]
             Errors  == {creates[n] : n \in DOMAIN k.creates}
                          \cup {updates[n] : n \in DOMAIN k.updates}
  <1>1. /\ Len(k.creates) \in Nat /\ DOMAIN k.creates = 1 .. Len(k.creates)
        /\ Len(k.updates) \in Nat /\ DOMAIN k.updates = 1 .. Len(k.updates)
    BY AcceptedShape
  <1>2. creates \in Seq(Errors) /\ updates \in Seq(Errors)
    <2>1. creates \in [1 .. Len(k.creates) -> Errors] BY <1>1
    <2>2. updates \in [1 .. Len(k.updates) -> Errors] BY <1>1
    <2> QED BY <1>1, <2>1, <2>2, SeqDef
  <1>3. Len(creates) = Len(k.creates) /\ Len(updates) = Len(k.updates)
    <2>1. DOMAIN creates = 1 .. Len(k.creates) /\ DOMAIN updates = 1 .. Len(k.updates)
      BY <1>1
    <2>2. /\ Len(creates) \in Nat /\ DOMAIN creates = 1 .. Len(creates)
          /\ Len(updates) \in Nat /\ DOMAIN updates = 1 .. Len(updates)
      BY <1>2, LenProperties
    <2> HIDE DEF creates, updates
    <2> QED BY <1>1, <2>1, <2>2
  <1> HIDE DEF creates, updates, Errors
  <1>4. /\ creates \o updates \in Seq(Errors)
        /\ Len(creates \o updates) = Len(creates) + Len(updates)
        /\ \A i \in 1 .. Len(creates) + Len(updates) :
              (creates \o updates)[i] = IF i <= Len(creates) THEN creates[i]
                                        ELSE updates[i - Len(creates)]
    BY <1>2, ConcatProperties
  <1>5. FirstError(creates \o updates) = OK BY DEF creates, updates
  <1>6. \A i \in 1 .. Len(creates) + Len(updates) : (creates \o updates)[i] = OK
    <2>1. DOMAIN (creates \o updates) = 1 .. Len(creates) + Len(updates)
      BY <1>4, LenProperties
    <2>2. DOMAIN (creates \o updates) \subseteq Nat BY <2>1
    <2> QED BY <1>5, <2>1, <2>2, NoError
  <1>7. ASSUME NEW n \in DOMAIN k.creates PROVE creates[n] = OK
    <2>1. n \in 1 .. Len(creates) /\ Len(creates) \in Nat /\ Len(updates) \in Nat
      BY <1>1, <1>3
    <2>2. n \in 1 .. Len(creates) + Len(updates) /\ n <= Len(creates) BY ONLY <2>1
    <2> QED BY <1>4, <1>6, <2>2
  <1>8. ASSUME NEW n \in DOMAIN k.updates PROVE updates[n] = OK
    <2>1. n \in 1 .. Len(updates) /\ Len(creates) \in Nat /\ Len(updates) \in Nat
      BY <1>1, <1>3
    <2> DEFINE i == Len(creates) + n
    <2>2. i \in 1 .. Len(creates) + Len(updates) /\ ~(i <= Len(creates)) /\ i - Len(creates) = n
      BY ONLY <2>1
    <2> HIDE DEF i
    <2> QED BY <1>4, <1>6, <2>2
  <1> QED BY <1>7, <1>8 DEF creates, updates

\* What a client checked at a version is what the command promises of it.
LEMMA GuardsHold ==
    ASSUME NEW d, NEW k \in Accepted, GuardError(d, k) = OK
    PROVE  Guards(d, k)
  <1>0. k.kind \in {"create", "upsert", "replace", "transact"} BY AcceptedShape
  <1>1. CASE k.kind = "replace"
    <2>1. k.require = {} /\ DOMAIN k.updates = {} BY <1>1, AcceptedShape
    <2> QED BY <1>1, <2>1 DEF Guards
  <1>2. CASE k.kind = "create"
    <2>1. DOMAIN k.creates = {1} /\ DOMAIN k.updates = {} BY <1>2, AcceptedShape
    <2>2. /\ CreateOwnersError(d, k.creates[1].identity) = OK
          /\ RequireError(d, k.require) = OK
      BY <1>2, NoErrorInTwo DEF GuardError
    <2>3. \A r \in k.require : Owners(d, r.identity) = {r.subject} BY <2>2, RequiredOwned
    <2>4. Owners(d, k.creates[1].identity) = {} BY <2>2, NoOwner
    <2> QED BY <1>2, <2>1, <2>3, <2>4 DEF Guards
  <1>3. CASE k.kind = "upsert"
    <2>1. DOMAIN k.creates = {1} /\ DOMAIN k.updates = {} BY <1>3, AcceptedShape
    <2>2. /\ Check(Cardinality(Owners(d, k.creates[1].identity)) <= 1,
                   "duplicate-identity") = OK
          /\ RequireError(d, k.require) = OK
      BY <1>3, NoErrorInTwo DEF GuardError
    <2>3. \A r \in k.require : Owners(d, r.identity) = {r.subject} BY <2>2, RequiredOwned
    <2>4. Cardinality(Owners(d, k.creates[1].identity)) <= 1 BY <2>2 DEF Check, OK
    <2> QED BY <1>3, <2>1, <2>3, <2>4 DEF Guards
  <1>4. CASE k.kind = "transact"
    <2> DEFINE owners == FirstError(
            [n \in DOMAIN k.creates |-> CreateOwnersError(d, k.creates[n].identity)]
            \o [n \in DOMAIN k.updates |-> SourceError(d, k.updates[n].identity)])
    <2>1. GuardError(d, k) = IF owners # OK THEN owners
                             ELSE FirstError(<<CellsError(d, k), RequireError(d, Outside(k))>>)
      BY <1>4 DEF GuardError
    <2>2. owners = OK /\ FirstError(<<CellsError(d, k), RequireError(d, Outside(k))>>) = OK
      <3> HIDE DEF owners
      <3> QED BY <2>1
    <2>3. /\ \A n \in DOMAIN k.creates : CreateOwnersError(d, k.creates[n].identity) = OK
          /\ \A n \in DOMAIN k.updates : SourceError(d, k.updates[n].identity) = OK
      BY <2>2, TransactionOwners
    <2>4. \A n \in DOMAIN k.creates : Owners(d, k.creates[n].identity) = {}
      BY <2>3, NoOwner
    <2>5. \A n \in DOMAIN k.updates : Cardinality(Owners(d, k.updates[n].identity)) = 1
      BY <2>3, OneSource
    <2>6. RequireError(d, Outside(k)) = OK BY <2>2, NoErrorInTwo
    <2>7. ASSUME NEW r \in k.require
          PROVE  \/ Owners(d, r.identity) = {r.subject}
                 \/ \E n \in DOMAIN k.creates :
                      k.creates[n].identity = r.identity /\ k.creates[n].subject = r.subject
      <3>1. CASE r \in Outside(k) BY <2>6, <3>1, RequiredOwned
      <3>2. CASE r \notin Outside(k)
        <4>1. PICK n \in DOMAIN k.creates : k.creates[n].identity = r.identity
          BY <3>2 DEF Outside
        <4> QED BY <1>4, <4>1, AcceptedAcross
      <3> QED BY <3>1, <3>2
    <2> QED BY <1>4, <2>4, <2>5, <2>7 DEF Guards
  <1> QED BY <1>0, <1>1, <1>2, <1>3, <1>4

-----------------------------------------------------------------------------
(* Types and the initial state.                                            *)

LEMMA InitHolds == Init => IInv
  <1> SUFFICES ASSUME Init PROVE IInv OBVIOUS
  <1>1. TypeOK
    <2>1. Sequence(versions) /\ Sequence(author) /\ Len(author) = Len(versions)
          /\ versions # <<>>
      BY DEF Init, Sequence
    <2> QED BY <2>1 DEF Init, TypeOK, Before
  <1>2. ASSUME NEW c \in Client PROVE Sound(c)
    <2>1. DOMAIN author = {1} /\ author[1] = "nobody" BY DEF Init
    <2>2. Wrote(c) = {} BY <2>1, SchemaAssumption DEF Wrote
    <2>3. pc[c] = "idle" /\ outcome[c] = Pending /\ OnTheWay(c) = {} /\ Told(c) = {}
      BY DEF Init, OnTheWay, Told
    <2>4. HasRead(c) BY <2>3 DEF HasRead
    <2>5. Progress(c) BY <2>2, <2>3 DEF Progress, Untouched, Before
    <2>6. Serial(c) BY <2>2 DEF Serial
    <2> QED BY <2>4, <2>5, <2>6 DEF Sound
  <1> QED BY <1>1, <1>2 DEF IInv

\* The database is only added to.
Grows ==
    /\ Len(versions) <= Len(versions')
    /\ \A v \in 1 .. Len(versions) : versions'[v] = versions[v]

\* What a new version does to the history.
LEMMA NewVersion ==
    ASSUME TypeOK, NEW d, NEW who,
           versions' = Append(versions, d), author' = Append(author, who)
    PROVE  /\ Sequence(versions)' /\ versions' # <<>> /\ Sequence(author)'
           /\ Len(versions') = Len(versions) + 1 /\ Len(author') = Len(versions')
           /\ Grows /\ versions'[Len(versions) + 1] = d
           /\ \A c : Wrote(c)' = IF c = who THEN Wrote(c) \cup {Len(versions) + 1} ELSE Wrote(c)
  <1>1. /\ Sequence(versions) /\ Sequence(author) /\ Len(author) = Len(versions)
        /\ Len(versions) \in Nat
    BY DEF TypeOK, Sequence
  <1>2. /\ Sequence(versions)' /\ versions' # <<>> /\ Len(versions') = Len(versions) + 1
        /\ \A v \in 1 .. Len(versions) : versions'[v] = versions[v]
        /\ versions'[Len(versions) + 1] = d
    <2>1. Sequence(Append(versions, d)) BY <1>1, AppendSequence
    <2>2. Sequence(versions)' BY <2>1 DEF Sequence
    <2> QED BY <1>1, <2>2, AppendSequence
  <1>3. /\ Sequence(author)' /\ Len(author') = Len(author) + 1
        /\ \A v \in 1 .. Len(author) : author'[v] = author[v]
        /\ author'[Len(author) + 1] = who
    <2>1. Sequence(Append(author, who)) BY <1>1, AppendSequence
    <2>2. Sequence(author)' BY <2>1 DEF Sequence
    <2> QED BY <1>1, <2>2, AppendSequence
  <1>4. Grows BY <1>1, <1>2 DEF Grows
  <1>5. DOMAIN author = 1 .. Len(versions) /\ DOMAIN author' = 1 .. (Len(versions) + 1)
    BY <1>1, <1>3 DEF Sequence
  <1>6. DOMAIN author' = DOMAIN author \cup {Len(versions) + 1}
    BY <1>1, <1>5
  <1>7. \A v \in DOMAIN author : author'[v] = author[v] BY <1>1, <1>3, <1>5
  <1>8. author'[Len(versions) + 1] = who BY <1>1, <1>3
  <1>9. Len(versions) + 1 \notin DOMAIN author BY <1>1, <1>5
  <1>10. \A c : Wrote(c)' = IF c = who THEN Wrote(c) \cup {Len(versions) + 1} ELSE Wrote(c)
    BY <1>6, <1>7, <1>8, <1>9 DEF Wrote
  <1> QED BY <1>1, <1>2, <1>3, <1>4, <1>10

LEMMA SameVersions ==
    ASSUME TypeOK, UNCHANGED <<versions, author>>
    PROVE  /\ Grows /\ Sequence(versions)' /\ versions' # <<>> /\ Sequence(author)'
           /\ Len(author') = Len(versions')
           /\ \A c : Wrote(c)' = Wrote(c)
  <1>1. Len(versions) \in Nat BY DEF TypeOK, Sequence
  <1> QED BY <1>1 DEF TypeOK, Sequence, Grows, Wrote

LEMMA TypesKept ==
    ASSUME TypeOK, [Next]_vars
    PROVE  TypeOK'
  <1>1. ASSUME NEW m \in wire, Serve(m) PROVE TypeOK'
    <2>1. /\ UNCHANGED <<pc, cmd, asOf, retries, outcome>>
          /\ \A x \in wire' : x \in wire
      BY <1>1 DEF Serve, client
    <2>2. /\ Sequence(versions)' /\ versions' # <<>> /\ Sequence(author)'
          /\ Len(author') = Len(versions')
      <3>1. CASE m.expected = Latest BY <1>1, <3>1, NewVersion DEF Serve
      <3>2. CASE m.expected # Latest BY <1>1, <3>2, SameVersions DEF Serve
      <3> QED BY <3>1, <3>2
    <2> QED BY <2>1, <2>2 DEF TypeOK
  <1>2. ASSUME NEW batch \in RawBatches, RawWrite(batch) PROVE TypeOK'
    <2>1. UNCHANGED <<pc, cmd, asOf, retries, outcome, wire>>
      BY <1>2 DEF RawWrite, client
    <2>2. /\ Sequence(versions)' /\ versions' # <<>> /\ Sequence(author)'
          /\ Len(author') = Len(versions')
      BY <1>2, NewVersion DEF RawWrite
    <2> QED BY <2>1, <2>2 DEF TypeOK
  <1>3. ASSUME NEW c \in Client, Step(c) \/ GiveUp(c) PROVE TypeOK'
    <2>1. UNCHANGED <<versions, author>>
      BY <1>3 DEF Step, GiveUp, Ask, ReadVersion, ReadGuards, ScanCurrent, Send, Receive
    <2>2. /\ Sequence(versions)' /\ versions' # <<>> /\ Sequence(author)'
          /\ Len(author') = Len(versions')
      BY <2>1, SameVersions
    <2>3. pc' \in [Client -> Before \cup {"sent", "over"}]
      BY <1>3 DEF TypeOK, Before, Step, GiveUp, Ask, ReadVersion, ReadGuards, ScanCurrent,
                  Send, Receive, Plans, Retry, Ends
    <2>4. /\ cmd' = [x \in Client |-> cmd'[x]] /\ outcome' = [x \in Client |-> outcome'[x]]
          /\ retries' = [x \in Client |-> retries'[x]]
      BY <1>3 DEF TypeOK, Before, Step, GiveUp, Ask, ReadVersion, ReadGuards, ScanCurrent,
                  Send, Receive, Plans, Retry, Ends
    <2>5. asOf' \in [Client -> Nat]
      BY <1>3 DEF TypeOK, Sequence, Latest, Step, GiveUp, Ask, ReadVersion, ReadGuards,
                  ScanCurrent, Send, Receive
    <2>6. \A m \in wire' : m.from \in Client
      BY <1>3 DEF TypeOK, Step, GiveUp, Ask, ReadVersion, ReadGuards, ScanCurrent, Send, Receive
    <2> QED BY <2>2, <2>3, <2>4, <2>5, <2>6 DEF TypeOK
  <1>4. CASE UNCHANGED vars
    BY <1>4 DEF vars, client, TypeOK, Sequence
  <1> QED BY <1>1, <1>2, <1>3, <1>4 DEF Next

-----------------------------------------------------------------------------
(* What the steps of others leave a client with.                           *)

Unmoved(c) ==
    /\ pc'[c] = pc[c] /\ cmd'[c] = cmd[c] /\ asOf'[c] = asOf[c] /\ outcome'[c] = outcome[c]
    /\ Wrote(c)' = Wrote(c) /\ OnTheWay(c)' = OnTheWay(c) /\ Told(c)' = Told(c)

LEMMA WroteVersions ==
    ASSUME TypeOK, NEW c
    PROVE  Wrote(c) \subseteq 1 .. Latest
  BY DEF TypeOK, Sequence, Wrote, Latest

LEMMA UnmovedStaysSound ==
    ASSUME TypeOK, NEW c \in Client, Sound(c), Unmoved(c), Grows, Len(versions') \in Nat
    PROVE  Sound(c)'
  <1> USE DEF Latest
  <1>0. Len(versions) \in Nat BY DEF TypeOK, Sequence
  <1>1. \A v \in 1 .. Latest : v \in 1 .. Latest' /\ versions'[v] = versions[v]
    BY <1>0 DEF Grows
  <1>2. asOf[c] \in 1 .. Latest => /\ asOf'[c] \in 1 .. Latest'
                                   /\ Snapshot(c)' = Snapshot(c) /\ Batch(c)' = Batch(c)
    BY <1>1 DEF Unmoved, Snapshot, Batch
  <1>3. HasRead(c)'
    BY <1>2 DEF Sound, HasRead, Unmoved
  <1>4. Progress(c)'
    <2>1. CASE pc[c] \in Before
      BY <2>1 DEF Sound, Progress, Unmoved, Untouched, Before
    <2>2. CASE pc[c] = "sent"
      <3>1. Batch(c)' = Batch(c) BY <1>2, <2>2 DEF Sound, HasRead
      <3>2. OneBatch(c)'
        <4>1. OneBatch(c) BY <2>2 DEF Sound, Progress
        <4>2. \A r \in replies : Told(c) = {r} => r \in replies'
          BY DEF Unmoved, Told
        <4> QED BY <3>1, <4>1, <4>2 DEF OneBatch, Unmoved
      <3> QED BY <2>2, <3>2 DEF Sound, Progress, Unmoved, Before
    <2>3. CASE pc[c] = "over"
      <3>1. Ended(c) BY <2>3 DEF Sound, Progress
      <3>2. Ended(c)'
        <4>1. CASE outcome[c].kind = "unknown"
          <5>1. LostBatch(c) BY <3>1, <4>1 DEF Ended
          <5>2. LostBatch(c)' BY <1>1, <1>2, <5>1 DEF LostBatch, Unmoved
          <5> QED BY <4>1, <5>2 DEF Ended, Unmoved
        <4>2. CASE outcome[c].kind # "unknown"
          BY <1>1, <3>1, <4>2 DEF Ended, Unmoved, Untouched
        <4> QED BY <4>1, <4>2
      <3> QED BY <2>3, <3>2 DEF Progress, Unmoved, Before
    <2>4. pc[c] \in Before \cup {"sent", "over"} BY DEF TypeOK
    <2> QED BY <2>1, <2>2, <2>3, <2>4
  <1>5. Serial(c)'
    <2> SUFFICES ASSUME NEW v \in Wrote(c)
                 PROVE  /\ v \in 2 .. Latest' /\ cmd[c] \in Accepted
                        /\ Cleared(versions'[v - 1], cmd[c])
                        /\ versions'[v] = ApplyActions(versions'[v - 1],
                                                       Actions(versions'[v - 1], cmd[c]))
      BY DEF Serial, Unmoved
    <2>1. /\ v \in 2 .. Latest /\ cmd[c] \in Accepted
          /\ Cleared(versions[v - 1], cmd[c])
          /\ versions[v] = ApplyActions(versions[v - 1], Actions(versions[v - 1], cmd[c]))
      BY DEF Sound, Serial
    <2>2. v \in 1 .. Latest /\ v - 1 \in 1 .. Latest /\ v \in 2 .. Latest'
      BY <1>0, <2>1 DEF Grows
    <2>3. versions'[v] = versions[v] /\ versions'[v - 1] = versions[v - 1] BY <1>1, <2>2
    <2> QED BY <2>1, <2>2, <2>3
  <1> QED BY <1>3, <1>4, <1>5 DEF Sound

\* A client moves nobody but itself.
LEMMA OthersUnmoved ==
    ASSUME TypeOK, NEW e \in Client, Step(e) \/ GiveUp(e), NEW c \in Client, c # e
    PROVE  Unmoved(c)
  <1>1. UNCHANGED <<versions, author>>
    BY DEF Step, GiveUp, Ask, ReadVersion, ReadGuards, ScanCurrent, Send, Receive
  <1>2. Wrote(c)' = Wrote(c) BY <1>1 DEF Wrote
  <1>3. pc'[c] = pc[c]
    BY DEF TypeOK, Step, GiveUp, Ask, ReadVersion, ReadGuards, ScanCurrent, Send, Receive,
           Plans, Retry, Ends
  <1>4. cmd'[c] = cmd[c] /\ asOf'[c] = asOf[c] /\ outcome'[c] = outcome[c]
    BY DEF TypeOK, Step, GiveUp, Ask, ReadVersion, ReadGuards, ScanCurrent, Send, Receive,
           Plans, Retry, Ends
  <1>5. OnTheWay(c)' = OnTheWay(c)
    BY DEF Step, GiveUp, Ask, ReadVersion, ReadGuards, ScanCurrent, Send, Receive, OnTheWay
  <1>6. Told(c)' = Told(c)
    BY DEF Step, GiveUp, Ask, ReadVersion, ReadGuards, ScanCurrent, Send, Receive, Told
  <1> QED BY <1>2, <1>3, <1>4, <1>5, <1>6 DEF Unmoved

-----------------------------------------------------------------------------
(* The steps of a client.                                                  *)

\* A step that neither sends nor receives, of a client that has nothing under
\* way: its progress is its own state.
Alone(c) ==
    /\ UNCHANGED <<versions, author, wire>>
    /\ OnTheWay(c) = {} /\ Wrote(c) = {}

LEMMA AloneStays ==
    ASSUME NEW c, Alone(c)
    PROVE  OnTheWay(c)' = {} /\ Wrote(c)' = {} /\ Untouched(c)' /\ Serial(c)'
  BY DEF Alone, OnTheWay, Wrote, Untouched, Serial

LEMMA EndsWith ==
    ASSUME TypeOK, NEW c \in Client, NEW result, Ends(c, result)
    PROVE  pc'[c] = "over" /\ outcome'[c] = result
  BY DEF TypeOK, Ends

LEMMA RefusedKind == \A code : Refused(code).kind = "refused"
  BY DEF Refused

LEMMA AskKeeps ==
    ASSUME TypeOK, NEW c \in Client, Sound(c), NEW command \in Commands, Ask(c, command)
    PROVE  Sound(c)'
  <1>1. pc[c] = "idle" /\ Untouched(c) /\ Told(c) = {} /\ outcome[c] = Pending
    BY DEF Ask, Sound, Progress, Before
  <1>2. Alone(c) BY <1>1 DEF Ask, Alone, Untouched
  <1>3. Untouched(c)' /\ Serial(c)' BY <1>2, AloneStays
  <1>4. cmd'[c] = Normalised(command) BY DEF Ask, TypeOK
  <1>5. Told(c)' = {} BY <1>1 DEF Ask, Told
  <1>6. CASE InputError(command) # OK
    <2>1. pc'[c] = "over" /\ outcome'[c].kind = "refused"
      BY <1>6, EndsWith, RefusedKind DEF Ask
    <2> QED BY <2>1, <1>3 DEF Sound, HasRead, Progress, Ended, Before
  <1>7. CASE InputError(command) = OK
    <2>1. pc'[c] = "version" /\ outcome'[c] = Pending
      BY <1>1, <1>7 DEF Ask, TypeOK
    <2>2. cmd'[c] \in Accepted BY <1>4, <1>7 DEF Accepted
    <2> QED BY <2>1, <2>2, <1>3, <1>5 DEF Sound, HasRead, Progress, Before
  <1> QED BY <1>6, <1>7

LEMMA ReadVersionKeeps ==
    ASSUME TypeOK, NEW c \in Client, Sound(c), ReadVersion(c)
    PROVE  Sound(c)'
  <1>1. pc[c] = "version" /\ Untouched(c) /\ Told(c) = {} /\ outcome[c] = Pending
        /\ cmd[c] \in Accepted
    BY DEF ReadVersion, Sound, Progress, HasRead, Before
  <1>2. Alone(c) BY <1>1 DEF ReadVersion, Alone, Untouched
  <1>3. Untouched(c)' /\ Serial(c)' BY <1>2, AloneStays
  <1>4. /\ pc'[c] = "guards" /\ asOf'[c] = Latest /\ cmd'[c] = cmd[c]
        /\ outcome'[c] = Pending /\ Latest' = Latest
    BY <1>1 DEF ReadVersion, TypeOK, Latest
  <1>5. Latest \in 1 .. Latest
    <2>1. Len(versions) \in Nat /\ Len(versions) # 0 BY DEF TypeOK, Sequence
    <2> QED BY <2>1 DEF Latest
  <1>6. Told(c)' = {} BY <1>1 DEF ReadVersion, Told
  <1> QED BY <1>1, <1>3, <1>4, <1>5, <1>6 DEF Sound, HasRead, Progress, Before

\* The plan of a client whose guards hold at its version.
LEMMA PlansKeeps ==
    ASSUME TypeOK, NEW c \in Client, Sound(c), Plans(c), pc[c] \in {"guards", "scan"},
           GuardError(Snapshot(c), cmd[c]) = OK,
           UNCHANGED <<versions, author, wire, cmd, asOf, replies>>
    PROVE  Sound(c)'
  <1>1. Untouched(c) /\ Told(c) = {} /\ outcome[c] = Pending /\ cmd[c] \in Accepted
        /\ asOf[c] \in 1 .. Latest
    BY DEF Sound, Progress, HasRead, Before
  <1>2. Alone(c) BY <1>1 DEF Alone, Untouched
  <1>3. Untouched(c)' /\ Serial(c)' BY <1>2, AloneStays
  <1>4. Snapshot(c)' = Snapshot(c) /\ Latest' = Latest /\ Told(c)' = {}
    BY <1>1 DEF Snapshot, Latest, Told
  <1>5. CASE PlanError(Snapshot(c), cmd[c]) # OK
    <2>1. pc'[c] = "over" /\ outcome'[c].kind = "refused"
      BY <1>5, EndsWith, RefusedKind DEF Plans
    <2> QED BY <2>1, <1>3 DEF Sound, HasRead, Progress, Ended, Before
  <1>6. CASE PlanError(Snapshot(c), cmd[c]) = OK
    <2>1. pc'[c] = "write" /\ outcome'[c] = Pending
      BY <1>1, <1>6 DEF Plans, TypeOK
    <2>2. Cleared(Snapshot(c), cmd[c])' BY <1>4, <1>6 DEF Cleared
    <2> QED BY <2>1, <2>2, <1>1, <1>3, <1>4 DEF Sound, HasRead, Progress, Before
  <1> QED BY <1>5, <1>6

LEMMA ReadGuardsKeeps ==
    ASSUME TypeOK, NEW c \in Client, Sound(c), ReadGuards(c)
    PROVE  Sound(c)'
  <1>1. /\ pc[c] = "guards" /\ Untouched(c) /\ Told(c) = {} /\ outcome[c] = Pending
        /\ cmd[c] \in Accepted /\ asOf[c] \in 1 .. Latest
    BY DEF ReadGuards, Sound, Progress, HasRead, Before
  <1>2. UNCHANGED <<versions, author, wire, cmd, asOf, replies>> BY DEF ReadGuards
  <1>3. Alone(c) BY <1>1, <1>2 DEF Alone, Untouched
  <1>4. Untouched(c)' /\ Serial(c)' BY <1>3, AloneStays
  <1>5. Snapshot(c)' = Snapshot(c) /\ Latest' = Latest /\ Told(c)' = {}
    BY <1>1, <1>2 DEF Snapshot, Latest, Told
  <1>6. CASE GuardError(Snapshot(c), cmd[c]) # OK
    <2>1. pc'[c] = "over" /\ outcome'[c].kind = "refused"
      BY <1>6, EndsWith, RefusedKind DEF ReadGuards
    <2> QED BY <2>1, <1>4 DEF Sound, HasRead, Progress, Ended, Before
  <1>7. CASE GuardError(Snapshot(c), cmd[c]) = OK /\ Scans(Snapshot(c), cmd[c])
    <2>1. pc'[c] = "scan" /\ outcome'[c] = Pending
      BY <1>1, <1>7 DEF ReadGuards, TypeOK
    <2> QED BY <2>1, <1>1, <1>2, <1>4, <1>5, <1>7 DEF Sound, HasRead, Progress, Before
  <1>8. CASE GuardError(Snapshot(c), cmd[c]) = OK /\ ~Scans(Snapshot(c), cmd[c])
    <2>1. Plans(c) BY <1>8 DEF ReadGuards
    <2> QED BY <1>1, <1>2, <1>8, <2>1, PlansKeeps
  <1> QED BY <1>6, <1>7, <1>8

\* Starting again, by a client whose last batch is known not to be applied.
LEMMA RetryKeeps ==
    ASSUME TypeOK, NEW c \in Client, Retry(c), Wrote(c) = {}, OnTheWay(c) = {},
           outcome[c] = Pending, cmd[c] \in Accepted, Told(c)' = {},
           UNCHANGED <<versions, author, wire, cmd>>
    PROVE  Sound(c)'
  <1>1. Alone(c) BY DEF Alone
  <1>2. Untouched(c)' /\ Serial(c)' BY <1>1, AloneStays
  <1>3. CASE retries[c] = MaxConflictRetries
    <2>1. pc'[c] = "over" /\ outcome'[c].kind = "refused"
      BY <1>3, EndsWith, RefusedKind DEF Retry
    <2> QED BY <2>1, <1>2 DEF Sound, HasRead, Progress, Ended, Before
  <1>4. CASE retries[c] # MaxConflictRetries
    <2>1. pc'[c] = "version" /\ outcome'[c] = Pending BY <1>4 DEF Retry, TypeOK
    <2> QED BY <2>1, <1>2 DEF Sound, HasRead, Progress, Before
  <1> QED BY <1>3, <1>4

LEMMA ScanCurrentKeeps ==
    ASSUME TypeOK, NEW c \in Client, Sound(c), ScanCurrent(c)
    PROVE  Sound(c)'
  <1>1. /\ pc[c] = "scan" /\ Untouched(c) /\ Told(c) = {} /\ outcome[c] = Pending
        /\ cmd[c] \in Accepted /\ GuardError(Snapshot(c), cmd[c]) = OK
    BY DEF ScanCurrent, Sound, Progress, HasRead, Before
  <1>2. UNCHANGED <<versions, author, wire, cmd, asOf, replies>> BY DEF ScanCurrent
  <1>3. Told(c)' = {} BY <1>1, <1>2 DEF Told
  <1>4. CASE Latest = asOf[c]
    <2>1. Plans(c) BY <1>4 DEF ScanCurrent
    <2> QED BY <1>1, <1>2, <2>1, PlansKeeps
  <1>5. CASE Latest # asOf[c]
    <2>1. Retry(c) BY <1>5 DEF ScanCurrent
    <2> QED BY <1>1, <1>2, <1>3, <2>1, RetryKeeps DEF Untouched
  <1> QED BY <1>4, <1>5

LEMMA SendKeeps ==
    ASSUME TypeOK, NEW c \in Client, Sound(c), Send(c)
    PROVE  Sound(c)'
  <1>1. /\ pc[c] = "write" /\ Untouched(c) /\ Told(c) = {} /\ outcome[c] = Pending
        /\ cmd[c] \in Accepted /\ asOf[c] \in 1 .. Latest /\ Cleared(Snapshot(c), cmd[c])
    BY DEF Send, Sound, Progress, HasRead, Before
  <1>2. UNCHANGED <<versions, author, cmd, asOf, replies>> BY DEF Send
  <1>3. /\ Wrote(c)' = {} /\ Told(c)' = {} /\ Latest' = Latest
        /\ Snapshot(c)' = Snapshot(c) /\ Batch(c)' = Batch(c)
    BY <1>1, <1>2 DEF Wrote, Told, Latest, Snapshot, Batch, Untouched
  <1>4. Serial(c)' BY <1>3 DEF Serial
  <1>5. CASE Actions(Snapshot(c), cmd[c]) = <<>>
    <2>1. Ends(c, Noop(asOf[c])) /\ wire' = wire BY <1>5 DEF Send
    <2>2. pc'[c] = "over" /\ outcome'[c] = Noop(asOf[c]) BY <2>1, EndsWith
    <2>3. outcome'[c].kind = "noop" /\ outcome'[c].at = asOf[c] BY <2>2 DEF Noop
    <2>4. Untouched(c)' BY <1>1, <1>3, <2>1 DEF Untouched, OnTheWay
    <2>5. versions'[outcome'[c].at] = Snapshot(c) BY <1>2, <2>3 DEF Snapshot
    <2>6. Ended(c)' BY <1>1, <1>2, <1>3, <1>5, <2>3, <2>4, <2>5 DEF Ended
    <2> QED BY <1>4, <2>2, <2>6 DEF Sound, HasRead, Progress, Before
  <1>6. CASE Actions(Snapshot(c), cmd[c]) # <<>>
    <2>1. /\ wire' = wire \cup {Batch(c)} /\ pc'[c] = "sent" /\ outcome'[c] = Pending
      BY <1>1, <1>6 DEF Send, TypeOK, Batch
    <2>2. OnTheWay(c)' = {Batch(c)}
      BY <1>1, <2>1 DEF OnTheWay, Untouched, Batch
    <2>3. OneBatch(c)' BY <1>3, <2>2 DEF OneBatch
    <2>4. HasRead(c)' BY <1>1, <1>2, <1>3, <2>1 DEF HasRead
    <2> QED BY <1>4, <2>1, <2>3, <2>4 DEF Sound, Progress, Before
  <1> QED BY <1>5, <1>6

LEMMA ReceiveKeeps ==
    ASSUME TypeOK, NEW c \in Client, Sound(c), Receive(c)
    PROVE  Sound(c)'
  <1>1. /\ pc[c] = "sent" /\ outcome[c] = Pending /\ OneBatch(c) /\ cmd[c] \in Accepted
    BY DEF Receive, Sound, Progress, HasRead
  <1>2. UNCHANGED <<versions, author, wire, cmd, asOf>> BY DEF Receive
  <1>3. PICK r \in replies : /\ r.to = c /\ replies' = replies \ {r}
                             /\ IF r.kind = "done" THEN Ends(c, Done(r.at)) ELSE Retry(c)
    BY DEF Receive
  <1>4. r \in Told(c) BY <1>3 DEF Told
  <1>5. Told(c) = {r} /\ OnTheWay(c) = {}
        /\ \/ r.kind = "conflict" /\ Wrote(c) = {}
           \/ r.kind = "done" /\ Wrote(c) = {r.at}
    BY <1>1, <1>4 DEF OneBatch
  <1>6. Told(c)' = {} BY <1>3, <1>5 DEF Told
  <1>7. CASE r.kind = "conflict"
    <2>1. Retry(c) BY <1>3, <1>7
    <2> QED BY <1>1, <1>2, <1>5, <1>6, <1>7, <2>1, RetryKeeps
  <1>8. CASE r.kind = "done"
    <2>1. pc'[c] = "over" /\ outcome'[c] = Done(r.at) BY <1>3, <1>8, EndsWith
    <2>2. outcome'[c].kind = "done" /\ outcome'[c].at = r.at BY <2>1 DEF Done
    <2>3. OnTheWay(c)' = {} /\ Wrote(c)' = {r.at}
      BY <1>2, <1>5, <1>8 DEF OnTheWay, Wrote
    <2>4. Ended(c)' BY <2>2, <2>3 DEF Ended
    <2>5. Serial(c)' BY <1>2 DEF Sound, Serial, Wrote, Latest
    <2> QED BY <2>1, <2>4, <2>5 DEF Sound, HasRead, Progress, Before
  <1> QED BY <1>5, <1>7, <1>8

LEMMA GiveUpKeeps ==
    ASSUME TypeOK, NEW c \in Client, Sound(c), GiveUp(c)
    PROVE  Sound(c)'
  <1>1. UNCHANGED <<versions, author, wire, cmd, asOf, replies>> BY DEF GiveUp
  <1>2. Serial(c)' BY <1>1 DEF Sound, Serial, Wrote, Latest
  <1>3. OnTheWay(c)' = OnTheWay(c) /\ Wrote(c)' = Wrote(c)
    BY <1>1 DEF OnTheWay, Wrote
  <1>4. CASE pc[c] = "sent"
    <2>1. Ends(c, Unknown) BY <1>4 DEF GiveUp
    <2>2. pc'[c] = "over" /\ outcome'[c].kind = "unknown" BY <2>1, EndsWith DEF Unknown
    <2>3. OneBatch(c) /\ cmd[c] \in Accepted /\ asOf[c] \in 1 .. Latest
          /\ Cleared(Snapshot(c), cmd[c])
      BY <1>4 DEF Sound, Progress, HasRead
    <2>4. Snapshot(c)' = Snapshot(c) /\ Batch(c)' = Batch(c) /\ Latest' = Latest
      BY <1>1 DEF Snapshot, Batch, Latest
    <2>5. \A v : Wrote(c) = {v} => v \in 1 .. Latest BY WroteVersions
    <2>6. LostBatch(c)' BY <1>1, <1>3, <2>3, <2>4, <2>5 DEF OneBatch, LostBatch
    <2> QED BY <1>2, <2>2, <2>6 DEF Sound, HasRead, Progress, Ended, Before
  <1>5. CASE pc[c] # "sent"
    <2>1. pc[c] \in Before BY <1>5 DEF GiveUp, Before
    <2>2. Ends(c, Refused("unread")) BY <1>5 DEF GiveUp
    <2>3. pc'[c] = "over" /\ outcome'[c].kind = "refused" BY <2>2, EndsWith, RefusedKind
    <2>4. Untouched(c)' BY <1>3, <2>1 DEF Sound, Progress, Untouched
    <2> QED BY <1>2, <2>3, <2>4 DEF Sound, HasRead, Progress, Ended, Before
  <1> QED BY <1>4, <1>5

-----------------------------------------------------------------------------
(* The server.                                                             *)

\* Only the batch of a client that waits for it, or gave up on it, is served.
LEMMA ServedBatch ==
    ASSUME TypeOK, NEW c \in Client, Sound(c), NEW m \in OnTheWay(c)
    PROVE  /\ m = Batch(c) /\ OnTheWay(c) = {m} /\ Wrote(c) = {}
           /\ cmd[c] \in Accepted /\ asOf[c] \in 1 .. Latest /\ Cleared(Snapshot(c), cmd[c])
           /\ \/ pc[c] = "sent" /\ outcome[c] = Pending /\ Told(c) = {}
              \/ pc[c] = "over" /\ outcome[c].kind = "unknown"
  <1>1. pc[c] \in Before \cup {"sent", "over"} BY DEF TypeOK
  <1>2. pc[c] \notin Before BY DEF Sound, Progress, Untouched
  <1>3. CASE pc[c] = "sent"
    <2>1. OneBatch(c) /\ outcome[c] = Pending BY <1>3 DEF Sound, Progress
    <2> QED BY <1>3, <2>1 DEF Sound, HasRead, OneBatch
  <1>4. CASE pc[c] = "over"
    <2>1. Ended(c) BY <1>4 DEF Sound, Progress
    <2>2. outcome[c].kind = "unknown" /\ LostBatch(c) BY <2>1 DEF Ended, Untouched
    <2> QED BY <1>4, <2>2 DEF LostBatch
  <1> QED BY <1>1, <1>2, <1>3, <1>4

LEMMA ServeKeepsOthers ==
    ASSUME TypeOK, TypeOK', NEW m \in wire, Serve(m), NEW c \in Client, Sound(c), m.from # c
    PROVE  Sound(c)'
  <1>1. UNCHANGED <<pc, cmd, asOf, outcome>> BY DEF Serve, client
  <1>2. OnTheWay(c)' = OnTheWay(c) BY DEF Serve, OnTheWay
  <1>3. Told(c)' = Told(c) BY DEF Serve, Answer, Told
  <1>4. Wrote(c)' = Wrote(c) /\ Grows
    <2>1. CASE m.expected = Latest BY <2>1, NewVersion DEF Serve
    <2>2. CASE m.expected # Latest BY <2>2, SameVersions DEF Serve
    <2> QED BY <2>1, <2>2
  <1>5. Unmoved(c) BY <1>1, <1>2, <1>3, <1>4 DEF Unmoved
  <1>6. Len(versions') \in Nat BY DEF TypeOK, Sequence
  <1> QED BY <1>4, <1>5, <1>6, UnmovedStaysSound

LEMMA ServeKeepsSender ==
    ASSUME TypeOK, TypeOK', NEW m \in wire, Serve(m), NEW c \in Client, Sound(c), m.from = c
    PROVE  Sound(c)'
  <1>0. Len(versions) \in Nat /\ Len(versions') \in Nat BY DEF TypeOK, Sequence
  <1>1. m \in OnTheWay(c) BY DEF OnTheWay
  <1>2. /\ m = Batch(c) /\ OnTheWay(c) = {m} /\ Wrote(c) = {}
        /\ cmd[c] \in Accepted /\ asOf[c] \in 1 .. Latest /\ Cleared(Snapshot(c), cmd[c])
        /\ \/ pc[c] = "sent" /\ outcome[c] = Pending /\ Told(c) = {}
           \/ pc[c] = "over" /\ outcome[c].kind = "unknown"
    BY <1>1, ServedBatch
  <1>3. UNCHANGED <<pc, cmd, asOf, outcome>> BY DEF Serve, client
  <1>4. OnTheWay(c)' = {} BY <1>2 DEF Serve, OnTheWay
  <1>5. Grows
    <2>1. CASE m.expected = Latest BY <2>1, NewVersion DEF Serve
    <2>2. CASE m.expected # Latest BY <2>2, SameVersions DEF Serve
    <2> QED BY <2>1, <2>2
  <1>6. /\ asOf'[c] \in 1 .. Latest' /\ Snapshot(c)' = Snapshot(c)
        /\ cmd'[c] \in Accepted /\ Cleared(Snapshot(c), cmd[c])'
    <2>1. asOf[c] \in 1 .. Len(versions') BY <1>0, <1>2, <1>5 DEF Grows, Latest
    <2>2. versions'[asOf[c]] = versions[asOf[c]] BY <1>2, <1>5 DEF Grows, Latest
    <2> QED BY <1>2, <1>3, <2>1, <2>2 DEF Snapshot, Latest
  <1>7. HasRead(c)' BY <1>2, <1>3, <1>6 DEF HasRead
  <1>8. CASE m.expected # Latest
    <2>1. Wrote(c)' = {} BY <1>2, <1>8, SameVersions DEF Serve
    <2>2. Serial(c)' BY <2>1 DEF Serial
    <2>3. CASE pc[c] = "sent"
      <3> DEFINE r == [to |-> m.from, kind |-> "conflict", at |-> Latest]
      <3>1. replies' = replies \cup {r} BY <1>8, <2>3 DEF Serve, Answer
      <3>2. r.to = c /\ r.kind = "conflict" OBVIOUS
      <3> HIDE DEF r
      <3>3. Told(c)' = {r} /\ r \in replies' BY <1>2, <2>3, <3>1, <3>2 DEF Told
      <3>4. OneBatch(c)' BY <1>4, <2>1, <3>2, <3>3 DEF OneBatch
      <3> QED BY <1>2, <1>3, <1>7, <2>2, <2>3, <3>4 DEF Sound, Progress, Before
    <2>4. CASE pc[c] = "over"
      <3>1. LostBatch(c)' BY <1>4, <1>6, <2>1 DEF LostBatch
      <3>2. Ended(c)' BY <1>2, <1>3, <2>4, <3>1 DEF Ended
      <3> QED BY <1>3, <1>7, <2>2, <2>4, <3>2 DEF Sound, Progress, Before
    <2> QED BY <1>2, <2>3, <2>4
  <1>9. CASE m.expected = Latest
    <2>1. asOf[c] = Latest /\ m.actions = Actions(Snapshot(c), cmd[c])
      BY <1>2, <1>9 DEF Batch
    <2>2. /\ Len(versions') = Len(versions) + 1
          /\ versions'[Len(versions) + 1] = ApplyActions(versions[Latest], m.actions)
          /\ Wrote(c)' = {Len(versions) + 1}
      BY <1>2, <1>9, NewVersion DEF Serve
    <2>3. Serial(c)'
      <3>1. Len(versions) + 1 \in 2 .. Latest' /\ (Len(versions) + 1) - 1 = asOf[c]
        BY <1>0, <1>2, <2>1, <2>2 DEF Latest
      <3>2. versions'[(Len(versions) + 1) - 1] = Snapshot(c)
        BY <1>3, <1>6, <3>1 DEF Snapshot
      <3>3. versions'[Len(versions) + 1] = ApplyActions(Snapshot(c), Actions(Snapshot(c), cmd[c]))
        BY <2>1, <2>2 DEF Snapshot
      <3> DEFINE v == Len(versions) + 1
      <3>4. /\ v \in 2 .. Latest' /\ cmd'[c] \in Accepted /\ Cleared(versions'[v - 1], cmd'[c])
            /\ versions'[v] = ApplyActions(versions'[v - 1], Actions(versions'[v - 1], cmd'[c]))
        BY <1>2, <1>3, <3>1, <3>2, <3>3
      <3>5. Wrote(c)' = {v} BY <2>2
      <3> HIDE DEF v
      <3> QED BY <3>4, <3>5 DEF Serial
    <2>4. CASE pc[c] = "sent"
      <3> DEFINE r == [to |-> m.from, kind |-> "done", at |-> Latest + 1]
      <3>1. replies' = replies \cup {r} BY <1>9, <2>4 DEF Serve, Answer
      <3>2. r.to = c /\ r.kind = "done" /\ r.at = Len(versions) + 1 BY DEF Latest
      <3> HIDE DEF r
      <3>3. Told(c)' = {r} /\ r \in replies' BY <1>2, <2>4, <3>1, <3>2 DEF Told
      <3>4. OneBatch(c)' BY <1>4, <2>2, <3>2, <3>3 DEF OneBatch
      <3> QED BY <1>2, <1>3, <1>7, <2>3, <2>4, <3>4 DEF Sound, Progress, Before
    <2>5. CASE pc[c] = "over"
      <3>1. Len(versions) + 1 \in 1 .. Latest' BY <1>0, <2>2 DEF Latest
      <3>2. LostBatch(c)' BY <1>4, <1>6, <2>2, <3>1 DEF LostBatch
      <3>3. Ended(c)' BY <1>2, <1>3, <2>5, <3>2 DEF Ended
      <3> QED BY <1>3, <1>7, <2>3, <2>5, <3>3 DEF Sound, Progress, Before
    <2> QED BY <1>2, <2>4, <2>5
  <1> QED BY <1>8, <1>9

LEMMA RawWriteKeeps ==
    ASSUME TypeOK, TypeOK', NEW batch \in RawBatches, RawWrite(batch),
           NEW c \in Client, Sound(c)
    PROVE  Sound(c)'
  <1>1. UNCHANGED <<pc, cmd, asOf, outcome, wire, replies>> BY DEF RawWrite, client
  <1>2. OnTheWay(c)' = OnTheWay(c) /\ Told(c)' = Told(c) BY <1>1 DEF OnTheWay, Told
  <1>3. c # "raw" BY SchemaAssumption
  <1>4. Wrote(c)' = Wrote(c) /\ Grows BY <1>3, NewVersion DEF RawWrite
  <1>5. Unmoved(c) BY <1>1, <1>2, <1>4 DEF Unmoved
  <1>6. Len(versions') \in Nat BY DEF TypeOK, Sequence
  <1> QED BY <1>4, <1>5, <1>6, UnmovedStaysSound

-----------------------------------------------------------------------------
(* Theorems.                                                               *)

\* The invariant: at every moment a client's batch is on its way once, refused,
\* or applied once, and what it carries was planned of one version.
THEOREM SchemaInvariant == Spec => []IInv
  <1>1. Init => IInv BY InitHolds
  <1>2. IInv /\ [Next]_vars => IInv'
    <2> SUFFICES ASSUME IInv, [Next]_vars PROVE IInv' OBVIOUS
    <2>1. TypeOK /\ TypeOK' BY TypesKept DEF IInv
    <2>2. ASSUME NEW c \in Client PROVE Sound(c)'
      <3>0. Sound(c) BY DEF IInv
      <3>1. ASSUME NEW e \in Client, Step(e) \/ GiveUp(e) PROVE Sound(c)'
        <4>1. CASE e = c
          <5>1. ASSUME NEW command \in Commands, Ask(c, command) PROVE Sound(c)'
            BY <2>1, <3>0, <5>1, AskKeeps
          <5>2. CASE ReadVersion(c) BY <2>1, <3>0, <5>2, ReadVersionKeeps
          <5>3. CASE ReadGuards(c) BY <2>1, <3>0, <5>3, ReadGuardsKeeps
          <5>4. CASE ScanCurrent(c) BY <2>1, <3>0, <5>4, ScanCurrentKeeps
          <5>5. CASE Send(c) BY <2>1, <3>0, <5>5, SendKeeps
          <5>6. CASE Receive(c) BY <2>1, <3>0, <5>6, ReceiveKeeps
          <5>7. CASE GiveUp(c) BY <2>1, <3>0, <5>7, GiveUpKeeps
          <5> QED BY <3>1, <4>1, <5>1, <5>2, <5>3, <5>4, <5>5, <5>6, <5>7 DEF Step
        <4>2. CASE e # c
          <5>1. Unmoved(c) BY <2>1, <3>1, <4>2, OthersUnmoved
          <5>2. UNCHANGED <<versions, author>>
            BY <3>1 DEF Step, GiveUp, Ask, ReadVersion, ReadGuards, ScanCurrent, Send, Receive
          <5>3. Grows BY <2>1, <5>2, SameVersions
          <5>4. Len(versions') \in Nat BY <2>1 DEF TypeOK, Sequence
          <5> QED BY <2>1, <3>0, <5>1, <5>3, <5>4, UnmovedStaysSound
        <4> QED BY <4>1, <4>2
      <3>2. ASSUME NEW m \in wire, Serve(m) PROVE Sound(c)'
        BY <2>1, <3>0, <3>2, ServeKeepsOthers, ServeKeepsSender
      <3>3. ASSUME NEW batch \in RawBatches, RawWrite(batch) PROVE Sound(c)'
        BY <2>1, <3>0, <3>3, RawWriteKeeps
      <3>4. CASE UNCHANGED vars
        <4>1. Unmoved(c) BY <3>4 DEF vars, client, Unmoved, Wrote, OnTheWay, Told
        <4>2. Grows BY <2>1, <3>4, SameVersions DEF vars
        <4>3. Len(versions') \in Nat BY <2>1 DEF TypeOK, Sequence
        <4> QED BY <2>1, <3>0, <4>1, <4>2, <4>3, UnmovedStaysSound
      <3> QED BY <3>1, <3>2, <3>3, <3>4 DEF Next
    <2> QED BY <2>1, <2>2 DEF IInv
  <1> QED BY <1>1, <1>2, PTL DEF Spec

\* Commands are serial: whatever other clients and programs write between the
\* requests of a command, a version it wrote is its whole plan applied to the
\* version before, at which its guards held.
THEOREM SerialTheorem == Spec => []CommitsAreSerial
  <1>1. IInv => CommitsAreSerial
    <2> SUFFICES ASSUME IInv, NEW c \in Client
                 PROVE  /\ \A v \in Wrote(c) :
                             /\ v > 1 /\ Guards(versions[v - 1], cmd[c])
                             /\ versions[v] = ApplyActions(versions[v - 1],
                                                  Actions(versions[v - 1], cmd[c]))
                        /\ outcome[c].kind = "noop" =>
                             /\ Guards(versions[outcome[c].at], cmd[c])
                             /\ Actions(versions[outcome[c].at], cmd[c]) = <<>>
      BY DEF CommitsAreSerial
    <2>1. Sound(c) BY DEF IInv
    <2>2. ASSUME NEW v \in Wrote(c)
          PROVE  /\ v > 1 /\ Guards(versions[v - 1], cmd[c])
                 /\ versions[v] = ApplyActions(versions[v - 1],
                                      Actions(versions[v - 1], cmd[c]))
      <3>1. /\ v \in 2 .. Latest /\ cmd[c] \in Accepted
            /\ Cleared(versions[v - 1], cmd[c])
            /\ versions[v] = ApplyActions(versions[v - 1], Actions(versions[v - 1], cmd[c]))
        BY <2>1 DEF Sound, Serial
      <3>2. Guards(versions[v - 1], cmd[c]) BY <3>1, GuardsHold DEF Cleared
      <3>3. v > 1 BY <3>1
      <3> QED BY <3>1, <3>2, <3>3
    <2>3. ASSUME outcome[c].kind = "noop"
          PROVE  /\ Guards(versions[outcome[c].at], cmd[c])
                 /\ Actions(versions[outcome[c].at], cmd[c]) = <<>>
      <3>1. pc[c] = "over"
        <4>1. pc[c] \in Before \cup {"sent", "over"} BY DEF IInv, TypeOK
        <4>2. Pending.kind = "pending" BY DEF Pending
        <4> QED BY <2>1, <2>3, <4>1, <4>2 DEF Sound, Progress
      <3>2. /\ cmd[c] \in Accepted /\ Cleared(versions[outcome[c].at], cmd[c])
            /\ Actions(versions[outcome[c].at], cmd[c]) = <<>>
        BY <2>1, <2>3, <3>1 DEF Sound, Progress, Ended
      <3> QED BY <3>2, GuardsHold DEF Cleared
    <2> QED BY <2>2, <2>3
  <1> QED BY <1>1, SchemaInvariant, PTL

\* What a client is told is what happened, and nothing of it happens twice,
\* although batches, answers and clients may be lost between any two steps.
THEOREM OutcomeTheorem == Spec => []OutcomesTruthful
  <1>1. IInv => OutcomesTruthful
    <2> SUFFICES ASSUME IInv, NEW c \in Client
                 PROVE  /\ Cardinality(Wrote(c)) <= 1
                        /\ outcome[c].kind = "done" => Wrote(c) = {outcome[c].at}
                        /\ outcome[c].kind \in {"refused", "noop"} => Wrote(c) = {}
                        /\ outcome[c].kind \in {"refused", "noop", "done"} =>
                              OnTheWay(c) = {}
      BY DEF OutcomesTruthful, OnTheWay
    <2>1. Sound(c) BY DEF IInv
    <2>2. pc[c] \in Before \cup {"sent", "over"} BY DEF IInv, TypeOK
    <2>3. Wrote(c) = {} \/ \E v : Wrote(c) = {v}
      <3>1. CASE pc[c] \in Before BY <2>1, <3>1 DEF Sound, Progress, Untouched
      <3>2. CASE pc[c] = "sent" BY <2>1, <3>2 DEF Sound, Progress, OneBatch
      <3>3. CASE pc[c] = "over"
        BY <2>1, <3>3 DEF Sound, Progress, Ended, Untouched, LostBatch
      <3> QED BY <2>2, <3>1, <3>2, <3>3
    <2>4. Cardinality(Wrote(c)) <= 1
      <3>1. CASE Wrote(c) = {} BY <3>1, FS_EmptySet
      <3>2. ASSUME NEW v, Wrote(c) = {v} PROVE Cardinality(Wrote(c)) <= 1
        BY <3>2, FS_Singleton
      <3> QED BY <2>3, <3>1, <3>2
    <2>5. CASE pc[c] # "over"
      <3>1. outcome[c].kind = "pending"
        BY <2>1, <2>2, <2>5 DEF Sound, Progress, Pending
      <3> QED BY <2>4, <3>1
    <2>6. CASE pc[c] = "over"
      <3>1. Ended(c) BY <2>1, <2>6 DEF Sound, Progress
      <3> QED BY <2>4, <3>1 DEF Ended, Untouched
    <2> QED BY <2>5, <2>6
  <1> QED BY <1>1, SchemaInvariant, PTL
================================================================================
