------------------------------ MODULE SchemaPlan ------------------------------
(***************************************************************************)
(* What the schema client (clients/bun/schema.mjs) turns a command into:   *)
(* the checks it makes before any request, and the batch of actions it     *)
(* plans from one snapshot of the database.                                *)
(*                                                                         *)
(* A snapshot d says how often each proposition is live: d[s][p][v].  An   *)
(* identity is [predicate, value], a field [predicate, values,             *)
(* cardinality, allowed] (allowed is AnyCurrent or a set), an update       *)
(* [identity, fields], a create [subject, identity, fields].  A command is *)
(* [kind, creates, updates, require]: kind "create" and "upsert" have one  *)
(* create, "replace" (replaceSingle) only its subject and one single       *)
(* field; "transact" stands for updateUnique, updateUniqueMany and         *)
(* transactUnique.                                                         *)
(***************************************************************************)
EXTENDS Integers, Sequences, FiniteSets, SequencesExt, FiniteSetsExt

CONSTANTS Subject, Predicate, Value,
          BatchActions      \* SCHEMA_MAX_BATCH_ACTIONS

ASSUME BatchActions \in Nat \ {0}

AnyCurrent == {"any current value"}
OK == "ok"

\* The first error of a sequence of checks, in the order they are made.
FirstError(checks) ==
    LET bad == {k \in DOMAIN checks : checks[k] # OK}
    IN  IF bad = {} THEN OK ELSE checks[Min(bad)]

Check(holds, code) == IF holds THEN OK ELSE code

Elements(s) == {s[k] : k \in DOMAIN s}
NoRepeats(s, f(_)) == \A j, k \in DOMAIN s : j # k => f(s[j]) # f(s[k])

-----------------------------------------------------------------------------
(* Normalisation: rejections that need no request.                         *)

DesiredActions(cmd) ==
    FoldSeq(LAMBDA c, n : n + 1 + Len(c.fields), 0, cmd.creates)
      + FoldSeq(LAMBDA u, n : n + FoldSeq(LAMBDA f, k : k + Len(f.values), 0, u.fields),
                0, cmd.updates)

\* normalizeCreateRecord(): the identity predicate is not a field, and a
\* predicate has one cardinality, one value when it is single.
CreateRecordError(c) ==
    FirstError(<<
        Check(Len(c.fields) + 1 <= BatchActions, "action-limit"),
        Check(\A k \in DOMAIN c.fields : c.fields[k].predicate # c.identity.predicate,
              "invalid-input"),
        Check(\A j, k \in DOMAIN c.fields :
                  c.fields[j].predicate = c.fields[k].predicate =>
                      /\ c.fields[j].cardinality = c.fields[k].cardinality
                      /\ c.fields[j].cardinality = "single" =>
                            c.fields[j].values = c.fields[k].values,
              "invalid-input")>>)

\* Equal fields of a create are asserted once.
DistinctFields(c) ==
    [c EXCEPT !.fields = FoldLeft(LAMBDA kept, f : IF f \in Elements(kept) THEN kept
                                                  ELSE Append(kept, f), <<>>, @)]

\* normalizeUpdateField() and normalizeUpdateManyInput().
UpdateError(u) ==
    FirstError(<<
        Check(u.fields # <<>>, "invalid-input"),
        Check(\A k \in DOMAIN u.fields :
                  /\ u.fields[k].cardinality = "single" => Len(u.fields[k].values) <= 1
                  /\ u.fields[k].predicate # u.identity.predicate, "invalid-input"),
        Check(NoRepeats(u.fields, LAMBDA f : f.predicate), "duplicate-update-target")>>)

DistinctValues(u) ==
    [u EXCEPT !.fields = [k \in DOMAIN u.fields |->
        [u.fields[k] EXCEPT !.values = FoldLeft(LAMBDA kept, v :
            IF v \in Elements(kept) THEN kept ELSE Append(kept, v), <<>>, @)]]]

\* Whether a field asserts an identity some create of the command plans.
AssertsPlanned(cmd, f) ==
    \E k \in DOMAIN cmd.creates : \E v \in Elements(f.values) :
        cmd.creates[k].identity = [predicate |-> f.predicate, value |-> v]

\* Mutant: a field that also asserts a planned identity is let through.
FieldsMayAssertPlanned(cmd) ==
    FirstError(<<
        Check(NoRepeats(cmd.creates, LAMBDA c : c.identity), "duplicate-identity"),
        Check(NoRepeats(cmd.creates, LAMBDA c : c.subject), "duplicate-create-subject"),
        Check(DesiredActions(cmd) <= BatchActions, "action-limit")>>)

\* normalizeUniqueTransaction(): what is checked across creates and updates.
AcrossError(cmd) ==
    FirstError(<<
        Check(cmd.creates # <<>> \/ cmd.updates # <<>>, "invalid-input"),
        Check(NoRepeats(cmd.creates, LAMBDA c : c.identity), "duplicate-identity"),
        Check(NoRepeats(cmd.creates, LAMBDA c : c.subject), "duplicate-create-subject"),
        Check(\A k \in DOMAIN cmd.creates : \A f \in Elements(cmd.creates[k].fields) :
                  ~AssertsPlanned(cmd, f), "duplicate-identity"),
        Check(\A k \in DOMAIN cmd.updates : \A f \in Elements(cmd.updates[k].fields) :
                  ~AssertsPlanned(cmd, f), "duplicate-identity"),
        Check(\A r \in cmd.require, k \in DOMAIN cmd.creates :
                  cmd.creates[k].identity = r.identity => cmd.creates[k].subject = r.subject,
              "required-identity-missing"),
        Check(DesiredActions(cmd) <= BatchActions, "action-limit")>>)

Normalised(cmd) ==
    [cmd EXCEPT !.creates = [k \in DOMAIN cmd.creates |-> DistinctFields(cmd.creates[k])],
                !.updates = [k \in DOMAIN cmd.updates |-> DistinctValues(cmd.updates[k])]]

InputError(cmd) ==
    CASE cmd.kind = "replace" -> OK
      [] cmd.kind \in {"create", "upsert"} -> CreateRecordError(cmd.creates[1])
      [] OTHER -> FirstError(
            [k \in DOMAIN cmd.creates |-> CreateRecordError(cmd.creates[k])]
            \o [k \in DOMAIN cmd.updates |-> UpdateError(cmd.updates[k])]
            \o <<AcrossError(Normalised(cmd))>>)

-----------------------------------------------------------------------------
(* Reads of one snapshot.                                                  *)

\* ownersAt(): the distinct subjects of an identity (the code stops at two).
Owners(d, id) == {s \in Subject : d[s][id.predicate][id.value] > 0}

\* valuesAt(): every live occurrence, equal ones too.
Current(d, s, p) ==
    FoldSet(LAMBDA v, out : out \o [k \in 1 .. d[s][p][v] |-> v], <<>>, Value)

TheOwner(d, id) == CHOOSE s \in Owners(d, id) : TRUE

\* requireUniqueAt()
RequireError(d, require) ==
    IF \E r \in require : Cardinality(Owners(d, r.identity)) > 1 THEN "duplicate-identity"
    ELSE Check(\A r \in require : Owners(d, r.identity) = {r.subject},
               "required-identity-missing")

\* rejectOwners() and requireSource()
CreateOwnersError(d, id) ==
    FirstError(<<Check(Cardinality(Owners(d, id)) <= 1, "duplicate-identity"),
                 Check(Owners(d, id) = {}, "identity-exists")>>)
SourceError(d, id) ==
    FirstError(<<Check(Cardinality(Owners(d, id)) <= 1, "duplicate-identity"),
                 Check(Owners(d, id) # {}, "identity-missing")>>)

\* resolveUpdates(): the cells the updates replace, once their owners are known.
Cells(d, cmd) ==
    FlattenSeq([k \in DOMAIN cmd.updates |->
        [j \in DOMAIN cmd.updates[k].fields |->
            [subject |-> TheOwner(d, cmd.updates[k].identity),
             field |-> cmd.updates[k].fields[j]]]])

CellsError(d, cmd) ==
    LET cells == Cells(d, cmd)
        cell(x) == <<x.subject, x.field.predicate>>
        lookups == {<<TheOwner(d, u.identity), u.identity.predicate>> : u \in Elements(cmd.updates)}
        created == UNION {{<<c.subject, p>> : p \in {c.identity.predicate}
                              \cup {f.predicate : f \in Elements(c.fields)}} :
                          c \in Elements(cmd.creates)}
    IN  FirstError(<<
            Check(\A x \in Elements(cells) : cell(x) \notin lookups, "invalid-input"),
            Check(NoRepeats(cells, cell), "duplicate-update-target"),
            Check(\A x \in Elements(cells) : cell(x) \notin created,
                  "duplicate-update-target")>>)

\* requirementsOutsideCreateSet(): a planned create satisfies its own guard.
Outside(cmd) ==
    {r \in cmd.require : \A k \in DOMAIN cmd.creates : cmd.creates[k].identity # r.identity}

\* Every check on identities, at the snapshot of the attempt.
GuardError(d, cmd) ==
    CASE cmd.kind = "replace" -> OK
      [] cmd.kind = "create" ->
            FirstError(<<CreateOwnersError(d, cmd.creates[1].identity),
                         RequireError(d, cmd.require)>>)
      [] cmd.kind = "upsert" ->
            FirstError(<<Check(Cardinality(Owners(d, cmd.creates[1].identity)) <= 1,
                               "duplicate-identity"),
                         RequireError(d, cmd.require)>>)
      [] OTHER ->
            LET owners == FirstError(
                    [k \in DOMAIN cmd.creates |-> CreateOwnersError(d, cmd.creates[k].identity)]
                    \o [k \in DOMAIN cmd.updates |-> SourceError(d, cmd.updates[k].identity)])
            IN  IF owners # OK THEN owners
                ELSE FirstError(<<CellsError(d, cmd), RequireError(d, Outside(cmd))>>)

-----------------------------------------------------------------------------
(* The batch.                                                              *)

Action(op, s, p, v) == [op |-> op, s |-> s, p |-> p, v |-> v]

Retractions(d, s, p) ==
    LET now == Current(d, s, p) IN [k \in DOMAIN now |-> Action("retract", s, p, now[k])]
Assertions(s, p, values) == [k \in DOMAIN values |-> Action("assert", s, p, values[k])]

CreateActions(c) ==
    <<Action("assert", c.subject, c.identity.predicate, c.identity.value)>>
    \o FlattenSeq([k \in DOMAIN c.fields |->
                      Assertions(c.subject, c.fields[k].predicate, c.fields[k].values)])

\* allowedCurrent: a compare-and-set on the field as it is.
AllowedCurrent(d, x) ==
    LET now == Elements(Current(d, x.subject, x.field.predicate))
        allowed == x.field.allowed
    IN  \/ allowed = AnyCurrent
        \/ x.field.cardinality = "multi" /\ now = allowed
        \/ x.field.cardinality = "single" /\ allowed = {} /\ now = {}
        \/ /\ x.field.cardinality = "single" /\ allowed # {}
           /\ Cardinality(now) = 1 /\ now \subseteq allowed

\* exactSingleNoop: one occurrence, already the wanted one (or none wanted).
ExactSingleNoop(d, x) ==
    /\ x.field.cardinality = "single"
    /\ Current(d, x.subject, x.field.predicate) = x.field.values

CellActions(d, x) ==
    IF ExactSingleNoop(d, x) THEN <<>>
    ELSE Retractions(d, x.subject, x.field.predicate)
         \o Assertions(x.subject, x.field.predicate, x.field.values)

\* The fields of an upsert whose identity has an owner: a single value is
\* replaced, a multi value is added.
UpsertActions(d, s, fields) ==
    FlattenSeq([k \in DOMAIN fields |->
        (IF fields[k].cardinality = "single" THEN Retractions(d, s, fields[k].predicate) ELSE <<>>)
        \o Assertions(s, fields[k].predicate, fields[k].values)])

Upserts(d, cmd) == cmd.kind = "upsert" /\ Owners(d, cmd.creates[1].identity) # {}

Actions(d, cmd) ==
    CASE cmd.kind = "replace" ->
            LET c == cmd.creates[1]
            IN  UpsertActions(d, c.subject, c.fields)
      [] Upserts(d, cmd) ->
            UpsertActions(d, TheOwner(d, cmd.creates[1].identity), cmd.creates[1].fields)
      [] OTHER ->
            FlattenSeq([k \in DOMAIN cmd.creates |-> CreateActions(cmd.creates[k])])
            \o FlattenSeq([k \in DOMAIN Cells(d, cmd) |-> CellActions(d, Cells(d, cmd)[k])])

\* Whether the plan needs the current values of some field, which only a scan
\* of the latest version gives.
Scans(d, cmd) ==
    \/ cmd.kind = "replace"
    \/ cmd.kind = "transact" /\ cmd.updates # <<>>
    \/ Upserts(d, cmd) /\ \E f \in Elements(cmd.creates[1].fields) : f.cardinality = "single"

\* appendUpdateActions() and enforceActionLimit().
PlanError(d, cmd) ==
    FirstError(<<
        Check(cmd.kind = "transact" =>
                \A x \in Elements(Cells(d, cmd)) : AllowedCurrent(d, x), "current-value-rejected"),
        Check(Len(Actions(d, cmd)) <= BatchActions, "action-limit")>>)

\* The server applies a batch in order; a retraction withdraws one occurrence.
ApplyActions(d, actions) ==
    FoldLeft(LAMBDA e, a : [e EXCEPT ![a.s][a.p][a.v] =
                 IF a.op = "assert" THEN @ + 1 ELSE IF @ > 0 THEN @ - 1 ELSE 0],
             d, actions)
=============================================================================
