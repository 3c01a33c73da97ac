----------------------------- MODULE SchemaClient -----------------------------
(***************************************************************************)
(* Concurrent schema clients (clients/bun/schema.mjs) of one database.     *)
(* A command reads a version, checks its guards by queries at exactly that *)
(* version, scans the fields it replaces at whatever version is served,    *)
(* and sends one batch that names the version as expected.  A scan of      *)
(* another version and a typed conflict start the command again.  The      *)
(* server is external: it keeps every version and applies a batch when the *)
(* expected version is the latest.  Requests and answers may be lost, and  *)
(* a request whose client gave up may still be served.                     *)
(*                                                                         *)
(* The pages of one read are one step: a continuation stays on the version *)
(* of its first page.                                                      *)
(***************************************************************************)
EXTENDS SchemaPlan

CONSTANTS Client,
          Commands,         \* what the clients may ask for, one command each
          RawBatches,       \* batches other programs may write
          MaxConflictRetries,
          MaxDisturbances   \* raw writes and lost requests, a bound of this model

ASSUME SchemaAssumption ==
    /\ MaxConflictRetries \in Nat /\ IsFiniteSet(Subject)
    /\ "nobody" \notin Client /\ "raw" \notin Client

\* What the client's functions take: only a transaction has several records.
ASSUME CommandsAssumption ==
    \A k \in Commands :
        /\ k = [kind |-> k.kind, creates |-> k.creates, updates |-> k.updates,
                require |-> k.require]
        /\ k.kind \in {"create", "upsert", "replace", "transact"}
        /\ k.creates \in Seq(Elements(k.creates)) /\ k.updates \in Seq(Elements(k.updates))
        /\ \A c \in Elements(k.creates) :
              c = [subject |-> c.subject, identity |-> c.identity, fields |-> c.fields]
        /\ \A u \in Elements(k.updates) : u = [identity |-> u.identity, fields |-> u.fields]
        /\ k.kind # "transact" => Len(k.creates) = 1 /\ k.updates = <<>>
        /\ k.kind = "replace" => k.require = {}

VARIABLES versions,         \* the database after each transaction
          author,           \* who wrote each version (history)
          pc, cmd, asOf, retries, outcome,
          wire,             \* batches sent and not served yet
          replies,          \* answers not received yet
          disturbances      \* how many so far

client == <<pc, cmd, asOf, retries, outcome>>
vars == <<versions, author, client, wire, replies, disturbances>>

NoCommand == [kind |-> "none"]
Latest == Len(versions)
EmptyDatabase == [s \in Subject |-> [p \in Predicate |-> [v \in Value |-> 0]]]

Pending == [kind |-> "pending", at |-> 0]
Refused(code) == [kind |-> "refused", at |-> 0, code |-> code]
Unknown == [kind |-> "unknown", at |-> 0]
Done(at) == [kind |-> "done", at |-> at]
Noop(at) == [kind |-> "noop", at |-> at]

Init ==
    /\ versions = <<EmptyDatabase>> /\ author = <<"nobody">>
    /\ pc = [c \in Client |-> "idle"]
    /\ cmd = [c \in Client |-> NoCommand]
    /\ asOf = [c \in Client |-> 0]
    /\ retries = [c \in Client |-> 0]
    /\ outcome = [c \in Client |-> Pending]
    /\ wire = {} /\ replies = {}
    /\ disturbances = 0

Disturb ==
    /\ disturbances < MaxDisturbances
    /\ disturbances' = disturbances + 1

Ends(c, result) ==
    /\ pc' = [pc EXCEPT ![c] = "over"]
    /\ outcome' = [outcome EXCEPT ![c] = result]

Snapshot(c) == versions[asOf[c]]

\* The command is normalised before the first request.
Ask(c, command) ==
    /\ pc[c] = "idle"
    /\ cmd' = [cmd EXCEPT ![c] = Normalised(command)]
    /\ IF InputError(command) # OK
       THEN Ends(c, Refused(InputError(command)))
       ELSE pc' = [pc EXCEPT ![c] = "version"] /\ UNCHANGED outcome
    /\ UNCHANGED <<versions, author, asOf, retries, wire, replies, disturbances>>

\* retrying(): every attempt starts from the latest version.
ReadVersion(c) ==
    /\ pc[c] = "version"
    /\ asOf' = [asOf EXCEPT ![c] = Latest]
    /\ pc' = [pc EXCEPT ![c] = "guards"]
    /\ UNCHANGED <<versions, author, cmd, retries, outcome, wire, replies, disturbances>>

\* Snapshot skew and typed conflicts are retried, up to the limit.
Retry(c) ==
    /\ IF retries[c] = MaxConflictRetries
       THEN Ends(c, Refused("conflict-exhausted")) /\ UNCHANGED retries
       ELSE /\ retries' = [retries EXCEPT ![c] = @ + 1]
            /\ pc' = [pc EXCEPT ![c] = "version"]
            /\ UNCHANGED outcome

\* The plan is made, or refused by the values it would replace.
Plans(c) ==
    IF PlanError(Snapshot(c), cmd[c]) # OK
    THEN Ends(c, Refused(PlanError(Snapshot(c), cmd[c])))
    ELSE pc' = [pc EXCEPT ![c] = "write"] /\ UNCHANGED outcome

\* Identity queries, at the version of the attempt.
ReadGuards(c) ==
    /\ pc[c] = "guards"
    /\ IF GuardError(Snapshot(c), cmd[c]) # OK
       THEN Ends(c, Refused(GuardError(Snapshot(c), cmd[c])))
       ELSE IF Scans(Snapshot(c), cmd[c])
       THEN pc' = [pc EXCEPT ![c] = "scan"] /\ UNCHANGED outcome
       ELSE Plans(c)
    /\ UNCHANGED <<versions, author, cmd, asOf, retries, wire, replies, disturbances>>

\* Mutant: whatever version the scan serves is planned with.
ScanAnyVersion(c) ==
    /\ pc[c] = "scan"
    /\ asOf' = [asOf EXCEPT ![c] = Latest]
    /\ pc' = [pc EXCEPT ![c] = "write"]
    /\ UNCHANGED <<versions, author, cmd, retries, outcome, wire, replies, disturbances>>

\* A scan names no version; one that serves another than asOf is a skew.
ScanCurrent(c) ==
    /\ pc[c] = "scan"
    /\ IF Latest = asOf[c] THEN Plans(c) /\ UNCHANGED retries ELSE Retry(c)
    /\ UNCHANGED <<versions, author, cmd, asOf, wire, replies, disturbances>>

\* commit(): an empty plan is answered without a request.
Send(c) ==
    /\ pc[c] = "write"
    /\ LET actions == Actions(Snapshot(c), cmd[c])
       IN  IF actions = <<>>
           THEN Ends(c, Noop(asOf[c])) /\ UNCHANGED wire
           ELSE /\ wire' = wire \cup {[from |-> c, expected |-> asOf[c], actions |-> actions]}
                /\ pc' = [pc EXCEPT ![c] = "sent"]
                /\ UNCHANGED outcome
    /\ UNCHANGED <<versions, author, cmd, asOf, retries, replies, disturbances>>

\* Nobody waits for the answer of a batch whose client gave up.
Answer(c, r) == replies' = IF pc[c] = "sent" THEN replies \cup {r} ELSE replies

\* The server takes a batch: a compare-and-set on the version.
Serve(m) ==
    /\ m \in wire
    /\ wire' = wire \ {m}
    /\ IF m.expected = Latest
       THEN /\ versions' = Append(versions, ApplyActions(versions[Latest], m.actions))
            /\ author' = Append(author, m.from)
            /\ Answer(m.from, [to |-> m.from, kind |-> "done", at |-> Latest + 1])
       ELSE /\ Answer(m.from, [to |-> m.from, kind |-> "conflict", at |-> Latest])
            /\ UNCHANGED <<versions, author>>
    /\ UNCHANGED <<client, disturbances>>

\* Mutant: any failure of the batch is tried again.
GiveUpRetries(c) ==
    /\ Disturb
    /\ pc[c] \in {"version", "guards", "scan", "sent"}
    /\ Retry(c)
    /\ UNCHANGED <<versions, author, cmd, asOf, wire, replies>>

Receive(c) ==
    /\ pc[c] = "sent"
    /\ \E r \in replies :
         /\ r.to = c
         /\ replies' = replies \ {r}
         /\ IF r.kind = "done" THEN Ends(c, Done(r.at)) /\ UNCHANGED retries ELSE Retry(c)
    /\ UNCHANGED <<versions, author, cmd, asOf, wire, disturbances>>

\* A transport failure is thrown, never retried: a read has no effect, a batch
\* may or may not be applied, now or later.
GiveUp(c) ==
    /\ Disturb
    /\ pc[c] \in {"version", "guards", "scan", "sent"}
    /\ Ends(c, IF pc[c] = "sent" THEN Unknown ELSE Refused("unread"))
    /\ UNCHANGED <<versions, author, cmd, asOf, retries, wire, replies>>

\* A program that writes without the schema client.
RawWrite(batch) ==
    /\ Disturb
    /\ versions' = Append(versions, ApplyActions(versions[Latest], batch))
    /\ author' = Append(author, "raw")
    /\ UNCHANGED <<client, wire, replies>>

Step(c) ==
    \/ \E command \in Commands : Ask(c, command)
    \/ ReadVersion(c) \/ ReadGuards(c) \/ ScanCurrent(c) \/ Send(c) \/ Receive(c)

Next ==
    \/ \E c \in Client : Step(c) \/ GiveUp(c)
    \/ \E m \in wire : Serve(m)
    \/ \E batch \in RawBatches : RawWrite(batch)

Spec == Init /\ [][Next]_vars

-----------------------------------------------------------------------------
(* What a command promises, without how it is done.                        *)

Wrote(c) == {v \in DOMAIN author : author[v] = c}

OneOf(d, s, p, values) == \A v \in Value : d[s][p][v] = IF v \in Elements(values) THEN 1 ELSE 0

\* The state a command was applied to satisfied its guards.
Guards(before, k) ==
    /\ \A r \in k.require :
         \/ Owners(before, r.identity) = {r.subject}
         \/ \E n \in DOMAIN k.creates :
              k.creates[n].identity = r.identity /\ k.creates[n].subject = r.subject
    /\ k.kind \in {"create", "transact"} =>
         \A n \in DOMAIN k.creates : Owners(before, k.creates[n].identity) = {}
    /\ \A n \in DOMAIN k.updates : Cardinality(Owners(before, k.updates[n].identity)) = 1
    /\ k.kind = "upsert" => Cardinality(Owners(before, k.creates[1].identity)) <= 1

\* What it left behind: its identities have one owner, the fields it replaced
\* hold exactly the wanted values, once, and no other field changed.
Effects(before, after, k) ==
    LET creating == k.kind \in {"create", "transact"} \/ (k.kind = "upsert" /\ ~Upserts(before, k))
        owner(n) == IF k.kind = "upsert" /\ Upserts(before, k)
                    THEN TheOwner(before, k.creates[n].identity) ELSE k.creates[n].subject
        touched ==
            UNION {{<<owner(n), p>> : p \in {k.creates[n].identity.predicate}
                        \cup {f.predicate : f \in Elements(k.creates[n].fields)}} :
                   n \in DOMAIN k.creates}
            \cup UNION {{<<TheOwner(before, k.updates[n].identity), f.predicate>> :
                             f \in Elements(k.updates[n].fields)} : n \in DOMAIN k.updates}
    IN  /\ k.kind # "replace" =>
             \A n \in DOMAIN k.creates : Owners(after, k.creates[n].identity) = {owner(n)}
        /\ ~creating => \A n \in DOMAIN k.creates : \A f \in Elements(k.creates[n].fields) :
             f.cardinality = "single" => OneOf(after, owner(n), f.predicate, f.values)
        /\ creating => \A n \in DOMAIN k.creates : \A f \in Elements(k.creates[n].fields) :
             \A v \in Elements(f.values) : after[owner(n)][f.predicate][v] > 0
        /\ \A n \in DOMAIN k.updates : \A f \in Elements(k.updates[n].fields) :
             OneOf(after, TheOwner(before, k.updates[n].identity), f.predicate, f.values)
        /\ \A s \in Subject, p \in Predicate :
             <<s, p>> \notin touched => after[s][p] = before[s][p]

\* Commands are serial: every version a command wrote is its whole plan applied
\* to the version just before it, and its guards held there, although it read
\* them one by one while others wrote; an answer without a batch is a version
\* whose guards held and for which nothing was planned.
CommitsAreSerial ==
    \A c \in Client :
        /\ \A v \in Wrote(c) :
              /\ v > 1 /\ Guards(versions[v - 1], cmd[c])
              /\ versions[v] = ApplyActions(versions[v - 1], Actions(versions[v - 1], cmd[c]))
        /\ outcome[c].kind = "noop" =>
              /\ Guards(versions[outcome[c].at], cmd[c])
              /\ Actions(versions[outcome[c].at], cmd[c]) = <<>>

\* The fields a command replaces hold what it asked for in the version it wrote,
\* also where other programs left duplicates, and nothing else changed; where it
\* wrote nothing they held it already.  And an identity that some command
\* creates or looks up never has two owners.
CommitsMeetContract ==
    /\ \A c \in Client :
          /\ \A v \in Wrote(c) : Effects(versions[v - 1], versions[v], cmd[c])
          /\ outcome[c].kind = "noop" =>
                Effects(versions[outcome[c].at], versions[outcome[c].at], cmd[c])
    /\ \A k \in Commands :
          /\ k.kind # "replace" => \A n \in DOMAIN k.creates :
                Cardinality(Owners(versions[Latest], k.creates[n].identity)) <= 1
          /\ \A n \in DOMAIN k.updates :
                Cardinality(Owners(versions[Latest], k.updates[n].identity)) <= 1

\* What a client is told is what happened: success names the one version it
\* wrote, an error (retries used up, a guard, an unread snapshot) and an answer
\* without a batch mean that the database was not touched and will not be, and
\* only a lost batch leaves that open.  No command is ever applied twice.
OutcomesTruthful ==
    \A c \in Client :
        /\ Cardinality(Wrote(c)) <= 1
        /\ outcome[c].kind = "done" => Wrote(c) = {outcome[c].at}
        /\ outcome[c].kind \in {"refused", "noop"} => Wrote(c) = {}
        /\ outcome[c].kind \in {"refused", "noop", "done"} => \A m \in wire : m.from # c
=============================================================================
