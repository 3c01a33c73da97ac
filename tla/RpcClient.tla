------------------------------- MODULE RpcClient -------------------------------
(***************************************************************************)
(* One FRAMRPC call from an application to the engine and back, over the   *)
(* three routes of the JavaScript clients:                                 *)
(*   tcp     the Bun client over its own socket (clients/bun/framrpc.mjs), *)
(*   object  the same client over Durable Object RPC                       *)
(*           (clients/cloudflare-do, framDurableObjectTransport, exchange),*)
(*   worker  the JSON client of a Worker over the HTTP shim                *)
(*           (deploy/cloudflare/worker-client.js and shim.clj).            *)
(* Calls of one client run at once and share its request ids.  An answer   *)
(* may come in pieces, late, cut short, spoiled or not at all; the caller  *)
(* may abort.  Frames are built and read by the Term codec of WireTerm.    *)
(***************************************************************************)
EXTENDS WireTerm, Functions

CONSTANTS Call, Asks,         \* calls, and what they ask
          Engine,             \* who serves them: "jvm", "native" or "object"
          MaxBatchActions,    \* FRAMRPC_MAX_BATCH_ACTIONS
          MaxBody,            \* units of the longest body
          MaxRequestId,       \* I64_MAX
          MaxFaults           \* spoiled or lost answers

\* A server is reached over its socket or behind the shim, an object by RPC.
RoutesTo(engine) == IF engine = "object" THEN {"object"} ELSE {"tcp", "worker"}

ASSUME RpcAssumption ==
    /\ Engine \subseteq {"jvm", "native", "object"}
    /\ MaxBatchActions \in Nat /\ MaxBody \in Nat
    /\ MaxRequestId \in Nat \ {0} /\ MaxFaults \in Nat

VARIABLES nextRequestId, \* of the client the tcp and object calls share
          call,          \* each call
          peer,          \* what its server, object or shim has
          engine,        \* who serves, or "stopped"
          facts,         \* the engine's live propositions, in the order written
          version,       \* the engine's served version
          faults,
          meant          \* history: what the engine did and answered

vars == <<nextRequestId, call, peer, engine, facts, version, faults, meant>>

Space == "space"
NoAsk == [op |-> "none", facts |-> <<>>, expected |-> -1, asOf |-> FALSE, sum |-> FALSE]
Pending == [kind |-> "pending", error |-> "none", version |-> "", result |-> <<>>]
NoStream == [head |-> "ok", id |-> 0, declared |-> 0, units |-> <<>>, ended |-> FALSE]
Nothing == [did |-> "nothing", error |-> "none", version |-> -1, result |-> <<>>]

Init ==
    /\ nextRequestId = 1
    /\ call = [c \in Call |-> [pc |-> "idle", ask |-> NoAsk, route |-> "none", id |-> 0,
                               received |-> 0, outcome |-> Pending]]
    /\ peer = [c \in Call |-> [state |-> "none", stream |-> NoStream]]
    /\ engine \in Engine /\ facts = <<>> /\ version = 0 /\ faults = 0
    /\ meant = [c \in Call |-> Nothing]

-----------------------------------------------------------------------------
(* The requests: payloads, checks and encoding.                            *)

Mutations == {"rpc/assert", "rpc/retract", "rpc/batch", "rpc/lease-acquire"}

Policy == KeywordTerm("rpc/subject-any")

ActionPayload(fact) ==
    RpcRecord("rpc/action", <<KeywordTerm("rpc/assert"), fact, Policy>>)

QuerySnapshot(a) ==
    IF a.asOf THEN RpcRecord("query/as-of", <<IntegerTerm(0)>>)
    ELSE KeywordTerm("query/current")

\* lowerQueryPlan(): find, strata, order and limit; what is in the find and the
\* strata is left out.  The Worker client's tripleQuery() stops after the strata.
QueryPlan(route) ==
    RpcRecord("query/plan",
        <<KeywordTerm("find"), KeywordTerm("strata")>>
        \o (IF route = "worker" THEN <<>> ELSE <<RpcList(<<>>), None>>))

Payload(a, route) ==
    CASE a.op = "rpc/assert" -> RpcRecord("rpc/write", <<a.facts[1], Policy, None>>)
      [] a.op = "rpc/batch" ->
            RpcRecord("rpc/batch", <<RpcList([k \in DOMAIN a.facts |-> ActionPayload(a.facts[k])]),
                                     None>>)
      [] a.op = "rpc/lease-acquire" ->
            RpcRecord("lease/acquire", <<a.facts[1], StringTerm("holder"), IntegerTerm(1)>>)
      [] a.op = "rpc/scan" -> RpcRecord("rpc/triple-pattern", <<None, None, None>>)
      [] a.op = "rpc/query" -> RpcRecord("query/request", <<QueryPlan(route), QuerySnapshot(a)>>)
      [] OTHER -> KeywordTerm("rpc/unit")

Controls(a) ==
    (IF a.expected = -1 THEN <<Unit("presence", "0")>>
     ELSE <<Unit("presence", "1"), Unit("i64", ToString(a.expected))>>)
    \o <<Unit("presence", "0"), Unit("presence", "0")>>

RequestBody(a) ==
    Encode(StringTerm(Space)) \o Encode(KeywordTerm(a.op)) \o Controls(a) \o Encode(Payload(a, "tcp"))

\* encodeRequest(): the space, the operation and the payload share one budget.
EncodeError(a) ==
    IF ~ValidTerm(Payload(a, "tcp"), 2) THEN "client/term"
    ELSE IF Len(RequestBody(a)) > MaxBody THEN "client/frame-too-large"
    ELSE "none"

\* prepareBatch(), which only the Bun client has.
BatchError(a) ==
    IF a.op = "rpc/batch" /\ (a.facts = <<>> \/ Len(a.facts) > MaxBatchActions)
    THEN "client/action-limit" ELSE "none"

\* The Worker client checks its Terms only; the JSON limit is the shim's.
RequestError(a, route) ==
    IF route = "worker" THEN (IF ValidTerm(Payload(a, route), 0) THEN "none" ELSE "term")
    ELSE IF BatchError(a) # "none" THEN BatchError(a) ELSE EncodeError(a)

\* operationEntry() of the client.
OperationEntry(a) ==
    IF a.op \in Mutations THEN "transact"
    ELSE IF a.op = "rpc/occurrences" \/ (a.op = "rpc/query" /\ a.asOf) THEN "snapshot"
    ELSE "query"

\* framRpcEntry() and entryAccepts() of the object, written apart from it.
FramRpcEntry(op) ==
    CASE op = "rpc/checkpoint" -> "operator"
      [] op \in Mutations -> "transact"
      [] op = "rpc/occurrences" -> "snapshot"
      [] OTHER -> "query"

EntryAccepts(op, entry) ==
    IF op = "rpc/query" THEN entry \in {"query", "snapshot"} ELSE FramRpcEntry(op) = entry

\* exchange(): the operation and its entry; the envelope is the client's own.
Exchanges(a) == a.op # "rpc/checkpoint" /\ EntryAccepts(a.op, OperationEntry(a))

\* The paths of the Worker client and the operations the shim allows on them.
PathOf(op) == IF op \in Mutations THEN "/assert" ELSE "/q"
AllowedOps == [path \in {"/q", "/assert"} |->
    IF path = "/assert" THEN Mutations
    ELSE {"rpc/version", "rpc/scan", "rpc/query", "rpc/occurrences"}]

-----------------------------------------------------------------------------
(* The engine: dispatch, the predicted response and its encoding.          *)

\* An operation's coordinate: its transaction's, then its ordinal.
Coordinate(seq, ordinal) ==
    Triple(Triple(StringTerm(Space), KeywordTerm("kernel/tx-sequence"), IntegerTerm(seq)),
           KeywordTerm("kernel/op-ordinal"), IntegerTerm(ordinal))

MutationResult(seq, n) ==
    RpcRecord("rpc/mutation-result",
        <<RpcList([k \in 1 .. n |-> RpcRecord("rpc/action-result",
              <<IntegerTerm(k - 1), BooleanTerm(TRUE), Coordinate(seq, k - 1)>>)])>>)

\* A grant is deeper than its request: the resource is inside the fence.
GrantResult(seq, resource) ==
    RpcRecord("lease/grant",
        <<RpcRecord("rpc/fence", <<resource, StringTerm("holder"), IntegerTerm(seq)>>),
          Atom("instant", "expires")>>)

\* What a mutation adds; a lease is a fact about its resource.
Written(a) ==
    IF a.op # "rpc/lease-acquire" THEN a.facts
    ELSE <<Triple(a.facts[1], KeywordTerm("kernel/lease"),
                  Triple(StringTerm("holder"), KeywordTerm("kernel/expires-at"), IntegerTerm(1)))>>

\* sum-values of the floats "a" is: a NaN among them stays, and the two
\* infinities leave the NaN of the machine.
SumValues(floats, nan) ==
    IF {"+inf", "-inf"} \subseteq floats THEN nan
    ELSE IF CanonicalNaN \in floats THEN CanonicalNaN
    ELSE CHOOSE text \in floats : TRUE

\* The rows of a query: of the facts, or the one row of a sum.
QueryRows(a, nan) ==
    LET floats == {f.parts[3].text : f \in {g \in Range(facts) : g.parts[1] = StringTerm("a")}}
    IN  IF a.asOf \/ (a.sum /\ floats = {}) THEN <<>>
        ELSE IF a.sum THEN <<Atom("float64", SumValues(floats, nan))>>
        ELSE facts

ReadResult(a, nan) ==
    CASE a.op = "rpc/scan" -> RpcRecord("rpc/triples", <<RpcList(facts)>>)
      [] a.op = "rpc/query" ->
            LET rows == QueryRows(a, nan) IN
            RpcRecord("query/rows", <<RpcList([k \in DOMAIN rows |->
                RpcRecord("query/row", <<RpcList(<<rows[k]>>)>>)])>>)
      [] OTHER -> KeywordTerm("rpc/unit")

Predicted(a, nan) ==
    IF a.op = "rpc/lease-acquire" THEN GrantResult(version + 1, a.facts[1])
    ELSE IF a.op \in Mutations THEN MutationResult(version + 1, Len(a.facts))
    ELSE ReadResult(a, nan)

\* The NaNs a codec writes: the JVM's is canonical, the native codec writes the
\* bits it has.
EncodedNaNs == IF engine = "jvm" THEN {CanonicalNaN} ELSE {CanonicalNaN, OtherNaN}

\* parse-query-plan!: every server wants the four fields.
PlanParses(a, route) ==
    a.op # "rpc/query" \/ RecordFields(QueryPlan(route), "query/plan", 4).ok

\* Mutant: a mutation's response is not predicted.
Unpredicted(a, route) ==
    IF a.expected # -1 /\ a.expected # version THEN "rpc/conflict"
    ELSE IF ~PlanParses(a, route) THEN "rpc-invalid-record"
    ELSE "none"

\* The version first, then the payload and its limits.  A mutation whose answer
\* could not be encoded is refused before anything is written; an unpaged
\* query is bounded by its rows.
Refusal(a, route) ==
    IF a.expected # -1 /\ a.expected # version THEN "rpc/conflict"
    ELSE IF ~PlanParses(a, route) THEN "rpc-invalid-record"
    ELSE IF \/ a.op = "rpc/batch" /\ Len(a.facts) > MaxBatchActions
            \/ a.op \in Mutations /\ ~Fits(Predicted(a, CanonicalNaN), 2)
            \/ a.op = "rpc/query" /\ Len(QueryRows(a, CanonicalNaN)) > MaxDepth - 8
    THEN "term-depth-exceeded" ELSE "none"

\* write-rpc-frame! answers with the encoder's own error instead; elsewhere a
\* response that does not encode fails the dispatch.
Encodes(a, error) == error # "none" \/ Fits(Predicted(a, CanonicalNaN), 2)
ErrorSent(a, error) == IF Encodes(a, error) THEN error ELSE "term-depth-exceeded"

Response(a, served, error, payload) ==
    Encode(StringTerm(Space)) \o Encode(KeywordTerm(a.op))
    \o <<Unit("i64", ToString(served)), Unit("presence", "0")>>
    \o (IF error = "none" THEN <<Unit("presence", "0"), Unit("presence", "1")>> \o Encode(payload)
        ELSE <<Unit("presence", "1")>> \o Encode(KeywordTerm(error))
             \o <<Unit("bool", IF error = "rpc/conflict" THEN "1" ELSE "0")>>
             \o Encode(StringTerm("message")) \o <<Unit("presence", "0"), Unit("presence", "0")>>)

\* One request runs whole, under the server's lock.  A dispatch that fails is
\* an exchange error to the embedded engine and the end of the native server,
\* with everything it has not answered.
Serve(c) == \E nan \in EncodedNaNs :
    LET a      == call[c].ask
        error  == Refusal(a, call[c].route)
        sent   == ErrorSent(a, error)
        writes == error = "none" /\ a.op \in Mutations
        served == IF a.op = "rpc/query" /\ a.asOf /\ error = "none" THEN 0
                  ELSE IF writes THEN version + 1 ELSE version
        result == Predicted(a, nan)
        body   == Response(a, served, sent, result)
    IN  /\ peer[c].state = "asked" /\ engine # "stopped"
        /\ version' = IF writes THEN version + 1 ELSE version
        /\ facts' = IF writes THEN facts \o Written(a) ELSE facts
        /\ IF engine # "jvm" /\ ~Encodes(a, error)
           THEN /\ meant' = [meant EXCEPT ![c].did = "failed"]
                /\ engine' = IF engine = "native" THEN "stopped" ELSE engine
                /\ peer' = [d \in Call |->
                      IF d = c \/ (engine = "native" /\ peer[d].state = "asked")
                      THEN [peer[d] EXCEPT !.state = "lost"] ELSE peer[d]]
           ELSE /\ meant' = [meant EXCEPT ![c] =
                      [did |-> IF writes THEN "wrote" ELSE "read", error |-> sent, version |-> served,
                       result |-> IF sent = "none" THEN <<result>> ELSE <<>>]]
                /\ peer' = [peer EXCEPT ![c] = [state |-> "answered",
                      stream |-> [head |-> "ok", id |-> call[c].id, declared |-> Len(body),
                                  units |-> body, ended |-> FALSE]]]
                /\ UNCHANGED engine
        /\ UNCHANGED <<nextRequestId, call, faults>>

-----------------------------------------------------------------------------
(* Reading the answer.                                                     *)

HeaderUnits == 2

\* What a record means to the caller: each decoder checks its own shape.
ResultError(op, payload) ==
    LET tag == CASE op = "rpc/lease-acquire" -> "lease/grant"
                 [] op \in Mutations -> "rpc/mutation-result"
                 [] op = "rpc/scan" -> "rpc/triples"
                 [] op = "rpc/query" -> "query/rows"
                 [] OTHER -> "none"
        fields == RecordFields(payload, tag, IF op = "rpc/lease-acquire" THEN 2 ELSE 1)
        items  == ListValues(fields.values[1])
        known(v) == CASE op \in Mutations -> RecordFields(v, "rpc/action-result", 3).ok
                      [] op = "rpc/query" -> RecordFields(v, "query/row", 1).ok
                      [] OTHER -> TRUE
    IN  IF tag = "none"
        THEN IF payload = KeywordTerm("rpc/unit") THEN "none" ELSE "client/invalid-record"
        ELSE IF op = "rpc/lease-acquire"
        THEN IF fields.ok /\ fields.values[2].tag = "instant" THEN "none" ELSE "client/invalid-record"
        ELSE IF fields.ok /\ items.ok /\ \A k \in DOMAIN items.values : known(items.values[k])
        THEN "none" ELSE "client/invalid-record"

Rejected(code) == [Pending EXCEPT !.kind = "protocol", !.error = code]

\* decodeResponseFrame() and publicResponse(): the header, the identity, one
\* reader over the body, then the operation's own decoder.  validateResponse()
\* of the Worker client checks the same of its JSON and decodes no record.
Decoded(c, s) ==
    LET a == call[c].ask
        start   == ReadPlain(ReadTerm(ReadTerm(Reader(s.units), 0), 0), "i64")
        error   == ReadPlain(ReadPlain(start, "presence"), "presence")
        Failed(r) == r.read[5].text = "1"
        code    == ReadPlain(ReadTerm(error, 0), "bool")
        body    == ReadPlain(IF Failed(error)
                             THEN ReadPlain(ReadTerm(code, 0), "presence") ELSE error, "presence")
        payload == IF body.error = "none" /\ Last(body.read).text = "1"
                   THEN ReadTerm(body, 0) ELSE body
        r       == IF error.error # "none" THEN error ELSE ReadDone(payload)
    IN  IF s.head # "ok" THEN Rejected("client/invalid-header")
        ELSE IF s.declared > MaxBody THEN Rejected("client/frame-too-large")
        ELSE IF Len(s.units) # s.declared THEN Rejected("client/truncated")
        ELSE IF s.id # call[c].id THEN Rejected("client/identity-mismatch")
        ELSE IF r.error # "none" THEN Rejected(r.error)
        ELSE IF r.read[1] # StringTerm(Space) \/ r.read[2] # KeywordTerm(a.op)
        THEN Rejected("client/identity-mismatch")
        ELSE IF Failed(r)
        THEN [kind |-> "refused", error |-> r.read[6].text,
              version |-> r.read[3].text, result |-> <<>>]
        ELSE IF call[c].route # "worker" /\ ResultError(a.op, Last(r.read)) # "none"
        THEN Rejected("client/invalid-record")
        ELSE [kind |-> "answer", error |-> "none", version |-> r.read[3].text,
              result |-> <<Last(r.read)>>]

-----------------------------------------------------------------------------
(* The calls.                                                              *)

Settle(c, outcome) == call' = [call EXCEPT ![c].pc = "settled", ![c].outcome = outcome]

Transport == [Pending EXCEPT !.kind = "transport"]
Invalid(code) == [Pending EXCEPT !.kind = "invalid", !.error = code]

\* call() and send(): the id is taken before the request is encoded; a request
\* that fails its own checks is not sent.  The frame of the batch's preflight
\* is this one, so its sizes agree.
Ask(c, a, route) ==
    LET error == RequestError(a, route)
        id    == IF route = "worker" THEN 0 ELSE nextRequestId
        asked == [call[c] EXCEPT !.ask = a, !.route = route, !.id = id]
    IN  /\ call[c].pc = "idle" /\ route \in RoutesTo(engine)
        /\ nextRequestId' =
              IF route = "worker" \/ BatchError(a) # "none" THEN nextRequestId
              ELSE IF nextRequestId = MaxRequestId THEN 1 ELSE nextRequestId + 1
        /\ IF error # "none"
           THEN call' = [call EXCEPT ![c] =
                    [asked EXCEPT !.pc = "settled", !.outcome = Invalid(error)]]
           ELSE call' = [call EXCEPT ![c] = [asked EXCEPT !.pc = "connecting"]]
        /\ UNCHANGED <<peer, engine, facts, version, faults, meant>>

\* The socket connects and the frame is written once; or the object's
\* exchange() or the shim's handler gets the request and lets it through.
Send(c) ==
    LET a == call[c].ask IN
    /\ call[c].pc = "connecting"
    /\ IF \/ call[c].route = "object" /\ ~Exchanges(a)
          \/ call[c].route = "worker" /\ a.op \notin AllowedOps[PathOf(a.op)]
       THEN Settle(c, [Transport EXCEPT !.error = "request/not-allowed"]) /\ UNCHANGED peer
       ELSE /\ call' = [call EXCEPT ![c].pc = "waiting"]
            /\ peer' = [peer EXCEPT ![c].state = IF engine = "stopped" THEN "lost" ELSE "asked"]
    /\ UNCHANGED <<nextRequestId, engine, facts, version, faults, meant>>

\* The places where a stream may be cut into chunks.
Cuts(s) == {1, HeaderUnits, HeaderUnits + 1, HeaderUnits + s.declared,
            HeaderUnits + Len(s.units)}

\* The first units of a stream, as a stream.
FrameOf(s) == [s EXCEPT !.units = SubSeq(@, 1, s.declared)]

\* socket.on('data') after `received` units: nothing yet, an error or a frame.
\* framRpcDeclaredFrameBytes() is asked once the header is there.
OnData(c, s, received) ==
    IF received > HeaderUnits + MaxBody THEN Rejected("client/frame-too-large")
    ELSE IF received < HeaderUnits THEN Pending
    ELSE IF s.head = "magic" THEN Rejected("client/invalid-magic")
    ELSE IF s.declared > MaxBody THEN Rejected("client/frame-too-large")
    ELSE IF received > HeaderUnits + s.declared THEN Rejected("client/trailing-bytes")
    ELSE IF received = HeaderUnits + s.declared THEN Decoded(c, FrameOf(s))
    ELSE Pending

\* A chunk of the answer reaches the tcp client, which waits for the rest,
\* settles and drops the socket, or is no longer listening.
Deliver(c) ==
    LET s == peer[c].stream IN
    /\ call[c].route = "tcp" /\ call[c].pc = "waiting" /\ peer[c].state = "answered"
    /\ \E received \in Cuts(s) :
          /\ call[c].received < received /\ received <= HeaderUnits + Len(s.units)
          /\ LET outcome == OnData(c, s, received) IN
             IF outcome.kind = "pending" THEN call' = [call EXCEPT ![c].received = received]
             ELSE Settle(c, outcome)
    /\ UNCHANGED <<nextRequestId, peer, engine, facts, version, faults, meant>>

\* The object's answer comes whole, the shim's as JSON: its response is the
\* engine's, the Worker client checks identity and Terms.
DeliverWhole(c) ==
    /\ call[c].route # "tcp" /\ call[c].pc = "waiting" /\ peer[c].state = "answered"
    /\ Settle(c, Decoded(c, peer[c].stream))
    /\ UNCHANGED <<nextRequestId, peer, engine, facts, version, faults, meant>>

\* The peer closes: "end" on a socket, a failed or timed-out upstream request
\* for the shim, a rejected RPC for the object.
Closes(c) ==
    /\ call[c].pc \in {"connecting", "waiting"}
    /\ \/ peer[c].state = "lost"
       \/ peer[c].stream.ended
          /\ call[c].received = HeaderUnits + Len(peer[c].stream.units)
    /\ Settle(c, Transport)
    /\ UNCHANGED <<nextRequestId, peer, engine, facts, version, faults, meant>>

\* The control promise wins the race: the timer or the caller's signal.  The
\* engine goes on with what it has.  The Worker client has neither.
Control(c) ==
    /\ call[c].pc \in {"connecting", "waiting"} /\ call[c].route # "worker"
    /\ Settle(c, Transport)
    /\ UNCHANGED <<nextRequestId, peer, engine, facts, version, faults, meant>>

-----------------------------------------------------------------------------
(* Faults on the way: an answer spoiled by the peer, a connection lost, an  *)
(* answer that goes to the wrong socket of the client.                     *)

Spoiled(s) ==
    {[s EXCEPT !.head = "magic"], [s EXCEPT !.head = "kind"],
     [s EXCEPT !.declared = MaxBody + 1],
     [s EXCEPT !.units = @ \o @],
     [s EXCEPT !.units = Front(@), !.ended = TRUE],
     [s EXCEPT !.units = Append(@, Unit("keyword", "more")), !.declared = @ + 1],
     [s EXCEPT !.units[1] = Unit("map", "")]}

Spoil(c) ==
    /\ faults < MaxFaults /\ faults' = faults + 1
    /\ call[c].route = "tcp" /\ peer[c].state = "answered" /\ call[c].received = 0
    /\ \/ \E s \in Spoiled(peer[c].stream) : peer' = [peer EXCEPT ![c].stream = s]
       \/ \E d \in Call \ {c} : /\ peer[d].state = "answered" /\ call[d].route # "worker"
                                /\ peer' = [peer EXCEPT ![c].stream = peer[d].stream]
    /\ UNCHANGED <<nextRequestId, call, engine, facts, version, meant>>

Lose(c) ==
    /\ faults < MaxFaults /\ faults' = faults + 1
    /\ peer[c].state \in {"asked", "answered"} /\ call[c].pc = "waiting"
    /\ peer' = [peer EXCEPT ![c].state = "lost"]
    /\ UNCHANGED <<nextRequestId, call, engine, facts, version, meant>>

Next ==
    \E c \in Call :
        \/ \E a \in Asks, route \in {"tcp", "object", "worker"} : Ask(c, a, route)
        \/ Send(c) \/ Serve(c) \/ Deliver(c) \/ DeliverWhole(c) \/ Closes(c) \/ Control(c)
        \/ Spoil(c) \/ Lose(c)

Spec == Init /\ [][Next]_vars

-----------------------------------------------------------------------------
(* Properties.                                                             *)

\* The calls, their peers and the counters hold what the code can put there.
TypeOK ==
    /\ nextRequestId \in 1 .. MaxRequestId
    /\ \A c \in Call : /\ call[c].pc \in {"idle", "connecting", "waiting", "settled"}
                       /\ peer[c].state \in {"none", "asked", "answered", "lost"}
    /\ engine \in Engine \cup {"stopped"} /\ version \in Nat /\ faults \in 0 .. MaxFaults

\* An answer is what the engine did for this call: same result and version,
\* written exactly if it is a mutation; a refusal and a request stopped by the
\* client's own checks wrote nothing.  Pieces, spoiled answers, wrapped ids
\* and answers of other calls make no difference.
OutcomesTrue ==
    \A c \in Call :
        LET o == call[c].outcome IN
        /\ o.kind = "answer" =>
              /\ meant[c].error = "none" /\ o.result = meant[c].result
              /\ o.version = ToString(meant[c].version)
              /\ (meant[c].did = "wrote") = (call[c].ask.op \in Mutations)
        /\ o.kind = "refused" => meant[c].did = "read" /\ o.error = meant[c].error
        /\ o.kind = "invalid" => meant[c].did = "nothing"
        /\ meant[c].did = "failed" => call[c].ask.op \notin Mutations

\* An answer with a NaN that is not canonical.
OddNaN(answer) == \E t \in Range(answer) : Unit("float64", OtherNaN) \in Range(Encode(t))

\* What the engine commits its client can read: without a fault a call ends in
\* a protocol error only over a NaN of other bits, however the answer was cut,
\* and no call is turned away by the object or the shim.
AnswersReadable ==
    faults = 0 =>
        \A c \in Call :
            /\ call[c].outcome.kind = "protocol" =>
                   call[c].outcome.error = "client/invalid-float" /\ OddNaN(meant[c].result)
            /\ call[c].outcome.error # "request/not-allowed"

\* The engine bounds an unpaged query by its rows "instead of letting the
\* encoder fail on the way out" (native_query_ops.bgl): no query whose plan is
\* well formed and that fits the row bound fails its dispatch.
QueriesEncode == \A c \in Call : call[c].ask.op = "rpc/query" => meant[c].did # "failed"
================================================================================
