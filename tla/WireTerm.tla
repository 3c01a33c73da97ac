-------------------------------- MODULE WireTerm --------------------------------
(***************************************************************************)
(* The Term codec of the JavaScript FRAMRPC client                         *)
(* (clients/bun/framrpc-core.mjs) as pure operators: the typed values, RPC *)
(* lists, records and options built of triples, and the prefix code they   *)
(* travel in.  A unit stands for the bytes of one tag with its payload.    *)
(* A spelling is a name; integers are spelled as the source spells them.   *)
(* Terms are nested, so the operators are recursive; nothing is proved of  *)
(* them.                                                                   *)
(***************************************************************************)
EXTENDS Integers, Sequences, SequencesExt, FiniteSetsExt, TLC

CONSTANTS MaxDepth, MaxNodes     \* MAX_TERM_DEPTH, MAX_TERM_NODES

ASSUME WireAssumption == MaxDepth \in Nat /\ MaxNodes \in Nat

Atom(tag, text) == [tag |-> tag, text |-> text, parts |-> <<>>]
Triple(a, b, c) == [tag |-> "triple", text |-> "", parts |-> <<a, b, c>>]

StringTerm(text) == Atom("string", text)
KeywordTerm(text) == Atom("keyword", text)
IntegerTerm(n) == Atom("integer", ToString(n))
BooleanTerm(b) == Atom("boolean", IF b THEN "true" ELSE "false")

\* Two NaNs; only the first is canonical.  Adding the two infinities leaves the
\* second on x86-64.
CanonicalNaN == "7ff8000000000000"
OtherNaN == "fff8000000000000"

AtomTags == {"string", "integer", "float64", "boolean", "keyword", "instant"}

RECURSIVE Depth(_)
Depth(t) == IF t.parts = <<>> THEN 0
            ELSE 1 + Max({Depth(t.parts[k]) : k \in DOMAIN t.parts})

RECURSIVE Nodes(_)
Nodes(t) == 1 + FoldLeft(+, 0, [k \in DOMAIN t.parts |-> Nodes(t.parts[k])])

RECURSIVE WellFormed(_)
WellFormed(t) ==
    \/ t.tag = "triple" /\ \A k \in 1 .. 3 : WellFormed(t.parts[k])
    \/ /\ t.tag \in AtomTags
       /\ t.tag = "keyword" => t.text # ""
       /\ t.tag = "float64" => t.text # OtherNaN

\* The bounds every codec has: nodes counts over everything that shares a budget.
Fits(t, nodes) == Depth(t) <= MaxDepth /\ nodes + Nodes(t) <= MaxNodes

\* validateTerm() of the clients.
ValidTerm(t, nodes) == Fits(t, nodes) /\ WellFormed(t)

-----------------------------------------------------------------------------
(* RPC lists, records and options.                                         *)

RpcList(values) ==
    FoldRight(LAMBDA v, tail : Triple(KeywordTerm("rpc/list"), v, tail),
              values, KeywordTerm("rpc/list-end"))

RpcRecord(tag, fields) == Triple(KeywordTerm(tag), RpcList(fields), KeywordTerm("rpc/record"))

None == KeywordTerm("rpc/none")
Some(t) == Triple(KeywordTerm("rpc/some"), t, KeywordTerm("rpc/option"))

Malformed == [ok |-> FALSE, values |-> <<>>]

RECURSIVE ListValues(_)
ListValues(t) ==
    IF t = KeywordTerm("rpc/list-end") THEN [ok |-> TRUE, values |-> <<>>]
    ELSE IF t.tag # "triple" \/ t.parts[1] # KeywordTerm("rpc/list") THEN Malformed
    ELSE LET rest == ListValues(t.parts[3]) IN
         IF rest.ok THEN [ok |-> TRUE, values |-> <<t.parts[2]>> \o rest.values]
         ELSE Malformed

RecordFields(t, tag, count) ==
    IF \/ t.tag # "triple"
       \/ t.parts[1] # KeywordTerm(tag)
       \/ t.parts[3] # KeywordTerm("rpc/record")
    THEN Malformed
    ELSE LET fields == ListValues(t.parts[2]) IN
         IF fields.ok /\ Len(fields.values) = count THEN fields ELSE Malformed

-----------------------------------------------------------------------------
(* The code.                                                               *)

Unit(tag, text) == [tag |-> tag, text |-> text]

RECURSIVE Encode(_)
Encode(t) == <<Unit(t.tag, t.text)>>
             \o FlattenSeq([k \in DOMAIN t.parts |-> Encode(t.parts[k])])

\* A reader: the units, the place in them, the nodes it has counted, what it
\* has read, and the first error.
Reader(units) == [units |-> units, at |-> 1, nodes |-> 0, read |-> <<>>, error |-> "none"]

Ends(r, code) == [r EXCEPT !.error = code]

\* A value that is not a Term: an i64, a presence or a boolean byte.
ReadPlain(r, tag) ==
    IF r.error # "none" THEN r
    ELSE IF r.at > Len(r.units) THEN Ends(r, "client/truncated")
    ELSE IF r.units[r.at].tag # tag THEN Ends(r, "client/invalid")
    ELSE [r EXCEPT !.at = @ + 1, !.read = Append(@, Atom(tag, r.units[r.at].text))]

\* Mutant: the deepest level is lost.
DeeperThan(depth) == depth >= MaxDepth

TooDeep(depth) == depth > MaxDepth

RECURSIVE ReadTerm(_, _)
ReadTerm(r, depth) ==
    IF r.error # "none" THEN r
    ELSE IF TooDeep(depth) THEN Ends(r, "client/term-depth")
    ELSE IF r.nodes + 1 > MaxNodes THEN Ends(r, "client/term-nodes")
    ELSE IF r.at > Len(r.units) THEN Ends(r, "client/truncated")
    ELSE LET u == r.units[r.at]
             s == [r EXCEPT !.at = @ + 1, !.nodes = @ + 1]
         IN  IF u.tag = "triple"
             THEN LET x == ReadTerm(ReadTerm(ReadTerm(s, depth + 1), depth + 1), depth + 1)
                      n == Len(s.read)
                  IN  IF x.error # "none" THEN x
                      ELSE [x EXCEPT !.read = Append(SubSeq(@, 1, n),
                              Triple(@[n + 1], @[n + 2], @[n + 3]))]
             ELSE IF u.tag \notin AtomTags THEN Ends(s, "client/bad-term-tag")
             ELSE IF u.tag = "keyword" /\ u.text = "" THEN Ends(s, "client/invalid-keyword")
             ELSE IF u.tag = "float64" /\ u.text = OtherNaN THEN Ends(s, "client/invalid-float")
             ELSE [s EXCEPT !.read = Append(@, Atom(u.tag, u.text))]

ReadDone(r) == IF r.error = "none" /\ r.at # Len(r.units) + 1
               THEN Ends(r, "client/trailing-bytes") ELSE r
================================================================================
