---------------------------- MODULE MCSchemaClient ----------------------------
(* A small instance of SchemaClient for TLC: two subjects, two identities   *)
(* (an email and a handle), a single-valued title and a multi-valued tag.   *)
EXTENDS SchemaClient, TLC

CONSTANTS s1, s2, c1, c2, c3

Id(p, v) == [predicate |-> p, value |-> v]
Set(p, values, allowed) ==
    [predicate |-> p, values |-> values, cardinality |-> "single", allowed |-> allowed]
Add(p, values, allowed) ==
    [predicate |-> p, values |-> values, cardinality |-> "multi", allowed |-> allowed]
New(s, id, fields) == [subject |-> s, identity |-> id, fields |-> fields]
Change(id, fields) == [identity |-> id, fields |-> fields]
Needs(s, id) == [subject |-> s, identity |-> id]
Cmd(kind, creates, updates, require) ==
    [kind |-> kind, creates |-> creates, updates |-> updates, require |-> require]

Email == Id("email", "a")
Handle == Id("handle", "b")
Titled(v) == <<Set("title", <<v>>, AnyCurrent)>>

MCCommands == {
    Cmd("create", <<New(s1, Email, Titled("a"))>>, <<>>, {}),
    Cmd("create", <<New(s2, Email, Titled("b"))>>, <<>>, {}),
    Cmd("upsert", <<New(s2, Email, Titled("b"))>>, <<>>, {}),
    Cmd("upsert", <<New(s1, Email, <<Add("tag", <<"a">>, AnyCurrent)>>)>>, <<>>, {}),
    \* a guarded replacement, and the exact no-op
    Cmd("transact", <<>>, <<Change(Email, <<Set("title", <<"b">>, {"a"})>>)>>, {}),
    Cmd("transact", <<>>, <<Change(Email, Titled("a"))>>, {}),
    \* the whole set of tags, if there is none
    Cmd("transact", <<>>, <<Change(Email, <<Add("tag", <<"a", "b", "a">>, {})>>)>>, {}),
    \* a reservation that clears a title, guarded by a reference to itself
    Cmd("transact", <<New(s2, Handle, Titled("a"))>>,
        <<Change(Email, <<Set("title", <<>>, AnyCurrent)>>)>>,
        {Needs(s2, Handle), Needs(s1, Email)}),
    \* two identities that may turn out to be the same subject's
    Cmd("transact", <<>>, <<Change(Email, Titled("a")), Change(Handle, Titled("b"))>>, {}),
    \* rejected before any request: the second create asserts the first's identity
    Cmd("transact", <<New(s1, Handle, <<>>),
                      New(s2, Id("email", "b"), <<Set("handle", <<"b">>, AnyCurrent)>>)>>, <<>>, {}),
    Cmd("replace", <<New(s1, Email, Titled("b"))>>, <<>>, {}) }

\* A duplicate of a title another program left behind.
MCRawBatches == {<<Action("assert", s1, "title", "a"), Action("assert", s1, "title", "a")>>}

Clients == Permutations({c1, c2, c3})
=============================================================================
