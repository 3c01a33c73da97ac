----------------------------- MODULE MCRpcClient -----------------------------
(* RpcClient with Terms eleven levels deep, so that a batch of two actions is
   the largest, as 247 is with 256 levels.  A fact of Deep[4] comes back from
   a query with not a level to spare; one of Deep[8] fits a write and no read,
   and a lease on it fits its request and not its grant. *)
EXTENDS RpcClient

Is(float) == Triple(StringTerm("a"), KeywordTerm("is"), Atom("float64", float))
Flat == Is(CanonicalNaN)
Deep == [d \in 0 .. 8 |-> IF d = 0 THEN Flat
                          ELSE FoldLeft(LAMBDA t, k : Triple(t, KeywordTerm("is"), IntegerTerm(k)),
                                        Flat, [k \in 1 .. d |-> k])]

Write(fact, expected) == [NoAsk EXCEPT !.op = "rpc/assert", !.facts = <<fact>>,
                                        !.expected = expected]
Batch(written) == [NoAsk EXCEPT !.op = "rpc/batch", !.facts = written]
Lease(resource) == [NoAsk EXCEPT !.op = "rpc/lease-acquire", !.facts = <<resource>>]

MCAsks == {Write(Deep[4], 0), Write(Deep[8], -1), Lease(Deep[8]),
           Batch(<<Is("+inf"), Is("-inf")>>), Batch(<<Flat, Flat, Flat>>),
           [NoAsk EXCEPT !.op = "rpc/scan"],
           [NoAsk EXCEPT !.op = "rpc/query"],
          [NoAsk EXCEPT !.op = "rpc/query", !.sum = TRUE],
           [NoAsk EXCEPT !.op = "rpc/query", !.asOf = TRUE]}

Symmetry == Permutations(Call)
================================================================================
