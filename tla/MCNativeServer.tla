--------------------------- MODULE MCNativeServer ---------------------------
\* NativeServer for TLC: connections are interchangeable.  A version that a
\* read names decides only the read's own answer, so the reads of the
\* instances name none.
EXTENDS NativeServer, TLC

Symmetry == Permutations(Client)

PlainReads == {a \in [op : Op, versioned : BOOLEAN] : a.op # "write" => ~a.versioned}
=============================================================================
