------------------------------ MODULE ChunkedRange ------------------------------
(***************************************************************************)
(* The storage layer of the Cloudflare Durable Object adapter, as pure     *)
(* operators: one storage object kept as fixed-size chunks in a key-value  *)
(* store (class ChunkedRange), and the host-memory copy the guest writes   *)
(* to (class HostImage).  A "byte" is any value; bytes are sequences.      *)
(*                                                                         *)
(* A stored range is [meta, chunks]: meta is NoMeta or the published       *)
(* length and chunk size, chunks maps a chunk number (from 0) to its       *)
(* bytes.  Keys of other ranges do not matter to it and are left out, as   *)
(* are the batching of keys into put() and get() calls and the counters.   *)
(***************************************************************************)
EXTENDS Integers, Sequences

NoMeta == [length |-> -1, chunkBytes |-> -1]
NoChunks == [i \in {} |-> <<>>]
EmptyRange == [meta |-> NoMeta, chunks |-> NoChunks]

\* The value of a byte no chunk supplied: load() fills a zeroed array.
Zero == "zero"

CeilDiv(a, b) == (a + b - 1) \div b

-----------------------------------------------------------------------------
(* ChunkedRange.  A handle is what the JavaScript object knows: the chunk  *)
(* size it slices with and the number of chunks it believes are stored.    *)

\* Mutant: the deployment's configuration wins.
ConfiguredChunkBytes(r, configured) == configured

\* load(): the published chunk size wins over the configured one.
LoadedChunkBytes(r, configured) ==
    IF r.meta = NoMeta THEN configured ELSE r.meta.chunkBytes

LoadedChunkCount(r) ==
    IF r.meta = NoMeta THEN 0 ELSE CeilDiv(r.meta.length, r.meta.chunkBytes)

\* load() throws when a chunk below the published length is missing.
Torn(r) == \E i \in 0 .. LoadedChunkCount(r) - 1 : i \notin DOMAIN r.chunks

\* load() of a range that is not torn: bytes past the published length are
\* never returned, bytes a short chunk does not hold are zero.
LoadBytes(r) ==
    IF r.meta = NoMeta THEN <<>>
    ELSE [k \in 1 .. r.meta.length |->
             LET i == (k - 1) \div r.meta.chunkBytes
                 at == k - i * r.meta.chunkBytes
             IN  IF at <= Len(r.chunks[i]) THEN r.chunks[i][at] ELSE Zero]

Handle(r, configured) == [chunkBytes |-> LoadedChunkBytes(r, configured),
                          chunkCount |-> LoadedChunkCount(r)]

\* plan(): the writes that publish bytes, from the chunk that holds the
\* lowest modified byte, and the chunks past the new end.
Plan(h, bytes, lowWater) ==
    LET first == lowWater \div h.chunkBytes
        count == CeilDiv(Len(bytes), h.chunkBytes)
        upTo(i) == IF (i + 1) * h.chunkBytes <= Len(bytes)
                   THEN (i + 1) * h.chunkBytes ELSE Len(bytes)
    IN  [writes |-> [i \in first .. count - 1 |->
                        SubSeq(bytes, i * h.chunkBytes + 1, upTo(i))],
         stale |-> count .. h.chunkCount - 1,
         count |-> count,
         meta |-> [length |-> Len(bytes), chunkBytes |-> h.chunkBytes],
         clears |-> FALSE]

\* clearPlan(): every key found under the range's prefix, meta included.
ClearPlan(r) ==
    [writes |-> NoChunks, stale |-> DOMAIN r.chunks, count |-> 0,
     meta |-> NoMeta, clears |-> TRUE]

\* A range holds any key at all.
Occupied(r) == r.meta # NoMeta \/ DOMAIN r.chunks # {}

\* applyTo(): puts, then deletes, then meta, inside one transaction.
ApplyPlan(r, plan) ==
    LET kept == DOMAIN r.chunks \ (plan.stale \cup DOMAIN plan.writes)
        all == kept \cup (DOMAIN plan.writes \ plan.stale)
    IN  [meta |-> plan.meta,
         chunks |-> [i \in all |-> IF i \in DOMAIN plan.writes
                                   THEN plan.writes[i] ELSE r.chunks[i]]]

\* settle(): only after the transaction landed.
Settle(h, plan) == [h EXCEPT !.chunkCount = plan.count]

-----------------------------------------------------------------------------
(* HostImage: low is the earliest byte a commit must rewrite, Clean when   *)
(* nothing was modified (the code's dirty flag is low # Clean).            *)

Clean == -1

HostImage(bytes) == [bytes |-> bytes, low |-> Clean]

Lower(a, b) == IF a = Clean \/ b < a THEN b ELSE a

AppendBytes(o, s) == [bytes |-> o.bytes \o s, low |-> Lower(o.low, Len(o.bytes))]

Truncate(o, length) ==
    IF length > Len(o.bytes) THEN o
    ELSE [bytes |-> SubSeq(o.bytes, 1, length), low |-> Lower(o.low, length)]

Dirty(o) == o.low # Clean

\* takeCommit() leaves the image clean.
TakeCommit(o) == [o EXCEPT !.low = Clean]
=============================================================================
