--------------------------- MODULE DurableObjectProofs ---------------------------
(***************************************************************************)
(* Theorems about the Durable Object adapter.                              *)
(*                                                                         *)
(* First ChunkedRange: what a commit leaves in storage, for every chunk    *)
(* size, every length and every content.  A range reads back as the bytes  *)
(* that were committed although only the chunks from the low-water mark on *)
(* are rewritten, whatever chunk size the deployment is configured with.   *)
(*                                                                         *)
(* Then DurableObject, for every set of callers, any chunk sizes, image    *)
(* lengths and supplied logs, any number of guests, restores, recyclings,  *)
(* crashes and faults, as far as no recycle has met the boot of a direct   *)
(* caller (~crossed): then there are two guests, and nothing is promised.  *)
(***************************************************************************)
EXTENDS DurableObject, FiniteSetTheorems, SequenceTheorems, WellFoundedInduction, TLAPS


\* The ranges that the adapter stores: nothing, or a published length and
\* chunk size over numbered chunks.
StoredRange(r) ==
    /\ r = [meta |-> r.meta, chunks |-> r.chunks]
    /\ r.meta \in {NoMeta} \cup [length : Nat, chunkBytes : Nat \ {0}]
    /\ DOMAIN r.chunks \subseteq Int

\* load() succeeds and returns bytes.
ReadsAs(r, bytes) == ~Torn(r) /\ LoadBytes(r) = bytes

\* The host image o was made of bytes and modified from o.low on only.
ImageOf(o, bytes) ==
    \/ o.low = Clean /\ o.bytes = bytes
    \/ /\ o.low \in 0 .. Len(bytes) /\ o.low <= Len(o.bytes)
       /\ \A k \in 1 .. o.low : o.bytes[k] = bytes[k]

-----------------------------------------------------------------------------
(* Arithmetic of chunks.                                                   *)

\* The chunk of a byte is the one whose bounds enclose it.
LEMMA DivBounds ==
    ASSUME NEW C \in Nat \ {0}, NEW n \in Nat
    PROVE  n \div C \in Nat /\ (n \div C) * C <= n /\ n < (n \div C) * C + C
  BY SMTT(30)

\* A chunk ends before any later one begins.
LEMMA ChunksApart ==
    ASSUME NEW C \in Nat \ {0}, NEW i \in Int, NEW j \in Int, i < j
    PROVE  i * C + C <= j * C
  BY SMTT(30)

\* A byte before the start of a chunk is in an earlier chunk.
LEMMA ChunkBefore ==
    ASSUME NEW C \in Nat \ {0}, NEW i \in Int, NEW j \in Int, i * C < j * C
    PROVE  i < j
  BY SMTT(30)

\* Math.ceil(n / C) chunks hold n bytes, and no fewer do.
LEMMA CeilBounds ==
    ASSUME NEW C \in Nat \ {0}, NEW n \in Nat
    PROVE  /\ CeilDiv(n, C) \in Nat
           /\ n <= CeilDiv(n, C) * C
           /\ \A i \in Int : i < CeilDiv(n, C) <=> i * C < n
  <1> DEFINE q == (n + (C - 1)) \div C
  <1>1. n + (C - 1) \in Nat
    OBVIOUS
  <1>2. q \in Nat /\ q * C <= n + (C - 1) /\ n + (C - 1) < q * C + C
    BY <1>1, DivBounds
  <1>3. CeilDiv(n, C) = q
    <2>1. n + C - 1 = n + (C - 1)
      OBVIOUS
    <2> QED BY <2>1 DEF CeilDiv
  <1>4. ASSUME NEW i \in Int, i < q PROVE i * C < n
    BY <1>2, <1>4, ChunksApart
  <1>5. ASSUME NEW i \in Int, i * C < n PROVE i < q
    <2> SUFFICES ASSUME q <= i PROVE FALSE
      BY <1>2
    <2>1. q * C <= i * C
      BY <1>2, ChunksApart
    <2> QED BY <1>2, <1>5, <2>1
  <1> HIDE DEF q
  <1> QED BY <1>2, <1>3, <1>4, <1>5

-----------------------------------------------------------------------------
(* The host image.                                                         *)

\* append() and truncate() keep the low-water mark honest: below it the image
\* still is what was loaded or committed last.
THEOREM LowWaterHonest ==
    ASSUME NEW Byte, NEW bytes \in Seq(Byte), NEW s \in Seq(Byte), NEW n \in Nat,
           NEW o \in [bytes : Seq(Byte), low : Int], ImageOf(o, bytes)
    PROVE  /\ ImageOf(AppendBytes(o, s), bytes)
           /\ ImageOf(Truncate(o, n), bytes)
           /\ AppendBytes(o, s) \in [bytes : Seq(Byte), low : Int]
           /\ Truncate(o, n) \in [bytes : Seq(Byte), low : Int]
  <1>1. ImageOf(AppendBytes(o, s), bytes)
    BY DEF ImageOf, AppendBytes, Lower, Clean
  <1>2. ImageOf(Truncate(o, n), bytes)
    BY DEF ImageOf, Truncate, Lower, Clean
  <1>3. AppendBytes(o, s) \in [bytes : Seq(Byte), low : Int]
    BY DEF AppendBytes, Lower, Clean
  <1>4. Truncate(o, n) \in [bytes : Seq(Byte), low : Int]
    BY DEF Truncate, Lower, Clean
  <1> QED BY <1>1, <1>2, <1>3, <1>4

-----------------------------------------------------------------------------
(* Commits.                                                                *)

\* What load() knows of a range that reads as bytes.
LEMMA Loads ==
    ASSUME NEW Byte, NEW r, StoredRange(r), NEW bytes \in Seq(Byte), ReadsAs(r, bytes),
           NEW configured \in Nat \ {0}
    PROVE  /\ LoadedChunkBytes(r, configured) \in Nat \ {0}
           /\ LoadedChunkCount(r) = CeilDiv(Len(bytes), LoadedChunkBytes(r, configured))
           /\ r.meta = NoMeta => bytes = <<>>
           /\ r.meta # NoMeta => /\ r.meta.length = Len(bytes)
                                 /\ r.meta.chunkBytes = LoadedChunkBytes(r, configured)
  <1>1. CASE r.meta = NoMeta
    <2>1. bytes = <<>> /\ Len(bytes) = 0
      BY <1>1 DEF ReadsAs, LoadBytes
    <2>2. CeilDiv(0, configured) = 0
      <3>1. CeilDiv(0, configured) \in Nat /\ ~(0 < CeilDiv(0, configured))
        <4>1. 0 < CeilDiv(0, configured) <=> 0 * configured < 0
          BY CeilBounds
        <4> QED BY <4>1, CeilBounds
      <3> QED BY <3>1
    <2> QED BY <1>1, <2>1, <2>2 DEF LoadedChunkBytes, LoadedChunkCount
  <1>2. CASE r.meta # NoMeta
    <2>1. r.meta.length \in Nat /\ r.meta.chunkBytes \in Nat \ {0}
      BY <1>2 DEF StoredRange
    <2>2. r.meta.length = Len(bytes)
      BY <1>2, <2>1 DEF ReadsAs, LoadBytes
    <2> QED BY <1>2, <2>1, <2>2 DEF LoadedChunkBytes, LoadedChunkCount
  <1> QED BY <1>1, <1>2

\* The chunk of a byte, and its place in it.
LEMMA ByteInChunk ==
    ASSUME NEW C \in Nat \ {0}, NEW n \in Nat, NEW k \in 1 .. n
    PROVE  LET i == (k - 1) \div C
           IN  /\ i \in 0 .. CeilDiv(n, C) - 1
               /\ i * C \in Nat
               /\ k - i * C \in 1 .. C
  <1> DEFINE i == (k - 1) \div C
  <1>1. k - 1 \in Nat
    OBVIOUS
  <1>2. i \in Nat /\ i * C <= k - 1 /\ k - 1 < i * C + C
    BY <1>1, DivBounds
  <1>3. i * C \in Nat
    BY <1>2
  <1> HIDE DEF i
  <1>4. i * C < n
    BY <1>2, <1>3
  <1>5. i < CeilDiv(n, C) /\ CeilDiv(n, C) \in Nat
    BY <1>2, <1>4, CeilBounds
  <1>6. k - i * C \in 1 .. C
    BY <1>2, <1>3
  <1> QED BY <1>2, <1>3, <1>5, <1>6 DEF i

\* A chunk that plan() slices out holds its part of the bytes.
LEMMA SliceHolds ==
    ASSUME NEW Byte, NEW bytes \in Seq(Byte), NEW C \in Nat \ {0}, NEW from \in Nat,
           NEW to \in Nat, to <= Len(bytes), NEW k \in 1 .. Len(bytes), from < k, k <= to
    PROVE  /\ k - from <= Len(SubSeq(bytes, from + 1, to))
           /\ SubSeq(bytes, from + 1, to)[k - from] = bytes[k]
  BY SMTT(30)

\* commit(): from a range that reads as old, and bytes that were modified from
\* low on only, the transaction of plan() and applyTo() leaves a range that
\* reads as bytes, whatever chunk size is configured now; and the chunk count
\* that settle() remembers is the one a later load() would find.
THEOREM CommitReadsBack ==
    ASSUME NEW Byte, NEW r, StoredRange(r), NEW old \in Seq(Byte), ReadsAs(r, old),
           NEW configured \in Nat \ {0}, NEW bytes \in Seq(Byte),
           NEW low \in 0 .. Len(old), low <= Len(bytes),
           \A k \in 1 .. low : bytes[k] = old[k]
    PROVE  LET handle == Handle(r, configured)
               plan   == Plan(handle, bytes, low)
               after  == ApplyPlan(r, plan)
           IN  /\ StoredRange(after)
               /\ ReadsAs(after, bytes)
               /\ \A later \in Nat \ {0} : Handle(after, later) = Settle(handle, plan)
  <1> DEFINE C == LoadedChunkBytes(r, configured)
             handle == Handle(r, configured)
             first == low \div C
             count == CeilDiv(Len(bytes), C)
             plan == Plan(handle, bytes, low)
             after == ApplyPlan(r, plan)
             upTo(i) == IF (i + 1) * C <= Len(bytes) THEN (i + 1) * C ELSE Len(bytes)
             slice(i) == SubSeq(bytes, i * C + 1, upTo(i))
  <1>1. /\ C \in Nat \ {0}
        /\ LoadedChunkCount(r) = CeilDiv(Len(old), C)
        /\ r.meta = NoMeta => old = <<>>
        /\ r.meta # NoMeta => r.meta.length = Len(old) /\ r.meta.chunkBytes = C
    BY Loads
  <1>2. handle = [chunkBytes |-> C, chunkCount |-> LoadedChunkCount(r)]
    BY DEF Handle
  <1>3. /\ plan.writes = [i \in first .. count - 1 |-> slice(i)]
        /\ plan.stale = count .. LoadedChunkCount(r) - 1
        /\ plan.count = count
        /\ plan.meta = [length |-> Len(bytes), chunkBytes |-> C]
    BY <1>2 DEF Plan
  <1> HIDE DEF plan, handle, C
  <1>4. /\ after.meta = [length |-> Len(bytes), chunkBytes |-> C]
        /\ after.chunks = [i \in (DOMAIN r.chunks \ (plan.stale \cup (first .. count - 1)))
                                 \cup ((first .. count - 1) \ plan.stale) |->
                              IF i \in first .. count - 1 THEN slice(i) ELSE r.chunks[i]]
        /\ after = [meta |-> after.meta, chunks |-> after.chunks]
    BY <1>3 DEF ApplyPlan
  <1>5. after.meta # NoMeta /\ after.meta.length = Len(bytes) /\ after.meta.chunkBytes = C
    BY <1>4 DEF NoMeta
  <1>6. LoadedChunkCount(after) = count
    BY <1>5 DEF LoadedChunkCount
  <1> HIDE DEF after
  <1>7. first \in Nat /\ first * C <= low /\ count \in Nat /\ low \in Nat
    BY <1>1, DivBounds, CeilBounds
  <1> HIDE DEF first, count
  <1>8. ASSUME NEW i \in 0 .. count - 1, i < first
        PROVE  i \in DOMAIN after.chunks /\ after.chunks[i] = r.chunks[i]
    <2>1. i * C + C <= first * C /\ i * C \in Nat
      <3>1. C \in Nat \ {0} /\ i \in Nat /\ first \in Nat
        BY <1>1, <1>7
      <3>2. i * C + C <= first * C
        BY ONLY <3>1, <1>8, ChunksApart
      <3>3. i * C \in Nat
        BY ONLY <3>1
      <3> QED BY <3>2, <3>3
    <2>2. i * C < Len(old)
      <3> DEFINE start == i * C
                 limit == first * C
      <3>1. start \in Nat /\ limit \in Int /\ start + C <= limit /\ limit <= low
        BY <1>1, <1>7, <2>1
      <3>2. Len(old) \in Nat /\ C \in Nat \ {0} /\ low \in 0 .. Len(old)
        BY <1>1
      <3> HIDE DEF start, limit, upTo
      <3>3. start < Len(old)
        BY <3>1, <3>2
      <3> QED BY <3>3 DEF start
    <2>3. i \in 0 .. LoadedChunkCount(r) - 1
      <3>1. i < CeilDiv(Len(old), C) /\ CeilDiv(Len(old), C) \in Nat
        BY <1>1, <2>2, CeilBounds
      <3> QED BY <1>1, <3>1
    <2>4. i \in DOMAIN r.chunks
      BY <2>3 DEF ReadsAs, Torn
    <2>5. i \notin plan.stale /\ i \notin first .. count - 1
      BY <1>3, <1>7, <1>8
    <2> QED BY <1>4, <2>4, <2>5
  <1>9. ASSUME NEW i \in 0 .. count - 1, first <= i
        PROVE  i \in DOMAIN after.chunks /\ after.chunks[i] = slice(i)
    <2>1. i \in first .. count - 1 /\ i \notin plan.stale
      BY <1>3, <1>7, <1>9
    <2> QED BY <1>4, <2>1
  <1> HIDE DEF slice
  <1>10. ~Torn(after)
    <2> SUFFICES ASSUME NEW i \in 0 .. count - 1 PROVE i \in DOMAIN after.chunks
      BY <1>6 DEF Torn
    <2>1. i < first \/ first <= i
      BY <1>7
    <2> QED BY <1>8, <1>9, <2>1
  <1>11. ASSUME NEW k \in 1 .. Len(bytes)
         PROVE  LET i == (k - 1) \div C
                IN  (IF k - i * C <= Len(after.chunks[i]) THEN after.chunks[i][k - i * C]
                     ELSE Zero) = bytes[k]
    <2> DEFINE i == (k - 1) \div C
    <2>1. i \in 0 .. count - 1 /\ i * C \in Nat /\ k - i * C \in 1 .. C
      BY <1>1, ByteInChunk DEF count
    <2> HIDE DEF i
    <2>2. CASE i < first
      <3>1. i * C + C <= first * C
        BY <1>1, <1>7, <2>1, <2>2, ChunksApart
      <3>2. k <= low /\ k \in 1 .. low /\ k \in 1 .. Len(old)
        BY <1>1, <1>7, <2>1, <3>1
      <3>3. r.meta # NoMeta
        BY <1>1, <3>2
      <3>4. old[k] = IF k - i * C <= Len(r.chunks[i]) THEN r.chunks[i][k - i * C] ELSE Zero
        BY <1>1, <3>2, <3>3 DEF ReadsAs, LoadBytes, i
      <3> QED BY <1>8, <2>1, <2>2, <3>2, <3>4 DEF i
    <2>3. CASE first <= i
      <3>1. (i + 1) * C = i * C + C /\ (i + 1) * C \in Nat
        BY <1>1, <2>1
      <3>2. upTo(i) \in Nat /\ upTo(i) <= Len(bytes) /\ i * C < k /\ k <= upTo(i)
        BY <1>1, <2>1, <3>1
      <3> HIDE DEF upTo
      <3>3. k - i * C <= Len(slice(i)) /\ slice(i)[k - i * C] = bytes[k]
        BY <1>1, <2>1, <3>2, SliceHolds DEF slice
      <3> QED BY <1>9, <2>1, <2>3, <3>3 DEF i
    <2>4. i < first \/ first <= i
      BY <1>7, <2>1
    <2> QED BY <2>2, <2>3, <2>4 DEF i
  <1>12. LoadBytes(after) = bytes
    <2>1. LoadBytes(after) = [k \in 1 .. Len(bytes) |->
              LET i == (k - 1) \div C
                  at == k - i * C
              IN  IF at <= Len(after.chunks[i]) THEN after.chunks[i][at] ELSE Zero]
      BY <1>5 DEF LoadBytes
    <2>2. LoadBytes(after) = [k \in 1 .. Len(bytes) |-> bytes[k]]
      BY <1>11, <2>1
    <2> QED BY <2>2
  <1>13. StoredRange(after)
    <2>1. DOMAIN after.chunks \subseteq Int
      BY <1>4, <1>7 DEF StoredRange
    <2> QED BY <1>1, <1>4, <2>1 DEF StoredRange
  <1>14. ASSUME NEW later \in Nat \ {0} PROVE Handle(after, later) = Settle(handle, plan)
    <2>1. Handle(after, later) = [chunkBytes |-> C, chunkCount |-> count]
      BY <1>5, <1>6 DEF Handle, LoadedChunkBytes
    <2>2. Settle(handle, plan) = [chunkBytes |-> C, chunkCount |-> count]
      BY <1>2, <1>3 DEF Settle
    <2> QED BY <2>1, <2>2
  <1> QED BY <1>10, <1>12, <1>13, <1>14 DEF ReadsAs, after, plan, handle

\* replace() of a restore: the image range is cleared of every key it had, and
\* the new log is written whole, from byte 0, over whatever was stored.
THEOREM RestoreReadsBack ==
    ASSUME NEW Byte, NEW r, StoredRange(r), NEW old \in Seq(Byte), ReadsAs(r, old),
           NEW configured \in Nat \ {0}, NEW bytes \in Seq(Byte)
    PROVE  /\ StoredRange(ApplyPlan(r, Plan(Handle(r, configured), bytes, 0)))
           /\ ReadsAs(ApplyPlan(r, Plan(Handle(r, configured), bytes, 0)), bytes)
           /\ StoredRange(ApplyPlan(r, ClearPlan(r)))
           /\ ~Occupied(ApplyPlan(r, ClearPlan(r)))
           /\ ReadsAs(ApplyPlan(r, ClearPlan(r)), <<>>)
  <1>1. /\ StoredRange(ApplyPlan(r, Plan(Handle(r, configured), bytes, 0)))
        /\ ReadsAs(ApplyPlan(r, Plan(Handle(r, configured), bytes, 0)), bytes)
    <2>1. 0 \in 0 .. Len(old) /\ 0 <= Len(bytes) /\ \A k \in 1 .. 0 : bytes[k] = old[k]
      OBVIOUS
    <2> QED BY <2>1, CommitReadsBack
  <1>2. ApplyPlan(r, ClearPlan(r)).meta = NoMeta
    BY DEF ApplyPlan, ClearPlan
  <1>3. DOMAIN ApplyPlan(r, ClearPlan(r)).chunks = {}
    BY DEF ApplyPlan, ClearPlan, NoChunks
  <1>4. ~Torn(ApplyPlan(r, ClearPlan(r)))
    BY <1>2 DEF Torn, LoadedChunkCount
  <1>5. ApplyPlan(r, ClearPlan(r)) = [meta |-> ApplyPlan(r, ClearPlan(r)).meta,
                                      chunks |-> ApplyPlan(r, ClearPlan(r)).chunks]
    BY DEF ApplyPlan
  <1>6. StoredRange(ApplyPlan(r, ClearPlan(r))) BY <1>2, <1>3, <1>5 DEF StoredRange
  <1> QED BY <1>1, <1>2, <1>3, <1>4, <1>6 DEF Occupied, ReadsAs, LoadBytes

-----------------------------------------------------------------------------
(* The inductive invariant of the object.                                  *)

LogByte == Writer \cup Holder \cup {Header} \cup UNION {Range(bytes) : bytes \in Supplied}
Log == Seq(LogByte)
Slot == 1 .. MaxInstances
Caller == Holder \cup {"op", "fence"}

\* A guest that would still run a call.
Usable(x) == x.phase # "free" /\ ~x.poisoned /\ ~x.closed

\* Callers wait in a gate once each.
Line(gate) ==
    gate \in Seq(Caller) /\ \A j, k \in 1 .. Len(gate) : gate[j] = gate[k] => j = k

\* The record of a guest's fields.
GuestOf(x) ==
    [phase |-> x.phase, log |-> x.log, image |-> x.image,
     logHandle |-> x.logHandle, imageHandle |-> x.imageHandle,
     poisoned |-> x.poisoned, closed |-> x.closed, gate |-> x.gate,
     logPlan |-> x.logPlan, imagePlan |-> x.imagePlan]

\* A guest by itself.  The fence waits behind admitted calls.
Guest(x) ==
    /\ x = GuestOf(x)
    /\ x.phase \in Booting \cup {"free", "idle", "staged"}
    /\ x.log \in [bytes : Log, low : Int] /\ x.image \in [bytes : Seq(Log), low : Int]
    /\ x.poisoned \in BOOLEAN /\ x.closed \in BOOLEAN
    /\ Line(x.gate)
    /\ x.phase # "idle" => ~x.poisoned /\ ~x.closed
    /\ x.phase \in Booting \cup {"free"} => x.gate = <<>>
    /\ x.phase = "staged" => x.gate # <<>> /\ Head(x.gate) # "fence"

Stored(r, bytes) == StoredRange(r) /\ ReadsAs(r, bytes)

\* Every byte of an image was taken of a prefix of the log.
TakenOf(picture, bytes) == \A k \in DOMAIN picture : IsPrefix(picture[k], bytes)

\* A plan that publishes o over old: from a byte below which nothing changed.
Planned(o, plan, old, h) ==
    \/ plan = NoPlan /\ o.bytes = old
    \/ \E low \in 0 .. Len(old) :
         /\ low <= Len(o.bytes)
         /\ \A k \in 1 .. low : o.bytes[k] = old[k]
         /\ plan = Plan(h, o.bytes, low)

\* A guest knows the ranges r and m, which read as bytes and picture, and
\* holds nothing but what was written on top of them.
Fits(x, r, m, bytes, picture, size) ==
    /\ x.logHandle = Handle(r, size) /\ x.imageHandle = Handle(m, size)
    /\ IsPrefix(bytes, x.log.bytes) /\ TakenOf(x.image.bytes, x.log.bytes)
    /\ x.phase = "idle" => ImageOf(x.log, bytes) /\ ImageOf(x.image, picture)
    /\ x.phase # "idle" => /\ x.log.low = Clean /\ x.image.low = Clean
                           /\ Planned(x.log, x.logPlan, bytes, x.logHandle)
                           /\ Planned(x.image, x.imagePlan, picture, x.imageHandle)

Storage ==
    /\ config \in Nat \ {0}
    /\ landed.log \in Log /\ landed.image \in Seq(Log)
    /\ Stored(log, landed.log) /\ Stored(image, landed.image)
    /\ TakenOf(landed.image, landed.log)
    /\ told \subseteq Txns(landed.log)
    /\ marker \in Log \cup {NoLog} /\ backup \in Log \cup {NoLog}
    /\ marker # NoLog => landed.log = marker

\* The one guest that may write: the object's, the one that boots, or the one
\* an operation closes or a restore verifies.
Keeper == IF live # 0 THEN live ELSE IF booting # 0 THEN booting ELSE op.at

FitsNow(x) == Fits(x, log, image, landed.log, landed.image, config)

Guests ==
    /\ inst = [i \in Slot |-> inst[i]]
    /\ \A i \in Slot : Guest(inst[i])
    /\ \A i \in Slot : Usable(inst[i]) =>
         /\ i = Keeper
         /\ inst[i].phase \in {"idle", "staged", "opening"} => FitsNow(inst[i])
         /\ inst[i].phase # "marker" /\ marker # NoLog => op.pc = "clear" /\ i = op.at

References ==
    /\ live \in 0 .. MaxInstances /\ booting \in 0 .. MaxInstances
    /\ live = 0 \/ booting = 0
    /\ live # 0 => Opened(live) /\ marker = NoLog
    /\ \A i \in Slot : inst[i].phase \in Booting <=> booting = i

HoldType == [state : {"away", "waiting", "holds", "calls"}, at : 0 .. MaxInstances,
             call : {"none", "write", "close"}]

\* A caller keeps a slot that is taken, and holds a guest that has booted.
Holders ==
    /\ hold \in [Holder -> HoldType]
    /\ \A h \in Holder :
        /\ hold[h].state = "away" => hold[h] = Away
        /\ hold[h].state # "away" => hold[h].at # 0 /\ inst[hold[h].at].phase # "free"
        /\ hold[h].state \in {"holds", "calls"} => Opened(hold[h].at)

\* Whoever waits in a gate is calling that guest.
Waits(c, i) ==
    /\ c = "op" => op.pc = "call" /\ op.at = i
    /\ c = "fence" => op.pc = "fencing" /\ op.at = i
    /\ c \in Holder => hold[c].state = "calls" /\ hold[c].at = i

Gates ==
    \A i \in Slot : \A k \in 1 .. Len(inst[i].gate) : Waits(inst[i].gate[k], i)

Kind == {"none", "write", "checkpoint", "query", "export", "recycle", "restore"}
PCs(kind) == CASE kind = "none" -> {"none"}
               [] kind \in {"write", "checkpoint", "query", "export"} -> {"boot", "call"}
               [] kind = "recycle" -> {"call"}
               [] kind = "restore" -> {"peek", "fence", "fencing", "awaitBoot", "target",
                                       "publish", "reopen", "clear"}

OpOf(o) == [kind |-> o.kind, pc |-> o.pc, at |-> o.at, who |-> o.who,
            bytes |-> o.bytes, replace |-> o.replace, expected |-> o.expected,
            prior |-> o.prior, target |-> o.target]

\* A restore from its fence on: no guest is left when it looks at the target.
Fenced == {"fencing", "awaitBoot", "target", "publish", "reopen", "clear"}
Alone == {"target", "publish", "reopen", "clear"}

Operation ==
    /\ op = OpOf(op)
    /\ op.kind \in Kind /\ op.pc \in PCs(op.kind) /\ op.at \in 0 .. MaxInstances
    /\ op.kind = "none" => op = Idle
    /\ op.kind = "write" => op.who \in Writer
    /\ op.kind = "restore" => op.bytes \in Log /\ Replays(op.bytes) /\ op.replace \in BOOLEAN
    /\ op.pc \in {"boot", "awaitBoot"} => op.at # 0 /\ op.at \in {live, booting}
    /\ op.pc \in {"call", "fencing"} =>
         op.at # 0 /\ booting = 0 /\ live = (IF op.kind = "recycle" THEN 0 ELSE op.at)
    /\ op.pc \in {"call", "fencing"} => Opened(op.at)
    /\ op.pc \in Fenced => fence # "open"
    /\ op.pc \in Alone => live = 0 /\ booting = 0
    /\ op.pc \in {"peek", "fence", "target", "publish", "reopen"} => op.at = 0
    /\ op.pc = "publish" =>
         op.target = <<log, image>> /\ landed.log = IF op.replace THEN op.expected ELSE <<>>
    /\ op.pc = "clear" =>
         /\ op.at # 0 /\ inst[op.at].phase = "idle" /\ inst[op.at].gate = <<>>
         /\ \A h \in Holder : hold[h].at # op.at

Spending == spent \in [{"checkpoints", "restores", "recycles", "crashes", "faults"} -> Nat]

\* A boot is always awaited by somebody.
Awaited == booting # 0 => op.at = booting \/ \E h \in Holder : hold[h].at = booting

IInv == /\ Storage /\ Guests /\ References /\ Holders /\ Gates /\ Operation
        /\ Awaited /\ Spending

-----------------------------------------------------------------------------
(* Sequences.                                                              *)

LEMMA PrefixMeans ==
    ASSUME NEW S, NEW s \in Seq(S), NEW t \in Seq(S)
    PROVE  IsPrefix(s, t) <=> Len(s) <= Len(t) /\ \A i \in 1 .. Len(s) : s[i] = t[i]
  <1>1. Len(s) \in Nat /\ Len(t) \in Nat BY LenProperties
  <1>2. ASSUME Len(s) <= Len(t)
        PROVE  /\ SubSeq(t, 1, Len(s)) \in Seq(S) /\ Len(SubSeq(t, 1, Len(s))) = Len(s)
               /\ \A i \in 1 .. Len(s) : SubSeq(t, 1, Len(s))[i] = t[i]
    <2>1. \A i \in 1 .. Len(s) : t[i] \in S BY <1>1, <1>2, ElementOfSeq
    <2>2. /\ SubSeq(t, 1, Len(s)) \in Seq(S)
          /\ Len(SubSeq(t, 1, Len(s))) = IF 1 <= Len(s) THEN Len(s) - 1 + 1 ELSE 0
          /\ \A i \in 1 .. Len(s) - 1 + 1 : SubSeq(t, 1, Len(s))[i] = t[1 + i - 1]
      BY <1>1, <2>1, SubSeqProperties
    <2>3. Len(s) - 1 + 1 = Len(s) /\ \A i \in 1 .. Len(s) : 1 + i - 1 = i BY <1>1
    <2>4. 1 <= Len(s) \/ Len(s) = 0 BY <1>1
    <2> QED BY <2>2, <2>3, <2>4
  <1>3. SubSeq(s, 1, Len(s)) = s BY SubSeqFull
  <1>4. ASSUME Len(s) <= Len(t), \A i \in 1 .. Len(s) : s[i] = t[i]
        PROVE  s = SubSeq(t, 1, Len(s))
    <2>1. Len(s) = Len(SubSeq(t, 1, Len(s))) BY <1>2, <1>4
    <2>2. \A i \in 1 .. Len(s) : s[i] = SubSeq(t, 1, Len(s))[i] BY <1>2, <1>4
    <2> QED BY <1>2, <1>4, <2>1, <2>2, SeqEqual
  <1> QED BY <1>2, <1>3, <1>4 DEF IsPrefix

LEMMA PrefixSelf ==
    ASSUME NEW S, NEW s \in Seq(S)
    PROVE  IsPrefix(s, s) /\ IsPrefix(<<>>, s)
  <1>1. <<>> \in Seq(S) /\ Len(<<>>) = 0 /\ Len(s) \in Nat BY EmptySeq, LenProperties
  <1>2. IsPrefix(s, s) BY <1>1, PrefixMeans
  <1>3. IsPrefix(<<>>, s)
    <2>1. Len(<<>>) <= Len(s) /\ \A i \in 1 .. Len(<<>>) : <<>>[i] = s[i] BY <1>1
    <2> QED BY <1>1, <2>1, PrefixMeans
  <1> QED BY <1>2, <1>3

LEMMA PrefixOf ==
    ASSUME NEW S, NEW s \in Seq(S), NEW t \in Seq(S), NEW u \in Seq(S),
           IsPrefix(s, t), IsPrefix(t, u)
    PROVE  IsPrefix(s, u)
  <1>1. Len(s) \in Nat /\ Len(t) \in Nat /\ Len(u) \in Nat BY LenProperties
  <1>2. Len(s) <= Len(t) /\ Len(t) <= Len(u) BY PrefixMeans
  <1>3. \A i \in 1 .. Len(s) : s[i] = t[i] BY PrefixMeans
  <1>4. \A i \in 1 .. Len(t) : t[i] = u[i] BY PrefixMeans
  <1>5. \A i \in 1 .. Len(s) : i \in 1 .. Len(t) BY <1>1, <1>2
  <1>6. Len(s) <= Len(u) /\ \A i \in 1 .. Len(s) : s[i] = u[i]
    BY <1>1, <1>2, <1>3, <1>4, <1>5
  <1> QED BY <1>6, PrefixMeans

LEMMA PrefixConcat ==
    ASSUME NEW S, NEW s \in Seq(S), NEW t \in Seq(S)
    PROVE  s \o t \in Seq(S) /\ IsPrefix(s, s \o t) /\ Len(s \o t) = Len(s) + Len(t)
  <1>1. Len(s) \in Nat /\ Len(t) \in Nat BY LenProperties
  <1>2. /\ s \o t \in Seq(S) /\ Len(s \o t) = Len(s) + Len(t)
        /\ \A i \in 1 .. Len(s) + Len(t) :
              (s \o t)[i] = IF i <= Len(s) THEN s[i] ELSE t[i - Len(s)]
    BY ConcatProperties
  <1>3. Len(s) <= Len(s \o t) /\ \A i \in 1 .. Len(s) : s[i] = (s \o t)[i] BY <1>1, <1>2
  <1> QED BY <1>2, <1>3, PrefixMeans

LEMMA PrefixTxns ==
    ASSUME NEW S, NEW s \in Seq(S), NEW t \in Seq(S), IsPrefix(s, t)
    PROVE  Txns(s) \subseteq Txns(t)
  <1>1. /\ DOMAIN s = 1 .. Len(s) /\ DOMAIN t = 1 .. Len(t)
        /\ Len(s) \in Nat /\ Len(t) \in Nat
    BY LenProperties
  <1>2. Len(s) <= Len(t) /\ \A i \in 1 .. Len(s) : s[i] = t[i] BY PrefixMeans
  <1>3. \A i \in DOMAIN s : i \in DOMAIN t /\ s[i] = t[i] BY <1>1, <1>2
  <1> QED BY <1>3 DEF Txns

-----------------------------------------------------------------------------
(* One guest.                                                              *)

LEMMA LineEmpty == Line(<<>>)
  BY EmptySeq DEF Line

LEMMA LineAppend ==
    ASSUME NEW g, Line(g), NEW c \in Caller, \A k \in 1 .. Len(g) : g[k] # c
    PROVE  /\ Line(Append(g, c)) /\ Append(g, c) # <<>> /\ Len(Append(g, c)) = Len(g) + 1
           /\ \A k \in 1 .. Len(g) : Append(g, c)[k] = g[k]
           /\ Append(g, c)[Len(g) + 1] = c
           /\ g # <<>> => Head(Append(g, c)) = Head(g)
  <1>1. g \in Seq(Caller) /\ Len(g) \in Nat BY LenProperties DEF Line
  <1>2. /\ Append(g, c) \in Seq(Caller) /\ Len(Append(g, c)) = Len(g) + 1
        /\ \A k \in 1 .. Len(g) : Append(g, c)[k] = g[k]
        /\ Append(g, c)[Len(g) + 1] = c
    BY <1>1, AppendProperties
  <1>3. ASSUME NEW j \in 1 .. Len(g) + 1, NEW k \in 1 .. Len(g) + 1,
               Append(g, c)[j] = Append(g, c)[k]
        PROVE  j = k
    <2>1. (j \in 1 .. Len(g) \/ j = Len(g) + 1) /\ (k \in 1 .. Len(g) \/ k = Len(g) + 1)
      BY <1>1
    <2>2. \A l, n \in 1 .. Len(g) : g[l] = g[n] => l = n BY DEF Line
    <2> QED BY <1>2, <1>3, <2>1, <2>2
  <1>4. Append(g, c) # <<>> BY <1>1, <1>2, EmptySeq
  <1>5. ASSUME g # <<>> PROVE Head(Append(g, c)) = Head(g)
    <2>1. 1 \in 1 .. Len(g) BY <1>1, <1>5, EmptySeq
    <2>2. Head(g) = g[1] /\ Head(Append(g, c)) = Append(g, c)[1] OBVIOUS
    <2> QED BY <1>2, <2>1, <2>2
  <1>6. Line(Append(g, c)) BY <1>2, <1>3 DEF Line
  <1> QED BY <1>2, <1>4, <1>5, <1>6

LEMMA LineTail ==
    ASSUME NEW g, Line(g), g # <<>>
    PROVE  /\ Line(Tail(g)) /\ Head(g) \in Caller /\ Head(g) = g[1] /\ 1 \in 1 .. Len(g)
           /\ \A k \in 1 .. Len(Tail(g)) : /\ k + 1 \in 1 .. Len(g)
                                           /\ Tail(g)[k] = g[k + 1] /\ Tail(g)[k] # Head(g)
  <1>1. g \in Seq(Caller) /\ Len(g) \in Nat BY LenProperties DEF Line
  <1>2. 1 \in 1 .. Len(g) BY <1>1, EmptySeq
  <1>3. /\ Tail(g) \in Seq(Caller) /\ Len(Tail(g)) = Len(g) - 1
        /\ \A k \in 1 .. Len(Tail(g)) : Tail(g)[k] = g[k + 1]
        /\ Head(g) \in Caller
    BY <1>1, HeadTailProperties
  <1>4. Head(g) = g[1] OBVIOUS
  <1>5. ASSUME NEW k \in 1 .. Len(Tail(g))
        PROVE  k + 1 \in 1 .. Len(g) /\ k + 1 # 1 /\ k \in Int
    BY <1>1, <1>3
  <1>6. \A j, k \in 1 .. Len(g) : g[j] = g[k] => j = k BY DEF Line
  <1>7. ASSUME NEW k \in 1 .. Len(Tail(g)) PROVE Tail(g)[k] # Head(g)
    BY <1>2, <1>3, <1>4, <1>5, <1>6
  <1>8. ASSUME NEW j \in 1 .. Len(Tail(g)), NEW k \in 1 .. Len(Tail(g)),
               Tail(g)[j] = Tail(g)[k]
        PROVE  j = k
    <2>1. j + 1 = k + 1 BY <1>3, <1>5, <1>6, <1>8
    <2> QED BY <1>5, <2>1
  <1>9. Line(Tail(g)) BY <1>3, <1>8 DEF Line
  <1> QED BY <1>2, <1>3, <1>4, <1>5, <1>7, <1>9

\* The fields of a guest are all it is.
LEMMA GuestIs ==
    ASSUME NEW x,
           x = GuestOf(x),
           x.phase \in Booting \cup {"free", "idle", "staged"},
           x.log \in [bytes : Log, low : Int], x.image \in [bytes : Seq(Log), low : Int],
           x.poisoned \in BOOLEAN, x.closed \in BOOLEAN, Line(x.gate),
           x.phase # "idle" => ~x.poisoned /\ ~x.closed,
           x.phase \in Booting \cup {"free"} => x.gate = <<>>,
           x.phase = "staged" => x.gate # <<>> /\ Head(x.gate) # "fence"
    PROVE  Guest(x)
  BY DEF Guest

\* A guest in another phase.
LEMMA PhaseTo ==
    ASSUME NEW x, x = GuestOf(x), NEW p, NEW y, y = [x EXCEPT !.phase = p]
    PROVE  y = [phase |-> p, log |-> x.log, image |-> x.image,
                logHandle |-> x.logHandle, imageHandle |-> x.imageHandle,
                poisoned |-> x.poisoned, closed |-> x.closed, gate |-> x.gate,
                logPlan |-> x.logPlan, imagePlan |-> x.imagePlan]
  BY DEF GuestOf

\* A guest that is poisoned, with another gate.
PoisonedWith(x, g) == [x EXCEPT !.poisoned = TRUE, !.gate = g]

LEMMA FencedFields ==
    ASSUME NEW x, x = GuestOf(x), NEW g, NEW y, y = PoisonedWith(x, g)
    PROVE  y = [phase |-> x.phase, log |-> x.log, image |-> x.image,
                logHandle |-> x.logHandle, imageHandle |-> x.imageHandle,
                poisoned |-> TRUE, closed |-> x.closed, gate |-> g,
                logPlan |-> x.logPlan, imagePlan |-> x.imagePlan]
  BY DEF GuestOf, PoisonedWith

LEMMA FinishedFields ==
    ASSUME NEW x, x = GuestOf(x), NEW closes, NEW y,
           y = [x EXCEPT !.gate = Tail(@), !.phase = "idle", !.closed = @ \/ closes,
                         !.logPlan = NoPlan, !.imagePlan = NoPlan]
    PROVE  y = [phase |-> "idle", log |-> x.log, image |-> x.image,
                logHandle |-> x.logHandle, imageHandle |-> x.imageHandle,
                poisoned |-> x.poisoned, closed |-> x.closed \/ closes,
                gate |-> Tail(x.gate), logPlan |-> NoPlan, imagePlan |-> NoPlan]
  BY DEF GuestOf

LEMMA NewGuest ==
    /\ Guest(NewInstance) /\ Guest(Free)
    /\ NewInstance.phase = "marker" /\ NewInstance.gate = <<>>
    /\ Free.phase = "free" /\ Free.gate = <<>>
    /\ ~Usable(Free)
    /\ NewInstance.phase \in Booting /\ Free.phase \notin Booting
  <1> DEFINE new(p) == [phase |-> p, log |-> HostImage(<<>>), image |-> HostImage(<<>>),
                        logHandle |-> NoHandle, imageHandle |-> NoHandle,
                        poisoned |-> FALSE, closed |-> FALSE, gate |-> <<>>,
                        logPlan |-> NoPlan, imagePlan |-> NoPlan]
  <1>1. NewInstance = new("marker") /\ Free = new("free")
    <2>1. NewInstance = new("marker") BY DEF NewInstance
    <2>2. Free = [NewInstance EXCEPT !.phase = "free"] BY DEF Free
    <2>3. /\ NewInstance = GuestOf(NewInstance) /\ NewInstance.log = HostImage(<<>>)
          /\ NewInstance.image = HostImage(<<>>) /\ NewInstance.logHandle = NoHandle
          /\ NewInstance.imageHandle = NoHandle /\ NewInstance.poisoned = FALSE
          /\ NewInstance.closed = FALSE /\ NewInstance.gate = <<>>
          /\ NewInstance.logPlan = NoPlan /\ NewInstance.imagePlan = NoPlan
      BY <2>1 DEF GuestOf
    <2>4. Free = [phase |-> "free", log |-> NewInstance.log, image |-> NewInstance.image,
                  logHandle |-> NewInstance.logHandle, imageHandle |-> NewInstance.imageHandle,
                  poisoned |-> NewInstance.poisoned, closed |-> NewInstance.closed,
                  gate |-> NewInstance.gate, logPlan |-> NewInstance.logPlan,
                  imagePlan |-> NewInstance.imagePlan]
      BY <2>2, <2>3, PhaseTo
    <2> QED BY <2>1, <2>3, <2>4
  <1>2. /\ HostImage(<<>>) \in [bytes : Log, low : Int]
        /\ HostImage(<<>>) \in [bytes : Seq(Log), low : Int]
    BY EmptySeq DEF HostImage, Clean, Log
  <1>3. Guest(NewInstance)
    <2> DEFINE x == NewInstance
    <2>1. /\ x.phase = "marker" /\ x.gate = <<>> /\ x.poisoned = FALSE /\ x.closed = FALSE
          /\ x.log = HostImage(<<>>) /\ x.image = HostImage(<<>>)
          /\ x = GuestOf(x)
      BY <1>1 DEF GuestOf
    <2> HIDE DEF x
    <2>2. Guest(x) BY <1>2, <2>1, LineEmpty DEF Guest, Booting
    <2> QED BY <2>2 DEF x
  <1>4. Guest(Free)
    <2> DEFINE x == Free
    <2>1. /\ x.phase = "free" /\ x.gate = <<>> /\ x.poisoned = FALSE /\ x.closed = FALSE
          /\ x.log = HostImage(<<>>) /\ x.image = HostImage(<<>>)
          /\ x = GuestOf(x)
      BY <1>1 DEF GuestOf
    <2> HIDE DEF x
    <2>2. Guest(x) BY <1>2, <2>1, LineEmpty DEF Guest, Booting
    <2> QED BY <2>2 DEF x
  <1>5. /\ NewInstance.phase = "marker" /\ NewInstance.gate = <<>>
        /\ Free.phase = "free" /\ Free.gate = <<>>
    BY <1>1
  <1> QED BY <1>3, <1>4, <1>5 DEF Usable, Booting

\* What a step that leaves the host images alone keeps.
SameBytes(x, y) ==
    /\ y.log = x.log /\ y.image = x.image
    /\ y.logHandle = x.logHandle /\ y.imageHandle = x.imageHandle

LEMMA GuestAdmit ==
    ASSUME NEW x, Guest(x), x.phase \notin Booting \cup {"free"},
           NEW c \in Caller, \A k \in 1 .. Len(x.gate) : x.gate[k] # c,
           NEW y, y = [x EXCEPT !.gate = Append(x.gate, c)]
    PROVE  /\ Guest(y) /\ y.phase = x.phase /\ y.poisoned = x.poisoned /\ y.closed = x.closed
           /\ SameBytes(x, y) /\ y.logPlan = x.logPlan /\ y.imagePlan = x.imagePlan
           /\ y.gate = Append(x.gate, c)
  <1>1. y = [phase |-> x.phase, log |-> x.log, image |-> x.image,
             logHandle |-> x.logHandle, imageHandle |-> x.imageHandle,
             poisoned |-> x.poisoned, closed |-> x.closed, gate |-> Append(x.gate, c),
             logPlan |-> x.logPlan, imagePlan |-> x.imagePlan]
    BY DEF Guest, GuestOf
  <1>2. /\ y.phase = x.phase /\ y.poisoned = x.poisoned /\ y.closed = x.closed
        /\ y.log = x.log /\ y.image = x.image
        /\ y.logHandle = x.logHandle /\ y.imageHandle = x.imageHandle
        /\ y.logPlan = x.logPlan /\ y.imagePlan = x.imagePlan /\ y.gate = Append(x.gate, c)
    BY <1>1
  <1>3. Line(x.gate) BY DEF Guest
  <1>4. Line(y.gate) /\ y.gate # <<>> /\ (x.gate # <<>> => Head(y.gate) = Head(x.gate))
    BY <1>2, <1>3, LineAppend
  <1>5. Guest(y) BY <1>1, <1>2, <1>4 DEF Guest, GuestOf
  <1> QED BY <1>2, <1>5 DEF SameBytes

\* What is forgotten fits any type.
LEMMA NoBytes ==
    /\ HostImage(<<>>) \in [bytes : Log, low : Int]
    /\ HostImage(<<>>) \in [bytes : Seq(Log), low : Int]
  BY EmptySeq DEF HostImage, Clean, Log

LEMMA GuestDead ==
    ASSUME NEW x, Guest(x), x.phase = "idle", NEW g, Line(g),
           NEW y, y = Dead(PoisonedWith(x, g))
    PROVE  Guest(y) /\ y.phase = "idle" /\ ~Usable(y) /\ y.gate = g
  <1> DEFINE z == PoisonedWith(x, g)
  <1>1. /\ z = GuestOf(z) /\ z.phase = x.phase /\ z.gate = g /\ z.poisoned = TRUE
        /\ z.closed = x.closed
    <2>1. z = [phase |-> x.phase, log |-> x.log, image |-> x.image,
               logHandle |-> x.logHandle, imageHandle |-> x.imageHandle,
               poisoned |-> TRUE, closed |-> x.closed, gate |-> g,
               logPlan |-> x.logPlan, imagePlan |-> x.imagePlan]
      <3>1. x = GuestOf(x) BY DEF Guest
      <3> QED BY ONLY <3>1, FencedFields
    <2> HIDE DEF z
    <2> QED BY ONLY <2>1 DEF GuestOf
  <1> HIDE DEF z
  <1>2. y = [phase |-> z.phase, log |-> HostImage(<<>>), image |-> HostImage(<<>>),
             logHandle |-> NoHandle, imageHandle |-> NoHandle,
             poisoned |-> z.poisoned, closed |-> z.closed, gate |-> z.gate,
             logPlan |-> z.logPlan, imagePlan |-> z.imagePlan]
    <2>1. y = Dead(z) BY DEF z
    <2> QED BY ONLY <1>1, <2>1 DEF Dead, GuestOf
  <1>3. /\ y.phase = "idle" /\ y.log = HostImage(<<>>) /\ y.image = HostImage(<<>>)
        /\ y.poisoned = TRUE /\ y.closed = x.closed /\ y.gate = g /\ y = GuestOf(y)
    BY ONLY <1>1, <1>2, x.phase = "idle" DEF GuestOf
  <1>4. x.closed \in BOOLEAN BY DEF Guest
  <1>5. Guest(y) BY ONLY <1>3, <1>4, NoBytes, Line(g) DEF Guest, Booting
  <1> QED BY <1>3, <1>5 DEF Usable

LEMMA GuestFinished ==
    ASSUME NEW x, x = GuestOf(x), Line(x.gate), x.gate # <<>>,
           x.poisoned \in BOOLEAN, x.closed \in BOOLEAN,
           x.log \in [bytes : Log, low : Int], x.image \in [bytes : Seq(Log), low : Int],
           NEW closes \in BOOLEAN, NEW y, y = Finished(x, closes)
    PROVE  /\ Guest(y) /\ y.phase = "idle" /\ y.gate = Tail(x.gate)
           /\ y.poisoned = x.poisoned /\ y.closed = (x.closed \/ closes)
           /\ Usable(y) => SameBytes(x, y)
  <1> DEFINE z == [x EXCEPT !.gate = Tail(@), !.phase = "idle", !.closed = @ \/ closes,
                            !.logPlan = NoPlan, !.imagePlan = NoPlan]
  <1>1. z = [phase |-> "idle", log |-> x.log, image |-> x.image,
             logHandle |-> x.logHandle, imageHandle |-> x.imageHandle,
             poisoned |-> x.poisoned, closed |-> x.closed \/ closes, gate |-> Tail(x.gate),
             logPlan |-> NoPlan, imagePlan |-> NoPlan]
    <2>1. x = GuestOf(x) OBVIOUS
    <2> QED BY ONLY <2>1, FinishedFields
  <1>2. y = IF z.closed \/ z.poisoned THEN Dead(z) ELSE z BY DEF Finished
  <1> HIDE DEF z
  <1>3. /\ z.phase = "idle" /\ SameBytes(x, z) /\ z.poisoned = x.poisoned
        /\ z.closed = (x.closed \/ closes) /\ z.gate = Tail(x.gate) /\ z = GuestOf(z)
        /\ z.log = x.log /\ z.image = x.image
    BY ONLY <1>1 DEF SameBytes, GuestOf
  <1>4. Line(x.gate) /\ x.poisoned \in BOOLEAN /\ (x.closed \/ closes) \in BOOLEAN
        /\ x.log \in [bytes : Log, low : Int] /\ x.image \in [bytes : Seq(Log), low : Int]
    OBVIOUS
  <1>5. Line(Tail(x.gate)) BY <1>4, LineTail
  <1>6. CASE z.closed \/ z.poisoned
    <2>1. y = [phase |-> z.phase, log |-> HostImage(<<>>), image |-> HostImage(<<>>),
               logHandle |-> NoHandle, imageHandle |-> NoHandle,
               poisoned |-> z.poisoned, closed |-> z.closed, gate |-> z.gate,
               logPlan |-> z.logPlan, imagePlan |-> z.imagePlan]
      <3>1. y = Dead(z) BY <1>2, <1>6
      <3> QED BY ONLY <1>3, <3>1 DEF Dead, GuestOf
    <2>2. /\ y.phase = z.phase /\ y.log = HostImage(<<>>) /\ y.image = HostImage(<<>>)
          /\ y.poisoned = z.poisoned /\ y.closed = z.closed /\ y.gate = z.gate /\ y = GuestOf(y)
      BY ONLY <2>1 DEF GuestOf
    <2>3. Guest(y) BY ONLY <1>3, <1>4, <1>5, <2>2, NoBytes DEF Guest, Booting
    <2> QED BY ONLY <1>3, <1>6, <2>2, <2>3 DEF Usable
  <1>7. CASE ~(z.closed \/ z.poisoned)
    <2>1. y = z BY <1>2, <1>7
    <2>2. Guest(z) BY ONLY <1>3, <1>4, <1>5 DEF Guest, Booting
    <2> QED BY ONLY <1>3, <2>1, <2>2
  <1> QED BY <1>6, <1>7

-----------------------------------------------------------------------------
(* A guest and the storage.                                                *)

\* fram_transact() appended one byte.
LEMMA WriteFits ==
    ASSUME NEW x, Guest(x), x.phase = "idle", NEW b \in LogByte,
           NEW r, NEW m, NEW bytes \in Log, NEW picture \in Seq(Log), NEW size,
           Fits(x, r, m, bytes, picture, size),
           NEW y, y = [x EXCEPT !.log = AppendBytes(@, <<b>>)]
    PROVE  /\ Guest(y) /\ Fits(y, r, m, bytes, picture, size) /\ Dirty(y.log)
           /\ y.phase = x.phase /\ y.gate = x.gate
           /\ y.poisoned = x.poisoned /\ y.closed = x.closed
  <1> DEFINE o == AppendBytes(x.log, <<b>>)
  <1>1. y = [phase |-> x.phase, log |-> o, image |-> x.image,
             logHandle |-> x.logHandle, imageHandle |-> x.imageHandle,
             poisoned |-> x.poisoned, closed |-> x.closed, gate |-> x.gate,
             logPlan |-> x.logPlan, imagePlan |-> x.imagePlan]
    BY DEF Guest, GuestOf
  <1>2. x.log \in [bytes : Log, low : Int] /\ <<b>> \in Seq(LogByte) BY DEF Guest
  <1>3. ImageOf(x.log, bytes) BY DEF Fits
  <1>4. o \in [bytes : Log, low : Int] /\ ImageOf(o, bytes)
    BY <1>2, <1>3, LowWaterHonest, 0 \in Nat DEF Log
  <1>5. Dirty(o)
    <2>1. o.low = Lower(x.log.low, Len(x.log.bytes)) BY DEF AppendBytes
    <2>2. Len(x.log.bytes) \in Nat /\ x.log.low \in Int BY <1>2, LenProperties DEF Log
    <2> QED BY <2>1, <2>2 DEF Lower, Dirty, Clean
  <1>6. IsPrefix(x.log.bytes, o.bytes) /\ o.bytes \in Log
    <2>1. o.bytes = x.log.bytes \o <<b>> BY DEF AppendBytes
    <2>2. x.log.bytes \in Seq(LogByte) BY <1>2 DEF Log
    <2> QED BY <1>2, <2>1, <2>2, PrefixConcat DEF Log
  <1> HIDE DEF o
  <1>7. /\ y.phase = x.phase /\ y.log = o /\ y.image = x.image
        /\ y.logHandle = x.logHandle /\ y.imageHandle = x.imageHandle
        /\ y.poisoned = x.poisoned /\ y.closed = x.closed /\ y.gate = x.gate /\ y = GuestOf(y)
    BY ONLY <1>1 DEF GuestOf
  <1>8. Guest(y) BY <1>4, <1>7 DEF Guest
  <1>9. IsPrefix(bytes, o.bytes)
    BY <1>2, <1>6, PrefixOf DEF Fits, Log
  <1>10. TakenOf(x.image.bytes, o.bytes)
    <2>1. x.image.bytes \in Seq(Log) /\ TakenOf(x.image.bytes, x.log.bytes) BY DEF Guest, Fits
    <2>2. \A k \in DOMAIN x.image.bytes : x.image.bytes[k] \in Seq(LogByte)
      BY <2>1, LenProperties, ElementOfSeq DEF Log
    <2> QED BY <1>2, <1>6, <2>1, <2>2, PrefixOf DEF TakenOf, Log
  <1>11. Fits(y, r, m, bytes, picture, size) BY <1>4, <1>7, <1>9, <1>10 DEF Fits
  <1> QED BY <1>5, <1>7, <1>8, <1>11

\* A checkpoint truncated the image and wrote one of length n.
Pictured(x, n) ==
    [x EXCEPT !.image = AppendBytes(Truncate(@, 0), [k \in 1 .. n |-> x.log.bytes])]

LEMMA CheckpointFits ==
    ASSUME NEW x, Guest(x), x.phase = "idle", NEW n \in Nat \ {0},
           NEW r, NEW m, NEW bytes \in Log, NEW picture \in Seq(Log), NEW size,
           Fits(x, r, m, bytes, picture, size),
           NEW y, y = Pictured(x, n)
    PROVE  /\ Guest(y) /\ Fits(y, r, m, bytes, picture, size) /\ Dirty(y.image)
           /\ y.phase = x.phase /\ y.gate = x.gate
           /\ y.poisoned = x.poisoned /\ y.closed = x.closed
  <1> DEFINE s == [k \in 1 .. n |-> x.log.bytes]
             t == Truncate(x.image, 0)
             o == AppendBytes(t, s)
  <1>1. y = [phase |-> x.phase, log |-> x.log, image |-> o,
             logHandle |-> x.logHandle, imageHandle |-> x.imageHandle,
             poisoned |-> x.poisoned, closed |-> x.closed, gate |-> x.gate,
             logPlan |-> x.logPlan, imagePlan |-> x.imagePlan]
    BY DEF Guest, GuestOf, Pictured
  <1>2. /\ x.image \in [bytes : Seq(Log), low : Int] /\ x.log.bytes \in Log
        /\ Len(x.image.bytes) \in Nat
    BY LenProperties DEF Guest
  <1>3. s \in Seq(Log) /\ Len(s) = n /\ \A k \in 1 .. n : s[k] = x.log.bytes
    BY <1>2
  <1> HIDE DEF s
  <1>4. ImageOf(x.image, picture) BY DEF Fits
  <1>5. t \in [bytes : Seq(Log), low : Int] /\ ImageOf(t, picture)
    BY <1>2, <1>3, <1>4, LowWaterHonest, 0 \in Nat
  <1>6. t.bytes = <<>> /\ Dirty(t)
    <2>1. t = [bytes |-> SubSeq(x.image.bytes, 1, 0), low |-> Lower(x.image.low, 0)]
      BY <1>2 DEF Truncate
    <2>2. SubSeq(x.image.bytes, 1, 0) = <<>> BY SubSeqEmpty
    <2> QED BY <1>2, <2>1, <2>2 DEF Dirty, Lower, Clean
  <1> HIDE DEF t
  <1>7. o \in [bytes : Seq(Log), low : Int] /\ ImageOf(o, picture)
    BY <1>3, <1>5, LowWaterHonest, 0 \in Nat
  <1>8. o.bytes = s /\ Dirty(o)
    <2>1. o = [bytes |-> <<>> \o s, low |-> Lower(t.low, 0)]
      BY <1>6, EmptySeq DEF AppendBytes
    <2>2. <<>> \o s = s BY <1>3, ConcatEmptySeq
    <2>3. t.low \in Int BY <1>5
    <2> QED BY <1>6, <2>1, <2>2, <2>3 DEF Dirty, Lower, Clean
  <1> HIDE DEF o
  <1>9. /\ y.phase = x.phase /\ y.log = x.log /\ y.image = o
        /\ y.logHandle = x.logHandle /\ y.imageHandle = x.imageHandle
        /\ y.poisoned = x.poisoned /\ y.closed = x.closed /\ y.gate = x.gate /\ y = GuestOf(y)
    BY ONLY <1>1 DEF GuestOf
  <1>10. Guest(y) BY <1>7, <1>9 DEF Guest
  <1>11. TakenOf(o.bytes, x.log.bytes)
    <2>1. IsPrefix(x.log.bytes, x.log.bytes) BY <1>2, PrefixSelf DEF Log
    <2>2. DOMAIN s = 1 .. n BY <1>3, LenProperties
    <2> QED BY <1>3, <1>8, <2>1, <2>2 DEF TakenOf
  <1>12. Fits(y, r, m, bytes, picture, size) BY <1>7, <1>9, <1>11 DEF Fits
  <1> QED BY <1>8, <1>9, <1>10, <1>12

\* What a guest between two calls knows.
Knows(x, r, m, bytes, picture, size) ==
    /\ x.logHandle = Handle(r, size) /\ x.imageHandle = Handle(m, size)
    /\ IsPrefix(bytes, x.log.bytes) /\ TakenOf(x.image.bytes, x.log.bytes)
    /\ ImageOf(x.log, bytes) /\ ImageOf(x.image, picture)

\* A dirty range is planned from its low-water mark, a clean one is as stored.
LEMMA RangeStaged ==
    ASSUME NEW Byte, NEW o \in [bytes : Seq(Byte), low : Int], NEW old \in Seq(Byte),
           ImageOf(o, old), NEW h,
           NEW plan, plan = IF Dirty(o) THEN Plan(h, o.bytes, o.low) ELSE NoPlan
    PROVE  /\ Planned(TakeCommit(o), plan, old, h)
           /\ TakeCommit(o) \in [bytes : Seq(Byte), low : Int]
           /\ TakeCommit(o).low = Clean /\ TakeCommit(o).bytes = o.bytes
  <1> DEFINE c == TakeCommit(o)
  <1>1. c = [bytes |-> o.bytes, low |-> Clean] BY DEF TakeCommit
  <1> HIDE DEF c
  <1>2. c.low = Clean /\ c.bytes = o.bytes BY <1>1
  <1>3. ASSUME Dirty(o) PROVE Planned(c, plan, old, h)
    <2>1. /\ o.low \in 0 .. Len(old) /\ o.low <= Len(c.bytes)
          /\ \A k \in 1 .. o.low : c.bytes[k] = old[k]
      BY <1>2, <1>3 DEF ImageOf, Dirty
    <2>2. plan = Plan(h, c.bytes, o.low) BY <1>2, <1>3
    <2> QED BY <2>1, <2>2 DEF Planned
  <1>4. ASSUME ~Dirty(o) PROVE Planned(c, plan, old, h)
    <2>1. ~(o.low \in 0 .. Len(old)) BY <1>4 DEF Dirty, Clean
    <2>2. c.bytes = old BY <1>2, <2>1 DEF ImageOf
    <2>3. plan = NoPlan BY <1>4
    <2> QED BY <2>2, <2>3 DEF Planned
  <1>5. c \in [bytes : Seq(Byte), low : Int] BY <1>1 DEF Clean
  <1> QED BY <1>2, <1>3, <1>4, <1>5 DEF c

LEMMA StagedFields ==
    ASSUME NEW x, x = GuestOf(x), NEW p, NEW q, NEW y,
           y = [x EXCEPT !.logPlan = p, !.imagePlan = q,
                         !.log = TakeCommit(@), !.image = TakeCommit(@)]
    PROVE  y = [phase |-> x.phase, log |-> TakeCommit(x.log), image |-> TakeCommit(x.image),
                logHandle |-> x.logHandle, imageHandle |-> x.imageHandle,
                poisoned |-> x.poisoned, closed |-> x.closed, gate |-> x.gate,
                logPlan |-> p, imagePlan |-> q]
  BY DEF GuestOf

\* A guest, and the same guest with its commit staged.
Bytes(x) ==
    x = GuestOf(x) /\ x.log \in [bytes : Log, low : Int] /\ x.image \in [bytes : Seq(Log), low : Int]

StagedAt(x, phase) == [Stage(x) EXCEPT !.phase = phase]

Staged(x, y, phase) ==
    /\ Bytes(y) /\ y.phase = phase /\ y.gate = x.gate
    /\ y.poisoned = x.poisoned /\ y.closed = x.closed /\ y.log.bytes = x.log.bytes

LEMMA StagedFits ==
    ASSUME NEW x, Bytes(x), NEW phase, phase # "idle",
           NEW r, NEW m, NEW bytes \in Log, NEW picture \in Seq(Log), NEW size,
           Knows(x, r, m, bytes, picture, size)
    PROVE  /\ Fits(StagedAt(x, phase), r, m, bytes, picture, size)
           /\ Staged(x, StagedAt(x, phase), phase)
  <1>1. PICK y : y = StagedAt(x, phase) OBVIOUS
  <1>2. x = GuestOf(x) /\ x.log \in [bytes : Log, low : Int]
         /\ x.image \in [bytes : Seq(Log), low : Int]
    BY DEF Bytes
  <1> DEFINE p == IF Dirty(x.log) THEN Plan(x.logHandle, x.log.bytes, x.log.low) ELSE NoPlan
             q == IF Dirty(x.image) THEN Plan(x.imageHandle, x.image.bytes, x.image.low)
                  ELSE NoPlan
             z == Stage(x)
  <1>3. z = [x EXCEPT !.logPlan = p, !.imagePlan = q,
                      !.log = TakeCommit(@), !.image = TakeCommit(@)]
    BY DEF Stage
  <1>4. /\ Planned(TakeCommit(x.log), p, bytes, x.logHandle)
        /\ TakeCommit(x.log) \in [bytes : Log, low : Int]
        /\ TakeCommit(x.log).low = Clean /\ TakeCommit(x.log).bytes = x.log.bytes
    BY <1>2, RangeStaged DEF Knows, Log
  <1>5. /\ Planned(TakeCommit(x.image), q, picture, x.imageHandle)
        /\ TakeCommit(x.image) \in [bytes : Seq(Log), low : Int]
        /\ TakeCommit(x.image).low = Clean /\ TakeCommit(x.image).bytes = x.image.bytes
    BY <1>2, RangeStaged DEF Knows
  <1> HIDE DEF p, q, z
  <1>6. z = [phase |-> x.phase, log |-> TakeCommit(x.log), image |-> TakeCommit(x.image),
             logHandle |-> x.logHandle, imageHandle |-> x.imageHandle,
             poisoned |-> x.poisoned, closed |-> x.closed, gate |-> x.gate,
             logPlan |-> p, imagePlan |-> q]
    BY <1>2, <1>3, StagedFields
  <1>7. /\ z = GuestOf(z) /\ z.log = TakeCommit(x.log) /\ z.image = TakeCommit(x.image)
        /\ z.logHandle = x.logHandle /\ z.imageHandle = x.imageHandle /\ z.gate = x.gate
        /\ z.poisoned = x.poisoned /\ z.closed = x.closed /\ z.logPlan = p /\ z.imagePlan = q
    BY ONLY <1>6 DEF GuestOf
  <1>8. y = [z EXCEPT !.phase = phase] BY <1>1 DEF z, StagedAt
  <1>9. y = [phase |-> phase, log |-> z.log, image |-> z.image,
             logHandle |-> z.logHandle, imageHandle |-> z.imageHandle,
             poisoned |-> z.poisoned, closed |-> z.closed, gate |-> z.gate,
             logPlan |-> z.logPlan, imagePlan |-> z.imagePlan]
    BY ONLY <1>7, <1>8, PhaseTo
  <1>10. /\ y = GuestOf(y) /\ y.phase = phase /\ y.log = z.log /\ y.image = z.image
        /\ y.logHandle = z.logHandle /\ y.imageHandle = z.imageHandle /\ y.gate = z.gate
        /\ y.poisoned = z.poisoned /\ y.closed = z.closed
        /\ y.logPlan = z.logPlan /\ y.imagePlan = z.imagePlan
    BY ONLY <1>9 DEF GuestOf
  <1>11. Fits(y, r, m, bytes, picture, size)
    BY <1>4, <1>5, <1>7, <1>10 DEF Fits, Knows
  <1> QED BY <1>1, <1>4, <1>5, <1>7, <1>10, <1>11 DEF Staged, Bytes

\* A planned range lands: it reads as the guest's bytes, and the guest knows
\* how they are stored.
LEMMA RangeLands ==
    ASSUME NEW Byte, NEW r, NEW old \in Seq(Byte), Stored(r, old), NEW size \in Nat \ {0},
           NEW o, o.bytes \in Seq(Byte), NEW plan, Planned(o, plan, old, Handle(r, size))
    PROVE  /\ Stored(Applied(r, plan), o.bytes)
           /\ Settled(Handle(r, size), plan) = Handle(Applied(r, plan), size)
           /\ plan = NoPlan => o.bytes = old
  <1>1. CASE plan = NoPlan /\ o.bytes = old
    BY <1>1 DEF Applied, Settled
  <1>2. ASSUME NEW low \in 0 .. Len(old), low <= Len(o.bytes),
               \A k \in 1 .. low : o.bytes[k] = old[k],
               plan = Plan(Handle(r, size), o.bytes, low)
        PROVE  /\ Stored(Applied(r, plan), o.bytes)
               /\ Settled(Handle(r, size), plan) = Handle(Applied(r, plan), size)
               /\ plan # NoPlan
    <2>1. StoredRange(r) /\ ReadsAs(r, old) BY DEF Stored
    <2>2. /\ StoredRange(ApplyPlan(r, plan)) /\ ReadsAs(ApplyPlan(r, plan), o.bytes)
          /\ Handle(ApplyPlan(r, plan), size) = Settle(Handle(r, size), plan)
      BY <1>2, <2>1, CommitReadsBack
    <2>3. plan # NoPlan
      <3>1. LoadedChunkBytes(r, size) \in Nat \ {0} BY <2>1, Loads
      <3>2. Len(o.bytes) \in Nat BY LenProperties
      <3>3. plan.count = CeilDiv(Len(o.bytes), LoadedChunkBytes(r, size))
        BY <1>2 DEF Plan, Handle
      <3>4. plan.count \in Nat BY <3>1, <3>2, <3>3, CeilBounds
      <3>5. NoPlan.count = -1 BY DEF NoPlan
      <3> QED BY <3>4, <3>5
    <2> QED BY <2>2, <2>3 DEF Applied, Settled, Stored
  <1> QED BY <1>1, <1>2 DEF Planned

\* Both ranges land: the guest knows the storage as it is now.
\* Ranges r and m hold what x staged, and y is the guest after the commit.
Landed(x, y, r, m, bytes, picture, size) ==
    /\ Stored(r, x.log.bytes) /\ Stored(m, x.image.bytes)
    /\ x.logPlan = NoPlan => x.log.bytes = bytes
    /\ x.imagePlan = NoPlan => x.image.bytes = picture
    /\ Knows(y, r, m, x.log.bytes, x.image.bytes, size)

LEMMA LandFits ==
    ASSUME NEW x, Guest(x), x.phase # "idle", NEW r, NEW m,
           NEW bytes \in Log, NEW picture \in Seq(Log), NEW size \in Nat \ {0},
           Stored(r, bytes), Stored(m, picture), Fits(x, r, m, bytes, picture, size),
           NEW y, SameBytes(AfterLanding(x), y)
    PROVE  Landed(x, y, Applied(r, x.logPlan), Applied(m, x.imagePlan), bytes, picture, size)
  <1>1. PICK r2, m2 : r2 = Applied(r, x.logPlan) /\ m2 = Applied(m, x.imagePlan) OBVIOUS
  <1>2. /\ Planned(x.log, x.logPlan, bytes, Handle(r, size))
        /\ Planned(x.image, x.imagePlan, picture, Handle(m, size))
        /\ x.logHandle = Handle(r, size) /\ x.imageHandle = Handle(m, size)
        /\ TakenOf(x.image.bytes, x.log.bytes)
        /\ x.log.low = Clean /\ x.image.low = Clean
    BY DEF Fits
  <1>3. x.log.bytes \in Log /\ x.image.bytes \in Seq(Log) BY DEF Guest
  <1>4. /\ Stored(r2, x.log.bytes)
        /\ Settled(Handle(r, size), x.logPlan) = Handle(r2, size)
        /\ x.logPlan = NoPlan => x.log.bytes = bytes
    BY <1>1, <1>2, <1>3, RangeLands DEF Log
  <1>5. /\ Stored(m2, x.image.bytes)
        /\ Settled(Handle(m, size), x.imagePlan) = Handle(m2, size)
        /\ x.imagePlan = NoPlan => x.image.bytes = picture
    BY <1>1, <1>2, <1>3, RangeLands
  <1>6. /\ y.log = x.log /\ y.image = x.image
        /\ y.logHandle = Settled(x.logHandle, x.logPlan)
        /\ y.imageHandle = Settled(x.imageHandle, x.imagePlan)
    <2> DEFINE z == AfterLanding(x)
    <2>1. z = [x EXCEPT !.logHandle = Settled(@, x.logPlan),
                        !.imageHandle = Settled(@, x.imagePlan)]
      BY DEF AfterLanding
    <2>2. x = GuestOf(x) BY DEF Guest
    <2>3. SameBytes(z, y) OBVIOUS
    <2> HIDE DEF z
    <2>4. /\ z.log = x.log /\ z.image = x.image
          /\ z.logHandle = Settled(x.logHandle, x.logPlan)
          /\ z.imageHandle = Settled(x.imageHandle, x.imagePlan)
      BY ONLY <2>1, <2>2 DEF GuestOf
    <2> QED BY ONLY <2>3, <2>4 DEF SameBytes
  <1>7. IsPrefix(x.log.bytes, x.log.bytes) BY <1>3, PrefixSelf DEF Log
  <1>8. ImageOf(y.log, x.log.bytes) /\ ImageOf(y.image, x.image.bytes)
    BY <1>2, <1>6 DEF ImageOf
  <1>9. Knows(y, r2, m2, x.log.bytes, x.image.bytes, size)
    BY <1>2, <1>4, <1>5, <1>6, <1>7, <1>8 DEF Knows
  <1> QED BY <1>1, <1>4, <1>5, <1>9 DEF Landed

LEMMA KnowsSame ==
    ASSUME NEW x, NEW y, SameBytes(x, y), NEW r, NEW m, NEW bytes, NEW picture, NEW size
    PROVE  /\ Knows(x, r, m, bytes, picture, size) => Knows(y, r, m, bytes, picture, size)
           /\ y.phase = "idle" =>
                (Knows(x, r, m, bytes, picture, size) => Fits(y, r, m, bytes, picture, size))
           /\ x.phase = "idle" =>
                (Fits(x, r, m, bytes, picture, size) => Knows(x, r, m, bytes, picture, size))
           /\ y.phase = x.phase /\ y.logPlan = x.logPlan /\ y.imagePlan = x.imagePlan =>
                (Fits(x, r, m, bytes, picture, size) => Fits(y, r, m, bytes, picture, size))
  BY DEF SameBytes, Knows, Fits

\* What was just loaded is as stored.
LEMMA FreshFits ==
    ASSUME NEW x, NEW r, NEW m, NEW bytes \in Log, NEW picture \in Seq(Log), NEW size,
           ReadsAs(r, bytes), ReadsAs(m, picture), TakenOf(picture, bytes),
           x.logHandle = Handle(r, size), x.imageHandle = Handle(m, size),
           x.log = HostImage(LoadBytes(r))
             \/ (bytes = <<>> /\ x.log = AppendBytes(HostImage(LoadBytes(r)), <<Header>>)),
           x.image = HostImage(LoadBytes(m))
    PROVE  /\ Knows(x, r, m, bytes, picture, size)
           /\ x.log \in [bytes : Log, low : Int] /\ x.image \in [bytes : Seq(Log), low : Int]
  <1> DEFINE o == HostImage(bytes)
  <1>1. LoadBytes(r) = bytes /\ LoadBytes(m) = picture BY DEF ReadsAs
  <1>2. o = [bytes |-> bytes, low |-> Clean] /\ x.image = [bytes |-> picture, low |-> Clean]
    BY <1>1 DEF HostImage
  <1>3. /\ o \in [bytes : Log, low : Int] /\ ImageOf(o, bytes)
        /\ x.image \in [bytes : Seq(Log), low : Int] /\ ImageOf(x.image, picture)
    BY <1>2 DEF ImageOf, Clean
  <1>4. o.bytes = bytes BY <1>2
  <1>5. x.log = o \/ (bytes = <<>> /\ x.log = AppendBytes(o, <<Header>>)) BY <1>1
  <1> HIDE DEF o
  <1>6. /\ x.log \in [bytes : Log, low : Int] /\ ImageOf(x.log, bytes)
        /\ IsPrefix(bytes, x.log.bytes)
    <2>1. CASE x.log = o
      <3>1. IsPrefix(bytes, bytes) BY PrefixSelf DEF Log
      <3> QED BY <1>3, <1>4, <2>1, <3>1
    <2>2. CASE bytes = <<>> /\ x.log = AppendBytes(o, <<Header>>)
      <3>1. <<Header>> \in Seq(LogByte) BY DEF LogByte
      <3>2. x.log \in [bytes : Log, low : Int] /\ ImageOf(x.log, bytes)
        <4>1. o \in [bytes : Seq(LogByte), low : Int] /\ bytes \in Seq(LogByte)
          BY <1>3 DEF Log
        <4>2. /\ ImageOf(AppendBytes(o, <<Header>>), bytes)
              /\ AppendBytes(o, <<Header>>) \in [bytes : Seq(LogByte), low : Int]
          BY ONLY <1>3, <3>1, <4>1, LowWaterHonest, 0 \in Nat
        <4> QED BY <2>2, <4>2 DEF Log
      <3>3. IsPrefix(bytes, x.log.bytes) BY <2>2, <3>2, PrefixSelf DEF Log
      <3> QED BY <3>2, <3>3
    <2> QED BY <1>5, <2>1, <2>2
  <1>7. TakenOf(x.image.bytes, x.log.bytes)
    <2>1. x.image.bytes = picture BY <1>2
    <2>2. \A k \in DOMAIN picture : picture[k] \in Seq(LogByte)
      BY LenProperties, ElementOfSeq DEF Log
    <2>3. bytes \in Seq(LogByte) /\ x.log.bytes \in Seq(LogByte) BY <1>6 DEF Log
    <2> QED BY <1>6, <2>1, <2>2, <2>3, PrefixOf DEF TakenOf
  <1> QED BY <1>3, <1>6, <1>7 DEF Knows

-----------------------------------------------------------------------------
(* Operations and bounds.                                                  *)

\* The operation goes on to p, with or without a guest.
ToPc(o, p) == [o EXCEPT !.pc = p]
ToPcAt(o, p, a) == [o EXCEPT !.pc = p, !.at = a]
ToTarget(o, p, f, t) == [o EXCEPT !.pc = p, !.prior = f, !.target = t]

LEMMA PcTo ==
    ASSUME NEW o, o = OpOf(o), NEW p, NEW q, q = ToPc(o, p)
    PROVE  /\ q = OpOf(q) /\ q.pc = p /\ q.at = o.at /\ q.kind = o.kind /\ q.who = o.who
           /\ q.bytes = o.bytes /\ q.replace = o.replace /\ q.expected = o.expected
           /\ q.target = o.target /\ q.prior = o.prior
  <1>1. q = [kind |-> o.kind, pc |-> p, at |-> o.at, who |-> o.who,
             bytes |-> o.bytes, replace |-> o.replace, expected |-> o.expected,
             prior |-> o.prior, target |-> o.target]
    BY DEF OpOf, ToPc
  <1> QED BY ONLY <1>1 DEF OpOf

LEMMA PcAtTo ==
    ASSUME NEW o, o = OpOf(o), NEW p, NEW a, NEW q, q = ToPcAt(o, p, a)
    PROVE  /\ q = OpOf(q) /\ q.pc = p /\ q.at = a /\ q.kind = o.kind /\ q.who = o.who
           /\ q.bytes = o.bytes /\ q.replace = o.replace /\ q.expected = o.expected
           /\ q.target = o.target
  <1>1. q = [kind |-> o.kind, pc |-> p, at |-> a, who |-> o.who,
             bytes |-> o.bytes, replace |-> o.replace, expected |-> o.expected,
             prior |-> o.prior, target |-> o.target]
    BY DEF OpOf, ToPcAt
  <1> QED BY ONLY <1>1 DEF OpOf

LEMMA TargetTo ==
    ASSUME NEW o, o = OpOf(o), NEW p, NEW f, NEW t, NEW q,
           q = ToTarget(o, p, f, t)
    PROVE  /\ q = OpOf(q) /\ q.pc = p /\ q.at = o.at /\ q.kind = o.kind /\ q.who = o.who
           /\ q.bytes = o.bytes /\ q.replace = o.replace /\ q.expected = o.expected
           /\ q.target = t
  <1>1. q = [kind |-> o.kind, pc |-> p, at |-> o.at, who |-> o.who,
             bytes |-> o.bytes, replace |-> o.replace, expected |-> o.expected,
             prior |-> f, target |-> t]
    BY DEF OpOf, ToTarget
  <1> QED BY ONLY <1>1 DEF OpOf

LEMMA IdleIs ==
    /\ Idle = OpOf(Idle) /\ Idle.kind = "none" /\ Idle.pc = "none" /\ Idle.at = 0
    /\ Idle.who = "none"
  BY DEF Idle, OpOf

UsingOp(k, a, w) == [Idle EXCEPT !.kind = k, !.pc = "boot", !.at = a, !.who = w]

LEMMA UseOp ==
    ASSUME NEW k, NEW a, NEW w, NEW q, q = UsingOp(k, a, w)
    PROVE  q = OpOf(q) /\ q.kind = k /\ q.pc = "boot" /\ q.at = a /\ q.who = w
  <1>1. q = [kind |-> k, pc |-> "boot", at |-> a, who |-> w,
             bytes |-> Idle.bytes, replace |-> Idle.replace, expected |-> Idle.expected,
             prior |-> Idle.prior, target |-> Idle.target]
    BY IdleIs DEF OpOf, UsingOp
  <1> QED BY ONLY <1>1 DEF OpOf

RecyclingOp(a) == [Idle EXCEPT !.kind = "recycle", !.pc = "call", !.at = a]

LEMMA RecycleOp ==
    ASSUME NEW a, NEW q, q = RecyclingOp(a)
    PROVE  q = OpOf(q) /\ q.kind = "recycle" /\ q.pc = "call" /\ q.at = a
  <1>1. q = [kind |-> "recycle", pc |-> "call", at |-> a, who |-> Idle.who,
             bytes |-> Idle.bytes, replace |-> Idle.replace, expected |-> Idle.expected,
             prior |-> Idle.prior, target |-> Idle.target]
    BY IdleIs DEF OpOf, RecyclingOp
  <1> QED BY ONLY <1>1 DEF OpOf

RestoringOp(b, r, e, p) ==
    [Idle EXCEPT !.kind = "restore", !.bytes = b, !.replace = r, !.expected = e, !.pc = p]

LEMMA RestoreOp ==
    ASSUME NEW b, NEW r, NEW e, NEW p, NEW q, q = RestoringOp(b, r, e, p)
    PROVE  /\ q = OpOf(q) /\ q.kind = "restore" /\ q.pc = p /\ q.at = 0
           /\ q.bytes = b /\ q.replace = r /\ q.expected = e
  <1>1. q = [kind |-> "restore", pc |-> p, at |-> 0, who |-> Idle.who,
             bytes |-> b, replace |-> r, expected |-> e,
             prior |-> Idle.prior, target |-> Idle.target]
    BY IdleIs DEF OpOf, RestoringOp
  <1> QED BY ONLY <1>1 DEF OpOf

Using == {"write", "checkpoint", "query", "export"}

\* What the place of an operation says of its kind.
LEMMA OpFacts ==
    ASSUME Operation
    PROVE  /\ op.pc = "none" => op = Idle
           /\ op.kind = "none" => op = Idle
           /\ op.pc = "boot" => op.kind \in Using
           /\ op.pc = "call" => op.kind \in Using \cup {"recycle"}
           /\ op.pc \in Fenced \cup {"peek", "fence"} => op.kind = "restore"
           /\ op.kind = "restore" => op.pc \in Fenced \cup {"peek", "fence"}
           /\ op.kind \in Using => op.pc \in {"boot", "call"}
           /\ op.kind = "recycle" => op.pc = "call"
           /\ op.pc \in {"none", "boot", "call", "peek", "fence"} \cup Fenced
  <1>1. op.kind \in Kind /\ op.pc \in PCs(op.kind) /\ (op.kind = "none" => op = Idle)
    BY DEF Operation
  <1> QED BY <1>1 DEF Kind, PCs, Using, Fenced

LEMMA SpendFacts ==
    ASSUME Spending, NEW what, NEW bound, Spend(what, bound),
           what \in {"checkpoints", "restores", "recycles", "crashes", "faults"}
    PROVE  Spending'
  BY DEF Spending, Spend

-----------------------------------------------------------------------------
(* Steps of one guest.                                                     *)

LEMMA SlotUpdate ==
    ASSUME NEW f, f = [i \in Slot |-> f[i]], NEW i \in Slot, NEW y,
           NEW g, g = [f EXCEPT ![i] = y]
    PROVE  /\ g = [j \in Slot |-> g[j]] /\ g[i] = y
           /\ \A j \in Slot : j # i => g[j] = f[j]
  OBVIOUS

\* One guest changes and the storage does not.
LEMMA GuestsStep ==
    ASSUME Guests, UNCHANGED <<log, image, config, landed>>,
           NEW i \in Slot, NEW y, inst' = [inst EXCEPT ![i] = y], Guest(y),
           Usable(y) =>
             /\ i = Keeper'
             /\ y.phase \in {"idle", "staged", "opening"} => FitsNow(y)
             /\ y.phase # "marker" /\ marker' # NoLog => op'.pc = "clear" /\ i = op'.at,
           \A j \in Slot : j # i /\ Usable(inst[j]) =>
             /\ j = Keeper'
             /\ inst[j].phase # "marker" /\ marker' # NoLog => op'.pc = "clear" /\ j = op'.at
    PROVE  Guests'
  <1>1. /\ inst' = [j \in Slot |-> inst'[j]] /\ inst'[i] = y
        /\ \A j \in Slot : j # i => inst'[j] = inst[j]
    BY SlotUpdate DEF Guests
  <1>2. \A j \in Slot : Guest(inst'[j]) BY <1>1 DEF Guests
  <1>3. ASSUME NEW j \in Slot, Usable(inst'[j])
        PROVE  /\ j = Keeper'
               /\ inst'[j].phase \in {"idle", "staged", "opening"} => FitsNow(inst[j])'
               /\ inst'[j].phase # "marker" /\ marker' # NoLog => op'.pc = "clear" /\ j = op'.at
    <2>1. CASE j = i
      <3>1. Usable(y) /\ inst'[j] = y BY <1>1, <1>3, <2>1
      <3>2. y.phase \in {"idle", "staged", "opening"} => FitsNow(y) BY <3>1
      <3>3. FitsNow(y) => FitsNow(inst[j])' BY <3>1 DEF FitsNow
      <3> QED BY <2>1, <3>1, <3>2, <3>3
    <2>2. CASE j # i
      <3>1. Usable(inst[j]) /\ inst'[j] = inst[j] BY <1>1, <1>3, <2>2
      <3>2. inst[j].phase \in {"idle", "staged", "opening"} => FitsNow(inst[j])
        BY <3>1 DEF Guests
      <3>3. FitsNow(inst[j]) => FitsNow(inst[j])' BY <3>1 DEF FitsNow
      <3> QED BY <2>2, <3>1, <3>2, <3>3
    <2> QED BY <2>1, <2>2
  <1> QED BY <1>1, <1>2, <1>3 DEF Guests

\* A guest that boots is alone, and no operation has reached one.
LEMMA BootingFacts ==
    ASSUME IInv, NEW i \in Slot, inst[i].phase \in Booting
    PROVE  /\ booting = i /\ live = 0 /\ i # 0 /\ Usable(inst[i]) /\ inst[i].gate = <<>>
           /\ Guest(inst[i]) /\ ~Opened(i)
           /\ \A j \in Slot : j # i => ~Usable(inst[j]) /\ inst[j].phase \notin Booting
           /\ op.pc \notin Alone \cup {"call", "fencing"} /\ op.kind # "recycle"
           /\ inst[i].phase # "marker" => marker = NoLog
           /\ \A h \in Holder : hold[h].at = i => hold[h].state = "waiting"
  <1>1. i \in Nat \ {0} BY ObjectAssumption DEF Slot, ObjectAssumption
  <1>2. booting = i /\ live = 0 BY <1>1 DEF IInv, References
  <1>3. Guest(inst[i]) BY DEF IInv, Guests
  <1>4. ~Opened(i) /\ inst[i].phase \notin {"free", "idle", "staged"} BY DEF Opened, Booting
  <1>5. ~inst[i].poisoned /\ ~inst[i].closed /\ inst[i].gate = <<>>
    BY <1>3, <1>4 DEF Guest
  <1>6. Usable(inst[i]) BY <1>4, <1>5 DEF Usable
  <1>7. Keeper = i BY <1>1, <1>2 DEF Keeper
  <1>8. \A j \in Slot : j # i => ~Usable(inst[j]) BY <1>7 DEF IInv, Guests
  <1>9. \A j \in Slot : j # i => inst[j].phase \notin Booting
    BY <1>2 DEF IInv, References
  <1>10. op.pc \notin Alone \cup {"call", "fencing"} BY <1>1, <1>2 DEF IInv, Operation
  <1>11. op.kind # "recycle" BY <1>10, OpFacts DEF IInv
  <1>12. inst[i].phase # "marker" => marker = NoLog
    BY <1>6, <1>10 DEF IInv, Guests, Alone
  <1>13. ASSUME NEW h \in Holder, hold[h].at = i PROVE hold[h].state = "waiting"
    <2>1. hold[h].state \in {"away", "waiting", "holds", "calls"}
      BY DEF IInv, Holders, HoldType
    <2>2. hold[h].state # "away" BY <1>1, <1>13 DEF IInv, Holders, Away
    <2>3. hold[h].state \notin {"holds", "calls"} BY <1>4, <1>13 DEF IInv, Holders
    <2> QED BY <2>1, <2>2, <2>3
  <1> QED BY <1>1, <1>2, <1>3, <1>4, <1>5, <1>6, <1>8, <1>9, <1>10, <1>11, <1>12, <1>13

LEMMA BootFailsStep ==
    ASSUME IInv, NEW i \in Slot, inst[i].phase \in Booting,
           NEW newFence, newFence = fence \/ newFence # "open", BootFails(i, newFence),
           UNCHANGED <<stored, config, asked, backup, history>>,
           Spending'
    PROVE  IInv'
  <1>1. /\ booting = i /\ live = 0 /\ i # 0 /\ Usable(inst[i]) /\ inst[i].gate = <<>>
        /\ \A j \in Slot : j # i => ~Usable(inst[j]) /\ inst[j].phase \notin Booting
        /\ op.pc \notin Alone \cup {"call", "fencing"} /\ op.kind # "recycle"
        /\ \A h \in Holder : hold[h].at = i => hold[h].state = "waiting"
    BY BootingFacts
  <1>2. /\ fence' = newFence /\ booting' = 0 /\ live' = 0 /\ inst' = [inst EXCEPT ![i] = Free]
        /\ hold' = [h \in Holder |-> IF hold[h].at = i THEN Away ELSE hold[h]]
    BY <1>1 DEF BootFails
  <1>3. /\ inst' = [j \in Slot |-> inst'[j]] /\ inst'[i] = Free
        /\ \A j \in Slot : j # i => inst'[j] = inst[j]
    BY <1>2, SlotUpdate DEF IInv, Guests
  <1>4. /\ log' = log /\ image' = image /\ marker' = marker /\ config' = config
        /\ landed' = landed /\ told' = told /\ backup' = backup
    BY DEF stored, history
  <1>5. Storage' BY <1>4 DEF IInv, Storage
  <1>6. Guests'
    <2>1. Guest(Free) /\ ~Usable(Free) BY NewGuest
    <2> QED BY <1>1, <1>2, <1>4, <2>1, GuestsStep DEF IInv
  <1>7. References'
    <2>1. \A j \in Slot : inst'[j].phase \notin Booting
      BY <1>1, <1>3, NewGuest
    <2>2. \A j \in Slot : j # 0 BY ObjectAssumption DEF Slot, ObjectAssumption
    <2>3. 0 \in 0 .. MaxInstances BY ObjectAssumption DEF ObjectAssumption
    <2> QED BY <1>2, <2>1, <2>2, <2>3 DEF References
  <1>8. \A h \in Holder : hold'[h] = Away \/ (hold[h].at # i /\ hold'[h] = hold[h])
    BY <1>2
  <1>9. Holders'
    <2>1. Away \in HoldType /\ Away.state = "away" /\ Away.at = 0
      BY ObjectAssumption DEF Away, HoldType, ObjectAssumption
    <2>2. hold' \in [Holder -> HoldType] BY <1>2, <2>1 DEF IInv, Holders
    <2>3. ASSUME NEW h \in Holder
          PROVE  /\ hold'[h].state = "away" => hold'[h] = Away
                 /\ hold'[h].state # "away" => hold'[h].at # 0 /\ inst'[hold'[h].at].phase # "free"
                 /\ hold'[h].state \in {"holds", "calls"} => Opened(hold[h].at)'
      <3>1. CASE hold'[h] = Away BY <2>1, <3>1
      <3>2. CASE hold[h].at # i /\ hold'[h] = hold[h]
        <4>1. hold[h].at # 0 => hold[h].at \in Slot
          BY ObjectAssumption DEF IInv, Holders, HoldType, Slot, ObjectAssumption
        <4>2. hold[h].at # 0 => inst'[hold[h].at] = inst[hold[h].at] BY <1>3, <3>2, <4>1
        <4>3. /\ hold[h].state = "away" => hold[h] = Away
              /\ hold[h].state # "away" => hold[h].at # 0 /\ inst[hold[h].at].phase # "free"
              /\ hold[h].state \in {"holds", "calls"} => Opened(hold[h].at)
          BY DEF IInv, Holders
        <4> QED BY <3>2, <4>2, <4>3 DEF Opened
      <3> QED BY <1>8, <3>1, <3>2
    <2> QED BY <2>2, <2>3 DEF Holders
  <1>10. \/ op.at # i /\ op' = op
         \/ op.at = i /\ op.kind = "restore" /\ op' = [op EXCEPT !.pc = "target", !.at = 0]
         \/ op.at = i /\ op.kind # "restore" /\ op' = Idle
    BY DEF BootFails
  <1>11. Gates'
    <2> SUFFICES ASSUME NEW j \in Slot, NEW k \in 1 .. Len(inst'[j].gate)
                 PROVE  Waits(inst[j].gate[k], j)'
      BY DEF Gates
    <2>1. j # i /\ inst'[j] = inst[j]
      <3>1. Len(inst'[i].gate) = 0 BY <1>3, NewGuest, EmptySeq
      <3> QED BY <1>3, <3>1
    <2>2. Waits(inst[j].gate[k], j) BY <2>1 DEF IInv, Gates
    <2>3. inst[j].gate[k] # "op" /\ inst[j].gate[k] # "fence" BY <1>1, <2>2 DEF Waits
    <2>4. ASSUME inst[j].gate[k] \in Holder
          PROVE  hold'[inst[j].gate[k]] = hold[inst[j].gate[k]]
      BY <1>2, <2>1, <2>2, <2>4 DEF Waits
    <2> QED BY <2>1, <2>2, <2>3, <2>4 DEF Waits
  <1>12. Operation'
    <2>1. CASE op.at # i /\ op' = op
      <3>1. op.pc \notin {"boot", "awaitBoot"} BY <1>1, <2>1 DEF IInv, Operation
      <3> QED BY <1>1, <1>2, <1>4, <2>1, <3>1 DEF IInv, Operation, Alone, Fenced
    <2>2. CASE op.at = i /\ op.kind = "restore" /\ op' = [op EXCEPT !.pc = "target", !.at = 0]
      <3>1. op = OpOf(op) BY DEF IInv, Operation
      <3>2. /\ op' = OpOf(op)' /\ op'.pc = "target" /\ op'.at = 0 /\ op'.kind = op.kind
            /\ op'.bytes = op.bytes /\ op'.replace = op.replace
        <4>1. PICK q : q = [op EXCEPT !.pc = "target", !.at = 0] OBVIOUS
        <4>2. /\ q = OpOf(q) /\ q.pc = "target" /\ q.at = 0 /\ q.kind = op.kind
              /\ q.bytes = op.bytes /\ q.replace = op.replace
          <5>1. q = [kind |-> op.kind, pc |-> "target", at |-> 0, who |-> op.who,
                     bytes |-> op.bytes, replace |-> op.replace, expected |-> op.expected,
                     prior |-> op.prior, target |-> op.target]
            BY ONLY <3>1, <4>1 DEF OpOf
          <5> QED BY ONLY <5>1 DEF OpOf
        <4>3. op' = q BY ONLY <2>2, <4>1
        <4> QED BY ONLY <4>2, <4>3 DEF OpOf
      <3>3. op.pc = "awaitBoot"
        BY <1>1, <2>2, OpFacts DEF IInv, Operation, Fenced, Alone
      <3>4. fence' # "open" BY <1>2, <3>3 DEF IInv, Operation, Fenced
      <3>5. op.bytes \in Log /\ Replays(op.bytes) /\ op.replace \in BOOLEAN
        BY <2>2 DEF IInv, Operation
      <3>6. 0 \in 0 .. MaxInstances BY ObjectAssumption DEF ObjectAssumption
      <3>7. /\ op'.kind = "restore" /\ op'.bytes \in Log /\ Replays(op'.bytes)
            /\ op'.replace \in BOOLEAN /\ op'.at \in 0 .. MaxInstances
            /\ op'.pc \in PCs(op'.kind)
        BY <2>2, <3>2, <3>5, <3>6 DEF PCs
      <3> QED BY <1>2, <3>2, <3>4, <3>7 DEF Operation, Kind, Alone, Fenced
    <2>3. CASE op' = Idle
      BY <2>3, IdleIs, ObjectAssumption
         DEF Operation, Kind, PCs, Alone, Fenced, ObjectAssumption
    <2> QED BY <1>10, <2>1, <2>2, <2>3
  <1>13. Awaited' BY <1>2 DEF Awaited
  <1> QED BY <1>5, <1>6, <1>7, <1>9, <1>11, <1>12, <1>13 DEF IInv

\* What does not depend on the guests stays when they stay in their phases.
Stays ==
    /\ \A j \in Slot : /\ inst[j].phase # "free" => inst'[j].phase # "free"
                       /\ Opened(j) => Opened(j)'
                       /\ inst[j].phase \in Booting <=> inst'[j].phase \in Booting

LEMMA SlotOf ==
    /\ \A a \in 0 .. MaxInstances : a # 0 => a \in Slot
    /\ \A j \in Slot : j \in 0 .. MaxInstances /\ j # 0
    /\ 0 \in 0 .. MaxInstances
  BY ObjectAssumption DEF Slot, ObjectAssumption

LEMMA ReferencesStay ==
    ASSUME References, Stays, UNCHANGED <<live, booting, marker>>
    PROVE  References'
  <1>1. live # 0 => live \in Slot BY SlotOf DEF References
  <1>2. live # 0 => Opened(live)' BY <1>1 DEF References, Stays
  <1>4. \A j \in Slot : inst'[j].phase \in Booting <=> booting' = j
    BY DEF References, Stays
  <1> QED BY <1>2, <1>4 DEF References, Opened

LEMMA HoldersStay ==
    ASSUME Holders, Stays, UNCHANGED hold
    PROVE  Holders'
  <1>1. hold' \in [Holder -> HoldType] BY DEF Holders
  <1>2. ASSUME NEW h \in Holder
        PROVE  /\ hold'[h].state = "away" => hold'[h] = Away
               /\ hold'[h].state # "away" => hold'[h].at # 0 /\ inst'[hold'[h].at].phase # "free"
               /\ hold'[h].state \in {"holds", "calls"} => Opened(hold[h].at)'
    <2>1. hold[h].at # 0 => hold[h].at \in Slot BY SlotOf DEF Holders, HoldType
    <2>2. /\ hold[h].state = "away" => hold[h] = Away
          /\ hold[h].state # "away" => hold[h].at # 0 /\ inst[hold[h].at].phase # "free"
          /\ hold[h].state \in {"holds", "calls"} => Opened(hold[h].at)
      BY DEF Holders
    <2>3. hold[h].at # 0 =>
            /\ inst[hold[h].at].phase # "free" => inst'[hold[h].at].phase # "free"
            /\ Opened(hold[h].at) => inst'[hold[h].at].phase \notin Booting \cup {"free"}
      BY <2>1 DEF Stays, Opened
    <2>4. hold[h].state \in {"holds", "calls"} => hold[h].state # "away" OBVIOUS
    <2> QED BY <2>2, <2>3, <2>4 DEF Opened
  <1> QED BY <1>1, <1>2 DEF Holders

LEMMA OperationStays ==
    ASSUME Operation, Stays,
           op' = op, UNCHANGED <<log, image, landed, fence, live, booting>>,
           op.pc = "clear" => inst'[op.at] = inst[op.at]
                              /\ \A h \in Holder : hold'[h].at = op.at => hold[h].at = op.at
    PROVE  Operation'
  <1>1. op.at # 0 => op.at \in Slot BY SlotOf DEF Operation
  <1>2. op.at # 0 => (Opened(op.at) => inst'[op.at].phase \notin Booting \cup {"free"})
    BY <1>1 DEF Stays, Opened
  <1>3. op.pc \in {"call", "fencing"} => inst'[op.at].phase \notin Booting \cup {"free"}
    BY <1>2 DEF Operation
  <1>4. op.pc = "clear" =>
         /\ op.at # 0 /\ inst'[op.at].phase = "idle" /\ inst'[op.at].gate = <<>>
         /\ \A h \in Holder : hold'[h].at # op.at
    BY DEF Operation
  <1> QED BY <1>3, <1>4 DEF Operation, Opened

LEMMA AwaitedStays ==
    ASSUME Awaited, UNCHANGED <<booting, hold, op>>
    PROVE  Awaited'
  BY DEF Awaited

LEMMA StorageStays ==
    ASSUME Storage, UNCHANGED <<log, image, marker, config, landed, told, backup>>
    PROVE  Storage'
  BY DEF Storage, Stored

\* A caller joins the gate of an opened guest.
LEMMA Admitted ==
    ASSUME Guests, NEW i \in Slot, Opened(i), NEW c \in Caller, Admit(i, c),
           \A k \in 1 .. Len(inst[i].gate) : inst[i].gate[k] # c,
           UNCHANGED <<log, image, config, landed>>
    PROVE  /\ inst' = [j \in Slot |-> inst'[j]]
           /\ \A j \in Slot :
                /\ Guest(inst'[j]) /\ inst'[j].phase = inst[j].phase
                /\ Usable(inst'[j]) <=> Usable(inst[j])
                /\ FitsNow(inst[j]) => FitsNow(inst[j])'
                /\ j # i => inst'[j] = inst[j]
                /\ \A k \in 1 .. Len(inst'[j].gate) :
                      \/ j = i /\ inst'[j].gate[k] = c
                      \/ k \in 1 .. Len(inst[j].gate) /\ inst'[j].gate[k] = inst[j].gate[k]
           /\ Stays
  <1>1. PICK y : y = [inst[i] EXCEPT !.gate = Append(inst[i].gate, c)] OBVIOUS
  <1>2. inst' = [inst EXCEPT ![i] = y]
    <2>1. inst' = [inst EXCEPT ![i] = [inst[i] EXCEPT !.gate = Append(inst[i].gate, c)]]
      BY DEF Admit, Guests
    <2> QED BY ONLY <1>1, <2>1
  <1>3. /\ inst' = [j \in Slot |-> inst'[j]] /\ inst'[i] = y
        /\ \A j \in Slot : j # i => inst'[j] = inst[j]
    BY <1>2, SlotUpdate DEF Guests
  <1>4. Guest(inst[i]) BY DEF Guests
  <1>5. inst[i].phase \notin Booting \cup {"free"} BY DEF Opened
  <1>6. /\ Guest(y) /\ y.phase = inst[i].phase /\ y.poisoned = inst[i].poisoned
        /\ y.closed = inst[i].closed
        /\ SameBytes(inst[i], y) /\ y.logPlan = inst[i].logPlan
        /\ y.imagePlan = inst[i].imagePlan /\ y.gate = Append(inst[i].gate, c)
    BY ONLY <1>1, <1>4, <1>5, GuestAdmit, c \in Caller,
       \A k \in 1 .. Len(inst[i].gate) : inst[i].gate[k] # c
  <1>7. FitsNow(inst[i]) => FitsNow(inst[i])'
    <2>1. FitsNow(inst[i]) => FitsNow(y) BY <1>6, KnowsSame DEF FitsNow
    <2>2. FitsNow(y) => FitsNow(inst[i])' BY <1>3 DEF FitsNow
    <2> QED BY <2>1, <2>2
  <1>8. \A j \in Slot : j # i => (FitsNow(inst[j]) => FitsNow(inst[j])')
    BY <1>3 DEF FitsNow
  <1>9. Usable(y) <=> Usable(inst[i]) BY <1>6 DEF Usable
  <1>10. ASSUME NEW k \in 1 .. Len(y.gate)
         PROVE  y.gate[k] = c \/ (k \in 1 .. Len(inst[i].gate) /\ y.gate[k] = inst[i].gate[k])
    <2>1. Line(inst[i].gate) BY <1>4 DEF Guest
    <2>2. Len(inst[i].gate) \in Nat BY <2>1, LenProperties DEF Line
    <2>3. /\ Len(y.gate) = Len(inst[i].gate) + 1 /\ y.gate[Len(inst[i].gate) + 1] = c
          /\ \A l \in 1 .. Len(inst[i].gate) : y.gate[l] = inst[i].gate[l]
      BY <1>6, <2>1, LineAppend
    <2>4. k \in 1 .. Len(inst[i].gate) \/ k = Len(inst[i].gate) + 1 BY <2>2, <2>3
    <2> QED BY <2>3, <2>4
  <1>11. \A j \in Slot : inst'[j].phase = inst[j].phase BY <1>3, <1>6
  <1>12. Stays BY <1>11 DEF Stays, Opened
  <1>13. \A j \in Slot : Guest(inst'[j]) BY <1>3, <1>6 DEF Guests
  <1>14. \A j \in Slot : Usable(inst'[j]) <=> Usable(inst[j]) BY <1>3, <1>9
  <1>15. \A j \in Slot : \A k \in 1 .. Len(inst'[j].gate) :
            \/ j = i /\ inst'[j].gate[k] = c
            \/ k \in 1 .. Len(inst[j].gate) /\ inst'[j].gate[k] = inst[j].gate[k]
    BY <1>3, <1>10
  <1> QED BY <1>3, <1>7, <1>8, <1>11, <1>12, <1>13, <1>14, <1>15

\* Guests that only gained a caller.
LEMMA AdmitGuests ==
    ASSUME Guests, inst' = [j \in Slot |-> inst'[j]],
           \A j \in Slot : /\ Guest(inst'[j]) /\ inst'[j].phase = inst[j].phase
                           /\ Usable(inst'[j]) <=> Usable(inst[j])
                           /\ FitsNow(inst[j]) => FitsNow(inst[j])',
           \A j \in Slot : Usable(inst[j]) =>
             /\ j = Keeper'
             /\ inst[j].phase # "marker" /\ marker' # NoLog => op'.pc = "clear" /\ j = op'.at
    PROVE  Guests'
  BY DEF Guests

-----------------------------------------------------------------------------
(* The steps of Next, one by one.                                          *)

LEMMA BootMarkerStep ==
    ASSUME IInv, NEW i \in Slot, BootMarker(i)
    PROVE  IInv'
  <1>1. /\ inst[i].phase = "marker" /\ inst[i].phase \in Booting
        /\ UNCHANGED <<stored, config, asked, backup, spent, history>>
    BY DEF BootMarker, Booting
  <1>2. Spending' BY <1>1 DEF IInv, Spending
  <1>3. ASSUME marker # NoLog, BootFails(i, "restore") PROVE IInv'
    <2>1. "restore" # "open" OBVIOUS
    <2> QED BY <1>1, <1>2, <1>3, <2>1, BootFailsStep
  <1>4. ASSUME marker = NoLog, inst' = [inst EXCEPT ![i].phase = "load"],
               UNCHANGED <<object, hold, op>>
        PROVE  IInv'
    <2>1. /\ booting = i /\ live = 0 /\ Usable(inst[i]) /\ inst[i].gate = <<>>
          /\ Guest(inst[i])
          /\ \A j \in Slot : j # i => ~Usable(inst[j])
          /\ op.pc # "clear"
      BY <1>1, BootingFacts DEF Alone
    <2>2. PICK y : y = [inst[i] EXCEPT !.phase = "load"] OBVIOUS
    <2>3. inst' = [inst EXCEPT ![i] = y]
      <3>1. inst' = [inst EXCEPT ![i] = [inst[i] EXCEPT !.phase = "load"]]
        BY <1>4 DEF IInv, Guests
      <3> QED BY ONLY <2>2, <3>1
    <2>4. inst[i] = GuestOf(inst[i]) BY <2>1 DEF Guest
    <2>5. y = [phase |-> "load", log |-> inst[i].log, image |-> inst[i].image,
               logHandle |-> inst[i].logHandle, imageHandle |-> inst[i].imageHandle,
               poisoned |-> inst[i].poisoned, closed |-> inst[i].closed, gate |-> inst[i].gate,
               logPlan |-> inst[i].logPlan, imagePlan |-> inst[i].imagePlan]
      BY ONLY <2>2, <2>4, PhaseTo
    <2>6. /\ y.phase = "load" /\ y.log = inst[i].log /\ y.image = inst[i].image
          /\ y.poisoned = inst[i].poisoned /\ y.closed = inst[i].closed /\ y.gate = <<>>
          /\ y = GuestOf(y)
      BY <2>1, <2>5 DEF GuestOf
    <2>7. Guest(y)
      BY <1>1, <2>1, <2>6, LineEmpty DEF Guest, Booting
    <2>8. UNCHANGED <<log, image, marker, config, landed, told, backup, live, booting, fence, op>>
      BY <1>1, <1>4 DEF stored, history, object
    <2>9. Keeper' = i
      <3>1. i # 0 BY SlotOf
      <3> QED BY <2>1, <2>8, <3>1 DEF Keeper
    <2>10. Guests'
      <3>1. y.phase \notin {"idle", "staged", "opening"} BY <2>6
      <3>2. marker' = NoLog BY <1>4, <2>8
      <3>3. UNCHANGED <<log, image, config, landed>> BY <2>8
      <3>4. Guests BY DEF IInv
      <3> QED BY ONLY <2>1, <2>3, <2>7, <2>9, <3>1, <3>2, <3>3, <3>4, i \in Slot, GuestsStep
    <2>11. /\ inst'[i] = y /\ \A j \in Slot : j # i => inst'[j] = inst[j]
      BY <2>3, SlotUpdate DEF IInv, Guests
    <2>12. Stays BY <1>1, <2>6, <2>11 DEF Stays, Opened, Booting
    <2>13. Gates'
      <3>1. \A j \in Slot : inst'[j].gate = inst[j].gate BY <2>1, <2>6, <2>11
      <3> QED BY <1>4, <3>1 DEF IInv, Gates, Waits
    <2>14. Holders' BY <1>1, <1>4, <2>12, HoldersStay DEF IInv
    <2>15. References' BY <2>8, <2>12, ReferencesStay DEF IInv
    <2>16. Operation' BY <1>1, <2>1, <2>8, <2>12, OperationStays DEF IInv
    <2>17. Storage' BY <2>8, StorageStays DEF IInv
    <2>18. Awaited' BY <1>4, <2>8, AwaitedStays DEF IInv
    <2> QED BY <1>2, <2>10, <2>13, <2>14, <2>15, <2>16, <2>17, <2>18 DEF IInv
  <1> QED BY <1>3, <1>4 DEF BootMarker

\* A boot that ends makes the guest the object's.
LEMMA BootDoneStep ==
    ASSUME IInv, NEW i \in Slot, inst[i].phase \in Booting, marker = NoLog, BootDone(i),
           Spending', UNCHANGED <<marker, fence, hold, op>>,
           NEW y, inst' = [inst EXCEPT ![i] = y], y.phase = "idle", y.gate = <<>>
    PROVE  References' /\ Holders' /\ Gates' /\ Operation' /\ Awaited' /\ Keeper' = i
  <1>1. /\ booting = i /\ live = 0 /\ i # 0 /\ inst[i].gate = <<>>
        /\ \A j \in Slot : j # i => inst[j].phase \notin Booting
        /\ op.pc \notin Alone \cup {"call", "fencing"} /\ ~Opened(i)
    BY BootingFacts
  <1>2. /\ inst'[i] = y /\ \A j \in Slot : j # i => inst'[j] = inst[j]
    BY SlotUpdate DEF IInv, Guests
  <1>3. live' = i /\ booting' = 0 BY DEF BootDone
  <1>4. References'
    <2>1. \A j \in Slot : inst'[j].phase \notin Booting BY <1>1, <1>2 DEF Booting
    <2>2. \A j \in Slot : booting' # j BY <1>3, SlotOf
    <2>3. inst'[i].phase \notin Booting \cup {"free"} BY <1>2 DEF Booting
    <2> QED BY <1>3, <2>1, <2>2, <2>3, SlotOf DEF References, Opened
  <1>5. \A j \in Slot : /\ inst[j].phase # "free" => inst'[j].phase # "free"
                        /\ Opened(j) => inst'[j].phase \notin Booting \cup {"free"}
    BY <1>1, <1>2 DEF Opened, Booting
  <1>6. Holders'
    <2>1. ASSUME NEW h \in Holder
          PROVE  /\ hold[h].state = "away" => hold[h] = Away
                 /\ hold[h].state # "away" => hold[h].at # 0 /\ inst'[hold[h].at].phase # "free"
                 /\ hold[h].state \in {"holds", "calls"} =>
                       inst'[hold[h].at].phase \notin Booting \cup {"free"}
      <3>1. /\ hold[h].state = "away" => hold[h] = Away
            /\ hold[h].state # "away" => hold[h].at # 0 /\ inst[hold[h].at].phase # "free"
            /\ hold[h].state \in {"holds", "calls"} => Opened(hold[h].at)
        BY DEF IInv, Holders
      <3>2. hold[h].at # 0 => hold[h].at \in Slot BY SlotOf DEF IInv, Holders, HoldType
      <3> QED BY <1>5, <3>1, <3>2
    <2> QED BY <2>1 DEF IInv, Holders, Opened
  <1>7. Gates'
    <2>1. \A j \in Slot : inst'[j].gate = inst[j].gate BY <1>1, <1>2
    <2> QED BY <2>1 DEF IInv, Gates, Waits
  <1>8. Operation'
    <2>1. op.pc \in {"boot", "awaitBoot"} => op.at = i BY <1>1 DEF IInv, Operation
    <2>2. op.pc \notin {"publish", "clear"} /\ op.pc \notin {"call", "fencing"}
      BY <1>1 DEF Alone
    <2>3. op.pc \notin Alone BY <1>1
    <2> QED BY <1>3, <2>1, <2>2, <2>3 DEF IInv, Operation
  <1>9. Keeper' = i /\ Awaited' BY <1>1, <1>3 DEF Keeper, Awaited
  <1> QED BY <1>4, <1>6, <1>7, <1>8, <1>9

\* What open() reads and what the guest adds to an empty log.
LEMMA LoadedFacts ==
    ASSUME IInv, NEW i \in Slot, inst[i].phase = "load", NEW x, x = Loaded(i)
    PROVE  /\ Knows(x, log, image, landed.log, landed.image, config)
           /\ x.log \in [bytes : Log, low : Int] /\ x.image \in [bytes : Seq(Log), low : Int]
           /\ x = GuestOf(x) /\ x.phase = "load" /\ x.gate = <<>>
           /\ x.poisoned = FALSE /\ x.closed = FALSE
  <1>1. Guest(inst[i]) /\ inst[i].gate = <<>> /\ Usable(inst[i])
    BY BootingFacts DEF Booting
  <1>2. PICK o : o = HostImage(LoadBytes(log)) OBVIOUS
  <1>3. PICK a : a = IF o.bytes = <<>> THEN AppendBytes(o, <<Header>>) ELSE o OBVIOUS
  <1>4. x = [inst[i] EXCEPT !.log = a, !.image = HostImage(LoadBytes(image)),
                            !.logHandle = Handle(log, config),
                            !.imageHandle = Handle(image, config)]
    BY <1>2, <1>3 DEF Loaded
  <1>5. inst[i] = GuestOf(inst[i]) BY <1>1 DEF Guest
  <1>6. /\ x = GuestOf(x) /\ x.log = a /\ x.image = HostImage(LoadBytes(image))
        /\ x.logHandle = Handle(log, config) /\ x.imageHandle = Handle(image, config)
        /\ x.phase = inst[i].phase /\ x.poisoned = inst[i].poisoned
        /\ x.closed = inst[i].closed /\ x.gate = inst[i].gate
    <2>1. PICK w : w = inst[i] OBVIOUS
    <2>2. PICK b, c, d : b = HostImage(LoadBytes(image)) /\ c = Handle(log, config)
                         /\ d = Handle(image, config)
      OBVIOUS
    <2>3. x = [w EXCEPT !.log = a, !.image = b, !.logHandle = c, !.imageHandle = d]
      BY ONLY <1>4, <2>1, <2>2
    <2>4. w = GuestOf(w) BY ONLY <1>5, <2>1
    <2>5. /\ x = GuestOf(x) /\ x.log = a /\ x.image = b
          /\ x.logHandle = c /\ x.imageHandle = d
          /\ x.phase = w.phase /\ x.poisoned = w.poisoned
          /\ x.closed = w.closed /\ x.gate = w.gate
      <3>1. x = [phase |-> w.phase, log |-> a, image |-> b, logHandle |-> c,
                 imageHandle |-> d, poisoned |-> w.poisoned, closed |-> w.closed,
                 gate |-> w.gate, logPlan |-> w.logPlan, imagePlan |-> w.imagePlan]
        BY ONLY <2>3, <2>4 DEF GuestOf
      <3> QED BY ONLY <3>1 DEF GuestOf
    <2> QED BY ONLY <2>1, <2>2, <2>5
  <1>7. /\ ReadsAs(log, landed.log) /\ ReadsAs(image, landed.image)
        /\ TakenOf(landed.image, landed.log)
        /\ landed.log \in Log /\ landed.image \in Seq(Log)
    BY DEF IInv, Storage, Stored
  <1>8. o.bytes = landed.log BY <1>2, <1>7 DEF HostImage, ReadsAs
  <1>9. \/ a = HostImage(LoadBytes(log))
        \/ landed.log = <<>> /\ a = AppendBytes(HostImage(LoadBytes(log)), <<Header>>)
    BY <1>2, <1>3, <1>8
  <1>10. /\ Knows(x, log, image, landed.log, landed.image, config)
         /\ x.log \in [bytes : Log, low : Int] /\ x.image \in [bytes : Seq(Log), low : Int]
    BY ONLY <1>6, <1>7, <1>9, FreshFits
  <1>11. inst[i].poisoned = FALSE /\ inst[i].closed = FALSE BY <1>1 DEF Usable, Guest
  <1> QED BY <1>1, <1>6, <1>10, <1>11

LEMMA BootLoadStep ==
    ASSUME IInv, NEW i \in Slot, BootLoad(i)
    PROVE  IInv'
  <1>1. /\ inst[i].phase = "load" /\ inst[i].phase \in Booting
        /\ UNCHANGED <<stored, config, asked, backup, history>>
    BY DEF BootLoad, Booting
  <1>2. UNCHANGED <<log, image, marker, config, landed, told, backup>>
    BY <1>1 DEF stored, history
  <1>3. ASSUME BootFails(i, fence), UNCHANGED spent \/ Spend("faults", MaxFaults)
        PROVE  IInv'
    <2>1. Spending'
      BY <1>3, SpendFacts DEF IInv, Spending
    <2> QED BY <1>1, <1>3, <2>1, BootFailsStep
  <1>4. /\ booting = i /\ live = 0 /\ inst[i].gate = <<>> /\ marker = NoLog
        /\ \A j \in Slot : j # i => ~Usable(inst[j])
        /\ op.pc # "clear"
    BY <1>1, BootingFacts DEF Alone
  <1>5. PICK x : x = Loaded(i) OBVIOUS
  <1>6. /\ Knows(x, log, image, landed.log, landed.image, config)
        /\ x.log \in [bytes : Log, low : Int] /\ x.image \in [bytes : Seq(Log), low : Int]
        /\ x = GuestOf(x) /\ x.phase = "load" /\ x.gate = <<>>
        /\ x.poisoned = FALSE /\ x.closed = FALSE
    BY <1>1, <1>5, LoadedFacts
  <1>7. Storage' BY <1>2, StorageStays DEF IInv
  <1>8. marker' = NoLog BY <1>2, <1>4
  <1>9. landed.log \in Log /\ landed.image \in Seq(Log) BY DEF IInv, Storage
  <1>10. UNCHANGED <<log, image, config, landed>> /\ Guests BY <1>2 DEF IInv
  <1>11. ASSUME Dirty(x.log), inst' = [inst EXCEPT ![i] = [Stage(x) EXCEPT !.phase = "opening"]],
                UNCHANGED <<object, spent, hold, op>>
         PROVE  IInv'
    <2>1. PICK y : y = [Stage(x) EXCEPT !.phase = "opening"] OBVIOUS
    <2>2. /\ Fits(y, log, image, landed.log, landed.image, config)
          /\ y = GuestOf(y) /\ y.phase = "opening" /\ y.gate = x.gate
          /\ y.poisoned = x.poisoned /\ y.closed = x.closed
          /\ y.log \in [bytes : Log, low : Int] /\ y.image \in [bytes : Seq(Log), low : Int]
      <3>1. PICK p : p = "opening" OBVIOUS
      <3>2. p # "idle" BY <3>1
      <3>3. y = StagedAt(x, p) BY ONLY <2>1, <3>1 DEF StagedAt
      <3>4. PICK r, m, b, c, size : /\ r = log /\ m = image /\ size = config
                                    /\ b = landed.log /\ c = landed.image
        OBVIOUS
      <3>5. /\ b \in Log /\ c \in Seq(Log) /\ Knows(x, r, m, b, c, size)
            /\ Bytes(x)
        BY ONLY <1>6, <1>9, <3>4 DEF Bytes
      <3>6. Fits(y, r, m, b, c, size) /\ Staged(x, y, p)
        BY ONLY <3>2, <3>3, <3>5, StagedFits
      <3> QED BY ONLY <3>1, <3>4, <3>6 DEF Staged, Bytes
    <2>3. inst' = [inst EXCEPT ![i] = y] BY ONLY <1>11, <2>1
    <2>4. Guest(y) BY <1>6, <2>2, LineEmpty DEF Guest, Booting
    <2>5. UNCHANGED <<fence, live, booting>> BY <1>11 DEF object
    <2>6. Keeper' = i
      <3>1. i # 0 BY SlotOf
      <3> QED BY <1>4, <2>5, <3>1 DEF Keeper
    <2>7. FitsNow(y) BY <2>2 DEF FitsNow
    <2>8. Guests'
      BY ONLY <1>4, <1>8, <1>10, <2>3, <2>4, <2>6, <2>7, i \in Slot, GuestsStep
    <2>9. inst'[i] = y /\ \A j \in Slot : j # i => inst'[j] = inst[j]
      BY <2>3, SlotUpdate DEF IInv, Guests
    <2>10. Stays BY <1>1, <2>2, <2>9 DEF Stays, Opened, Booting
    <2>11. Gates'
      <3>1. \A j \in Slot : inst'[j].gate = inst[j].gate BY <1>4, <1>6, <2>2, <2>9
      <3> QED BY <1>11, <3>1 DEF IInv, Gates, Waits
    <2>12. Holders' BY <1>11, <2>10, HoldersStay DEF IInv
    <2>13. References' BY <1>2, <2>5, <2>10, ReferencesStay DEF IInv
    <2>14. Operation' BY <1>2, <1>4, <1>11, <2>5, <2>10, OperationStays DEF IInv
    <2>15. Spending' BY <1>11 DEF IInv, Spending
    <2>16. Awaited' BY <1>11, <2>5, AwaitedStays DEF IInv
    <2> QED BY <1>7, <2>8, <2>11, <2>12, <2>13, <2>14, <2>15, <2>16 DEF IInv
  <1>12. ASSUME ~Dirty(x.log), inst' = [inst EXCEPT ![i] = [x EXCEPT !.phase = "idle"]],
                BootDone(i), UNCHANGED <<fence, spent, hold, op>>
         PROVE  IInv'
    <2>1. PICK y : y = [x EXCEPT !.phase = "idle"] OBVIOUS
    <2>2. y = [phase |-> "idle", log |-> x.log, image |-> x.image,
               logHandle |-> x.logHandle, imageHandle |-> x.imageHandle,
               poisoned |-> x.poisoned, closed |-> x.closed, gate |-> x.gate,
               logPlan |-> x.logPlan, imagePlan |-> x.imagePlan]
      BY ONLY <1>6, <2>1, PhaseTo
    <2>3. /\ y.phase = "idle" /\ y.gate = <<>> /\ y.poisoned = x.poisoned
          /\ y.closed = x.closed /\ y.log = x.log /\ y.image = x.image
          /\ y.logHandle = x.logHandle /\ y.imageHandle = x.imageHandle /\ y = GuestOf(y)
      BY <1>6, <2>2 DEF GuestOf
    <2>4. Fits(y, log, image, landed.log, landed.image, config)
      <3>1. SameBytes(x, y) BY <2>3 DEF SameBytes
      <3> QED BY <1>6, <2>3, <3>1, KnowsSame
    <2>5. inst' = [inst EXCEPT ![i] = y] BY ONLY <1>12, <2>1
    <2>6. Guest(y) BY <1>6, <2>3, LineEmpty DEF Guest, Booting
    <2>7. UNCHANGED <<marker, fence, hold, op>> BY <1>2, <1>12
    <2>8. Spending' BY <1>12 DEF IInv, Spending
    <2>9. References' /\ Holders' /\ Gates' /\ Operation' /\ Awaited' /\ Keeper' = i
      BY ONLY IInv, i \in Slot, <1>1, <1>4, <1>12, <2>3, <2>5, <2>7, <2>8, BootDoneStep
    <2>10. FitsNow(y) BY <2>4 DEF FitsNow
    <2>11. Guests'
      BY ONLY <1>4, <1>8, <1>10, <2>5, <2>6, <2>9, <2>10, i \in Slot, GuestsStep
    <2> QED BY <1>7, <2>8, <2>9, <2>11 DEF IInv
  <1> QED BY <1>3, <1>5, <1>11, <1>12 DEF BootLoad

-----------------------------------------------------------------------------
(* Commits.                                                                *)

LEMMA AfterLandingIs ==
    ASSUME NEW x, x = GuestOf(x), NEW y, y = AfterLanding(x)
    PROVE  /\ y = GuestOf(y) /\ y.phase = x.phase /\ y.log = x.log /\ y.image = x.image
           /\ y.poisoned = x.poisoned /\ y.closed = x.closed /\ y.gate = x.gate
  <1>1. y = [x EXCEPT !.logHandle = Settled(@, x.logPlan),
                      !.imageHandle = Settled(@, x.imagePlan)]
    BY DEF AfterLanding
  <1>2. x = GuestOf(x) OBVIOUS
  <1> QED BY ONLY <1>1, <1>2 DEF GuestOf

LEMMA AfterRejectionIs ==
    ASSUME NEW x, x = GuestOf(x), NEW y, y = AfterRejection(x)
    PROVE  /\ y = GuestOf(y) /\ y.log = x.log /\ y.image = x.image
           /\ y.poisoned = TRUE /\ y.closed = x.closed /\ y.gate = x.gate
  <1>1. y = [x EXCEPT !.poisoned = TRUE] BY DEF AfterRejection
  <1>2. x = GuestOf(x) OBVIOUS
  <1> QED BY ONLY <1>1, <1>2 DEF GuestOf

LEMMA OpenedFields ==
    ASSUME NEW x, x = GuestOf(x), NEW y, y = [x EXCEPT !.phase = "idle", !.logPlan = NoPlan]
    PROVE  /\ y = GuestOf(y) /\ y.phase = "idle" /\ y.gate = x.gate /\ SameBytes(x, y)
           /\ y.poisoned = x.poisoned /\ y.closed = x.closed
  BY DEF GuestOf, SameBytes

\* A guest whose commit lands is the only one that is usable; the storage then
\* reads as what that guest holds.
LEMMA LandsFacts ==
    ASSUME IInv, NEW i \in Slot, inst[i].phase \in {"staged", "opening"}
    PROVE  /\ Guest(inst[i]) /\ Usable(inst[i]) /\ i = Keeper /\ marker = NoLog
           /\ FitsNow(inst[i]) /\ op.pc \notin Alone
           /\ \A j \in Slot : j # i => ~Usable(inst[j])
  <1>1. Guest(inst[i]) BY DEF IInv, Guests
  <1>2. Usable(inst[i]) BY <1>1 DEF Guest, Usable
  <1>3. i = Keeper /\ FitsNow(inst[i]) BY <1>2 DEF IInv, Guests
  <1>4. \A j \in Slot : j # i => ~Usable(inst[j]) BY <1>3 DEF IInv, Guests
  <1>5. op.pc \notin Alone
    <2>1. ASSUME op.pc \in Alone PROVE FALSE
      <3>1. live = 0 /\ booting = 0 BY <2>1 DEF IInv, Operation
      <3>2. op.at = i BY <1>3, <3>1 DEF Keeper
      <3>3. i # 0 BY SlotOf
      <3>4. op.pc = "clear" BY <2>1, <3>2, <3>3 DEF IInv, Operation, Alone
      <3>5. inst[op.at].phase = "idle" BY <3>4 DEF IInv, Operation
      <3> QED BY <3>2, <3>5
    <2> QED BY <2>1
  <1>6. marker = NoLog BY <1>2, <1>5 DEF IInv, Guests, Alone
  <1> QED BY <1>1, <1>2, <1>3, <1>4, <1>5, <1>6

LEMMA LandsStorage ==
    ASSUME IInv, NEW i \in Slot, inst[i].phase \in {"staged", "opening"}, Lands(i),
           UNCHANGED <<marker, config>>, backup' \in Log \cup {NoLog},
           told' = told \/ told' = told \cup Txns(inst[i].log.bytes)
    PROVE  /\ Storage' /\ IsPrefix(landed.log, landed'.log)
           /\ landed'.log = inst[i].log.bytes
           /\ \A y : SameBytes(AfterLanding(inst[i]), y) =>
                        Knows(y, log', image', landed'.log, landed'.image, config')
  <1>1. Guest(inst[i]) /\ marker = NoLog /\ FitsNow(inst[i])
    BY LandsFacts
  <1>2. /\ config \in Nat \ {0} /\ landed.log \in Log /\ landed.image \in Seq(Log)
        /\ Stored(log, landed.log) /\ Stored(image, landed.image)
        /\ told \subseteq Txns(landed.log)
    BY DEF IInv, Storage
  <1>3. Fits(inst[i], log, image, landed.log, landed.image, config) BY <1>1 DEF FitsNow
  <1>4. /\ log' = Applied(log, inst[i].logPlan) /\ image' = Applied(image, inst[i].imagePlan)
        /\ landed' = [log |-> IF inst[i].logPlan = NoPlan THEN landed.log ELSE inst[i].log.bytes,
                      image |-> IF inst[i].imagePlan = NoPlan THEN landed.image
                                ELSE inst[i].image.bytes]
    BY DEF Lands
  <1>5. ASSUME NEW y, SameBytes(AfterLanding(inst[i]), y)
        PROVE  /\ Stored(log', inst[i].log.bytes) /\ Stored(image', inst[i].image.bytes)
               /\ inst[i].logPlan = NoPlan => inst[i].log.bytes = landed.log
               /\ inst[i].imagePlan = NoPlan => inst[i].image.bytes = landed.image
               /\ Knows(y, log', image', inst[i].log.bytes, inst[i].image.bytes, config)
    <2>1. PICK x, r, m, b, c, size :
            /\ x = inst[i] /\ r = log /\ m = image /\ size = config
            /\ b = landed.log /\ c = landed.image
      OBVIOUS
    <2>2. /\ Guest(x) /\ x.phase # "idle" /\ b \in Log /\ c \in Seq(Log)
          /\ size \in Nat \ {0} /\ Stored(r, b) /\ Stored(m, c) /\ Fits(x, r, m, b, c, size)
          /\ SameBytes(AfterLanding(x), y)
      BY <1>1, <1>2, <1>3, <1>5, <2>1
    <2>3. Landed(x, y, Applied(r, x.logPlan), Applied(m, x.imagePlan), b, c, size)
      BY ONLY <2>2, LandFits
    <2>4. log' = Applied(r, x.logPlan) /\ image' = Applied(m, x.imagePlan)
      BY <1>4, <2>1
    <2> QED BY ONLY <2>1, <2>3, <2>4 DEF Landed
  <1>6. SameBytes(AfterLanding(inst[i]), AfterLanding(inst[i])) BY DEF SameBytes
  <1>7. landed'.log = inst[i].log.bytes /\ landed'.image = inst[i].image.bytes
    BY <1>4, <1>5, <1>6
  <1>8. \A y : SameBytes(AfterLanding(inst[i]), y) =>
                  Knows(y, log', image', landed'.log, landed'.image, config')
    BY <1>5, <1>7
  <1>9. landed'.log \in Log /\ landed'.image \in Seq(Log) BY <1>1, <1>7 DEF Guest
  <1>10. IsPrefix(landed.log, landed'.log) /\ TakenOf(landed'.image, landed'.log)
    BY <1>3, <1>7 DEF Fits
  <1>11. told' \subseteq Txns(landed'.log)
    <2>1. Txns(landed.log) \subseteq Txns(landed'.log)
      BY <1>2, <1>9, <1>10, PrefixTxns DEF Log
    <2> QED BY <1>2, <1>7, <2>1
  <1>12. Stored(log', landed'.log) /\ Stored(image', landed'.image) BY <1>5, <1>6, <1>7
  <1>13. Storage'
    <2>1. Stored(log', landed'.log) => Stored(log, landed.log)' BY DEF Stored
    <2>2. Stored(image', landed'.image) => Stored(image, landed.image)' BY DEF Stored
    <2> QED BY <1>1, <1>2, <1>9, <1>10, <1>11, <1>12, <2>1, <2>2 DEF Storage
  <1> QED BY <1>7, <1>8, <1>10, <1>13

\* The one usable guest changes, and the storage perhaps with it.
LEMMA GuestAlone ==
    ASSUME Guests, NEW i \in Slot, NEW y, inst' = [inst EXCEPT ![i] = y], Guest(y),
           Usable(y) =>
             /\ i = Keeper' /\ y.phase = "idle" /\ marker' = NoLog
             /\ Fits(y, log', image', landed'.log, landed'.image, config'),
           \A j \in Slot : j # i => ~Usable(inst[j])
    PROVE  Guests'
  <1>1. /\ inst' = [j \in Slot |-> inst'[j]] /\ inst'[i] = y
        /\ \A j \in Slot : j # i => inst'[j] = inst[j]
    BY SlotUpdate DEF Guests
  <1>2. \A j \in Slot : Guest(inst'[j]) BY <1>1 DEF Guests
  <1>3. \A j \in Slot : Usable(inst'[j]) => j = i BY <1>1
  <1>4. Usable(inst'[i]) =>
          /\ i = Keeper' /\ marker' = NoLog
          /\ Fits(inst'[i], log', image', landed'.log, landed'.image, config')
    BY <1>1
  <1>5. Fits(inst'[i], log', image', landed'.log, landed'.image, config') => FitsNow(inst[i])'
    BY DEF FitsNow
  <1> QED BY <1>1, <1>2, <1>3, <1>4, <1>5 DEF Guests

LEMMA CommitOpenStep ==
    ASSUME IInv, NEW i \in Slot, CommitOpen(i)
    PROVE  IInv'
  <1>1. /\ inst[i].phase = "opening" /\ inst[i].phase \in Booting
        /\ UNCHANGED <<marker, config, asked, backup, told, crossed>>
    BY DEF CommitOpen, Booting
  <1>2. ASSUME Spend("faults", MaxFaults), BootFails(i, fence), UNCHANGED <<log, image, landed>>
        PROVE  IInv'
    <2>1. Spending'
      BY <1>2, SpendFacts DEF IInv
    <2>2. UNCHANGED <<stored, config, asked, backup, history>>
      BY <1>1, <1>2 DEF stored, history
    <2> QED BY <1>1, <1>2, <2>1, <2>2, BootFailsStep
  <1>3. ASSUME Lands(i), BootDone(i), UNCHANGED <<fence, hold, op, spent>>,
               inst' = [inst EXCEPT ![i] = [AfterLanding(@) EXCEPT !.phase = "idle",
                                                                   !.logPlan = NoPlan]]
        PROVE  IInv'
    <2>1. /\ Guest(inst[i]) /\ Usable(inst[i]) /\ marker = NoLog
          /\ \A j \in Slot : j # i => ~Usable(inst[j])
      BY <1>1, LandsFacts
    <2>2. inst[i].gate = <<>> BY <1>1, BootingFacts
    <2>3. backup' \in Log \cup {NoLog} BY <1>1 DEF IInv, Storage
    <2>4. /\ Storage'
          /\ \A y : SameBytes(AfterLanding(inst[i]), y) =>
                       Knows(y, log', image', landed'.log, landed'.image, config')
      BY <1>1, <1>3, <2>3, LandsStorage
    <2>5. PICK z : z = AfterLanding(inst[i]) OBVIOUS
    <2>6. PICK y : y = [z EXCEPT !.phase = "idle", !.logPlan = NoPlan] OBVIOUS
    <2>7. inst[i] = GuestOf(inst[i]) BY <2>1 DEF Guest
    <2>8. /\ z = GuestOf(z) /\ z.log = inst[i].log /\ z.image = inst[i].image
          /\ z.poisoned = inst[i].poisoned /\ z.closed = inst[i].closed /\ z.gate = inst[i].gate
      BY ONLY <2>5, <2>7, AfterLandingIs
    <2>9. /\ y = GuestOf(y) /\ y.phase = "idle" /\ y.gate = z.gate /\ SameBytes(z, y)
          /\ y.poisoned = z.poisoned /\ y.closed = z.closed
      BY ONLY <2>6, <2>8, OpenedFields
    <2>10. y.log = inst[i].log /\ y.image = inst[i].image BY <2>8, <2>9 DEF SameBytes
    <2>11. Guest(y) BY <2>1, <2>2, <2>8, <2>9, <2>10, LineEmpty DEF Guest, Booting
    <2>12. inst' = [inst EXCEPT ![i] = y]
      <3>1. inst' = [inst EXCEPT ![i] = [AfterLanding(inst[i]) EXCEPT !.phase = "idle",
                                                                      !.logPlan = NoPlan]]
        BY <1>3 DEF IInv, Guests
      <3> QED BY ONLY <2>5, <2>6, <3>1
    <2>13. Fits(y, log', image', landed'.log, landed'.image, config')
      <3>1. Knows(y, log', image', landed'.log, landed'.image, config') BY <2>4, <2>5, <2>9
      <3> QED BY <2>9, <3>1, KnowsSame DEF SameBytes
    <2>14. Spending' BY <1>3 DEF IInv, Spending
    <2>15. References' /\ Holders' /\ Gates' /\ Operation' /\ Awaited' /\ Keeper' = i
      <3>1. UNCHANGED <<marker, fence, hold, op>> BY <1>1, <1>3
      <3>2. y.gate = <<>> BY <2>2, <2>8, <2>9
      <3> QED BY ONLY IInv, i \in Slot, <1>1, <1>3, <2>1, <2>9, <2>12, <2>14, <3>1, <3>2,
                 BootDoneStep
    <2>16. Guests'
      <3>1. marker' = NoLog BY <1>1, <2>1
      <3>2. Guests BY DEF IInv
      <3> QED BY ONLY i \in Slot, <2>1, <2>9, <2>11, <2>12, <2>13, <2>15, <3>1, <3>2, GuestAlone
    <2> QED BY <2>4, <2>14, <2>15, <2>16 DEF IInv
  <1> QED BY <1>1, <1>2, <1>3 DEF CommitOpen

-----------------------------------------------------------------------------
(* Calls.                                                                  *)

\* Whoever is at the head of a gate is calling.
LEMMA HeadFacts ==
    ASSUME IInv, NEW i \in Slot, inst[i].gate # <<>>,
           NEW caller, caller = Head(inst[i].gate), caller # "fence"
    PROVE  /\ caller \in Holder \cup {"op"} /\ i # 0 /\ Guest(inst[i])
           /\ caller \in Holder => caller # "op" /\ hold[caller].state = "calls"
                                   /\ hold[caller].at = i
           /\ caller = "op" => /\ op.pc = "call" /\ op.at = i /\ booting = 0
                               /\ op.kind \in Using \cup {"recycle"}
                               /\ live = IF op.kind = "recycle" THEN 0 ELSE i
           /\ op.at = i => op.pc # "clear"
           /\ Usable(inst[i]) => marker = NoLog
  <1>1. Guest(inst[i]) BY DEF IInv, Guests
  <1>2. Line(inst[i].gate) BY <1>1 DEF Guest
  <1>3. caller \in Caller /\ caller = inst[i].gate[1] /\ 1 \in 1 .. Len(inst[i].gate)
    BY <1>2, LineTail
  <1>4. Waits(caller, i) BY <1>3 DEF IInv, Gates
  <1>5. caller \in Holder \cup {"op"} BY <1>3 DEF Caller
  <1>6. caller \in Holder => caller # "op" BY ObjectAssumption DEF ObjectAssumption
  <1>7. i # 0 BY SlotOf
  <1>8. caller = "op" => /\ op.pc = "call" /\ op.at = i /\ booting = 0
                         /\ live = IF op.kind = "recycle" THEN 0 ELSE i
    BY <1>4 DEF Waits, IInv, Operation
  <1>9. caller = "op" => op.kind \in Using \cup {"recycle"} BY <1>8, OpFacts DEF IInv
  <1>10. op.at = i => op.pc # "clear" BY DEF IInv, Operation
  <1>11. Usable(inst[i]) => marker = NoLog
    <2>1. inst[i].phase # "marker" BY <1>1 DEF Guest, Booting
    <2> QED BY <1>10, <2>1 DEF IInv, Guests
  <1> QED BY <1>1, <1>4, <1>5, <1>6, <1>7, <1>8, <1>9, <1>10, <1>11 DEF Waits

\* The call at the head of the gate of i is over and the guest is y.
CallOver(i, caller, y) ==
    /\ inst[i].phase \in {"idle", "staged"} /\ inst[i].gate # <<>>
    /\ caller = Head(inst[i].gate) /\ caller # "fence"
    /\ inst' = [inst EXCEPT ![i] = y] /\ y.phase = "idle" /\ y.gate = Tail(inst[i].gate)
    /\ hold' = IF caller \in Holder
               THEN [hold EXCEPT ![caller].state = "holds", ![caller].call = "none"] ELSE hold
    /\ op' = IF caller = "op" THEN Idle ELSE op
    /\ UNCHANGED <<live, booting>> \/ (caller = "op" /\ op.kind # "recycle" /\ Drop)
    /\ UNCHANGED <<marker, config, fence>>
    /\ UNCHANGED <<log, image, landed>> \/ op.pc \notin Alone

LEMMA CallStep ==
    ASSUME IInv, NEW i \in Slot, NEW caller, NEW y, CallOver(i, caller, y)
    PROVE  References' /\ Holders' /\ Gates' /\ Operation' /\ Awaited'
  <1> USE DEF CallOver
  <1>1. /\ caller \in Holder \cup {"op"} /\ i # 0 /\ Guest(inst[i])
        /\ caller \in Holder => caller # "op" /\ hold[caller].state = "calls"
                                /\ hold[caller].at = i
        /\ caller = "op" => /\ op.pc = "call" /\ op.at = i /\ booting = 0
                            /\ live = IF op.kind = "recycle" THEN 0 ELSE i
        /\ op.at = i => op.pc # "clear"
    BY HeadFacts
  <1>2. inst'[i] = y /\ \A j \in Slot : j # i => inst'[j] = inst[j]
    BY SlotUpdate DEF IInv, Guests
  <1>3. Stays BY <1>2 DEF Stays, Opened, Booting
  <1>4. References'
    <2>1. CASE UNCHANGED <<live, booting>> BY <1>3, <2>1, ReferencesStay DEF IInv
    <2>2. CASE caller = "op" /\ op.kind # "recycle" /\ Drop
      <3>1. live' = 0 /\ booting' = 0 /\ booting = 0 BY <1>1, <2>2 DEF Drop
      <3>2. \A j \in Slot : inst[j].phase \in Booting <=> booting' = j
        BY <3>1 DEF IInv, References
      <3>3. \A j \in Slot : inst'[j].phase \in Booting <=> booting' = j
        BY <1>3, <3>2 DEF Stays
      <3> QED BY <3>1, <3>3, SlotOf DEF References
    <2> QED BY <2>1, <2>2
  <1>5. \A h \in Holder : h # caller => hold'[h] = hold[h] BY DEF IInv, Holders
  <1>6. caller \in Holder =>
          /\ hold'[caller].state = "holds" /\ hold'[caller].at = i
          /\ hold'[caller] \in HoldType
    <2>1. ASSUME caller \in Holder
          PROVE  hold'[caller] = [hold[caller] EXCEPT !.state = "holds", !.call = "none"]
      BY <2>1 DEF IInv, Holders
    <2>2. caller \in Holder => hold[caller] \in HoldType BY DEF IInv, Holders
    <2>3. ASSUME NEW z \in HoldType, NEW w, w = [z EXCEPT !.state = "holds", !.call = "none"]
          PROVE  w.state = "holds" /\ w.at = z.at /\ w \in HoldType
      BY <2>3 DEF HoldType
    <2>4. ASSUME caller \in Holder
          PROVE  /\ hold'[caller].state = "holds" /\ hold'[caller].at = hold[caller].at
                 /\ hold'[caller] \in HoldType
      BY ONLY <2>1, <2>2, <2>3, <2>4
    <2> QED BY <1>1, <2>4
  <1>7. Holders'
    <2>1. hold' \in [Holder -> HoldType]
      <3>1. \A h \in Holder : hold'[h] \in HoldType
        BY <1>5, <1>6 DEF IInv, Holders
      <3>2. hold' = [h \in Holder |-> hold'[h]] BY DEF IInv, Holders
      <3> QED BY <3>1, <3>2
    <2>2. ASSUME NEW h \in Holder
          PROVE  /\ hold'[h].state = "away" => hold'[h] = Away
                 /\ hold'[h].state # "away" => hold'[h].at # 0 /\ inst'[hold'[h].at].phase # "free"
                 /\ hold'[h].state \in {"holds", "calls"} => Opened(hold[h].at)'
      <3>1. CASE h = caller
        <4>1. hold'[h].state = "holds" /\ hold'[h].at = i BY <1>6, <3>1
        <4>2. inst'[i].phase = "idle" BY <1>2
        <4> QED BY <1>1, <4>1, <4>2 DEF Opened, Booting
      <3>2. CASE h # caller
        <4>1. hold'[h] = hold[h] BY <1>5, <3>2
        <4>2. hold[h].at # 0 => hold[h].at \in Slot
          BY SlotOf DEF IInv, Holders, HoldType
        <4>3. /\ hold[h].state = "away" => hold[h] = Away
              /\ hold[h].state # "away" => hold[h].at # 0 /\ inst[hold[h].at].phase # "free"
              /\ hold[h].state \in {"holds", "calls"} => Opened(hold[h].at)
          BY DEF IInv, Holders
        <4>4. hold[h].at # 0 =>
                /\ inst[hold[h].at].phase # "free" => inst'[hold[h].at].phase # "free"
                /\ Opened(hold[h].at) => inst'[hold[h].at].phase \notin Booting \cup {"free"}
          BY <1>3, <4>2 DEF Stays, Opened
        <4>5. hold[h].state \in {"holds", "calls"} => hold[h].state # "away" OBVIOUS
        <4> QED BY <4>1, <4>3, <4>4, <4>5 DEF Opened
      <3> QED BY <3>1, <3>2
    <2> QED BY <2>1, <2>2 DEF Holders
  <1>8. Gates'
    <2> SUFFICES ASSUME NEW j \in Slot, NEW k \in 1 .. Len(inst'[j].gate)
                 PROVE  Waits(inst[j].gate[k], j)'
      BY DEF Gates
    <2>1. PICK c : c = inst'[j].gate[k] OBVIOUS
    <2>2. Waits(c, j) /\ (j = i => c # caller)
      <3>1. CASE j = i
        <4>1. Line(inst[i].gate) BY <1>1 DEF Guest
        <4>2. inst'[j].gate = Tail(inst[i].gate) BY <1>2, <3>1
        <4>3. /\ k + 1 \in 1 .. Len(inst[i].gate) /\ c = inst[i].gate[k + 1]
              /\ c # caller
          <5>1. k \in 1 .. Len(Tail(inst[i].gate)) /\ c = Tail(inst[i].gate)[k]
            BY <2>1, <4>2, <3>1
          <5> QED BY <4>1, <5>1, LineTail
        <4> QED BY <3>1, <4>3 DEF IInv, Gates
      <3>2. CASE j # i
        BY <1>2, <2>1, <3>2 DEF IInv, Gates
      <3> QED BY <3>1, <3>2
    <2>3. c \in Holder => /\ c # caller /\ hold'[c] = hold[c]
      <3>1. ASSUME c \in Holder, c = caller PROVE FALSE
        BY <1>1, <2>2, <3>1 DEF Waits
      <3> QED BY <1>5, <3>1
    <2>4. c \in {"op", "fence"} => op' = op
      <3>1. ASSUME c = "op", caller = "op" PROVE FALSE
        BY <1>1, <2>2, <3>1 DEF Waits
      <3>2. ASSUME c = "fence", caller = "op" PROVE FALSE
        BY <1>1, <2>2, <3>2 DEF Waits
      <3> QED BY <3>1, <3>2
    <2>5. /\ c = "op" => op'.pc = "call" /\ op'.at = j
          /\ c = "fence" => op'.pc = "fencing" /\ op'.at = j
          /\ c \in Holder => hold'[c].state = "calls" /\ hold'[c].at = j
      BY <2>2, <2>3, <2>4 DEF Waits
    <2> QED BY <2>1, <2>5 DEF Waits
  <1>9. Operation'
    <2>1. CASE caller = "op"
      <3>1. op' = Idle BY <2>1
      <3> QED BY <3>1, IdleIs, SlotOf DEF Operation, Kind, PCs, Alone, Fenced
    <2>2. CASE caller # "op"
      <3>1. op' = op /\ UNCHANGED <<live, booting, fence>> BY <2>2
      <3>2. op.pc = "clear" => op.at # i BY <1>1
      <3>3. op.pc = "clear" => op.at \in Slot BY SlotOf DEF IInv, Operation
      <3>4. op.pc = "clear" =>
              /\ inst'[op.at] = inst[op.at]
              /\ \A h \in Holder : hold'[h].at = op.at => hold[h].at = op.at
        BY <1>1, <1>2, <1>5, <1>6, <3>2, <3>3
      <3>5. CASE UNCHANGED <<log, image, landed>>
        <4>1. Operation BY DEF IInv
        <4>2. UNCHANGED <<log, image, landed, fence, live, booting>> BY <3>1, <3>5
        <4> QED BY ONLY <1>3, <3>1, <3>4, <4>1, <4>2, OperationStays
      <3>6. CASE op.pc \notin Alone
        <4>1. op.at # 0 => (Opened(op.at) => inst'[op.at].phase \notin Booting \cup {"free"})
          BY <1>3, SlotOf DEF IInv, Operation, Stays, Opened
        <4>2. op.pc \notin {"publish", "clear"} /\ op.pc \notin Alone BY <3>6 DEF Alone
        <4>3. op.pc \in {"call", "fencing"} => inst'[op.at].phase \notin Booting \cup {"free"}
          BY <4>1 DEF IInv, Operation
        <4> QED BY <3>1, <4>2, <4>3 DEF IInv, Operation, Opened
      <3> QED BY <3>5, <3>6
    <2> QED BY <2>1, <2>2
  <1>10. Awaited'
    <2>1. ASSUME booting' # 0 PROVE booting' = booting /\ op' = op
      BY <1>1, <2>1 DEF Drop
    <2>2. \A h \in Holder : hold'[h].at = hold[h].at BY <1>1, <1>5, <1>6
    <2> QED BY <2>1, <2>2 DEF Awaited, IInv
  <1> QED BY <1>4, <1>7, <1>8, <1>9, <1>10

\* The guest after a call, before its commit.
LEMMA GuestCallFits ==
    ASSUME IInv, NEW i \in Slot, inst[i].phase = "idle", Usable(inst[i]), inst[i].gate # <<>>,
           NEW caller, caller = Head(inst[i].gate), caller # "fence",
           NEW x \in GuestCall(inst[i], caller)
    PROVE  /\ Guest(x) /\ FitsNow(x) /\ x.phase = "idle" /\ x.gate = inst[i].gate
           /\ x.poisoned = FALSE /\ x.closed = FALSE
  <1>1. /\ caller \in Holder \cup {"op"} /\ Guest(inst[i])
        /\ caller \in Holder => caller # "op"
        /\ caller = "op" => op.pc = "call"
    BY HeadFacts
  <1>2. FitsNow(inst[i]) BY DEF IInv, Guests
  <1>3. PICK g, r, m, b, c, size :
            /\ g = inst[i] /\ r = log /\ m = image /\ size = config
            /\ b = landed.log /\ c = landed.image
    OBVIOUS
  <1>4. /\ Guest(g) /\ g.phase = "idle" /\ Fits(g, r, m, b, c, size)
        /\ b \in Log /\ c \in Seq(Log) /\ g.poisoned = FALSE /\ g.closed = FALSE
    BY <1>1, <1>2, <1>3 DEF FitsNow, IInv, Storage, Usable, Guest
  <1>5. SUFFICES /\ Guest(x) /\ Fits(x, r, m, b, c, size) /\ x.phase = g.phase
                 /\ x.gate = g.gate /\ x.poisoned = g.poisoned /\ x.closed = g.closed
    BY <1>3, <1>4 DEF FitsNow
  <1>6. CASE CallOf(caller) = "write"
    <2>1. WriterOf(caller) \in LogByte
      <3>1. CASE caller \in Holder BY <3>1 DEF WriterOf, LogByte
      <3>2. CASE caller \notin Holder
        <4>1. op.kind = "write" BY <1>6, <3>2 DEF CallOf
        <4> QED BY <3>2, <4>1 DEF IInv, Operation, WriterOf, LogByte
      <3> QED BY <3>1, <3>2
    <2>2. PICK w : w = WriterOf(caller) OBVIOUS
    <2>3. x = [g EXCEPT !.log = AppendBytes(@, <<w>>)] BY <1>3, <1>6, <2>2 DEF GuestCall
    <2>4. w \in LogByte BY <2>1, <2>2
    <2> QED BY ONLY <1>4, <2>3, <2>4, WriteFits
  <1>7. CASE CallOf(caller) = "checkpoint"
    <2>1. PICK n \in ImageSizes : x = Pictured(g, n) BY <1>3, <1>7 DEF GuestCall, Pictured
    <2>2. n \in Nat \ {0} BY ObjectAssumption DEF ObjectAssumption
    <2> QED BY ONLY <1>4, <2>1, <2>2, CheckpointFits
  <1>8. CASE CallOf(caller) \notin {"write", "checkpoint"}
    <2>1. x = g BY <1>3, <1>8 DEF GuestCall
    <2> QED BY <1>4, <2>1
  <1> QED BY <1>6, <1>7, <1>8

LEMMA CallKeeper ==
    ASSUME IInv, NEW i \in Slot, inst[i].gate # <<>>,
           NEW caller, caller = Head(inst[i].gate), caller # "fence",
           op' = (IF caller = "op" THEN Idle ELSE op),
           UNCHANGED <<live, booting>> \/ caller = "op"
    PROVE  /\ Usable(inst[i]) /\ UNCHANGED <<live, booting>>
                /\ (caller = "op" => op.kind # "recycle") => i = Keeper'
           /\ \A j \in Slot : j # i /\ Usable(inst[j]) =>
                /\ caller # "op" /\ op' = op
                /\ j = Keeper'
  <1>1. /\ i # 0
        /\ caller = "op" => /\ op.at = i /\ booting = 0
                            /\ live = IF op.kind = "recycle" THEN 0 ELSE i
    BY HeadFacts
  <1>2. \A j \in Slot : Usable(inst[j]) => j = Keeper BY DEF IInv, Guests
  <1>3. caller = "op" => Keeper = i BY <1>1 DEF Keeper
  <1>4. caller # "op" => op' = op /\ Keeper' = Keeper BY DEF Keeper
  <1>5. caller = "op" /\ op.kind # "recycle" /\ UNCHANGED <<live, booting>> => i = Keeper'
    BY <1>1 DEF Keeper
  <1> QED BY <1>2, <1>3, <1>4, <1>5

LEMMA GateTail ==
    ASSUME NEW x, Guest(x), x.phase = "idle", x.gate # <<>>,
           NEW y, y = [x EXCEPT !.gate = Tail(@)]
    PROVE  /\ Guest(y) /\ y.phase = "idle" /\ y.gate = Tail(x.gate) /\ SameBytes(x, y)
           /\ y.poisoned = x.poisoned /\ y.closed = x.closed
  <1>1. x = GuestOf(x) BY DEF Guest
  <1>2. y = [x EXCEPT !.gate = Tail(@)] OBVIOUS
  <1>3. /\ y = GuestOf(y) /\ y.phase = x.phase /\ y.log = x.log /\ y.image = x.image
        /\ y.logHandle = x.logHandle /\ y.imageHandle = x.imageHandle
        /\ y.poisoned = x.poisoned /\ y.closed = x.closed /\ y.gate = Tail(x.gate)
    BY ONLY <1>1, <1>2 DEF GuestOf
  <1>4. Line(x.gate) BY DEF Guest
  <1>5. Line(Tail(x.gate)) BY <1>4, LineTail
  <1> QED BY <1>3, <1>5 DEF Guest, SameBytes, Booting

LEMMA StagedGuest ==
    ASSUME NEW x, Guest(x), x.phase = "idle", x.poisoned = FALSE, x.closed = FALSE,
           x.gate # <<>>, Head(x.gate) # "fence",
           NEW y, Staged(x, y, "staged")
    PROVE  Guest(y) /\ y.phase = "staged" /\ y.gate = x.gate
  BY DEF Guest, Staged, Bytes, Booting

LEMMA RunCallStep ==
    ASSUME IInv, NEW i \in Slot, RunCall(i)
    PROVE  IInv'
  <1>1. PICK caller : caller = Head(inst[i].gate) OBVIOUS
  <1>2. /\ inst[i].phase = "idle" /\ inst[i].gate # <<>> /\ caller # "fence"
        /\ UNCHANGED <<stored, config, fence, asked, landed>>
    BY <1>1 DEF RunCall
  <1>3. /\ caller \in Holder \cup {"op"} /\ i # 0 /\ Guest(inst[i])
        /\ caller \in Holder => caller # "op"
        /\ caller = "op" => /\ op.pc = "call" /\ op.at = i /\ booting = 0
                            /\ op.kind \in Using \cup {"recycle"}
                            /\ live = IF op.kind = "recycle" THEN 0 ELSE i
        /\ Usable(inst[i]) => marker = NoLog
    BY <1>1, <1>2, HeadFacts
  <1>4. UNCHANGED <<log, image, marker, config, fence, landed>> BY <1>2 DEF stored
  <1>5. Usable(inst[i]) <=> ~inst[i].poisoned /\ ~inst[i].closed BY <1>2 DEF Usable
  <1>6. \A j \in Slot : j # i /\ Usable(inst[j]) => ~Usable(inst[i])
    BY DEF IInv, Guests
  <1>7. ASSUME ~Usable(inst[i]), Fail(caller, inst[i].poisoned), UNCHANGED spent,
               inst' = [inst EXCEPT ![i].gate = Tail(@)]
        PROVE  IInv'
    <2>1. PICK g : g = inst[i] OBVIOUS
    <2>2. PICK y : y = [g EXCEPT !.gate = Tail(@)] OBVIOUS
    <2>3. inst' = [inst EXCEPT ![i] = y]
      <3>1. inst' = [inst EXCEPT ![i] = [inst[i] EXCEPT !.gate = Tail(inst[i].gate)]]
        BY <1>7 DEF IInv, Guests
      <3>2. y = [inst[i] EXCEPT !.gate = Tail(inst[i].gate)] BY <2>1, <2>2
      <3> QED BY ONLY <3>1, <3>2
    <2>4. /\ Guest(y) /\ y.phase = "idle" /\ y.gate = Tail(g.gate)
          /\ y.poisoned = g.poisoned /\ y.closed = g.closed
      BY <1>2, <1>3, <2>1, <2>2, GateTail
    <2>5. ~Usable(y) BY <1>2, <1>7, <2>1, <2>4 DEF Usable
    <2>6. /\ hold' = (IF caller \in Holder
                      THEN [hold EXCEPT ![caller].state = "holds", ![caller].call = "none"]
                      ELSE hold)
          /\ op' = (IF caller = "op" THEN Idle ELSE op)
          /\ UNCHANGED <<live, booting>> \/ (caller = "op" /\ op.kind # "recycle" /\ Drop)
          /\ UNCHANGED <<told, backup>>
      BY <1>7 DEF Fail
    <2>7. References' /\ Holders' /\ Gates' /\ Operation' /\ Awaited'
      <3>1. y.phase = "idle" /\ y.gate = Tail(inst[i].gate) BY <2>1, <2>4
      <3>2. inst[i].phase \in {"idle", "staged"} BY <1>2
      <3>3. CallOver(i, caller, y)
        BY <1>1, <1>2, <1>4, <2>3, <2>6, <3>1, <3>2 DEF CallOver
      <3> QED BY <3>3, CallStep
    <2>8. Guests'
      <3>1. \A j \in Slot : j # i /\ Usable(inst[j]) => op' = op /\ j = Keeper'
        BY <1>1, <1>2, <2>6, CallKeeper
      <3>2. \A j \in Slot : j # i /\ Usable(inst[j]) =>
              /\ j = Keeper'
              /\ inst[j].phase # "marker" /\ marker' # NoLog => op'.pc = "clear" /\ j = op'.at
        BY <1>4, <3>1 DEF IInv, Guests
      <3> QED BY <1>4, <2>3, <2>4, <2>5, <3>2, GuestsStep DEF IInv
    <2>9. Storage' BY <1>4, <2>6, StorageStays DEF IInv
    <2>10. Spending' BY <1>7 DEF IInv, Spending
    <2> QED BY <2>7, <2>8, <2>9, <2>10 DEF IInv
  <1>8. ASSUME Usable(inst[i]), NEW x \in GuestCall(inst[i], caller), UNCHANGED spent,
               Dirty(x.log) \/ Dirty(x.image),
               inst' = [inst EXCEPT ![i] = [Stage(x) EXCEPT !.phase = "staged"]],
               UNCHANGED <<live, booting, hold, op, backup, told>>
        PROVE  IInv'
    <2>1. /\ Guest(x) /\ FitsNow(x) /\ x.phase = "idle" /\ x.gate = inst[i].gate
          /\ x.poisoned = FALSE /\ x.closed = FALSE
      BY <1>1, <1>2, <1>8, GuestCallFits
    <2>2. PICK p, y : p = "staged" /\ y = StagedAt(x, p) OBVIOUS
    <2>3. inst' = [inst EXCEPT ![i] = y] BY <1>8, <2>2 DEF StagedAt
    <2>4. Fits(y, log, image, landed.log, landed.image, config) /\ Staged(x, y, p)
      <3>1. PICK r, m, b, c, size : /\ r = log /\ m = image /\ size = config
                                    /\ b = landed.log /\ c = landed.image
        OBVIOUS
      <3>2. /\ b \in Log /\ c \in Seq(Log) /\ Fits(x, r, m, b, c, size)
        BY <2>1, <3>1 DEF IInv, Storage, FitsNow
      <3>3. Knows(x, r, m, b, c, size)
        <4>1. SameBytes(x, x) BY DEF SameBytes
        <4> QED BY ONLY <2>1, <3>2, <4>1, KnowsSame
      <3>4. Bytes(x) /\ p # "idle" BY <2>1, <2>2 DEF Bytes, Guest
      <3>5. Fits(y, r, m, b, c, size) /\ Staged(x, y, p)
        BY ONLY <2>2, <3>2, <3>3, <3>4, StagedFits
      <3> QED BY ONLY <3>1, <3>5
    <2>5. Guest(y) /\ y.phase = "staged" /\ y.gate = inst[i].gate
      BY <1>1, <1>2, <2>1, <2>2, <2>4, StagedGuest
    <2>6. inst'[i] = y /\ \A j \in Slot : j # i => inst'[j] = inst[j]
      BY <2>3, SlotUpdate DEF IInv, Guests
    <2>7. Stays BY <1>2, <2>5, <2>6 DEF Stays, Opened, Booting
    <2>8. Guests'
      <3>1. i = Keeper' BY <1>8 DEF IInv, Guests, Keeper
      <3>2. marker' = NoLog BY <1>3, <1>4, <1>8
      <3>3. FitsNow(y) BY <2>4 DEF FitsNow
      <3>4. \A j \in Slot : j # i => ~Usable(inst[j]) BY <1>6, <1>8
      <3>5. Guests /\ UNCHANGED <<log, image, config, landed>> BY <1>4 DEF IInv
      <3> QED BY ONLY i \in Slot, <2>3, <2>5, <3>1, <3>2, <3>3, <3>4, <3>5, GuestsStep
    <2>9. Gates'
      <3>1. \A j \in Slot : inst'[j].gate = inst[j].gate BY <2>5, <2>6
      <3> QED BY <1>8, <3>1 DEF IInv, Gates, Waits
    <2>10. Holders' BY <1>8, <2>7, HoldersStay DEF IInv
    <2>11. References' BY <1>4, <1>8, <2>7, ReferencesStay DEF IInv
    <2>12. Operation'
      <3>1. op.pc = "clear" => op.at # i
        BY <1>2 DEF IInv, Operation
      <3>2. op.pc = "clear" => op.at \in Slot BY SlotOf DEF IInv, Operation
      <3>3. op.pc = "clear" => inst'[op.at] = inst[op.at] BY <2>6, <3>1, <3>2
      <3> QED BY <1>4, <1>8, <2>7, <3>3, OperationStays DEF IInv
    <2>13. Storage' BY <1>4, <1>8, StorageStays DEF IInv
    <2>14. Spending' BY <1>8 DEF IInv, Spending
    <2>15. Awaited' BY <1>8, AwaitedStays DEF IInv
    <2> QED BY <2>8, <2>9, <2>10, <2>11, <2>12, <2>13, <2>14, <2>15 DEF IInv
  \* The two ways a call ends at once.
  <1>9. ASSUME Usable(inst[i]), NEW x \in GuestCall(inst[i], caller), NEW y, Guest(y),
               y.phase = "idle", y.gate = Tail(inst[i].gate), Usable(y) => SameBytes(x, y),
               caller = "op" /\ op.kind = "recycle" => ~Usable(y),
               inst' = [inst EXCEPT ![i] = y], UNCHANGED <<live, booting>>, Spending',
               hold' = (IF caller \in Holder
                        THEN [hold EXCEPT ![caller].state = "holds", ![caller].call = "none"]
                        ELSE hold),
               op' = (IF caller = "op" THEN Idle ELSE op), Storage'
        PROVE  IInv'
    <2>1. /\ Guest(x) /\ FitsNow(x) /\ x.phase = "idle"
      BY <1>1, <1>2, <1>9, GuestCallFits
    <2>2. References' /\ Holders' /\ Gates' /\ Operation' /\ Awaited'
      <3>1. inst[i].phase \in {"idle", "staged"} BY <1>2
      <3>2. CallOver(i, caller, y) BY <1>1, <1>2, <1>4, <1>9, <3>1 DEF CallOver
      <3> QED BY <3>2, CallStep
    <2>3. Usable(y) => i = Keeper' BY <1>1, <1>2, <1>9, CallKeeper
    <2>4. Usable(y) => FitsNow(y)
      <3>1. ASSUME SameBytes(x, y), Fits(x, log, image, landed.log, landed.image, config)
            PROVE  Fits(y, log, image, landed.log, landed.image, config)
        BY ONLY <1>9, <2>1, <3>1, KnowsSame
      <3> QED BY <1>9, <2>1, <3>1 DEF FitsNow
    <2>5. Guests'
      <3>1. marker' = NoLog BY <1>3, <1>4, <1>9
      <3>2. \A j \in Slot : j # i => ~Usable(inst[j]) BY <1>6, <1>9
      <3>3. Guests /\ UNCHANGED <<log, image, config, landed>> BY <1>4 DEF IInv
      <3> QED BY ONLY i \in Slot, <1>9, <2>3, <2>4, <3>1, <3>2, <3>3, GuestsStep
    <2> QED BY <1>9, <2>2, <2>5 DEF IInv
  <1>10. ASSUME Usable(inst[i]), NEW x \in GuestCall(inst[i], caller), UNCHANGED spent,
                ~(Dirty(x.log) \/ Dirty(x.image)),
                inst' = [inst EXCEPT ![i] = Finished(x, Closes(caller))],
                Answer(i, caller, x.log.bytes), UNCHANGED <<live, booting>>
         PROVE  IInv'
    <2>1. /\ Guest(x) /\ FitsNow(x) /\ x.phase = "idle" /\ x.gate = inst[i].gate
          /\ x.poisoned = FALSE /\ x.closed = FALSE
      BY <1>1, <1>2, <1>10, GuestCallFits
    <2>2. PICK y : y = Finished(x, Closes(caller)) OBVIOUS
    <2>3. /\ Guest(y) /\ y.phase = "idle" /\ y.gate = Tail(x.gate)
          /\ y.closed = (x.closed \/ Closes(caller))
          /\ Usable(y) => SameBytes(x, y)
      <3>1. Closes(caller) \in BOOLEAN BY DEF Closes
      <3>2. PICK closes \in BOOLEAN : closes = Closes(caller) BY <3>1
      <3>3. /\ x = GuestOf(x) /\ Line(x.gate) /\ x.gate # <<>>
            /\ x.poisoned \in BOOLEAN /\ x.closed \in BOOLEAN
            /\ x.log \in [bytes : Log, low : Int] /\ x.image \in [bytes : Seq(Log), low : Int]
        BY <1>2, <2>1 DEF Guest
      <3>4. y = Finished(x, closes) BY ONLY <2>2, <3>2
      <3>5. /\ Guest(y) /\ y.phase = "idle" /\ y.gate = Tail(x.gate)
            /\ y.poisoned = x.poisoned /\ y.closed = (x.closed \/ closes)
            /\ Usable(y) => SameBytes(x, y)
        BY ONLY <3>2, <3>3, <3>4, GuestFinished
      <3> QED BY ONLY <3>2, <3>5
    <2>4. caller = "op" /\ op.kind = "recycle" => ~Usable(y)
      BY <1>3, <2>3 DEF Closes, CallOf, Usable
    <2>5. x.log.bytes = landed.log
      <3>1. x.log.low = Clean /\ ImageOf(x.log, landed.log)
        BY <1>10, <2>1 DEF FitsNow, Fits, Dirty
      <3> QED BY <3>1 DEF ImageOf, Clean
    <2>6. Storage'
      <3>1. told' = told \cup Txns(landed.log) /\ backup' \in {backup, landed.log}
        BY <1>10, <2>5 DEF Answer
      <3> QED BY <1>4, <3>1 DEF IInv, Storage, Stored
    <2>7. Spending' BY <1>10 DEF IInv, Spending
    <2>8. inst' = [inst EXCEPT ![i] = y] BY ONLY <1>10, <2>2
    <2>9. y.gate = Tail(inst[i].gate) BY <2>1, <2>3
    <2>10. /\ hold' = (IF caller \in Holder
                       THEN [hold EXCEPT ![caller].state = "holds", ![caller].call = "none"]
                       ELSE hold)
           /\ op' = (IF caller = "op" THEN Idle ELSE op)
      BY <1>10 DEF Answer
    <2> QED BY ONLY <1>9, <1>10, <2>3, <2>4, <2>6, <2>7, <2>8, <2>9, <2>10
  <1>11. ASSUME Usable(inst[i]), CallOf(caller) \in {"write", "checkpoint"},
                Spend("faults", MaxFaults), NEW x \in GuestCall(inst[i], caller),
                inst' = [inst EXCEPT ![i] = [x EXCEPT !.gate = Tail(@)]], Fail(caller, FALSE)
         PROVE  IInv'
    <2>1. /\ Guest(x) /\ x.phase = "idle" /\ x.gate = inst[i].gate
      BY <1>1, <1>2, <1>11, GuestCallFits
    <2>2. PICK y : y = [x EXCEPT !.gate = Tail(@)] OBVIOUS
    <2>3. /\ Guest(y) /\ y.phase = "idle" /\ y.gate = Tail(x.gate) /\ SameBytes(x, y)
      BY <1>2, <2>1, <2>2, GateTail
    <2>4. caller = "op" => op.kind # "recycle"
      BY <1>3, <1>11 DEF CallOf
    <2>5. /\ hold' = (IF caller \in Holder
                      THEN [hold EXCEPT ![caller].state = "holds", ![caller].call = "none"]
                      ELSE hold)
          /\ op' = (IF caller = "op" THEN Idle ELSE op)
          /\ UNCHANGED <<live, booting, told, backup>>
      BY <1>11 DEF Fail
    <2>6. Storage' BY <1>4, <2>5, StorageStays DEF IInv
    <2>7. Spending' BY <1>11, SpendFacts DEF IInv
    <2>8. inst' = [inst EXCEPT ![i] = y] BY ONLY <1>11, <2>2
    <2>9. y.gate = Tail(inst[i].gate) /\ UNCHANGED <<live, booting>> BY <2>1, <2>3, <2>5
    <2> QED BY ONLY <1>9, <1>11, <2>3, <2>4, <2>5, <2>6, <2>7, <2>8, <2>9
  <1> QED BY <1>1, <1>5, <1>7, <1>8, <1>10, <1>11 DEF RunCall

LEMMA CommitCallStep ==
    ASSUME IInv, NEW i \in Slot, CommitCall(i)
    PROVE  IInv'
  <1>1. PICK caller : caller = Head(inst[i].gate) OBVIOUS
  <1>2. inst[i].phase = "staged" /\ UNCHANGED <<marker, config, fence, asked>>
    BY DEF CommitCall
  <1>3. /\ Guest(inst[i]) /\ Usable(inst[i]) /\ i = Keeper /\ marker = NoLog
        /\ op.pc \notin Alone
        /\ \A j \in Slot : j # i => ~Usable(inst[j])
    BY <1>2, LandsFacts
  <1>4. inst[i].gate # <<>> /\ caller # "fence" BY <1>1, <1>2, <1>3 DEF Guest
  <1>5. caller = "op" => op.pc = "call" /\ live = IF op.kind = "recycle" THEN 0 ELSE i
    BY <1>1, <1>4, HeadFacts
  <1>6. PICK g : g = inst[i] OBVIOUS
  <1>7. /\ g = GuestOf(g) /\ Line(g.gate) /\ g.gate # <<>>
        /\ g.poisoned \in BOOLEAN /\ g.closed \in BOOLEAN
        /\ g.log \in [bytes : Log, low : Int] /\ g.image \in [bytes : Seq(Log), low : Int]
    BY <1>3, <1>4, <1>6 DEF Guest
  <1>8. ASSUME Lands(i), Answer(i, caller, inst[i].log.bytes), UNCHANGED <<live, booting, spent>>,
               inst' = [inst EXCEPT ![i] = Finished(AfterLanding(@), Closes(caller))]
        PROVE  IInv'
    <2>1. PICK z : z = AfterLanding(g) OBVIOUS
    <2>2. /\ z = GuestOf(z) /\ z.log = g.log /\ z.image = g.image
          /\ z.poisoned = g.poisoned /\ z.closed = g.closed /\ z.gate = g.gate
      BY ONLY <1>7, <2>1, AfterLandingIs
    <2>3. Closes(caller) \in BOOLEAN BY DEF Closes
    <2>4. PICK closes \in BOOLEAN : closes = Closes(caller) BY <2>3
    <2>5. PICK y : y = Finished(z, closes) OBVIOUS
    <2>6. /\ Guest(y) /\ y.phase = "idle" /\ y.gate = Tail(z.gate)
          /\ y.poisoned = z.poisoned /\ y.closed = (z.closed \/ closes)
          /\ Usable(y) => SameBytes(z, y)
      <3>1. /\ z = GuestOf(z) /\ Line(z.gate) /\ z.gate # <<>>
            /\ z.poisoned \in BOOLEAN /\ z.closed \in BOOLEAN
            /\ z.log \in [bytes : Log, low : Int] /\ z.image \in [bytes : Seq(Log), low : Int]
        BY ONLY <1>7, <2>2
      <3> QED BY ONLY <2>4, <2>5, <3>1, GuestFinished
    <2>7. inst' = [inst EXCEPT ![i] = y]
      <3>1. inst' = [inst EXCEPT ![i] = Finished(AfterLanding(inst[i]), Closes(caller))]
        BY <1>8 DEF IInv, Guests
      <3>2. y = Finished(AfterLanding(inst[i]), Closes(caller))
        BY ONLY <1>6, <2>1, <2>4, <2>5
      <3> QED BY ONLY <3>1, <3>2
    <2>8. /\ told' = told \cup Txns(inst[i].log.bytes)
          /\ backup' \in {backup, inst[i].log.bytes}
          /\ hold' = (IF caller \in Holder
                      THEN [hold EXCEPT ![caller].state = "holds", ![caller].call = "none"]
                      ELSE hold)
          /\ op' = (IF caller = "op" THEN Idle ELSE op)
      BY <1>8 DEF Answer
    <2>9. backup' \in Log \cup {NoLog} BY <1>6, <1>7, <2>8 DEF IInv, Storage
    <2>10. /\ Storage'
           /\ \A v : SameBytes(AfterLanding(inst[i]), v) =>
                        Knows(v, log', image', landed'.log, landed'.image, config')
      <3>1. inst[i].phase \in {"staged", "opening"} BY <1>2
      <3> QED BY <1>2, <1>8, <2>8, <2>9, <3>1, LandsStorage
    <2>11. References' /\ Holders' /\ Gates' /\ Operation' /\ Awaited'
      <3>1. CallOver(i, caller, y)
        BY <1>1, <1>2, <1>3, <1>4, <1>6, <1>8, <2>2, <2>6, <2>7, <2>8 DEF CallOver
      <3> QED BY <3>1, CallStep
    <2>12. Usable(y) => i = Keeper'
      <3>1. Usable(y) /\ caller = "op" => op.kind # "recycle"
        BY <2>4, <2>6, ObjectAssumption DEF Closes, CallOf, Usable, ObjectAssumption
      <3>2. UNCHANGED <<live, booting>> BY <1>8
      <3> QED BY <1>1, <1>3, <1>4, <2>8, <3>1, <3>2, CallKeeper
    <2>13. Usable(y) => Fits(y, log', image', landed'.log, landed'.image, config')
      <3>1. Usable(y) => Knows(y, log', image', landed'.log, landed'.image, config')
        BY <1>6, <2>1, <2>6, <2>10
      <3>2. ASSUME SameBytes(z, y), Knows(y, log', image', landed'.log, landed'.image, config')
            PROVE  Fits(y, log', image', landed'.log, landed'.image, config')
        <4>1. SameBytes(y, y) BY DEF SameBytes
        <4> QED BY ONLY <2>6, <3>2, <4>1, KnowsSame
      <3> QED BY <2>6, <3>1, <3>2
    <2>14. Guests'
      <3>1. marker' = NoLog /\ Guests BY <1>2, <1>3 DEF IInv
      <3> QED BY ONLY i \in Slot, <1>3, <2>6, <2>7, <2>12, <2>13, <3>1, GuestAlone
    <2>15. Spending' BY <1>8 DEF IInv, Spending
    <2> QED BY <2>10, <2>11, <2>14, <2>15 DEF IInv
  <1>9. ASSUME Spend("faults", MaxFaults), Fail(caller, TRUE), UNCHANGED <<log, image, landed>>,
               inst' = [inst EXCEPT ![i] = Finished(AfterRejection(@), FALSE)]
        PROVE  IInv'
    <2>1. PICK z : z = AfterRejection(g) OBVIOUS
    <2>2. /\ z = GuestOf(z) /\ z.log = g.log /\ z.image = g.image
          /\ z.poisoned = TRUE /\ z.closed = g.closed /\ z.gate = g.gate
      BY ONLY <1>7, <2>1, AfterRejectionIs
    <2>3. PICK y : y = Finished(z, FALSE) OBVIOUS
    <2>4. /\ Guest(y) /\ y.phase = "idle" /\ y.gate = Tail(z.gate)
          /\ y.poisoned = z.poisoned
      <3>1. /\ z = GuestOf(z) /\ Line(z.gate) /\ z.gate # <<>>
            /\ z.poisoned \in BOOLEAN /\ z.closed \in BOOLEAN
            /\ z.log \in [bytes : Log, low : Int] /\ z.image \in [bytes : Seq(Log), low : Int]
        BY ONLY <1>7, <2>2
      <3>2. PICK closes \in BOOLEAN : closes = FALSE OBVIOUS
      <3>3. y = Finished(z, closes) BY ONLY <2>3, <3>2
      <3> QED BY ONLY <3>1, <3>2, <3>3, GuestFinished
    <2>5. inst' = [inst EXCEPT ![i] = y]
      <3>1. inst' = [inst EXCEPT ![i] = Finished(AfterRejection(inst[i]), FALSE)]
        BY <1>9 DEF IInv, Guests
      <3>2. y = Finished(AfterRejection(inst[i]), FALSE) BY ONLY <1>6, <2>1, <2>3
      <3> QED BY ONLY <3>1, <3>2
    <2>6. ~Usable(y) BY <2>2, <2>4 DEF Usable
    <2>7. /\ UNCHANGED <<told, backup>>
          /\ hold' = (IF caller \in Holder
                      THEN [hold EXCEPT ![caller].state = "holds", ![caller].call = "none"]
                      ELSE hold)
          /\ op' = (IF caller = "op" THEN Idle ELSE op)
          /\ UNCHANGED <<live, booting>> \/ (caller = "op" /\ op.kind # "recycle" /\ Drop)
      BY <1>9 DEF Fail
    <2>8. Spending' BY <1>9, SpendFacts DEF IInv
    <2>9. References' /\ Holders' /\ Gates' /\ Operation' /\ Awaited'
      <3>1. CallOver(i, caller, y)
        BY <1>1, <1>2, <1>3, <1>4, <1>6, <1>9, <2>2, <2>4, <2>5, <2>7, <2>8 DEF CallOver
      <3> QED BY <3>1, CallStep
    <2>10. Guests' BY <1>3, <2>4, <2>5, <2>6, GuestAlone DEF IInv
    <2>11. Storage' BY <1>2, <1>9, <2>7, StorageStays DEF IInv
    <2> QED BY <2>8, <2>9, <2>10, <2>11 DEF IInv
  <1> QED BY <1>1, <1>8, <1>9 DEF CommitCall

-----------------------------------------------------------------------------
(* Callers.                                                                *)

NumberLess == {q \in Nat \X Nat : q[1] < q[2]}

LEMMA LeastSlot ==
    ASSUME NEW S, S \subseteq 1 .. MaxInstances, S # {}
    PROVE  \E j \in S : \A k \in S : j <= k
  <1>1. S \in SUBSET Nat BY ObjectAssumption DEF ObjectAssumption
  <1>2. NumberLess = OpToRel(<, Nat) BY Zenon DEF NumberLess, OpToRel
  <1>3. IsWellFoundedOn(NumberLess, Nat) BY <1>2, NatLessThanWellFounded, Zenon
  <1>4. PICK n \in S : \A m \in S : <<m, n>> \notin NumberLess
    BY ONLY <1>1, <1>3, WFMin, S # {}, Zenon
  <1>5. \A m \in S : ~(m < n)
    <2> SUFFICES ASSUME NEW m \in S, m < n PROVE FALSE OBVIOUS
    <2>1. <<m, n>> \in NumberLess BY <1>1 DEF NumberLess
    <2> QED BY <1>4, <2>1
  <1> QED BY <1>1, <1>5

LEMMA HoldersKept ==
    ASSUME Holders, UNCHANGED hold,
           \A h \in Holder : hold[h].state # "away" => inst'[hold[h].at] = inst[hold[h].at]
    PROVE  Holders'
  <1>1. ASSUME NEW h \in Holder
        PROVE  /\ hold[h].state = "away" => hold[h] = Away
               /\ hold[h].state # "away" => hold[h].at # 0 /\ inst'[hold[h].at].phase # "free"
               /\ hold[h].state \in {"holds", "calls"} =>
                     inst'[hold[h].at].phase \notin Booting \cup {"free"}
    BY DEF Holders, Opened
  <1> QED BY <1>1 DEF Holders, Opened

LEMMA UnchangedStep ==
    ASSUME IInv, UNCHANGED <<log, image, marker, config, landed, told, backup, fence, live,
                             booting, inst, op, hold>>,
           Spending'
    PROVE  IInv'
  <1>1. Storage' BY StorageStays DEF IInv
  <1>2. Stays BY DEF Stays, Opened
  <1>3. References' /\ Holders' /\ Operation' /\ Awaited'
    <2>1. References' BY <1>2, ReferencesStay DEF IInv
    <2>2. Holders' BY <1>2, HoldersStay DEF IInv
    <2>3. Operation' BY <1>2, OperationStays DEF IInv
    <2>4. Awaited' BY AwaitedStays DEF IInv
    <2> QED BY <2>1, <2>2, <2>3, <2>4
  <1>4. Gates' BY DEF IInv, Gates, Waits
  <1>5. Guests'
    <2>1. Keeper' = Keeper BY DEF Keeper
    <2>2. \A j \in Slot : FitsNow(inst[j])' <=> FitsNow(inst[j]) BY DEF FitsNow
    <2> QED BY <2>1, <2>2 DEF IInv, Guests
  <1> QED BY <1>1, <1>3, <1>4, <1>5 DEF IInv

\* fram() as a caller sees it: whoever holds, waits or operates keeps its guest.
LEMMA FramStep ==
    ASSUME IInv, NEW i \in Slot, FramGives(i), op.kind # "recycle",
           UNCHANGED <<log, image, marker, config, landed, told, backup, live>>
    PROVE  /\ Storage' /\ Guests' /\ References'
           /\ i # 0 /\ i \in {live', booting'} /\ inst'[i].phase # "free" /\ fence = "open"
           /\ live # 0 \/ booting # 0 => UNCHANGED <<booting, inst>>
           /\ \A j \in Slot : inst'[j] # inst[j] => j = i /\ ~Referenced(j)
           /\ \A j \in Slot : \A k \in 1 .. Len(inst'[j].gate) :
                 k \in 1 .. Len(inst[j].gate) /\ inst'[j].gate[k] = inst[j].gate[k]
  <1>1. i # 0 /\ fence = "open" BY SlotOf DEF FramGives
  <1>2. Storage' BY StorageStays DEF IInv
  <1>3. op.pc \notin Fenced BY <1>1 DEF IInv, Operation
  <1>4. \A j \in Slot : Usable(inst[j]) /\ inst[j].phase # "marker" => marker = NoLog
    BY <1>3 DEF IInv, Guests, Fenced
  <1>5. ASSUME live # 0 \/ booting # 0 PROVE i \in {live, booting} /\ UNCHANGED <<booting, inst>>
    BY <1>5 DEF FramGives
  <1>6. CASE live # 0 \/ booting # 0
    <2>1. i \in {live', booting'} /\ UNCHANGED <<booting, inst>> BY <1>5, <1>6
    <2>2. Stays BY <2>1 DEF Stays, Opened
    <2>3. References' BY <2>1, <2>2, ReferencesStay DEF IInv
    <2>4. Guests'
      <3>1. Keeper' = Keeper BY <1>6, <2>1 DEF Keeper
      <3>2. \A j \in Slot : FitsNow(inst[j])' <=> FitsNow(inst[j]) BY <2>1 DEF FitsNow
      <3> QED BY <1>4, <2>1, <3>1, <3>2 DEF IInv, Guests
    <2>5. inst[i].phase # "free"
      <3>1. live # 0 => Opened(live) BY DEF IInv, References
      <3>2. booting = i => inst[i].phase \in Booting BY DEF IInv, References
      <3> QED BY <1>1, <1>5, <1>6, <3>1, <3>2 DEF Opened, Booting
    <2>6. inst'[i].phase # "free" /\ i \in {live', booting'} BY <1>5, <1>6, <2>1, <2>5
    <2>7. /\ \A j \in Slot : inst'[j] # inst[j] => j = i /\ ~Referenced(j)
          /\ \A j \in Slot : \A k \in 1 .. Len(inst'[j].gate) :
                 k \in 1 .. Len(inst[j].gate) /\ inst'[j].gate[k] = inst[j].gate[k]
      BY <2>1
    <2> QED BY ONLY <1>1, <1>2, <1>5, <2>3, <2>4, <2>6, <2>7
  <1>7. CASE live = 0 /\ booting = 0
    <2>1. i \in Unused /\ booting' = i /\ inst' = [inst EXCEPT ![i] = NewInstance]
      <3>1. /\ Unused # {} /\ i = (CHOOSE j \in Unused : \A k \in Unused : j <= k)
            /\ booting' = i /\ inst' = [inst EXCEPT ![i] = NewInstance]
        BY <1>7 DEF FramGives
      <3>2. \E j \in Unused : \A k \in Unused : j <= k
        BY <3>1, LeastSlot DEF Unused, Slot
      <3> QED BY <3>1, <3>2
    <2>2. ~Referenced(i) BY <2>1 DEF Unused
    <2>3. op.at = 0
      <3>1. ASSUME op.at # 0 PROVE FALSE
        <4>1. op.pc \in {"boot", "call"}
          BY <1>3, <3>1, OpFacts, IdleIs DEF IInv, Operation
        <4> QED BY <1>7, <3>1, <4>1 DEF IInv, Operation
      <3> QED BY <3>1
    <2>4. \A j \in Slot : ~Usable(inst[j]) BY <1>7, <2>3, SlotOf DEF IInv, Guests, Keeper
    <2>5. /\ inst'[i] = NewInstance /\ \A j \in Slot : j # i => inst'[j] = inst[j]
      BY <2>1, SlotUpdate DEF IInv, Guests
    <2>6. /\ Guest(NewInstance) /\ NewInstance.phase = "marker" /\ NewInstance.gate = <<>>
      BY NewGuest
    <2>7. Guests'
      <3>1. i = Keeper' BY <1>1, <1>7, <2>1 DEF Keeper
      <3>2. NewInstance.phase \notin {"idle", "staged", "opening"} BY <2>6
      <3>3. Guests /\ UNCHANGED <<log, image, config, landed>> BY DEF IInv
      <3> QED BY ONLY i \in Slot, <2>1, <2>4, <2>6, <3>1, <3>2, <3>3, GuestsStep
    <2>8. References'
      <3>1. \A j \in Slot : inst[j].phase \notin Booting
        BY <1>7, SlotOf DEF IInv, References
      <3>2. \A j \in Slot : inst'[j].phase \in Booting <=> booting' = j
        BY <2>1, <2>5, <2>6, <3>1 DEF Booting
      <3> QED BY <1>7, <2>1, <3>2, SlotOf DEF References
    <2>9. Len(<<>>) = 0 BY EmptySeq
    <2>10. \A k \in 1 .. Len(inst'[i].gate) : FALSE BY <2>5, <2>6, <2>9
    <2>11. inst'[i].phase # "free" BY <2>5, <2>6
    <2>12. /\ \A j \in Slot : inst'[j] # inst[j] => j = i /\ ~Referenced(j)
           /\ \A j \in Slot : \A k \in 1 .. Len(inst'[j].gate) :
                  k \in 1 .. Len(inst[j].gate) /\ inst'[j].gate[k] = inst[j].gate[k]
      BY <2>2, <2>5, <2>10
    <2>13. i \in {live', booting'} BY <2>1
    <2> QED BY ONLY <1>1, <1>2, <1>7, <2>7, <2>8, <2>11, <2>12, <2>13
  <1> QED BY <1>6, <1>7

LEMMA UseStep ==
    ASSUME IInv, NEW kind \in Using, NEW who, kind = "write" => who \in Writer, Use(kind, who),
           Spending'
    PROVE  IInv'
  <1>1. /\ op = Idle
        /\ UNCHANGED <<log, image, marker, config, landed, told, backup, fence, live, hold>>
    BY DEF Use, stored, history
  <1>2. CASE UNCHANGED <<op, booting, inst>> BY <1>1, <1>2, UnchangedStep
  <1>3. ASSUME NEW i \in Slot, FramGives(i),
               op' = [Idle EXCEPT !.kind = kind, !.pc = "boot", !.at = i, !.who = who]
        PROVE  IInv'
    <2>1. op.kind = "none" /\ op.pc = "none" /\ op.at = 0 BY <1>1, IdleIs
    <2>2. /\ Storage' /\ Guests' /\ References'
          /\ i # 0 /\ i \in {live', booting'} /\ inst'[i].phase # "free" /\ fence = "open"
          /\ live # 0 \/ booting # 0 => UNCHANGED <<booting, inst>>
          /\ \A j \in Slot : inst'[j] # inst[j] => j = i /\ ~Referenced(j)
          /\ \A j \in Slot : \A k \in 1 .. Len(inst'[j].gate) :
                 k \in 1 .. Len(inst[j].gate) /\ inst'[j].gate[k] = inst[j].gate[k]
      BY <1>1, <1>3, <2>1, FramStep
    <2>3. PICK q : q = UsingOp(kind, i, who) OBVIOUS
    <2>4. q = OpOf(q) /\ q.kind = kind /\ q.pc = "boot" /\ q.at = i /\ q.who = who
      BY ONLY <2>3, UseOp
    <2>5. op' = q BY ONLY <1>3, <2>3 DEF UsingOp
    <2>6. Holders'
      <3>1. ASSUME NEW h \in Holder
            PROVE  /\ hold[h].state = "away" => hold[h] = Away
                   /\ hold[h].state # "away" => hold[h].at # 0 /\ inst'[hold[h].at] = inst[hold[h].at]
        <4>1. hold[h].at # 0 => hold[h].at \in Slot BY SlotOf DEF IInv, Holders, HoldType
        <4>2. Referenced(hold[h].at) BY DEF Referenced
        <4> QED BY <2>2, <4>1, <4>2 DEF IInv, Holders
      <3> QED BY <1>1, <3>1, HoldersKept DEF IInv
    <2>7. Gates'
      <3> SUFFICES ASSUME NEW j \in Slot, NEW k \in 1 .. Len(inst'[j].gate)
                   PROVE  Waits(inst[j].gate[k], j)'
        BY DEF Gates
      <3>1. k \in 1 .. Len(inst[j].gate) /\ inst'[j].gate[k] = inst[j].gate[k] BY <2>2
      <3>2. Waits(inst[j].gate[k], j) BY <3>1 DEF IInv, Gates
      <3>3. inst[j].gate[k] \notin {"op", "fence"} BY <2>1, <3>2 DEF Waits
      <3> QED BY <1>1, <3>1, <3>2, <3>3 DEF Waits
    <2>8. Operation'
      <3>1. i \in 0 .. MaxInstances BY SlotOf
      <3>2. kind \in Kind /\ kind \notin {"none", "recycle", "restore"} /\ "boot" \in PCs(kind)
        BY DEF Kind, Using, PCs
      <3> QED BY <2>2, <2>4, <2>5, <3>1, <3>2 DEF Operation, Alone, Fenced
    <2>9. Awaited'
      <3>1. booting' # 0 => live' = 0 BY <2>2 DEF References
      <3> QED BY <2>2, <2>4, <2>5, <3>1 DEF Awaited
    <2> QED BY <2>2, <2>6, <2>7, <2>8, <2>9 DEF IInv
  <1> QED BY <1>2, <1>3 DEF Use, Slot

LEMMA HolderFramStep ==
    ASSUME IInv, NEW h \in Holder, HolderFram(h), ~crossed'
    PROVE  IInv'
  <1>1. /\ hold[h] = Away
        /\ UNCHANGED <<log, image, marker, config, landed, told, backup, fence, live, op, spent>>
    BY DEF HolderFram, stored
  <1>2. PICK i \in Slot : /\ FramGives(i)
                          /\ hold' = [hold EXCEPT ![h] = [state |-> "waiting", at |-> i,
                                                          call |-> "none"]]
    BY DEF HolderFram, Slot
  <1>3. op.kind # "recycle" BY DEF HolderFram
  <1>4. /\ Storage' /\ Guests' /\ References'
        /\ i # 0 /\ i \in {live', booting'} /\ inst'[i].phase # "free" /\ fence = "open"
        /\ live # 0 \/ booting # 0 => UNCHANGED <<booting, inst>>
        /\ \A j \in Slot : inst'[j] # inst[j] => j = i /\ ~Referenced(j)
        /\ \A j \in Slot : \A k \in 1 .. Len(inst'[j].gate) :
               k \in 1 .. Len(inst[j].gate) /\ inst'[j].gate[k] = inst[j].gate[k]
    BY <1>1, <1>2, <1>3, FramStep
  <1>5. /\ hold'[h] = [state |-> "waiting", at |-> i, call |-> "none"]
        /\ \A k \in Holder : k # h => hold'[k] = hold[k]
        /\ hold' = [k \in Holder |-> hold'[k]]
    BY <1>2 DEF IInv, Holders
  <1>6. Holders'
    <2>1. hold' \in [Holder -> HoldType]
      <3>1. hold'[h] \in HoldType BY <1>5, SlotOf DEF HoldType
      <3>2. \A k \in Holder : hold'[k] \in HoldType BY <1>5, <3>1 DEF IInv, Holders
      <3> QED BY <1>5, <3>2
    <2>2. ASSUME NEW k \in Holder
          PROVE  /\ hold'[k].state = "away" => hold'[k] = Away
                 /\ hold'[k].state # "away" => hold'[k].at # 0 /\ inst'[hold'[k].at].phase # "free"
                 /\ hold'[k].state \in {"holds", "calls"} => Opened(hold[k].at)'
      <3>1. CASE k = h BY <1>4, <1>5, <3>1
      <3>2. CASE k # h
        <4>1. hold'[k] = hold[k] BY <1>5, <3>2
        <4>2. hold[k].at # 0 => hold[k].at \in Slot BY SlotOf DEF IInv, Holders, HoldType
        <4>3. Referenced(hold[k].at) BY DEF Referenced
        <4>4. hold[k].at # 0 => inst'[hold[k].at] = inst[hold[k].at] BY <1>4, <4>2, <4>3
        <4>5. /\ hold[k].state = "away" => hold[k] = Away
              /\ hold[k].state # "away" => hold[k].at # 0 /\ inst[hold[k].at].phase # "free"
              /\ hold[k].state \in {"holds", "calls"} => Opened(hold[k].at)
          BY DEF IInv, Holders
        <4> QED BY <4>1, <4>4, <4>5 DEF Opened
      <3> QED BY <3>1, <3>2
    <2> QED BY <2>1, <2>2 DEF Holders
  <1>7. Gates'
    <2> SUFFICES ASSUME NEW j \in Slot, NEW k \in 1 .. Len(inst'[j].gate)
                 PROVE  Waits(inst[j].gate[k], j)'
      BY DEF Gates
    <2>1. k \in 1 .. Len(inst[j].gate) /\ inst'[j].gate[k] = inst[j].gate[k] BY <1>4
    <2>2. Waits(inst[j].gate[k], j) BY <2>1 DEF IInv, Gates
    <2>3. inst[j].gate[k] # h BY <1>1, <2>2 DEF Waits, Away
    <2> QED BY <1>1, <1>5, <2>1, <2>2, <2>3 DEF Waits
  <1>8. Operation'
    <2>1. op.pc \notin Fenced BY <1>4 DEF IInv, Operation
    <2>2. op.pc \in {"boot", "call"} => live # 0 \/ booting # 0
      BY <1>3 DEF IInv, Operation
    <2>3. op.pc \in {"boot", "call"} => UNCHANGED <<booting, inst>> BY <1>4, <2>2
    <2>4. op.pc \notin {"fencing", "awaitBoot", "publish", "clear"} /\ op.pc \notin Alone
      BY <2>1 DEF Fenced, Alone
    <2> QED BY <1>1, <2>1, <2>3, <2>4 DEF IInv, Operation, Opened
  <1>9. Awaited'
    <2>1. booting' # 0 => live' = 0 BY <1>4 DEF References
    <2>2. hold'[h].at = i BY <1>5
    <2> QED BY <1>4, <2>1, <2>2 DEF Awaited
  <1>10. Spending' BY <1>1 DEF IInv, Spending
  <1> QED BY <1>4, <1>6, <1>7, <1>8, <1>9, <1>10 DEF IInv

\* One holder that has a booted guest goes on.
HolderGoes(h, s) ==
    /\ hold' = [k \in Holder |-> hold'[k]] /\ hold'[h] \in HoldType
    /\ hold'[h].at = hold[h].at /\ hold'[h].state = s
    /\ \A k \in Holder : k # h => hold'[k] = hold[k]

LEMMA HolderStep ==
    ASSUME IInv, NEW h \in Holder, hold[h].state # "away", Opened(hold[h].at),
           NEW s \in {"holds", "calls"}, HolderGoes(h, s), Stays,
           UNCHANGED <<booting, op>>
    PROVE  Holders' /\ Awaited'
  <1>1. /\ hold' = [k \in Holder |-> hold'[k]] /\ hold'[h] \in HoldType
        /\ hold'[h].at = hold[h].at /\ hold'[h].state = s
        /\ \A k \in Holder : k # h => hold'[k] = hold[k]
    BY DEF HolderGoes
  <1>2. hold' \in [Holder -> HoldType]
    <2>1. \A k \in Holder : hold'[k] \in HoldType BY <1>1 DEF IInv, Holders
    <2> QED BY <1>1, <2>1
  <1>3. ASSUME NEW k \in Holder
        PROVE  /\ hold'[k].state = "away" => hold'[k] = Away
               /\ hold'[k].state # "away" => hold'[k].at # 0 /\ inst'[hold'[k].at].phase # "free"
               /\ hold'[k].state \in {"holds", "calls"} => Opened(hold[k].at)'
    <2>1. hold[k].at # 0 => hold[k].at \in Slot BY SlotOf DEF IInv, Holders, HoldType
    <2>2. /\ hold[k].state = "away" => hold[k] = Away
          /\ hold[k].state # "away" => hold[k].at # 0 /\ inst[hold[k].at].phase # "free"
          /\ hold[k].state \in {"holds", "calls"} => Opened(hold[k].at)
      BY DEF IInv, Holders
    <2>3. hold[k].at # 0 =>
            /\ inst[hold[k].at].phase # "free" => inst'[hold[k].at].phase # "free"
            /\ Opened(hold[k].at) => inst'[hold[k].at].phase \notin Booting \cup {"free"}
      BY <2>1 DEF Stays, Opened
    <2>4. CASE k = h BY <1>1, <2>2, <2>3, <2>4 DEF Opened
    <2>5. CASE k # h
      <3>1. hold'[k] = hold[k] BY <1>1, <2>5
      <3>2. hold[k].state \in {"holds", "calls"} => hold[k].state # "away" OBVIOUS
      <3> QED BY <2>2, <2>3, <3>1, <3>2 DEF Opened
    <2> QED BY <2>4, <2>5
  <1>4. Holders' BY <1>2, <1>3 DEF Holders
  <1>5. \A k \in Holder : hold'[k].at = hold[k].at BY <1>1
  <1> QED BY <1>4, <1>5 DEF Awaited, IInv

LEMMA HolderBootedStep ==
    ASSUME IInv, NEW h \in Holder, HolderBooted(h)
    PROVE  IInv'
  <1>1. /\ hold[h].state = "waiting" /\ Opened(hold[h].at)
        /\ hold' = [hold EXCEPT ![h].state = "holds"]
        /\ UNCHANGED <<log, image, marker, config, landed, told, backup, fence, live, booting,
                       inst, op, spent>>
    BY DEF HolderBooted, stored, object, history
  <1>2. Stays BY <1>1 DEF Stays, Opened
  <1>3. HolderGoes(h, "holds")
    <2>1. /\ hold' = [k \in Holder |-> hold'[k]] /\ \A k \in Holder : k # h => hold'[k] = hold[k]
          /\ hold'[h] = [hold[h] EXCEPT !.state = "holds"] /\ hold[h] \in HoldType
      BY <1>1 DEF IInv, Holders
    <2>2. PICK z \in HoldType : z = hold[h] BY <2>1
    <2>3. /\ [z EXCEPT !.state = "holds"] \in HoldType
          /\ [z EXCEPT !.state = "holds"].at = z.at
          /\ [z EXCEPT !.state = "holds"].state = "holds"
      BY DEF HoldType
    <2> QED BY <2>1, <2>2, <2>3 DEF HolderGoes
  <1>4. Holders' /\ Awaited' BY <1>1, <1>2, <1>3, HolderStep
  <1>5. Storage' BY <1>1, StorageStays DEF IInv
  <1>6. References' BY <1>1, <1>2, ReferencesStay DEF IInv
  <1>7. Operation'
    <2>1. op.pc = "clear" => \A k \in Holder : hold'[k].at = op.at => hold[k].at = op.at
      BY <1>3 DEF HolderGoes
    <2>2. UNCHANGED <<log, image, landed, fence, live, booting, op>> /\ spent' = spent
          /\ inst' = inst
      BY <1>1
    <2> QED BY <1>2, <2>1, <2>2, OperationStays DEF IInv
  <1>8. Gates'
    <2> SUFFICES ASSUME NEW j \in Slot, NEW k \in 1 .. Len(inst[j].gate)
                 PROVE  Waits(inst[j].gate[k], j)'
      BY <1>1 DEF Gates
    <2>1. Waits(inst[j].gate[k], j) BY DEF IInv, Gates
    <2>2. inst[j].gate[k] # h BY <1>1, <2>1 DEF Waits
    <2> QED BY <1>1, <1>3, <2>1, <2>2 DEF Waits, HolderGoes
  <1>9. Guests'
    <2>1. Keeper' = Keeper BY <1>1 DEF Keeper
    <2>2. \A j \in Slot : FitsNow(inst[j])' <=> FitsNow(inst[j]) BY <1>1 DEF FitsNow
    <2> QED BY <1>1, <2>1, <2>2 DEF IInv, Guests
  <1>10. Spending' BY <1>1 DEF IInv, Spending
  <1> QED BY <1>4, <1>5, <1>6, <1>7, <1>8, <1>9, <1>10 DEF IInv

LEMMA HolderCallStep ==
    ASSUME IInv, NEW h \in Holder, NEW call \in {"write", "close"}, HolderCall(h, call)
    PROVE  IInv'
  <1>1. /\ hold[h].state = "holds" /\ hold' = [hold EXCEPT ![h].state = "calls", ![h].call = call]
        /\ Admit(hold[h].at, h)
        /\ UNCHANGED <<log, image, marker, config, landed, told, backup, fence, live, booting,
                       op, spent>>
    BY DEF HolderCall, stored, object, history
  <1>2. PICK i \in Slot : i = hold[h].at
    BY <1>1, SlotOf DEF IInv, Holders, HoldType
  <1>3. Opened(i) /\ hold[h].state # "away" BY <1>1, <1>2 DEF IInv, Holders
  <1>4. h \in Caller /\ h \notin {"op", "fence"} BY ObjectAssumption DEF Caller, ObjectAssumption
  <1>5. \A j \in Slot : \A k \in 1 .. Len(inst[j].gate) : inst[j].gate[k] # h
    BY <1>1 DEF IInv, Gates, Waits
  <1>6. /\ inst' = [j \in Slot |-> inst'[j]]
        /\ \A j \in Slot :
             /\ Guest(inst'[j]) /\ inst'[j].phase = inst[j].phase
             /\ Usable(inst'[j]) <=> Usable(inst[j])
             /\ FitsNow(inst[j]) => FitsNow(inst[j])'
             /\ j # i => inst'[j] = inst[j]
             /\ \A k \in 1 .. Len(inst'[j].gate) :
                   \/ j = i /\ inst'[j].gate[k] = h
                   \/ k \in 1 .. Len(inst[j].gate) /\ inst'[j].gate[k] = inst[j].gate[k]
        /\ Stays
    <2>1. Guests BY DEF IInv
    <2>2. Admit(i, h) BY <1>1, <1>2
    <2>3. \A k \in 1 .. Len(inst[i].gate) : inst[i].gate[k] # h BY <1>5
    <2> QED BY <1>1, <1>3, <1>4, <2>1, <2>2, <2>3, Admitted
  <1>7. HolderGoes(h, "calls")
    <2>1. /\ hold' = [k \in Holder |-> hold'[k]] /\ \A k \in Holder : k # h => hold'[k] = hold[k]
          /\ hold'[h] = [hold[h] EXCEPT !.state = "calls", !.call = call]
          /\ hold[h] \in HoldType
      BY <1>1 DEF IInv, Holders
    <2>2. PICK z \in HoldType : z = hold[h] BY <2>1
    <2>3. /\ [z EXCEPT !.state = "calls", !.call = call] \in HoldType
          /\ [z EXCEPT !.state = "calls", !.call = call].at = z.at
          /\ [z EXCEPT !.state = "calls", !.call = call].state = "calls"
      BY DEF HoldType
    <2> QED BY <2>1, <2>2, <2>3 DEF HolderGoes
  <1>8. Holders' /\ Awaited' BY <1>1, <1>2, <1>3, <1>6, <1>7, HolderStep
  <1>9. Storage' BY <1>1, StorageStays DEF IInv
  <1>10. References' BY <1>1, <1>6, ReferencesStay DEF IInv
  <1>11. Operation'
    <2>1. op.pc = "clear" => op.at \in Slot /\ op.at # i
      BY <1>2, SlotOf DEF IInv, Operation
    <2>2. op.pc = "clear" => inst'[op.at] = inst[op.at] BY <1>6, <2>1
    <2>3. op.pc = "clear" => \A k \in Holder : hold'[k].at = op.at => hold[k].at = op.at
      BY <1>7 DEF HolderGoes
    <2>4. UNCHANGED <<log, image, landed, fence, live, booting, op>> /\ spent' = spent
      BY <1>1
    <2> QED BY <1>6, <2>2, <2>3, <2>4, OperationStays DEF IInv
  <1>12. Gates'
    <2> SUFFICES ASSUME NEW j \in Slot, NEW k \in 1 .. Len(inst'[j].gate)
                 PROVE  Waits(inst[j].gate[k], j)'
      BY DEF Gates
    <2>1. CASE j = i /\ inst'[j].gate[k] = h
      BY <1>2, <1>4, <1>7, <2>1 DEF Waits, HolderGoes
    <2>2. CASE k \in 1 .. Len(inst[j].gate) /\ inst'[j].gate[k] = inst[j].gate[k]
      <3>1. Waits(inst[j].gate[k], j) /\ inst[j].gate[k] # h
        BY <1>5, <2>2 DEF IInv, Gates
      <3> QED BY <1>1, <1>7, <2>2, <3>1 DEF Waits, HolderGoes
    <2> QED BY <1>6, <2>1, <2>2
  <1>13. Guests'
    <2>1. Keeper' = Keeper BY <1>1 DEF Keeper
    <2>2. \A j \in Slot : Usable(inst[j]) =>
             /\ j = Keeper'
             /\ inst[j].phase # "marker" /\ marker' # NoLog => op'.pc = "clear" /\ j = op'.at
      BY <1>1, <2>1 DEF IInv, Guests
    <2> QED BY <1>6, <2>2, AdmitGuests DEF IInv
  <1>14. Spending' BY <1>1 DEF IInv, Spending
  <1> QED BY <1>8, <1>9, <1>10, <1>11, <1>12, <1>13, <1>14 DEF IInv

-----------------------------------------------------------------------------
(* Operations.                                                             *)

\* The operation goes on, nobody waits on it, and the guests stay as they are.
LEMMA OperationStep ==
    ASSUME IInv, UNCHANGED <<log, image, marker, config, landed, told, backup, inst, hold>>,
           live' = live, booting' = booting, op.pc \notin {"call", "fencing", "clear"},
           live # 0 \/ booting # 0 \/ op'.at = op.at,
           booting # 0 => op'.at = op.at \/ op'.at = booting,
           Spending', Operation'
    PROVE  IInv'
  <1>1. Storage' BY StorageStays DEF IInv
  <1>2. Stays BY DEF Stays, Opened
  <1>3. References' BY <1>2, ReferencesStay DEF IInv
  <1>4. Holders' BY <1>2, HoldersStay DEF IInv
  <1>5. Awaited' BY DEF Awaited, IInv
  <1>6. Gates'
    <2> SUFFICES ASSUME NEW j \in Slot, NEW k \in 1 .. Len(inst[j].gate)
                 PROVE  Waits(inst[j].gate[k], j)'
      BY DEF Gates
    <2>1. Waits(inst[j].gate[k], j) BY DEF IInv, Gates
    <2> QED BY <2>1 DEF Waits
  <1>7. Guests'
    <2>1. Keeper' = Keeper BY DEF Keeper
    <2>2. \A j \in Slot : FitsNow(inst[j])' <=> FitsNow(inst[j]) BY DEF FitsNow
    <2>3. \A j \in Slot : Usable(inst[j]) /\ inst[j].phase # "marker" => marker = NoLog
      BY DEF IInv, Guests
    <2> QED BY <2>1, <2>2, <2>3 DEF IInv, Guests
  <1> QED BY <1>1, <1>3, <1>4, <1>5, <1>6, <1>7 DEF IInv

LEMMA RestorePeekStep ==
    ASSUME IInv, RestorePeek
    PROVE  IInv'
  <1>1. /\ op.pc = "peek" /\ (op' = Idle \/ op' = [op EXCEPT !.pc = "fence"])
        /\ UNCHANGED <<log, image, marker, config, landed, told, backup, inst, hold, fence, live,
                       booting, spent>>
    BY DEF RestorePeek, stored, object, history
  <1>2. op.kind = "restore" /\ op.at = 0 /\ op = OpOf(op)
    BY <1>1, OpFacts DEF IInv, Operation, Fenced
  <1>3. CASE op' = Idle
    <2>1. Operation' BY <1>3, IdleIs, SlotOf DEF Operation, Kind, PCs, Alone, Fenced
    <2>2. op'.at = op.at BY <1>2, <1>3, IdleIs
    <2> QED BY <1>1, <2>1, <2>2, OperationStep DEF IInv, Spending
  <1>4. CASE op' = [op EXCEPT !.pc = "fence"]
    <2>1. PICK q, p, o : o = op /\ p = "fence" /\ q = ToPc(o, p) OBVIOUS
    <2>2. /\ q = OpOf(q) /\ q.pc = p /\ q.at = o.at /\ q.kind = o.kind
          /\ q.bytes = o.bytes /\ q.replace = o.replace
      BY ONLY <1>2, <2>1, PcTo
    <2>3. op' = q BY <1>4, <2>1 DEF ToPc
    <2>4. Operation'
      BY <1>2, <2>1, <2>2, <2>3 DEF IInv, Operation, Kind, PCs, Alone, Fenced
    <2>5. op'.at = op.at BY <2>1, <2>2, <2>3
    <2> QED BY <1>1, <2>4, <2>5, OperationStep DEF IInv, Spending
  <1> QED BY <1>1, <1>3, <1>4

LEMMA SequenceWiden ==
    ASSUME NEW S, NEW T, S \subseteq T, NEW s \in Seq(S)
    PROVE  s \in Seq(T)
  <1>1. Len(s) \in Nat /\ s \in [1 .. Len(s) -> S] BY LenProperties
  <1>2. s \in [1 .. Len(s) -> T] BY <1>1
  <1> QED BY <1>1, <1>2, SeqDef

LEMMA SuppliedLog ==
    ASSUME NEW bytes \in Supplied
    PROVE  bytes \in Log
  <1>1. bytes \in Seq(Range(bytes)) BY ObjectAssumption DEF ObjectAssumption
  <1>2. Range(bytes) \subseteq LogByte BY DEF LogByte
  <1> QED BY <1>1, <1>2, SequenceWiden DEF Log

LEMMA RestoreFramlogStep ==
    ASSUME IInv, NEW bytes \in Supplied \cup Known, NEW replace \in BOOLEAN, NEW expected,
           RestoreFramlog(bytes, replace, expected)
    PROVE  IInv'
  <1>1. /\ op = Idle
        /\ UNCHANGED <<log, image, marker, config, landed, told, backup, inst, hold, fence, live,
                       booting>>
    BY DEF RestoreFramlog, stored, object, history
  <1>2. op.at = 0 /\ op.pc = "none" BY <1>1, IdleIs
  <1>3. Spending'
    <2>1. UNCHANGED spent \/ Spend("restores", MaxRestores) BY DEF RestoreFramlog
    <2> QED BY <2>1, SpendFacts DEF IInv, Spending
  <1>4. CASE ~Replays(bytes)
    <2>1. op' = Idle BY <1>4 DEF RestoreFramlog
    <2>2. Operation' BY <2>1, IdleIs, SlotOf DEF Operation, Kind, PCs, Alone, Fenced
    <2> QED BY <1>1, <1>2, <1>3, <2>1, <2>2, OperationStep
  <1>5. CASE Replays(bytes)
    <2>1. PICK p, q : p = (IF replace THEN "fence" ELSE "peek")
                      /\ q = RestoringOp(bytes, replace, expected, p)
      OBVIOUS
    <2>2. op' = q BY <1>5, <2>1 DEF RestoreFramlog, RestoringOp
    <2>3. /\ q = OpOf(q) /\ q.kind = "restore" /\ q.pc = p /\ q.at = 0
          /\ q.bytes = bytes /\ q.replace = replace
      BY ONLY <2>1, RestoreOp
    <2>4. bytes \in Log BY SuppliedLog DEF Known, IInv, Storage
    <2>5. p \in {"fence", "peek"} BY <2>1
    <2>6. Operation'
      BY <1>5, <2>2, <2>3, <2>4, <2>5, SlotOf DEF Operation, Kind, PCs, Alone, Fenced
    <2>7. op'.at = op.at BY <1>2, <2>2, <2>3
    <2> QED BY <1>1, <1>2, <1>3, <2>6, <2>7, OperationStep
  <1> QED BY <1>4, <1>5

\* An operation or its fence joins the gate of the live guest.
LEMMA QueueStep ==
    ASSUME IInv, NEW i \in Slot, live = i, NEW c \in {"op", "fence"}, Admit(i, c),
           op.pc \notin {"call", "fencing", "clear"}, live' \in {live, 0}, booting' = 0,
           op'.at = i, c = "op" => op'.pc = "call", c = "fence" => op'.pc = "fencing",
           UNCHANGED <<log, image, marker, config, landed, told, backup, hold>>
    PROVE  Storage' /\ Guests' /\ References' /\ Holders' /\ Gates' /\ Awaited' /\ Opened(i)'
  <1>1. Opened(i) /\ marker = NoLog /\ booting = 0 /\ i # 0
    BY SlotOf DEF IInv, References
  <1>2. \A j \in Slot : \A k \in 1 .. Len(inst[j].gate) : inst[j].gate[k] \notin {"op", "fence"}
    BY DEF IInv, Gates, Waits
  <1>3. /\ inst' = [j \in Slot |-> inst'[j]]
        /\ \A j \in Slot :
             /\ Guest(inst'[j]) /\ inst'[j].phase = inst[j].phase
             /\ Usable(inst'[j]) <=> Usable(inst[j])
             /\ FitsNow(inst[j]) => FitsNow(inst[j])'
             /\ j # i => inst'[j] = inst[j]
             /\ \A k \in 1 .. Len(inst'[j].gate) :
                   \/ j = i /\ inst'[j].gate[k] = c
                   \/ k \in 1 .. Len(inst[j].gate) /\ inst'[j].gate[k] = inst[j].gate[k]
        /\ Stays
    <2>1. Guests BY DEF IInv
    <2>2. c \in Caller BY DEF Caller
    <2>3. \A k \in 1 .. Len(inst[i].gate) : inst[i].gate[k] # c BY <1>2
    <2> QED BY <1>1, <2>1, <2>2, <2>3, Admitted
  <1>4. Guests'
    <2>1. Keeper = i /\ Keeper' = i BY <1>1 DEF Keeper
    <2>2. \A j \in Slot : Usable(inst[j]) =>
             /\ j = Keeper'
             /\ inst[j].phase # "marker" /\ marker' # NoLog => op'.pc = "clear" /\ j = op'.at
      BY <1>1, <2>1 DEF IInv, Guests
    <2> QED BY <1>3, <2>2, AdmitGuests DEF IInv
  <1>5. Opened(i)' BY <1>1, <1>3 DEF Opened
  <1>6. References'
    <2>1. \A j \in Slot : inst'[j].phase \in Booting <=> booting' = j
      BY <1>1, <1>3, SlotOf DEF IInv, References
    <2>2. live' # 0 => live' = i BY <1>1
    <2> QED BY <1>1, <1>5, <2>1, <2>2, SlotOf DEF References, Opened
  <1>7. Holders' BY <1>3, HoldersStay DEF IInv
  <1>8. Gates'
    <2> SUFFICES ASSUME NEW j \in Slot, NEW k \in 1 .. Len(inst'[j].gate)
                 PROVE  Waits(inst[j].gate[k], j)'
      BY DEF Gates
    <2>1. CASE j = i /\ inst'[j].gate[k] = c
      BY <2>1, ObjectAssumption DEF Waits, ObjectAssumption
    <2>2. CASE k \in 1 .. Len(inst[j].gate) /\ inst'[j].gate[k] = inst[j].gate[k]
      <3>1. Waits(inst[j].gate[k], j) /\ inst[j].gate[k] \notin {"op", "fence"}
        BY <1>2, <2>2 DEF IInv, Gates
      <3> QED BY <2>2, <3>1 DEF Waits
    <2> QED BY <1>3, <2>1, <2>2
  <1>9. Awaited' BY DEF Awaited
  <1>10. Storage' BY StorageStays DEF IInv
  <1> QED BY <1>4, <1>5, <1>6, <1>7, <1>8, <1>9, <1>10

LEMMA UseBootedStep ==
    ASSUME IInv, UseBooted
    PROVE  IInv'
  <1>1. /\ op.pc = "boot" /\ Opened(op.at) /\ Admit(op.at, "op") /\ op' = [op EXCEPT !.pc = "call"]
        /\ UNCHANGED <<log, image, marker, config, landed, told, backup, hold, fence, live,
                       booting, spent>>
    BY DEF UseBooted, stored, object, history
  <1>2. PICK i \in Slot : i = op.at BY <1>1, SlotOf DEF IInv, Operation
  <1>3. op.kind \in Using /\ op = OpOf(op) BY <1>1, OpFacts DEF IInv, Operation
  <1>4. live = i /\ booting = 0
    <2>1. booting # i BY <1>1, <1>2 DEF Opened, IInv, References
    <2>2. i \in {live, booting} BY <1>1, <1>2 DEF IInv, Operation
    <2> QED BY <1>2, <2>1, <2>2, SlotOf DEF IInv, References
  <1>5. PICK q, p, o : o = op /\ p = "call" /\ q = ToPc(o, p) OBVIOUS
  <1>6. /\ q = OpOf(q) /\ q.pc = p /\ q.at = o.at /\ q.kind = o.kind /\ q.who = o.who
    BY ONLY <1>3, <1>5, PcTo
  <1>7. op' = q BY <1>1, <1>5 DEF ToPc
  <1>8. op'.at = i /\ op'.pc = "call" BY <1>2, <1>5, <1>6, <1>7
  <1>9. Storage' /\ Guests' /\ References' /\ Holders' /\ Gates' /\ Awaited' /\ Opened(i)'
    BY <1>1, <1>2, <1>4, <1>8, QueueStep
  <1>10. Operation'
    <2>1. op.kind \in Kind /\ op.kind \notin {"none", "recycle", "restore"}
          /\ "call" \in PCs(op.kind)
      BY <1>3 DEF Kind, Using, PCs
    <2>2. op.kind = "write" => op.who \in Writer BY DEF IInv, Operation
    <2> QED BY <1>1, <1>4, <1>5, <1>6, <1>7, <1>8, <1>9, <2>1, <2>2, SlotOf
        DEF Operation, Alone, Fenced, Opened
  <1>11. Spending' BY <1>1 DEF IInv, Spending
  <1> QED BY <1>9, <1>10, <1>11 DEF IInv

LEMMA RestoreBootedStep ==
    ASSUME IInv, RestoreBooted
    PROVE  IInv'
  <1>1. /\ op.pc = "awaitBoot" /\ Opened(op.at) /\ Admit(op.at, "fence")
        /\ op' = [op EXCEPT !.pc = "fencing"]
        /\ UNCHANGED <<log, image, marker, config, landed, told, backup, hold, fence, live,
                       booting, spent>>
    BY DEF RestoreBooted, stored, object, history
  <1>2. PICK i \in Slot : i = op.at BY <1>1, SlotOf DEF IInv, Operation
  <1>3. /\ op.kind = "restore" /\ op = OpOf(op) /\ fence # "open" /\ op.bytes \in Log
        /\ Replays(op.bytes) /\ op.replace \in BOOLEAN
    BY <1>1, OpFacts DEF IInv, Operation, Fenced
  <1>4. live = i /\ booting = 0
    <2>1. booting # i BY <1>1, <1>2 DEF Opened, IInv, References
    <2>2. i \in {live, booting} BY <1>1, <1>2 DEF IInv, Operation
    <2> QED BY <1>2, <2>1, <2>2, SlotOf DEF IInv, References
  <1>5. PICK q, p, o : o = op /\ p = "fencing" /\ q = ToPc(o, p) OBVIOUS
  <1>6. /\ q = OpOf(q) /\ q.pc = p /\ q.at = o.at /\ q.kind = o.kind
        /\ q.bytes = o.bytes /\ q.replace = o.replace
    BY ONLY <1>3, <1>5, PcTo
  <1>7. op' = q BY <1>1, <1>5 DEF ToPc
  <1>8. op'.at = i /\ op'.pc = "fencing" BY <1>2, <1>5, <1>6, <1>7
  <1>9. Storage' /\ Guests' /\ References' /\ Holders' /\ Gates' /\ Awaited' /\ Opened(i)'
    BY <1>1, <1>2, <1>4, <1>8, QueueStep
  <1>10. Operation'
    BY <1>1, <1>3, <1>4, <1>5, <1>6, <1>7, <1>8, <1>9, SlotOf
       DEF Operation, Kind, PCs, Alone, Fenced, Opened
  <1>11. Spending' BY <1>1 DEF IInv, Spending
  <1> QED BY <1>9, <1>10, <1>11 DEF IInv

LEMMA RestoreFenceStep ==
    ASSUME IInv, RestoreFence
    PROVE  IInv'
  <1>1. /\ op.pc = "fence" /\ fence' # "open"
        /\ UNCHANGED <<log, image, marker, config, landed, told, backup, hold, spent>>
    BY DEF RestoreFence, stored, history
  <1>2. /\ op.kind = "restore" /\ op = OpOf(op) /\ op.at = 0 /\ op.bytes \in Log
        /\ Replays(op.bytes) /\ op.replace \in BOOLEAN
    BY <1>1, OpFacts DEF IInv, Operation
  <1>3. Spending' /\ spent' = spent BY <1>1 DEF IInv, Spending
  <1>4. ASSUME NEW p, NEW a, op' = ToPcAt(op, p, a)
        PROVE  /\ op' = OpOf(op)' /\ op'.pc = p /\ op'.at = a /\ op'.kind = "restore"
               /\ op'.bytes = op.bytes /\ op'.replace = op.replace
    <2>1. PICK o, q : o = op /\ q = ToPcAt(o, p, a) OBVIOUS
    <2>2. /\ q = OpOf(q) /\ q.pc = p /\ q.at = a /\ q.kind = o.kind
          /\ q.bytes = o.bytes /\ q.replace = o.replace
      BY ONLY <1>2, <2>1, PcAtTo
    <2>3. op' = q BY <1>4, <2>1
    <2>4. q.kind = "restore" /\ q.bytes = op.bytes /\ q.replace = op.replace
      BY <1>2, <2>1, <2>2
    <2> QED BY ONLY <2>2, <2>3, <2>4 DEF OpOf
  <1>5. ASSUME live # 0, Admit(live, "fence"), op' = [op EXCEPT !.pc = "fencing", !.at = live],
               UNCHANGED <<live, booting>>
        PROVE  IInv'
    <2>1. PICK i \in Slot : i = live BY <1>5, SlotOf DEF IInv, References
    <2>2. booting = 0 BY <1>5 DEF IInv, References
    <2>3. op' = ToPcAt(op, "fencing", i) BY <1>5, <2>1 DEF ToPcAt
    <2>4. /\ op' = OpOf(op)' /\ op'.pc = "fencing" /\ op'.at = i /\ op'.kind = "restore"
          /\ op'.bytes = op.bytes /\ op'.replace = op.replace
      BY <1>4, <2>3
    <2>5. Storage' /\ Guests' /\ References' /\ Holders' /\ Gates' /\ Awaited' /\ Opened(i)'
      BY <1>1, <1>3, <1>5, <2>1, <2>2, <2>4, QueueStep
    <2>6. Operation'
      BY <1>1, <1>2, <1>5, <2>1, <2>2, <2>4, <2>5, SlotOf
         DEF Operation, Kind, PCs, Alone, Fenced, Opened
    <2> QED BY <1>3, <2>5, <2>6 DEF IInv
  <1>6. ASSUME live = 0, booting # 0, op' = [op EXCEPT !.pc = "awaitBoot", !.at = booting],
               UNCHANGED <<live, booting, inst>>
        PROVE  IInv'
    <2>1. op' = ToPcAt(op, "awaitBoot", booting) BY <1>6 DEF ToPcAt
    <2>2. /\ op' = OpOf(op)' /\ op'.pc = "awaitBoot" /\ op'.at = booting /\ op'.kind = "restore"
          /\ op'.bytes = op.bytes /\ op'.replace = op.replace
      BY <1>4, <2>1
    <2>3. Operation'
      BY <1>1, <1>2, <1>6, <2>2 DEF IInv, References, Operation, Kind, PCs, Alone, Fenced
    <2> QED BY <1>1, <1>3, <1>6, <2>2, <2>3, OperationStep
  <1>7. ASSUME live = 0, booting = 0, op' = [op EXCEPT !.pc = "target"], Drop, UNCHANGED inst
        PROVE  IInv'
    <2>1. PICK q, p, o : o = op /\ p = "target" /\ q = ToPc(o, p) OBVIOUS
    <2>2. /\ q = OpOf(q) /\ q.pc = p /\ q.at = o.at /\ q.kind = o.kind
          /\ q.bytes = o.bytes /\ q.replace = o.replace
      BY ONLY <1>2, <2>1, PcTo
    <2>3. op' = q /\ live' = 0 /\ booting' = 0 BY <1>7, <2>1 DEF ToPc, Drop
    <2>4. Operation'
      BY <1>1, <1>2, <2>1, <2>2, <2>3, SlotOf DEF Operation, Kind, PCs, Alone, Fenced
    <2>5. op'.at = op.at BY <2>1, <2>2, <2>3
    <2> QED BY <1>1, <1>3, <1>7, <2>3, <2>4, <2>5, OperationStep
  <1> QED BY <1>5, <1>6, <1>7 DEF RestoreFence

\* Once a restore is behind the fence no guest can run.
LEMMA AloneFacts ==
    ASSUME IInv, op.pc \in {"target", "publish", "reopen"}
    PROVE  /\ op.kind = "restore" /\ op = OpOf(op) /\ op.at = 0 /\ op.bytes \in Log
           /\ Replays(op.bytes) /\ op.replace \in BOOLEAN
           /\ live = 0 /\ booting = 0 /\ fence # "open"
           /\ \A j \in Slot : ~Usable(inst[j]) /\ inst[j].phase \notin Booting
           /\ \A j \in Slot : \A k \in 1 .. Len(inst[j].gate) :
                 inst[j].gate[k] \notin {"op", "fence"}
  <1>1. op.kind = "restore" BY OpFacts DEF IInv, Fenced
  <1>2. op.at = 0 /\ live = 0 /\ booting = 0 /\ fence # "open"
    BY DEF IInv, Operation, Alone, Fenced
  <1>3. \A j \in Slot : ~Usable(inst[j]) BY <1>2, SlotOf DEF IInv, Guests, Keeper
  <1>4. \A j \in Slot : inst[j].phase \notin Booting BY <1>2, SlotOf DEF IInv, References
  <1>5. \A j \in Slot : \A k \in 1 .. Len(inst[j].gate) : inst[j].gate[k] \notin {"op", "fence"}
    BY DEF IInv, Gates, Waits
  <1>6. op = OpOf(op) /\ op.bytes \in Log /\ Replays(op.bytes) /\ op.replace \in BOOLEAN
    BY <1>1 DEF IInv, Operation
  <1> QED BY <1>1, <1>2, <1>3, <1>4, <1>5, <1>6

\* The object lets go of guests that cannot run, and nothing is going on.
LEMMA DropStep ==
    ASSUME IInv, op.pc \notin {"call", "fencing"}, Drop, op' = Idle,
           \A j \in Slot : ~Usable(inst[j]) /\ inst[j].phase \notin Booting,
           UNCHANGED <<log, image, marker, config, landed, told, backup, inst, hold>>,
           Spending'
    PROVE  IInv'
  <1>1. live' = 0 /\ booting' = 0 BY DEF Drop
  <1>2. Storage' BY StorageStays DEF IInv
  <1>3. Guests' BY DEF IInv, Guests
  <1>4. References' BY <1>1, SlotOf DEF References
  <1>5. Holders'
    <2>1. Stays BY DEF Stays, Opened
    <2> QED BY <2>1, HoldersStay DEF IInv
  <1>6. Gates'
    <2> SUFFICES ASSUME NEW j \in Slot, NEW k \in 1 .. Len(inst[j].gate)
                 PROVE  Waits(inst[j].gate[k], j)'
      BY DEF Gates
    <2>1. Waits(inst[j].gate[k], j) BY DEF IInv, Gates
    <2> QED BY <2>1 DEF Waits
  <1>7. Operation' BY IdleIs, SlotOf DEF Operation, Kind, PCs, Alone, Fenced
  <1>8. Awaited' BY <1>1 DEF Awaited
  <1> QED BY <1>2, <1>3, <1>4, <1>5, <1>6, <1>7, <1>8 DEF IInv

LEMMA RecycleStep ==
    ASSUME IInv, Recycle, ~crossed'
    PROVE  IInv'
  <1>1. /\ op = Idle /\ Drop /\ booting = 0
        /\ UNCHANGED <<log, image, marker, config, landed, told, backup, hold, fence>>
    BY DEF Recycle, stored
  <1>2. Spending'
    <2>1. Spend("recycles", MaxRecycles) BY DEF Recycle
    <2> QED BY <2>1, SpendFacts DEF IInv
  <1>3. op.pc = "none" /\ op.at = 0 BY <1>1, IdleIs
  <1>4. live' = 0 /\ booting' = 0 BY <1>1 DEF Drop
  <1>5. ASSUME LiveUsable, Admit(live, "op"),
               op' = [Idle EXCEPT !.kind = "recycle", !.pc = "call", !.at = live]
        PROVE  IInv'
    <2>1. PICK i \in Slot : i = live BY <1>5, SlotOf DEF LiveUsable, IInv, References
    <2>2. PICK q : q = RecyclingOp(i) OBVIOUS
    <2>3. q = OpOf(q) /\ q.kind = "recycle" /\ q.pc = "call" /\ q.at = i
      BY ONLY <2>2, RecycleOp
    <2>4. op' = q BY <1>5, <2>1, <2>2 DEF RecyclingOp
    <2>5. Storage' /\ Guests' /\ References' /\ Holders' /\ Gates' /\ Awaited' /\ Opened(i)'
      BY <1>1, <1>3, <1>4, <1>5, <2>1, <2>3, <2>4, QueueStep
    <2>6. Operation'
      BY <1>4, <2>3, <2>4, <2>5, SlotOf
         DEF Operation, Kind, PCs, Alone, Fenced, Opened
    <2> QED BY <1>2, <2>5, <2>6 DEF IInv
  <1>6. ASSUME ~LiveUsable, UNCHANGED <<inst, op>> PROVE IInv'
    <2>1. \A j \in Slot : ~Usable(inst[j])
      <3> SUFFICES ASSUME NEW j \in Slot, Usable(inst[j]) PROVE FALSE OBVIOUS
      <3>1. j = live /\ live # 0 BY <1>1, <1>3, SlotOf DEF IInv, Guests, Keeper
      <3> QED BY <1>6, <3>1 DEF LiveUsable, Usable
    <2>2. \A j \in Slot : inst[j].phase \notin Booting BY <1>1, SlotOf DEF IInv, References
    <2> QED BY <1>1, <1>2, <1>3, <1>6, <2>1, <2>2, DropStep
  <1> QED BY <1>5, <1>6 DEF Recycle

LEMMA RestoreTargetStep ==
    ASSUME IInv, RestoreTarget
    PROVE  IInv'
  <1> DEFINE refused == \/ Torn(log)
                        \/ TargetOccupied /\ ~op.replace
                        \/ op.replace /\ LoadBytes(log) # op.expected
  <1>1. /\ op.pc = "target"
        /\ UNCHANGED <<log, image, marker, config, landed, told, backup, inst, hold, spent>>
    BY DEF RestoreTarget, stored, history
  <1>2. /\ op.kind = "restore" /\ op = OpOf(op) /\ op.at = 0 /\ op.bytes \in Log
        /\ Replays(op.bytes) /\ op.replace \in BOOLEAN
        /\ live = 0 /\ booting = 0 /\ fence # "open"
        /\ \A j \in Slot : ~Usable(inst[j]) /\ inst[j].phase \notin Booting
    BY <1>1, AloneFacts
  <1>3. Spending' /\ spent' = spent BY <1>1 DEF IInv, Spending
  <1>4. CASE Drop /\ op' = Idle BY <1>1, <1>2, <1>3, <1>4, DropStep
  <1>5. ASSUME ~refused, UNCHANGED object,
               op' = [op EXCEPT !.pc = "publish", !.prior = fence, !.target = <<log, image>>]
        PROVE  IInv'
    <2>1. PICK q, p, f, t, o : /\ o = op /\ p = "publish" /\ f = fence /\ t = <<log, image>>
                               /\ q = ToTarget(o, p, f, t)
      OBVIOUS
    <2>2. /\ q = OpOf(q) /\ q.pc = p /\ q.at = o.at /\ q.kind = o.kind
          /\ q.bytes = o.bytes /\ q.replace = o.replace /\ q.expected = o.expected
          /\ q.target = t
      BY ONLY <1>2, <2>1, TargetTo
    <2>3. op' = q /\ UNCHANGED <<fence, live, booting>> BY <1>5, <2>1 DEF ToTarget, object
    <2>4. landed.log = LoadBytes(log) BY DEF IInv, Storage, Stored, ReadsAs
    <2>5. landed.log = IF op.replace THEN op.expected ELSE <<>>
      BY <1>2, <1>5, <2>4 DEF TargetOccupied
    <2>6. Operation'
      BY <1>1, <1>2, <2>1, <2>2, <2>3, <2>5, SlotOf DEF Operation, Kind, PCs, Alone, Fenced
    <2>7. op'.at = op.at BY <2>1, <2>2, <2>3
    <2> QED BY <1>1, <1>2, <1>3, <2>3, <2>6, <2>7, OperationStep
  <1> QED BY <1>4, <1>5 DEF RestoreTarget

\* The fence's turn at the gate: the guest behind it is poisoned.
LEMMA RestoreFencedStep ==
    ASSUME IInv, NEW i \in Slot, RestoreFenced(i)
    PROVE  IInv'
  <1>1. /\ inst[i].phase = "idle" /\ inst[i].gate # <<>> /\ Head(inst[i].gate) = "fence"
        /\ Drop /\ op' = [op EXCEPT !.pc = "target", !.at = 0]
        /\ inst' = [inst EXCEPT ![i] = Dead([inst[i] EXCEPT !.poisoned = TRUE,
                                                            !.gate = Tail(inst[i].gate)])]
        /\ UNCHANGED <<log, image, marker, config, landed, told, backup, hold, fence, spent>>
    BY DEF RestoreFenced, stored, history
  <1>2. Guest(inst[i]) /\ Line(inst[i].gate) BY DEF IInv, Guests, Guest
  <1>3. /\ Line(Tail(inst[i].gate)) /\ inst[i].gate[1] = "fence" /\ 1 \in 1 .. Len(inst[i].gate)
        /\ \A k \in 1 .. Len(Tail(inst[i].gate)) :
              /\ k + 1 \in 1 .. Len(inst[i].gate)
              /\ Tail(inst[i].gate)[k] = inst[i].gate[k + 1]
              /\ Tail(inst[i].gate)[k] # "fence"
    BY <1>1, <1>2, LineTail
  <1>4. op.pc = "fencing" /\ op.at = i /\ i # 0
    <2>1. Waits("fence", i) BY <1>3 DEF IInv, Gates
    <2> QED BY <2>1, SlotOf DEF Waits
  <1>5. /\ op.kind = "restore" /\ op = OpOf(op) /\ fence # "open" /\ op.bytes \in Log
        /\ Replays(op.bytes) /\ op.replace \in BOOLEAN
    BY <1>4, OpFacts DEF IInv, Operation, Fenced
  <1>6. live = i /\ booting = 0 BY <1>4, <1>5 DEF IInv, Operation
  <1>7. live' = 0 /\ booting' = 0 BY <1>1 DEF Drop
  <1>8. PICK g, x, y : /\ x = inst[i] /\ g = Tail(inst[i].gate)
                       /\ y = Dead(PoisonedWith(x, g))
    OBVIOUS
  <1>9. inst' = [inst EXCEPT ![i] = y] BY ONLY <1>1, <1>8 DEF PoisonedWith
  <1>10. Guest(y) /\ y.phase = "idle" /\ ~Usable(y) /\ y.gate = g
    <2>1. Guest(x) /\ x.phase = "idle" /\ Line(g) BY <1>1, <1>2, <1>3, <1>8
    <2> QED BY ONLY <1>8, <2>1, GuestDead
  <1>11. /\ inst'[i] = y /\ \A j \in Slot : j # i => inst'[j] = inst[j]
    BY <1>9, SlotUpdate DEF IInv, Guests
  <1>12. \A j \in Slot : j # i => ~Usable(inst[j]) BY <1>4, <1>6 DEF IInv, Guests, Keeper
  <1>13. Storage' BY <1>1, StorageStays DEF IInv
  <1>14. Guests'
    <2>1. Guests BY DEF IInv
    <2> QED BY ONLY <1>9, <1>10, <1>12, <2>1, i \in Slot, GuestAlone
  <1>15. Stays BY <1>1, <1>10, <1>11 DEF Stays, Opened, Booting
  <1>16. References'
    <2>1. \A j \in Slot : inst[j].phase \notin Booting BY <1>6, SlotOf DEF IInv, References
    <2>2. \A j \in Slot : inst'[j].phase \notin Booting BY <1>15, <2>1 DEF Stays
    <2> QED BY <1>7, <2>2, SlotOf DEF References
  <1>17. Holders' BY <1>1, <1>15, HoldersStay DEF IInv
  <1>18. PICK q, p, a, o : o = op /\ p = "target" /\ a = 0 /\ q = ToPcAt(o, p, a) OBVIOUS
  <1>19. /\ q = OpOf(q) /\ q.pc = p /\ q.at = a /\ q.kind = o.kind
         /\ q.bytes = o.bytes /\ q.replace = o.replace
    BY ONLY <1>5, <1>18, PcAtTo
  <1>20. op' = q BY <1>1, <1>18 DEF ToPcAt
  <1>21. Gates'
    <2> SUFFICES ASSUME NEW j \in Slot, NEW k \in 1 .. Len(inst'[j].gate)
                 PROVE  Waits(inst[j].gate[k], j)'
      BY DEF Gates
    <2>1. PICK l \in 1 .. Len(inst[j].gate) :
             inst'[j].gate[k] = inst[j].gate[l] /\ (j = i => inst[j].gate[l] # "fence")
      <3>1. CASE j = i
        <4>1. inst'[j].gate = Tail(inst[i].gate) BY <1>8, <1>10, <1>11, <3>1
        <4>2. /\ k + 1 \in 1 .. Len(inst[j].gate) /\ inst'[j].gate[k] = inst[j].gate[k + 1]
              /\ inst[j].gate[k + 1] # "fence"
          BY <1>3, <3>1, <4>1
        <4> QED BY <4>2
      <3>2. CASE j # i
        <4>1. inst'[j] = inst[j] BY <1>11, <3>2
        <4> QED BY <3>2, <4>1
      <3> QED BY <3>1, <3>2
    <2>2. Waits(inst[j].gate[l], j) BY DEF IInv, Gates
    <2>3. inst[j].gate[l] \notin {"op", "fence"} BY <1>4, <2>1, <2>2 DEF Waits
    <2> QED BY <1>1, <2>1, <2>2, <2>3 DEF Waits
  <1>22. Operation'
    BY <1>1, <1>5, <1>7, <1>18, <1>19, <1>20, SlotOf DEF Operation, Kind, PCs, Alone, Fenced
  <1>23. Awaited' BY <1>7 DEF Awaited
  <1>24. Spending' BY <1>1 DEF IInv, Spending
  <1> QED BY <1>13, <1>14, <1>16, <1>17, <1>21, <1>22, <1>23, <1>24 DEF IInv

\* replace(): the log, the image and the marker change in one transaction.
LEMMA RestorePublishStep ==
    ASSUME IInv, RestorePublish
    PROVE  IInv'
  <1>1. op.pc = "publish" /\ UNCHANGED <<config, inst, hold, asked, backup>>
    BY DEF RestorePublish
  <1>2. /\ op.kind = "restore" /\ op = OpOf(op) /\ op.at = 0 /\ op.bytes \in Log
        /\ Replays(op.bytes) /\ op.replace \in BOOLEAN
        /\ live = 0 /\ booting = 0 /\ fence # "open"
        /\ \A j \in Slot : ~Usable(inst[j]) /\ inst[j].phase \notin Booting
        /\ \A j \in Slot : \A k \in 1 .. Len(inst[j].gate) :
              inst[j].gate[k] \notin {"op", "fence"}
    BY <1>1, AloneFacts
  <1>3. ASSUME Spend("faults", MaxFaults), RestoreStops, UNCHANGED <<stored, history>>
        PROVE  IInv'
    <2>1. Spending' BY <1>3, SpendFacts DEF IInv
    <2>2. UNCHANGED <<log, image, marker, config, landed, told, backup, inst, hold>>
      BY <1>1, <1>3 DEF stored, history
    <2>3. Drop /\ op' = Idle BY <1>3 DEF RestoreStops
    <2> QED BY <1>1, <1>2, <2>1, <2>2, <2>3, DropStep
  <1>4. ASSUME log' = ApplyPlan(log, Plan(Handle(op.target[1], config), op.bytes, 0)),
               image' = ApplyPlan(image, ClearPlan(op.target[2])),
               marker' = op.bytes, landed' = [log |-> op.bytes, image |-> <<>>],
               told' = told \cap Txns(op.bytes), op' = [op EXCEPT !.pc = "reopen"],
               UNCHANGED <<object, spent>>
        PROVE  IInv'
    <2>1. op.target = <<log, image>> BY <1>1 DEF IInv, Operation
    <2>2. landed'.log = op.bytes /\ landed'.image = <<>> BY <1>4
    <2>3. Storage'
      <3>1. /\ config \in Nat \ {0} /\ landed.log \in Seq(LogByte)
            /\ landed.image \in Seq(Log) /\ StoredRange(log) /\ ReadsAs(log, landed.log)
            /\ StoredRange(image) /\ ReadsAs(image, landed.image)
            /\ op.bytes \in Seq(LogByte)
        BY <1>2 DEF IInv, Storage, Stored, Log
      <3>2. /\ log' = ApplyPlan(log, Plan(Handle(log, config), op.bytes, 0))
            /\ image' = ApplyPlan(image, ClearPlan(image))
        BY <1>4, <2>1
      <3>3. StoredRange(log') /\ ReadsAs(log', op.bytes)
        BY ONLY <3>1, <3>2, RestoreReadsBack
      <3>4. StoredRange(image') /\ ReadsAs(image', <<>>)
        <4>1. <<>> \in Seq(Log) BY EmptySeq
        <4> QED BY ONLY <3>1, <3>2, <4>1, RestoreReadsBack
      <3>5. Stored(log, landed.log)' /\ Stored(image, landed.image)'
        BY <2>2, <3>3, <3>4 DEF Stored, StoredRange, ReadsAs
      <3>6. TakenOf(landed.image, landed.log)' BY <2>2 DEF TakenOf
      <3>7. landed'.log \in Log /\ landed'.image \in Seq(Log)
        BY <1>2, <2>2, EmptySeq
      <3>8. told' \subseteq Txns(landed'.log) BY <1>4, <2>2
      <3>9. marker' \in Log \cup {NoLog} /\ (marker' # NoLog => landed'.log = marker')
        BY <1>2, <1>4, <2>2
      <3>10. Txns(landed'.log) = Txns(landed.log)' BY DEF Txns
      <3> QED BY <1>1, <3>1, <3>5, <3>6, <3>7, <3>8, <3>9, <3>10 DEF Storage, IInv
    <2>4. UNCHANGED <<fence, live, booting>> BY <1>4 DEF object
    <2>5. Guests' BY <1>1, <1>2 DEF IInv, Guests
    <2>6. References' BY <1>1, <1>2, <2>4, SlotOf DEF References
    <2>7. Spending' BY <1>4 DEF IInv, Spending
    <2>8. Holders'
      <3>1. Stays BY <1>1 DEF Stays, Opened
      <3> QED BY <1>1, <2>7, <3>1, HoldersStay DEF IInv
    <2>9. Gates'
      <3> SUFFICES ASSUME NEW j \in Slot, NEW k \in 1 .. Len(inst[j].gate)
                   PROVE  Waits(inst[j].gate[k], j)'
        BY <1>1 DEF Gates
      <3>1. Waits(inst[j].gate[k], j) BY DEF IInv, Gates
      <3> QED BY <1>1, <1>2, <3>1 DEF Waits
    <2>10. PICK q, p, o : o = op /\ p = "reopen" /\ q = ToPc(o, p) OBVIOUS
    <2>11. /\ q = OpOf(q) /\ q.pc = p /\ q.at = o.at /\ q.kind = o.kind
           /\ q.bytes = o.bytes /\ q.replace = o.replace
      BY ONLY <1>2, <2>10, PcTo
    <2>12. op' = q BY <1>4, <2>10 DEF ToPc
    <2>13. Operation'
      BY <1>2, <2>4, <2>10, <2>11, <2>12, SlotOf DEF Operation, Kind, PCs, Alone, Fenced
    <2>14. Awaited' BY <1>2, <2>4 DEF Awaited
    <2> QED BY <2>3, <2>5, <2>6, <2>7, <2>8, <2>9, <2>13, <2>14 DEF IInv
  <1> QED BY <1>3, <1>4 DEF RestorePublish

LEMMA RestoredFields ==
    ASSUME NEW y, y = BootForRestore
    PROVE  /\ y = GuestOf(y) /\ y.phase = "idle" /\ y.gate = <<>>
           /\ y.poisoned = FALSE /\ y.closed = FALSE
           /\ y.log = HostImage(LoadBytes(log)) /\ y.image = HostImage(LoadBytes(image))
           /\ y.logHandle = Handle(log, config) /\ y.imageHandle = Handle(image, config)
  <1>1. y = [phase |-> "idle", log |-> HostImage(LoadBytes(log)),
             image |-> HostImage(LoadBytes(image)),
             logHandle |-> Handle(log, config), imageHandle |-> Handle(image, config),
             poisoned |-> FALSE, closed |-> FALSE, gate |-> <<>>,
             logPlan |-> NoPlan, imagePlan |-> NoPlan]
    BY DEF BootForRestore, NewInstance
  <1> QED BY ONLY <1>1 DEF GuestOf

\* The guest that verifies a restore holds what is stored.
LEMMA RestoredFits ==
    ASSUME Storage, NEW y, y = BootForRestore
    PROVE  Guest(y) /\ FitsNow(y)
  <1>1. /\ y = GuestOf(y) /\ y.phase = "idle" /\ y.gate = <<>>
        /\ y.poisoned = FALSE /\ y.closed = FALSE
        /\ y.log = HostImage(LoadBytes(log)) /\ y.image = HostImage(LoadBytes(image))
        /\ y.logHandle = Handle(log, config) /\ y.imageHandle = Handle(image, config)
    BY RestoredFields
  <1>2. /\ landed.log \in Log /\ landed.image \in Seq(Log) /\ TakenOf(landed.image, landed.log)
        /\ ReadsAs(log, landed.log) /\ ReadsAs(image, landed.image)
    BY DEF Storage, Stored
  <1>3. /\ Knows(y, log, image, landed.log, landed.image, config)
        /\ y.log \in [bytes : Log, low : Int] /\ y.image \in [bytes : Seq(Log), low : Int]
    BY ONLY <1>1, <1>2, FreshFits
  <1>4. Guest(y) BY ONLY <1>1, <1>3, LineEmpty DEF Guest
  <1>5. SameBytes(y, y) BY DEF SameBytes
  <1>6. Fits(y, log, image, landed.log, landed.image, config) BY <1>1, <1>3, <1>5, KnowsSame
  <1> QED BY <1>4, <1>6 DEF FitsNow

\* The published log is opened again by a guest nobody else reaches.
LEMMA RestoreReopenStep ==
    ASSUME IInv, RestoreReopen
    PROVE  IInv'
  <1> DEFINE least == CHOOSE j \in Unused : \A k \in Unused : j <= k
  <1>1. /\ op.pc = "reopen" /\ Unused # {}
        /\ UNCHANGED <<log, image, marker, config, landed, told, backup, hold>>
    BY DEF RestoreReopen, stored, history
  <1>2. /\ op.kind = "restore" /\ op = OpOf(op) /\ op.at = 0 /\ op.bytes \in Log
        /\ Replays(op.bytes) /\ op.replace \in BOOLEAN
        /\ live = 0 /\ booting = 0 /\ fence # "open"
        /\ \A j \in Slot : ~Usable(inst[j]) /\ inst[j].phase \notin Booting
        /\ \A j \in Slot : \A k \in 1 .. Len(inst[j].gate) :
              inst[j].gate[k] \notin {"op", "fence"}
    BY <1>1, AloneFacts
  <1>3. ASSUME UNCHANGED spent \/ Spend("faults", MaxFaults), Drop, op' = Idle, UNCHANGED inst
        PROVE  IInv'
    <2>1. Spending'
      BY <1>3, SpendFacts DEF IInv, Spending
    <2> QED BY <1>1, <1>2, <1>3, <2>1, DropStep
  <1>4. ASSUME inst' = [inst EXCEPT ![least] = BootForRestore],
               op' = [op EXCEPT !.pc = "clear", !.at = least], UNCHANGED <<object, spent>>
        PROVE  IInv'
    <2>1. PICK i : i = least OBVIOUS
    <2>2. i \in Slot /\ ~Referenced(i) /\ i # 0
      <3>1. \E j \in Unused : \A k \in Unused : j <= k
        BY <1>1, LeastSlot DEF Unused, Slot
      <3>2. least \in Unused BY <3>1
      <3> QED BY <2>1, <3>2, SlotOf DEF Unused, Slot
    <2>3. PICK y : y = BootForRestore OBVIOUS
    <2>4. inst' = [inst EXCEPT ![i] = y] /\ op' = ToPcAt(op, "clear", i)
          /\ UNCHANGED <<fence, live, booting, spent>>
      BY <1>4, <2>1, <2>3 DEF ToPcAt, object
    <2> HIDE DEF least
    <2>5. Guest(y) /\ FitsNow(y) /\ y.phase = "idle" /\ y.gate = <<>>
      BY <2>3, RestoredFits, RestoredFields DEF IInv
    <2>6. /\ inst'[i] = y /\ \A j \in Slot : j # i => inst'[j] = inst[j]
      BY <2>2, <2>4, SlotUpdate DEF IInv, Guests
    <2>7. PICK q, p, a, o : o = op /\ p = "clear" /\ a = i /\ q = ToPcAt(o, p, a) OBVIOUS
    <2>8. /\ q = OpOf(q) /\ q.pc = p /\ q.at = a /\ q.kind = o.kind
          /\ q.bytes = o.bytes /\ q.replace = o.replace
      BY ONLY <1>2, <2>7, PcAtTo
    <2>9. op' = q BY <2>4, <2>7
    <2>10. Storage' BY <1>1, StorageStays DEF IInv
    <2>11. op'.pc = "clear" /\ op'.at = i BY <2>7, <2>8, <2>9
    <2>12. Guests'
      <3>1. Guests /\ UNCHANGED <<log, image, config, landed>> BY <1>1 DEF IInv
      <3>2. i = Keeper' BY <1>2, <2>4, <2>11 DEF Keeper
      <3>3. \A j \in Slot : j # i => ~Usable(inst[j]) BY <1>2
      <3> QED BY ONLY <2>2, <2>4, <2>5, <2>11, <3>1, <3>2, <3>3, GuestsStep
    <2>13. References'
      <3>1. \A j \in Slot : inst'[j].phase \notin Booting BY <1>2, <2>5, <2>6 DEF Booting
      <3> QED BY <1>2, <2>4, <3>1, SlotOf DEF References
    <2>14. \A h \in Holder : hold[h].at # i BY <2>2 DEF Referenced
    <2>15. Holders'
      <3>1. ASSUME NEW h \in Holder, hold[h].state # "away"
            PROVE  inst'[hold[h].at] = inst[hold[h].at]
        <4>1. hold[h].at \in Slot BY <3>1, SlotOf DEF IInv, Holders, HoldType
        <4> QED BY <2>6, <2>14, <4>1
      <3> QED BY <1>1, <2>4, <3>1, HoldersKept DEF IInv
    <2>16. Gates'
      <3> SUFFICES ASSUME NEW j \in Slot, NEW k \in 1 .. Len(inst'[j].gate)
                   PROVE  Waits(inst[j].gate[k], j)'
        BY DEF Gates
      <3>1. CASE j = i
        <4>1. inst'[j].gate = <<>> /\ Len(<<>>) = 0 BY <2>5, <2>6, <3>1, EmptySeq
        <4> QED BY <4>1
      <3>2. CASE j # i
        <4>1. inst'[j] = inst[j] BY <2>6, <3>2
        <4>2. Waits(inst[j].gate[k], j) BY <4>1 DEF IInv, Gates
        <4> QED BY <1>1, <1>2, <4>1, <4>2 DEF Waits
      <3> QED BY <3>1, <3>2
    <2>17. Operation'
      <3>1. i \in 0 .. MaxInstances BY <2>2, SlotOf
      <3> QED BY <1>1, <1>2, <2>2, <2>4, <2>5, <2>6, <2>7, <2>8, <2>9, <2>14, <3>1
            DEF Operation, Kind, PCs, Alone, Fenced
    <2>18. Awaited' BY <1>2, <2>4 DEF Awaited
    <2>19. Spending' BY <2>4 DEF IInv, Spending
    <2> QED BY <2>10, <2>12, <2>13, <2>15, <2>16, <2>17, <2>18, <2>19 DEF IInv
  <1> QED BY <1>3, <1>4 DEF RestoreReopen

\* The marker goes, and the verified guest is the object's; or it stays, and
\* the guest is given up.
LEMMA RestoreClearStep ==
    ASSUME IInv, RestoreClear
    PROVE  IInv'
  <1>1. /\ op.pc = "clear" /\ op' = Idle
        /\ UNCHANGED <<log, image, config, landed, told, backup, hold>>
    BY DEF RestoreClear, history
  <1>2. /\ live = 0 /\ booting = 0 /\ op.at # 0 /\ inst[op.at].phase = "idle"
        /\ inst[op.at].gate = <<>>
    BY <1>1 DEF IInv, Operation, Alone
  <1>3. PICK i \in Slot : i = op.at BY <1>2, SlotOf DEF IInv, Operation
  <1>4. Keeper = i /\ i # 0 BY <1>2, <1>3 DEF Keeper
  <1>5. \A j \in Slot : j # i => ~Usable(inst[j]) BY <1>4 DEF IInv, Guests
  <1>6. \A j \in Slot : inst[j].phase \notin Booting
    BY <1>2, SlotOf DEF IInv, References
  <1>7. \A j \in Slot : \A k \in 1 .. Len(inst[j].gate) :
           Waits(inst[j].gate[k], j) /\ inst[j].gate[k] \notin {"op", "fence"}
    BY <1>1 DEF IInv, Gates, Waits
  <1>8. Operation' BY <1>1, IdleIs, SlotOf DEF Operation, Kind, PCs, Alone, Fenced
  <1>9. ASSUME marker' = NoLog, live' = op.at, UNCHANGED <<booting, inst, spent>>
        PROVE  IInv'
    <2>1. Storage' BY <1>1, <1>9 DEF IInv, Storage, Stored
    <2>2. Guests'
      <3>1. Keeper' = i BY <1>3, <1>4, <1>9 DEF Keeper
      <3>2. \A j \in Slot : FitsNow(inst[j])' <=> FitsNow(inst[j]) BY <1>1, <1>9 DEF FitsNow
      <3> QED BY <1>4, <1>9, <3>1, <3>2 DEF IInv, Guests
    <2>3. References'
      <3>1. Opened(i)' BY <1>2, <1>3, <1>9 DEF Opened, Booting
      <3> QED BY <1>2, <1>3, <1>6, <1>9, <3>1, SlotOf DEF References, Opened
    <2>4. Stays BY <1>9 DEF Stays, Opened
    <2>5. Holders' BY <1>1, <1>9, <2>4, HoldersStay DEF IInv
    <2>6. Gates' BY <1>1, <1>7, <1>9 DEF Gates, Waits
    <2>7. Awaited' BY <1>2, <1>9 DEF Awaited
    <2>8. Spending' BY <1>9 DEF IInv, Spending
    <2> QED BY <1>8, <2>1, <2>2, <2>3, <2>5, <2>6, <2>7, <2>8 DEF IInv
  <1>10. ASSUME UNCHANGED spent \/ Spend("faults", MaxFaults), Drop, UNCHANGED marker,
                inst' = [inst EXCEPT ![op.at] = Dead([@ EXCEPT !.poisoned = TRUE])]
         PROVE  IInv'
    <2>1. live' = 0 /\ booting' = 0 BY <1>10 DEF Drop
    <2>2. Spending'
      BY <1>10, SpendFacts DEF IInv, Spending
    <2>3. Guest(inst[i]) /\ Line(inst[i].gate) BY DEF IInv, Guests, Guest
    <2>4. PICK x, g, y : x = inst[i] /\ g = x.gate /\ y = Dead(PoisonedWith(x, g)) OBVIOUS
    <2>5. Guest(x) /\ x.phase = "idle" /\ Line(g) BY <1>2, <1>3, <2>3, <2>4
    <2>6. Guest(y) /\ y.phase = "idle" /\ ~Usable(y) /\ y.gate = g
      BY ONLY <2>4, <2>5, GuestDead
    <2>7. [x EXCEPT !.poisoned = TRUE] = PoisonedWith(x, g)
      <3>1. x = GuestOf(x) BY <2>5 DEF Guest
      <3> QED BY ONLY <2>4, <3>1 DEF GuestOf, PoisonedWith
    <2>8. inst' = [inst EXCEPT ![i] = y]
      <3>1. inst' = [inst EXCEPT ![i] = Dead([inst[i] EXCEPT !.poisoned = TRUE])]
        BY ONLY <1>3, <1>10
      <3>2. Dead([inst[i] EXCEPT !.poisoned = TRUE]) = y BY ONLY <2>4, <2>7
      <3> QED BY ONLY <3>1, <3>2
    <2>9. /\ inst'[i] = y /\ \A j \in Slot : j # i => inst'[j] = inst[j]
      BY <2>8, SlotUpdate DEF IInv, Guests
    <2>10. Storage' BY <1>1, <1>10, StorageStays DEF IInv
    <2>11. Guests'
      <3>1. Guests BY DEF IInv
      <3> QED BY ONLY <1>5, <2>6, <2>8, <3>1, i \in Slot, GuestAlone
    <2>12. \A j \in Slot : inst'[j].phase = inst[j].phase /\ inst'[j].gate = inst[j].gate
      BY <1>2, <1>3, <2>4, <2>5, <2>6, <2>9
    <2>13. Stays BY <2>12 DEF Stays, Opened
    <2>14. References' BY <1>6, <2>1, <2>12, SlotOf DEF References
    <2>15. Holders' BY <1>1, <2>2, <2>13, HoldersStay DEF IInv
    <2>16. Gates' BY <1>1, <1>7, <2>12 DEF Gates, Waits
    <2>17. Awaited' BY <2>1 DEF Awaited
    <2> QED BY <1>8, <2>2, <2>10, <2>11, <2>14, <2>15, <2>16, <2>17 DEF IInv
  <1> QED BY <1>9, <1>10 DEF RestoreClear

\* The isolate is lost: no guest, no caller and no operation is left.
LEMMA CrashStep ==
    ASSUME IInv, Crash
    PROVE  IInv'
  <1>1. /\ config' \in ChunkSizes /\ live' = 0 /\ booting' = 0 /\ op' = Idle
        /\ inst' = [i \in Slot |-> Free] /\ hold' = [h \in Holder |-> Away]
        /\ UNCHANGED <<log, image, marker, landed, told, backup>>
    BY DEF Crash, stored, history, Slot
  <1>2. Spending'
    <2>1. Spend("crashes", MaxCrashes) BY DEF Crash
    <2> QED BY <2>1, SpendFacts DEF IInv
  <1>3. \A j \in Slot : inst'[j] = Free BY <1>1
  <1>4. Guest(Free) /\ Free.phase = "free" /\ Free.gate = <<>> /\ ~Usable(Free)
    BY NewGuest
  <1>5. Storage'
    <2>1. config' \in Nat \ {0} BY <1>1, ObjectAssumption DEF ObjectAssumption
    <2> QED BY <1>1, <2>1 DEF IInv, Storage, Stored
  <1>6. Guests' BY <1>1, <1>3, <1>4 DEF Guests
  <1>7. References' BY <1>1, <1>3, <1>4, SlotOf DEF References, Booting
  <1>8. Holders'
    <2>1. Away \in HoldType /\ Away.state = "away" BY SlotOf DEF Away, HoldType
    <2>2. \A h \in Holder : hold'[h] = Away BY <1>1
    <2> QED BY <1>1, <2>1, <2>2 DEF Holders
  <1>9. Gates'
    <2>1. Len(<<>>) = 0 BY EmptySeq
    <2> QED BY <1>3, <1>4, <2>1 DEF Gates
  <1>10. Operation' BY <1>1, IdleIs, SlotOf DEF Operation, Kind, PCs, Alone, Fenced
  <1>11. Awaited' BY <1>1 DEF Awaited
  <1> QED BY <1>2, <1>5, <1>6, <1>7, <1>8, <1>9, <1>10, <1>11 DEF IInv

-----------------------------------------------------------------------------
(* The object.                                                             *)

LEMMA InitIInv == Init => IInv
  <1> SUFFICES ASSUME Init PROVE IInv OBVIOUS
  <1>1. /\ log = EmptyRange /\ image = EmptyRange /\ marker = NoLog /\ config = FirstChunkBytes
        /\ live = 0 /\ booting = 0 /\ op = Idle /\ told = {} /\ backup = NoLog
        /\ inst = [i \in Slot |-> Free] /\ hold = [h \in Holder |-> Away]
        /\ landed.log = <<>> /\ landed.image = <<>>
    BY DEF Init, Slot
  <1>2. spent = [checkpoints |-> 0, restores |-> 0, recycles |-> 0, crashes |-> 0, faults |-> 0]
    BY DEF Init
  <1>3. Spending BY <1>2 DEF Spending
  <1>4. \A j \in Slot : inst[j] = Free BY <1>1
  <1>5. Guest(Free) /\ Free.phase = "free" /\ Free.gate = <<>> /\ ~Usable(Free)
    BY NewGuest
  <1>6. Storage
    <2>1. config \in Nat \ {0} BY <1>1, ObjectAssumption DEF ObjectAssumption
    <2>2. EmptyRange.meta = NoMeta /\ EmptyRange.chunks = NoChunks
          /\ EmptyRange = [meta |-> EmptyRange.meta, chunks |-> EmptyRange.chunks]
      BY DEF EmptyRange
    <2>3. DOMAIN NoChunks = {} BY DEF NoChunks
    <2>4. StoredRange(EmptyRange) BY ONLY <2>2, <2>3 DEF StoredRange
    <2>5. ReadsAs(EmptyRange, <<>>)
      BY ONLY <2>2 DEF ReadsAs, LoadBytes, Torn, LoadedChunkCount
    <2>6. Stored(log, landed.log) /\ Stored(image, landed.image)
      BY <1>1, <2>4, <2>5 DEF Stored
    <2>7. landed.log \in Log /\ landed.image \in Seq(Log) BY <1>1, EmptySeq DEF Log
    <2>8. TakenOf(landed.image, landed.log) BY <1>1 DEF TakenOf
    <2>9. told \subseteq Txns(landed.log) BY <1>1
    <2> QED BY <1>1, <2>1, <2>6, <2>7, <2>8, <2>9 DEF Storage
  <1>7. Guests BY <1>1, <1>4, <1>5 DEF Guests
  <1>8. References BY <1>1, <1>4, <1>5, SlotOf DEF References, Booting
  <1>9. Holders
    <2>1. Away \in HoldType /\ Away.state = "away" BY SlotOf DEF Away, HoldType
    <2>2. \A h \in Holder : hold[h] = Away BY <1>1
    <2> QED BY <1>1, <2>1, <2>2 DEF Holders
  <1>10. Gates
    <2>1. Len(<<>>) = 0 BY EmptySeq
    <2> QED BY <1>4, <1>5, <2>1 DEF Gates
  <1>11. Operation BY <1>1, IdleIs, SlotOf DEF Operation, Kind, PCs, Alone, Fenced
  <1>12. Awaited BY <1>1 DEF Awaited
  <1> QED BY <1>3, <1>6, <1>7, <1>8, <1>9, <1>10, <1>11, <1>12 DEF IInv

LEMMA UsingStep ==
    ASSUME IInv, \/ \E w \in Writer : Transact(w)
                 \/ Checkpoint \/ Query \/ ExportFramlog
    PROVE  IInv'
  <1>1. ASSUME NEW w \in Writer, Transact(w) PROVE IInv'
    <2>1. Use("write", w) /\ UNCHANGED spent BY <1>1 DEF Transact
    <2>2. Spending' BY <2>1 DEF IInv, Spending
    <2>3. "write" \in Using BY DEF Using
    <2> QED BY <2>1, <2>2, <2>3, UseStep
  <1>2. ASSUME NEW kind \in {"checkpoint", "query", "export"}, Use(kind, "none"),
               UNCHANGED spent \/ Spend("checkpoints", MaxCheckpoints)
        PROVE  IInv'
    <2>1. Spending'
      BY <1>2, SpendFacts DEF IInv, Spending
    <2>2. kind \in Using /\ kind # "write" BY DEF Using
    <2> QED BY <1>2, <2>1, <2>2, UseStep
  <1> QED BY <1>1, <1>2 DEF Checkpoint, Query, ExportFramlog

LEMMA NextStep ==
    ASSUME IInv, [Next]_vars, ~crossed'
    PROVE  IInv'
  <1>1. CASE UNCHANGED vars BY <1>1, UnchangedStep DEF vars, IInv, Spending
  <1>2. ASSUME NEW i \in Slot, Step(i) PROVE IInv'
    BY <1>2, BootMarkerStep, BootLoadStep, RunCallStep, CommitCallStep, CommitOpenStep,
       RestoreFencedStep DEF Step
  <1>3. CASE Administer
    BY <1>3, UseBootedStep, RestorePeekStep, RestoreFenceStep, RestoreBootedStep,
       RestoreTargetStep, RestorePublishStep, RestoreReopenStep, RestoreClearStep
       DEF Administer
  <1>4. CASE (\E w \in Writer : Transact(w)) \/ Checkpoint \/ Query \/ ExportFramlog
    BY <1>4, UsingStep
  <1>5. CASE Recycle BY <1>5, RecycleStep
  <1>6. ASSUME NEW bytes \in Supplied \cup Known, NEW replace \in BOOLEAN, NEW expected,
               RestoreFramlog(bytes, replace, expected)
        PROVE  IInv'
    BY <1>6, RestoreFramlogStep
  <1>7. ASSUME NEW h \in Holder, HolderFram(h) \/ HolderBooted(h) PROVE IInv'
    BY <1>7, HolderFramStep, HolderBootedStep
  <1>8. ASSUME NEW h \in Holder, NEW call \in {"write", "close"}, HolderCall(h, call) PROVE IInv'
    BY <1>8, HolderCallStep
  <1>9. CASE Crash BY <1>9, CrashStep
  <1>10. CASE Next
    <2>1. CASE \E i \in 1 .. MaxInstances : Step(i) BY <1>2, <2>1 DEF Slot
    <2>2. CASE \E bytes \in Supplied \cup Known : RestoreFramlog(bytes, FALSE, <<>>)
      BY <1>6, <2>2
    <2>3. CASE \E bytes \in Supplied \cup Known, expected \in Nameable :
                  RestoreFramlog(bytes, TRUE, expected)
      BY <1>6, <2>3
    <2>4. CASE \E h \in Holder : HolderFram(h) \/ HolderBooted(h) BY <1>7, <2>4
    <2>5. CASE \E h \in Holder, call \in {"write", "close"} : HolderCall(h, call)
      BY <1>8, <2>5
    <2> QED BY <1>3, <1>4, <1>5, <1>9, <1>10, <2>1, <2>2, <2>3, <2>4, <2>5 DEF Next
  <1> QED BY <1>1, <1>10

\* What has crossed stays crossed, and the step that crosses leaves the storage.
LEMMA Crossing ==
    ASSUME [Next]_vars
    PROVE  UNCHANGED crossed \/ ((crossed => crossed') /\ UNCHANGED log)
  <1>1. ASSUME NEW i \in 1 .. MaxInstances, Step(i) PROVE UNCHANGED crossed
    <2>1. CASE BootMarker(i) BY <2>1 DEF BootMarker, history
    <2>2. CASE BootLoad(i) BY <2>2 DEF BootLoad, history
    <2>3. CASE RunCall(i) BY <2>3 DEF RunCall
    <2>4. CASE CommitCall(i) BY <2>4 DEF CommitCall
    <2>5. CASE CommitOpen(i) BY <2>5 DEF CommitOpen
    <2>6. CASE RestoreFenced(i) BY <2>6 DEF RestoreFenced, history
    <2> QED BY <1>1, <2>1, <2>2, <2>3, <2>4, <2>5, <2>6 DEF Step
  <1>2. ASSUME Administer PROVE UNCHANGED crossed
    <2>1. CASE UseBooted BY <2>1 DEF UseBooted, history
    <2>2. CASE RestorePeek BY <2>2 DEF RestorePeek, history
    <2>3. CASE RestoreFence BY <2>3 DEF RestoreFence, history
    <2>4. CASE RestoreBooted BY <2>4 DEF RestoreBooted, history
    <2>5. CASE RestoreTarget BY <2>5 DEF RestoreTarget, history
    <2>6. CASE RestorePublish BY <2>6 DEF RestorePublish, history
    <2>7. CASE RestoreReopen BY <2>7 DEF RestoreReopen, history
    <2>8. CASE RestoreClear BY <2>8 DEF RestoreClear, history
    <2> QED BY <1>2, <2>1, <2>2, <2>3, <2>4, <2>5, <2>6, <2>7, <2>8 DEF Administer
  <1>3. \A kind, who : Use(kind, who) => UNCHANGED crossed BY DEF Use, history
  <1>4. ASSUME (\E w \in Writer : Transact(w)) \/ Checkpoint \/ Query \/ ExportFramlog
        PROVE  UNCHANGED crossed
    BY <1>3, <1>4 DEF Transact, Checkpoint, Query, ExportFramlog
  <1>5. ASSUME Recycle PROVE (crossed => crossed') /\ UNCHANGED log
    BY <1>5 DEF Recycle, stored
  <1>6. \A bytes, replace, expected : RestoreFramlog(bytes, replace, expected) => UNCHANGED crossed
    BY DEF RestoreFramlog, history
  <1>7. \A h : HolderFram(h) => (crossed => crossed') /\ UNCHANGED log
    BY DEF HolderFram, stored
  <1>8. \A h : HolderBooted(h) => UNCHANGED crossed BY DEF HolderBooted, history
  <1>9. \A h, call : HolderCall(h, call) => UNCHANGED crossed BY DEF HolderCall, history
  <1>10. ASSUME Crash PROVE UNCHANGED crossed BY <1>10 DEF Crash, history
  <1>11. CASE UNCHANGED vars BY <1>11 DEF vars
  <1>12. CASE Next
    <2>1. CASE \E i \in 1 .. MaxInstances : Step(i) BY <1>1, <2>1
    <2>2. CASE \E bytes \in Supplied \cup Known : RestoreFramlog(bytes, FALSE, <<>>)
      BY <1>6, <2>2
    <2>3. CASE \E bytes \in Supplied \cup Known, expected \in Nameable :
                  RestoreFramlog(bytes, TRUE, expected)
      BY <1>6, <2>3
    <2>4. CASE \E h \in Holder : HolderFram(h) \/ HolderBooted(h) BY <1>7, <1>8, <2>4
    <2>5. CASE \E h \in Holder, call \in {"write", "close"} : HolderCall(h, call)
      BY <1>9, <2>5
    <2> QED BY <1>2, <1>4, <1>5, <1>10, <1>12, <2>1, <2>2, <2>3, <2>4, <2>5 DEF Next
  <1> QED BY <1>11, <1>12

\* The inductive invariant, of every behaviour until a recycle meets the boot
\* of a direct caller: at most one guest (the Keeper) can run, it knows the
\* stored ranges as they are, and no guest is left when a restore publishes.
\* Without the condition it is false, as OneLiveImage is.
THEOREM ObjectInvariant == Spec => [](~crossed => IInv)
  <1>1. Init => (~crossed => IInv) BY InitIInv
  <1>2. (~crossed => IInv) /\ [Next]_vars => (~crossed => IInv)'
    <2> SUFFICES ASSUME ~crossed => IInv, [Next]_vars, ~crossed' PROVE IInv'
      OBVIOUS
    <2>1. ~crossed BY Crossing
    <2> QED BY <2>1, NextStep
  <1> QED BY <1>1, <1>2, PTL DEF Spec

\* ChunkedRange.commit() rewrites the chunks from the low-water mark on, with a
\* chunk size that a later deployment may have changed: whatever was rejected,
\* recycled, restored or lost, both ranges read back as the last commit that
\* landed, and the image as states of that log, until a recycle meets the boot
\* of a direct caller.
THEOREM ReadsBack == Spec => []StoreReadsBack
  <1>1. (~crossed => IInv) => StoreReadsBack
    BY DEF IInv, Storage, Stored, ReadsAs, TakenOf, StoreReadsBack
  <1> QED BY <1>1, ObjectInvariant, PTL

\* Every transaction #commit() let an answer vouch for is in the durable log,
\* until a recycle meets the boot of a direct caller.
THEOREM Durability == Spec => []AnsweredIsDurable
  <1>1. (~crossed => IInv) => AnsweredIsDurable
    BY DEF IInv, Storage, Stored, ReadsAs, AnsweredIsDurable
  <1> QED BY <1>1, ObjectInvariant, PTL

\* While the marker of replace() is stored, fram() gives nobody a guest, and no
\* guest that a caller still holds can write, until a recycle meets the boot of
\* a direct caller.
THEOREM RestoreFences == Spec => []PendingRestoreFences
  <1>1. ASSUME IInv, marker # NoLog PROVE LoadBytes(log) = marker /\ live = 0
    BY <1>1 DEF IInv, Storage, Stored, ReadsAs, References
  <1>2. ASSUME IInv, marker # NoLog, NEW h \in Holder, hold[h].state # "away"
        PROVE  \/ inst[hold[h].at].phase \in {"marker"} \/ inst[hold[h].at].poisoned
               \/ inst[hold[h].at].closed
    <2>1. hold[h].at \in Slot /\ inst[hold[h].at].phase # "free"
      BY <1>2, SlotOf DEF IInv, Holders, HoldType
    <2>2. op.pc = "clear" => hold[h].at # op.at BY <1>2 DEF IInv, Operation
    <2> QED BY <1>2, <2>1, <2>2 DEF IInv, Guests, Usable
  <1>3. (~crossed => IInv) => PendingRestoreFences BY <1>1, <1>2 DEF PendingRestoreFences
  <1> QED BY <1>3, ObjectInvariant, PTL

\* fram(), recycle(), retained instances and restoreFramlog() leave two guests
\* that could both write over the storage in one way only: a recycle meets the
\* boot of a direct caller.
THEOREM OneGuest == Spec => []OneLiveImageUnlessCrossed
  <1>1. ASSUME IInv PROVE OneLiveImage
    <2> DEFINE able == {i \in 1 .. MaxInstances :
                           /\ Referenced(i) /\ inst[i].phase # "free"
                           /\ ~inst[i].poisoned /\ ~inst[i].closed}
    <2>1. able \subseteq {Keeper} BY <1>1 DEF IInv, Guests, Usable, Slot
    <2>2. IsFiniteSet({Keeper}) /\ Cardinality({Keeper}) = 1 BY FS_Singleton
    <2>3. Cardinality(able) <= Cardinality({Keeper}) /\ Cardinality(able) \in Nat
      BY ONLY <2>1, <2>2, FS_Subset, FS_CardinalityType
    <2>4. Cardinality(able) <= 1 BY <2>2, <2>3
    <2> QED BY <2>4 DEF OneLiveImage
  <1>2. (~crossed => IInv) => OneLiveImageUnlessCrossed BY <1>1 DEF OneLiveImageUnlessCrossed
  <1> QED BY <1>2, ObjectInvariant, PTL

\* Only a commit and the publication of a restore change the log.
LEMMA LogKept ==
    ASSUME Next
    PROVE  \/ UNCHANGED log
           \/ \E i \in Slot : inst[i].phase \in {"staged", "opening"} /\ Lands(i)
           \/ op.pc = "publish"
  <1>1. ASSUME NEW i \in Slot, Step(i)
        PROVE  UNCHANGED log \/ (inst[i].phase \in {"staged", "opening"} /\ Lands(i))
    <2>1. CASE BootMarker(i) BY <2>1 DEF BootMarker, stored
    <2>2. CASE BootLoad(i) BY <2>2 DEF BootLoad, stored
    <2>3. CASE RunCall(i) BY <2>3 DEF RunCall, stored
    <2>4. CASE CommitCall(i) BY <2>4 DEF CommitCall
    <2>5. CASE CommitOpen(i) BY <2>5 DEF CommitOpen
    <2>6. CASE RestoreFenced(i) BY <2>6 DEF RestoreFenced, stored
    <2> QED BY <1>1, <2>1, <2>2, <2>3, <2>4, <2>5, <2>6 DEF Step
  <1>2. CASE Administer
    <2>1. CASE UseBooted BY <2>1 DEF UseBooted, stored
    <2>2. CASE RestorePeek BY <2>2 DEF RestorePeek, stored
    <2>3. CASE RestoreFence BY <2>3 DEF RestoreFence, stored
    <2>4. CASE RestoreBooted BY <2>4 DEF RestoreBooted, stored
    <2>5. CASE RestoreTarget BY <2>5 DEF RestoreTarget, stored
    <2>6. CASE RestorePublish BY <2>6 DEF RestorePublish
    <2>7. CASE RestoreReopen BY <2>7 DEF RestoreReopen, stored
    <2>8. CASE RestoreClear BY <2>8 DEF RestoreClear
    <2> QED BY <1>2, <2>1, <2>2, <2>3, <2>4, <2>5, <2>6, <2>7, <2>8 DEF Administer
  <1>3. \A kind, who : Use(kind, who) => UNCHANGED log BY DEF Use, stored
  <1>4. CASE (\E w \in Writer : Transact(w)) \/ Checkpoint \/ Query \/ ExportFramlog \/ Recycle
    BY <1>3, <1>4 DEF Transact, Checkpoint, Query, ExportFramlog, Recycle, stored
  <1>5. \A bytes, replace, expected : RestoreFramlog(bytes, replace, expected) => UNCHANGED log
    BY DEF RestoreFramlog, stored
  <1>6. \A h : HolderFram(h) \/ HolderBooted(h) => UNCHANGED log
    BY DEF HolderFram, HolderBooted, stored
  <1>7. \A h, call : HolderCall(h, call) => UNCHANGED log BY DEF HolderCall, stored
  <1>8. CASE Crash BY <1>8 DEF Crash, stored
  <1> QED BY <1>1, <1>2, <1>4, <1>5, <1>6, <1>7, <1>8 DEF Next, Slot

\* #commit() only appends to the durable log, and restoreFramlog() replaces the
\* log it compared with the administrator's expectation behind the fence, or
\* none: no commit slips in between the comparison and the publication, until a
\* recycle meets the boot of a direct caller.
THEOREM ReplacesExpected == Spec => ReplaceOnlyExpected
  <1> DEFINE kept == \/ IsPrefix(LoadBytes(log), LoadBytes(log)')
                     \/ op.pc = "publish" /\ op.replace /\ LoadBytes(log) = op.expected
  <1>1. ASSUME IInv, IInv', [Next]_vars PROVE [kept]_vars
    <2>1. /\ LoadBytes(log) = landed.log /\ LoadBytes(log)' = landed'.log
          /\ landed.log \in Log /\ landed'.log \in Log
      BY <1>1 DEF IInv, Storage, Stored, ReadsAs
    <2>2. ASSUME UNCHANGED log PROVE kept
      <3>1. LoadBytes(log)' = LoadBytes(log) BY <2>2
      <3> QED BY <2>1, <3>1, PrefixSelf DEF Log
    <2>3. ASSUME NEW i \in Slot, inst[i].phase \in {"staged", "opening"}, Lands(i) PROVE kept
      <3>1. IsPrefix(landed.log, inst[i].log.bytes)
        BY <1>1, <2>3, LandsFacts DEF FitsNow, Fits
      <3>2. landed'.log \in {landed.log, inst[i].log.bytes} BY <2>3 DEF Lands
      <3>3. IsPrefix(landed.log, landed.log) BY <2>1, PrefixSelf DEF Log
      <3> QED BY <2>1, <3>1, <3>2, <3>3
    <2>4. ASSUME op.pc = "publish" PROVE kept
      <3>1. landed.log = IF op.replace THEN op.expected ELSE <<>>
        BY <1>1, <2>4 DEF IInv, Operation
      <3>2. op.replace \in BOOLEAN BY <1>1, <2>4, AloneFacts
      <3>3. IsPrefix(<<>>, landed'.log) BY <2>1, PrefixSelf DEF Log
      <3> QED BY <2>1, <2>4, <3>1, <3>2, <3>3
    <2>5. CASE Next BY <2>2, <2>3, <2>4, <2>5, LogKept
    <2>6. CASE UNCHANGED vars BY <2>6
    <2> QED BY <1>1, <2>5, <2>6
  <1>2. ASSUME IInv, UNCHANGED log PROVE kept
    <2>1. LoadBytes(log)' = LoadBytes(log) /\ LoadBytes(log) \in Log
      BY <1>2 DEF IInv, Storage, Stored, ReadsAs
    <2> QED BY <2>1, PrefixSelf DEF Log
  <1>3. (~crossed => IInv) /\ [Next]_vars => [~crossed => kept]_vars
    <2> SUFFICES ASSUME ~crossed, IInv, Next PROVE kept
      OBVIOUS
    <2>1. CASE crossed'
      <3>1. UNCHANGED log BY <2>1, Crossing
      <3> QED BY <1>2, <3>1
    <2>2. CASE ~crossed'
      <3>1. IInv' BY <2>2, NextStep
      <3>2. kept \/ UNCHANGED vars BY <1>1, <3>1
      <3>3. CASE UNCHANGED vars
        <4>1. UNCHANGED log BY <3>3 DEF vars
        <4> QED BY <1>2, <4>1
      <3> QED BY <3>2, <3>3
    <2> QED BY <2>1, <2>2
  <1> QED BY <1>3, ObjectInvariant, PTL DEF Spec, ReplaceOnlyExpected
==============================================================================
