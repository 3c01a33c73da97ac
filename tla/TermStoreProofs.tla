-------------------------- MODULE TermStoreProofs --------------------------
(***************************************************************************)
(* Proofs about TermStore, for every set of propositions and every bound.  *)
(*                                                                         *)
(* The invariants of TermStore are about two representations of the live   *)
(* positions and about a loop that is interrupted after every iteration,   *)
(* so the induction needs to know which representation is in use (Frame),  *)
(* how far the last transaction has been written (Coordinates) and how the *)
(* transaction rows tile the operation rows written and pending (Tiling).  *)
(***************************************************************************)
EXTENDS TermStore, SequenceTheorems, TLAPS

\* Which representation holds the positions, and how much has been folded.
Frame ==
    /\ mode = "rebuild" => foldOpen
    /\ mode # "append" => pending = <<>>
    /\ mode # "rebuild" => Len(withdrawalTargets) = Len(operations)
    /\ mode \in {"append", "failed"} => transactions # <<>>

LastTransaction == transactions[Len(transactions)]

\* Every written row precedes the rows still to come.
Coordinates ==
    IF mode \in {"append", "failed"}
    THEN /\ LastTransaction.sequence >= nextSequence
         /\ \A p \in 1..Len(operations) :
              \/ operations[p].txSequence < LastTransaction.sequence
              \/ /\ operations[p].txSequence = LastTransaction.sequence
                 /\ operations[p].ordinal < LastTransaction.operationCount - Len(pending)
    ELSE \A p \in 1..Len(operations) : operations[p].txSequence < nextSequence

\* Transaction row i starts where row i - 1 ends, with a later sequence.
Tile(i) ==
    LET tx == transactions[i] IN
    /\ tx.operationCount > 0
    /\ tx.firstOperation + tx.operationCount - 1 <= Len(operations) + Len(pending)
    /\ i = 1 => tx.firstOperation = 1
    /\ i > 1 => /\ tx.sequence > transactions[i - 1].sequence
                /\ tx.firstOperation =
                     transactions[i - 1].firstOperation + transactions[i - 1].operationCount

\* Operation row p, if transaction row i covers it, carries its coordinate.
RowOf(i, p) ==
    LET tx == transactions[i] IN
    tx.firstOperation <= p /\ p < tx.firstOperation + tx.operationCount =>
        /\ operations[p].txSequence = tx.sequence
        /\ operations[p].ordinal = p - tx.firstOperation

\* The last tile ends with the rows still pending.
LastTile ==
    /\ LastTransaction.firstOperation + LastTransaction.operationCount - 1
         = Len(operations) + Len(pending)
    /\ Len(pending) <= LastTransaction.operationCount
    /\ mode \in {"idle", "rebuild"} => nextSequence = LastTransaction.sequence + 1

\* Every earlier tile ends before the last one starts.
BeforeLast(i) ==
    i < Len(transactions) =>
        transactions[i].firstOperation + transactions[i].operationCount
          <= LastTransaction.firstOperation

\* The transaction rows tile the rows written and the rows pending.
Tiling ==
    /\ \A i \in 1..Len(transactions) : Tile(i) /\ BeforeLast(i)
    /\ \A i \in 1..Len(transactions) : \A p \in 1..Len(operations) : RowOf(i, p)
    /\ transactions = <<>> => operations = <<>> /\ pending = <<>> /\ nextSequence = 1
    /\ transactions # <<>> => LastTile

IInv == /\ TypeOK
        /\ Frame
        /\ Coordinates
        /\ Tiling
        /\ CoordinatesOrdered
        /\ LivenessIsDerived
        /\ WithdrawsNewestLive
        /\ WithdrawnAtMostOnce
-----------------------------------------------------------------------------
\* set-active-positions! changes the live positions of one handle, in
\* whichever representation is in use, and of no other.
LEMMA SetActive ==
    ASSUME TypeOK, foldOpen' = foldOpen,
           NEW h \in Triple, NEW positions \in Seq(Nat),
           SetActivePositions(h, positions)
    PROVE  /\ buckets' \in [Triple -> Seq(Nat)]
           /\ cells' \in [Triple -> Seq(Nat)]
           /\ \A g \in Triple : ActivePositions(g)' =
                IF g = h THEN positions ELSE ActivePositions(g)
  BY DEF TypeOK, SetActivePositions, ActivePositions

\* The live positions of a handle are read off the two representations
\* alone: a step that leaves both unchanged leaves every list unchanged.
LEMMA KeepActive ==
    ASSUME foldOpen' = foldOpen, UNCHANGED <<buckets, cells>>
    PROVE  \A g \in Triple : ActivePositions(g)' = ActivePositions(g)
  BY DEF ActivePositions

\* Whichever representation is open, a handle has a sequence of positions.
LEMMA ActiveType ==
    ASSUME TypeOK, NEW h \in Triple
    PROVE  ActivePositions(h) \in Seq(Nat)
  BY DEF TypeOK, ActivePositions

\* A withdrawal drops the last position of a list and keeps the others, as
\* apply-operation-state! does with the newest live assertion.
LEMMA PopType ==
    ASSUME NEW s \in Seq(Nat), Len(s) > 0
    PROVE  /\ Pop(s) \in Seq(Nat)
           /\ Len(Pop(s)) = Len(s) - 1
           /\ \A i \in 1..Len(s) - 1 : Pop(s)[i] = s[i]
           /\ s[Len(s)] \in Nat
           /\ Len(s) \in 1..Len(s)
  <1>1. Len(s) \in Nat OBVIOUS
  <1>2. s[Len(s)] \in Nat /\ Len(s) \in 1..Len(s) BY <1>1, ElementOfSeq
  <1>3. Pop(s) \in Seq(Nat) BY DEF Pop
  <1>4. Len(Pop(s)) = Len(s) - 1 BY DEF Pop
  <1>5. \A i \in 1..Len(s) - 1 : Pop(s)[i] = s[i] BY DEF Pop
  <1> QED BY <1>2, <1>3, <1>4, <1>5

\* apply-operation-state! appends one target and keeps the types.
LEMMA ApplyType ==
    ASSUME TypeOK, foldOpen' = foldOpen,
           NEW position \in Nat, NEW row \in OperationRow,
           ApplyOperationState(position, row)
    PROVE  /\ withdrawalTargets' \in Seq(Nat)
           /\ Len(withdrawalTargets') = Len(withdrawalTargets) + 1
           /\ \A i \in 1..Len(withdrawalTargets) :
                withdrawalTargets'[i] = withdrawalTargets[i]
           /\ buckets' \in [Triple -> Seq(Nat)]
           /\ cells' \in [Triple -> Seq(Nat)]
  <1> DEFINE active == ActivePositions(row.handle)
  <1>1. row.handle \in Triple /\ active \in Seq(Nat)
    BY ActiveType DEF OperationRow
  <1>2. withdrawalTargets \in Seq(Nat) BY DEF TypeOK
  <1>3. CASE row.action = "assert"
    <2>1. /\ withdrawalTargets' = Append(withdrawalTargets, 0)
          /\ SetActivePositions(row.handle, Append(active, position))
      BY <1>3 DEF ApplyOperationState
    <2>2. Append(active, position) \in Seq(Nat) BY <1>1
    <2>3. buckets' \in [Triple -> Seq(Nat)] /\ cells' \in [Triple -> Seq(Nat)]
      BY <1>1, <2>1, <2>2, SetActive
    <2> QED BY <1>2, <2>1, <2>3
  <1>4. CASE row.action # "assert" /\ active = <<>>
    <2>1. /\ withdrawalTargets' = Append(withdrawalTargets, 0)
          /\ UNCHANGED <<buckets, cells>>
      BY <1>4 DEF ApplyOperationState
    <2> QED BY <1>2, <2>1 DEF TypeOK
  <1>5. CASE row.action # "assert" /\ active # <<>>
    <2>1. /\ withdrawalTargets' = Append(withdrawalTargets, active[Len(active)])
          /\ SetActivePositions(row.handle, Pop(active))
      BY <1>5 DEF ApplyOperationState
    <2>2. Pop(active) \in Seq(Nat) /\ active[Len(active)] \in Nat
      BY <1>1, <1>5, EmptySeq, PopType
    <2> QED BY <1>1, <1>2, <2>1, <2>2, SetActive
  <1> QED BY <1>3, <1>4, <1>5

\* Every transaction row of a typed store is a record of the declared shape.
LEMMA TransactionType ==
    ASSUME TypeOK, NEW i \in 1..Len(transactions)
    PROVE  /\ transactions[i] \in TransactionRow
           /\ transactions[i].sequence \in Nat
           /\ transactions[i].firstOperation \in Nat
           /\ transactions[i].operationCount \in Nat
  <1>1. transactions \in Seq(TransactionRow) BY DEF TypeOK
  <1>2. transactions[i] \in TransactionRow BY <1>1, ElementOfSeq
  <1> QED BY <1>2 DEF TransactionRow

\* Tiles are counted from position 1.
LEMMA TileStart ==
    ASSUME TypeOK, Tiling, NEW i \in 1..Len(transactions)
    PROVE  transactions[i].firstOperation >= 1
  <1>1. Len(transactions) \in Nat BY DEF TypeOK
  <1>2. CASE i = 1 BY <1>1, <1>2 DEF Tiling, Tile
  <1>3. CASE i > 1
    <2>1. i - 1 \in 1..Len(transactions) BY <1>1, <1>3
    <2>2. /\ transactions[i - 1].firstOperation \in Nat
          /\ transactions[i - 1].operationCount \in Nat
      BY <2>1, TransactionType
    <2>3. Tile(i) /\ Tile(i - 1) BY <2>1 DEF Tiling
    <2> QED BY <1>3, <2>2, <2>3 DEF Tile
  <1> QED BY <1>1, <1>2, <1>3

\* Every operation row of a typed store is a record of the declared shape.
LEMMA RowType ==
    ASSUME TypeOK, NEW p \in 1..Len(operations)
    PROVE  /\ operations[p] \in OperationRow
           /\ operations[p].txSequence \in Nat
           /\ operations[p].ordinal \in Nat
  <1>1. operations \in Seq(OperationRow) BY DEF TypeOK
  <1>2. operations[p] \in OperationRow BY <1>1, ElementOfSeq
  <1> QED BY <1>2 DEF OperationRow

-----------------------------------------------------------------------------
\* One iteration of the append loop writes one row, at the end.
LEMMA AppendRow ==
    ASSUME TypeOK, Frame, Tiling, AppendOperation
    PROVE  \E row \in OperationRow :
             /\ operations' = Append(operations, row)
             /\ row.txSequence = LastTransaction.sequence
             /\ row.ordinal = LastTransaction.operationCount - Len(pending)
             /\ ApplyOperationState(Len(operations) + 1, row)
             /\ foldOpen' = foldOpen
             /\ operations' \in Seq(OperationRow)
             /\ Len(operations') = Len(operations) + 1
             /\ \A p \in 1..Len(operations) : operations'[p] = operations[p]
             /\ operations'[Len(operations) + 1] = row
  <1> DEFINE row == [txSequence |-> LastTransaction.sequence,
                     ordinal    |-> LastTransaction.operationCount - Len(pending),
                     action     |-> Head(pending).action,
                     handle     |-> Head(pending).handle]
  <1>1. /\ LastTransaction \in TransactionRow
        /\ LastTransaction.operationCount >= Len(pending)
    <2>1. Len(transactions) \in 1..Len(transactions)
      BY EmptySeq DEF Frame, TypeOK, AppendOperation
    <2>2. LastTransaction \in TransactionRow
      BY <2>1 DEF TypeOK, LastTransaction
    <2>3. transactions # <<>> BY DEF Frame, AppendOperation
    <2> QED BY <2>2, <2>3 DEF Tiling, LastTile
  <1>2. Head(pending) \in CommitOperation
    BY HeadTailProperties DEF TypeOK, AppendOperation
  <1>3. Len(pending) \in Nat BY DEF TypeOK
  <1>4. row \in OperationRow
    BY <1>1, <1>2, <1>3 DEF OperationRow, TransactionRow, CommitOperation
  <1>5. /\ operations' = Append(operations, row)
        /\ ApplyOperationState(Len(operations) + 1, row)
        /\ foldOpen' = foldOpen
    BY DEF AppendOperation, LastTransaction
  <1> HIDE DEF row
  <1>6. operations \in Seq(OperationRow) BY DEF TypeOK
  <1> QED BY <1>4, <1>5, <1>6 DEF row

-----------------------------------------------------------------------------
\* What folding one more row does, whichever loop folds it: the position list
\* of the row's handle grows by the new position, keeps still or loses its
\* last position, and the recorded target is 0 or that last position.
FoldStep(row) ==
    LET active == ActivePositions(row.handle)
        length == Len(withdrawalTargets)
        target == withdrawalTargets'[length + 1]
    IN  /\ \A h \in Triple : h # row.handle => ActivePositions(h)' = ActivePositions(h)
        /\ \/ /\ row.action = "assert"
              /\ target = 0
              /\ ActivePositions(row.handle)' = Append(active, length + 1)
           \/ /\ row.action = "retract"
              /\ active = <<>>
              /\ target = 0
              /\ ActivePositions(row.handle)' = active
           \/ /\ row.action = "retract"
              /\ Len(active) > 0
              /\ target = active[Len(active)]
              /\ ActivePositions(row.handle)' = Pop(active)

\* apply-operation-state! is a fold step: an assertion is appended to its
\* own list, a withdrawal removes the newest live assertion or nothing.
LEMMA ApplyIsFoldStep ==
    ASSUME TypeOK, foldOpen' = foldOpen, NEW row \in OperationRow,
           ApplyOperationState(Len(withdrawalTargets) + 1, row)
    PROVE  FoldStep(row)
  <1> DEFINE active == ActivePositions(row.handle)
             length == Len(withdrawalTargets)
  <1>1. row.handle \in Triple /\ active \in Seq(Nat)
    BY ActiveType DEF OperationRow
  <1>2. withdrawalTargets \in Seq(Nat) /\ length \in Nat BY DEF TypeOK
  <1>3. CASE row.action = "assert"
    <2>1. /\ withdrawalTargets' = Append(withdrawalTargets, 0)
          /\ SetActivePositions(row.handle, Append(active, length + 1))
      BY <1>3 DEF ApplyOperationState
    <2>2. Append(active, length + 1) \in Seq(Nat) BY <1>1, <1>2
    <2>3. \A g \in Triple : ActivePositions(g)' =
            IF g = row.handle THEN Append(active, length + 1) ELSE ActivePositions(g)
      BY <1>1, <2>1, <2>2, SetActive
    <2>4. withdrawalTargets'[length + 1] = 0 BY <1>2, <2>1
    <2> QED BY <1>1, <1>3, <2>3, <2>4 DEF FoldStep
  <1>4. CASE row.action = "retract" /\ active = <<>>
    <2>1. /\ withdrawalTargets' = Append(withdrawalTargets, 0)
          /\ UNCHANGED <<buckets, cells>>
      BY <1>4 DEF ApplyOperationState
    <2>2. withdrawalTargets'[length + 1] = 0 BY <1>2, <2>1
    <2> QED BY <1>1, <1>4, <2>1, <2>2, KeepActive DEF FoldStep
  <1>5. CASE row.action = "retract" /\ active # <<>>
    <2>1. /\ withdrawalTargets' = Append(withdrawalTargets, active[Len(active)])
          /\ SetActivePositions(row.handle, Pop(active))
      BY <1>5 DEF ApplyOperationState
    <2>2. Len(active) > 0 BY <1>1, <1>5, EmptySeq
    <2>3. Pop(active) \in Seq(Nat) /\ active[Len(active)] \in Nat
      BY <1>1, <2>2, PopType
    <2>4. \A g \in Triple : ActivePositions(g)' =
            IF g = row.handle THEN Pop(active) ELSE ActivePositions(g)
      BY <1>1, <2>1, <2>3, SetActive
    <2>5. withdrawalTargets'[length + 1] = active[Len(active)]
      BY <1>2, <2>1, <2>3
    <2> QED BY <1>1, <1>5, <2>2, <2>4, <2>5 DEF FoldStep
  <1>6. row.action \in {"assert", "retract"} BY DEF OperationRow, Action
  <1> QED BY <1>3, <1>4, <1>5, <1>6

\* The heart of the proof: folding one more row keeps the position lists
\* exactly the live assertions, and every withdrawal the newest live one.
LEMMA FoldPreserves ==
    ASSUME TypeOK, TypeOK', NEW row \in OperationRow, FoldStep(row),
           Len(withdrawalTargets') = Len(withdrawalTargets) + 1,
           \A p \in 1..Len(withdrawalTargets) :
             /\ withdrawalTargets'[p] = withdrawalTargets[p]
             /\ operations'[p] = operations[p],
           operations'[Len(withdrawalTargets) + 1] = row,
           LivenessIsDerived, WithdrawsNewestLive, WithdrawnAtMostOnce
    PROVE  LivenessIsDerived' /\ WithdrawsNewestLive' /\ WithdrawnAtMostOnce'
  <1> DEFINE L == Len(withdrawalTargets)
             t == withdrawalTargets'[L + 1]
             active == ActivePositions(row.handle)
  <1>0. /\ L \in Nat
        /\ row.handle \in Triple
        /\ active \in Seq(Nat)
        /\ row.action \in {"assert", "retract"}
    <2>1. L \in Nat BY DEF TypeOK
    <2>2. row.handle \in Triple /\ row.action \in {"assert", "retract"}
      BY DEF OperationRow, Action
    <2> QED BY <2>1, <2>2, ActiveType
  <1>1. /\ \A p \in 1..L : operations[p] \in OperationRow /\ withdrawalTargets[p] \in Nat
        /\ t \in Nat
    <2>1. L + 1 \in 1..Len(withdrawalTargets') BY <1>0
    <2>2. withdrawalTargets' \in Seq(Nat) BY DEF TypeOK
    <2>3. t \in Nat BY <2>1, <2>2, ElementOfSeq
    <2>4. withdrawalTargets \in Seq(Nat) BY DEF TypeOK
    <2>5. Len(operations) \in Nat /\ L <= Len(operations) /\ operations \in Seq(OperationRow)
      BY DEF TypeOK
    <2>6. \A p \in 1..L : operations[p] \in OperationRow BY <1>0, <2>5, ElementOfSeq
    <2> QED BY <2>3, <2>4, <2>6, ElementOfSeq
  <1>2. Folded = 1..L /\ Folded' = 1..(L + 1) BY DEF Folded
  \* Every position in a list is a folded position.
  <1>3. \A h \in Triple : \A i \in 1..Len(ActivePositions(h)) :
          /\ ActivePositions(h)[i] \in 1..L
          /\ operations[ActivePositions(h)[i]].action = "assert"
          /\ operations[ActivePositions(h)[i]].handle = h
          /\ ~Withdrawn(ActivePositions(h)[i])
    BY <1>2 DEF LivenessIsDerived
  <1>4. \A h \in Triple : \A i, j \in 1..Len(ActivePositions(h)) :
          i < j => ActivePositions(h)[i] < ActivePositions(h)[j]
    BY DEF LivenessIsDerived
  <1>5. \A h \in Triple : \A p \in 1..L :
          operations[p].action = "assert" /\ operations[p].handle = h /\ ~Withdrawn(p)
          => \E i \in 1..Len(ActivePositions(h)) : ActivePositions(h)[i] = p
    BY <1>2 DEF LivenessIsDerived
  \* The new target is 0 or the last position of the list.
  <1>6. t = 0 \/ /\ row.action = "retract"
                 /\ Len(active) > 0
                 /\ t = active[Len(active)]
                 /\ t \in 1..L
                 /\ operations[t].action = "assert"
                 /\ operations[t].handle = row.handle
                 /\ ~Withdrawn(t)
    BY <1>0, <1>3 DEF FoldStep
  <1>7. \A p \in Nat : Withdrawn(p)' <=> Withdrawn(p) \/ t = p
    BY <1>0, <1>2 DEF Withdrawn
  <1>8. \A r \in 1..L : withdrawalTargets[r] # 0 => withdrawalTargets[r] < r
    BY <1>2 DEF WithdrawsNewestLive
  <1>9. ~Withdrawn(L + 1) /\ t # L + 1
    <2>1. ~Withdrawn(L + 1) BY <1>0, <1>1, <1>2, <1>8 DEF Withdrawn
    <2>2. t # L + 1 BY <1>0, <1>6
    <2> QED BY <2>1, <2>2
  <1>10. WithdrawnAtMostOnce'
    <2>1. \A r \in 1..L : t # 0 => withdrawalTargets[r] # t
      BY <1>2, <1>6 DEF Withdrawn
    <2>2. SUFFICES ASSUME NEW r \in 1..(L + 1), NEW s \in 1..(L + 1),
                          withdrawalTargets'[r] # 0,
                          withdrawalTargets'[r] = withdrawalTargets'[s]
                   PROVE  r = s
      BY <1>2 DEF WithdrawnAtMostOnce
    <2>3. CASE r = L + 1 BY <2>1, <2>2, <2>3, <1>0
    <2>4. CASE s = L + 1 BY <2>1, <2>2, <2>4, <1>0
    <2>5. CASE r \in 1..L /\ s \in 1..L
      BY <2>2, <2>5, <1>2 DEF WithdrawnAtMostOnce
    <2> QED BY <2>3, <2>4, <2>5, <1>0
  <1>11. WithdrawsNewestLive'
    <2>1. SUFFICES ASSUME NEW r \in 1..(L + 1)
                   PROVE  /\ operations'[r].action = "assert" => withdrawalTargets'[r] = 0
                          /\ withdrawalTargets'[r] # 0 =>
                               /\ withdrawalTargets'[r] < r
                               /\ operations'[r].action = "retract"
                               /\ EqualAssertion(withdrawalTargets[r], r)'
                          /\ operations'[r].action = "retract" =>
                               \A p \in (withdrawalTargets'[r] + 1)..(r - 1) :
                                 EqualAssertion(p, r)' => WithdrawnBefore(p, r)'
      BY <1>2 DEF WithdrawsNewestLive
    <2>2. CASE r \in 1..L
      <3>1. /\ operations[r].action = "assert" => withdrawalTargets[r] = 0
            /\ withdrawalTargets[r] # 0 => /\ withdrawalTargets[r] < r
                                           /\ operations[r].action = "retract"
                                           /\ EqualAssertion(withdrawalTargets[r], r)
            /\ operations[r].action = "retract" =>
                 \A p \in (withdrawalTargets[r] + 1)..(r - 1) :
                   EqualAssertion(p, r) => WithdrawnBefore(p, r)
        BY <2>2, <1>2 DEF WithdrawsNewestLive
      <3>2. withdrawalTargets'[r] = withdrawalTargets[r] /\ operations'[r] = operations[r]
        BY <2>2
      <3>3. withdrawalTargets[r] \in Nat BY <2>2, <1>1
      <3>4. withdrawalTargets[r] # 0 => EqualAssertion(withdrawalTargets[r], r)'
        BY <1>0, <2>2, <3>1, <3>2, <3>3 DEF EqualAssertion
      <3>5. ASSUME NEW p \in (withdrawalTargets[r] + 1)..(r - 1)
            PROVE  /\ EqualAssertion(p, r)' => EqualAssertion(p, r)
                   /\ WithdrawnBefore(p, r) => WithdrawnBefore(p, r)'
        <4>1. p \in 1..L /\ (p + 1)..(r - 1) \subseteq 1..L BY <1>0, <2>2, <3>3
        <4>2. EqualAssertion(p, r)' => EqualAssertion(p, r)
          BY <2>2, <4>1 DEF EqualAssertion
        <4>3. WithdrawnBefore(p, r) => WithdrawnBefore(p, r)'
          BY <4>1 DEF WithdrawnBefore
        <4> QED BY <4>2, <4>3
      <3> QED BY <3>1, <3>2, <3>4, <3>5
    <2>3. CASE r = L + 1
      <3>1. row.action = "assert" => t = 0 BY <1>6
      <3>2. t # 0 => /\ t < r
                     /\ row.action = "retract"
                     /\ EqualAssertion(withdrawalTargets[r], r)'
        BY <1>0, <1>6, <2>3 DEF EqualAssertion
      <3>3. ASSUME row.action = "retract", NEW p \in (t + 1)..(r - 1), EqualAssertion(p, r)'
            PROVE  WithdrawnBefore(p, r)'
        <4>1. p \in 1..L BY <1>0, <1>1, <2>3
        <4>2. operations[p].action = "assert" /\ operations[p].handle = row.handle
          BY <2>3, <3>3, <4>1 DEF EqualAssertion
        <4>3. \A i \in 1..Len(active) : active[i] <= t
          <5>1. CASE active = <<>> BY <5>1
          <5>2. CASE Len(active) > 0
            <6>1. t = active[Len(active)] BY <3>3, <5>2, EmptySeq DEF FoldStep
            <6>2. \A i \in 1..Len(active) : active[i] \in Nat BY <1>0, ElementOfSeq
            <6>3. \A i \in 1..Len(active) : i < Len(active) => active[i] < active[Len(active)]
              BY <1>0, <1>4, <5>2
            <6> QED BY <1>0, <1>1, <5>2, <6>1, <6>2, <6>3
          <5> QED BY <1>0, <5>1, <5>2, EmptySeq
        <4>4. Withdrawn(p)
          <5>1. ~Withdrawn(p) => \E i \in 1..Len(active) : active[i] = p
            BY <1>0, <1>5, <4>1, <4>2
          <5>2. t < p BY <1>0, <1>1, <3>3
          <5>3. \A i \in 1..Len(active) : active[i] # p BY <1>1, <4>1, <4>3, <5>2
          <5> QED BY <5>1, <5>3
        <4>5. PICK q \in 1..L : withdrawalTargets[q] = p BY <1>2, <4>4 DEF Withdrawn
        <4>6. p < q BY <1>8, <4>1, <4>5
        <4> QED BY <1>0, <2>3, <4>1, <4>5, <4>6 DEF WithdrawnBefore
      <3> QED BY <2>3, <3>1, <3>2, <3>3
    <2> QED BY <2>1, <2>2, <2>3, <1>0
  <1>12. LivenessIsDerived'
    <2> DEFINE Gone(p) == Withdrawn(p) \/ t = p
    <2> SUFFICES ASSUME NEW h \in Triple
                 PROVE  /\ \A i, j \in 1..Len(ActivePositions(h)') :
                             i < j => ActivePositions(h)'[i] < ActivePositions(h)'[j]
                        /\ \A i \in 1..Len(ActivePositions(h)') :
                             /\ ActivePositions(h)'[i] \in 1..(L + 1)
                             /\ operations'[ActivePositions(h)'[i]].action = "assert"
                             /\ operations'[ActivePositions(h)'[i]].handle = h
                             /\ ~Gone(ActivePositions(h)'[i])
                        /\ \A p \in 1..(L + 1) :
                             operations'[p].action = "assert" /\ operations'[p].handle = h /\ ~Gone(p)
                             => \E i \in 1..Len(ActivePositions(h)') : ActivePositions(h)'[i] = p
      BY <1>0, <1>2, <1>7 DEF LivenessIsDerived
    <2> DEFINE old == ActivePositions(h)
               new == ActivePositions(h)'
    <2>1. old \in Seq(Nat) /\ Len(old) \in Nat BY ActiveType
    <2>2. \A i \in 1..Len(old) :
            /\ old[i] \in 1..L
            /\ operations[old[i]].action = "assert"
            /\ operations[old[i]].handle = h
            /\ ~Withdrawn(old[i])
      BY <1>3
    <2>3. \A i, j \in 1..Len(old) : i < j => old[i] < old[j] BY <1>4
    <2>4. \A p \in 1..L :
            operations[p].action = "assert" /\ operations[p].handle = h /\ ~Withdrawn(p)
            => \E i \in 1..Len(old) : old[i] = p
      BY <1>5
    <2>5. \A i \in 1..Len(old) :
            /\ old[i] \in 1..(L + 1)
            /\ operations'[old[i]].action = "assert"
            /\ operations'[old[i]].handle = h
      BY <1>0, <2>2
    <2>6. CASE h # row.handle
      <3>1. new = old BY <2>6 DEF FoldStep
      <3>2. \A i \in 1..Len(old) : old[i] # t BY <1>0, <1>6, <2>2, <2>6
      <3>3. \A p \in 1..(L + 1) : operations'[p].handle = h => p \in 1..L
        BY <1>0, <2>6
      <3> HIDE DEF new, old
      <3>4. \A p \in 1..(L + 1) :
              operations'[p].action = "assert" /\ operations'[p].handle = h /\ ~Gone(p)
              => \E i \in 1..Len(old) : old[i] = p
        BY <2>4, <3>3
      <3> QED BY <2>2, <2>3, <2>5, <3>1, <3>2, <3>4 DEF new
    <2>7. CASE h = row.handle /\ row.action = "assert"
      <3>1. new = Append(old, L + 1) /\ t = 0 BY <2>7 DEF FoldStep
      <3> HIDE DEF new, old, L, t
      <3>2. /\ Len(new) = Len(old) + 1
            /\ \A i \in 1..Len(old) : new[i] = old[i]
            /\ new[Len(old) + 1] = L + 1
        BY <1>0, <2>1, <3>1, AppendProperties
      <3>a. \A i \in 1..Len(new) : i \in 1..Len(old) \/ i = Len(old) + 1 BY <2>1, <3>2
      <3>b. \A i \in 1..Len(old) : old[i] < L + 1 BY <1>0, <2>2
      <3>c. \A i, j \in 1..Len(new) : i < j => i \in 1..Len(old) BY <2>1, <3>2
      <3>3. \A i, j \in 1..Len(new) : i < j => new[i] < new[j]
        BY <2>3, <3>2, <3>a, <3>b, <3>c
      <3>4. operations'[L + 1] = row BY DEF L
      <3>5. \A i \in 1..Len(new) :
              /\ new[i] \in 1..(L + 1)
              /\ operations'[new[i]].action = "assert"
              /\ operations'[new[i]].handle = h
        BY <1>0, <2>5, <2>7, <3>2, <3>4, <3>a
      <3>6. ~Withdrawn(L + 1) /\ L + 1 # 0 BY <1>0, <1>9
      <3>7. \A i \in 1..Len(new) : ~Withdrawn(new[i])
        BY <2>2, <3>2, <3>6, <3>a
      <3>8. \A i \in 1..Len(new) : new[i] # t
        BY <1>0, <3>1, <3>5
      <3>9. \A p \in 1..(L + 1) :
              operations'[p].action = "assert" /\ operations'[p].handle = h /\ ~Gone(p)
              => \E i \in 1..Len(new) : new[i] = p
        <4> SUFFICES ASSUME NEW p \in 1..(L + 1), ~Withdrawn(p),
                            operations'[p].action = "assert", operations'[p].handle = h
                     PROVE  \E i \in 1..Len(new) : new[i] = p
          OBVIOUS
        <4>1. CASE p = L + 1 BY <2>1, <3>2, <4>1
        <4>2. CASE p \in 1..L
          <5>1. operations'[p] = operations[p] BY <4>2 DEF L
          <5>2. PICK i \in 1..Len(old) : old[i] = p BY <2>4, <4>2, <5>1
          <5>3. i \in 1..Len(new) /\ new[i] = p BY <2>1, <3>2, <5>2
          <5> QED BY <5>3
        <4> QED BY <1>0, <4>1, <4>2
      <3> QED BY <3>3, <3>5, <3>7, <3>8, <3>9 DEF new, L, t
    <2>8. CASE h = row.handle /\ row.action = "retract" /\ Len(old) = 0
      <3>1. active = <<>> BY <2>1, <2>8, EmptySeq
      <3>2. new = <<>> /\ t = 0 BY <2>8, <3>1 DEF FoldStep
      <3>3. \A p \in 1..(L + 1) :
              operations'[p].action = "assert" /\ operations'[p].handle = h /\ ~Gone(p)
              => FALSE
        BY <1>0, <2>4, <2>8
      <3> QED BY <3>2, <3>3
    <2>9. CASE h = row.handle /\ row.action = "retract" /\ Len(old) > 0
      <3>1. active # <<>> BY <2>1, <2>9
      <3>2. new = Pop(old) /\ t = old[Len(old)] BY <2>9, <3>1 DEF FoldStep
      <3> HIDE DEF new, old, L, t
      <3>3. /\ Len(new) = Len(old) - 1
            /\ \A i \in 1..Len(new) : new[i] = old[i]
        BY <2>1, <2>9, <3>2, PopType
      <3>4. 1..Len(new) \subseteq 1..Len(old) BY <2>1, <3>3
      <3>5. \A i, j \in 1..Len(new) : i < j => new[i] < new[j]
        BY <2>3, <3>3, <3>4
      <3>6. \A i \in 1..Len(new) :
              /\ new[i] \in 1..(L + 1)
              /\ operations'[new[i]].action = "assert"
              /\ operations'[new[i]].handle = h
              /\ ~Withdrawn(new[i])
        BY <2>2, <2>5, <3>3, <3>4
      <3>7. ASSUME NEW i \in 1..Len(new) PROVE new[i] # t
        <4>1. old[i] < old[Len(old)] BY <2>1, <2>3, <2>9, <3>3
        <4>2. old[i] \in 1..L /\ old[Len(old)] \in 1..L BY <2>1, <2>2, <2>9, <3>4
        <4> QED BY <1>0, <3>2, <3>3, <4>1, <4>2
      <3>8. ASSUME NEW p \in 1..(L + 1), ~Gone(p),
                   operations'[p].action = "assert", operations'[p].handle = h
            PROVE  \E i \in 1..Len(new) : new[i] = p
        <4>1. p \in 1..L /\ operations'[p] = operations[p] BY <1>0, <2>9, <3>8 DEF L
        <4>2. PICK i \in 1..Len(old) : old[i] = p BY <2>4, <3>8, <4>1
        <4>3. i # Len(old) BY <3>2, <3>8, <4>2
        <4>4. i \in 1..Len(new) BY <2>1, <3>3, <4>2, <4>3
        <4> QED BY <3>3, <4>2, <4>4
      <3> QED BY <3>5, <3>6, <3>7, <3>8 DEF new, L, t
    <2> QED BY <1>0, <2>1, <2>6, <2>7, <2>8, <2>9
  <1> QED BY <1>10, <1>11, <1>12

-----------------------------------------------------------------------------
\* A step that leaves the rows, the targets and every position list alone
\* keeps what was said about them, whatever representation it moves them to.
LEMMA FoldUnchanged ==
    ASSUME UNCHANGED <<operations, withdrawalTargets>>,
           \A h \in Triple : ActivePositions(h)' = ActivePositions(h),
           LivenessIsDerived, WithdrawsNewestLive, WithdrawnAtMostOnce
    PROVE  LivenessIsDerived' /\ WithdrawsNewestLive' /\ WithdrawnAtMostOnce'
  <1>1. LivenessIsDerived' BY DEF LivenessIsDerived, Folded, Withdrawn
  <1>2. WithdrawsNewestLive'
    BY DEF WithdrawsNewestLive, Folded, EqualAssertion, WithdrawnBefore
  <1>3. WithdrawnAtMostOnce' BY DEF WithdrawnAtMostOnce, Folded
  <1> QED BY <1>1, <1>2, <1>3

\* Nothing is live and nothing withdrawn before the first row is folded.
LEMMA NothingFolded ==
    ASSUME withdrawalTargets = <<>>,
           \A h \in Triple : ActivePositions(h) = <<>>
    PROVE  LivenessIsDerived /\ WithdrawsNewestLive /\ WithdrawnAtMostOnce
  <1>1. Folded = {} BY DEF Folded
  <1>2. LivenessIsDerived
    <2>1. ASSUME NEW h \in Triple PROVE 1..Len(ActivePositions(h)) = {}
      <3>1. ActivePositions(h) = <<>> OBVIOUS
      <3>2. Len(<<>>) = 0 OBVIOUS
      <3> QED BY <3>1, <3>2
    <2> QED BY <1>1, <2>1 DEF LivenessIsDerived
  <1>3. WithdrawsNewestLive BY <1>1 DEF WithdrawsNewestLive
  <1>4. WithdrawnAtMostOnce BY <1>1 DEF WithdrawnAtMostOnce
  <1> QED BY <1>2, <1>3, <1>4

\* The empty store satisfies the invariant.
LEMMA InitInv == Init => IInv
  <1> SUFFICES ASSUME Init PROVE IInv
    OBVIOUS
  <1>1. NoPositions \in [Triple -> Seq(Nat)] BY DEF NoPositions
  <1>2. TypeOK
    <2>1. /\ transactions \in Seq(TransactionRow)
          /\ operations \in Seq(OperationRow)
          /\ withdrawalTargets \in Seq(Nat)
          /\ pending \in Seq(CommitOperation)
      BY DEF Init
    <2>4. Len(withdrawalTargets) <= Len(operations) BY DEF Init
    <2>2. /\ nextSequence \in Nat \ {0}
          /\ mode \in {"idle", "append", "rebuild", "failed"}
      BY DEF Init
    <2>5. foldOpen \in BOOLEAN BY Zenon DEF Init
    <2>3. buckets \in [Triple -> Seq(Nat)] /\ cells \in [Triple -> Seq(Nat)]
      BY <1>1 DEF Init
    <2> QED BY <2>1, <2>2, <2>3, <2>4, <2>5 DEF TypeOK
  <1>3. Frame /\ Coordinates /\ Tiling /\ CoordinatesOrdered
    BY DEF Init, Frame, Coordinates, Tiling, CoordinatesOrdered
  <1>4. \A h \in Triple : ActivePositions(h) = <<>>
    BY DEF Init, ActivePositions, NoPositions
  <1>5. LivenessIsDerived /\ WithdrawsNewestLive /\ WithdrawnAtMostOnce
    BY <1>4, NothingFolded DEF Init
  <1> QED BY <1>2, <1>3, <1>5 DEF IInv

\* The head of an append: a transaction row and the operations it announces.
LEMMA BeginPreserves ==
    ASSUME IInv, NEW sequence \in Nat, sequence >= nextSequence,
           NEW ops \in Seq(CommitOperation), BeginTransaction(sequence, ops)
    PROVE  IInv'
  <1> DEFINE tx == [sequence       |-> sequence,
                    firstOperation |-> Len(operations) + 1,
                    operationCount |-> Len(ops)]
             n  == Len(transactions)
  <1>1. /\ transactions' = Append(transactions, tx)
        /\ pending' = ops
        /\ mode = "idle" /\ mode' = "append"
        /\ ops # <<>>
        /\ UNCHANGED <<nextSequence, operations, derived, dumped>>
    BY DEF BeginTransaction, ValidOperations
  <1>2. /\ n \in Nat /\ Len(operations) \in Nat
        /\ Len(ops) \in Nat /\ Len(ops) > 0
        /\ nextSequence \in Nat
        /\ transactions \in Seq(TransactionRow)
        /\ pending = <<>>
    BY <1>1, EmptySeq DEF IInv, TypeOK, Frame
  <1>3. tx \in TransactionRow BY <1>2 DEF TransactionRow
  <1> HIDE DEF tx
  <1>4. /\ transactions' \in Seq(TransactionRow)
        /\ Len(transactions') = n + 1
        /\ \A i \in 1..n : transactions'[i] = transactions[i]
        /\ transactions'[n + 1] = tx
        /\ transactions' # <<>>
        /\ LastTransaction' = tx
    BY <1>1, <1>2, <1>3, AppendProperties DEF LastTransaction
  <1>5. TypeOK' BY <1>1, <1>4 DEF IInv, TypeOK, derived
  <1>6. Frame' BY <1>1, <1>4 DEF IInv, Frame, derived
  <1>7. Coordinates'
    <2>1. \A p \in 1..Len(operations) : operations[p].txSequence < nextSequence
      BY <1>1 DEF IInv, Coordinates
    <2>2. \A p \in 1..Len(operations) : operations[p].txSequence \in Nat
      BY RowType DEF IInv
    <2>3. \A p \in 1..Len(operations) : operations[p].txSequence < sequence
      BY <1>2, <2>1, <2>2
    <2> QED BY <1>1, <1>4, <2>3 DEF Coordinates, tx
  <1>8. CoordinatesOrdered' BY <1>1 DEF IInv, CoordinatesOrdered
  <1>9. LivenessIsDerived' /\ WithdrawsNewestLive' /\ WithdrawnAtMostOnce'
    BY <1>1, KeepActive, FoldUnchanged DEF IInv, derived
  <1>10. Tiling'
    <2>0. /\ tx.firstOperation = Len(operations) + 1
          /\ tx.operationCount = Len(ops)
          /\ tx.sequence = sequence
      BY DEF tx
    <2>1. \A i \in 1..(n + 1) : i \in 1..n \/ i = n + 1 BY <1>2
    <2>2. /\ transactions # <<>> =>
                /\ n \in 1..n
                /\ transactions[n].firstOperation + transactions[n].operationCount = Len(operations) + 1
                /\ transactions[n].sequence < sequence
          /\ transactions = <<>> => n = 0 /\ Len(operations) = 0
      <3>1. CASE transactions = <<>> BY <3>1, EmptySeq DEF IInv, Tiling
      <3>2. CASE transactions # <<>>
        <4>1. n \in 1..n BY <1>2, <3>2, EmptySeq
        <4>2. LastTile /\ Len(pending) = 0
          BY <1>2, <3>2, EmptySeq DEF IInv, Tiling
        <4>3. /\ transactions[n].sequence \in Nat
              /\ transactions[n].firstOperation \in Nat
              /\ transactions[n].operationCount \in Nat
          BY <4>1, TransactionType DEF IInv
        <4>4. nextSequence = transactions[n].sequence + 1
          BY <1>1, <4>2 DEF LastTile, LastTransaction
        <4>5. transactions[n].firstOperation + transactions[n].operationCount - 1 = Len(operations)
          BY <1>2, <4>2 DEF LastTile, LastTransaction
        <4>6. transactions[n].firstOperation + transactions[n].operationCount = Len(operations) + 1
          BY <1>2, <4>3, <4>5
        <4>7. transactions[n].sequence < sequence BY <4>3, <4>4
        <4> QED BY <3>2, <4>1, <4>6, <4>7
      <3> QED BY <3>1, <3>2
    <2>3. \A i \in 1..(n + 1) : Tile(i)'
      <3>1. ASSUME NEW i \in 1..n PROVE Tile(i)'
        <4>1. Tile(i) BY DEF IInv, Tiling
        <4>2. i > 1 => i - 1 \in 1..n BY <1>2
        <4>3. Len(pending) = 0 BY <1>2, EmptySeq
        <4> QED BY <1>1, <1>2, <1>4, <4>1, <4>2, <4>3, TransactionType DEF IInv, Tile
      <3>2. ASSUME NEW i, i = n + 1 PROVE Tile(i)'
        <4>1. CASE transactions = <<>>
          <5>1. i = 1 /\ tx.firstOperation = 1 BY <1>2, <2>0, <2>2, <3>2, <4>1
          <5> QED BY <1>1, <1>2, <1>4, <2>0, <3>2, <5>1 DEF Tile
        <4>2. CASE transactions # <<>>
          <5>1. i - 1 = n /\ i # 1 BY <1>2, <2>2, <3>2, <4>2
          <5>2. transactions'[i - 1] = transactions[n] /\ transactions'[i] = tx
            BY <1>4, <2>2, <3>2, <4>2, <5>1
          <5> QED BY <1>1, <1>2, <2>0, <2>2, <4>2, <5>1, <5>2, TransactionType DEF Tile, IInv
        <4> QED BY <4>1, <4>2
      <3> QED BY <2>1, <3>1, <3>2
    <2>4. \A i \in 1..(n + 1) : \A p \in 1..Len(operations) : RowOf(i, p)'
      <3>1. ASSUME NEW i \in 1..n, NEW p \in 1..Len(operations) PROVE RowOf(i, p)'
        BY <1>1, <1>4 DEF IInv, Tiling, RowOf
      <3>2. ASSUME NEW p \in 1..Len(operations), NEW i, i = n + 1 PROVE RowOf(i, p)'
        BY <1>2, <1>4, <2>0, <3>2 DEF RowOf
      <3> QED BY <2>1, <3>1, <3>2
    <2>5. LastTile' BY <1>1, <1>2, <1>4, <2>0 DEF LastTile
    <2>6. \A i \in 1..(n + 1) : BeforeLast(i)'
      <3> SUFFICES ASSUME NEW i \in 1..n
                   PROVE  transactions[i].firstOperation + transactions[i].operationCount
                            <= Len(operations) + 1
        BY <1>2, <1>4, <2>0, <2>1 DEF BeforeLast
      <3>1. Tile(i) /\ Len(pending) = 0 BY <1>2, EmptySeq DEF IInv, Tiling
      <3>2. /\ transactions[i].firstOperation \in Nat
            /\ transactions[i].operationCount \in Nat
        BY TransactionType DEF IInv
      <3>3. transactions[i].firstOperation + transactions[i].operationCount - 1 <= Len(operations) + 0
        BY <3>1 DEF Tile
      <3> QED BY <1>2, <3>2, <3>3
    <2> QED BY <1>1, <1>4, <2>3, <2>4, <2>5, <2>6 DEF Tiling
  <1> QED BY <1>5, <1>6, <1>7, <1>8, <1>9, <1>10 DEF IInv

\* One iteration of the append loop.
LEMMA AppendPreserves ==
    ASSUME IInv, AppendOperation
    PROVE  IInv'
  <1> DEFINE m == Len(operations)
  <1>0. /\ mode = "append" /\ mode' = "append"
        /\ pending # <<>> /\ pending' = Tail(pending)
        /\ UNCHANGED <<nextSequence, transactions, foldOpen, dumped>>
    BY DEF AppendOperation
  <1>1. PICK row \in OperationRow :
          /\ operations' = Append(operations, row)
          /\ row.txSequence = LastTransaction.sequence
          /\ row.ordinal = LastTransaction.operationCount - Len(pending)
          /\ ApplyOperationState(Len(operations) + 1, row)
          /\ foldOpen' = foldOpen
          /\ operations' \in Seq(OperationRow)
          /\ Len(operations') = Len(operations) + 1
          /\ \A p \in 1..Len(operations) : operations'[p] = operations[p]
          /\ operations'[Len(operations) + 1] = row
    BY AppendRow DEF IInv
  <1>2. /\ m \in Nat
        /\ Len(pending) \in Nat /\ Len(pending) > 0
        /\ pending' \in Seq(CommitOperation)
        /\ Len(pending') = Len(pending) - 1
    BY <1>0, EmptySeq, HeadTailProperties DEF IInv, TypeOK
  <1>3. Len(withdrawalTargets) = m /\ transactions # <<>>
    BY <1>0 DEF IInv, Frame
  <1>4. ApplyOperationState(Len(withdrawalTargets) + 1, row) BY <1>1, <1>3
  <1>5. /\ withdrawalTargets' \in Seq(Nat)
        /\ Len(withdrawalTargets') = m + 1
        /\ \A i \in 1..Len(withdrawalTargets) : withdrawalTargets'[i] = withdrawalTargets[i]
        /\ buckets' \in [Triple -> Seq(Nat)]
        /\ cells' \in [Triple -> Seq(Nat)]
    BY <1>1, <1>2, <1>3, ApplyType DEF IInv
  <1>6. TypeOK' BY <1>0, <1>1, <1>2, <1>5 DEF IInv, TypeOK
  <1>7. FoldStep(row) BY <1>1, <1>4, ApplyIsFoldStep DEF IInv
  <1>8. LivenessIsDerived' /\ WithdrawsNewestLive' /\ WithdrawnAtMostOnce'
    BY <1>1, <1>3, <1>5, <1>6, <1>7, FoldPreserves DEF IInv
  <1>9. Frame' BY <1>0, <1>1, <1>3, <1>5 DEF IInv, Frame
  <1>10. /\ LastTransaction' = LastTransaction
         /\ LastTransaction.sequence \in Nat
         /\ LastTransaction.firstOperation \in Nat
         /\ LastTransaction.operationCount \in Nat
         /\ LastTile
    <2>1. Len(transactions) \in 1..Len(transactions)
      BY <1>3, EmptySeq DEF IInv, TypeOK
    <2> QED BY <1>0, <1>3, <2>1, TransactionType DEF IInv, LastTransaction, Tiling
  <1>11. \A p \in 1..m :
           \/ operations[p].txSequence < LastTransaction.sequence
           \/ /\ operations[p].txSequence = LastTransaction.sequence
              /\ operations[p].ordinal < LastTransaction.operationCount - Len(pending)
    BY <1>0 DEF IInv, Coordinates
  <1>12. \A p \in 1..(m + 1) : p \in 1..m \/ p = m + 1 BY <1>2
  <1>13. \A p \in 1..m : operations[p].txSequence \in Nat /\ operations[p].ordinal \in Nat
    BY RowType DEF IInv
  <1>14. Coordinates'
    <2>1. \A p \in 1..(m + 1) :
            \/ operations'[p].txSequence < LastTransaction.sequence
            \/ /\ operations'[p].txSequence = LastTransaction.sequence
               /\ operations'[p].ordinal < LastTransaction.operationCount - Len(pending')
      <3>1. ASSUME NEW p \in 1..m
            PROVE  operations[p].ordinal < LastTransaction.operationCount - Len(pending)
                   => operations[p].ordinal < LastTransaction.operationCount - Len(pending')
        BY <1>2, <1>10, <1>13
      <3>2. row.ordinal < LastTransaction.operationCount - Len(pending') BY <1>1, <1>2, <1>10
      <3> QED BY <1>1, <1>11, <1>12, <3>1, <3>2
    <2>2. LastTransaction.sequence >= nextSequence BY <1>0 DEF IInv, Coordinates
    <2> QED BY <1>0, <1>1, <1>10, <2>1, <2>2 DEF Coordinates
  <1>15. CoordinatesOrdered'
    <2> SUFFICES ASSUME NEW p \in 1..(m + 1), NEW q \in 1..(m + 1), p < q
                 PROVE  \/ operations'[p].txSequence < operations'[q].txSequence
                        \/ /\ operations'[p].txSequence = operations'[q].txSequence
                           /\ operations'[p].ordinal < operations'[q].ordinal
      BY <1>1 DEF CoordinatesOrdered
    <2>1. p \in 1..m BY <1>2
    <2>2. CASE q = m + 1 BY <1>1, <1>11, <2>1, <2>2
    <2>3. CASE q \in 1..m BY <1>1, <2>1, <2>3 DEF IInv, CoordinatesOrdered
    <2> QED BY <1>12, <2>2, <2>3
  <1>16. Tiling'
    <2>1. ASSUME NEW i \in 1..Len(transactions) PROVE Tile(i)'
      <3>1. Tile(i) BY DEF IInv, Tiling
      <3>2. Len(operations') + Len(pending') = Len(operations) + Len(pending)
        BY <1>1, <1>2
      <3> QED BY <1>0, <3>1, <3>2 DEF Tile
    <2>2. LastTile' BY <1>0, <1>1, <1>2, <1>10 DEF LastTile
    <2>3. ASSUME NEW i \in 1..Len(transactions), NEW p \in 1..(m + 1) PROVE RowOf(i, p)'
      <3>1. CASE p \in 1..m BY <1>0, <1>1, <3>1 DEF IInv, Tiling, RowOf
      <3>2. CASE p = m + 1 /\ i = Len(transactions)
        <4>1. operations'[p] = row BY <1>1, <3>2
        <4>2. transactions[i] = LastTransaction BY <3>2 DEF LastTransaction
        <4>3. p - LastTransaction.firstOperation = LastTransaction.operationCount - Len(pending)
          BY <1>2, <1>10, <3>2 DEF LastTile
        <4> QED BY <1>0, <1>1, <4>1, <4>2, <4>3 DEF RowOf
      <3>3. CASE p = m + 1 /\ i < Len(transactions)
        <4>1. transactions[i].firstOperation + transactions[i].operationCount
                <= LastTransaction.firstOperation
          BY <3>3 DEF IInv, Tiling, BeforeLast
        <4>2. LastTransaction.firstOperation <= m + 1 BY <1>2, <1>10 DEF LastTile
        <4>3. /\ transactions[i].firstOperation \in Nat
              /\ transactions[i].operationCount \in Nat
          BY TransactionType DEF IInv
        <4>4. ~(p < transactions[i].firstOperation + transactions[i].operationCount)
          BY <1>2, <1>10, <3>3, <4>1, <4>2, <4>3
        <4> QED BY <1>0, <4>4 DEF RowOf
      <3>4. Len(transactions) \in Nat BY DEF IInv, TypeOK
      <3>5. i = Len(transactions) \/ i < Len(transactions) BY <3>4
      <3> QED BY <1>12, <3>1, <3>2, <3>3, <3>5
    <2>4. ASSUME NEW i \in 1..Len(transactions) PROVE BeforeLast(i)'
      BY <1>0, <1>10 DEF IInv, Tiling, BeforeLast
    <2> QED BY <1>0, <1>1, <1>3, <2>1, <2>2, <2>3, <2>4 DEF Tiling
  <1> QED BY <1>6, <1>8, <1>9, <1>14, <1>15, <1>16 DEF IInv

\* Steps that change only the sequence and the mode.
LEMMA FinishPreserves ==
    ASSUME IInv, FinishTransaction \/ OverflowTransaction
    PROVE  IInv'
  <1>1. /\ mode = "append" /\ pending = <<>>
        /\ UNCHANGED <<transactions, operations, derived, pending, dumped>>
        /\ \/ mode' = "idle" /\ nextSequence' = LastTransaction.sequence + 1
           \/ mode' = "failed" /\ nextSequence' = nextSequence
    BY DEF FinishTransaction, OverflowTransaction, LastTransaction, history, derived
  <1>2. /\ transactions # <<>>
        /\ LastTransaction' = LastTransaction
        /\ LastTransaction.sequence \in Nat
        /\ nextSequence \in Nat
        /\ Len(pending) = 0
    <2>1. transactions # <<>> BY <1>1 DEF IInv, Frame
    <2>2. Len(transactions) \in 1..Len(transactions)
      BY <2>1, EmptySeq DEF IInv, TypeOK
    <2> QED BY <1>1, <2>1, <2>2, EmptySeq, TransactionType DEF IInv, LastTransaction, TypeOK
  <1>3. TypeOK'
    <2>1. nextSequence' \in Nat \ {0} BY <1>1, <1>2 DEF IInv, TypeOK
    <2>2. mode' \in {"idle", "append", "rebuild", "failed"} BY <1>1
    <2> QED BY <1>1, <2>1, <2>2 DEF IInv, TypeOK, derived
  <1>4. Frame' BY <1>1, <1>2 DEF IInv, Frame, derived
  <1>5. Coordinates'
    <2>1. /\ LastTransaction.sequence >= nextSequence
          /\ \A p \in 1..Len(operations) :
              \/ operations[p].txSequence < LastTransaction.sequence
              \/ /\ operations[p].txSequence = LastTransaction.sequence
                 /\ operations[p].ordinal < LastTransaction.operationCount - Len(pending)
      BY <1>1 DEF IInv, Coordinates
    <2>2. \A p \in 1..Len(operations) : operations[p].txSequence \in Nat
      BY RowType DEF IInv
    <2>3. \A p \in 1..Len(operations) : operations[p].txSequence < LastTransaction.sequence + 1
      BY <1>2, <2>1, <2>2
    <2>4. CASE mode' = "idle" BY <1>1, <2>3, <2>4 DEF Coordinates
    <2>5. CASE mode' = "failed" BY <1>1, <1>2, <2>1, <2>5 DEF Coordinates
    <2> QED BY <1>1, <2>4, <2>5
  <1>6. Tiling'
    <2>1. \A i \in 1..Len(transactions) : Tile(i)' /\ BeforeLast(i)'
      BY <1>1, <1>2 DEF IInv, Tiling, Tile, BeforeLast
    <2>2. \A i \in 1..Len(transactions) : \A p \in 1..Len(operations) : RowOf(i, p)'
      BY <1>1 DEF IInv, Tiling, RowOf
    <2>3. LastTile' BY <1>1, <1>2 DEF IInv, Tiling, LastTile
    <2> QED BY <1>1, <1>2, <2>1, <2>2, <2>3 DEF Tiling
  <1>7. CoordinatesOrdered' BY <1>1 DEF IInv, CoordinatesOrdered
  <1>8. LivenessIsDerived' /\ WithdrawsNewestLive' /\ WithdrawnAtMostOnce'
    BY <1>1, KeepActive, FoldUnchanged DEF IInv, derived
  <1> QED BY <1>3, <1>4, <1>5, <1>6, <1>7, <1>8 DEF IInv

\* The parts of the invariant that do not depend on the folded state.
LEMMA RowsUnchanged ==
    ASSUME IInv, UNCHANGED <<history, pending>>,
           mode \in {"idle", "rebuild"}, mode' \in {"idle", "rebuild"}
    PROVE  Coordinates' /\ Tiling' /\ CoordinatesOrdered'
  <1>1. UNCHANGED <<nextSequence, transactions, operations, pending>> BY DEF history
  <1>2. LastTransaction' = LastTransaction BY <1>1 DEF LastTransaction
  <1>3. Coordinates' BY <1>1 DEF IInv, Coordinates
  <1>4. CoordinatesOrdered' BY <1>1 DEF IInv, CoordinatesOrdered
  <1>5. Tiling'
    <2>1. \A i \in 1..Len(transactions) : Tile(i)' /\ BeforeLast(i)'
      BY <1>1, <1>2 DEF IInv, Tiling, Tile, BeforeLast
    <2>2. \A i \in 1..Len(transactions) : \A p \in 1..Len(operations) : RowOf(i, p)'
      BY <1>1 DEF IInv, Tiling, RowOf
    <2>3. transactions # <<>> => LastTile' BY <1>1, <1>2 DEF IInv, Tiling, LastTile
    <2> QED BY <1>1, <2>1, <2>2, <2>3 DEF IInv, Tiling
  <1> QED BY <1>3, <1>4, <1>5

\* Positions move between buckets and cells; nothing else changes.
LEMMA FoldSwitchPreserves ==
    ASSUME IInv, OpenFold \/ CloseFold \/ FinishRebuild
    PROVE  IInv'
  <1>1. /\ UNCHANGED <<history, withdrawalTargets, pending, dumped>>
        /\ mode \in {"idle", "rebuild"} /\ mode' = "idle"
        /\ mode = "rebuild" => Len(withdrawalTargets) = Len(operations)
        /\ \/ ~foldOpen /\ foldOpen' = TRUE /\ cells' = buckets /\ buckets' = NoPositions
           \/ foldOpen /\ foldOpen' = FALSE /\ buckets' = cells /\ cells' = NoPositions
    BY DEF IInv, Frame, OpenFold, CloseFold, FinishRebuild
  <1>2. NoPositions \in [Triple -> Seq(Nat)] BY DEF NoPositions
  <1>3. foldOpen' \in BOOLEAN BY <1>1, Zenon
  <1>4. TypeOK' BY <1>1, <1>2, <1>3 DEF IInv, TypeOK, history
  <1>5. Frame' BY <1>1 DEF IInv, Frame, history
  <1>6. \A h \in Triple : ActivePositions(h)' = ActivePositions(h)
    BY <1>1 DEF ActivePositions
  <1>7. LivenessIsDerived' /\ WithdrawsNewestLive' /\ WithdrawnAtMostOnce'
    BY <1>1, <1>6, FoldUnchanged DEF IInv, history
  <1> QED BY <1>1, <1>4, <1>5, <1>7, RowsUnchanged DEF IInv

\* A load starts the fold again from no row.
LEMMA LoadPreserves ==
    ASSUME IInv, LoadDump
    PROVE  IInv'
  <1>1. /\ UNCHANGED <<history, pending>>
        /\ mode = "idle" /\ mode' = "rebuild" /\ foldOpen' = TRUE
        /\ withdrawalTargets' = <<>>
        /\ buckets' = NoPositions /\ cells' = NoPositions
    BY DEF LoadDump
  <1>2. NoPositions \in [Triple -> Seq(Nat)] BY DEF NoPositions
  <1>3. foldOpen' \in BOOLEAN BY <1>1, Zenon
  <1>4. withdrawalTargets' \in Seq(Nat) /\ Len(withdrawalTargets') = 0 BY <1>1, EmptySeq
  <1>5. TypeOK' BY <1>1, <1>2, <1>3, <1>4 DEF IInv, TypeOK, history
  <1>6. Frame' BY <1>1 DEF IInv, Frame
  <1>7. \A h \in Triple : ActivePositions(h)' = <<>>
    BY <1>1 DEF ActivePositions, NoPositions
  <1>8. LivenessIsDerived' /\ WithdrawsNewestLive' /\ WithdrawnAtMostOnce'
    <2>1. Folded' = {} BY <1>1 DEF Folded
    <2>2. LivenessIsDerived'
      <3>1. \A h \in Triple : 1..Len(ActivePositions(h)') = {} BY <1>7
      <3> QED BY <2>1, <3>1 DEF LivenessIsDerived
    <2>3. WithdrawsNewestLive' BY <2>1 DEF WithdrawsNewestLive
    <2>4. WithdrawnAtMostOnce' BY <2>1 DEF WithdrawnAtMostOnce
    <2> QED BY <2>2, <2>3, <2>4
  <1> QED BY <1>1, <1>5, <1>6, <1>8, RowsUnchanged DEF IInv

\* One iteration of the refold.
LEMMA RebuildPreserves ==
    ASSUME IInv, RebuildOperation
    PROVE  IInv'
  <1> DEFINE L == Len(withdrawalTargets)
             row == operations[L + 1]
  <1>1. /\ UNCHANGED <<history, foldOpen, mode, pending, dumped>>
        /\ mode = "rebuild"
        /\ L < Len(operations)
        /\ ApplyOperationState(L + 1, row)
    BY DEF RebuildOperation
  <1>2. /\ L \in Nat /\ Len(operations) \in Nat
        /\ L + 1 \in 1..Len(operations)
    BY <1>1 DEF IInv, TypeOK
  <1>3. row \in OperationRow BY <1>2, RowType DEF IInv
  <1> HIDE DEF row
  <1>4. /\ withdrawalTargets' \in Seq(Nat)
        /\ Len(withdrawalTargets') = L + 1
        /\ \A i \in 1..L : withdrawalTargets'[i] = withdrawalTargets[i]
        /\ buckets' \in [Triple -> Seq(Nat)]
        /\ cells' \in [Triple -> Seq(Nat)]
    BY <1>1, <1>2, <1>3, ApplyType DEF IInv
  <1>5. TypeOK' BY <1>1, <1>2, <1>4 DEF IInv, TypeOK, history
  <1>6. Frame' BY <1>1 DEF IInv, Frame
  <1>7. FoldStep(row) BY <1>1, <1>3, ApplyIsFoldStep DEF IInv
  <1>8. operations' = operations /\ operations'[L + 1] = row BY <1>1 DEF history, row
  <1>9. LivenessIsDerived' /\ WithdrawsNewestLive' /\ WithdrawnAtMostOnce'
    BY <1>3, <1>4, <1>5, <1>7, <1>8, FoldPreserves DEF IInv
  <1> QED BY <1>1, <1>5, <1>6, <1>9, RowsUnchanged DEF IInv

-----------------------------------------------------------------------------
\* Every operation of the store preserves the invariant.
LEMMA NextPreserves == IInv /\ [Next]_vars => IInv'
  <1> SUFFICES ASSUME IInv, [Next]_vars PROVE IInv'
    OBVIOUS
  <1> USE StoreAssumption
  <1>1. ASSUME NEW n \in 1..MaxOperations, NEW ops \in [1..n -> CommitOperation],
               \/ CommitTransaction(ops)
               \/ \E sequence \in 0..MaxSequence : ReplayTransaction(sequence, ops)
        PROVE  IInv'
    <2>1. ops \in Seq(CommitOperation) OBVIOUS
    <2>2. nextSequence \in Nat BY DEF IInv, TypeOK
    <2>3. CASE CommitTransaction(ops)
      BY <2>1, <2>2, <2>3, BeginPreserves DEF CommitTransaction
    <2>4. ASSUME NEW sequence \in 0..MaxSequence, ReplayTransaction(sequence, ops)
          PROVE  IInv'
      BY <2>1, <2>4, BeginPreserves DEF ReplayTransaction
    <2> QED BY <1>1, <2>3, <2>4
  <1>2. CASE AppendOperation BY <1>2, AppendPreserves
  <1>3. CASE FinishTransaction \/ OverflowTransaction BY <1>3, FinishPreserves
  <1>4. CASE OpenFold \/ CloseFold \/ FinishRebuild BY <1>4, FoldSwitchPreserves
  <1>5. CASE LoadDump BY <1>5, LoadPreserves
  <1>6. CASE RebuildOperation BY <1>6, RebuildPreserves
  <1>7. CASE UNCHANGED vars
    <2>1. /\ UNCHANGED <<nextSequence, transactions, operations, mode, pending>>
          /\ UNCHANGED <<withdrawalTargets, buckets, cells, foldOpen>>
      BY <1>7 DEF vars, history, derived
    <2>2. TypeOK' BY <2>1 DEF IInv, TypeOK
    <2>3. Frame' BY <2>1 DEF IInv, Frame
    <2>4. Coordinates' BY <2>1 DEF IInv, Coordinates, LastTransaction
    <2>5. Tiling'
      BY <2>1 DEF IInv, Tiling, Tile, RowOf, BeforeLast, LastTile, LastTransaction
    <2>6. CoordinatesOrdered' BY <2>1 DEF IInv, CoordinatesOrdered
    <2>7. LivenessIsDerived' /\ WithdrawsNewestLive' /\ WithdrawnAtMostOnce'
      BY <2>1, KeepActive, FoldUnchanged DEF IInv
    <2> QED BY <2>2, <2>3, <2>4, <2>5, <2>6, <2>7 DEF IInv
  <1> QED BY <1>1, <1>2, <1>3, <1>4, <1>5, <1>6, <1>7 DEF Next

\* The induction: the invariant holds of every state of store.bgl's history.
THEOREM StoreInvariant == Spec => []IInv
  BY InitInv, NextPreserves, PTL DEF Spec

\* Rows, positions and modes always have the shapes their records declare.
THEOREM StoreTypes == Spec => []TypeOK
  <1>1. IInv => TypeOK BY DEF IInv
  <1> QED BY <1>1, StoreInvariant, PTL

\* operation-live?: a position list is always exactly the live assertions of
\* its proposition, with the fold open, closed or half way through a refold.
THEOREM LivenessTheorem == Spec => []LivenessIsDerived
  <1>1. IInv => LivenessIsDerived BY DEF IInv
  <1> QED BY <1>1, StoreInvariant, PTL

\* apply-operation-state!: a retraction withdraws exactly the newest live
\* equal assertion, or there is none.
THEOREM WithdrawalTheorem == Spec => []WithdrawsNewestLive
  <1>1. IInv => WithdrawsNewestLive BY DEF IInv
  <1> QED BY <1>1, StoreInvariant, PTL

\* No assertion occurrence is withdrawn twice.
THEOREM WithdrawnOnceTheorem == Spec => []WithdrawnAtMostOnce
  <1>1. IInv => WithdrawnAtMostOnce BY DEF IInv
  <1> QED BY <1>1, StoreInvariant, PTL

\* append-valid-transaction!: coordinates order the occurrences as the
\* history does.
THEOREM CoordinateTheorem == Spec => []CoordinatesOrdered
  <1>1. IInv => CoordinatesOrdered BY DEF IInv
  <1> QED BY <1>1, StoreInvariant, PTL

\* valid-history-rows?: a store at rest passes its own validation.
THEOREM DumpTheorem == Spec => []DumpAlwaysLoads
  <1>1. ASSUME IInv, mode = "idle" PROVE ValidHistoryRows
    <2>1. /\ pending = <<>> /\ Len(pending) = 0
          /\ Len(operations) \in Nat /\ Len(transactions) \in Nat
      BY <1>1, EmptySeq DEF IInv, Frame, TypeOK
    <2>2. ASSUME NEW i \in 1..Len(transactions)
          PROVE  LET tx == transactions[i] IN
                 /\ tx.sequence > IF i = 1 THEN -1 ELSE transactions[i - 1].sequence
                 /\ tx.firstOperation =
                      IF i = 1 THEN 1
                      ELSE transactions[i - 1].firstOperation + transactions[i - 1].operationCount
                 /\ tx.operationCount > 0
                 /\ tx.firstOperation + tx.operationCount - 1 <= Len(operations)
      <3>1. Tile(i) BY <1>1 DEF IInv, Tiling
      <3>2. /\ transactions[i].sequence \in Nat
            /\ transactions[i].firstOperation \in Nat
            /\ transactions[i].operationCount \in Nat
        BY <1>1, TransactionType DEF IInv
      <3>3. i = 1 \/ i > 1 BY <2>1
      <3> QED BY <2>1, <3>1, <3>2, <3>3 DEF Tile
    <2>3. ASSUME NEW i \in 1..Len(transactions),
                 NEW p \in transactions[i].firstOperation
                            ..(transactions[i].firstOperation + transactions[i].operationCount - 1)
          PROVE  /\ operations[p].txSequence = transactions[i].sequence
                 /\ operations[p].ordinal = p - transactions[i].firstOperation
      <3>1. /\ transactions[i].firstOperation \in Nat
            /\ transactions[i].operationCount \in Nat
        BY <1>1, TransactionType DEF IInv
      <3>2. transactions[i].firstOperation + transactions[i].operationCount - 1 <= Len(operations)
        BY <2>2
      <3>3. transactions[i].firstOperation >= 1 BY <1>1, TileStart DEF IInv
      <3>4. p \in 1..Len(operations) BY <2>1, <3>1, <3>2, <3>3
      <3>5. RowOf(i, p) BY <1>1, <3>4 DEF IInv, Tiling
      <3> QED BY <3>1, <3>5 DEF RowOf
    <2>4. CASE transactions = <<>>
      BY <1>1, <2>2, <2>3, <2>4 DEF IInv, Tiling, ValidHistoryRows
    <2>5. CASE transactions # <<>>
      <3>1. LastTile BY <1>1, <2>5 DEF IInv, Tiling
      <3>2. /\ LastTransaction.firstOperation + LastTransaction.operationCount - 1 = Len(operations)
            /\ nextSequence = LastTransaction.sequence + 1
        BY <1>1, <2>1, <3>1 DEF LastTile
      <3> QED BY <2>2, <2>3, <2>5, <3>2 DEF ValidHistoryRows, LastTransaction
    <2> QED BY <2>4, <2>5
  <1>2. IInv => DumpAlwaysLoads BY <1>1 DEF DumpAlwaysLoads
  <1> QED BY <1>2, StoreInvariant, PTL
=============================================================================
