----------------------------- MODULE TermStore -----------------------------
(***************************************************************************)
(* One TermStore of src/fram/store.bgl: the ordered history of signed      *)
(* operations and the liveness state folded from it.                       *)
(*                                                                         *)
(* A proposition is interned before it reaches an operation row, so a row  *)
(* carries a handle; equal handles are equal propositions, and Triple is   *)
(* the set of handles.  Row vectors are sequences.  Positions are counted  *)
(* from 1, so the code's withdrawal target -1 ("none") is 0 here.          *)
(*                                                                         *)
(* The loops of append-valid-transaction! and rebuild-operation-state! are *)
(* one step per iteration: `mode' says which loop is running.  A store has *)
(* one owner while a loop runs, so no other operation is enabled then.     *)
(***************************************************************************)
EXTENDS Integers, Sequences

CONSTANTS Triple,       \* handles of the propositions in use
          MaxSequence,  \* max-transaction-sequence
          MaxOperations \* bound on the length of the history explored

ASSUME StoreAssumption ==
    /\ Triple # {}
    /\ MaxSequence \in Nat
    /\ MaxOperations \in Nat

VARIABLES
    nextSequence,       \* next-sequence
    transactions,       \* TransactionRow vector
    operations,         \* OperationRow vector
    withdrawalTargets,  \* one target per folded operation, 0 for none
    buckets,            \* ActiveBucket positions per handle (fold closed)
    cells,              \* active cell positions per handle (fold open)
    foldOpen,           \* fold-open
    mode,               \* "idle", "append", "rebuild" or "failed"
    pending,            \* operations the append loop has still to apply
    dumped              \* derived state of the store whose dump is loaded

history == <<nextSequence, transactions, operations>>
derived == <<withdrawalTargets, buckets, cells, foldOpen>>
vars == <<history, derived, mode, pending, dumped>>

Action == {"assert", "retract"}
CommitOperation == [action : Action, handle : Triple]
OperationRow == [txSequence : Nat, ordinal : Nat, action : Action, handle : Triple]
TransactionRow == [sequence : Nat, firstOperation : Nat, operationCount : Nat]

NoPositions == [h \in Triple |-> <<>>]

-----------------------------------------------------------------------------
\* active-positions: the live positions of a handle, oldest first.
ActivePositions(h) == IF foldOpen THEN cells[h] ELSE buckets[h]

\* set-active-positions!
SetActivePositions(h, positions) ==
    IF foldOpen
    THEN /\ cells' = [cells EXCEPT ![h] = positions]
         /\ UNCHANGED buckets
    ELSE /\ buckets' = [buckets EXCEPT ![h] = positions]
         /\ UNCHANGED cells

\* Mutant of pop: it takes the oldest position off.
PopOldest(s) == Tail(s)
Pop(s) == SubSeq(s, 1, Len(s) - 1)

\* Mutant: a retraction withdraws the oldest live equal assertion.
ApplyToOldest(position, row) ==
    LET active == ActivePositions(row.handle)
        hit    == row.action = "retract" /\ active # <<>>
    IN  /\ withdrawalTargets' = Append(withdrawalTargets, IF hit THEN active[1] ELSE 0)
        /\ SetActivePositions(row.handle,
              IF row.action = "assert" THEN Append(active, position)
              ELSE IF hit THEN Tail(active) ELSE active)

\* apply-operation-state!: an assertion becomes live, a retraction withdraws
\* the newest live equal assertion if there is one.
ApplyOperationState(position, row) ==
    LET active == ActivePositions(row.handle) IN
    \/ /\ row.action = "assert"
       /\ withdrawalTargets' = Append(withdrawalTargets, 0)
       /\ SetActivePositions(row.handle, Append(active, position))
    \/ /\ row.action = "retract"
       /\ active = <<>>
       /\ withdrawalTargets' = Append(withdrawalTargets, 0)
       /\ UNCHANGED <<buckets, cells>>
    \/ /\ row.action = "retract"
       /\ active # <<>>
       /\ withdrawalTargets' = Append(withdrawalTargets, active[Len(active)])
       /\ SetActivePositions(row.handle, Pop(active))

-----------------------------------------------------------------------------
\* new-term-store-sized
Init ==
    /\ nextSequence = 1
    /\ transactions = <<>>
    /\ operations = <<>>
    /\ withdrawalTargets = <<>>
    /\ buckets = NoPositions
    /\ cells = NoPositions
    /\ foldOpen = FALSE
    /\ mode = "idle"
    /\ pending = <<>>
    /\ dumped = <<>>

\* valid-operations?
ValidOperations(ops) == ops # <<>> /\ ops \in Seq(CommitOperation)

\* The head of append-valid-transaction!: the transaction row goes in first.
BeginTransaction(sequence, ops) ==
    /\ mode = "idle"
    /\ ValidOperations(ops)
    /\ Len(operations) + Len(ops) <= MaxOperations
    /\ transactions' = Append(transactions,
                              [sequence       |-> sequence,
                               firstOperation |-> Len(operations) + 1,
                               operationCount |-> Len(ops)])
    /\ pending' = ops
    /\ mode' = "append"
    /\ UNCHANGED <<nextSequence, operations, derived, dumped>>

\* commit-transaction!: the store chooses the sequence.  Unlike the replay
\* path, nothing here compares it with the maximum.
CommitTransaction(ops) == BeginTransaction(nextSequence, ops)

\* replay-transaction-result!: the frame carries its sequence, which must
\* advance but may skip; a sequence past the maximum is refused.
ReplayTransaction(sequence, ops) ==
    /\ sequence >= nextSequence
    /\ sequence <= MaxSequence
    /\ BeginTransaction(sequence, ops)

\* One iteration of the append loop.
AppendOperation ==
    /\ mode = "append"
    /\ pending # <<>>
    /\ LET tx  == transactions[Len(transactions)]
           row == [txSequence |-> tx.sequence,
                   ordinal    |-> tx.operationCount - Len(pending),
                   action     |-> Head(pending).action,
                   handle     |-> Head(pending).handle]
       IN  /\ operations' = Append(operations, row)
           /\ ApplyOperationState(Len(operations) + 1, row)
    /\ pending' = Tail(pending)
    /\ UNCHANGED <<nextSequence, transactions, foldOpen, mode, dumped>>

\* The end of append-valid-transaction!: (inc sequence).
FinishTransaction ==
    /\ mode = "append"
    /\ pending = <<>>
    /\ transactions[Len(transactions)].sequence <= MaxSequence
    /\ nextSequence' = transactions[Len(transactions)].sequence + 1
    /\ mode' = "idle"
    /\ UNCHANGED <<transactions, operations, derived, pending, dumped>>

\* MaxSequence + 1 is the largest integer, so inc throws after the rows are in:
\* the store is left for its owner to discard.
OverflowTransaction ==
    /\ mode = "append"
    /\ pending = <<>>
    /\ transactions[Len(transactions)].sequence > MaxSequence
    /\ mode' = "failed"
    /\ UNCHANGED <<history, derived, pending, dumped>>

\* open-fold!: positions move from the buckets into cells.
OpenFold ==
    /\ mode = "idle"
    /\ ~foldOpen
    /\ cells' = buckets
    /\ buckets' = NoPositions
    /\ foldOpen' = TRUE
    /\ UNCHANGED <<history, withdrawalTargets, mode, pending, dumped>>

\* close-fold!: positions move back.
CloseFold ==
    /\ mode = "idle"
    /\ foldOpen
    /\ buckets' = cells
    /\ cells' = NoPositions
    /\ foldOpen' = FALSE
    /\ UNCHANGED <<history, withdrawalTargets, mode, pending, dumped>>

-----------------------------------------------------------------------------
\* valid-history-rows?: the transaction rows tile the operation rows, the
\* sequences rise and next-sequence follows the last one.
ValidHistoryRows ==
    /\ \A i \in 1..Len(transactions) :
         LET tx == transactions[i] IN
         /\ tx.sequence > IF i = 1 THEN -1 ELSE transactions[i - 1].sequence
         /\ tx.firstOperation =
              IF i = 1 THEN 1
              ELSE transactions[i - 1].firstOperation + transactions[i - 1].operationCount
         /\ tx.operationCount > 0
         /\ tx.firstOperation + tx.operationCount - 1 <= Len(operations)
         /\ \A p \in tx.firstOperation..(tx.firstOperation + tx.operationCount - 1) :
              /\ operations[p].txSequence = tx.sequence
              /\ operations[p].ordinal = p - tx.firstOperation
    /\ IF transactions = <<>>
       THEN operations = <<>> /\ nextSequence = 1
       ELSE LET last == transactions[Len(transactions)] IN
            /\ last.firstOperation + last.operationCount - 1 = Len(operations)
            /\ nextSequence = last.sequence + 1

\* dump-term-store followed by load-term-store-result!: only the rows of an
\* accepted dump are loaded, and rebuild-operation-state! refolds the rest.
\* Fold-open or not, the dump is the same rows.
LoadDump ==
    /\ mode = "idle"
    /\ ValidHistoryRows
    /\ dumped' = [targets |-> withdrawalTargets,
                  active  |-> [h \in Triple |-> ActivePositions(h)]]
    /\ withdrawalTargets' = <<>>
    /\ buckets' = NoPositions
    /\ cells' = NoPositions
    /\ foldOpen' = TRUE
    /\ mode' = "rebuild"
    /\ UNCHANGED <<history, pending>>

\* One iteration of rebuild-operation-state!.
RebuildOperation ==
    /\ mode = "rebuild"
    /\ Len(withdrawalTargets) < Len(operations)
    /\ LET position == Len(withdrawalTargets) + 1 IN
       ApplyOperationState(position, operations[position])
    /\ UNCHANGED <<history, foldOpen, mode, pending, dumped>>

\* Mutant: the refold stops one operation early.
FinishRebuildEarly ==
    /\ mode = "rebuild"
    /\ Len(withdrawalTargets) + 1 >= Len(operations)
    /\ buckets' = cells
    /\ cells' = NoPositions
    /\ foldOpen' = FALSE
    /\ mode' = "idle"
    /\ UNCHANGED <<history, withdrawalTargets, pending, dumped>>

\* rebuild-operation-state! ends by closing the fold it opened.
FinishRebuild ==
    /\ mode = "rebuild"
    /\ Len(withdrawalTargets) = Len(operations)
    /\ buckets' = cells
    /\ cells' = NoPositions
    /\ foldOpen' = FALSE
    /\ mode' = "idle"
    /\ UNCHANGED <<history, withdrawalTargets, pending, dumped>>

Next ==
    \/ \E n \in 1..MaxOperations : \E ops \in [1..n -> CommitOperation] :
         \/ CommitTransaction(ops)
         \/ \E sequence \in 0..MaxSequence : ReplayTransaction(sequence, ops)
    \/ AppendOperation
    \/ FinishTransaction
    \/ OverflowTransaction
    \/ OpenFold
    \/ CloseFold
    \/ LoadDump
    \/ RebuildOperation
    \/ FinishRebuild

Spec == Init /\ [][Next]_vars

-----------------------------------------------------------------------------
\* The folded prefix of the history: all of it, except while a load refolds.
Folded == 1..Len(withdrawalTargets)

Withdrawn(p) == \E r \in Folded : withdrawalTargets[r] = p

\* Position p was withdrawn by a retraction before position r.
WithdrawnBefore(p, r) == \E s \in (p + 1)..(r - 1) : withdrawalTargets[s] = p

EqualAssertion(p, r) ==
    /\ operations[p].action = "assert"
    /\ operations[p].handle = operations[r].handle

\* Types: rows, positions and modes have the shapes the records declare.
TypeOK ==
    /\ nextSequence \in Nat \ {0}
    /\ transactions \in Seq(TransactionRow)
    /\ operations \in Seq(OperationRow)
    /\ withdrawalTargets \in Seq(Nat)
    /\ Len(withdrawalTargets) <= Len(operations)
    /\ buckets \in [Triple -> Seq(Nat)]
    /\ cells \in [Triple -> Seq(Nat)]
    /\ foldOpen \in BOOLEAN
    /\ mode \in {"idle", "append", "rebuild", "failed"}
    /\ pending \in Seq(CommitOperation)

\* operation-live? and its comment ("operation p is live exactly when it
\* asserts and no later operation withdraws it"): the position list of every
\* handle is the ascending list of exactly its live assertions, whether the
\* fold is open or closed and also half way through a refold.
LivenessIsDerived ==
    \A h \in Triple :
        LET active == ActivePositions(h) IN
        /\ \A i, j \in 1..Len(active) : i < j => active[i] < active[j]
        /\ \A i \in 1..Len(active) :
             /\ active[i] \in Folded
             /\ operations[active[i]].action = "assert"
             /\ operations[active[i]].handle = h
             /\ ~Withdrawn(active[i])
        /\ \A p \in Folded :
             (/\ operations[p].action = "assert"
              /\ operations[p].handle = h
              /\ ~Withdrawn(p))
             => \E i \in 1..Len(active) : active[i] = p

\* docs/guarantees.md, write semantics: a successful retraction withdraws
\* exactly the newest live equal assertion, and a retraction without effect
\* had no live equal assertion to withdraw.
WithdrawsNewestLive ==
    \A r \in Folded :
        LET t == withdrawalTargets[r] IN
        /\ operations[r].action = "assert" => t = 0
        /\ t # 0 => /\ t < r
                    /\ operations[r].action = "retract"
                    /\ EqualAssertion(t, r)
        /\ operations[r].action = "retract" =>
             \A p \in (t + 1)..(r - 1) : EqualAssertion(p, r) => WithdrawnBefore(p, r)

\* One assertion occurrence is withdrawn at most once.
WithdrawnAtMostOnce ==
    \A r, s \in Folded :
        withdrawalTargets[r] # 0 /\ withdrawalTargets[r] = withdrawalTargets[s] => r = s

\* O1: sequence and ordinal order the occurrences exactly as the history does,
\* so no two occurrences share a coordinate.
CoordinatesOrdered ==
    \A p, q \in 1..Len(operations) :
        p < q => \/ operations[p].txSequence < operations[q].txSequence
                 \/ /\ operations[p].txSequence = operations[q].txSequence
                    /\ operations[p].ordinal < operations[q].ordinal

\* validated-store!: a store at rest passes its own dump validation, so a
\* dump it wrote can always be loaded back.
DumpAlwaysLoads == mode = "idle" => ValidHistoryRows

\* R1 and the comment on validated-store!: refolding the rows of a dump gives
\* exactly the withdrawals and live positions the store had.
LoadReproducesFold ==
    [][mode = "rebuild" /\ mode' = "idle" =>
         /\ withdrawalTargets' = dumped.targets
         /\ \A h \in Triple : ActivePositions(h)' = dumped.active[h]]_vars
=============================================================================
