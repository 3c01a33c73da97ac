------------------------- MODULE MCCommitSequencer -------------------------
(* Model checking of CommitSequencer on a few requests.  Every request has   *)
(* one byte but a large one of two, so that a cohort can overflow.           *)
EXTENDS CommitSequencer
CONSTANT Large
ASSUME Large \in Request
MCSize == [r \in Request |-> IF r = Large THEN 2 ELSE 1]
=============================================================================
