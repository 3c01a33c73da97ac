--------------------------- MODULE MCLeaseHistory ---------------------------
(* Instances of the lease history for TLC: holders and resources are each interchangeable. *)
EXTENDS LeaseHistory, TLC

MCSymmetry == Permutations(Holder) \cup Permutations(Resource)
=============================================================================
