-------------------------------- MODULE MCBackup --------------------------------
(* Backup on a small instance; creators and outputs are interchangeable. *)
EXTENDS Backup, TLC

Symmetry == Permutations(Creator) \cup Permutations(Output)
================================================================================
