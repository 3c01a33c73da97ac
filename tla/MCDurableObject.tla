--------------------------- MODULE MCDurableObject ---------------------------
(* Small instances of DurableObject for TLC. *)
EXTENDS DurableObject

CONSTANTS w1, h1

\* Backups from elsewhere: a longer log than the object's own, and one with a
\* damaged frame.
MCSupplied == {<<"header", "foreign", "foreign2">>, <<"header", "damaged">>}
=============================================================================
