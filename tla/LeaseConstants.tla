--------------------------- MODULE LeaseConstants ---------------------------
(* What Lease and LeaseHistory are parameterised by.                         *)
EXTENDS Integers

CONSTANTS Resource,     \* resources that can be leased
          Holder,       \* the clients
          Ttl,          \* times to live a client may ask for
          CohortMax,    \* transactions in one group, or cohort of the jvm route
          MaxClock,     \* bound on the clock explored
          MaxSequence,  \* bound on the transactions explored
          None

ASSUME LeaseAssumption ==
    /\ Ttl \subseteq Nat \ {0}
    /\ CohortMax \in Nat \ {0}
    /\ MaxClock \in Nat
    /\ MaxSequence \in Nat

Grant == [resource : Resource, holder : Holder, epoch : Nat, expires : Nat]

ASSUME NoneAssumption == None \notin Grant
=============================================================================
