--------------------------- MODULE MCCoordinator ----------------------------
EXTENDS CoordinatorClaims, CoordinatorInv, TLC

CONSTANTS Ok, Error, Invalid, Opaque,  \* the bodies of each kind
          Postdated                    \* those completed at tick 2

MCBodies == Ok \union Error \union Invalid \union Opaque
MCKind ==
  [b \in MCBodies |-> CASE b \in Ok -> "ok"
                        [] b \in Error -> "error"
                        [] b \in Invalid -> "invalid"
                        [] OTHER -> "opaque"]
MCCompletedAt == [b \in MCBodies |-> IF b \in Postdated THEN 2 ELSE 0]

Symmetric == Permutations(Sessions) \union Permutations(Jobs)
=============================================================================
