----------------------------- MODULE MCJobStore -----------------------------
EXTENDS JobStore, TLC

\* The properties treat connections and bodies alike.
Symmetric == Permutations(Connections) \union Permutations(Bodies)
=============================================================================
