--------------------------- MODULE MCEventDispatch ---------------------------
\* Model-checking instance of EventDispatch: one callback of each sort.
EXTENDS EventDispatch

\* Listeners differ in nothing but their identity.
Symmetry == Permutations(Listener)
=============================================================================
