------------------------- MODULE MCRequestLifecycle -------------------------
EXTENDS RequestLifecycle, TLC
Symmetry == Permutations(Caller) \cup Permutations(Viewer)
              \cup Permutations(Release) \cup Permutations(Request)
=============================================================================
