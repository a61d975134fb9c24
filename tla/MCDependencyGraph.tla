--------------------------- MODULE MCDependencyGraph ---------------------------
\* Two specs, a helper with two spellings and a file of the compiler; the specs
\* may import each other.
EXTENDS DependencyGraph

CONSTANTS a, b, helper, asc, dotHelper

MCResolve == [p \in Path |-> IF p = dotHelper THEN helper ELSE p]
===============================================================================
