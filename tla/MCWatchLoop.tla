------------------------------ MODULE MCWatchLoop ------------------------------
\* Two specs and a helper, in a directory the input patterns do not name; both
\* import it at first, an edit may change that of one, of which the cache has an
\* entry.
EXTENDS WatchLoop

CONSTANTS a, b, helper, config

MCImports == [s \in Spec |-> {helper}]
===============================================================================
