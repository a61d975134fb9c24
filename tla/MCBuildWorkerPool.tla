--------------------------- MODULE MCBuildWorkerPool ---------------------------
\* Four calls of one signature, served by two workers, so that two have to queue
\* behind builds that may end in any order, and two children may die.
EXTENDS BuildWorkerPool

CONSTANTS t1, t2, t3, t4, release

MCSignatureOf == [t \in Task |-> release]
===============================================================================
