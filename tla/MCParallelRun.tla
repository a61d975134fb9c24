---------------------------- MODULE MCParallelRun ----------------------------
\* Four files through a limiter with one slot, and two files in two modes, by three
\* loops.
EXTENDS ParallelRun

MCCommands ==
  {[limited |-> TRUE, files |-> 4, modes |-> 1], [limited |-> FALSE, files |-> 2, modes |-> 2]}
===============================================================================
