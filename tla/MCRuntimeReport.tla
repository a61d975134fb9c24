---------------------------- MODULE MCRuntimeReport ----------------------------
\* Three blocks, plain or focused (which skips the others), two matchers, two values,
\* a pipe of one write, and a snapshot that is missing, then created, then compared.
EXTENDS RuntimeReport

MCKinds == {"describe", "only"}
MCValues == {1, 2}
===============================================================================
