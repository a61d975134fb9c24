------------------------- MODULE DependencyRelation --------------------------
(***************************************************************************)
(* What the watch loop needs of the dependency graph: which builds, (mode, *)
(* spec) pairs, are known, and which files the last recorded one of each   *)
(* read.  The two indices, and how they are kept in step, do not appear.   *)
(***************************************************************************)
CONSTANTS
  Build,       \* the builds that can be recorded
  File         \* absolute paths

VARIABLES
  known,       \* the builds that are recorded
  readBy       \* readBy[b]: files the last recorded build of b read

vars == <<known, readBy>>

Init ==
  /\ known = {}
  /\ readBy = [b \in Build |-> {}]

\* A build reads at least one file, the spec itself.
Record(b, files) ==
  /\ files # {}
  /\ known' = known \cup {b}
  /\ readBy' = [readBy EXCEPT ![b] = files]

Forget(b) ==
  /\ known' = known \ {b}
  /\ readBy' = [readBy EXCEPT ![b] = {}]

Clear ==
  /\ known' = {}
  /\ readBy' = [b \in Build |-> {}]

Next ==
  \/ \E b \in Build : Forget(b) \/ \E files \in SUBSET File : Record(b, files)
  \/ Clear

Spec == Init /\ [][Next]_vars
===============================================================================
