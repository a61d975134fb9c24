------------------------------ MODULE WebService ------------------------------
(***************************************************************************)
(* What a shared web session promises to run() of run-core.ts, which gives *)
(* it one compiled spec after the other: jobs are taken in order, one at a *)
(* time; a job resolves only if its runtime ran to its end; after the      *)
(* first failure the session is broken for good, and later jobs are        *)
(* refused.  Sockets, tabs, pages and workers do not appear.               *)
(***************************************************************************)
EXTENDS Naturals

CONSTANT NumJobs           \* the specs of the session, in order

Job == 1..NumJobs

VARIABLES
  outcome,                 \* outcome[j]: the promise of runJob for job j
  completed,               \* jobs whose runtime ran to its end
  broken                   \* the session is over

vars == <<outcome, completed, broken>>

Init ==
  /\ outcome = [j \in Job |-> "none"]
  /\ completed = {}
  /\ broken = FALSE

Settled(j) == outcome[j] \in {"resolved", "rejected"}

\* A job starts when those before it are settled; a broken session refuses it.
Begin(j) ==
  /\ outcome[j] = "none" /\ \A i \in 1..(j - 1) : Settled(i)
  /\ outcome' = [outcome EXCEPT ![j] = IF broken THEN "rejected" ELSE "pending"]
  /\ UNCHANGED <<completed, broken>>

\* The runtime of a job may finish even when nobody listens any more.
Complete(j) ==
  /\ outcome[j] # "none"
  /\ completed' = completed \cup {j}
  /\ UNCHANGED <<outcome, broken>>

Resolve(j) ==
  /\ outcome[j] = "pending" /\ j \in completed /\ ~broken
  /\ outcome' = [outcome EXCEPT ![j] = "resolved"]
  /\ UNCHANGED <<completed, broken>>

\* The session breaks; the job under way, if any, is rejected with it.
Break ==
  /\ ~broken
  /\ broken' = TRUE
  /\ outcome' = [j \in Job |-> IF outcome[j] = "pending" THEN "rejected" ELSE outcome[j]]
  /\ UNCHANGED completed

Next ==
  \/ \E j \in Job : Begin(j) \/ Complete(j) \/ Resolve(j)
  \/ Break

Spec == Init /\ [][Next]_vars
===============================================================================
