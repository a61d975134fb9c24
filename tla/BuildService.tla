----------------------------- MODULE BuildService -----------------------------
(***************************************************************************)
(* What BuildWorkerPool promises to its callers (buildFileForMode and the  *)
(* parallel runners of src/cli/index.ts): buildFileMode returns a promise  *)
(* that is settled once, that is fulfilled only when the artifact really   *)
(* was built, and that never stays pending unless the whole CLI process    *)
(* went down.  Workers, queues, signatures and messages do not appear.     *)
(***************************************************************************)
CONSTANT Task             \* the calls of buildFileMode

VARIABLES
  promise,                \* promise[t]: the promise the caller of t holds
  artifact,               \* the tasks whose build has completed
  closed,                 \* close() has been called
  hostUp                  \* the CLI process runs

vars == <<promise, artifact, closed, hostUp>>

Waiting == {t \in Task : promise[t] = "pending"}

Init ==
  /\ promise = [t \in Task |-> "idle"]
  /\ artifact = {}
  /\ closed = FALSE
  /\ hostUp = TRUE

\* A call: accepted while the service is open, refused at once afterwards.
Request(t) ==
  /\ hostUp /\ promise[t] = "idle"
  /\ promise' = [promise EXCEPT ![t] = IF closed THEN "rejected" ELSE "pending"]
  /\ hostUp' \in BOOLEAN
  /\ UNCHANGED <<artifact, closed>>

\* The build of a waiting task completes: its caller does not know yet.
Produce(t) ==
  /\ t \in Waiting \ artifact
  /\ artifact' = artifact \cup {t}
  /\ UNCHANGED <<promise, closed, hostUp>>

\* Success is reported of completed builds only; failure may be reported of
\* any (a worker can die after the build and before the answer).
Settle(t) ==
  /\ hostUp /\ t \in Waiting
  /\ \/ t \in artifact /\ promise' = [promise EXCEPT ![t] = "resolved"]
     \/ promise' = [promise EXCEPT ![t] = "rejected"]
  /\ hostUp' \in BOOLEAN
  /\ UNCHANGED <<artifact, closed>>

\* Closing rejects some of the waiting tasks at once.
Shut(refused) ==
  /\ hostUp /\ ~closed
  /\ closed' = TRUE
  /\ promise' = [t \in Task |-> IF t \in refused THEN "rejected" ELSE promise[t]]
  /\ UNCHANGED <<artifact, hostUp>>

Next ==
  \/ \E t \in Task : Request(t) \/ Produce(t) \/ Settle(t)
  \/ \E refused \in SUBSET Waiting : Shut(refused)

Spec == Init /\ [][Next]_vars /\ \A t \in Task : WF_vars(Settle(t))
===============================================================================
