---------------------------- MODULE BuildWorkerPool ----------------------------
(***************************************************************************)
(* src/cli/build-worker-pool.ts and the child side, src/cli/build-worker.ts.*)
(*                                                                         *)
(* One pool of `Size' child processes per build signature (mode, feature   *)
(* toggles and overrides); a FIFO queue per pool; one task at a time per   *)
(* worker.  The handlers "message" and "exit" of a child, buildFileMode    *)
(* and close run to completion on the CLI's event loop, so each is one     *)
(* action; the children run on their own and may die at any moment.        *)
(*                                                                         *)
(* `busy' and `task' of a worker are always assigned together (lines       *)
(* 146-147, 155-156, 187-188, 209-210): busy is task # NoTask.             *)
(***************************************************************************)
EXTENDS Integers, Sequences

CONSTANTS
  Task,          \* the calls of buildFileMode; a task stands for its id too
  Signature,     \* the values of buildSignature
  SignatureOf,   \* the signature of each task's arguments
  Size,          \* workers per pool
  MaxDeaths,     \* bound on the children that die unasked
  NoTask         \* worker.task = null

ASSUME SignatureAssumption == SignatureOf \in [Task -> Signature]
ASSUME SizeAssumption == Size \in Nat \ {0}
ASSUME NoTaskAssumption == NoTask \notin Task
ASSUME DeathsAssumption == MaxDeaths \in Nat

Slot == 1..Size
Worker == Signature \X Slot          \* pool.workers[i] of each signature's pool

\* An answer on its way to the CLI.  stale: the listener belongs to a worker
\* object whose exit was handled and that was replaced in pool.workers.
Message == [id : Task, type : {"done", "error"}, stale : BOOLEAN]

VARIABLES
  closed,        \* this.closed
  pools,         \* the keys of this.pools
  queue,         \* queue[s]: SignaturePool.queue
  task,          \* task[w]: WorkerProcess.task
  promise,       \* promise[t]: the promise buildFileMode returned
  reads,         \* the tasks whose recorded reads reached onReads
  child,         \* child[w]: the process; "dead": its exit is not handled yet
  work,          \* work[w]: builds the process was sent and has not answered
  reply,         \* reply[w]: messages sent and not handled yet
  artifact,      \* the tasks whose build completed in some child
  deaths,        \* children that died unasked
  hostUp         \* FALSE: the CLI died of an unhandled "error" event

vars == <<closed, pools, queue, task, promise, reads, child, work, reply,
          artifact, deaths, hostUp>>

TypeOK ==
  /\ closed \in BOOLEAN
  /\ pools \in SUBSET Signature
  /\ queue \in [Signature -> Seq(Task)]
  /\ task \in [Worker -> Task \cup {NoTask}]
  /\ promise \in [Task -> {"idle", "pending", "resolved", "rejected"}]
  /\ reads \in SUBSET Task
  /\ child \in [Worker -> {"absent", "up", "dead", "exited"}]
  /\ work \in [Worker -> SUBSET Task]
  /\ reply \in [Worker -> SUBSET Message]
  /\ artifact \in SUBSET Task
  /\ deaths \in Nat
  /\ hostUp \in BOOLEAN

Init ==
  /\ closed = FALSE
  /\ pools = {}
  /\ queue = [s \in Signature |-> <<>>]
  /\ task = [w \in Worker |-> NoTask]
  /\ promise = [t \in Task |-> "idle"]
  /\ reads = {}
  /\ child = [w \in Worker |-> "absent"]
  /\ work = [w \in Worker |-> {}]
  /\ reply = [w \in Worker |-> {}]
  /\ artifact = {}
  /\ deaths = 0
  /\ hostUp = TRUE

-------------------------------------------------------------------------------
(* The parent's handlers *)

\* The loop of pump: in index order, idle workers take the head of the queue
\* until one of the two runs out.  The slots in A get the first n tasks, slot i
\* the one at place[i].
Dispatch(q, idle, n, A, place) ==
  /\ \A p \in 1..n : \E i \in A : place[i] = p
  /\ \A i, j \in A : i < j => place[i] < place[j]
  /\ \A i \in A, j \in idle \ A : i < j
  /\ A = idle \/ n = Len(q)

\* Seeded fault: pop() for shift(), the newest task first.
PumpNewestFirst(s, q, T, C) ==
  LET idle == {i \in Slot : T[<<s, i>>] = NoTask}
  IN  \E n \in 0..Len(q), A \in SUBSET idle : \E place \in [A -> 1..n] :
        /\ Dispatch(q, idle, n, A, place)
        /\ queue' = [queue EXCEPT ![s] = SubSeq(q, 1, Len(q) - n)]
        /\ task' = [w \in Worker |-> IF w[1] = s /\ w[2] \in A
                                     THEN q[Len(q) + 1 - place[w[2]]] ELSE T[w]]
        /\ work' = [w \in Worker |->
                      IF w[1] = s /\ w[2] \in A /\ C[w] = "up"
                      THEN work[w] \cup {q[Len(q) + 1 - place[w[2]]]}
                      ELSE work[w]]
        /\ hostUp' = \A i \in A : C[<<s, i>>] = "up"

\* pump(pool of s), entered with queue q and worker tasks T; C: the processes.
\* A send to a process that is gone makes child_process emit "error", for
\* which nobody listens: the CLI goes down.
Pump(s, q, T, C) ==
  LET idle == {i \in Slot : T[<<s, i>>] = NoTask}
  IN  \E n \in 0..Len(q), A \in SUBSET idle : \E place \in [A -> 1..n] :
        /\ Dispatch(q, idle, n, A, place)
        /\ queue' = [queue EXCEPT ![s] = SubSeq(q, n + 1, Len(q))]
        /\ task' = [w \in Worker |-> IF w[1] = s /\ w[2] \in A
                                     THEN q[place[w[2]]] ELSE T[w]]
        /\ work' = [w \in Worker |-> IF w[1] = s /\ w[2] \in A /\ C[w] = "up"
                                     THEN work[w] \cup {q[place[w[2]]]}
                                     ELSE work[w]]
        /\ hostUp' = \A i \in A : C[<<s, i>>] = "up"

\* getPool: the first task of a signature spawns its `Size' workers.
Spawned(s) ==
  [w \in Worker |-> IF w[1] = s /\ s \notin pools THEN "up" ELSE child[w]]

\* buildFileMode on an open pool: enqueue, then pump.
BuildFileMode(t) ==
  /\ hostUp /\ ~closed /\ promise[t] = "idle"
  /\ pools' = pools \cup {SignatureOf[t]}
  /\ child' = Spawned(SignatureOf[t])
  /\ promise' = [promise EXCEPT ![t] = "pending"]
  /\ Pump(SignatureOf[t], Append(queue[SignatureOf[t]], t),
          task, Spawned(SignatureOf[t]))
  /\ UNCHANGED <<closed, reads, reply, artifact, deaths>>

\* buildFileMode after close: "build worker pool is closed".
BuildFileModeClosed(t) ==
  /\ hostUp /\ closed /\ promise[t] = "idle"
  /\ promise' = [promise EXCEPT ![t] = "rejected"]
  /\ UNCHANGED <<closed, pools, queue, task, reads, child, work, reply,
                 artifact, deaths, hostUp>>

\* Seeded fault: any message of the slot counts for the task in progress.
ExpectedAny(w, m) == task[w] # NoTask

\* The message answers the task the worker is on.
Expected(w, m) == ~m.stale /\ task[w] = m.id

\* Seeded fault: the freed worker is not put to use.
OnMessageNoPump(w, m) ==
  /\ hostUp /\ m \in reply[w] /\ Expected(w, m)
  /\ reply' = [reply EXCEPT ![w] = @ \ {m}]
  /\ promise' = [promise EXCEPT ![task[w]] =
                   IF m.type = "done" THEN "resolved" ELSE "rejected"]
  /\ reads' = IF m.type = "done" THEN reads \cup {task[w]} ELSE reads
  /\ task' = [task EXCEPT ![w] = NoTask]
  /\ UNCHANGED <<closed, pools, queue, child, work, artifact, deaths, hostUp>>

\* onMessage: free the worker, hand the reads over, settle, pump.
OnMessage(w, m) ==
  /\ hostUp /\ m \in reply[w] /\ Expected(w, m)
  /\ reply' = [reply EXCEPT ![w] = @ \ {m}]
  /\ promise' = [promise EXCEPT ![task[w]] =
                   IF m.type = "done" THEN "resolved" ELSE "rejected"]
  /\ reads' = IF m.type = "done" THEN reads \cup {task[w]} ELSE reads
  /\ Pump(w[1], queue[w[1]], [task EXCEPT ![w] = NoTask], child)
  /\ UNCHANGED <<closed, pools, child, artifact, deaths>>

\* onMessage returns early: no task, or the answer to another one.
OnMessageIgnored(w, m) ==
  /\ hostUp /\ m \in reply[w] /\ ~Expected(w, m)
  /\ reply' = [reply EXCEPT ![w] = @ \ {m}]
  /\ UNCHANGED <<closed, pools, queue, task, promise, reads, child, work,
                 artifact, deaths, hostUp>>

\* Seeded fault: the exit handler forgets the caller of the task.
RejectNobody(w) == UNCHANGED promise

\* The task a dead worker held is rejected.
RejectTaskOf(w) ==
  promise' = [t \in Task |-> IF t = task[w] THEN "rejected" ELSE promise[t]]

\* Seeded fault: the task of the dead worker is retried, though it is rejected.
OnExitRetry(w) ==
  /\ hostUp /\ ~closed /\ child[w] = "dead"
  /\ RejectTaskOf(w)
  /\ child' = [child EXCEPT ![w] = "up"]
  /\ reply' = [reply EXCEPT ![w] = {[m EXCEPT !.stale = TRUE] : m \in @}]
  /\ Pump(w[1], IF task[w] = NoTask THEN queue[w[1]]
                ELSE Append(queue[w[1]], task[w]),
          [task EXCEPT ![w] = NoTask], [child EXCEPT ![w] = "up"])
  /\ UNCHANGED <<closed, pools, reads, artifact, deaths>>

\* Seeded fault: retried without a look at whether there was a task.
OnExitRetryBlindly(w) ==
  /\ hostUp /\ ~closed /\ child[w] = "dead"
  /\ child' = [child EXCEPT ![w] = "up"]
  /\ reply' = [reply EXCEPT ![w] = {[m EXCEPT !.stale = TRUE] : m \in @}]
  /\ queue' = [queue EXCEPT ![w[1]] = Append(@, task[w])]
  /\ task' = [task EXCEPT ![w] = NoTask]
  /\ UNCHANGED <<closed, pools, promise, reads, work, artifact, deaths, hostUp>>

\* "exit" on an open pool: reject, replace the worker at its index, pump.
\* Messages of the old process still to come find the old worker object.
OnExit(w) ==
  /\ hostUp /\ ~closed /\ child[w] = "dead"
  /\ RejectTaskOf(w)
  /\ child' = [child EXCEPT ![w] = "up"]
  /\ reply' = [reply EXCEPT ![w] = {[m EXCEPT !.stale = TRUE] : m \in @}]
  /\ Pump(w[1], queue[w[1]], [task EXCEPT ![w] = NoTask],
          [child EXCEPT ![w] = "up"])
  /\ UNCHANGED <<closed, pools, reads, artifact, deaths>>

\* Seeded fault: after close the handler returns before it rejects.
OnExitClosedEarly(w) ==
  /\ hostUp /\ closed /\ child[w] = "dead"
  /\ child' = [child EXCEPT ![w] = "exited"]
  /\ UNCHANGED <<closed, pools, queue, task, promise, reads, work, reply,
                 artifact, deaths, hostUp>>

\* "exit" after close: the worker is not replaced; close stops waiting for it.
OnExitClosed(w) ==
  /\ hostUp /\ closed /\ child[w] = "dead"
  /\ RejectTaskOf(w)
  /\ task' = [task EXCEPT ![w] = NoTask]
  /\ child' = [child EXCEPT ![w] = "exited"]
  /\ UNCHANGED <<closed, pools, queue, reads, work, reply, artifact, deaths,
                 hostUp>>

Queued(s) == {queue[s][i] : i \in 1..Len(queue[s])}

\* close: reject what is queued, kill every worker.  Every caller closes its
\* pool once, in a finally.
Close ==
  /\ hostUp /\ ~closed
  /\ closed' = TRUE
  /\ queue' = [s \in Signature |-> <<>>]
  /\ promise' = [t \in Task |-> IF \E s \in pools : t \in Queued(s)
                                THEN "rejected" ELSE promise[t]]
  /\ UNCHANGED <<pools, task, reads, child, work, reply, artifact, deaths,
                 hostUp>>

-------------------------------------------------------------------------------
(* The children *)

\* build() returned: the artifact is written and "done" is sent.
BuildDone(w, t) ==
  /\ child[w] = "up" /\ t \in work[w]
  /\ artifact' = artifact \cup {t}
  /\ work' = [work EXCEPT ![w] = @ \ {t}]
  /\ reply' = [reply EXCEPT ![w] =
                 @ \cup {[id |-> t, type |-> "done", stale |-> FALSE]}]
  /\ UNCHANGED <<closed, pools, queue, task, promise, reads, child, deaths,
                 hostUp>>

\* build() threw: "error" is sent, without the reads recorded so far.
BuildError(w, t) ==
  /\ child[w] = "up" /\ t \in work[w]
  /\ work' = [work EXCEPT ![w] = @ \ {t}]
  /\ reply' = [reply EXCEPT ![w] =
                 @ \cup {[id |-> t, type |-> "error", stale |-> FALSE]}]
  /\ UNCHANGED <<closed, pools, queue, task, promise, reads, child, artifact,
                 deaths, hostUp>>

\* The process ends: killed by close, or on its own (crash, out of memory; the
\* number of those is bounded).  What it had not flushed is lost.
Die(w) ==
  /\ child[w] = "up"
  /\ closed \/ deaths < MaxDeaths
  /\ child' = [child EXCEPT ![w] = "dead"]
  /\ work' = [work EXCEPT ![w] = {}]
  /\ \E kept \in {reply[w], {m \in reply[w] : m.stale}} :
       reply' = [reply EXCEPT ![w] = kept]
  /\ deaths' = IF closed THEN deaths ELSE deaths + 1
  /\ UNCHANGED <<closed, pools, queue, task, promise, reads, artifact, hostUp>>

-------------------------------------------------------------------------------
Receive(w) == \E m \in reply[w] : OnMessage(w, m) \/ OnMessageIgnored(w, m)
Exit(w) == OnExit(w) \/ OnExitClosed(w)
Answer(w) == \E t \in work[w] : BuildDone(w, t) \/ BuildError(w, t)

Next ==
  \/ \E t \in Task : BuildFileMode(t) \/ BuildFileModeClosed(t)
  \/ \E w \in Worker : Receive(w) \/ Exit(w) \/ Answer(w) \/ Die(w)
  \/ Close

\* The event loop delivers every event; a build ends; a killed child dies.
Fairness ==
  \A w \in Worker :
    /\ WF_vars(Receive(w))
    /\ WF_vars(Exit(w))
    /\ WF_vars(Answer(w))
    /\ WF_vars(closed /\ Die(w))

Spec == Init /\ [][Next]_vars /\ Fairness

-------------------------------------------------------------------------------
(* Properties *)

Assigned(t) == \E w \in Worker : task[w] = t

\* Every unsettled task is in exactly one place, its pool's queue or one worker
\* of that pool, and settled tasks are in none: what makes each promise settle
\* once and by its own build, whatever order messages, exits and calls take.
OnePlace ==
  /\ \A t \in Task : promise[t] = "pending"
                     <=> Assigned(t) \/ t \in Queued(SignatureOf[t])
  /\ \A s \in Signature : \A i, j \in 1..Len(queue[s]) :
       /\ SignatureOf[queue[s][i]] = s
       /\ ~Assigned(queue[s][i])
       /\ queue[s][i] = queue[s][j] => i = j
  /\ \A v, w \in Worker : task[w] # NoTask =>
       /\ SignatureOf[task[w]] = w[1]
       /\ task[v] = task[w] => v = w

\* A task waits only while all workers of its pool are on another one: no event
\* that frees a worker (answer, error, death) forgets to pump.
WorkConserving ==
  \A s \in Signature : queue[s] # <<>> =>
    \A i \in Slot : task[<<s, i>>] # NoTask

\* A child builds nothing but the task its pool thinks it is on, and not after
\* it answered: builds share the child's environment and must not overlap.
OneBuildPerChild ==
  \A w \in Worker : \A t \in work[w] :
    /\ t = task[w]
    /\ \A m \in reply[w] : m.stale

\* buildFileMode's promise is fulfilled only for an artifact that was built, and
\* then, and only then, the reads of that build went to the dependency sink:
\* no late, stale or foreign answer is taken for the task's own.
NoFalseSuccess ==
  /\ \A t \in Task : promise[t] = "resolved" => t \in artifact
  /\ reads = {t \in Task : promise[t] = "resolved"}

\* When close() resolves (every worker has exited) no caller is left waiting:
\* queued tasks were rejected at once, running ones by their worker's exit.
CloseSettles ==
  closed /\ (\A s \in pools, i \in Slot : child[<<s, i>>] = "exited")
    => \A t \in Task : promise[t] # "pending"

\* Tasks leave a queue in the order they were submitted, unless close empties it.
NoOvertaking ==
  [][\A s \in Signature : \A i, j \in 1..Len(queue[s]) :
       (i < j /\ queue[s][i] \in Queued(s)')
         => queue[s][j] \in Queued(s)']_vars

Service == INSTANCE BuildService

\* The pool is a build service: each call settles, once, and truthfully.
ImplementsService == Service!Spec
===============================================================================
