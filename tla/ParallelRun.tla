------------------------------ MODULE ParallelRun ------------------------------
(***************************************************************************)
(* How ast run and ast test take the spec files through building and       *)
(* running in parallel (src/cli/index.ts): runOrderedPool starts a few     *)
(* loops that take the next file until none is left or one of them threw.  *)
(* For each mode of its file a loop builds with the BuildWorkerPool, of    *)
(* which only what BuildService promises is known here, and runs the spec. *)
(* ast run without modes builds nothing and has createAsyncLimiter hold    *)
(* the runs back (`limited').                                              *)
(*                                                                         *)
(* Event-loop turns of the loops mix in any order; what stands between two *)
(* awaits is one action.  What is printed meanwhile is not modelled.       *)
(***************************************************************************)
EXTENDS Integers, Sequences

CONSTANTS
  MaxFiles, MaxModes,
  PoolWidth,       \* width of runOrderedPool
  RunJobs,         \* width of createAsyncLimiter
  Commands         \* the commands: how many files in how many modes, limited or not

ASSUME SizeAssumption ==
  /\ MaxFiles \in Nat /\ MaxModes \in Nat \ {0}
  /\ PoolWidth \in Nat \ {0} /\ RunJobs \in Nat \ {0}

ASSUME CommandsAssumption ==
  \A c \in Commands :
    /\ c \in [limited : BOOLEAN, files : 0..MaxFiles, modes : 1..MaxModes]
    /\ c.limited => c.modes = 1

File == 1..MaxFiles
Loop == 1..PoolWidth
Task == File \X (1..MaxModes)
Verdict == {"ok", "fail"}

VARIABLES
  command,         \* the member of Commands that is run
  nextIndex,       \* nextIndex
  threw,           \* firstError is set
  loop,            \* what each runWorker is at
  active,          \* active of the limiter
  queue,           \* queue of the limiter: the loops that wait, first first
  woken,           \* the loops let out of it that do not go on yet
  results,         \* results, or ordered: those of each file, <<>> if none yet
  outcome,         \* of the whole command
  promise, artifact, closed, hostUp,     \* the build service
  fresh,           \* history: the tasks that the cache let skip the build
  ran              \* history: what became of each task

limitVars == <<active, queue, woken>>
poolVars == <<promise, artifact, closed, hostUp>>
vars == <<command, nextIndex, threw, loop, limitVars, results, outcome, poolVars, fresh, ran>>

Pool == INSTANCE BuildService

\* taking: about to look for a file; building: in buildFileForMode; waiting: for the
\* limiter; running: in run().
Phase == {"taking", "building", "waiting", "running", "stopped"}
Idle == [phase |-> "taking", file |-> 0, done |-> <<>>]

limited == command.limited
Files == 1..command.files
Tasks == Files \X (1..command.modes)
TaskOf(w) == <<loop[w].file, Len(loop[w].done) + 1>>
Holds(w) == loop[w].phase \notin {"taking", "stopped"}

TypeOK ==
  /\ command \in Commands /\ threw \in BOOLEAN
  /\ nextIndex \in 1..(MaxFiles + PoolWidth + 1)
  /\ loop \in [Loop -> [phase : Phase, file : 0..MaxFiles, done : Seq(Verdict)]]
  /\ \A w \in Loop : Holds(w) => TaskOf(w) \in Tasks
  /\ active \in 0..PoolWidth
  /\ queue \in Seq(Loop) /\ woken \subseteq Loop
  /\ results \in [File -> Seq(Verdict)]
  /\ outcome \in {"running", "ok", "fail", "threw"}
  /\ fresh \subseteq Task
  /\ ran \in [Task -> Verdict \cup {"none"}]

Init ==
  /\ command \in Commands
  /\ nextIndex = 1 /\ threw = FALSE
  /\ loop = [w \in Loop |-> IF w <= command.files THEN Idle ELSE [Idle EXCEPT !.phase = "stopped"]]
  /\ active = 0 /\ queue = <<>> /\ woken = {}
  /\ results = [f \in File |-> <<>>]
  /\ outcome = "running"
  /\ Pool!Init
  /\ fresh = {} /\ ran = [t \in Task |-> "none"]

At(w, phase) == hostUp /\ loop[w].phase = phase
Goes(w, phase) == loop' = [loop EXCEPT ![w].phase = phase]
Stays == UNCHANGED <<command, outcome>>

-------------------------------------------------------------------------------
(* runOrderedPool *)

\* The loop ends.
Stop(w) ==
  /\ At(w, "taking")
  /\ IF threw THEN UNCHANGED nextIndex
     ELSE nextIndex > command.files /\ nextIndex' = nextIndex + 1
  /\ Goes(w, "stopped")
  /\ Stays /\ UNCHANGED <<threw, limitVars, results, poolVars, fresh, ran>>

\* The next file; withLimit runs it at once if there is room.
Take(w) ==
  /\ At(w, "taking") /\ ~threw /\ nextIndex <= command.files
  /\ nextIndex' = nextIndex + 1
  /\ LET enters == limited /\ active < RunJobs
         waits == limited /\ active >= RunJobs
     IN /\ loop' = [loop EXCEPT ![w] =
              [phase |-> IF enters THEN "running" ELSE IF waits THEN "waiting" ELSE "building",
               file |-> nextIndex, done |-> <<>>]]
        /\ active' = IF enters THEN active + 1 ELSE active
        /\ queue' = IF waits THEN Append(queue, w) ELSE queue
        /\ UNCHANGED woken
  /\ Stays /\ UNCHANGED <<threw, results, poolVars, fresh, ran>>

\* Seeded fault: the results of the files are listed as they come.
RecordAsTheyCome(f, verdicts) ==
  LET open == {g \in File : results[g] = <<>>}
      first == CHOOSE g \in open : \A h \in open : g <= h
  IN results' = [results EXCEPT ![first] = verdicts]

\* results[index] = result, or ordered[fileIndex]
Record(f, verdicts) == results' = [results EXCEPT ![f] = verdicts]

\* One more verdict for the file: its next mode, or its results are complete.
NextMode(w, verdict) ==
  LET done == Append(loop[w].done, verdict) IN
  IF Len(done) < command.modes
    THEN /\ loop' = [loop EXCEPT ![w] = [@ EXCEPT !.phase = "building", !.done = done]]
         /\ UNCHANGED results
    ELSE /\ loop' = [loop EXCEPT ![w] = Idle]
         /\ Record(loop[w].file, done)

\* Seeded fault: an error ends all loops at once, as Promise.all would alone.
ThrowThrough(w) ==
  /\ threw' = TRUE
  /\ loop' = [v \in Loop |-> [Idle EXCEPT !.phase = "stopped"]]
  /\ UNCHANGED results

\* Anything but a failed build is kept in firstError and ends this loop.
Throw(w) ==
  /\ threw' = TRUE
  /\ loop' = [loop EXCEPT ![w] = [Idle EXCEPT !.phase = "stopped"]]
  /\ UNCHANGED results

Settles(w, verdict) ==
  /\ NextMode(w, verdict)
  /\ ran' = [ran EXCEPT ![TaskOf(w)] = verdict]
  /\ UNCHANGED threw

-------------------------------------------------------------------------------
(* buildFileForMode *)

\* The call of the pool, which may go down with the process (BuildService).
RequestBuild(w) ==
  /\ At(w, "building") /\ Pool!Request(TaskOf(w))
  /\ Stays /\ UNCHANGED <<nextIndex, threw, loop, limitVars, results, fresh, ran>>

\* The cache knows the task to be fresh.
SkipBuild(w) ==
  /\ At(w, "building") /\ promise[TaskOf(w)] = "idle"
  /\ fresh' = fresh \cup {TaskOf(w)}
  /\ Goes(w, "running")
  /\ Stays /\ UNCHANGED <<nextIndex, threw, limitVars, results, poolVars, ran>>

\* The promise of the call is settled.  A rejection is a failed build, which is a
\* result, or something else.
Built(w) ==
  /\ At(w, "building") /\ promise[TaskOf(w)] = "resolved"
  /\ Goes(w, "running")
  /\ Stays /\ UNCHANGED <<nextIndex, threw, limitVars, results, poolVars, fresh, ran>>

BuildFailed(w) ==
  /\ At(w, "building") /\ promise[TaskOf(w)] = "rejected"
  /\ \/ Settles(w, "fail")
     \/ Throw(w) /\ UNCHANGED ran
  /\ Stays /\ UNCHANGED <<nextIndex, limitVars, poolVars, fresh>>

PoolStep ==
  /\ \E t \in Task : Pool!Produce(t) \/ Pool!Settle(t)
  /\ Stays /\ UNCHANGED <<nextIndex, threw, loop, limitVars, results, fresh, ran>>

-------------------------------------------------------------------------------
(* run() and createAsyncLimiter *)

\* Seeded fault: a slot is given back without waking anybody.
ReleaseSilently ==
  /\ active' = IF limited THEN active - 1 ELSE active
  /\ UNCHANGED <<queue, woken>>

\* Seeded fault: a slot is given back twice, on an error and in the finally.
ReleaseTwice ==
  /\ active' = IF ~limited THEN active ELSE IF threw' THEN active - 2 ELSE active - 1
  /\ queue' = IF queue = <<>> THEN queue ELSE Tail(queue)
  /\ woken' = woken \cup {queue[i] : i \in DOMAIN queue \cap {1}}

\* The finally of withLimit: the first in the queue may go on.
Release ==
  /\ active' = IF limited THEN active - 1 ELSE active
  /\ queue' = IF queue = <<>> THEN queue ELSE Tail(queue)
  /\ woken' = woken \cup {queue[i] : i \in DOMAIN queue \cap {1}}

\* run() returns or throws.
Ran(w) ==
  /\ At(w, "running")
  /\ \/ \E verdict \in Verdict : Settles(w, verdict)
     \/ Throw(w) /\ UNCHANGED ran
  /\ Release
  /\ Stays /\ UNCHANGED <<nextIndex, poolVars, fresh>>

\* In a turn of its own a loop that was let out of the queue takes a slot, whether or
\* not another one has taken it in the meantime.
Wake(w) ==
  /\ hostUp /\ w \in woken
  /\ woken' = woken \ {w}
  /\ active' = active + 1
  /\ Goes(w, "running")
  /\ Stays /\ UNCHANGED <<nextIndex, threw, queue, results, poolVars, fresh, ran>>

-------------------------------------------------------------------------------
(* The end *)

\* All loops have ended: the pool, if there is one, is closed in a finally, then the
\* error is thrown on, or the results are summed up.
End ==
  /\ hostUp /\ outcome = "running"
  /\ \A w \in Loop : loop[w].phase = "stopped"
  /\ IF limited THEN UNCHANGED poolVars
                ELSE \E refused \in SUBSET Pool!Waiting : Pool!Shut(refused)
  /\ outcome' = IF threw THEN "threw"
                ELSE IF \E f \in File : "fail" \in {results[f][m] : m \in DOMAIN results[f]}
                  THEN "fail" ELSE "ok"
  /\ UNCHANGED <<command, nextIndex, threw, loop, limitVars, results, fresh, ran>>

Step(w) ==
  \/ Stop(w)
  \/ Take(w)
  \/ RequestBuild(w)
  \/ SkipBuild(w)
  \/ Built(w)
  \/ BuildFailed(w)
  \/ Ran(w)
  \/ Wake(w)

Next == (\E w \in Loop : Step(w)) \/ PoolStep \/ End

\* Every turn that is due is taken, every spec that runs ends (RuntimeReport,
\* WebSession) and the service settles its promises.
Spec ==
  /\ Init /\ [][Next]_vars
  /\ \A w \in Loop : WF_vars(Step(w))
  /\ \A t \in Task : WF_vars(PoolStep /\ Pool!Settle(t))
  /\ WF_vars(End)

-------------------------------------------------------------------------------
(* Properties *)

\* What is summed up at the end is, file by file and mode by mode, what became of
\* each task; no task is run twice or by two loops, and none whose artifact is
\* neither built nor fresh.
ResultsHonest ==
  /\ outcome \in {"ok", "fail"} =>
       \A t \in Tasks : ran[t] # "none" /\ results[t[1]][t[2]] = ran[t]
  /\ outcome = "ok" => \A t \in Task : ran[t] # "fail"
  /\ \A w, v \in Loop : Holds(w) /\ Holds(v) /\ w # v => loop[w].file # loop[v].file
  /\ \A w \in Loop : Holds(w) =>
       /\ ran[TaskOf(w)] = "none"
       /\ loop[w].phase = "running" /\ ~limited => TaskOf(w) \in artifact \cup fresh

\* Whatever is thrown, the command ends only when nothing is in flight: no spec is
\* left running, nobody waits, and the pool is closed with no call pending.
EndsQuietly ==
  outcome # "running" =>
    /\ ~limited => closed
    /\ Pool!Waiting = {}
    /\ active = 0 /\ queue = <<>> /\ woken = {}
    /\ \A w \in Loop : ~Holds(w)

\* Every file is settled or the command throws, as long as the process lives: no
\* loop stays in the queue of the limiter with nobody to wake it.
RunEnds == <>(outcome # "running" \/ ~hostUp)
===============================================================================
