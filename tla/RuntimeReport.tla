----------------------------- MODULE RuntimeReport -----------------------------
(***************************************************************************)
(* What the CLI makes of one spec process (runProcess of                   *)
(* src/cli/commands/run-core.ts): it counts the frames as they come,       *)
(* answers the requests, and when the process has closed decides from the  *)
(* report, the events, the exit code and stderr what became of the file.   *)
(*                                                                         *)
(* SpecRuntime is the process.  Frames arrive whole and in order (module   *)
(* WipcChannel); one that the process died in never arrives.               *)
(***************************************************************************)
EXTENDS SpecRuntime

CONSTANTS
  SnapshotEnabled, CreateSnapshots, OverwriteSnapshots,   \* flags of the run
  Missing,         \* no snapshot is stored
  Stored           \* what the snapshot file may hold before the run

ASSUME FlagAssumption ==
  /\ {SnapshotEnabled, CreateSnapshots, OverwriteSnapshots} \subseteq BOOLEAN
  /\ Missing \notin Values /\ Stored \subseteq Values \cup {Missing}

VARIABLES
  events,          \* runtimeEvents, the counts as whether there was one
  stream,          \* reportStream: whether there was a start, an end, a data frame
  report,          \* report holds the tree that was sent
  store,           \* SnapshotStore: the value of the one key, failed, dirty
  saved,           \* the value of the key in the snapshot file
  result           \* what readFileReport makes of the report returned

eventVars == <<events, stream, report>>
storeVars == <<store, saved>>
vars == <<runtimeVars, eventVars, storeVars, result>>

TypeOK ==
  /\ TypeOKRuntime
  /\ events \in [fileStart : BOOLEAN, fileEnd : BOOLEAN, verdict : Verdict,
                 suites : BOOLEAN, fails : BOOLEAN]
  /\ stream \in [start : BOOLEAN, end : BOOLEAN, data : BOOLEAN]
  /\ report \in BOOLEAN
  /\ store \in [value : Values \cup {Missing}, failed : BOOLEAN, dirty : BOOLEAN]
  /\ saved \in Values \cup {Missing}
  /\ result \in {"pending", "empty", "none", "skip", "ok", "fail"}

Init ==
  /\ InitRuntime
  /\ events = [fileStart |-> FALSE, fileEnd |-> FALSE, verdict |-> "none",
               suites |-> FALSE, fails |-> FALSE]
  /\ stream = [start |-> FALSE, end |-> FALSE, data |-> FALSE]
  /\ report = FALSE
  /\ saved \in Stored
  /\ store = [value |-> saved, failed |-> FALSE, dirty |-> FALSE]
  /\ result = "pending"

-------------------------------------------------------------------------------
(* onCall and onDataMessage *)

\* A frame of one of these kinds is taken from the pipe.
Take(kinds) ==
  /\ wire # <<>> /\ Head(wire).kind \in kinds
  /\ wire' = Tail(wire)
  /\ UNCHANGED <<runs, stage, treeVars, asked, exit, saved, result>>

OnEvent ==
  /\ Take({"assert-fail", "file-start", "file-end", "suite-start", "suite-end"})
  /\ LET kind == Head(wire).kind IN
     events' = [events EXCEPT !.fails = @ \/ kind = "assert-fail",
                              !.fileStart = @ \/ kind = "file-start",
                              !.fileEnd = @ \/ kind = "file-end",
                              !.suites = @ \/ kind \in {"suite-start", "suite-end"},
                              !.verdict = IF kind = "file-end" THEN Head(wire).verdict ELSE @]
  /\ UNCHANGED <<stream, report, store, reply>>

OnCoverageDetail ==
  /\ Take({"coverage:detail"})
  /\ reply' = "1"
  /\ UNCHANGED <<eventVars, store>>

\* Seeded fault: a missing snapshot is not answered.
OnSnapshotUnanswered ==
  /\ Take({"snapshot:assert"})
  /\ reply' = IF store.value = Missing THEN "none" ELSE "1"
  /\ UNCHANGED <<eventVars, store>>

\* SnapshotStore.assert: a missing snapshot is created and a different one
\* overwritten if the flags say so; else the assertion fails.
OnSnapshotAssert ==
  /\ Take({"snapshot:assert"})
  /\ LET actual == Head(wire).actual
         known == store.value # Missing
         equal == store.value = actual
         writes == /\ SnapshotEnabled /\ ~equal
                   /\ IF known THEN OverwriteSnapshots ELSE CreateSnapshots
         ok == ~SnapshotEnabled \/ equal \/ writes
     IN /\ store' = [value |-> IF writes THEN actual ELSE store.value,
                     failed |-> store.failed \/ ~ok,
                     dirty |-> store.dirty \/ writes]
        /\ reply' = IF ok THEN "1" ELSE "0"
  /\ UNCHANGED eventVars

OnReportStart ==
  /\ Take({"report:start"})
  /\ stream' = [stream EXCEPT !.start = TRUE, !.end = FALSE]
  /\ UNCHANGED <<events, report, store, reply>>

OnReportEnd ==
  /\ Take({"report:end"})
  /\ stream' = [stream EXCEPT !.end = TRUE]
  /\ UNCHANGED <<events, report, store, reply>>

\* A chunk is kept for the end; any other payload is the report.
OnDataMessage ==
  /\ Take({"data"})
  /\ stream' = [stream EXCEPT !.data = TRUE]
  /\ report' = (report \/ ~(stream.start /\ ~stream.end))
  /\ UNCHANGED <<events, store, reply>>

OnOther ==
  /\ Take({"coverage", "close"})
  /\ UNCHANGED <<eventVars, store, reply>>

Handle ==
  \/ OnEvent
  \/ OnCoverageDetail
  \/ OnSnapshotAssert
  \/ OnReportStart
  \/ OnReportEnd
  \/ OnDataMessage
  \/ OnOther

-------------------------------------------------------------------------------
(* The process has closed *)

Closed == ~alive /\ wire = <<>> /\ result = "pending"
Crashed == exit = "crashed"
Spawned == exit # "unspawned"
TornReport == stream.start /\ ~stream.end
HasReport == report \/ (stream.start /\ stream.end)

\* flush, and the verdict of the file
Settle(verdict) ==
  /\ result' = verdict
  /\ saved' = IF store.dirty THEN store.value ELSE saved
  /\ UNCHANGED <<runtimeVars, eventVars, store>>

\* readFileReport: every suite and expectation of the tree, merged once more.
ReadFileReport ==
  Worst(UNION {{blocks[i].verdict} \cup {blocks[i].tests[t] : t \in DOMAIN blocks[i].tests} : i \in Ids})

\* createRuntimeFailureReport
StartFailed == Closed /\ ~Spawned /\ Settle("fail")

BadPayload == Closed /\ Spawned /\ TornReport /\ Settle("fail")

\* appendRuntimeFailureReport to the report, or the report as it is
Reported ==
  /\ Closed /\ Spawned /\ ~TornReport /\ HasReport
  /\ Settle(IF Crashed THEN "fail" ELSE ReadFileReport)

NoReport == Closed /\ Spawned /\ ~TornReport /\ ~HasReport

\* Seeded fault: a file that ended is taken at its word, whatever the exit code.
SynthesizedHasty ==
  /\ NoReport /\ (events.fileEnd \/ events.suites)
  /\ Settle(IF ~events.fileEnd THEN "fail" ELSE events.verdict)

\* synthesizeReportFromRuntimeEvents
Synthesized ==
  /\ NoReport /\ (events.fileEnd \/ events.suites)
  /\ Settle(IF ~events.fileEnd \/ Crashed THEN "fail"
            ELSE IF events.verdict # "none" THEN events.verdict
            ELSE IF events.fails THEN "fail" ELSE "ok")

NothingSeen == ~events.fileEnd /\ ~events.suites /\ NoReport

\* createEmptyFileSkipReport
EmptyFile ==
  /\ NothingSeen /\ ~Crashed /\ ~stream.data /\ ~events.fileStart
  /\ Settle("empty")

\* "test runtime exited without sending a report"
NoReportSent ==
  /\ NothingSeen /\ (Crashed \/ stream.data \/ events.fileStart)
  /\ Settle("fail")

Evaluate ==
  \/ StartFailed
  \/ BadPayload
  \/ Reported
  \/ Synthesized
  \/ EmptyFile
  \/ NoReportSent

Next ==
  \/ RuntimeNext /\ UNCHANGED <<eventVars, storeVars, result>>
  \/ Handle
  \/ Evaluate

\* The code of the spec may be slow for ever, what it is made of is not; the process
\* need not die.
Spec ==
  /\ Init /\ [][Next]_vars
  /\ WF_vars(Work /\ UNCHANGED <<eventVars, storeVars, result>>)
  /\ WF_vars(Handle) /\ WF_vars(Evaluate)

-------------------------------------------------------------------------------
(* Properties *)

\* A file that reached run() and is not reported as failed has run to its end in a
\* process that left in order, and no suite that ran holds a failed matcher: neither
\* an early exit with code 0 nor a report made up from events hides one.  And it is
\* reported as failed only if a matcher failed, or the process failed to start,
\* crashed, or left between run() and the end of its report.
ResultHonest ==
  /\ events.fileStart /\ result \notin {"pending", "fail"} =>
       /\ ~Crashed /\ events.fileEnd
       /\ \A b \in Ids : blocks[b].ran => ~blocks[b].failed /\ blocks[b].state = "closed"
  /\ result = "fail" =>
       \/ \E b \in Ids : blocks[b].failed
       \/ Crashed \/ ~Spawned
       \/ events.fileStart /\ stage # "reported"

\* "A file that does have suites always emits file-start before anything can go
\* wrong, so this only ever fires for genuinely empty files" (CHANGELOG.md): a file
\* reported as empty has evaluated nothing.
EmptyFileIsEmpty == result = "empty" => \A b \in Ids : blocks[b].tests = <<>>

\* Every request is answered and every run of a spec ends with a result, if its code
\* does: the runtime waits for its replies without a timeout.
RunSettles == <>(result # "pending")
===============================================================================
