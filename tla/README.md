# A TLA+ model of as-test

as-test (version 1.8.0) is a test framework for AssemblyScript: `ast test`
compiles every spec file to a `.wasm`, runs it in a runtime, and reports.  The
parts of it that are hard to get right are on the CLI side, in TypeScript: a
pool of build processes, loops that build and run in parallel, a watch loop, a
dependency graph, an incremental cache, a browser session; and between CLI and
test, in both languages: the channel, and how the verdict of a file comes about.
This directory models them in TLA+, checks the models with TLC, and proves the
main results with TLAPS.  Paths are relative to the repository root.
`src/cli/index.ts` holds a NUL byte (line 2787, the separator of a key), which some
tools take for binary data: `tr -d '\000'` removes it and keeps the line numbers.

    tlc -workers 2 -config MCWatchLoop.cfg MCWatchLoop    # one run
    tlapm BuildWorkerPoolProofs.tla                       # one proof module

`PROJECT.json` lists the components, runs, seeded faults ("mutants"), theorems,
hazards, findings, and for every definition the source lines it models.


## 1. Inventory

| Part | Source | State | Operations | Modules |
|---|---|---|---|---|
| Build worker pool | `src/cli/build-worker-pool.ts`, `build-worker.ts` | a queue and workers per build signature; one task per worker; the children | `buildFileMode`, `close`, "message", "exit"; child: build, answer, die | `BuildWorkerPool`, `BuildService` |
| Dependency graph | `src/cli/dependency-graph.ts` | `specToFiles` and `fileToSpecs` | `recordBuild`, `forget`, `clear`, queries | `DependencyGraph`, `DependencyRelation` |
| Orchestration | `src/cli/index.ts` 1437-1660 and the parallel runners | next index, first error, active count, waiters, results | `runOrderedPool`, `createAsyncLimiter`, `buildFileForMode` | `ParallelRun`, over `BuildService` |
| Watch loop | `src/cli/index.ts` 2435-2994 | pending trigger, debounce timer, `isRunning`, pause, failing specs, graph, watchers | file events, keys, timer, run start and end, `ctrl+c` | `WatchLoop` |
| Build and replay cache | `src/cli/build-cache.ts`; its users in `commands/build-core.ts`, `commands/run-core.ts`, `index.ts` | the manifest on disk and in memory, report files, `.wasm` files | load, freshness check, record, replay, prune, save, clean | `BuildCache` |
| Web session host | `src/cli/commands/web-session.ts`, its caller in `commands/run-core.ts` | the socket, `ready`, `closed`, the current job; the page and its worker | `start`, `runJob`, control messages, `close`, socket and browser events | `WebSession`, `WebService` |
| WIPC channel | `src/cli/wipc.ts`, `src/assembly/util/wipc.ts` | the receive buffer, the pipe | `sendFrame`, `onData` | `WipcChannel` |
| Assembly test runtime | `src/assembly/index.ts`, `src/assembly/src/suite.ts`, `expectation.ts` | the tree of suites, the current suite, the request that waits | `describe`, `test`, `expect`, `run`, requests, the report | `SpecRuntime` |
| Runtime report assembly | `src/cli/commands/run-core.ts` 2266-3126 | event counts, report chunks | frames, requests, process exit | `RuntimeReport`, over `SpecRuntime` |
| Snapshot store | `src/cli/commands/snapshot-store.ts` | map of snapshots, counters, `dirty` | `assert`, `flush` | one key, in `RuntimeReport`; its file, in `BuildCache` |
| Fuzzing | `src/cli/commands/fuzz-core.ts`, `src/assembly/src/fuzz.ts` | seed, iterations, crash records | run, replay | not modelled |
| Compiler transform, configuration, reports and coverage, setup commands | `src/transform`, `src/cli/util.ts`, ... | - | - | not modelled |

How they interact.  `ast test` takes the spec files through the loops of
`runOrderedPool`; for each spec and mode a loop calls `buildFileForMode` and
`run()`.  The build is done in process or by the worker pool; it asks the cache
first (`isBuildFresh`) and records its reads in the cache afterwards.  `run()`
asks the cache for a report to replay, or runs the `.wasm`, in a child process or
through the web session.  The child writes frames into its standard output, which
`Channel` finds again, and waits for the replies to its requests (snapshots,
coverage); when it is gone `runProcess` makes a verdict of the report, the events,
the exit code and stderr.  `ast test --watch` calls the same functions from
`runWatchLoop`, which collects the reads of the builds into the dependency graph
(from the pool they come with the "done" message) and decides from it what the
next edit re-runs.

What is hard, and what makes each part correct:

* **Pool.**  Children die between any two messages, answers arrive after exits
  and exits after answers, `close` meets running builds, and every handler also
  pumps the queue.  Correct: each call settles once, as fulfilled only if its own
  artifact was built; no call waits beside an idle worker; nothing is left
  waiting when `close` resolves.
* **Graph.**  Two indices updated incrementally, by re-recording and forgetting.
  Correct: they are inverse to each other after any sequence of calls.
* **Orchestration.**  An async semaphore whose waiters resume a microtask later
  than their slot is freed; loops that throw while others are in flight.
  Correct: every file is settled or the command throws, the summary says of each
  task what happened to it, and the command ends with nothing in flight.
* **Watch loop.**  Edits, keys, the timer and the end of runs interleave at every
  await, also while the initial run is in progress.  Correct: no trigger is lost in
  silence, what an edit starts comes to an end, the sticky failing set and the exit
  code say what the last builds said, even where two runs overlap.
* **Cache.**  Files written at once and a manifest written at the end, while
  users edit, revert, delete, kill sessions and switch options.  Correct: the
  cache changes no verdict.
* **Web session.**  One browser, tabs that replace each other, control messages,
  frames and replies without job identity, close from five sides.  Correct: each
  job settles, by its own messages; a failed session refuses what follows.
* **WIPC.**  Frames inside ordinary output, in chunks cut anywhere, by a runtime
  that may die in the middle of one.  Correct: frames in order, none invented,
  none lost, and no byte of output lost or moved.
* **Runtime and report.**  Verdicts merged up a tree that is being built, skipped
  and focused; a process that may leave at any point with any code.  Correct: a
  file passes only if it ran to its end and nothing in it failed.

`PROJECT.json` "hazards" has these one by one, each at the line where it bites.


## 2. The modules

### BuildWorkerPool, BuildService

`BuildWorkerPool` has one action for each handler of the class and of the child:

| Action | Code |
|---|---|
| `BuildFileMode`, `BuildFileModeClosed` | `buildFileMode` on an open, on a closed pool (with `getPool`, `buildSignature`) |
| `OnMessage`, `OnMessageIgnored` | the "message" listener and its early returns |
| `OnExit`, `OnExitClosed` | the "exit" listener, before and after `close` |
| `Close` | `close`; it resolves when every child is "exited" |
| `BuildDone`, `BuildError` | the two ends of a build in `build-worker.ts` |
| `Die` | the child process ends: killed by `close`, or by itself |
| `Pump` (in all of these) | the loop of `pump`, as a whole, and as a relation: the first idle workers take the head of the queue |

JavaScript handlers run to completion, so each is one step; the children are
processes of their own and step between any two handlers.  A message of a child
that was replaced stays in flight as `stale`: its listener belongs to the old
worker object, which holds no task.  When `pump` sends to a child that is dead
but whose exit has not been handled, `child_process` emits "error" on an object
without such a listener and the CLI ends; this is `hostUp = FALSE`.

`BuildService` is what callers may rely on: a promise per call, settled once,
fulfilled only when the artifact exists, and settled at all while the CLI lives.
Workers, queues and messages do not appear.  `ImplementsService` is the
refinement; promises, artifacts, `closed` and `hostUp` map to themselves.

### DependencyGraph, DependencyRelation

`RecordBuild`, `Forget` and `Clear` update both indices as the code does,
entry by entry, with removal of emptied sets.  The queries are operators and are
compared with what the forward index says.  `DependencyRelation` keeps the set of
known builds and one relation, "the files the last recorded build of b read"; the
refinement maps the relation to the *reverse* index, the one the queries use.
`Resolve` stands for `path.resolve`: several spellings of a path are one file.

### ParallelRun

The loops (`runWorker`) of `runOrderedPool`, with `createAsyncLimiter` where the
command uses it.  What stands between two awaits is one action: `Take` (the next
index, and entry into the limiter or its queue), `RequestBuild`, `SkipBuild`,
`Built`, `BuildFailed` (`buildFileForMode`: a failed build is a result, anything
else is thrown), `Ran` (the end of `run()`, with the `finally` that releases the
slot), `Wake` (the continuation of a waiter, a turn after its slot was freed, in
which another loop may have taken it), `Stop`, `End`.  The pool of builds is there
by what `BuildService` promises, as an instance: `ParallelRun` composes with the
specification that `BuildWorkerPool` implements.  `Commands` says how many files
and modes, and whether the limiter is used (`ast run` without modes) or the build
service (the others).

### WatchLoop

`StartRun` is `doRun` up to its first await with the choice of targets;
`Build`, `Outcome`, `Throw` are the run in progress; `EndFirstRun` and
`EndLoopRun` the code after the await (merging reads, adding watchers, taking the
next trigger); `TimerIgnored`, `TimerStarts`, `Edit` (with `FileEvent` and
`Schedule`), `PressRun`, `PressW`, `PressC` are the callbacks.  The two places
that await a run, the initial `doRun` and the one in `triggerRerun`, are the two
run slots: the first does not set `isRunning`, so an edit during it starts a run of
the loop beside it, and the two go on together.  The graph is used by what
`DependencyRelation` says of it.  `Parallel`, `FuzzEnabled` and `WarmCache` are
the ways in which a build may fail to report its reads; `Fragile` and `Rewired` are
bounds: the sources that an edit may break or mend, the specs of which it may change
the imports.

Three history variables.  `dirty` are the specs that have no verdict on what they are
now: changed since they were last built, or with a verdict that was cleared or never
counted.  `raced` are those that two runs held at once, until they are built again:
one run executes what the other has written, and its verdict may be any.  `missed`
says that one of four gaps has been used since a run of everything was started:

| Gap | How |
|---|---|
| `Lost` | the pending trigger was replaced, by another change or by a retry (the latter is documented) |
| `Edit`, unwatched | the edited helper's directory had no watcher |
| `Unrecorded` | a changed spec reads the edited file and the graph does not know it: its build failed in a worker process, which loses the reads, or the cache skipped it |
| `Throw` | the run ended with "Error:" |

`QuietMeansFresh` says that this list is complete.  It does not say that the gaps are
harmless: each of them makes an edit go unnoticed.

### BuildCache

A session loads the manifest (`Begin`), for each spec skips or starts the build
(`StartBuild`), ends it (`EndBuild`, `FailBuild`), replays a report (`Replay`) or
runs the `.wasm` (`StartRun`, which loads the snapshots; `EndRun`, which flushes them
and takes the fingerprint of their file; `Throw`), prunes and saves (`End`), or is
killed (`Kill`).  Users edit, touch, revert and delete sources and change snapshots
at any moment, also while they are compiled or run; between sessions they remove the
output, run `ast clean`, and update as-test.  A session kind says which tier of the cache is on, whether
there is a custom build command, the build signature, the runtime command,
whether snapshots are written, whether suites are selected, which specs it is
about and whether it prunes.  Size and modification time of a file are one stamp,
new at every edit, and two files with the same content have the same hash.

The history variable `due` is what a build in this session, without a cache,
would have produced; `gap` tells why a spec's files and its saved entry may
disagree:

| gap | how |
|---|---|
| uncached | a session without the cache rebuilt the `.wasm`; after a revert the manifest calls it current |
| custom | a session with a custom build command did |
| killed | the session ended before it saved the manifest |
| edited | a source was edited between its compilation and its fingerprint |
| partial | a run of some suites stored its report as the report of the spec |
| resnapped | the snapshots were edited while the spec ran: the report of the old ones was stored with the fingerprint of the new |

`WasmCurrent` and `Truthful` say that, these apart, sessions run the right
`.wasm` and report what they would report without the cache.

### WebSession, WebService

Three parties.  The *host*: `Close` (in all its users: `Disconnected`,
`BrowserExits`, `TerminalCloses`, `Continue`, `Finish`), `TerminalExits` (the
`process.exit` that `exitFromTerminalClosure` makes when its `close` is through; what
is under way may still be settled in between), `Open` (the upgrade),
and one action per message, `OnReady` ... `OnError`.  The *caller*, the loop of
`run()`: `Submit` is `runJob` up to its promise, `Continue` what
`runWebSessionProcess` does after it.  The *tab*: `PageRelays` and `PageReceives`
of the page, `WorkerReceives`, `Instantiate`, `Ask`, `ReadReply`, `RunToEnd`,
`Trap` of its worker, which takes no message while it is inside the WASM.  Each
socket and each worker port is a queue.  The host talks to the tab that connected
last and hears all of them; the fields `job` and `n` of a message are history, by
which properties tell whose it was.

`WebService` is the service without sockets: jobs in order, one at a time,
resolved only if their own runtime ran to its end, and a session that is broken
for good by its first failure.  `ImplementsService` is the refinement.

### WipcChannel

`WriteFrame`, `Print_`, `TearFrame`, `WriteOn` are the runtime: frames, other
output, a write that fails in the middle of a frame (`wasiWriteAll` just returns),
and what the runtime, which does not learn of it, writes behind.  `Receive(n)` appends
a chunk of any length to the buffer; `NoMagic`, `SkipToMagic`, `AwaitMore`, `Resync`,
`Dispatch` are the branches of one iteration of `onData`'s loop.  Bytes are numbers,
the magic a short sequence, the length one byte.  History variables remember what was
written (`written`), what the callbacks were given, call after call, with frames
spelled out from what their handler got (`delivered`), what was sent ahead of a torn
frame (`sentFrames`, `sentOutput`; `stream` says how far that is), and whether output
spelled the start of a frame (`coincidence`).

### SpecRuntime, RuntimeReport

`SpecRuntime` is a spec at work.  Its program is not fixed: whatever code is
running may register a block (`Register`), evaluate a matcher (`Expect`, chained
or not), ask for a snapshot, or return.  `BeginRun`, `SkipBlock`, `CallBlock`,
`Return`, `CloseBlock`, `EndFile` are `run()` and `Suite.run`, with the merging of
verdicts; `AskCoverage`, `SendCoverage`, `SendReport` the end of the file; `Die`
and `FailToSpawn` the process.  A write waits while the pipe is full, a request
waits for its reply.

`RuntimeReport` extends it by the CLI: `OnEvent`, `OnSnapshotAssert` (with
`SnapshotStore.assert`), `OnCoverageDetail`, `OnReportStart`, `OnReportEnd`,
`OnDataMessage`, `OnOther` take one frame each; when process and pipe are done,
one of `StartFailed`, `BadPayload`, `Reported`, `Synthesized`, `EmptyFile`,
`NoReportSent` decides, in the order of `runProcess`, and the snapshots are
flushed.  That frames arrive whole and in order is what `WipcChannel` shows.

## 3. The runs

Runs that pass:

| Run | Instance | States | What it shows |
|---|---|---|---|
| `build_worker_pool` | 4 calls, 1 signature, 2 workers, 2 deaths | 348,946 | all properties of the pool and the refinement, with liveness |
| `dependency_graph` | 2 specs, 2 modes, helper with 2 spellings, 1 compiler file | 625 | the indices are inverse, the queries exact, the refinement |
| `parallel_run` | 3 loops; 4 files through a limiter of 1, and 2 files in 2 modes | 71,660 | the summary is what happened, nothing is in flight at the end, the command ends |
| `watch_loop` | 2 specs, 1 helper outside the inputs, config, worker builds, a warm cache for one spec, 2 edits at any time | 806,613 | no lost wake-up, verdicts and exit code, completeness of the gaps, every trigger is taken, runs cease |
| `build_cache` | 1 spec and its helper, 2 contents, 7 session kinds, 2 edits of sources or snapshots at any time | 3,584,894 | completeness of the gaps; the saved manifest describes the files |
| `web_session` | 2 tabs, 3 specs, 2 requests per spec, a launched browser | 173,506 | jobs do not mix, none blocks the next, all settle; the refinement |
| `wipc_channel` | a magic of 2 bytes, 4 items, payloads of at most 2 bytes, 5 things written behind a torn frame | 906,845 | every byte written is given to a callback once and in order; frames and output come out as they went in, whatever the cuts; everything is read |
| `runtime_report` | 3 blocks, plain or focused, 2 matchers, 2 snapshot values, a pipe of 1 write | 1,159,812 | verdicts are truthful in the tree, at the CLI and through every exit; every run ends with a result |

Why these bounds are enough:

* *Pool.*  Four calls on two workers are the least that leave two in the queue,
  whose order then matters, behind two builds whose ends race; with a second
  death the replacement of a worker dies too.
  Pools of different signatures share nothing but `closed`.  The proofs are for
  any number of calls, signatures, workers and deaths.
* *Graph.*  One re-recording with a changed read set, in two modes, with specs
  that read each other, covers every branch; the proofs are for all files.
* *Parallel run.*  Three loops and one slot leave two in the queue, so that one
  overtakes while another is woken; four files make a loop come back.  Two files
  in two modes give builds that fail, are skipped and are refused beside a loop
  that throws.  The proofs are for all sizes.
* *Watch loop.*  Two edits are the least for one trigger to replace another, for a
  second run to meet a change, and for a break and its repair; with two specs a
  scoped run leaves something out.  Both import the helper; the cache has an entry of
  one, which is never recorded in the graph while it lasts, and of which an edit may
  change the imports; the other reports its reads from a worker process, or loses them
  if the helper breaks it.  An edit may come during the initial run and start a second
  run beside it.  The proofs are for any specs, imports, flags and numbers of edits.
* *Cache.*  Two edits make a change and its revert.  Entries of different specs
  share only the manifest: sessions about other specs are the kind `Other`.  Two edits
  also change the snapshots during a run and back after it.
  A source without its helper does not compile, so failing builds occur.
* *Web session.*  The second tab replaces the first; a third one would be to the
  second what that is to the first.  Three specs: one fails, the next is refused,
  and one more after it.  With two requests a late reply finds the next one.
* *WIPC.*  Items are frames, torn frames and pieces of output; the pieces spell
  the magic in one piece and in two, before a type, an unknown type, a length
  that is too large.  Four items put a coincidence before, between and after
  frames, or leave three for what follows a torn one: among `Following` are whole
  frames, the beginning of one, and bytes that fill the payload of the torn frame, so
  that what is dispatched there is none of the frames sent.  The magic has distinct
  bytes, as "WIPC" has; two are the least that a chunk can cut.
* *Runtime report.*  Three blocks make a chain of three and two siblings under a
  parent, one of them focused, so that the others are skipped, or failing; a
  snapshot is missing, then created, then compared; two matchers chain.  A pipe of
  one write makes the runtime wait for the CLI everywhere.  Kinds that are skipped by
  themselves take the step that focus makes the others take, and the proofs are for
  all kinds.

Runs that find a disagreement between the code and what its comments or its
changelog say ("findings" in `PROJECT.json` quotes them):

| Run | Property | What happens |
|---|---|---|
| `watch_loop_overlap` | `OneRun` | an edit during the initial run is not queued for the next iteration: a second run starts beside the first |
| `cache_custom_build` | `CustomBypasses` | with a custom build command a stored report is replayed for a spec that has changed |
| `web_session_disconnect` | `DisconnectFails` | the browser goes after the report and before "done": the job is rejected, the spec passes |
| `runtime_empty_file` | `EmptyFileIsEmpty` | a file with top-level expectations only is reported as empty and skipped |

`cache_custom_build` violates what the passing run shows, with one gap taken off the
list.  The overlap is in the passing run of the watch loop too: `VerdictCurrent` and
`HonestExit` say what remains true then.

Deadlock is checked for the graph, the watch loop and the cache, which never stop.
The others end: the pool when it is closed and its children have exited, or when
the CLI has died; the session when it is closed and its tabs are gone; the stream
when all is written and read; a spec process and a command when they have their
result.


## 4. Fairness

* *Pool:* the event loop delivers each message and exit; a build ends (the
  compiler terminates); a child that was sent SIGTERM by `close` dies.  Nobody is
  obliged to call `buildFileMode` or `close`, and no child to die unasked.
* *Parallel run:* every turn that is due is taken, every spec that runs ends
  (`RunSettles`, `JobsSettle`), and the service settles its promises (the liveness
  half of the pool's `ImplementsService`).
* *Watch loop:* builds and runs end, and an armed timer fires.  Nobody is obliged
  to edit or to press a key.  `TriggersTaken` would not hold if edits could keep
  restarting the timer for ever: the bound on edits excludes that.  `RunsCease` takes
  as its premise that the keys that start a run, or pause the loop, are not pressed
  for ever.
* *Web session:* sockets deliver or report their end, pages and workers go on,
  specs terminate.  Nobody has to open a tab, to leave it, or to close anything.
* *WIPC:* what is in the pipe is read, and `onData` goes on.  Nobody has to write.
* *Runtime report:* the runtime's own steps, the frames and the evaluation.  The
  code of the spec (`Code`) may be slow for ever, what it is made of is not, and
  no process is obliged to die.
* *Cache and graph:* safety only; a session may take as long as it likes.

## 5. The proofs

Each proof module proves, for all values of the constants, that a strengthened
invariant is inductive, one lemma per conjunct, and takes the properties from it.

| Module | Invariant | Proved |
|---|---|---|
| `BuildWorkerPoolProofs` | `TypeOK /\ Lifecycle /\ OnePlace /\ Answers /\ WorkConserving /\ NoFalseSuccess` | `OnePlace`, `WorkConserving`, `OneBuildPerChild`, `NoFalseSuccess`, `CloseSettles`, `NoOvertaking`, the safety half of the refinement |
| `DependencyGraphProofs` | `TypeOK /\ IndexExact /\ OwnFile` | `IndexExact`, `AffectedExact`, the refinement |
| `ParallelRunProofs` | `IInv` | `ResultsHonest`, `EndsQuietly` |
| `WatchLoopProofs` | `Typed`, `RunningExact`, `FirstEnded`, `Rested`, `Remembered`, `Accounted` | `NoLostWakeup`, `VerdictCurrent`, `HonestExit`, `QuietMeansFresh` |
| `BuildCacheProofs` | `Typed /\ Stamps /\ Saved /\ Consistent /\ Current` | `WasmCurrent`, `Truthful`, `DiskConsistent` |
| `WebSessionProofs` | `Typed`, `Connected`, `OneJob`, `InOrder`, `Named`, `WholeSession`, `OwnReports`, `OneRequest` | `ConnectedWhileOpen`, `OwnMessages`, the refinement of `WebService` |
| `WipcChannelProofs` | `TypeOK /\ Conserved /\ Idle`, and `Exact` (`Placed` or `Past`) while there is no coincidence | `Conserved`, `ChannelExact` |
| `RuntimeReportProofs` | `TypeOK /\ Tree /\ Blame /\ Merged /\ EventFrames /\ ReportFrames /\ Settled` | `ResultHonest`, `VerdictTruthful` |

and `TypeOK` everywhere.

*Pool.*  `OnePlace` alone is not inductive: that a "message" settles the right
task needs `Answers`, which says where the builds and the answers in flight of a
child are (a build in progress, or a fresh answer, is always of the task of its
worker, and never both), and that a closed pool leaves nothing behind needs
`Lifecycle` (workers exist exactly where their pool does; only an open pool has a
queue; an exited worker holds no task).  Since every handler ends in `Pump`, its
effect is stated once, by lemma: which tasks move from the queue to which
workers, that none is lost or doubled (`PumpEffect`, `PumpConserves`), and that a
queue left over means busy workers.  `ImplementsServiceSafely`: each step of the
pool is a step of `BuildService` or leaves its variables alone.

*Graph.*  `OwnFile` (a recorded build read its own spec file) is what tells a
recorded build from one that is not by its read set.

*Parallel run.*  The count `active` has to be accounted for: it is the number of
loops that run through the limiter, and the loops that wait are those in the queue
and those woken, each once.  Every file below `nextIndex` is held by one loop or has
its results; a loop holds a file that no other holds, of which the verdicts so
far are those in `ran`.

*Watch loop.*  No theorem assumes when edits come.  For `NoLostWakeup` it is enough
that every trigger arms the timer and that a timer which fires in vain does so in a
run.  `HonestExit` needs that `isRunning` is about the loop's own run
(`RunningExact`) and that the keys are heard only after the initial one (`FirstEnded`).
For the verdicts, `Remembered` says of one that a run has formed and not counted yet
that it is about the sources as they are, unless the spec is dirty or the other run has
rebuilt it (`raced`); a run that is over holds none (`Rested`).  `QuietMeansFresh`
needs to know who is to blame for each changed spec at every moment: `Accounted` says
that as long as no gap was used, a dirty spec is still to be built by a run, or by the
edits made while paused, or by the pending trigger, which has to name a file that the
spec reads.

*Cache.*  `Stamps`: a recorded stamp that equals the file's means the same
content.  `Saved`: what a session has in memory is what is on disk, unless it is
marked dirty.  `Consistent` is `DiskConsistent` extended to sessions that run:
either the manifest describes the files, or the session holds a newer entry, or
a gap says why not.  `Current` is the same for the `.wasm` the session is about to
run, and for what came of it: what `EndRun` stores is the report of the snapshots that
`StartRun` loaded, with the fingerprint of those that are there, and where the two
differ the gap is open.

*Web session.*  The host has a connected socket because the end of any socket
closes it, and `currentJob` is set exactly where a promise is pending because one
job is submitted at a time.  `OwnMessages` and the refinement need to know where the
work on the current job is.  `WholeSession`: as long as nothing has failed it is in
exactly one place, the order on its way to the page, the worker, or its words on the
way back, and these come as loaded, started, reported, done, each once and the report
never after "done".  After a failure there is no current job, and `Named` (every
message carries the name of a job that was submitted, and the current one is the last)
makes the late words of the old one ones that nobody takes up.  `OneRequest`: with one
tab, a request of the runtime and its reply are in one place together and the reply is
for the one that is waited for; a second tab is the exception that the property names.
`ServiceImplemented` takes the steps one by one: `Submit` begins a job of
`WebService`, "done" resolves it, which is right because "done" is only said of a spec
that ran, an error or the end of the socket breaks the session, `RunToEnd` completes
the run, and every other step leaves the promise of the session alone.

*WIPC.*  `Conserved` ties what the callbacks were given to what was written.  Each
branch of `onData` leaves the buffer alone or gives a prefix of it to `onPassthrough` or to
a handler; for the handlers, `DispatchSpells` shows that a frame, spelled out
from the type and the payload that the handler got, is just the bytes that stood at the
head of the buffer.  `ChannelExact` needs to know where things stand in the stream.  `Layout` says of the writer that there are numbers
for each frame (where the text after it begins and ends, and how many bytes of frames
come before) such that the stream reads text, frame, text, frame, ... text and then
perhaps the beginning of a torn frame with anything behind it, and that no text holds a
magic with the header of a frame; `Position` says that the reader stands in the text
after the last frame it dispatched.  `Placed` is that such numbers exist; a step of the
writer gives longer ones, a step of the reader keeps them.  A branch of `onData` never
passes the magic of the next frame (`NotPast`: it would have been found), takes nothing
before it for a frame (`InText`), and at it takes exactly that frame (`AtFrame`).  At a
torn frame behind which more was written it may take anything, but by then it has
dispatched and passed on all that was sent ahead, and that stays (`Past`, `PastStays`).  The
case a test would hardly reach is a magic at the end of the text, whose "header" is cut
from the frame that follows (`Ahead`, `Unlikely`): the bytes of the magic are distinct,
so the two do not overlap, and `HeaderAssumption` (no type is a "W", and a length with a
byte of "WIPC" as its highest is above `MAX_FRAME_SIZE`) makes such a header implausible.
`Idle` says why `onData` returned; with the pipe empty it leaves no complete frame and,
if nothing was torn, less than a header.

*Runtime and report.*  Two processes meet in `ResultHonest`.  On the side of the
spec, `Tree`: what runs is a path of open suites, so that a callback, a request or a
closing suite is always the innermost; `Blame`: a failure in a suite that ran is in
the verdict of the file, or in a suite that still runs, or in the verdict of one of
its children.  (Stated so, closing one suite moves the failure up by one level, and
no induction over the tree is needed.)  Between the two, `EventFrames`: what the
host has seen or has still to read is what the spec has done, the verdict in
`file-end` is that of the file; `ReportFrames`: a chunk comes after the start of its
report, an end after it, so that a report that is held or complete means that the
spec was through.  When the process is gone and the pipe is empty nothing is left to
read, and each branch of `runProcess` decides from that.

`VerdictTruthful` speaks of everything nested below a suite, to any depth, the
invariant `Merged` of one level: a suite that has run closes after its children and
with the verdict merged from theirs, and nothing that never ran holds a matcher or a
child (but the suite of the top level).  What lies between is an induction over the
tree, which the library states for operators only, out of the provers' reach.
`LastOne` replaces it: a set of blocks, that is of numbers, has a last one, because the
subsets of a finite set are well-founded.  With it `UnderFacts` shows that the recursive
`Under` is what it is meant to be, the smallest family around a block; the blocks whose
verdict is no failure are a family, those with nothing passed are one, and the last
failing block below a failing suite can only have failed by itself.

Assumptions are those named in the modules, and TLC evaluates them in the runs:
`SignatureAssumption`, `SizeAssumption` (a pool has a worker), `NoTaskAssumption`,
`DeathsAssumption`; `ResolveAssumption` (resolving is a function on paths),
`SpecPathAssumption`, `UninterestingAssumption`; `FileAssumption`,
`SessionAssumption`, `NoneAssumption` (None is no trigger, no fingerprint, no tab),
`RuntimeAssumption`, `FlagAssumption`; `MagicAssumption`, `HeaderAssumption`,
`PayloadAssumption` (the payload of a CALL parses, and none is above the bound), and the
like.

Only model-checked: liveness, which is out of reach of the prover used (the
liveness half of the pool's `ImplementsService`, `TriggersTaken`, `RunsCease`, `JobsSettle`,
`RunSettles`, `RunEnds`, `ComesToRest`).  Every safety property of a
run that passes is a theorem.

## 6. What is not modelled

* *Pool:* a second `close` (every caller closes once, in a `finally`); the forms
  of the messages; the environment a child sets for a build.
* *Orchestration:* the sequential runners; what is displayed while loops run
  (`ParallelQueueDisplay`); the parallel runners of `ast fuzz`.  (`--run-jobs` does
  not limit `ast test` and `ast run` with modes; the model has the width as the code
  does.)
* *Watch loop:* creation and deletion of spec files, ignore rules, several modes,
  events that arrive late or twice, quitting in the middle of a run.
* *Cache:* selection by `--changed`, coverage in replayed reports, several
  processes on one cache directory, hashes that collide, edits within one tick
  of the clock that keep the size.
* *Web session:* WebSocket fragments (`wsBuffer`), the HTTP routes other than the
  artifact, launching browsers, what the page shows.  A host whose browser exits
  before it is ready stays open (a hazard without a property).
* *WIPC:* the reading side of the runtime; its replies are short and come over
  stdin, where nothing else is written.
* *Runtime and report:* hooks are part of the callbacks they surround (in the code
  `beforeAll` and `afterAll` callbacks are stored and never called); a process
  "crashed" if its code is not 0 or it wrote to stderr; chunk counts that do not
  match, which takes lost frames; coverage contents; diagnostics; logs, mocks,
  formatting.
* *Snapshot store:* keys and their normalisation, the text format, counts.
* *Fuzzing:* a seeded loop in the runtime, and its report.  What is concurrent
  there is the loops of `runOrderedPool`, and frames captured by replacing
  `process.stdout.write`.
* *Not at all:* the compiler transform (a function from source to source),
  configuration, selection and setup (parsing and files), reports and coverage
  points (formatting, merging).  They are sequential, and their difficulty is in
  strings and syntax trees.


## 7. Plan

Done, in this order: pool, graph, watch loop, cache, web session, channel, spec
runtime and report, parallel runs; proofs for all of them.

What is left:

1. Two processes on one cache directory: load, modify, save, with one `.tmp` file.
2. An abstract specification of a session without cache, which `BuildCache`
   implements for specs without a gap.
3. Creation and deletion of spec files in `WatchLoop`, with `forget` of the graph.
