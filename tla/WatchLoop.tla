------------------------------- MODULE WatchLoop -------------------------------
(***************************************************************************)
(* runWatchLoop of src/cli/index.ts: file events and keys set one pending  *)
(* trigger and a debounce timer; the timer starts a run; a run builds and  *)
(* runs all specs or the affected ones, updates the sticky set of failing  *)
(* specs and, at its end, the dependency graph.                            *)
(*                                                                         *)
(* The graph is used by what DependencyRelation says of it (module         *)
(* DependencyGraph): the files each spec's last recorded build read.  One  *)
(* mode.  A run takes its specs one after the other, in any order; a spec  *)
(* is built from the sources of one moment, and its verdict counted at a   *)
(* later one.  A file event arrives together with the edit.  Edits come    *)
(* during the initial run as well, and the run they start goes on beside   *)
(* it.                                                                     *)
(*                                                                         *)
(* dirty, raced and missed are history: which specs have no verdict on     *)
(* what they are now, which were in two runs at once, and whether a change *)
(* may have gone unnoticed.  It may by one of four gaps: its trigger was   *)
(* replaced (Lost), its directory had no watcher (Edit), the graph did not *)
(* know a spec that reads it (Unrecorded), or its run threw (Throw).       *)
(***************************************************************************)
EXTENDS Naturals

CONSTANTS
  Spec,            \* spec files
  Lib,             \* other sources and snapshots that specs read
  Config,          \* the config file
  Outside,         \* libs in directories no input pattern names
  InitialImports,  \* imports before the first edit
  InitialBroken,   \* sources with a defect before the first edit
  Parallel,        \* builds run in worker processes (BuildWorkerPool)
  FuzzEnabled,     \* --fuzz: the cache stays off
  WarmCache,       \* specs with a fresh cache entry from an earlier session
  Fragile,         \* bound: sources that an edit may break or mend
  Rewired,         \* bound: specs whose imports an edit may change
  MaxEdits,        \* bound on edits
  None

Source == Spec \cup Lib

ASSUME FileAssumption ==
  /\ Spec \cap Lib = {} /\ Config \notin Spec \cup Lib
  /\ Outside \subseteq Lib /\ WarmCache \subseteq Spec
  /\ None \notin Spec \cup Lib \cup {Config}
ASSUME FlagAssumption == {Parallel, FuzzEnabled} \subseteq BOOLEAN
ASSUME InitialAssumption ==
  InitialImports \in [Spec -> SUBSET Lib] /\ InitialBroken \subseteq Source
ASSUME EditsAssumption ==
  Fragile \subseteq Source /\ Rewired \subseteq Spec /\ MaxEdits \in Nat

Trigger == [kind : {"initial", "manual-rerun", "manual-runall"}, file : {None}]
           \cup [kind : {"change"}, file : Source \cup {Config}]
ASSUME NoneAssumption == None \notin Trigger

Change(f) == [kind |-> "change", file |-> f]
Manual(kind) == [kind |-> kind, file |-> None]

\* The run awaited before the loop starts, and the one triggerRerun awaits.
RunId == {"first", "loop"}

VARIABLES
  imports,         \* imports[s]: libs the source of spec s reads now
  broken,          \* sources with a defect now
  edits,           \* edits made so far
  pending,         \* pendingTrigger
  timer,           \* debounceTimer is armed
  isRunning,       \* isRunning
  autoRun,         \* autoRun
  changed,         \* changedWhilePaused is not empty
  cacheOn,         \* cacheMode is not "off"
  attended,        \* the key handlers are installed
  graph,           \* graph[s]: recorded reads, {} if s is not recorded
  populated,       \* graphPopulated
  failing,         \* failingSpecs
  watched,         \* Outside libs whose directory has a watcher
  run,             \* run[r]: the run in progress, if active
  fresh,           \* specs the cache on disk takes for unchanged
  dirty,           \* history: specs changed since they were last built, or whose
                   \* verdict was cleared or never counted
  raced,           \* history: specs last built while the other run held them
  missed           \* history: a gap was used since the last full run started

loopVars == <<pending, timer, isRunning, autoRun, changed, cacheOn, attended>>
sources == <<imports, broken, edits>>
vars == <<sources, loopVars, graph, populated, failing, watched, run, fresh,
          dirty, raced, missed>>

Idle == [active |-> FALSE, scoped |-> FALSE, cached |-> FALSE, entries |-> {},
         todo |-> {}, spec |-> None, failed |-> FALSE,
         reads |-> [s \in Spec |-> {}]]

TypeOK ==
  /\ imports \in [Spec -> SUBSET Lib]
  /\ broken \in SUBSET Source
  /\ edits \in 0..MaxEdits
  /\ pending \in Trigger \cup {None}
  /\ {timer, isRunning, autoRun, changed, cacheOn, attended, populated} \subseteq BOOLEAN
  /\ graph \in [Spec -> SUBSET Source]
  /\ failing \in SUBSET Spec
  /\ watched \in SUBSET Outside
  /\ run \in [RunId -> [active : BOOLEAN, scoped : BOOLEAN, cached : BOOLEAN,
                        entries : SUBSET Spec, todo : SUBSET Spec,
                        spec : Spec \cup {None}, failed : BOOLEAN,
                        reads : [Spec -> SUBSET Source]]]
  /\ fresh \in SUBSET Spec
  /\ dirty \in SUBSET Spec /\ raced \in SUBSET Spec
  /\ missed \in BOOLEAN

\* What a build of s reads, and whether s would fail, with the sources as now.
Reads(s) == {s} \cup imports[s]
Doomed(s) == Reads(s) \cap broken # {}
Readers(f) == IF f = Config THEN Spec ELSE {s \in Spec : f \in Reads(s)}

-------------------------------------------------------------------------------
(* doRun, up to its first await *)

ReloadsConfig(t) == t = Change(Config)
IsScoped(t, P) ==
  \/ t.kind = "manual-rerun"
  \/ t.kind = "change" /\ ~ReloadsConfig(t) /\ P

\* Seeded fault: the changed file is run as well, spec or not.
AffectedAndSelf(G, f) == {f} \cup {s \in Spec : f \in G[s]}

\* The specs a change of f affects; a spec the graph does not know is its own.
Affected(G, f) ==
  LET hit == {s \in Spec : f \in G[s]}
  IN  IF hit = {} /\ f \in Spec THEN {f} ELSE hit

Targets(t, G, P, F) ==
  IF ~IsScoped(t, P) THEN Spec
  ELSE IF t.kind = "manual-rerun" THEN F ELSE Affected(G, t.file)

\* Some spec that changed reads the changed file, unknown to the graph.
Unrecorded(t, G) ==
  t.kind = "change" /\ \E s \in dirty : t.file \in Reads(s) /\ t.file \notin G[s]

\* doRun(t) entered in run slot r, with graph G, graphPopulated P, watched
\* directories W, cache entries C on disk.  With no target it returns at once,
\* without a word.
StartRun(r, t, G, P, W, C) ==
  LET scoped == IsScoped(t, P)
      targets == Targets(t, G, P, failing)
      reset == ReloadsConfig(t)
  IN  /\ graph' = IF reset THEN [s \in Spec |-> {}] ELSE G
      /\ populated' = (P /\ ~reset)
      /\ failing' = IF reset THEN {} ELSE failing
      /\ watched' = IF reset THEN {} ELSE W
      /\ changed' = (scoped /\ changed)
      /\ isRunning' = (targets # {})
      /\ run' = [run EXCEPT ![r] =
                   IF targets = {} THEN Idle
                   ELSE [Idle EXCEPT !.active = TRUE, !.scoped = scoped,
                                     !.cached = cacheOn,
                                     !.entries = IF cacheOn THEN C ELSE {},
                                     !.todo = targets]]
      /\ dirty' = IF reset THEN dirty \cup failing ELSE dirty
      /\ missed' = (scoped /\ (missed \/ Unrecorded(t, G)))

Init ==
  /\ imports = InitialImports
  /\ broken = InitialBroken
  /\ edits = 0
  /\ pending = None
  /\ timer = FALSE /\ isRunning = FALSE /\ attended = FALSE
  /\ autoRun = TRUE
  /\ changed = FALSE
  /\ cacheOn = ~FuzzEnabled
  /\ graph = [s \in Spec |-> {}]
  /\ populated = FALSE
  /\ failing = {}
  /\ watched = {}
  /\ run = [r \in RunId |->
              IF r = "loop" THEN Idle
              ELSE [Idle EXCEPT !.active = TRUE, !.cached = cacheOn,
                                !.entries = IF cacheOn THEN WarmCache ELSE {},
                                !.todo = Spec]]
  /\ fresh = WarmCache
  /\ dirty = Spec /\ raced = {}
  /\ missed = FALSE

-------------------------------------------------------------------------------
(* A run in progress *)

\* The next spec is built: from the cache, without any read, or by the
\* compiler.  A failing spec may fail to compile; the reads recorded so far of
\* a build that fails are kept in process and lost by a worker process.  If the
\* other run has just built s and not run it yet, it runs the new .wasm, the old
\* one or half of it: its verdict may be any.
Build(r, s) ==
  /\ run[r].active /\ run[r].spec = None /\ s \in run[r].todo
  /\ \E compiles \in {TRUE, ~Doomed(s)}, verdict \in BOOLEAN :
       LET skip == s \in run[r].entries
           reads == IF skip \/ (Parallel /\ ~compiles) THEN {} ELSE Reads(s)
       IN  run' = [q \in RunId |->
             IF q = r
               THEN [run[q] EXCEPT !.todo = @ \ {s}, !.spec = s, !.failed = Doomed(s),
                                   !.entries = IF compiles /\ run[r].cached
                                                 THEN @ \cup {s} ELSE @,
                                   !.reads[s] = @ \cup reads]
             ELSE IF run[q].spec = s THEN [run[q] EXCEPT !.failed = verdict]
             ELSE run[q]]
  /\ dirty' = dirty \ {s}
  /\ raced' = IF \E q \in RunId : run[q].spec = s THEN raced \cup {s} ELSE raced \ {s}
  /\ UNCHANGED <<sources, loopVars, graph, populated, failing, watched, fresh, missed>>

\* Seeded fault: a pass does not take the spec out of failingSpecs.
OutcomeSticky(r) ==
  /\ run[r].active /\ run[r].spec # None
  /\ failing' = IF run[r].failed THEN failing \cup {run[r].spec} ELSE failing
  /\ run' = [run EXCEPT ![r].spec = None, ![r].failed = FALSE]
  /\ UNCHANGED <<sources, loopVars, graph, populated, watched, fresh, dirty,
                 raced, missed>>

\* recordSpecOutcome
Outcome(r) ==
  /\ run[r].active /\ run[r].spec # None
  /\ failing' = IF run[r].failed THEN failing \cup {run[r].spec}
                ELSE failing \ {run[r].spec}
  /\ run' = [run EXCEPT ![r].spec = None, ![r].failed = FALSE]
  /\ UNCHANGED <<sources, loopVars, graph, populated, watched, fresh, dirty,
                 raced, missed>>

\* runTestModesCore throws, between two specs or while one is built or run:
\* doRun prints "Error:" and goes on with what it has.
Throw(r) ==
  /\ run[r].active /\ (run[r].todo # {} \/ run[r].spec # None)
  /\ run' = [run EXCEPT ![r].todo = {}, ![r].spec = None, ![r].failed = FALSE]
  /\ dirty' = dirty \cup ({run[r].spec} \ {None})
  /\ missed' = TRUE
  /\ UNCHANGED <<sources, loopVars, graph, populated, failing, watched, fresh, raced>>

\* The end of doRun: save the cache, merge the reads, top up the watchers.
SavedBy(r) == IF run[r].cached THEN run[r].entries ELSE fresh
Merged(r) ==
  [s \in Spec |-> IF run[r].reads[s] = {} THEN graph[s] ELSE run[r].reads[s]]
PopulatedBy(r) ==
  populated \/ (~run[r].scoped /\ \E s \in Spec : run[r].reads[s] # {})
WatchedBy(r) == Outside \cap (watched \cup UNION {Merged(r)[s] : s \in Spec})

Finished(r) == run[r].active /\ run[r].todo = {} /\ run[r].spec = None

\* The first run is over; the key handlers are installed.
EndFirstRun ==
  /\ Finished("first")
  /\ graph' = Merged("first")
  /\ populated' = PopulatedBy("first")
  /\ watched' = WatchedBy("first")
  /\ fresh' = SavedBy("first")
  /\ run' = [run EXCEPT !["first"] = Idle]
  /\ attended' = TRUE
  /\ UNCHANGED <<sources, pending, timer, isRunning, autoRun, changed, cacheOn,
                 failing, dirty, raced, missed>>

\* Seeded fault: what became pending during the run waits for the next event.
EndLoopRunForgets ==
  /\ Finished("loop")
  /\ isRunning' = FALSE
  /\ graph' = Merged("loop")
  /\ populated' = PopulatedBy("loop")
  /\ watched' = WatchedBy("loop")
  /\ fresh' = SavedBy("loop")
  /\ run' = [run EXCEPT !["loop"] = Idle]
  /\ UNCHANGED <<sources, timer, autoRun, cacheOn, attended, dirty, raced,
                 pending, changed, failing, missed>>

\* triggerRerun's run is over: its finally starts the pending one, if any.
EndLoopRun ==
  /\ Finished("loop")
  /\ IF pending # None
       THEN StartRun("loop", pending, Merged("loop"), PopulatedBy("loop"),
                     WatchedBy("loop"), SavedBy("loop"))
       ELSE /\ isRunning' = FALSE
            /\ graph' = Merged("loop")
            /\ populated' = PopulatedBy("loop")
            /\ watched' = WatchedBy("loop")
            /\ run' = [run EXCEPT !["loop"] = Idle]
            /\ UNCHANGED <<changed, failing, dirty, missed>>
  /\ pending' = None
  /\ fresh' = SavedBy("loop")
  /\ UNCHANGED <<sources, timer, autoRun, cacheOn, attended, raced>>

-------------------------------------------------------------------------------
(* Timer, file events and keys *)

\* The debounce timer fires while a run of the loop is in progress.
TimerIgnored ==
  /\ timer /\ isRunning
  /\ timer' = FALSE
  /\ UNCHANGED <<sources, pending, isRunning, autoRun, changed, cacheOn, attended,
                 graph, populated, failing, watched, run, fresh, dirty, raced,
                 missed>>

\* Seeded fault: the timer is an interval.
TimerStartsAgain ==
  /\ timer /\ ~isRunning
  /\ pending' = None
  /\ StartRun("loop", IF pending = None THEN Manual("initial") ELSE pending,
              graph, populated, watched, fresh)
  /\ UNCHANGED <<sources, timer, autoRun, cacheOn, attended, fresh, raced>>

\* It fires otherwise: triggerRerun, also while the first run is in progress,
\* which does not set isRunning.  Without a pending trigger the kind is
\* "initial".
TimerStarts ==
  /\ timer /\ ~isRunning
  /\ timer' = FALSE
  /\ pending' = None
  /\ StartRun("loop", IF pending = None THEN Manual("initial") ELSE pending,
              graph, populated, watched, fresh)
  /\ UNCHANGED <<sources, autoRun, cacheOn, attended, fresh, raced>>

\* The pending trigger is replaced by t, which does not make everything run: by a
\* retry, as documented ("manual triggers preempt"), or by another change.
Lost(t) ==
  pending \notin {None, t} /\ t.kind # "manual-runall" /\ ~ReloadsConfig(t)

\* scheduleTrigger
Schedule(t) ==
  /\ pending' = t
  /\ timer' = TRUE
  /\ missed' = (missed \/ Lost(t))

\* Seeded fault: edits made while paused are forgotten.
FileEventOrNothing(f) ==
  IF autoRun
    THEN Schedule(Change(f)) /\ UNCHANGED changed
    ELSE UNCHANGED <<pending, timer, changed, missed>>

\* scheduleRerun
FileEvent(f) ==
  IF autoRun
    THEN Schedule(Change(f)) /\ UNCHANGED changed
    ELSE changed' = TRUE /\ UNCHANGED <<pending, timer, missed>>

\* Somebody saves a file.  Its event reaches the loop if its directory is
\* watched.
Edit(f) ==
  /\ edits < MaxEdits
  /\ edits' = edits + 1
  /\ IF f \in Fragile THEN broken' \in {broken \ {f}, broken \cup {f}}
     ELSE UNCHANGED broken
  /\ IF f \in Rewired THEN \E libs \in SUBSET Lib : imports' = [imports EXCEPT ![f] = libs]
     ELSE UNCHANGED imports
  /\ dirty' = dirty \cup Readers(f)
  /\ fresh' = fresh \ Readers(f)
  /\ run' = [r \in RunId |-> [run[r] EXCEPT !.entries = @ \ Readers(f)]]
  /\ IF f \in Outside \ watched
       THEN /\ missed' = TRUE
            /\ UNCHANGED <<pending, timer, changed>>
       ELSE FileEvent(f)
  /\ UNCHANGED <<isRunning, autoRun, cacheOn, attended, graph, populated, failing,
                 watched, raced>>

KeyHeard == attended /\ ~isRunning

\* space and `a': scheduleManualRerun
PressRun(kind) ==
  /\ KeyHeard
  /\ Schedule(Manual(kind))
  /\ UNCHANGED <<sources, isRunning, autoRun, changed, cacheOn, attended, graph,
                 populated, failing, watched, run, fresh, dirty, raced>>

\* `w': pause, or resume and run everything if anything changed.
PressW ==
  /\ KeyHeard
  /\ autoRun' = ~autoRun
  /\ IF ~autoRun /\ changed THEN Schedule(Manual("manual-runall"))
     ELSE UNCHANGED <<pending, timer, missed>>
  /\ UNCHANGED <<sources, isRunning, changed, cacheOn, attended, graph, populated,
                 failing, watched, run, fresh, dirty, raced>>

\* `c': the cache, for the runs to come.
PressC ==
  /\ KeyHeard /\ ~FuzzEnabled
  /\ cacheOn' = ~cacheOn
  /\ UNCHANGED <<sources, pending, timer, isRunning, autoRun, changed, attended,
                 graph, populated, failing, watched, run, fresh, dirty, raced, missed>>

\* Seeded fault: the exit code looks at the last verdicts only.
ExitCodeOfVerdicts == IF failing # {} THEN 1 ELSE 0

\* The code process.exit gets on ctrl+c and SIGINT.
ExitCode == IF isRunning \/ failing # {} THEN 1 ELSE 0

RunStep(r) ==
  \/ \E s \in Spec : Build(r, s)
  \/ Outcome(r)

Next ==
  \/ \E r \in RunId : RunStep(r) \/ Throw(r)
  \/ EndFirstRun \/ EndLoopRun
  \/ TimerIgnored \/ TimerStarts
  \/ \E f \in Source \cup {Config} : Edit(f)
  \/ \E kind \in {"manual-rerun", "manual-runall"} : PressRun(kind)
  \/ PressW \/ PressC

\* Builds and runs end, timers fire.  Nobody has to edit or to press a key.
Fairness ==
  /\ \A r \in RunId : WF_vars(RunStep(r))
  /\ WF_vars(EndFirstRun) /\ WF_vars(EndLoopRun)
  /\ WF_vars(TimerIgnored) /\ WF_vars(TimerStarts)

WatchSpec == Init /\ [][Next]_vars /\ Fairness

-------------------------------------------------------------------------------
(* Properties *)

Quiet == pending = None /\ ~changed /\ \A r \in RunId : ~run[r].active

\* No lost wake-up: whatever is pending has an armed timer or a run of the loop
\* whose end picks it up.
NoLostWakeup == pending # None => timer \/ isRunning

\* "file events that happen during the run are queued for the next iteration":
\* what the initial run is interrupted by does not start a second run beside it.
OneRun == ~(run["first"].active /\ run["loop"].active)

\* The sticky failing set is right about every spec that has not changed since
\* it was built, whatever the order of edits, runs, throws and their ends; except
\* for a spec that two runs held at once, until it is built again.
VerdictCurrent ==
  \A s \in Spec \ (dirty \cup raced) :
    \/ \E r \in RunId : run[r].spec = s
    \/ s \in failing <=> Doomed(s)

\* Exit code 0 on ctrl+c means that no run is in flight and that no spec whose
\* verdict is current fails.
HonestExit ==
  attended /\ ExitCode = 0 =>
    /\ \A r \in RunId : ~run[r].active
    /\ \A s \in Spec \ (dirty \cup raced) : ~Doomed(s)

\* The gaps this module names are the only ones: an edit whose trigger was not
\* replaced, whose event was seen, whose readers the graph knows and whose run
\* did not throw has been built by the time the loop is at rest, be it made
\* during the initial run.
QuietMeansFresh == Quiet /\ ~missed => dirty = {}

\* Runs cease: a run nobody asked for (TimerStarts without a trigger) begets no
\* other.  Unless somebody presses keys for ever, nothing runs or is pending in
\* the end.
RunsCease ==
  <>[][~PressW /\ ~\E kind \in {"manual-rerun", "manual-runall"} : PressRun(kind)]_vars
  => <>[](pending = None /\ ~timer /\ \A r \in RunId : ~run[r].active)

\* Every trigger is taken up.
TriggersTaken == pending # None ~> pending = None
===============================================================================
