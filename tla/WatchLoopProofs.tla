---------------------------- MODULE WatchLoopProofs ----------------------------
(***************************************************************************)
(* For any specs, libs, imports and numbers of edits, made when they may,  *)
(* during the initial run as well: every state invariant of the watch loop.*)
(***************************************************************************)
EXTENDS WatchLoop, TLAPS

RunState == [active : BOOLEAN, scoped : BOOLEAN, cached : BOOLEAN,
             entries : SUBSET Spec, todo : SUBSET Spec, spec : Spec \cup {None},
             failed : BOOLEAN, reads : [Spec -> SUBSET Source]]

\* TypeOK, in groups of variables that change together.
SourceTypes ==
  /\ imports \in [Spec -> SUBSET Lib] /\ broken \in SUBSET Source
  /\ edits \in 0..MaxEdits
LoopTypes ==
  /\ pending \in Trigger \cup {None}
  /\ timer \in BOOLEAN /\ isRunning \in BOOLEAN /\ autoRun \in BOOLEAN
  /\ cacheOn \in BOOLEAN /\ attended \in BOOLEAN
  /\ changed \in BOOLEAN
GraphTypes ==
  /\ graph \in [Spec -> SUBSET Source] /\ populated \in BOOLEAN
  /\ failing \in SUBSET Spec /\ watched \in SUBSET Outside
RunTypes == run \in [RunId -> RunState]
HistoryTypes ==
  /\ fresh \in SUBSET Spec /\ dirty \in SUBSET Spec /\ raced \in SUBSET Spec
  /\ missed \in BOOLEAN

Typed == SourceTypes /\ LoopTypes /\ GraphTypes /\ RunTypes /\ HistoryTypes

LEMMA TypedIsTypeOK == Typed => TypeOK
BY DEF Typed, TypeOK, SourceTypes, LoopTypes, GraphTypes, RunTypes, HistoryTypes, RunState

\* The triggers the loop makes.
LEMMA TriggerTypes ==
  /\ \A kind \in {"initial", "manual-rerun", "manual-runall"} : Manual(kind) \in Trigger
  /\ \A f \in Source \cup {Config} : Change(f) \in Trigger
  /\ \A t \in Trigger : t.kind \in {"initial", "manual-rerun", "manual-runall", "change"}
  /\ \A t \in Trigger : t.kind = "change" => t.file \in Source \cup {Config} /\ t = Change(t.file)
BY DEF Manual, Change, Trigger

LEMMA IdleType == Idle \in RunState
BY DEF Idle, RunState

\* Starting a run takes specs only, and types everything it sets.
LEMMA TargetsAreSpecs ==
  ASSUME NEW t, NEW G, NEW P, NEW F \in SUBSET Spec
  PROVE  Targets(t, G, P, F) \in SUBSET Spec
BY DEF Targets, Affected

LEMMA StartRunTypes ==
  ASSUME Typed, NEW r \in RunId, NEW t \in Trigger, NEW G \in [Spec -> SUBSET Source],
         NEW P \in BOOLEAN, NEW W \in SUBSET Outside, NEW C \in SUBSET Spec,
         StartRun(r, t, G, P, W, C)
  PROVE  /\ GraphTypes' /\ RunTypes'
         /\ isRunning' \in BOOLEAN
         /\ changed' \in BOOLEAN
         /\ dirty' \in SUBSET Spec /\ missed' \in BOOLEAN
<1>1. graph' \in [Spec -> SUBSET Source] /\ failing' \in SUBSET Spec /\ watched' \in SUBSET Outside
  BY DEF StartRun, Typed, GraphTypes
<1>2. populated' \in BOOLEAN /\ isRunning' \in BOOLEAN
  BY DEF StartRun
<1>3. changed' \in BOOLEAN /\ missed' \in BOOLEAN
  BY DEF StartRun
<1>4. dirty' \in SUBSET Spec
  BY DEF StartRun, Typed, HistoryTypes, GraphTypes
<1>5. Targets(t, G, P, failing) \in SUBSET Spec
  BY TargetsAreSpecs DEF Typed, GraphTypes
<1>6. IsScoped(t, P) \in BOOLEAN
  BY DEF IsScoped
<1>7. PICK x \in RunState : run' = [run EXCEPT ![r] = x]
  <2>1. [Idle EXCEPT !.active = TRUE, !.scoped = IsScoped(t, P), !.cached = cacheOn,
                     !.entries = IF cacheOn THEN C ELSE {},
                     !.todo = Targets(t, G, P, failing)] \in RunState
    BY <1>5, <1>6, IdleType DEF Typed, LoopTypes, RunState
  <2>. QED  BY <2>1, IdleType DEF StartRun
<1>8. RunTypes'
  BY <1>7 DEF Typed, RunTypes
<1>. QED  BY <1>1, <1>2, <1>3, <1>4, <1>8 DEF GraphTypes

\* Merging the reads of a run.
LEMMA MergedTypes ==
  ASSUME Typed, NEW r \in RunId
  PROVE  /\ Merged(r) \in [Spec -> SUBSET Source]
         /\ PopulatedBy(r) \in BOOLEAN
         /\ WatchedBy(r) \in SUBSET Outside
         /\ SavedBy(r) \in SUBSET Spec
<1>1. run[r].reads \in [Spec -> SUBSET Source]
  BY DEF Typed, RunTypes, RunState
<1>2. Merged(r) \in [Spec -> SUBSET Source]
  BY <1>1 DEF Merged, Typed, GraphTypes
<1>3. PopulatedBy(r) \in BOOLEAN
  BY DEF PopulatedBy, Typed, GraphTypes
<1>4. SavedBy(r) \in SUBSET Spec
  BY DEF SavedBy, Typed, RunTypes, RunState, HistoryTypes
<1>. QED  BY <1>2, <1>3, <1>4 DEF WatchedBy

\* What a build does to the run it belongs to, and to the other one.
LEMMA BuildSlots ==
  ASSUME Typed, NEW r \in RunId, NEW s \in Spec, Build(r, s)
  PROVE  /\ run' \in [RunId -> RunState]
         /\ run'[r].spec = s /\ (run'[r].failed <=> Doomed(s))
         /\ run'[r].todo = run[r].todo \ {s}
         /\ \A q \in RunId : run'[q].active = run[q].active
         /\ \A q \in RunId : q # r =>
              /\ run'[q].todo = run[q].todo /\ run'[q].spec = run[q].spec
              /\ run[q].spec # s => run'[q] = run[q]
<1>0. run \in [RunId -> RunState]
  BY DEF Typed, RunTypes
<1>1. PICK compiles \in {TRUE, ~Doomed(s)}, verdict \in BOOLEAN :
        LET skip == s \in run[r].entries
            reads == IF skip \/ (Parallel /\ ~compiles) THEN {} ELSE Reads(s)
        IN  run' = [q \in RunId |->
              IF q = r
                THEN [run[q] EXCEPT !.todo = @ \ {s}, !.spec = s, !.failed = Doomed(s),
                                    !.entries = IF compiles /\ run[r].cached
                                                  THEN @ \cup {s} ELSE @,
                                    !.reads[s] = @ \cup reads]
              ELSE IF run[q].spec = s THEN [run[q] EXCEPT !.failed = verdict]
              ELSE run[q]]
  BY DEF Build
<1>2. PICK reads \in SUBSET Source, entries \in SUBSET Spec :
        run' = [q \in RunId |->
          IF q = r THEN [run[q] EXCEPT !.todo = @ \ {s}, !.spec = s, !.failed = Doomed(s),
                                       !.entries = entries, !.reads[s] = @ \cup reads]
          ELSE IF run[q].spec = s THEN [run[q] EXCEPT !.failed = verdict]
          ELSE run[q]]
  <2>1. Reads(s) \in SUBSET Source
    BY DEF Reads, Source, Typed, SourceTypes
  <2>2. run[r].entries \in SUBSET Spec
    BY <1>0 DEF RunState
  <2> DEFINE read == IF s \in run[r].entries \/ (Parallel /\ ~compiles) THEN {} ELSE Reads(s)
             kept == IF compiles /\ run[r].cached THEN run[r].entries \cup {s}
                     ELSE run[r].entries
  <2>3. read \in SUBSET Source /\ kept \in SUBSET Spec
    BY <2>1, <2>2
  <2>4. run' = [q \in RunId |->
          IF q = r THEN [run[q] EXCEPT !.todo = @ \ {s}, !.spec = s, !.failed = Doomed(s),
                                       !.entries = kept, !.reads[s] = @ \cup read]
          ELSE IF run[q].spec = s THEN [run[q] EXCEPT !.failed = verdict]
          ELSE run[q]]
    BY <1>1
  <2>. HIDE DEF read, kept
  <2>. QED  BY <2>3, <2>4
<1>3. Doomed(s) \in BOOLEAN
  BY DEF Doomed
<1>4. run[r] \in RunState /\ run[r].reads \in [Spec -> SUBSET Source]
  BY <1>0 DEF RunState
<1>5. [run[r] EXCEPT !.todo = @ \ {s}, !.spec = s, !.failed = Doomed(s),
                     !.entries = entries, !.reads[s] = @ \cup reads] \in RunState
  BY <1>3, <1>4 DEF RunState
<1>6. \A q \in RunId : [run[q] EXCEPT !.failed = verdict] \in RunState
  BY <1>0 DEF RunState
<1>7. run' \in [RunId -> RunState]
  BY <1>0, <1>2, <1>5, <1>6
<1>8. run'[r].spec = s /\ (run'[r].failed <=> Doomed(s)) /\ run'[r].todo = run[r].todo \ {s}
      /\ run'[r].active = run[r].active
  BY <1>2, <1>4 DEF RunState
<1>9. \A q \in RunId : q # r =>
        /\ run'[q].active = run[q].active
        /\ run'[q].todo = run[q].todo /\ run'[q].spec = run[q].spec
        /\ run[q].spec # s => run'[q] = run[q]
  BY <1>0, <1>2 DEF RunState
<1>. QED  BY <1>7, <1>8, <1>9

\* An edit touches no more of a run than the entries of its cache.
LEMMA EditSlots ==
  ASSUME Typed, NEW f \in Source \cup {Config}, Edit(f)
  PROVE  /\ run' \in [RunId -> RunState]
         /\ \A q \in RunId : /\ run'[q].active = run[q].active /\ run'[q].todo = run[q].todo
                            /\ run'[q].spec = run[q].spec /\ run'[q].failed = run[q].failed
<1>1. run \in [RunId -> RunState]
  BY DEF Typed, RunTypes
<1>2. run' = [q \in RunId |-> [run[q] EXCEPT !.entries = @ \ Readers(f)]]
  BY DEF Edit
<1>3. ASSUME NEW q \in RunId
      PROVE  /\ run'[q] \in RunState
             /\ run'[q].active = run[q].active /\ run'[q].todo = run[q].todo
             /\ run'[q].spec = run[q].spec /\ run'[q].failed = run[q].failed
  <2>1. run[q] \in RunState /\ run'[q] = [run[q] EXCEPT !.entries = @ \ Readers(f)]
    BY <1>1, <1>2
  <2>. QED  BY <2>1 DEF RunState
<1>. QED  BY <1>2, <1>3

LEMMA ScheduleTypes ==
  ASSUME Typed, NEW t \in Trigger, Schedule(t)
  PROVE  pending' \in Trigger \cup {None} /\ timer' \in BOOLEAN /\ missed' \in BOOLEAN
BY DEF Schedule

LEMMA FileEventTypes ==
  ASSUME Typed, NEW f \in Source \cup {Config}, FileEvent(f)
  PROVE  /\ pending' \in Trigger \cup {None} /\ timer' \in BOOLEAN /\ missed' \in BOOLEAN
         /\ changed' \in BOOLEAN
<1>1. CASE autoRun
  <2>1. Change(f) \in Trigger /\ Schedule(Change(f)) /\ changed' = changed
    BY <1>1, TriggerTypes DEF FileEvent
  <2>. QED  BY <2>1, ScheduleTypes DEF Typed, LoopTypes, HistoryTypes
<1>2. CASE ~autoRun
  BY <1>2 DEF FileEvent, Typed, LoopTypes, HistoryTypes
<1>. QED  BY <1>1, <1>2

LEMMA InitTypes == Init => Typed
<1> SUFFICES ASSUME Init PROVE Typed
  OBVIOUS
<1>1. SourceTypes
  BY InitialAssumption, EditsAssumption DEF Init, SourceTypes
<1>2. cacheOn \in BOOLEAN
  BY FlagAssumption DEF Init
<1>3. LoopTypes
  BY <1>2 DEF Init, LoopTypes
<1>4. GraphTypes
  BY DEF Init, GraphTypes
<1>5. [Idle EXCEPT !.active = TRUE, !.cached = cacheOn,
                   !.entries = IF cacheOn THEN WarmCache ELSE {}, !.todo = Spec] \in RunState
  BY <1>2, FileAssumption, IdleType DEF RunState
<1>6. RunTypes
  BY <1>5, IdleType DEF Init, RunTypes
<1>7. HistoryTypes
  BY FileAssumption DEF Init, HistoryTypes
<1>. QED  BY <1>1, <1>3, <1>4, <1>6, <1>7 DEF Typed

LEMMA StepTypes == Typed /\ [Next]_vars => Typed'
<1> SUFFICES ASSUME Typed, [Next]_vars PROVE Typed'
  OBVIOUS
<1> USE DEF Typed
<1>1. ASSUME NEW r \in RunId, NEW s \in Spec, Build(r, s) PROVE Typed'
  <2>1. RunTypes'
    BY <1>1, BuildSlots DEF RunTypes
  <2>2. HistoryTypes'
    BY <1>1 DEF Build, HistoryTypes
  <2>3. SourceTypes' /\ LoopTypes' /\ GraphTypes'
    BY <1>1 DEF Build, sources, loopVars, SourceTypes, LoopTypes, GraphTypes
  <2>. QED  BY <2>1, <2>2, <2>3
<1>2. ASSUME NEW r \in RunId, Outcome(r) PROVE Typed'
  <2>1. run[r] \in RunState
    BY DEF RunTypes
  <2>2. [run[r] EXCEPT !.spec = None, !.failed = FALSE] \in RunState
    BY <2>1 DEF RunState
  <2>3. RunTypes'
    BY <1>2, <2>2 DEF Outcome, RunTypes
  <2>4. failing' \in SUBSET Spec
    BY <1>2, <2>1 DEF Outcome, GraphTypes, RunState
  <2>5. SourceTypes' /\ LoopTypes' /\ GraphTypes' /\ HistoryTypes'
    BY <1>2, <2>4 DEF Outcome, sources, loopVars, SourceTypes, LoopTypes, GraphTypes, HistoryTypes
  <2>. QED  BY <2>3, <2>5
<1>3. ASSUME NEW r \in RunId, Throw(r) PROVE Typed'
  <2>1. [run[r] EXCEPT !.todo = {}, !.spec = None, !.failed = FALSE] \in RunState
    BY DEF RunTypes, RunState
  <2>2. RunTypes'
    BY <1>3, <2>1 DEF Throw, RunTypes
  <2>3. run[r].spec \in Spec \cup {None}
    BY DEF RunTypes, RunState
  <2>4. SourceTypes' /\ LoopTypes' /\ GraphTypes' /\ HistoryTypes'
    BY <1>3, <2>3 DEF Throw, sources, loopVars, SourceTypes, LoopTypes, GraphTypes, HistoryTypes
  <2>. QED  BY <2>2, <2>4
<1>4. CASE EndFirstRun
  <2>1. GraphTypes'
    BY <1>4, MergedTypes DEF EndFirstRun, GraphTypes, RunId
  <2>2. RunTypes'
    BY <1>4, IdleType DEF EndFirstRun, RunTypes, RunId
  <2>3. SourceTypes' /\ LoopTypes' /\ HistoryTypes'
    BY <1>4, MergedTypes DEF EndFirstRun, sources, SourceTypes, LoopTypes, HistoryTypes, RunId
  <2>. QED  BY <2>1, <2>2, <2>3
<1>5. CASE EndLoopRun
  <2>0. "loop" \in RunId
    BY DEF RunId
  <2>1. /\ GraphTypes' /\ RunTypes'
        /\ isRunning' \in BOOLEAN
        /\ changed' \in BOOLEAN
        /\ dirty' \in SUBSET Spec /\ missed' \in BOOLEAN
    <3>1. CASE pending # None
      <4>1. pending \in Trigger
        BY <3>1 DEF LoopTypes
      <4>2. StartRun("loop", pending, Merged("loop"), PopulatedBy("loop"),
                   WatchedBy("loop"), SavedBy("loop"))
        BY <1>5, <3>1 DEF EndLoopRun
      <4>. QED  BY <4>1, <4>2, <2>0, MergedTypes, StartRunTypes
    <3>2. CASE pending = None
      <4>1. GraphTypes'
        BY <1>5, <3>2, <2>0, MergedTypes DEF EndLoopRun, GraphTypes
      <4>2. RunTypes'
        BY <1>5, <3>2, IdleType DEF EndLoopRun, RunTypes
      <4>. QED  BY <1>5, <3>2, <4>1, <4>2 DEF EndLoopRun, LoopTypes, HistoryTypes
    <3>. QED  BY <3>1, <3>2
  <2>. QED  BY <1>5, <2>0, <2>1, MergedTypes DEF EndLoopRun, sources, SourceTypes, LoopTypes, HistoryTypes
<1>6. CASE TimerIgnored
  BY <1>6 DEF TimerIgnored, sources, SourceTypes, LoopTypes, GraphTypes, RunTypes, HistoryTypes
<1>7. CASE TimerStarts
  <2>1. /\ GraphTypes' /\ RunTypes'
        /\ isRunning' \in BOOLEAN
        /\ changed' \in BOOLEAN
        /\ dirty' \in SUBSET Spec /\ missed' \in BOOLEAN
    <3>1. PICK t \in Trigger : StartRun("loop", t, graph, populated, watched, fresh)
      BY <1>7, TriggerTypes DEF TimerStarts, LoopTypes
    <3>. QED  BY <3>1, StartRunTypes DEF GraphTypes, HistoryTypes, RunId
  <2>. QED  BY <1>7, <2>1 DEF TimerStarts, sources, SourceTypes, LoopTypes, HistoryTypes
<1>8. ASSUME NEW f \in Source \cup {Config}, Edit(f) PROVE Typed'
  <2>1. SourceTypes'
    BY <1>8, EditsAssumption DEF Edit, SourceTypes
  <2>2. /\ pending' \in Trigger \cup {None} /\ timer' \in BOOLEAN /\ missed' \in BOOLEAN
        /\ changed' \in BOOLEAN
    BY <1>8, FileEventTypes DEF Edit, LoopTypes, HistoryTypes
  <2>3. Readers(f) \subseteq Spec
    BY DEF Readers
  <2>4. RunTypes'
    BY <1>8, EditSlots DEF RunTypes
  <2>. QED
    BY <1>8, <2>1, <2>2, <2>3, <2>4 DEF Edit, LoopTypes, GraphTypes, HistoryTypes
<1>9. ASSUME NEW kind \in {"manual-rerun", "manual-runall"}, PressRun(kind) PROVE Typed'
  <2>1. Manual(kind) \in Trigger
    BY TriggerTypes
  <2>2. pending' \in Trigger \cup {None} /\ timer' \in BOOLEAN /\ missed' \in BOOLEAN
    BY <1>9, <2>1, ScheduleTypes DEF PressRun
  <2>. QED
    BY <1>9, <2>2 DEF PressRun, sources, SourceTypes, LoopTypes, GraphTypes, RunTypes, HistoryTypes
<1>10. CASE PressW
  <2>1. Manual("manual-runall") \in Trigger
    BY TriggerTypes
  <2>2. pending' \in Trigger \cup {None} /\ timer' \in BOOLEAN /\ missed' \in BOOLEAN
    BY <1>10, <2>1, ScheduleTypes DEF PressW, LoopTypes, HistoryTypes
  <2>. QED
    BY <1>10, <2>2 DEF PressW, sources, SourceTypes, LoopTypes, GraphTypes, RunTypes, HistoryTypes
<1>11. CASE PressC
  BY <1>11 DEF PressC, sources, SourceTypes, LoopTypes, GraphTypes, RunTypes, HistoryTypes
<1>12. CASE UNCHANGED vars
  BY <1>12 DEF vars, sources, loopVars, SourceTypes, LoopTypes, GraphTypes, RunTypes, HistoryTypes
<1>. QED
  BY <1>1, <1>2, <1>3, <1>4, <1>5, <1>6, <1>7, <1>8, <1>9, <1>10, <1>11, <1>12 DEF Next, RunStep

\* The loop's state has its type: in particular a run takes spec files only,
\* whatever file changed.
THEOREM TypeCorrect == WatchSpec => []TypeOK
<1>1. Init => Typed
  BY InitTypes
<1>2. Typed /\ [Next]_vars => Typed'
  BY StepTypes
<1>. QED
  BY <1>1, <1>2, TypedIsTypeOK, PTL DEF WatchSpec

-------------------------------------------------------------------------------
(* isRunning tells of the loop's own run, and no trigger is lost.          *)

\* isRunning is about the loop's own run.
RunningExact == isRunning <=> run["loop"].active

\* The key handlers, which call process.exit, come after the first run.
FirstEnded == attended => ~run["first"].active

\* Between runs a slot holds no work.
Rested == \A r \in RunId : ~run[r].active => run[r].todo = {} /\ run[r].spec = None

\* What a start in the loop's slot does to the two slots.
LEMMA StartRunSlots ==
  ASSUME Typed, NEW t \in Trigger, NEW G, NEW P, NEW W, NEW C, StartRun("loop", t, G, P, W, C)
  PROVE  /\ run'["first"] = run["first"]
         /\ isRunning' <=> run'["loop"].active
         /\ run'["loop"].spec = None
         /\ run'["loop"].todo = Targets(t, G, P, failing)
         /\ ~run'["loop"].active => run'["loop"].todo = {}
<1> DEFINE targets == Targets(t, G, P, failing)
<1>1. run \in [RunId -> RunState] /\ "loop" \in RunId /\ "first" \in RunId
  BY DEF Typed, RunTypes, RunId
<1>2. CASE targets = {}
  BY <1>1, <1>2 DEF StartRun, Idle
<1>3. CASE targets # {}
  BY <1>1, <1>3 DEF StartRun, Idle
<1>. QED  BY <1>2, <1>3

LEMMA StepRested == Typed /\ Rested /\ [Next]_vars => Rested'
<1> SUFFICES ASSUME Typed, Rested, [Next]_vars PROVE Rested'
  OBVIOUS
<1>0. run \in [RunId -> RunState] /\ RunId = {"first", "loop"}
  BY DEF Typed, RunTypes, RunId
<1>1. ASSUME NEW r \in RunId, NEW s \in Spec, Build(r, s) PROVE Rested'
  <2>1. /\ run[r].active
        /\ \A q \in RunId : run'[q].active = run[q].active
        /\ \A q \in RunId : q # r => run'[q].todo = run[q].todo /\ run'[q].spec = run[q].spec
    BY <1>1, BuildSlots DEF Build
  <2>. QED  BY <2>1 DEF Rested
<1>2. ASSUME NEW r \in RunId, Outcome(r) \/ Throw(r) PROVE Rested'
  BY <1>0, <1>2 DEF Outcome, Throw, Rested, RunState
<1>3. CASE EndFirstRun
  BY <1>0, <1>3 DEF EndFirstRun, Rested, Idle
<1>4. CASE EndLoopRun
  <2>1. CASE pending # None
    <3>1. pending \in Trigger
      BY <2>1 DEF Typed, LoopTypes
    <3>. QED
      BY <1>0, <1>4, <2>1, <3>1, StartRunSlots DEF EndLoopRun, Rested
  <2>2. CASE pending = None
    BY <1>0, <1>4, <2>2 DEF EndLoopRun, Rested, Idle
  <2>. QED  BY <2>1, <2>2
<1>5. CASE TimerStarts
  <2>1. PICK t \in Trigger : StartRun("loop", t, graph, populated, watched, fresh)
    BY <1>5, TriggerTypes DEF TimerStarts, Typed, LoopTypes
  <2>. QED  BY <1>0, <2>1, StartRunSlots DEF Rested
<1>6. CASE UNCHANGED run
  BY <1>6 DEF Rested
<1>7. ASSUME NEW f \in Source \cup {Config}, Edit(f) PROVE Rested'
  BY <1>7, EditSlots DEF Rested
<1>. QED
  BY <1>1, <1>2, <1>3, <1>4, <1>5, <1>6, <1>7
     DEF Next, RunStep, TimerIgnored, PressRun, PressW, PressC, vars

\* What happens in a run, and an edit, ends and starts none.
LEMMA StepActive ==
  ASSUME Typed
  PROVE  /\ \A r \in RunId, s \in Spec : Build(r, s) =>
              \A q \in RunId : run'[q].active = run[q].active
         /\ \A r \in RunId : Outcome(r) \/ Throw(r) =>
              \A q \in RunId : run'[q].active = run[q].active
         /\ \A f \in Source \cup {Config} : Edit(f) =>
              \A q \in RunId : run'[q].active = run[q].active
<1>0. run \in [RunId -> RunState]
  BY DEF Typed, RunTypes
<1>1. ASSUME NEW r \in RunId, Outcome(r)
      PROVE  \A q \in RunId : run'[q].active = run[q].active
  BY <1>0, <1>1 DEF Outcome, RunState
<1>2. ASSUME NEW r \in RunId, Throw(r)
      PROVE  \A q \in RunId : run'[q].active = run[q].active
  BY <1>0, <1>2 DEF Throw, RunState
<1>. QED  BY <1>1, <1>2, BuildSlots, EditSlots

LEMMA StepRunningExact == Typed /\ RunningExact /\ [Next]_vars => RunningExact'
<1> SUFFICES ASSUME Typed, RunningExact, [Next]_vars PROVE RunningExact'
  OBVIOUS
<1>0. run \in [RunId -> RunState] /\ RunId = {"first", "loop"}
  BY DEF Typed, RunTypes, RunId
<1>1. ASSUME NEW r \in RunId, NEW s \in Spec, Build(r, s) PROVE RunningExact'
  BY <1>0, <1>1, StepActive DEF Build, loopVars, RunningExact
<1>2. ASSUME NEW r \in RunId, Outcome(r) \/ Throw(r) PROVE RunningExact'
  <2>1. run'["loop"].active = run["loop"].active
    BY <1>0, <1>2, StepActive
  <2>. QED  BY <2>1, <1>2 DEF Outcome, Throw, loopVars, RunningExact
<1>3. CASE EndFirstRun
  BY <1>0, <1>3 DEF EndFirstRun, RunningExact
<1>4. CASE EndLoopRun
  <2>1. CASE pending # None
    <3>1. pending \in Trigger
      BY <2>1 DEF Typed, LoopTypes
    <3>. QED
      BY <1>4, <2>1, <3>1, StartRunSlots DEF EndLoopRun, RunningExact
  <2>2. CASE pending = None
    BY <1>0, <1>4, <2>2 DEF EndLoopRun, RunningExact, Idle
  <2>. QED  BY <2>1, <2>2
<1>5. CASE TimerStarts
  <2>1. PICK t \in Trigger : StartRun("loop", t, graph, populated, watched, fresh)
    BY <1>5, TriggerTypes DEF TimerStarts, Typed, LoopTypes
  <2>. QED  BY <2>1, StartRunSlots DEF RunningExact
<1>6. CASE UNCHANGED <<run, isRunning>>
  BY <1>6 DEF RunningExact
<1>7. ASSUME NEW f \in Source \cup {Config}, Edit(f) PROVE RunningExact'
  BY <1>0, <1>7, StepActive DEF Edit, RunningExact
<1>. QED
  BY <1>1, <1>2, <1>3, <1>4, <1>5, <1>6, <1>7
     DEF Next, RunStep, TimerIgnored, PressRun, PressW, PressC, vars, loopVars

LEMMA StepFirstEnded == Typed /\ FirstEnded /\ [Next]_vars => FirstEnded'
<1> SUFFICES ASSUME Typed, FirstEnded, [Next]_vars PROVE FirstEnded'
  OBVIOUS
<1>0. run \in [RunId -> RunState] /\ RunId = {"first", "loop"}
  BY DEF Typed, RunTypes, RunId
<1>1. ASSUME UNCHANGED attended, run'["first"].active = run["first"].active PROVE FirstEnded'
  BY <1>1 DEF FirstEnded
<1>2. ASSUME NEW r \in RunId, NEW s \in Spec, Build(r, s) PROVE FirstEnded'
  BY <1>0, <1>1, <1>2, StepActive DEF Build, loopVars
<1>3. ASSUME NEW r \in RunId, Outcome(r) \/ Throw(r) PROVE FirstEnded'
  <2>1. run'["first"].active = run["first"].active
    BY <1>0, <1>3, StepActive
  <2>. QED  BY <1>1, <1>3, <2>1 DEF Outcome, Throw, loopVars
<1>4. CASE EndFirstRun
  BY <1>0, <1>4 DEF EndFirstRun, FirstEnded, Idle
<1>5. CASE EndLoopRun
  <2>1. run'["first"] = run["first"]
    <3>1. CASE pending # None
      <4>1. pending \in Trigger
        BY <3>1 DEF Typed, LoopTypes
      <4>. QED  BY <1>5, <3>1, <4>1, StartRunSlots DEF EndLoopRun
    <3>2. CASE pending = None
      BY <1>0, <1>5, <3>2 DEF EndLoopRun
    <3>. QED  BY <3>1, <3>2
  <2>. QED  BY <1>1, <1>5, <2>1 DEF EndLoopRun
<1>6. CASE TimerStarts
  <2>1. PICK t \in Trigger : StartRun("loop", t, graph, populated, watched, fresh)
    BY <1>6, TriggerTypes DEF TimerStarts, Typed, LoopTypes
  <2>. QED  BY <1>1, <1>6, <2>1, StartRunSlots DEF TimerStarts
<1>7. ASSUME NEW f \in Source \cup {Config}, Edit(f) PROVE FirstEnded'
  BY <1>0, <1>1, <1>7, StepActive DEF Edit
<1>. QED
  BY <1>1, <1>2, <1>3, <1>4, <1>5, <1>6, <1>7
     DEF Next, RunStep, TimerIgnored, PressRun, PressW, PressC, vars, loopVars

LEMMA InitSlots == Init => RunningExact /\ FirstEnded /\ Rested
<1> SUFFICES ASSUME Init PROVE RunningExact /\ FirstEnded /\ Rested
  OBVIOUS
<1>1. "loop" \in RunId /\ "first" \in RunId
  BY DEF RunId
<1>2. run["loop"] = Idle
  BY <1>1 DEF Init
<1>3. run["first"].active
  BY <1>1 DEF Init, Idle
<1>4. RunningExact /\ FirstEnded
  BY <1>2 DEF Init, RunningExact, FirstEnded, Idle
<1>5. Rested
  BY <1>2, <1>3 DEF Rested, Idle, RunId
<1>. QED  BY <1>4, <1>5

\* A trigger that is pending when a run starts is that run's; one that becomes
\* pending has armed the timer, and when the timer finds a run in progress the
\* end of that run takes the trigger.
LEMMA StepWakeup == Typed /\ NoLostWakeup /\ [Next]_vars => NoLostWakeup'
<1> SUFFICES ASSUME Typed, NoLostWakeup, [Next]_vars PROVE NoLostWakeup'
  OBVIOUS
<1>1. ASSUME NEW r \in RunId, NEW s \in Spec, Build(r, s) PROVE NoLostWakeup'
  BY <1>1 DEF Build, loopVars, NoLostWakeup
<1>2. ASSUME NEW r \in RunId, Outcome(r) \/ Throw(r) PROVE NoLostWakeup'
  BY <1>2 DEF Outcome, Throw, loopVars, NoLostWakeup
<1>3. CASE EndLoopRun \/ TimerStarts
  BY <1>3 DEF EndLoopRun, TimerStarts, NoLostWakeup
<1>4. CASE EndFirstRun \/ TimerIgnored \/ PressC
  BY <1>4 DEF EndFirstRun, TimerIgnored, PressC, NoLostWakeup
<1>5. ASSUME NEW f, Edit(f) PROVE NoLostWakeup'
  BY <1>5 DEF Edit, FileEvent, Schedule, NoLostWakeup
<1>6. ASSUME NEW kind, PressRun(kind) PROVE NoLostWakeup'
  BY <1>6 DEF PressRun, Schedule, NoLostWakeup
<1>7. CASE PressW
  BY <1>7 DEF PressW, Schedule, NoLostWakeup
<1>8. CASE UNCHANGED vars
  BY <1>8 DEF vars, loopVars, NoLostWakeup
<1>. QED
  BY <1>1, <1>2, <1>3, <1>4, <1>5, <1>6, <1>7, <1>8 DEF Next, RunStep

\* What is pending has an armed timer or a run whose end picks it up, whoever
\* edits when.
THEOREM NoLostWakeupHolds == WatchSpec => []NoLostWakeup
<1>1. Init => NoLostWakeup
  BY DEF Init, NoLostWakeup
<1>. QED
  BY <1>1, InitTypes, StepTypes, StepWakeup, PTL DEF WatchSpec

-------------------------------------------------------------------------------
(* The sticky failing set and the exit code tell the truth.                *)

\* Until it is counted, the verdict of a run is that of the sources as they are,
\* if the spec has not changed since and the other run did not rebuild it.
Remembered ==
  \A r \in RunId, s \in Spec \ (dirty \cup raced) :
    run[r].spec = s => (run[r].failed <=> Doomed(s))

Verdicts ==
  Typed /\ RunningExact /\ FirstEnded /\ Rested /\ VerdictCurrent /\ Remembered

LEMMA SameSources ==
  ASSUME UNCHANGED sources
  PROVE  \A s \in Spec : Reads(s)' = Reads(s) /\ (Doomed(s)' <=> Doomed(s))
BY DEF sources, Reads, Doomed

\* An edit makes dirty every spec whose verdict it can change.
LEMMA EditDirties ==
  ASSUME Typed, NEW f \in Source \cup {Config}, Edit(f)
  PROVE  \A s \in Spec \ dirty' : s \notin dirty /\ (Doomed(s)' <=> Doomed(s))
<1> SUFFICES ASSUME NEW s \in Spec, s \notin dirty'
             PROVE  s \notin dirty /\ (Doomed(s)' <=> Doomed(s))
  OBVIOUS
<1>1. s \notin dirty /\ s \notin Readers(f)
  BY DEF Edit
<1>2. f # Config /\ f \notin Reads(s)
  BY <1>1 DEF Readers
<1>3. f # s
  BY <1>2 DEF Reads
<1>4. imports'[s] = imports[s]
  BY <1>3 DEF Edit, Typed, SourceTypes
<1>5. \A g : g # f => (g \in broken' <=> g \in broken)
  BY <1>2 DEF Edit
<1>6. Reads(s)' = Reads(s)
  BY <1>4 DEF Reads
<1>. QED  BY <1>1, <1>2, <1>5, <1>6 DEF Doomed

LEMMA StepVerdicts == Verdicts /\ [Next]_vars => VerdictCurrent' /\ Remembered'
<1> SUFFICES ASSUME Verdicts, [Next]_vars PROVE VerdictCurrent' /\ Remembered'
  OBVIOUS
<1> USE DEF Verdicts
<1>0. run \in [RunId -> RunState] /\ RunId = {"first", "loop"} /\ None \notin Spec
  BY FileAssumption DEF Typed, RunTypes, RunId
<1>1. ASSUME NEW r \in RunId, NEW s \in Spec, Build(r, s)
      PROVE  VerdictCurrent' /\ Remembered'
  <2>1. /\ run'[r].spec = s /\ (run'[r].failed <=> Doomed(s))
        /\ \A q \in RunId : q # r => run'[q].spec = run[q].spec
        /\ \A q \in RunId : q # r /\ run[q].spec # s => run'[q] = run[q]
    BY <1>1, BuildSlots
  <2>2. run[r].spec = None /\ dirty' = dirty \ {s} /\ failing' = failing
    BY <1>1 DEF Build
  <2>3. /\ \A x \in Spec : x # s => (x \in raced' <=> x \in raced)
        /\ s \notin raced' => \A q \in RunId : run[q].spec # s
    BY <1>1 DEF Build
  <2>4. \A x \in Spec : Doomed(x)' <=> Doomed(x)
    BY <1>1, SameSources DEF Build
  <2>5. Remembered'
    <3> SUFFICES ASSUME NEW q \in RunId, NEW x \in Spec \ (dirty \cup raced)', run'[q].spec = x
                 PROVE  run'[q].failed <=> Doomed(x)'
      BY DEF Remembered
    <3>1. CASE q = r
      BY <2>1, <2>4, <3>1
    <3>2. CASE q # r /\ x # s
      <4>1. run[q].spec = x /\ run'[q] = run[q]
        BY <2>1, <3>2
      <4>2. x \in Spec \ (dirty \cup raced)
        BY <2>2, <2>3, <3>2
      <4>. QED  BY <2>4, <4>1, <4>2 DEF Remembered
    <3>3. CASE q # r /\ x = s
      BY <2>1, <2>3, <3>3
    <3>. QED  BY <3>1, <3>2, <3>3
  <2>6. VerdictCurrent'
    <3> SUFFICES ASSUME NEW x \in Spec \ (dirty \cup raced)'
                 PROVE  \/ \E q \in RunId : run'[q].spec = x
                        \/ x \in failing' <=> Doomed(x)'
      BY DEF VerdictCurrent
    <3>1. CASE x = s
      BY <3>1, <2>1
    <3>2. CASE x # s
      <4>1. (\E q \in RunId : run[q].spec = x) \/ (x \in failing <=> Doomed(x))
        BY <3>2, <2>2, <2>3 DEF VerdictCurrent
      <4>2. run[r].spec # x
        BY <1>0, <2>2
      <4>. QED  BY <4>1, <4>2, <2>1, <2>2, <2>4
    <3>. QED  BY <3>1, <3>2
  <2>. QED  BY <2>5, <2>6
<1>2. ASSUME NEW r \in RunId, Outcome(r) PROVE VerdictCurrent' /\ Remembered'
  <2>1. run'[r].spec = None /\ \A q \in RunId : q # r => run'[q] = run[q]
    BY <1>2, <1>0 DEF Outcome, RunState
  <2>2. dirty' = dirty /\ raced' = raced
    BY <1>2 DEF Outcome
  <2>3. \A x \in Spec : Doomed(x)' <=> Doomed(x)
    BY <1>2, SameSources DEF Outcome
  <2>4. Remembered'
    BY <1>0, <2>1, <2>2, <2>3 DEF Remembered
  <2>5. VerdictCurrent'
    <3> SUFFICES ASSUME NEW x \in Spec \ (dirty \cup raced)
                 PROVE  \/ \E q \in RunId : run'[q].spec = x
                        \/ x \in failing' <=> Doomed(x)'
      BY <2>2 DEF VerdictCurrent
    <3>1. CASE x = run[r].spec
      <4>1. run[r].failed <=> Doomed(x)
        BY <3>1 DEF Remembered
      <4>2. x \in failing' <=> run[r].failed
        BY <1>2, <3>1 DEF Outcome
      <4>. QED  BY <4>1, <4>2, <2>3
    <3>2. CASE x # run[r].spec
      <4>1. x \in failing' <=> x \in failing
        BY <1>2, <3>2 DEF Outcome
      <4>2. (\E q \in RunId : run[q].spec = x) \/ (x \in failing <=> Doomed(x))
        BY DEF VerdictCurrent
      <4>. QED  BY <4>1, <4>2, <2>1, <2>3, <3>2
    <3>. QED  BY <3>1, <3>2
  <2>. QED  BY <2>4, <2>5
<1>3. ASSUME NEW r \in RunId, Throw(r) PROVE VerdictCurrent' /\ Remembered'
  <2>1. /\ run'[r].spec = None /\ \A q \in RunId : q # r => run'[q] = run[q]
        /\ failing' = failing /\ raced' = raced
    BY <1>3, <1>0 DEF Throw, RunState
  <2>2. \A x \in Spec \ dirty' : x \notin dirty /\ run[r].spec # x
    BY <1>0, <1>3 DEF Throw
  <2>3. \A x \in Spec : Doomed(x)' <=> Doomed(x)
    BY <1>3, SameSources DEF Throw
  <2>4. Remembered'
    BY <1>0, <2>1, <2>2, <2>3 DEF Remembered
  <2>5. VerdictCurrent'
    BY <1>0, <2>1, <2>2, <2>3 DEF VerdictCurrent
  <2>. QED  BY <2>4, <2>5
<1>4. ASSUME NEW r \in RunId, Finished(r), run' = [run EXCEPT ![r] = Idle],
             UNCHANGED <<sources, dirty, raced, failing>>
      PROVE  VerdictCurrent' /\ Remembered'
  <2>1. run'[r].spec = None /\ \A q \in RunId : q # r => run'[q] = run[q]
    BY <1>0, <1>4 DEF Idle
  <2>2. run[r].spec = None
    BY <1>4 DEF Finished
  <2>3. \A x \in Spec : Doomed(x)' <=> Doomed(x)
    BY <1>4, SameSources
  <2>4. Remembered'
    BY <1>0, <1>4, <2>1, <2>3 DEF Remembered
  <2>5. VerdictCurrent'
    BY <1>0, <1>4, <2>1, <2>2, <2>3 DEF VerdictCurrent
  <2>. QED  BY <2>4, <2>5
<1>5. ASSUME NEW t \in Trigger, NEW G, NEW P, NEW W, NEW C, StartRun("loop", t, G, P, W, C),
             UNCHANGED <<sources, raced>>, run["loop"].spec = None
      PROVE  VerdictCurrent' /\ Remembered'
  <2>1. run'["first"] = run["first"] /\ run'["loop"].spec = None
    BY <1>5, StartRunSlots
  <2>2. \A x \in Spec : Doomed(x)' <=> Doomed(x)
    BY <1>5, SameSources
  <2>3. /\ \A x \in Spec \ dirty' : x \notin dirty
        /\ \A x \in Spec \ dirty' : x \in failing' <=> x \in failing
    BY <1>5 DEF StartRun
  <2>4. Remembered'
    BY <1>0, <1>5, <2>1, <2>2, <2>3 DEF Remembered
  <2>5. VerdictCurrent'
    <3> SUFFICES ASSUME NEW x \in Spec \ (dirty \cup raced)'
                 PROVE  \/ \E q \in RunId : run'[q].spec = x
                        \/ x \in failing' <=> Doomed(x)'
      BY DEF VerdictCurrent
    <3>1. (\E q \in RunId : run[q].spec = x) \/ (x \in failing <=> Doomed(x))
      BY <1>5, <2>3 DEF VerdictCurrent
    <3>. QED  BY <1>0, <1>5, <2>1, <2>2, <2>3, <3>1
  <2>. QED  BY <2>4, <2>5
<1>6. CASE EndFirstRun
  BY <1>0, <1>4, <1>6 DEF EndFirstRun
<1>7. CASE EndLoopRun
  <2>1. CASE pending # None
    <3>1. pending \in Trigger
      BY <2>1 DEF Typed, LoopTypes
    <3>2. StartRun("loop", pending, Merged("loop"), PopulatedBy("loop"),
                   WatchedBy("loop"), SavedBy("loop"))
      BY <1>7, <2>1 DEF EndLoopRun
    <3>3. UNCHANGED <<sources, raced>> /\ run["loop"].spec = None
      BY <1>7 DEF EndLoopRun, Finished
    <3>. QED  BY <1>5, <3>1, <3>2, <3>3
  <2>2. CASE pending = None
    BY <1>0, <1>4, <1>7, <2>2 DEF EndLoopRun
  <2>. QED  BY <2>1, <2>2
<1>8. CASE TimerStarts
  <2>1. PICK t \in Trigger : StartRun("loop", t, graph, populated, watched, fresh)
    BY <1>8, TriggerTypes DEF TimerStarts, Typed, LoopTypes
  <2>2. UNCHANGED <<sources, raced>> /\ ~run["loop"].active
    BY <1>8 DEF TimerStarts, RunningExact
  <2>. QED  BY <1>0, <1>5, <2>1, <2>2 DEF Rested
<1>9. ASSUME NEW f \in Source \cup {Config}, Edit(f) PROVE VerdictCurrent' /\ Remembered'
  <2>1. \A x \in Spec \ dirty' : x \notin dirty /\ (Doomed(x)' <=> Doomed(x))
    BY <1>9, EditDirties
  <2>2. UNCHANGED <<failing, raced>>
    BY <1>9 DEF Edit
  <2>3. \A q \in RunId : run'[q].spec = run[q].spec /\ run'[q].failed = run[q].failed
    BY <1>9, EditSlots
  <2>4. Remembered'
    BY <2>1, <2>2, <2>3 DEF Remembered
  <2>. QED  BY <2>1, <2>2, <2>3, <2>4 DEF VerdictCurrent
<1>10. ASSUME UNCHANGED <<sources, run, failing, dirty, raced>>
       PROVE  VerdictCurrent' /\ Remembered'
  BY <1>10, SameSources DEF VerdictCurrent, Remembered
<1>11. ASSUME NEW kind, PressRun(kind) PROVE VerdictCurrent' /\ Remembered'
  BY <1>10, <1>11 DEF PressRun
<1>12. CASE TimerIgnored \/ PressW \/ PressC \/ UNCHANGED vars
  BY <1>10, <1>12 DEF TimerIgnored, PressW, PressC, vars
<1>. QED
  BY <1>1, <1>2, <1>3, <1>6, <1>7, <1>8, <1>9, <1>11, <1>12 DEF Next, RunStep

LEMMA VerdictsHold == WatchSpec => []Verdicts
<1>1. Init => Verdicts
  <2>1. Init => VerdictCurrent /\ Remembered
    BY DEF Init, VerdictCurrent, Remembered
  <2>. QED  BY <2>1, InitTypes, InitSlots DEF Verdicts
<1>2. Verdicts /\ [Next]_vars => Verdicts'
  BY StepTypes, StepRunningExact, StepFirstEnded, StepRested, StepVerdicts DEF Verdicts
<1>. QED
  BY <1>1, <1>2, PTL DEF WatchSpec

\* Whatever the order of edits, builds, counted outcomes, throws and keys, and
\* with a second run beside the initial one: a spec that has not changed since
\* its build, and that one run at a time held, is in the failing set just if it
\* fails.
THEOREM VerdictCurrentHolds == WatchSpec => []VerdictCurrent
<1>1. Verdicts => VerdictCurrent
  BY DEF Verdicts
<1>. QED
  BY <1>1, VerdictsHold, PTL

\* Exit code 0 is given only at rest, and when no spec of current verdict fails.
THEOREM HonestExitHolds == WatchSpec => []HonestExit
<1>1. Verdicts => HonestExit
  <2> SUFFICES ASSUME Verdicts, attended, ExitCode = 0
               PROVE  /\ \A r \in RunId : ~run[r].active
                      /\ \A s \in Spec \ (dirty \cup raced) : ~Doomed(s)
    BY DEF HonestExit
  <2>1. ~isRunning /\ failing = {}
    BY DEF ExitCode
  <2>2. \A r \in RunId : ~run[r].active
    BY <2>1 DEF Verdicts, RunningExact, FirstEnded, RunId
  <2>3. \A r \in RunId : run[r].spec = None
    BY <2>2 DEF Verdicts, Rested
  <2>4. None \notin Spec
    BY FileAssumption
  <2>. QED  BY <2>1, <2>2, <2>3, <2>4 DEF Verdicts, VerdictCurrent
<1>. QED
  BY <1>1, VerdictsHold, PTL

-------------------------------------------------------------------------------
(* The gaps the module names are the only ones.                            *)

\* Running t, as things are, builds s.
Covers(t, s) ==
  \/ t.kind \in {"initial", "manual-runall"}
  \/ t.kind = "change" /\ (t.file = Config \/ t.file \in Reads(s))

\* With no gap used, somebody still owes the build of each dirty spec: a run
\* that has yet to take it, the edits kept for the end of the pause, or the
\* pending trigger.
Accounted ==
  ~missed =>
  \A s \in dirty :
    \/ \E r \in RunId : s \in run[r].todo
    \/ changed
    \/ pending # None /\ Covers(pending, s)

\* A run that starts without opening a gap takes every dirty spec its trigger
\* covers; if it keeps the edits of the pause, they still cover the rest.
LEMMA StartRunCovers ==
  ASSUME Typed, NEW t \in Trigger, NEW G, NEW P, NEW W, NEW C, StartRun("loop", t, G, P, W, C),
         ~missed', NEW s \in dirty'
  PROVE  \/ s \in Targets(t, G, P, failing)
         \/ s \in dirty /\ ~Covers(t, s) /\ changed' = changed /\ ~missed
<1>1. s \in Spec /\ t.kind \in {"initial", "manual-rerun", "manual-runall", "change"}
  BY StartRunTypes, TriggerTypes DEF StartRun, Typed, HistoryTypes, GraphTypes
<1>2. CASE ~IsScoped(t, P)
  BY <1>1, <1>2 DEF Targets
<1>3. CASE IsScoped(t, P)
  <2>0. ~ReloadsConfig(t)
    BY <1>3 DEF IsScoped, ReloadsConfig, Change
  <2>1. s \in dirty /\ ~Unrecorded(t, G) /\ ~missed /\ changed' = changed
    BY <1>3, <2>0 DEF StartRun, Typed, LoopTypes
  <2>2. CASE t.kind = "manual-rerun"
    BY <2>1, <2>2 DEF Covers
  <2>3. CASE t.kind = "change"
    <3>1. t.file # Config
      <4>1. t = Change(t.file)
        BY <2>3, TriggerTypes
      <4>. QED  BY <1>3, <2>3, <4>1 DEF IsScoped, ReloadsConfig
    <3>2. CASE t.file \in Reads(s)
      <4>1. t.file \in G[s]
        BY <2>1, <2>3, <3>2 DEF Unrecorded
      <4>2. s \in Affected(G, t.file)
        BY <1>1, <4>1 DEF Affected
      <4>. QED  BY <1>3, <2>3, <4>2 DEF Targets
    <3>. QED  BY <2>1, <2>3, <3>1, <3>2 DEF Covers
  <2>. QED  BY <1>3, <2>2, <2>3 DEF IsScoped
<1>. QED  BY <1>2, <1>3

\* Replacing the pending trigger opens a gap, or loses nothing.
LEMMA ScheduleCovers ==
  ASSUME Typed, NEW t \in Trigger, Schedule(t), ~missed'
  PROVE  /\ ~missed /\ pending' = t /\ t # None
         /\ \/ pending = None
            \/ pending = t
            \/ \A s : Covers(t, s)
<1>1. ~missed /\ ~Lost(t) /\ pending' = t
  BY DEF Schedule
<1>2. t # None
  BY NoneAssumption
<1>3. ASSUME t.kind = "manual-runall" \/ ReloadsConfig(t) PROVE \A s : Covers(t, s)
  BY <1>3 DEF Covers, ReloadsConfig, Change
<1>. QED  BY <1>1, <1>2, <1>3 DEF Lost

\* A spec is dirty after an edit of f because it was, or because it reads f.
LEMMA EditCovers ==
  ASSUME Typed, NEW f \in Source \cup {Config}, Edit(f), NEW s \in dirty'
  PROVE  /\ s \in dirty \/ Covers(Change(f), s)'
         /\ f # s => imports'[s] = imports[s]
<1>1. s \in Spec
  BY DEF Edit, Readers, Typed, HistoryTypes
<1>2. f # s => imports'[s] = imports[s]
  BY <1>1 DEF Edit, Typed, SourceTypes
<1>3. ASSUME s \in Readers(f) PROVE Covers(Change(f), s)'
  <2>1. f = Config \/ f \in Reads(s)
    BY <1>3 DEF Readers
  <2>2. f \in Reads(s) => f \in Reads(s)'
    BY <1>2 DEF Reads
  <2>. QED  BY <2>1, <2>2 DEF Covers, Change
<1>. QED  BY <1>2, <1>3 DEF Edit

LEMMA StepAccounted ==
  Typed /\ RunningExact /\ Rested /\ Accounted /\ [Next]_vars => Accounted'
<1> SUFFICES ASSUME Typed, RunningExact, Rested, Accounted, [Next]_vars, ~missed', NEW s \in dirty'
             PROVE  \/ \E r \in RunId : s \in run'[r].todo
                    \/ changed'
                    \/ pending' # None /\ Covers(pending, s)'
  BY DEF Accounted
<1> DEFINE Goal == \/ \E r \in RunId : s \in run'[r].todo
                   \/ changed'
                   \/ pending' # None /\ Covers(pending, s)'
<1> SUFFICES Goal
  OBVIOUS
<1> HIDE DEF Goal
<1>0. run \in [RunId -> RunState] /\ RunId = {"first", "loop"}
  BY DEF Typed, RunTypes, RunId
<1>1. ASSUME ~missed, s \in dirty, UNCHANGED <<changed, pending, sources>>,
             \A r \in RunId : s \in run[r].todo => s \in run'[r].todo
      PROVE  Goal
  <2>1. Covers(pending, s)' <=> Covers(pending, s)
    BY <1>1 DEF sources, Covers, Reads
  <2>. QED  BY <1>1, <2>1 DEF Accounted, Goal
<1>2. ASSUME NEW r \in RunId, NEW x \in Spec, Build(r, x) PROVE Goal
  <2>1. run'[r].todo = run[r].todo \ {x} /\ \A q \in RunId : q # r => run'[q].todo = run[q].todo
    BY <1>2, BuildSlots
  <2>2. \A q \in RunId : run'[q].todo = IF q = r THEN run[r].todo \ {x} ELSE run[q].todo
    BY <2>1
  <2>3. s # x /\ s \in dirty /\ ~missed /\ UNCHANGED <<changed, pending, sources>>
    BY <1>2 DEF Build, loopVars
  <2>. QED  BY <1>1, <2>2, <2>3
<1>3. ASSUME NEW r \in RunId, Outcome(r) PROVE Goal
  <2>1. \A q \in RunId : run'[q].todo = run[q].todo
    BY <1>3, <1>0 DEF Outcome, RunState
  <2>. QED  BY <1>1, <1>3, <2>1 DEF Outcome, loopVars
<1>4. ASSUME NEW r \in RunId, Throw(r) PROVE Goal
  BY <1>4 DEF Throw
<1>5. ASSUME NEW r \in RunId, Finished(r), run' = [run EXCEPT ![r] = Idle],
             UNCHANGED <<missed, dirty, changed, pending, sources>>
      PROVE  Goal
  <2>1. \A q \in RunId : s \in run[q].todo => s \in run'[q].todo
    BY <1>0, <1>5 DEF Finished
  <2>. QED  BY <1>1, <1>5, <2>1
<1>6. ASSUME NEW t \in Trigger, NEW G, NEW P, NEW W, NEW C, StartRun("loop", t, G, P, W, C),
             pending # None => t = pending, run["loop"].todo = {}
      PROVE  Goal
  <2>1. run'["first"] = run["first"] /\ run'["loop"].todo = Targets(t, G, P, failing)
    BY <1>6, StartRunSlots
  <2>2. CASE s \in Targets(t, G, P, failing)
    BY <1>0, <2>1, <2>2 DEF Goal
  <2>3. CASE s \in dirty /\ ~Covers(t, s) /\ changed' = changed /\ ~missed
    <3>1. (\E r \in RunId : s \in run[r].todo) \/ changed
      BY <1>6, <2>3 DEF Accounted
    <3>. QED  BY <1>0, <1>6, <2>1, <2>3, <3>1 DEF Goal
  <2>. QED  BY <1>6, <2>2, <2>3, StartRunCovers
<1>7. CASE EndFirstRun
  BY <1>0, <1>5, <1>7 DEF EndFirstRun
<1>8. CASE EndLoopRun
  <2>1. CASE pending # None
    <3>1. pending \in Trigger
      BY <2>1 DEF Typed, LoopTypes
    <3>2. StartRun("loop", pending, Merged("loop"), PopulatedBy("loop"),
                   WatchedBy("loop"), SavedBy("loop"))
      BY <1>8, <2>1 DEF EndLoopRun
    <3>3. run["loop"].todo = {}
      BY <1>8 DEF EndLoopRun, Finished
    <3>. QED  BY <1>6, <3>1, <3>2, <3>3
  <2>2. CASE pending = None
    BY <1>0, <1>5, <1>8, <2>2 DEF EndLoopRun
  <2>. QED  BY <2>1, <2>2
<1>9. ASSUME TimerStarts, run["loop"].todo = {} PROVE Goal
  <2>1. PICK t \in Trigger : /\ StartRun("loop", t, graph, populated, watched, fresh)
                             /\ pending # None => t = pending
    BY <1>9, TriggerTypes DEF TimerStarts, Typed, LoopTypes
  <2>. QED  BY <1>6, <1>9, <2>1
<1>10. CASE TimerIgnored \/ PressC \/ UNCHANGED vars
  BY <1>1, <1>10 DEF TimerIgnored, PressC, vars, loopVars
<1>11. ASSUME NEW t \in Trigger, Schedule(t), UNCHANGED <<sources, changed, run, dirty>>
       PROVE  Goal
  <2>1. /\ ~missed /\ pending' = t /\ pending' # None
        /\ pending = None \/ pending = t \/ \A x : Covers(t, x)
    BY <1>11, ScheduleCovers
  <2>2. CASE pending = t
    BY <1>1, <1>11, <2>1, <2>2
  <2>3. CASE pending = None
    BY <1>11, <2>1, <2>3 DEF Accounted, Goal
  <2>4. CASE Covers(t, s)
    <3>1. Covers(pending, s)'
      BY <1>11, <2>1, <2>4 DEF sources, Covers, Reads
    <3>. QED  BY <2>1, <3>1 DEF Goal
  <2>. QED  BY <2>1, <2>2, <2>3, <2>4
<1>12. ASSUME NEW kind \in {"manual-rerun", "manual-runall"}, PressRun(kind) PROVE Goal
  <2>1. Manual(kind) \in Trigger
    BY TriggerTypes
  <2>. QED  BY <1>11, <1>12, <2>1 DEF PressRun
<1>13. CASE PressW
  <2>1. Manual("manual-runall") \in Trigger
    BY TriggerTypes
  <2>2. UNCHANGED <<sources, changed, run, dirty>>
    BY <1>13 DEF PressW
  <2>3. CASE ~autoRun /\ changed
    BY <1>11, <1>13, <2>1, <2>2, <2>3 DEF PressW
  <2>4. CASE ~(~autoRun /\ changed)
    BY <1>1, <1>13, <2>2, <2>4 DEF PressW
  <2>. QED  BY <2>3, <2>4
<1>14. ASSUME NEW f \in Source \cup {Config}, Edit(f) PROVE Goal
  <2>1. s \in dirty \/ Covers(Change(f), s)'
    BY <1>14, EditCovers
  <2>2. f # s => imports'[s] = imports[s]
    BY <1>14, EditCovers
  <2>3. f \notin Outside \ watched /\ FileEvent(f)
    BY <1>14 DEF Edit
  <2>4. \A q \in RunId : run'[q].todo = run[q].todo
    BY <1>14, EditSlots
  <2>5. CASE ~autoRun
    BY <2>3, <2>5 DEF FileEvent, Goal
  <2>6. CASE autoRun
    <3>1. Schedule(Change(f)) /\ changed' = changed /\ Change(f) \in Trigger
      BY <2>3, <2>6, TriggerTypes DEF FileEvent
    <3>2. /\ ~missed /\ pending' = Change(f) /\ pending' # None
          /\ pending = None \/ pending = Change(f) \/ \A x : Covers(Change(f), x)
      BY <3>1, ScheduleCovers
    <3>3. CASE Covers(Change(f), s)'
      <4>1. Covers(pending, s)'
        BY <3>2, <3>3 DEF Covers
      <4>. QED  BY <3>2, <4>1 DEF Goal
    <3>4. CASE s \in dirty /\ pending = None
      BY <2>4, <3>1, <3>2, <3>4 DEF Accounted, Goal
    <3>5. ASSUME Covers(Change(f), s) PROVE Covers(Change(f), s)'
      BY <2>2, <3>5 DEF Covers, Change, Reads
    <3>6. CASE s \in dirty /\ pending = Change(f)
      <4>1. \/ \E r \in RunId : s \in run[r].todo
            \/ changed
            \/ Covers(Change(f), s)
        BY <3>2, <3>6 DEF Accounted
      <4>. QED  BY <2>4, <3>1, <3>3, <3>5, <4>1 DEF Goal
    <3>. QED  BY <2>1, <3>2, <3>3, <3>4, <3>5, <3>6
  <2>. QED  BY <2>5, <2>6
<1>. QED
  <2>1. TimerStarts => run["loop"].todo = {}
    BY <1>0 DEF TimerStarts, RunningExact, Rested
  <2>. QED
    BY <2>1, <1>2, <1>3, <1>4, <1>7, <1>8, <1>9, <1>10, <1>12, <1>13, <1>14 DEF Next, RunStep

\* At rest every spec has been built since its last change, but for the gaps
\* the module names: the list is complete, also for edits during the first run.
THEOREM QuietMeansFreshHolds == WatchSpec => []QuietMeansFresh
<1> DEFINE IInv == Typed /\ RunningExact /\ Rested /\ Accounted
<1>1. Init => IInv
  <2>1. Init => Accounted
    <3> SUFFICES ASSUME Init, NEW s \in Spec PROVE \E r \in RunId : s \in run[r].todo
      BY DEF Init, Accounted
    <3>1. "first" \in RunId /\ run["first"].todo = Spec
      BY DEF Init, RunId, Idle
    <3>. QED  BY <3>1
  <2>. QED  BY <2>1, InitTypes, InitSlots
<1>2. IInv /\ [Next]_vars => IInv'
  BY StepTypes, StepRunningExact, StepRested, StepAccounted
<1>3. IInv => QuietMeansFresh
  <2> SUFFICES ASSUME Typed, Rested, Accounted, Quiet, ~missed PROVE dirty = {}
    BY DEF QuietMeansFresh, Typed, HistoryTypes
  <2>1. \A r \in RunId : run[r].todo = {}
    BY DEF Quiet, Rested
  <2>. QED  BY <2>1 DEF Quiet, Accounted
<1>. QED
  BY <1>1, <1>2, <1>3, PTL DEF WatchSpec
===============================================================================
