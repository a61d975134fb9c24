--------------------------- MODULE ParallelRunProofs ---------------------------
(***************************************************************************)
(* For any number of files, modes, loops and slots: what the command sums  *)
(* up is what happened, and it ends only when nothing is in flight.        *)
(*                                                                         *)
(* The invariant has three layers, each proved on top of the one before:   *)
(* Shape (types, and that a loop that holds a file holds one of the        *)
(* command's), Slots (the limiter: who waits is in the queue or woken,     *)
(* once, and active counts who runs) and Work (what became of each task is *)
(* with the loop that holds its file, in the results of the file, or still *)
(* to come).                                                               *)
(***************************************************************************)
EXTENDS ParallelRun, FiniteSetTheorems, SequenceTheorems, TLAPS

LoopState == [phase : Phase, file : 0..MaxFiles, done : Seq(Verdict)]

Shape ==
  /\ command \in Commands /\ threw \in BOOLEAN
  /\ nextIndex \in Nat \ {0}
  /\ loop \in [Loop -> LoopState]
  /\ \A w \in Loop : Holds(w) => loop[w].file \in Files /\ Len(loop[w].done) < command.modes
  /\ results \in [File -> Seq(Verdict)]
  /\ outcome \in {"running", "ok", "fail", "threw"}
  /\ fresh \subseteq Task
  /\ ran \in [Task -> Verdict \cup {"none"}]
  /\ promise \in [Task -> {"idle", "pending", "resolved", "rejected"}]
  /\ artifact \subseteq Task

In(phase) == {w \in Loop : loop[w].phase = phase}

\* The loops that wait are those in the queue and those woken, each once.
Waits(q, k, W) ==
  /\ q \in Seq(Loop) /\ k \subseteq Loop
  /\ W = k \cup {q[i] : i \in 1..Len(q)}
  /\ \A i \in 1..Len(q) : q[i] \notin k
  /\ \A i, j \in 1..Len(q) : q[i] = q[j] => i = j

Slots ==
  /\ Waits(queue, woken, In("waiting"))
  /\ limited => In("building") = {}
  /\ ~limited => In("waiting") = {}
  /\ active = IF limited THEN Cardinality(In("running")) ELSE 0
  /\ nextIndex <= command.files + 1 + Cardinality(In("stopped"))

\* The command.
LEMMA CommandFacts ==
  ASSUME command \in Commands
  PROVE  /\ limited \in BOOLEAN
         /\ command.files \in Nat /\ command.files <= MaxFiles
         /\ command.modes \in Nat \ {0} /\ command.modes <= MaxModes
         /\ limited => command.modes = 1
         /\ Files \subseteq File /\ Tasks \subseteq Task
<1>1. /\ command \in [limited : BOOLEAN, files : 0..MaxFiles, modes : 1..MaxModes]
      /\ command.limited => command.modes = 1
  BY CommandsAssumption
<1>2. /\ limited \in BOOLEAN /\ command.files \in 0..MaxFiles /\ command.modes \in 1..MaxModes
      /\ limited => command.modes = 1
  BY <1>1 DEF limited
<1>3. Files \subseteq File
  BY <1>2, SizeAssumption DEF Files, File
<1>4. Tasks \subseteq Task
  BY <1>2, <1>3, SizeAssumption DEF Tasks, Task
<1>. QED  BY <1>2, <1>3, <1>4, SizeAssumption

\* The task of a loop that holds a file is one of the command.
LEMMA TaskFacts ==
  ASSUME Shape, NEW w \in Loop, Holds(w)
  PROVE  /\ loop[w].file \in Files /\ Len(loop[w].done) \in Nat
         /\ Len(loop[w].done) + 1 \in 1..command.modes
         /\ TaskOf(w) \in Tasks /\ TaskOf(w) \in Task
<1>1. /\ loop[w].file \in Files /\ Len(loop[w].done) < command.modes
      /\ loop[w].done \in Seq(Verdict) /\ command \in Commands
  BY DEF Shape, LoopState
<1>2. Len(loop[w].done) \in Nat
  BY <1>1, LenProperties
<1>3. Len(loop[w].done) + 1 \in 1..command.modes
  BY <1>1, <1>2, CommandFacts
<1>. QED  BY <1>1, <1>2, <1>3, CommandFacts DEF TaskOf, Tasks

\* Only loop w changes, to r.
Moved(w, r) == loop' = [loop EXCEPT ![w] = r]

LEMMA GoesMoves ==
  ASSUME Shape, NEW w \in Loop, NEW phase \in Phase, Goes(w, phase)
  PROVE  /\ Moved(w, [loop[w] EXCEPT !.phase = phase])
         /\ [loop[w] EXCEPT !.phase = phase] \in LoopState
  BY DEF Shape, Goes, Moved, LoopState

LEMMA IdleType == Idle \in LoopState /\ [Idle EXCEPT !.phase = "stopped"] \in LoopState
<1>1. <<>> \in Seq(Verdict) /\ 0 \in 0..MaxFiles
  BY SizeAssumption
<1>. QED  BY <1>1 DEF Idle, LoopState, Phase

\* What a verdict, or an error, does to its loop.
LEMMA SettlesMoves ==
  ASSUME Shape, NEW w \in Loop, Holds(w), NEW verdict \in Verdict, Settles(w, verdict)
  PROVE  LET done == Append(loop[w].done, verdict)
         IN  /\ done \in Seq(Verdict) /\ Len(done) = Len(loop[w].done) + 1
             /\ \A m \in 1..Len(done) :
                  done[m] = IF m <= Len(loop[w].done) THEN loop[w].done[m] ELSE verdict
             /\ \/ /\ Len(done) < command.modes
                   /\ Moved(w, [loop[w] EXCEPT !.phase = "building", !.done = done])
                   /\ results' = results
                \/ /\ Len(done) = command.modes
                   /\ Moved(w, Idle)
                   /\ results' = [results EXCEPT ![loop[w].file] = done]
<1> DEFINE done == Append(loop[w].done, verdict)
<1>1. loop[w].done \in Seq(Verdict)
  BY DEF Shape, LoopState
<1>2. /\ done \in Seq(Verdict) /\ Len(done) = Len(loop[w].done) + 1
      /\ \A m \in 1..Len(loop[w].done) : done[m] = loop[w].done[m]
      /\ done[Len(loop[w].done) + 1] = verdict
  BY <1>1, AppendProperties
<1>3. Len(loop[w].done) \in Nat /\ Len(loop[w].done) + 1 \in 1..command.modes
  BY TaskFacts
<1>4. command.modes \in Nat
  BY CommandFacts DEF Shape
<1>5. CASE Len(done) < command.modes
  <2>1. /\ loop' = [loop EXCEPT ![w] = [@ EXCEPT !.phase = "building", !.done = done]]
        /\ results' = results
    BY <1>5 DEF Settles, NextMode
  <2>. QED  BY <1>2, <1>3, <1>5, <2>1 DEF Moved, Shape
<1>6. CASE ~(Len(done) < command.modes)
  <2>1. loop' = [loop EXCEPT ![w] = Idle] /\ results' = [results EXCEPT ![loop[w].file] = done]
    BY <1>6 DEF Settles, NextMode, Record
  <2>2. Len(done) = command.modes
    BY <1>2, <1>3, <1>4, <1>6
  <2>. QED  BY <1>2, <1>3, <2>1, <2>2 DEF Moved
<1>. QED  BY <1>5, <1>6

-------------------------------------------------------------------------------
(* Shape *)

\* One loop changes, and holds a file of the command if any.
LEMMA MovedKeepsShape ==
  ASSUME Shape, NEW w \in Loop, NEW r \in LoopState, Moved(w, r), UNCHANGED command,
         r.phase \notin {"taking", "stopped"} => r.file \in Files /\ Len(r.done) < command.modes
  PROVE  /\ loop' \in [Loop -> LoopState]
         /\ \A v \in Loop : Holds(v)' => loop'[v].file \in Files' /\ Len(loop'[v].done) < command'.modes
  BY DEF Shape, Moved, Holds, Files

\* The pool keeps its types.
LEMMA PoolKeepsShape ==
  ASSUME Shape, NEW t \in Task,
         Pool!Request(t) \/ Pool!Produce(t) \/ Pool!Settle(t)
  PROVE  /\ promise' \in [Task -> {"idle", "pending", "resolved", "rejected"}]
         /\ artifact' \subseteq Task
  BY DEF Shape, Pool!Request, Pool!Produce, Pool!Settle, Pool!Waiting

LEMMA SettlesKeepsShape ==
  ASSUME Shape, NEW w \in Loop, Holds(w), NEW verdict \in Verdict, Settles(w, verdict),
         UNCHANGED <<command, nextIndex, outcome, fresh, promise, artifact>>
  PROVE  Shape'
<1> DEFINE done == Append(loop[w].done, verdict)
           r == [loop[w] EXCEPT !.phase = "building", !.done = done]
<1>1. done \in Seq(Verdict) /\ loop[w].file \in Files /\ loop[w] \in LoopState
  BY SettlesMoves, TaskFacts DEF Shape
<1> HIDE DEF done
<1>2. r \in LoopState /\ r.file = loop[w].file /\ r.done = done /\ r.phase = "building"
  BY <1>1 DEF LoopState, Phase
<1>3. results' \in [File -> Seq(Verdict)]
  BY <1>1, SettlesMoves DEF Shape, done
<1>4. /\ loop' \in [Loop -> LoopState]
      /\ \A v \in Loop : Holds(v)' => loop'[v].file \in Files' /\ Len(loop'[v].done) < command'.modes
  <2>1. CASE Len(done) < command.modes /\ Moved(w, r)
    BY <1>1, <1>2, <2>1, MovedKeepsShape
  <2>2. CASE Moved(w, Idle)
    BY <2>2, IdleType, MovedKeepsShape DEF Idle
  <2>. QED  BY <2>1, <2>2, SettlesMoves DEF done
<1>5. ran' \in [Task -> Verdict \cup {"none"}] /\ threw' = threw
  BY TaskFacts DEF Settles, Shape
<1>. QED  BY <1>3, <1>4, <1>5 DEF Shape

LEMMA ThrowKeepsShape ==
  ASSUME Shape, NEW w \in Loop, Throw(w),
         UNCHANGED <<command, nextIndex, outcome, fresh, ran, promise, artifact>>
  PROVE  Shape'
<1>1. Moved(w, [Idle EXCEPT !.phase = "stopped"]) /\ threw' = TRUE /\ results' = results
  BY DEF Throw, Moved
<1>2. [Idle EXCEPT !.phase = "stopped"].phase = "stopped"
  BY DEF Idle
<1>3. /\ loop' \in [Loop -> LoopState]
      /\ \A v \in Loop : Holds(v)' => loop'[v].file \in Files' /\ Len(loop'[v].done) < command'.modes
  BY <1>1, <1>2, IdleType, MovedKeepsShape
<1>. QED  BY <1>1, <1>3 DEF Shape

\* A loop goes from one phase of work to another.
LEMMA GoesKeepsShape ==
  ASSUME Shape, NEW w \in Loop, Holds(w), NEW phase \in Phase, Goes(w, phase), UNCHANGED command
  PROVE  /\ loop' \in [Loop -> LoopState]
         /\ \A v \in Loop : Holds(v)' => loop'[v].file \in Files' /\ Len(loop'[v].done) < command'.modes
<1> DEFINE r == [loop[w] EXCEPT !.phase = phase]
<1>1. Moved(w, r) /\ r \in LoopState
  BY GoesMoves
<1>2. r.file = loop[w].file /\ r.done = loop[w].done
  BY DEF Shape, LoopState
<1>3. loop[w].file \in Files /\ Len(loop[w].done) < command.modes
  BY DEF Shape
<1> HIDE DEF r
<1>. QED  BY <1>1, <1>2, <1>3, MovedKeepsShape

LEMMA ShapeStep == Shape /\ Slots /\ [Next]_vars => Shape'
<1> SUFFICES ASSUME Shape, Slots, [Next]_vars PROVE Shape'
  OBVIOUS
<1>1. ASSUME NEW w \in Loop, Step(w) PROVE Shape'
  <2>1. CASE Stop(w)
    <3>1. Moved(w, [loop[w] EXCEPT !.phase = "stopped"])
            /\ [loop[w] EXCEPT !.phase = "stopped"] \in LoopState
      BY <2>1, GoesMoves DEF Stop, Phase
    <3>2. [loop[w] EXCEPT !.phase = "stopped"].phase = "stopped"
      BY DEF Shape, LoopState
    <3>3. /\ loop' \in [Loop -> LoopState]
          /\ \A v \in Loop : Holds(v)' => loop'[v].file \in Files' /\ Len(loop'[v].done) < command'.modes
      BY <2>1, <3>1, <3>2, MovedKeepsShape DEF Stop, Stays
    <3>4. nextIndex' \in Nat \ {0}
      BY <2>1 DEF Stop, Shape
    <3>. QED  BY <2>1, <3>3, <3>4 DEF Stop, Stays, Shape, poolVars
  <2>2. CASE Take(w)
    <3>1. PICK p \in {"running", "waiting", "building"} :
            Moved(w, [phase |-> p, file |-> nextIndex, done |-> <<>>])
      BY <2>2 DEF Take, Moved
    <3> DEFINE r == [phase |-> p, file |-> nextIndex, done |-> <<>>]
    <3>2. nextIndex \in Files /\ nextIndex \in File
      BY <2>2, CommandFacts DEF Take, Shape, Files
    <3>3. <<>> \in Seq(Verdict) /\ Len(<<>>) < command.modes
      BY CommandFacts DEF Shape
    <3>4. r \in LoopState /\ r.file \in Files /\ Len(r.done) < command.modes
      BY <3>2, <3>3 DEF LoopState, Phase, File
    <3>5. Moved(w, r)
      BY <3>1
    <3> HIDE DEF r
    <3>6. /\ loop' \in [Loop -> LoopState]
          /\ \A v \in Loop : Holds(v)' => loop'[v].file \in Files' /\ Len(loop'[v].done) < command'.modes
      BY <2>2, <3>4, <3>5, MovedKeepsShape DEF Take, Stays
    <3>7. nextIndex' \in Nat \ {0}
      BY <2>2 DEF Take, Shape
    <3>. QED  BY <2>2, <3>6, <3>7 DEF Take, Stays, Shape, poolVars
  <2>3. CASE RequestBuild(w)
    <3>1. TaskOf(w) \in Task
      BY <2>3, TaskFacts DEF RequestBuild, At, Holds
    <3>2. /\ promise' \in [Task -> {"idle", "pending", "resolved", "rejected"}]
          /\ artifact' \subseteq Task
      BY <2>3, <3>1, PoolKeepsShape DEF RequestBuild
    <3>. QED  BY <2>3, <3>2 DEF RequestBuild, Stays, Shape, Holds, Files
  <2>4. CASE SkipBuild(w) \/ Built(w)
    <3>1. Holds(w) /\ Goes(w, "running") /\ UNCHANGED command
      BY <2>4 DEF SkipBuild, Built, At, Holds, Stays
    <3>2. /\ loop' \in [Loop -> LoopState]
          /\ \A v \in Loop : Holds(v)' => loop'[v].file \in Files' /\ Len(loop'[v].done) < command'.modes
      BY <3>1, GoesKeepsShape DEF Phase
    <3>3. fresh' \subseteq Task
      BY <2>4, <3>1, TaskFacts DEF SkipBuild, Built, Shape
    <3>. QED  BY <2>4, <3>2, <3>3 DEF SkipBuild, Built, Stays, Shape, poolVars
  <2>5. CASE BuildFailed(w)
    <3>1. /\ Holds(w)
          /\ UNCHANGED <<command, nextIndex, outcome, fresh, promise, artifact>>
          /\ Settles(w, "fail") \/ (Throw(w) /\ UNCHANGED ran)
      BY <2>5 DEF BuildFailed, At, Holds, Stays, poolVars
    <3>. QED  BY <3>1, SettlesKeepsShape, ThrowKeepsShape DEF Verdict
  <2>6. CASE Ran(w)
    <3>1. /\ Holds(w)
          /\ UNCHANGED <<command, nextIndex, outcome, fresh, promise, artifact>>
          /\ (\E verdict \in Verdict : Settles(w, verdict)) \/ (Throw(w) /\ UNCHANGED ran)
      BY <2>6 DEF Ran, At, Holds, Stays, poolVars
    <3>. QED  BY <3>1, SettlesKeepsShape, ThrowKeepsShape
  <2>7. CASE Wake(w)
    <3>0. Holds(w)
      BY <2>7 DEF Wake, Slots, Waits, In, Holds
    <3>1. /\ loop' \in [Loop -> LoopState]
          /\ \A v \in Loop : Holds(v)' => loop'[v].file \in Files' /\ Len(loop'[v].done) < command'.modes
      BY <2>7, <3>0, GoesKeepsShape DEF Wake, Stays, Phase
    <3>. QED  BY <2>7, <3>1 DEF Wake, Stays, Shape, poolVars
  <2>. QED  BY <1>1, <2>1, <2>2, <2>3, <2>4, <2>5, <2>6, <2>7 DEF Step
<1>2. CASE PoolStep
  BY <1>2, PoolKeepsShape DEF PoolStep, Stays, Shape, Holds, Files
<1>3. CASE End
  BY <1>3 DEF End, Shape, Holds, Files, poolVars, Pool!Shut
<1>4. CASE UNCHANGED vars
  BY <1>4 DEF vars, poolVars, Shape, Holds, Files
<1>. QED  BY <1>1, <1>2, <1>3, <1>4 DEF Next

-------------------------------------------------------------------------------
(* Slots *)

\* How many loops are in a phase, before and after one of them moves.
LEMMA Count ==
  ASSUME NEW phase
  PROVE  /\ IsFiniteSet(In(phase))
         /\ Cardinality(In(phase)) \in 0..PoolWidth
<1>1. IsFiniteSet(Loop) /\ Cardinality(Loop) = PoolWidth
  BY SizeAssumption, FS_Interval DEF Loop
<1>2. In(phase) \in SUBSET Loop
  BY DEF In
<1>. QED  BY <1>1, <1>2, FS_Subset, FS_CardinalityType, SizeAssumption

LEMMA CountMoved ==
  ASSUME Shape, NEW w \in Loop, NEW r \in LoopState, Moved(w, r), NEW phase
  PROVE  /\ In(phase)' = IF r.phase = phase THEN In(phase) \cup {w} ELSE In(phase) \ {w}
         /\ Cardinality(In(phase)') =
              Cardinality(In(phase)) + (IF r.phase = phase THEN 1 ELSE 0)
                                     - (IF loop[w].phase = phase THEN 1 ELSE 0)
<1>1. In(phase)' = IF r.phase = phase THEN In(phase) \cup {w} ELSE In(phase) \ {w}
  BY DEF In, Moved, Shape
<1>2. IsFiniteSet(In(phase)) /\ Cardinality(In(phase)) \in Nat
  BY Count, SizeAssumption
<1>3. w \in In(phase) <=> loop[w].phase = phase
  BY DEF In
<1>4. Cardinality(In(phase) \cup {w}) =
        IF w \in In(phase) THEN Cardinality(In(phase)) ELSE Cardinality(In(phase)) + 1
  BY <1>2, FS_AddElement
<1>5. Cardinality(In(phase) \ {w}) =
        IF w \in In(phase) THEN Cardinality(In(phase)) - 1 ELSE Cardinality(In(phase))
  BY <1>2, FS_RemoveElement
<1>. QED  BY <1>1, <1>2, <1>3, <1>4, <1>5

\* The queue of the limiter.
LEMMA Enqueued ==
  ASSUME NEW W, NEW w \in Loop \ W, Waits(queue, woken, W)
  PROVE  Waits(Append(queue, w), woken, W \cup {w})
<1> DEFINE q == Append(queue, w)
<1>1. queue \in Seq(Loop) /\ Len(queue) \in Nat
  BY LenProperties DEF Waits
<1>2. /\ q \in Seq(Loop) /\ Len(q) = Len(queue) + 1
      /\ \A i \in 1..Len(queue) : q[i] = queue[i]
      /\ q[Len(queue) + 1] = w
  BY <1>1, AppendProperties
<1> HIDE DEF q
<1>3. \A i \in 1..Len(q) : i \in 1..Len(queue) \/ i = Len(queue) + 1
  BY <1>1, <1>2
<1>4. \A i \in 1..Len(queue) : i \in 1..Len(q)
  BY <1>1, <1>2
<1>5. Len(queue) + 1 \in 1..Len(q)
  BY <1>1, <1>2
<1>6. {q[i] : i \in 1..Len(q)} = {queue[i] : i \in 1..Len(queue)} \cup {w}
  BY <1>2, <1>3, <1>4, <1>5
<1>7. \A i \in 1..Len(queue) : queue[i] \in W
  BY DEF Waits
<1>8. \A i \in 1..Len(q) : q[i] \notin woken
  BY <1>2, <1>3 DEF Waits
<1>9. \A i, j \in 1..Len(q) : q[i] = q[j] => i = j
  BY <1>2, <1>3, <1>7 DEF Waits
<1>. QED  BY <1>2, <1>6, <1>8, <1>9 DEF Waits, q

LEMMA Released ==
  ASSUME NEW W, Waits(queue, woken, W), Release
  PROVE  Waits(queue', woken', W)
<1>1. queue \in Seq(Loop) /\ Len(queue) \in Nat /\ DOMAIN queue = 1..Len(queue)
  BY LenProperties DEF Waits
<1>2. CASE queue = <<>>
  <2>1. queue' = queue /\ woken' = woken
    BY <1>1, <1>2 DEF Release
  <2>. QED  BY <2>1
<1>3. CASE queue # <<>>
  <2>1. /\ queue' \in Seq(Loop) /\ Len(queue') = Len(queue) - 1
        /\ \A i \in 1..Len(queue') : queue'[i] = queue[i + 1]
    BY <1>1, <1>3, HeadTailProperties DEF Release
  <2>2. Len(queue) \in Nat \ {0}
    BY <1>1, <1>3, EmptySeq
  <2>3. woken' = woken \cup {queue[1]} /\ queue[1] \in Loop
    BY <1>1, <2>2, ElementOfSeq DEF Release
  <2>4. /\ \A i \in 1..Len(queue') : i + 1 \in 1..Len(queue) /\ i + 1 # 1
        /\ \A i \in 1..Len(queue) : i = 1 \/ (i - 1 \in 1..Len(queue') /\ i = (i - 1) + 1)
        /\ 1 \in 1..Len(queue)
    BY <2>1, <2>2
  <2>5. {queue[i] : i \in 1..Len(queue)} = {queue[1]} \cup {queue'[i] : i \in 1..Len(queue')}
    <3>1. \A i \in 1..Len(queue') : queue'[i] \in {queue[j] : j \in 1..Len(queue)}
      BY <2>1, <2>4
    <3>2. \A i \in 1..Len(queue) : i # 1 => queue[i] = queue'[i - 1] /\ i - 1 \in 1..Len(queue')
      BY <2>1, <2>4
    <3>3. \A i \in 1..Len(queue) :
            queue[i] = queue[1] \/ queue[i] \in {queue'[j] : j \in 1..Len(queue')}
      BY <3>2
    <3>. QED  BY <2>4, <3>1, <3>3
  <2>6. \A i \in 1..Len(queue') : queue'[i] \notin woken'
    BY <2>1, <2>3, <2>4 DEF Waits
  <2>7. \A i, j \in 1..Len(queue') : queue'[i] = queue'[j] => i = j
    BY <2>1, <2>4 DEF Waits
  <2>. QED  BY <2>1, <2>3, <2>5, <2>6, <2>7 DEF Waits
<1>. QED  BY <1>2, <1>3

LEMMA Woken ==
  ASSUME NEW W, Waits(queue, woken, W), NEW w \in woken
  PROVE  Waits(queue, woken \ {w}, W \ {w})
  BY DEF Waits

\* A step that leaves loops and slots alone.
LEMMA SlotsKept ==
  ASSUME Slots, UNCHANGED <<command, nextIndex, loop, limitVars>>
  PROVE  Slots'
<1>1. limited' = limited /\ \A phase : In(phase)' = In(phase)
  BY DEF limited, In
<1>. QED  BY <1>1 DEF Slots, limitVars

\* Without a limiter, nobody waits and nothing is counted.
LEMMA FreeSlots ==
  ASSUME Shape, Slots, ~limited, NEW w \in Loop, NEW r \in LoopState, Moved(w, r),
         r.phase # "waiting", loop[w].phase # "stopped",
         UNCHANGED <<command, nextIndex>>, UNCHANGED limitVars \/ Release
  PROVE  Slots'
<1>1. limited' = limited
  BY DEF limited
<1>2. In("waiting")' = In("waiting")
  BY CountMoved DEF Slots
<1>3. Waits(queue', woken', In("waiting")) /\ active' = active
  BY Released DEF Slots, limitVars, Release
<1>4. Cardinality(In("stopped")') >= Cardinality(In("stopped"))
  BY CountMoved, Count, SizeAssumption
<1>5. /\ command.files \in Nat /\ nextIndex \in Nat
      /\ Cardinality(In("stopped")) \in Nat /\ Cardinality(In("stopped")') \in Nat
  <2>1. /\ Cardinality(In("stopped")) \in Nat
        /\ Cardinality(In("stopped")') = Cardinality(In("stopped")) + (IF r.phase = "stopped" THEN 1 ELSE 0)
    BY Count, CountMoved, SizeAssumption
  <2>. QED  BY <2>1, CommandFacts DEF Shape
<1>6. nextIndex' <= command'.files + 1 + Cardinality(In("stopped")')
  BY <1>4, <1>5 DEF Slots
<1>. QED  BY <1>1, <1>2, <1>3, <1>6 DEF Slots

\* With a limiter, a spec that has run gives its slot back.
LEMMA SlotReturned ==
  ASSUME Shape, Slots, limited, NEW w \in Loop, NEW r \in LoopState, Moved(w, r),
         r.phase \in {"taking", "stopped"}, loop[w].phase = "running",
         UNCHANGED <<command, nextIndex>>, Release
  PROVE  Slots'
<1>1. limited' = limited
  BY DEF limited
<1>2. In("waiting")' = In("waiting") /\ In("building")' = In("building")
  <2>1. w \notin In("waiting") /\ w \notin In("building")
    BY DEF In
  <2>2. In("waiting")' = In("waiting") \ {w}
    BY CountMoved
  <2>3. In("building")' = In("building") \ {w}
    BY CountMoved
  <2>. QED  BY <2>1, <2>2, <2>3
<1>3. Waits(queue', woken', In("waiting"))
  BY Released DEF Slots
<1>4. active' = Cardinality(In("running")')
  <2>1. Cardinality(In("running")') = Cardinality(In("running")) + 0 - 1
    BY CountMoved
  <2>2. Cardinality(In("running")) \in Nat
    BY Count, SizeAssumption
  <2>. QED  BY <2>1, <2>2 DEF Slots, Release
<1>5. nextIndex' <= command'.files + 1 + Cardinality(In("stopped")')
  <2>1. /\ Cardinality(In("stopped")) \in Nat
        /\ Cardinality(In("stopped")') = Cardinality(In("stopped")) + (IF r.phase = "stopped" THEN 1 ELSE 0)
    BY Count, CountMoved, SizeAssumption
  <2>2. command.files \in Nat /\ nextIndex \in Nat
    BY CommandFacts DEF Shape
  <2>. QED  BY <2>1, <2>2 DEF Slots
<1>. QED  BY <1>1, <1>2, <1>3, <1>4, <1>5 DEF Slots

\* The next file: by way of the limiter, or to build.
LEMMA TakeSlots ==
  ASSUME Shape, Shape', Slots, NEW w \in Loop, Take(w)
  PROVE  Slots'
<1>1. /\ loop[w].phase = "taking" /\ UNCHANGED <<command, woken>>
      /\ nextIndex <= command.files /\ nextIndex' = nextIndex + 1
  BY DEF Take, At, Stays
<1>2. limited' = limited /\ limited \in BOOLEAN /\ command.files \in Nat /\ nextIndex \in Nat
  BY <1>1, CommandFacts DEF limited, Shape
<1>3. loop'[w] \in LoopState /\ Moved(w, loop'[w])
  BY DEF Take, Moved, Shape
<1>4. /\ \A phase : w \in In(phase) <=> phase = "taking"
      /\ Cardinality(In("running")) \in Nat /\ Cardinality(In("stopped")) \in Nat
  <2>1. \A phase : w \in In(phase) <=> phase = "taking"
    BY <1>1 DEF In
  <2>. QED  BY <2>1, Count, SizeAssumption
<1>5. /\ \A phase : In(phase)' = IF loop'[w].phase = phase THEN In(phase) \cup {w} ELSE In(phase) \ {w}
      /\ \A phase : phase # "taking" =>
           Cardinality(In(phase)') = Cardinality(In(phase)) + (IF loop'[w].phase = phase THEN 1 ELSE 0)
  <2>1. \A phase : phase # "taking" => Cardinality(In(phase)) \in Nat
    BY Count, SizeAssumption
  <2>. QED  BY <1>1, <1>3, <2>1, CountMoved
<1>6. \A W : Waits(queue, woken, W) /\ w \notin W => Waits(Append(queue, w), woken, W \cup {w})
  BY Enqueued
<1>7. nextIndex' <= command'.files + 1 + Cardinality(In("stopped")') \/ loop'[w].phase = "stopped"
  BY <1>1, <1>2, <1>4, <1>5
<1>8. CASE limited /\ active < RunJobs
  <2>1. loop'[w].phase = "running" /\ active' = active + 1 /\ queue' = queue
    <3>1. active \in Nat
      BY <1>4, <1>8 DEF Slots
    <3>. QED  BY <1>8, <1>3, <3>1, SizeAssumption DEF Take, Shape
  <2>2. /\ In("waiting")' = In("waiting") /\ In("building")' = In("building")
        /\ Cardinality(In("running")') = Cardinality(In("running")) + 1
    BY <1>4, <1>5, <2>1
  <2>. QED  BY <1>1, <1>2, <1>4, <1>7, <1>8, <2>1, <2>2 DEF Slots
<1>9. CASE limited /\ active >= RunJobs
  <2>1. active \in Nat
    BY <1>4, <1>9 DEF Slots
  <2>2. loop'[w].phase = "waiting" /\ active' = active /\ queue' = Append(queue, w)
    BY <1>9, <2>1, <1>3, SizeAssumption DEF Take, Shape
  <2>. QED  BY <1>1, <1>2, <1>4, <1>5, <1>6, <1>7, <1>9, <2>2 DEF Slots
<1>10. CASE ~limited
  <2>1. loop'[w].phase = "building" /\ active' = active /\ queue' = queue
    BY <1>10, <1>3 DEF Take, Shape
  <2>. QED  BY <1>1, <1>2, <1>4, <1>5, <1>7, <1>10, <2>1 DEF Slots
<1>11. active \in Nat
  BY <1>2, <1>4 DEF Slots
<1>. QED  BY <1>2, <1>8, <1>9, <1>10, <1>11, SizeAssumption

LEMMA SlotsStep == Shape /\ Shape' /\ Slots /\ [Next]_vars => Slots'
<1> SUFFICES ASSUME Shape, Shape', Slots, [Next]_vars PROVE Slots'
  OBVIOUS
<1>0. limited \in BOOLEAN /\ command.files \in Nat /\ nextIndex \in Nat
  BY CommandFacts DEF Shape
<1>1. ASSUME NEW w \in Loop, Stop(w) PROVE Slots'
  <2> DEFINE r == [loop[w] EXCEPT !.phase = "stopped"]
  <2>1. Moved(w, r) /\ r \in LoopState
    BY <1>1, GoesMoves DEF Stop, Phase
  <2>2. r.phase = "stopped" /\ loop[w].phase = "taking"
    BY <1>1 DEF Shape, LoopState, Stop, At
  <2> HIDE DEF r
  <2>3. In("waiting")' = In("waiting") /\ In("building")' = In("building")
          /\ In("running")' = In("running")
    <3>1. w \notin In("waiting") \cup In("building") \cup In("running")
      BY <2>2 DEF In
    <3>. QED  BY <2>1, <2>2, <3>1, CountMoved, SMTT(30)
  <2>4. /\ Cardinality(In("stopped")) \in Nat
        /\ Cardinality(In("stopped")') = Cardinality(In("stopped")) + 1
    BY <2>1, <2>2, Count, CountMoved, SizeAssumption
  <2>5. nextIndex' <= nextIndex + 1 /\ nextIndex' \in Nat
    BY <1>0, <1>1 DEF Stop
  <2>6. UNCHANGED <<command, limitVars>> /\ limited' = limited
    BY <1>1 DEF Stop, Stays, limited
  <2>. QED  BY <1>0, <2>3, <2>4, <2>5, <2>6 DEF Slots, limitVars
<1>2. ASSUME NEW w \in Loop, RequestBuild(w) PROVE Slots'
  BY <1>2, SlotsKept DEF RequestBuild, Stays
<1>3. ASSUME NEW w \in Loop, SkipBuild(w) \/ Built(w) PROVE Slots'
  <2> DEFINE r == [loop[w] EXCEPT !.phase = "running"]
  <2>1. Moved(w, r) /\ r \in LoopState
    BY <1>3, GoesMoves DEF SkipBuild, Built, Phase
  <2>2. r.phase = "running" /\ loop[w].phase = "building" /\ ~limited
    BY <1>0, <1>3 DEF Shape, LoopState, SkipBuild, Built, At, Slots, In
  <2> HIDE DEF r
  <2>. QED  BY <1>3, <2>1, <2>2, FreeSlots DEF SkipBuild, Built, Stays
<1>4. ASSUME NEW w \in Loop, NEW verdict \in Verdict, Settles(w, verdict) \/ Throw(w),
             Holds(w)
      PROVE  \E r \in LoopState : Moved(w, r) /\ r.phase \in {"building", "taking", "stopped"}
                                  /\ (limited => r.phase # "building")
  <2>1. CASE Throw(w)
    BY <2>1, IdleType DEF Throw, Moved, Idle
  <2>2. CASE Settles(w, verdict)
    <3> DEFINE done == Append(loop[w].done, verdict)
               r == [loop[w] EXCEPT !.phase = "building", !.done = done]
    <3>1. done \in Seq(Verdict) /\ loop[w] \in LoopState /\ Len(done) = Len(loop[w].done) + 1
            /\ Len(loop[w].done) \in Nat
      BY <1>4, <2>2, SettlesMoves, TaskFacts DEF Shape
    <3>2. Moved(w, Idle) \/ (Len(done) < command.modes /\ Moved(w, r))
      BY <1>4, <2>2, SettlesMoves
    <3> HIDE DEF done
    <3>3. r \in LoopState /\ r.phase = "building"
      BY <3>1 DEF LoopState, Phase
    <3>4. limited => ~(Len(done) < command.modes)
      BY <3>1, CommandFacts DEF Shape
    <3>5. Idle.phase = "taking"
      BY DEF Idle
    <3>. QED  BY <3>2, <3>3, <3>4, <3>5, IdleType
  <2>. QED  BY <1>4, <2>1, <2>2
<1>5. ASSUME NEW w \in Loop, BuildFailed(w) PROVE Slots'
  <2>1. /\ Holds(w) /\ loop[w].phase = "building" /\ UNCHANGED <<command, nextIndex, limitVars>>
        /\ Settles(w, "fail") \/ Throw(w)
    BY <1>5 DEF BuildFailed, At, Holds, Stays
  <2>2. ~limited
    BY <1>0, <2>1 DEF Slots, In
  <2>3. PICK r \in LoopState : Moved(w, r) /\ r.phase \in {"building", "taking", "stopped"}
    BY <1>4, <2>1 DEF Verdict
  <2>. QED  BY <2>1, <2>2, <2>3, FreeSlots
<1>6. ASSUME NEW w \in Loop, Ran(w) PROVE Slots'
  <2>1. /\ Holds(w) /\ loop[w].phase = "running" /\ UNCHANGED <<command, nextIndex>> /\ Release
        /\ \E verdict \in Verdict : Settles(w, verdict) \/ Throw(w)
    BY <1>6 DEF Ran, At, Holds, Stays, Verdict
  <2>2. PICK r \in LoopState : Moved(w, r) /\ r.phase \in {"building", "taking", "stopped"}
                              /\ (limited => r.phase # "building")
    BY <1>4, <2>1
  <2>. QED  BY <1>0, <2>1, <2>2, FreeSlots, SlotReturned
<1>7. ASSUME NEW w \in Loop, Wake(w) PROVE Slots'
  <2> DEFINE r == [loop[w] EXCEPT !.phase = "running"]
  <2>1. Moved(w, r) /\ r \in LoopState
    BY <1>7, GoesMoves DEF Wake, Phase
  <2>2. /\ r.phase = "running" /\ loop[w].phase = "waiting" /\ limited
        /\ w \in woken /\ woken' = woken \ {w} /\ queue' = queue /\ active' = active + 1
        /\ UNCHANGED <<command, nextIndex>>
    BY <1>0, <1>7 DEF Shape, LoopState, Wake, Slots, Waits, In, Stays
  <2> HIDE DEF r
  <2>3. /\ In("waiting")' = In("waiting") \ {w} /\ In("building")' = In("building") \ {w}
        /\ Cardinality(In("running")') = Cardinality(In("running")) + 1
        /\ Cardinality(In("stopped")') = Cardinality(In("stopped"))
    <3>1. Cardinality(In("running")) \in Nat /\ Cardinality(In("stopped")) \in Nat
      BY Count, SizeAssumption
    <3>. QED  BY <2>1, <2>2, <3>1, CountMoved
  <2>4. Waits(queue', woken', In("waiting")')
    BY <2>2, <2>3, Woken DEF Slots
  <2>5. limited' = limited
    BY <2>2 DEF limited
  <2>. QED  BY <2>2, <2>3, <2>4, <2>5 DEF Slots
<1>8. CASE PoolStep
  BY <1>8, SlotsKept DEF PoolStep, Stays
<1>9. CASE End
  BY <1>9, SlotsKept DEF End
<1>10. CASE UNCHANGED vars
  BY <1>10, SlotsKept DEF vars
<1>. QED
  BY <1>1, <1>2, <1>3, <1>5, <1>6, <1>7, <1>8, <1>9, <1>10, TakeSlots DEF Next, Step

-------------------------------------------------------------------------------
(* Work *)

Mode == 1..command.modes
Complete(f) ==
  /\ DOMAIN results[f] = Mode
  /\ \A m \in Mode : ran[<<f, m>>] \in Verdict /\ results[f][m] = ran[<<f, m>>]

Work ==
  /\ \A w, v \in Loop : Holds(w) /\ Holds(v) /\ w # v => loop[w].file # loop[v].file
  /\ \A w \in Loop : Holds(w) => loop[w].file < nextIndex
  /\ \A w \in Loop : Holds(w) => \A m \in Mode :
       ran[<<loop[w].file, m>>] = IF m <= Len(loop[w].done) THEN loop[w].done[m] ELSE "none"
  /\ \A f \in Files : f >= nextIndex => \A m \in Mode : ran[<<f, m>>] = "none"
  /\ \A t \in Task \ Tasks : ran[t] = "none"
  /\ ~threw => \A f \in Files :
       f < nextIndex /\ (\A w \in Loop : Holds(w) => loop[w].file # f) => Complete(f)
  /\ ~threw /\ loop[1].phase = "stopped" => nextIndex > command.files

\* A step after which each loop holds what it held before.
SameHoldings ==
  \A v \in Loop :
    /\ Holds(v)' <=> Holds(v)
    /\ Holds(v) => loop'[v].file = loop[v].file /\ loop'[v].done = loop[v].done
    /\ loop'[v].phase = "stopped" => loop[v].phase = "stopped"

LEMMA WorkKept ==
  ASSUME Work, SameHoldings, UNCHANGED <<command, nextIndex, threw, results, ran>>
  PROVE  Work'
<1>1. 1 \in Loop
  BY SizeAssumption DEF Loop
<1>2. Files' = Files /\ Mode' = Mode /\ Tasks' = Tasks /\ \A f : Complete(f)' <=> Complete(f)
  BY DEF Files, Mode, Tasks, Complete
<1>. QED  BY <1>1, <1>2 DEF Work, SameHoldings

LEMMA GoesHolds ==
  ASSUME Shape, NEW w \in Loop, Holds(w), NEW phase \in Phase \ {"taking", "stopped"},
         Goes(w, phase)
  PROVE  SameHoldings
  BY DEF Shape, LoopState, Goes, SameHoldings, Holds

\* A verdict is kept with its loop, or the results of its file are complete.
LEMMA SettlesWork ==
  ASSUME Shape, Work, NEW w \in Loop, Holds(w), NEW verdict \in Verdict,
         Settles(w, verdict), UNCHANGED <<command, nextIndex>>
  PROVE  Work'
<1>0. PICK f, old, done :
        f = loop[w].file /\ old = loop[w].done /\ done = Append(old, verdict)
  OBVIOUS
<1>1. /\ f \in Files /\ f \in File /\ Len(old) \in Nat /\ Len(old) + 1 \in Mode
      /\ TaskOf(w) = <<f, Len(old) + 1>>
      /\ TaskOf(w) \in Tasks /\ TaskOf(w) \in Task
      /\ command.modes \in Nat
  BY <1>0, TaskFacts, CommandFacts DEF Shape, Mode, TaskOf
<1>2. /\ Files' = Files /\ Mode' = Mode /\ Tasks' = Tasks /\ threw' = threw
      /\ ran' = [ran EXCEPT ![<<f, Len(old) + 1>>] = verdict]
  BY <1>1 DEF Files, Mode, Tasks, Settles
<1>3. /\ \A t \in Task : t # <<f, Len(old) + 1>> => ran'[t] = ran[t]
      /\ ran'[<<f, Len(old) + 1>>] = verdict
  BY <1>1, <1>2 DEF Shape
<1>4. \A g \in Files, m \in Mode : <<g, m>> \in Task
  BY CommandFacts DEF Shape, Mode, Task, Tasks
<1>5. /\ \A g \in Files \ {f} : \A m \in Mode : ran'[<<g, m>>] = ran[<<g, m>>]
      /\ \A m \in Mode : ran'[<<f, m>>] = IF m <= Len(old) + 1 THEN done[m] ELSE "none"
  <2>1. \A m \in 1..(Len(old) + 1) : done[m] = IF m <= Len(old) THEN old[m] ELSE verdict
    <3>1. Len(Append(loop[w].done, verdict)) = Len(loop[w].done) + 1
      BY SettlesMoves
    <3>2. \A m \in 1..Len(Append(loop[w].done, verdict)) : Append(loop[w].done, verdict)[m] =
            IF m <= Len(loop[w].done) THEN loop[w].done[m] ELSE verdict
      BY SettlesMoves
    <3>. QED  BY <1>0, <3>1, <3>2
  <2>2. \A m \in Mode : ran[<<f, m>>] = IF m <= Len(old) THEN old[m] ELSE "none"
    BY <1>0 DEF Work
  <2>3. \A m \in Mode : m \in Nat /\ m >= 1
    BY <1>1 DEF Mode
  <2>4. ASSUME NEW m \in Mode
        PROVE  ran'[<<f, m>>] = IF m <= Len(old) + 1 THEN done[m] ELSE "none"
    <3>1. CASE m = Len(old) + 1
      BY <1>1, <1>3, <2>1, <2>3, <3>1
    <3>2. CASE m # Len(old) + 1
      <4>1. ran'[<<f, m>>] = ran[<<f, m>>]
        BY <1>1, <1>3, <1>4, <3>2
      <4>. QED  BY <1>1, <2>1, <2>2, <2>3, <3>2, <4>1
    <3>. QED  BY <3>1, <3>2
  <2>5. ASSUME NEW g \in Files \ {f}, NEW m \in Mode PROVE ran'[<<g, m>>] = ran[<<g, m>>]
    BY <1>3, <1>4
  <2>. QED  BY <2>4, <2>5
<1>6. \A t \in Task \ Tasks : ran'[t] = "none"
  BY <1>1, <1>3 DEF Work
<1>7. /\ done \in Seq(Verdict) /\ Len(done) = Len(old) + 1
      /\ \/ Moved(w, [loop[w] EXCEPT !.phase = "building", !.done = done]) /\ results' = results
         \/ /\ Len(done) = command.modes /\ Moved(w, Idle)
            /\ results' = [results EXCEPT ![f] = done]
  BY <1>0, SettlesMoves
<1>8. f < nextIndex /\ \A v \in Loop \ {w} : Holds(v) => loop[v].file # f
  BY <1>0 DEF Work
<1>9. 1 \in Loop /\ \A v \in Loop : Holds(v) => loop[v].file \in Files
  BY SizeAssumption DEF Loop, Shape
<1>10. \A v \in Loop \ {w} : loop'[v] = loop[v] /\ (Holds(v)' <=> Holds(v))
  BY <1>7 DEF Moved, Shape, Holds
<1>11. /\ loop'[w].phase \in {"building", "taking"}
       /\ Holds(w)' => loop'[w].file = f /\ loop'[w].done = done
       /\ ~Holds(w)' => Len(done) = command.modes /\ results' = [results EXCEPT ![f] = done]
       /\ Holds(w)' => results' = results
  <2>1. CASE Moved(w, [loop[w] EXCEPT !.phase = "building", !.done = done]) /\ results' = results
    BY <1>0, <2>1 DEF Moved, Shape, LoopState, Holds
  <2>2. CASE /\ Len(done) = command.modes /\ Moved(w, Idle)
             /\ results' = [results EXCEPT ![f] = done]
    BY <2>2 DEF Moved, Shape, Holds, Idle
  <2>. QED  BY <1>7, <2>1, <2>2
<1>12. \A g \in Files \ {f} : Complete(g) => Complete(g)'
  <2>1. \A g \in Files \ {f} : results'[g] = results[g]
    BY <1>11, <1>1, CommandFacts DEF Shape
  <2>. QED  BY <1>2, <1>5, <2>1 DEF Complete
<1>13. ~Holds(w)' => Complete(f)'
  <2> SUFFICES ASSUME ~Holds(w)' PROVE Complete(f)'
    OBVIOUS
  <2>1. results'[f] = done /\ Len(done) = command.modes
    BY <1>1, <1>11 DEF Shape
  <2>2. DOMAIN done = Mode /\ \A m \in Mode : done[m] \in Verdict
    BY <1>7, <2>1, LenProperties, ElementOfSeq DEF Mode
  <2>3. \A m \in Mode : ran'[<<f, m>>] = done[m]
    BY <1>1, <1>5, <1>7, <2>1 DEF Mode
  <2>. QED  BY <1>2, <2>1, <2>2, <2>3 DEF Complete
<1>14. \A v, u \in Loop : Holds(v)' /\ Holds(u)' /\ v # u => loop'[v].file # loop'[u].file
  BY <1>8, <1>10, <1>11 DEF Work
<1>15. \A v \in Loop : Holds(v)' => loop'[v].file < nextIndex'
  BY <1>8, <1>10, <1>11 DEF Work
<1>16. \A v \in Loop : Holds(v)' => \A m \in Mode :
         ran'[<<loop'[v].file, m>>] = IF m <= Len(loop'[v].done) THEN loop'[v].done[m] ELSE "none"
  <2>1. ASSUME NEW v \in Loop \ {w}, Holds(v)', NEW m \in Mode
        PROVE  ran'[<<loop'[v].file, m>>] = IF m <= Len(loop'[v].done) THEN loop'[v].done[m] ELSE "none"
    <3>1. Holds(v) /\ loop'[v] = loop[v] /\ loop[v].file \in Files \ {f}
      BY <1>8, <1>9, <1>10, <2>1
    <3>. QED  BY <1>5, <3>1 DEF Work
  <2>2. ASSUME Holds(w)', NEW m \in Mode
        PROVE  ran'[<<loop'[w].file, m>>] = IF m <= Len(loop'[w].done) THEN loop'[w].done[m] ELSE "none"
    BY <1>5, <1>7, <1>11, <2>2
  <2>. QED  BY <2>1, <2>2
<1>17. \A g \in Files : g >= nextIndex' => \A m \in Mode : ran'[<<g, m>>] = "none"
  <2>1. \A g \in Files : g >= nextIndex => g # f
    BY <1>1, <1>8 DEF Files, Shape
  <2>. QED  BY <1>5, <2>1 DEF Work
<1>18. ~threw' => \A g \in Files :
         g < nextIndex' /\ (\A v \in Loop : Holds(v)' => loop'[v].file # g) => Complete(g)'
  <2> SUFFICES ASSUME ~threw, NEW g \in Files, g < nextIndex,
                      \A v \in Loop : Holds(v)' => loop'[v].file # g
               PROVE  Complete(g)'
    BY <1>2
  <2>1. CASE g = f
    BY <1>11, <1>13, <2>1
  <2>2. CASE g # f
    <3>1. \A v \in Loop : Holds(v) => loop[v].file # g
      BY <1>0, <1>10, <2>2
    <3>. QED  BY <1>12, <2>2, <3>1 DEF Work
  <2>. QED  BY <2>1, <2>2
<1>19. ~threw' /\ loop'[1].phase = "stopped" => nextIndex' > command'.files
  <2>1. loop'[1].phase = "stopped" => loop[1].phase = "stopped"
    BY <1>9, <1>10, <1>11
  <2>. QED  BY <1>2, <2>1 DEF Work
<1>. QED  BY <1>2, <1>6, <1>14, <1>15, <1>16, <1>17, <1>18, <1>19 DEF Work

LEMMA WorkStep == Shape /\ Slots /\ Shape' /\ Work /\ [Next]_vars => Work'
<1> SUFFICES ASSUME Shape, Slots, Shape', Work, [Next]_vars PROVE Work'
  OBVIOUS
<1>0. /\ command.files \in Nat /\ nextIndex \in Nat /\ 1 \in Loop
      /\ \A f \in Files : f \in Nat /\ f <= command.files
  BY CommandFacts, SizeAssumption DEF Shape, Files, Loop
<1>1. ASSUME NEW w \in Loop, Stop(w) PROVE Work'
  <2>1. /\ \A v \in Loop : (Holds(v)' <=> Holds(v)) /\ (Holds(v) => loop'[v] = loop[v])
        /\ \A v \in Loop \ {w} : loop'[v] = loop[v]
        /\ UNCHANGED <<command, threw, results, ran>>
    BY <1>1 DEF Stop, At, Goes, Holds, Shape, LoopState, Stays
  <2>2. Files' = Files /\ Mode' = Mode /\ Tasks' = Tasks /\ \A f : Complete(f)' <=> Complete(f)
    BY <2>1 DEF Files, Mode, Tasks, Complete
  <2>3. CASE threw /\ nextIndex' = nextIndex
    BY <2>1, <2>2, <2>3 DEF Work
  <2>4. CASE nextIndex > command.files /\ nextIndex' = nextIndex + 1
    <3>1. \A f \in Files : f < nextIndex /\ f < nextIndex'
      BY <1>0, <2>4
    <3>2. nextIndex' > command'.files
      BY <1>0, <2>1, <2>4
    <3>3. \A v \in Loop : Holds(v) => loop[v].file \in Files
      BY DEF Shape
    <3>4. \A f \in Files : ~(f >= nextIndex')
      BY <1>0, <2>4
    <3>. QED  BY <2>1, <2>2, <3>1, <3>2, <3>3, <3>4 DEF Work
  <2>. QED  BY <1>1, <2>3, <2>4 DEF Stop
<1>2. ASSUME NEW w \in Loop, Take(w) PROVE Work'
  <2>1. /\ ~threw /\ nextIndex \in Files /\ nextIndex' = nextIndex + 1 /\ ~Holds(w)
        /\ UNCHANGED <<command, threw, results, ran>>
    BY <1>0, <1>2 DEF Take, At, Holds, Stays, Files, Shape
  <2>2. Files' = Files /\ Mode' = Mode /\ Tasks' = Tasks /\ \A f : Complete(f)' <=> Complete(f)
    BY <2>1 DEF Files, Mode, Tasks, Complete
  <2>3. /\ \A v \in Loop \ {w} : loop'[v] = loop[v] /\ (Holds(v)' <=> Holds(v))
        /\ loop'[w].file = nextIndex /\ loop'[w].done = <<>>
        /\ loop'[w].phase \in {"running", "waiting", "building"}
    BY <1>2 DEF Take, Shape, Holds
  <2>4. Holds(w)'
    BY <2>3 DEF Holds
  <2>5. \A v \in Loop : Holds(v) => loop[v].file \in Files /\ loop[v].file < nextIndex
    BY DEF Shape, Work
  <2>6. \A m \in Mode : m \in Nat /\ ~(m <= Len(<<>>))
    BY CommandFacts DEF Mode, Shape
  <2>7. \A v, u \in Loop : Holds(v)' /\ Holds(u)' /\ v # u => loop'[v].file # loop'[u].file
    BY <1>0, <2>3, <2>5 DEF Work
  <2>8. \A v \in Loop : Holds(v)' => loop'[v].file < nextIndex'
    <3>1. nextIndex < nextIndex'
      BY <1>0, <2>1
    <3>2. ASSUME NEW v \in Loop \ {w}, Holds(v)' PROVE loop'[v].file < nextIndex'
      <4>1. loop'[v] = loop[v] /\ loop[v].file \in Nat /\ loop[v].file < nextIndex
        BY <1>0, <2>3, <2>5, <3>2
      <4>. QED  BY <1>0, <2>1, <4>1
    <3>. QED  BY <2>3, <3>1, <3>2
  <2>9. \A v \in Loop : Holds(v)' => \A m \in Mode :
          ran'[<<loop'[v].file, m>>] = IF m <= Len(loop'[v].done) THEN loop'[v].done[m] ELSE "none"
    <3>1. \A m \in Mode : ran[<<nextIndex, m>>] = "none"
      BY <1>0, <2>1 DEF Work
    <3>2. ASSUME NEW v \in Loop \ {w}, Holds(v)'
          PROVE  \A m \in Mode : ran'[<<loop'[v].file, m>>] =
                   IF m <= Len(loop'[v].done) THEN loop'[v].done[m] ELSE "none"
      BY <2>1, <2>3, <3>2 DEF Work
    <3>. QED  BY <2>1, <2>3, <2>6, <3>1, <3>2
  <2>10. \A f \in Files : f >= nextIndex' => \A m \in Mode : ran'[<<f, m>>] = "none"
    <3>1. \A f \in Files : f >= nextIndex' => f >= nextIndex
      BY <1>0, <2>1
    <3>. QED  BY <2>1, <3>1 DEF Work
  <2>11. ~threw' => \A f \in Files :
           f < nextIndex' /\ (\A v \in Loop : Holds(v)' => loop'[v].file # f) => Complete(f)'
    <3> SUFFICES ASSUME NEW f \in Files, f < nextIndex',
                        \A v \in Loop : Holds(v)' => loop'[v].file # f
                 PROVE  Complete(f)
      BY <2>2
    <3>1. f # nextIndex
      BY <2>3, <2>4
    <3>2. f < nextIndex
      BY <1>0, <2>1, <3>1
    <3>3. \A v \in Loop : Holds(v) => loop[v].file # f
      BY <2>1, <2>3
    <3>. QED  BY <2>1, <3>2, <3>3 DEF Work
  <2>12. loop'[1].phase = "stopped" => loop[1].phase = "stopped" /\ 1 # w
    BY <1>0, <2>3
  <2>13. ~threw' /\ loop'[1].phase = "stopped" => nextIndex' > command'.files
    BY <1>0, <2>1, <2>12 DEF Work
  <2>. QED  BY <2>1, <2>2, <2>7, <2>8, <2>9, <2>10, <2>11, <2>13 DEF Work
<1>3. ASSUME NEW w \in Loop, RequestBuild(w) PROVE Work'
  BY <1>3, WorkKept DEF RequestBuild, Stays, SameHoldings, Holds
<1>4. ASSUME NEW w \in Loop, SkipBuild(w) \/ Built(w) PROVE Work'
  <2>1. Holds(w) /\ Goes(w, "running") /\ UNCHANGED <<command, nextIndex, threw, results, ran>>
    BY <1>4 DEF SkipBuild, Built, At, Holds, Stays
  <2>. QED  BY <2>1, GoesHolds, WorkKept DEF Phase
<1>5. ASSUME NEW w \in Loop, Throw(w), Holds(w), UNCHANGED <<command, nextIndex, ran>> PROVE Work'
  <2>1. threw' /\ (\A v \in Loop : Holds(v)' => Holds(v) /\ loop'[v] = loop[v])
    BY <1>5 DEF Throw, Shape, Holds, Idle
  <2>2. Files' = Files /\ Mode' = Mode /\ Tasks' = Tasks
    BY <1>5 DEF Files, Mode, Tasks
  <2>. QED  BY <1>5, <2>1, <2>2 DEF Work
<1>6. ASSUME NEW w \in Loop, BuildFailed(w) \/ Ran(w) PROVE Work'
  <2>1. /\ Holds(w) /\ UNCHANGED <<command, nextIndex>>
        /\ \/ \E verdict \in Verdict : Settles(w, verdict)
           \/ Throw(w) /\ UNCHANGED ran
    BY <1>6 DEF BuildFailed, Ran, At, Holds, Stays, Verdict
  <2>. QED  BY <1>5, <2>1, SettlesWork
<1>7. ASSUME NEW w \in Loop, Wake(w) PROVE Work'
  <2>1. Holds(w) /\ Goes(w, "running") /\ UNCHANGED <<command, nextIndex, threw, results, ran>>
    BY <1>7 DEF Wake, Slots, Waits, In, Holds, Stays
  <2>. QED  BY <2>1, GoesHolds, WorkKept DEF Phase
<1>8. CASE PoolStep
  BY <1>8, WorkKept DEF PoolStep, Stays, SameHoldings, Holds
<1>9. CASE End
  BY <1>9, WorkKept DEF End, SameHoldings, Holds
<1>10. CASE UNCHANGED vars
  BY <1>10, WorkKept DEF vars, SameHoldings, Holds
<1>. QED
  BY <1>1, <1>2, <1>3, <1>4, <1>6, <1>7, <1>8, <1>9, <1>10 DEF Next, Step

-------------------------------------------------------------------------------
(* Builds: what loop and pool know of each other *)

Builds ==
  /\ \A w \in Loop : loop[w].phase = "running" /\ ~limited => TaskOf(w) \in artifact \cup fresh
  /\ \A t \in Task : promise[t] = "resolved" => t \in artifact
  /\ \A t \in Task : promise[t] = "pending" =>
       \E w \in Loop : loop[w].phase = "building" /\ TaskOf(w) = t

\* A loop whose build is not pending moves on, in any way but into running.
LEMMA BuildsMoved ==
  ASSUME Shape, Builds, NEW w \in Loop, NEW r \in LoopState, Moved(w, r),
         r.phase # "running",
         loop[w].phase = "building" => promise[TaskOf(w)] # "pending",
         UNCHANGED <<command, promise, artifact, fresh>>
  PROVE  Builds'
<1>1. \A v \in Loop \ {w} : loop'[v] = loop[v] /\ TaskOf(v)' = TaskOf(v)
  BY DEF Moved, Shape, TaskOf
<1>2. loop'[w].phase # "running" /\ limited' = limited
  BY DEF Moved, Shape, limited
<1>3. \A v \in Loop : loop'[v].phase = "running" /\ ~limited' => TaskOf(v)' \in artifact' \cup fresh'
  BY <1>1, <1>2 DEF Builds
<1>4. ASSUME NEW t \in Task, promise[t] = "pending"
      PROVE  \E v \in Loop : loop'[v].phase = "building" /\ TaskOf(v)' = t
  <2>1. PICK v \in Loop : loop[v].phase = "building" /\ TaskOf(v) = t
    BY <1>4 DEF Builds
  <2>2. v # w
    BY <1>4, <2>1
  <2>. QED  BY <1>1, <2>1, <2>2
<1>. QED  BY <1>3, <1>4 DEF Builds

LEMMA BuildsStep == Shape /\ Slots /\ Builds /\ [Next]_vars => Builds'
<1> SUFFICES ASSUME Shape, Slots, Builds, [Next]_vars PROVE Builds'
  OBVIOUS
<1>1. ASSUME NEW w \in Loop, Stop(w) PROVE Builds'
  <2> DEFINE r == [loop[w] EXCEPT !.phase = "stopped"]
  <2>1. Moved(w, r) /\ r \in LoopState
    BY <1>1, GoesMoves DEF Stop, Phase
  <2>2. r.phase = "stopped" /\ loop[w].phase = "taking"
          /\ UNCHANGED <<command, promise, artifact, fresh>>
    BY <1>1 DEF Shape, LoopState, Stop, At, Stays, poolVars
  <2> HIDE DEF r
  <2>. QED  BY <2>1, <2>2, BuildsMoved
<1>2. ASSUME NEW w \in Loop, Take(w) PROVE Builds'
  <2>1. /\ loop[w].phase = "taking" /\ UNCHANGED <<command, promise, artifact, fresh>>
        /\ \A v \in Loop \ {w} : loop'[v] = loop[v]
        /\ loop'[w].phase = "running" => limited
    BY <1>2 DEF Take, At, Stays, poolVars, Shape
  <2>2. \A v \in Loop \ {w} : TaskOf(v)' = TaskOf(v)
    BY <2>1 DEF TaskOf
  <2>3. limited' = limited
    BY <2>1 DEF limited
  <2>. QED  BY <2>1, <2>2, <2>3 DEF Builds
<1>3. ASSUME NEW w \in Loop, RequestBuild(w) PROVE Builds'
  <2>1. /\ loop[w].phase = "building" /\ Pool!Request(TaskOf(w))
        /\ UNCHANGED <<command, loop, fresh>>
    BY <1>3 DEF RequestBuild, At, Stays
  <2>2. \A v \in Loop : TaskOf(v)' = TaskOf(v)
    BY <2>1 DEF TaskOf
  <2>3. artifact' = artifact
    BY <2>1 DEF Pool!Request
  <2>4. \A t \in Task : promise'[t] # promise[t] => t = TaskOf(w) /\ promise'[t] # "resolved"
    BY <2>1 DEF Pool!Request, Shape
  <2>. QED  BY <2>1, <2>2, <2>3, <2>4 DEF Builds, limited
<1>4. ASSUME NEW w \in Loop, SkipBuild(w) \/ Built(w) PROVE Builds'
  <2>1. /\ loop[w].phase = "building" /\ Goes(w, "running")
        /\ promise[TaskOf(w)] # "pending" /\ TaskOf(w) \in artifact \cup fresh'
        /\ UNCHANGED <<command, promise, artifact>> /\ fresh \subseteq fresh'
    <3>1. TaskOf(w) \in Task
      BY <1>4, TaskFacts DEF SkipBuild, Built, At, Holds
    <3>. QED  BY <1>4, <3>1 DEF SkipBuild, Built, At, Stays, poolVars, Builds
  <2>2. /\ \A v \in Loop : TaskOf(v)' = TaskOf(v)
        /\ \A v \in Loop \ {w} : loop'[v] = loop[v]
        /\ loop'[w].phase = "running"
    BY <2>1 DEF Goes, Shape, LoopState, TaskOf
  <2>3. ASSUME NEW t \in Task, promise'[t] = "pending"
        PROVE  \E v \in Loop : loop'[v].phase = "building" /\ TaskOf(v)' = t
    <3>1. PICK v \in Loop : loop[v].phase = "building" /\ TaskOf(v) = t
      BY <2>1, <2>3 DEF Builds
    <3>2. v # w
      BY <2>1, <2>3, <3>1
    <3>. QED  BY <2>2, <3>1, <3>2
  <2>4. \A v \in Loop : loop'[v].phase = "running" /\ ~limited' => TaskOf(v)' \in artifact' \cup fresh'
    BY <2>1, <2>2 DEF Builds, limited
  <2>. QED  BY <2>1, <2>3, <2>4 DEF Builds
<1>5. ASSUME NEW w \in Loop, BuildFailed(w) \/ Ran(w) PROVE Builds'
  <2>1. /\ Holds(w) /\ UNCHANGED <<command, promise, artifact, fresh>>
        /\ loop[w].phase = "building" => promise[TaskOf(w)] # "pending"
        /\ (\E verdict \in Verdict : Settles(w, verdict)) \/ Throw(w)
    BY <1>5 DEF BuildFailed, Ran, At, Holds, Stays, Verdict, poolVars
  <2>2. CASE Throw(w)
    <3>1. Moved(w, [Idle EXCEPT !.phase = "stopped"]) /\ [Idle EXCEPT !.phase = "stopped"] \in LoopState
            /\ [Idle EXCEPT !.phase = "stopped"].phase = "stopped"
      BY <2>2, IdleType DEF Throw, Moved, Idle
    <3>. QED  BY <2>1, <3>1, BuildsMoved
  <2>3. ASSUME NEW verdict \in Verdict, Settles(w, verdict) PROVE Builds'
    <3>0. PICK r : r = [loop[w] EXCEPT !.phase = "building", !.done = Append(loop[w].done, verdict)]
      OBVIOUS
    <3>1. Append(loop[w].done, verdict) \in Seq(Verdict) /\ loop[w] \in LoopState
      BY <2>1, <2>3, SettlesMoves DEF Shape
    <3>2. r \in LoopState /\ r.phase = "building"
      BY <3>0, <3>1 DEF LoopState, Phase
    <3>3. Moved(w, Idle) \/ Moved(w, r)
      BY <2>1, <2>3, <3>0, SettlesMoves
    <3>4. Idle.phase = "taking"
      BY DEF Idle
    <3>. QED  BY <2>1, <3>2, <3>3, <3>4, IdleType, BuildsMoved
  <2>. QED  BY <2>1, <2>2, <2>3
<1>6. ASSUME NEW w \in Loop, Wake(w) PROVE Builds'
  <2>1. /\ loop[w].phase = "waiting" /\ limited /\ Goes(w, "running")
        /\ UNCHANGED <<command, promise, artifact, fresh>>
    BY <1>6, CommandFacts DEF Wake, Slots, Waits, In, Stays, poolVars, Shape
  <2>2. /\ \A v \in Loop : TaskOf(v)' = TaskOf(v)
        /\ \A v \in Loop \ {w} : loop'[v] = loop[v]
        /\ limited'
    BY <2>1 DEF Goes, Shape, LoopState, TaskOf, limited
  <2>. QED  BY <2>1, <2>2 DEF Builds
<1>7. CASE PoolStep
  <2>1. /\ UNCHANGED <<command, loop, fresh>> /\ artifact \subseteq artifact'
        /\ \A t \in Task : promise'[t] = "resolved" => t \in artifact'
        /\ \A t \in Task : promise'[t] = "pending" => promise[t] = "pending"
    BY <1>7 DEF PoolStep, Stays, Pool!Produce, Pool!Settle, Builds, Shape
  <2>2. (\A v \in Loop : TaskOf(v)' = TaskOf(v)) /\ limited' = limited
    BY <2>1 DEF TaskOf, limited
  <2>. QED  BY <2>1, <2>2 DEF Builds
<1>8. CASE End
  <2>1. /\ UNCHANGED <<command, loop, fresh, artifact>>
        /\ \A t \in Task : promise'[t] = promise[t] \/ promise'[t] = "rejected"
    BY <1>8 DEF End, poolVars, Pool!Shut, Pool!Waiting, Shape
  <2>2. (\A v \in Loop : TaskOf(v)' = TaskOf(v)) /\ limited' = limited
    BY <2>1 DEF TaskOf, limited
  <2>. QED  BY <2>1, <2>2 DEF Builds
<1>9. CASE UNCHANGED vars
  <2>1. (\A v \in Loop : TaskOf(v)' = TaskOf(v)) /\ limited' = limited
    BY <1>9 DEF vars, TaskOf, limited
  <2>. QED  BY <1>9, <2>1 DEF vars, poolVars, Builds
<1>. QED  BY <1>1, <1>2, <1>3, <1>4, <1>5, <1>6, <1>7, <1>8, <1>9 DEF Next, Step

-------------------------------------------------------------------------------
(* The end *)

Ended ==
  /\ outcome # "running" =>
       /\ \A w \in Loop : loop[w].phase = "stopped"
       /\ ~limited => closed
  /\ outcome \in {"ok", "fail"} => ~threw
  /\ outcome = "ok" => \A f \in File : \A m \in DOMAIN results[f] : results[f][m] # "fail"

LEMMA EndedStep == Shape /\ Slots /\ Ended /\ [Next]_vars => Ended'
<1> SUFFICES ASSUME Shape, Slots, Ended, [Next]_vars PROVE Ended'
  OBVIOUS
<1>1. ASSUME NEW w \in Loop, Step(w) PROVE Ended'
  <2>1. loop[w].phase # "stopped"
    BY <1>1 DEF Step, Stop, Take, RequestBuild, SkipBuild, Built, BuildFailed, Ran, Wake, At,
                Slots, Waits, In
  <2>2. outcome = "running"
    BY <2>1 DEF Ended
  <2>3. outcome' = outcome
    BY <1>1 DEF Step, Stop, Take, RequestBuild, SkipBuild, Built, BuildFailed, Ran, Wake, Stays
  <2>. QED  BY <2>2, <2>3 DEF Ended
<1>2. CASE PoolStep
  <2>1. /\ UNCHANGED <<command, outcome, loop, threw, results>>
        /\ closed' = closed
    BY <1>2 DEF PoolStep, Stays, Pool!Produce, Pool!Settle
  <2>. QED  BY <2>1 DEF Ended, limited
<1>3. CASE End
  <2>1. /\ \A w \in Loop : loop'[w].phase = "stopped"
        /\ UNCHANGED <<command, threw, results>>
        /\ ~limited => closed'
    BY <1>3 DEF End, Pool!Shut
  <2>2. outcome' \in {"ok", "fail"} => ~threw
    BY <1>3 DEF End
  <2>3. outcome' = "ok" => ~\E f \in File : "fail" \in {results[f][m] : m \in DOMAIN results[f]}
    BY <1>3 DEF End
  <2>. QED  BY <2>1, <2>2, <2>3 DEF Ended, limited
<1>4. CASE UNCHANGED vars
  BY <1>4 DEF vars, poolVars, Ended, limited
<1>. QED  BY <1>1, <1>2, <1>3, <1>4 DEF Next

-------------------------------------------------------------------------------
(* The invariant, and what it implies *)

IInv == Shape /\ Slots /\ Work /\ Builds /\ Ended

LEMMA Initially == Init => IInv
<1> SUFFICES ASSUME Init PROVE IInv
  OBVIOUS
<1>1. /\ command \in Commands /\ nextIndex = 1 /\ threw = FALSE
      /\ loop = [w \in Loop |-> IF w <= command.files THEN Idle ELSE [Idle EXCEPT !.phase = "stopped"]]
      /\ active = 0 /\ queue = <<>> /\ woken = {}
      /\ results = [f \in File |-> <<>>] /\ outcome = "running" /\ fresh = {}
      /\ ran = [t \in Task |-> "none"]
      /\ promise = [t \in Task |-> "idle"] /\ artifact = {}
  BY DEF Init, Pool!Init
<1>2. /\ Idle.phase = "taking" /\ [Idle EXCEPT !.phase = "stopped"].phase = "stopped"
      /\ <<>> \in Seq(Verdict) /\ <<>> \in Seq(Loop) /\ Len(<<>>) = 0
  BY DEF Idle
<1>3. \A w \in Loop : /\ loop[w].phase = IF w <= command.files THEN "taking" ELSE "stopped"
                      /\ loop[w] \in LoopState
  BY <1>1, <1>2, IdleType
<1>4. command.files \in Nat /\ 1 \in Loop
  BY <1>1, CommandFacts, SizeAssumption DEF Loop
<1>5. \A w \in Loop : ~Holds(w)
  BY <1>3 DEF Holds
<1>6. In("waiting") = {} /\ In("building") = {} /\ In("running") = {}
  BY <1>3 DEF In
<1>7. Shape
  <2>1. loop \in [Loop -> LoopState]
    BY <1>1, <1>3
  <2>2. results \in [File -> Seq(Verdict)]
    BY <1>1, <1>2
  <2>3. /\ ran \in [Task -> Verdict \cup {"none"}]
        /\ promise \in [Task -> {"idle", "pending", "resolved", "rejected"}]
        /\ artifact \subseteq Task /\ fresh \subseteq Task
    BY <1>1
  <2>4. command \in Commands /\ threw \in BOOLEAN /\ outcome \in {"running", "ok", "fail", "threw"}
    BY <1>1, Zenon
  <2>5. nextIndex \in Nat \ {0}
    BY <1>1
  <2>. QED  BY <1>5, <2>1, <2>2, <2>3, <2>4, <2>5 DEF Shape
<1>8. Slots
  <2>1. Waits(queue, woken, In("waiting"))
    BY <1>1, <1>2, <1>6 DEF Waits
  <2>2. active = IF limited THEN Cardinality(In("running")) ELSE 0
    BY <1>1, <1>6, FS_EmptySet
  <2>3. nextIndex <= command.files + 1 + Cardinality(In("stopped"))
    BY <1>1, <1>4, Count, SizeAssumption
  <2>. QED  BY <1>6, <2>1, <2>2, <2>3 DEF Slots
<1>9. Work
  <2>1. \A f \in Files : f \in Nat /\ ~(f < nextIndex)
    BY <1>1, <1>4 DEF Files
  <2>2. loop[1].phase = "stopped" => nextIndex > command.files
    BY <1>1, <1>3, <1>4
  <2>3. \A f \in Files, m \in Mode : <<f, m>> \in Task
    BY <1>1, CommandFacts DEF Tasks, Mode
  <2>. QED  BY <1>1, <1>5, <2>1, <2>2, <2>3 DEF Work
<1>10. Builds
  BY <1>1, <1>3 DEF Builds
<1>11. Ended
  BY <1>1 DEF Ended
<1>. QED  BY <1>7, <1>8, <1>9, <1>10, <1>11 DEF IInv

LEMMA IInvStep == IInv /\ [Next]_vars => IInv'
  BY ShapeStep, SlotsStep, WorkStep, BuildsStep, EndedStep DEF IInv

LEMMA TypeImplied == IInv => TypeOK
<1> SUFFICES ASSUME IInv PROVE TypeOK
  OBVIOUS
<1>1. Shape /\ Slots
  BY DEF IInv
<1>2. \A w \in Loop : Holds(w) => TaskOf(w) \in Tasks
  BY <1>1, TaskFacts
<1>3. active \in 0..PoolWidth
  BY <1>1, Count, SizeAssumption DEF Slots
<1>4. nextIndex \in 1..(MaxFiles + PoolWidth + 1)
  <2>1. Cardinality(In("stopped")) \in 0..PoolWidth
    BY Count
  <2>2. command.files \in Nat /\ command.files <= MaxFiles /\ nextIndex \in Nat \ {0}
    BY <1>1, CommandFacts DEF Shape
  <2>3. nextIndex <= command.files + 1 + Cardinality(In("stopped"))
    BY <1>1 DEF Slots
  <2>. QED  BY <2>1, <2>2, <2>3, SizeAssumption
<1>. QED  BY <1>1, <1>2, <1>3, <1>4 DEF TypeOK, Shape, Slots, Waits, LoopState

LEMMA ResultsImplied == IInv => ResultsHonest
<1> SUFFICES ASSUME IInv PROVE ResultsHonest
  OBVIOUS
<1>1. Shape /\ Work /\ Builds /\ Ended /\ 1 \in Loop /\ command \in Commands
  BY SizeAssumption DEF IInv, Loop, Shape
<1>2. ASSUME outcome \in {"ok", "fail"}, NEW t \in Tasks
      PROVE  ran[t] \in Verdict /\ results[t[1]][t[2]] = ran[t] /\ t[2] \in DOMAIN results[t[1]]
  <2>1. t[1] \in Files /\ t[2] \in Mode /\ t = <<t[1], t[2]>>
    BY DEF Tasks, Mode
  <2>2. ~threw /\ \A w \in Loop : loop[w].phase = "stopped"
    BY <1>1, <1>2 DEF Ended
  <2>3. nextIndex > command.files
    BY <1>1, <2>2 DEF Work
  <2>4. t[1] < nextIndex
    BY <1>1, <2>1, <2>3, CommandFacts DEF Files, Shape
  <2>5. Complete(t[1])
    BY <1>1, <2>1, <2>2, <2>4 DEF Work, Holds
  <2>. QED  BY <2>1, <2>5 DEF Complete
<1>3. outcome = "ok" => \A t \in Task : ran[t] # "fail"
  <2> SUFFICES ASSUME outcome = "ok", NEW t \in Task PROVE ran[t] # "fail"
    OBVIOUS
  <2>1. CASE t \in Tasks
    <3>1. t[1] \in File
      BY DEF Task
    <3>. QED  BY <1>1, <1>2, <2>1, <3>1 DEF Ended
  <2>2. CASE t \notin Tasks
    BY <1>1, <2>2 DEF Work
  <2>. QED  BY <2>1, <2>2
<1>4. \A w \in Loop : Holds(w) =>
        /\ ran[TaskOf(w)] = "none"
        /\ loop[w].phase = "running" /\ ~limited => TaskOf(w) \in artifact \cup fresh
  <2> SUFFICES ASSUME NEW w \in Loop, Holds(w)
               PROVE  /\ ran[TaskOf(w)] = "none"
                      /\ loop[w].phase = "running" /\ ~limited => TaskOf(w) \in artifact \cup fresh
    OBVIOUS
  <2>1. Len(loop[w].done) \in Nat /\ Len(loop[w].done) + 1 \in Mode
    BY <1>1, TaskFacts DEF Mode
  <2>2. ~(Len(loop[w].done) + 1 <= Len(loop[w].done))
    BY <2>1
  <2>3. ran[TaskOf(w)] = "none"
    BY <1>1, <2>1, <2>2 DEF Work, TaskOf
  <2>. QED  BY <1>1, <2>3 DEF Builds
<1>5. \A w, v \in Loop : Holds(w) /\ Holds(v) /\ w # v => loop[w].file # loop[v].file
  BY <1>1 DEF Work
<1>6. outcome \in {"ok", "fail"} =>
        \A t \in Tasks : ran[t] # "none" /\ results[t[1]][t[2]] = ran[t]
  BY <1>2 DEF Verdict
<1>. QED  BY <1>3, <1>4, <1>5, <1>6 DEF ResultsHonest

LEMMA QuietImplied == IInv => EndsQuietly
<1> SUFFICES ASSUME IInv, outcome # "running" PROVE /\ ~limited => closed
                                                   /\ Pool!Waiting = {}
                                                   /\ active = 0 /\ queue = <<>> /\ woken = {}
                                                   /\ \A w \in Loop : ~Holds(w)
  BY DEF EndsQuietly
<1>1. (~limited => closed) /\ \A w \in Loop : loop[w].phase = "stopped"
  BY DEF IInv, Ended
<1>2. Pool!Waiting = {} /\ \A w \in Loop : ~Holds(w)
  BY <1>1 DEF IInv, Builds, Pool!Waiting, Holds
<1>3. In("waiting") = {} /\ In("running") = {}
  BY <1>1 DEF In
<1>4. active = 0
  BY <1>3, FS_EmptySet DEF IInv, Slots
<1>5. woken = {} /\ \A i \in 1..Len(queue) : FALSE
  BY <1>3 DEF IInv, Slots, Waits
<1>6. queue = <<>>
  BY <1>5, EmptySeq, LenProperties DEF IInv, Slots, Waits
<1>. QED  BY <1>1, <1>2, <1>4, <1>5, <1>6

\* Loops, limiter and results keep their types; the slots taken never exceed the loops.
THEOREM TypeCorrect == Spec => []TypeOK
<1>. QED  BY Initially, IInvStep, TypeImplied, PTL DEF Spec

\* What the command sums up is, file by file and mode by mode, what happened, whatever
\* the order in which the loops come back.
THEOREM ResultsHonestHolds == Spec => []ResultsHonest
<1>. QED  BY Initially, IInvStep, ResultsImplied, PTL DEF Spec

\* A command that ends, by an error too, leaves nothing in flight.
THEOREM EndsQuietlyHolds == Spec => []EndsQuietly
<1>. QED  BY Initially, IInvStep, QuietImplied, PTL DEF Spec
===============================================================================
