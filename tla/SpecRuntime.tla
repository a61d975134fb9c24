------------------------------ MODULE SpecRuntime ------------------------------
(***************************************************************************)
(* A compiled spec at work (assembly/index.ts, assembly/src/suite.ts): its *)
(* top-level code registers blocks and may evaluate expectations; run()    *)
(* then runs the blocks, each callback registering the blocks nested in    *)
(* it, merges the verdicts upwards and sends frames to the CLI.            *)
(*                                                                         *)
(* The program is not fixed beforehand: whatever code is running may       *)
(* register a block, evaluate an expectation or return.  beforeEach and    *)
(* afterEach callbacks run next to the callback, with the same current     *)
(* suite, and are part of it here.  "test" stands for it too, and "xtest"  *)
(* for every skipped kind and todo.                                        *)
(***************************************************************************)
EXTENDS Naturals, Sequences

CONSTANTS
  MaxBlocks,       \* bound on the blocks of a file
  MaxExpects,      \* bound on the matchers evaluated
  PipeSize,        \* frames that the pipe takes before a write waits
  Kinds,           \* the kinds of block that a file uses
  Values           \* values compared with snapshots

Kind == {"describe", "test", "only", "xtest"}
SkippedKind == {"xtest"}
TestCase == {"test", "only", "xtest"}

ASSUME RuntimeAssumption ==
  /\ Kinds \subseteq Kind
  /\ MaxBlocks \in Nat \ {0} /\ MaxExpects \in Nat /\ PipeSize \in Nat \ {0}

VARIABLES
  runs,            \* the file calls run(), by itself or as the transform adds it
  stage,           \* how far the program has come
  blocks,          \* the suites by the order of their registration
  current,         \* current_suite, 0 for null
  global,          \* globalExpectationSuite, 0 for null
  fileVerdict,     \* fileVerdict of run()
  matchers,        \* how many matchers have been evaluated
  asked,           \* the request whose reply the runtime is waiting for
  reply,           \* what the host has written to its standard input
  wire,            \* frames on their way to the host
  exit             \* how the process ended

treeVars == <<blocks, current, global, fileVerdict, matchers>>
askVars == <<asked, reply>>
runtimeVars == <<runs, stage, treeVars, askVars, wire, exit>>

Verdict == {"none", "skip", "ok", "fail"}
Stage == {"load", "run", "ended", "covered", "chunking", "chunked", "reported"}

\* crashed: a code other than 0, a signal, or anything printed to stderr.
Exit == {"running", "clean", "crashed", "unspawned"}
alive == exit = "running"

FrameKind == {"file-start", "file-end", "suite-start", "suite-end", "assert-fail",
              "coverage:detail", "coverage", "snapshot:assert",
              "report:start", "data", "report:end", "close"}

FrameRecord ==
  [kind : FrameKind \ {"snapshot:assert"}, verdict : Verdict, actual : {0}]
  \cup [kind : {"snapshot:assert"}, verdict : {"none"}, actual : Values]

\* waiting: registered; called: its callback runs; open: its children run.
Block == [parent : 0..MaxBlocks, kind : Kind,
          state : {"waiting", "called", "open", "closed"},
          ran : BOOLEAN,              \* run() and not skip()
          tests : Seq(Verdict),       \* the verdicts of its expectations
          failed : BOOLEAN,           \* history: some matcher in it failed
          verdict : Verdict]
NoRequest == [kind |-> "none", skipped |-> FALSE]

TypeOKRuntime ==
  /\ runs \in BOOLEAN
  /\ stage \in Stage
  /\ blocks \in Seq(Block) /\ Len(blocks) <= MaxBlocks
  /\ \A i \in DOMAIN blocks : blocks[i].parent < i
  /\ {current, global} \subseteq 0..Len(blocks)
  /\ fileVerdict \in Verdict
  /\ matchers \in 0..MaxExpects
  /\ asked \in [kind : FrameKind \cup {"none"}, skipped : BOOLEAN]
  /\ reply \in {"none", "1", "0"}
  /\ wire \in Seq(FrameRecord)
  /\ exit \in Exit

InitRuntime ==
  /\ runs \in BOOLEAN
  /\ stage = "load" /\ exit = "running"
  /\ blocks = <<>> /\ current = 0 /\ global = 0
  /\ fileVerdict = "none" /\ matchers = 0
  /\ asked = NoRequest /\ reply = "none"
  /\ wire = <<>>

Frame(k) == [kind |-> k, verdict |-> "none", actual |-> 0]

\* A write waits while the pipe is full.
Send(frames) ==
  /\ frames # <<>> => Len(wire) < PipeSize
  /\ wire' = wire \o frames

Ids == DOMAIN blocks

\* Seeded fault: the new suite is made current before its parent is read.
NewBlockSelf(kind) == [parent |-> Len(blocks) + 1, kind |-> kind, state |-> "waiting", ran |-> FALSE,
                       tests |-> <<>>, failed |-> FALSE, verdict |-> "none"]

NewBlock(kind) == [parent |-> current, kind |-> kind, state |-> "waiting", ran |-> FALSE,
                   tests |-> <<>>, failed |-> FALSE, verdict |-> "none"]

\* Mixed sets of verdicts: fail before ok before skip.
Worst(verdicts) ==
  CASE "fail" \in verdicts -> "fail"
    [] "fail" \notin verdicts /\ "ok" \in verdicts -> "ok"
    [] verdicts \cap {"fail", "ok"} = {} /\ "skip" \in verdicts -> "skip"
    [] OTHER -> "none"

-------------------------------------------------------------------------------
(* Code of the spec: the top level, then the callback of the current suite *)

Coding ==
  /\ alive /\ asked = NoRequest
  /\ \/ stage = "load"
     \/ stage = "run" /\ current # 0 /\ current # global /\ blocks[current].state = "called"

\* registerSuite
Register(kind) ==
  /\ Coding /\ runs /\ Len(blocks) < MaxBlocks
  /\ blocks' = Append(blocks, NewBlock(kind))
  /\ UNCHANGED <<runs, stage, current, global, fileVerdict, matchers, askVars, wire, exit>>

\* resolveExpectationSuite: the suite that expect() adds to, and the tree with it.
NeedsGlobal == current = 0 /\ global = 0
Suite == IF current # 0 THEN current ELSE IF global # 0 THEN global ELSE Len(blocks) + 1
WithSuite == IF NeedsGlobal THEN Append(blocks, NewBlock("describe")) ELSE blocks
CanExpect == matchers < MaxExpects /\ (NeedsGlobal => Len(blocks) < MaxBlocks)

\* _resolve: a chained matcher belongs to the last expectation and does not
\* overwrite a failure of an earlier one.
Resolve(outcome, chained) ==
  LET old == WithSuite[Suite]
      n == Len(old.tests)
      fails == outcome = "fail"
      tests == IF chained THEN [old.tests EXCEPT ![n] = IF @ = "fail" THEN @ ELSE outcome]
                          ELSE Append(old.tests, outcome)
  IN /\ chained => n > 0 /\ (old.tests[n] = "skip" <=> outcome = "skip")
     /\ blocks' = [WithSuite EXCEPT ![Suite].tests = tests, ![Suite].failed = @ \/ fails]
     /\ global' = IF current = 0 THEN Suite ELSE global
     /\ Send(IF fails THEN <<Frame("assert-fail")>> ELSE <<>>)

Expect(outcome, chained) ==
  /\ Coding /\ CanExpect
  /\ Resolve(outcome, chained)
  /\ matchers' = matchers + 1
  /\ UNCHANGED <<runs, stage, current, fileVerdict, askVars, exit>>

\* toMatchSnapshot sends its value and waits, also for an expectation of xexpect.
AskSnapshot(value, skipped) ==
  /\ Coding /\ CanExpect
  /\ asked' = [kind |-> "snapshot:assert", skipped |-> skipped]
  /\ Send(<<[Frame("snapshot:assert") EXCEPT !.actual = value]>>)
  /\ matchers' = matchers + 1
  /\ UNCHANGED <<runs, stage, blocks, current, global, fileVerdict, reply, exit>>

HearSnapshot ==
  /\ alive /\ asked.kind = "snapshot:assert" /\ reply # "none"
  /\ Resolve(IF asked.skipped THEN "skip" ELSE IF reply = "1" THEN "ok" ELSE "fail", FALSE)
  /\ asked' = NoRequest /\ reply' = "none"
  /\ UNCHANGED <<runs, stage, current, fileVerdict, matchers, exit>>

-------------------------------------------------------------------------------
(* run() and Suite.run *)

BeginRun ==
  /\ Coding /\ stage = "load" /\ runs
  /\ stage' = "run"
  /\ Send(<<Frame("file-start")>>)
  /\ UNCHANGED <<runs, treeVars, askVars, exit>>

Children(p) == {i \in Ids : blocks[i].parent = p}
Waiting(p) == {i \in Children(p) : blocks[i].state = "waiting"}
Focused(p) == \E i \in Children(p) : blocks[i].kind = "only"

\* The loop over the children of p is the innermost that runs, for p = 0 that of run().
Looping(p) ==
  /\ alive /\ stage = "run"
  /\ p # 0 => blocks[p].state = "open"
  /\ \A i \in Ids : blocks[i].state \in {"called", "open"} => i <= p
NextChild(p, b) == b \in Waiting(p) /\ \A i \in Waiting(p) : b <= i

Close(b, verdict, ran) ==
  /\ blocks' = [blocks EXCEPT ![b].state = "closed", ![b].verdict = verdict, ![b].ran = ran]
  /\ fileVerdict' = IF blocks[b].parent = 0 THEN Worst({fileVerdict, verdict}) ELSE fileVerdict
  /\ UNCHANGED <<runs, stage, global, matchers, askVars, exit>>

Skips(p, b) == blocks[b].kind \in SkippedKind \/ (Focused(p) /\ blocks[b].kind # "only")

\* skip(), and run() of a skipped kind
SkipBlock ==
  \E p \in {0} \cup Ids :
    /\ Looping(p)
    /\ \E b \in Ids :
         /\ NextChild(p, b) /\ Skips(p, b)
         /\ Close(b, "skip", FALSE)
         /\ current' = IF p = 0 THEN 0 ELSE b
         /\ Send(<<Frame("suite-start"), Frame("suite-end")>>)

CallBlock ==
  \E p \in {0} \cup Ids :
    /\ Looping(p)
    /\ \E b \in Ids :
         /\ NextChild(p, b) /\ ~Skips(p, b)
         /\ blocks' = [blocks EXCEPT ![b].state = "called", ![b].ran = TRUE]
         /\ current' = b
         /\ Send(<<Frame("suite-start")>>)
         /\ UNCHANGED <<runs, stage, global, fileVerdict, matchers, askVars, exit>>

\* The callback returns.
Return ==
  /\ alive /\ stage = "run" /\ asked = NoRequest
  /\ current # 0 /\ blocks[current].state = "called"
  /\ blocks' = [blocks EXCEPT ![current].state = "open"]
  /\ UNCHANGED <<runs, stage, current, global, fileVerdict, matchers, askVars, wire, exit>>

\* Seeded fault: the expectations are only looked at when there is no child.
OwnVerdictChildrenFirst(b) ==
  LET kids == {blocks[i].verdict : i \in Children(b)}
      merged == Worst(IF kids = {} THEN {blocks[b].tests[i] : i \in DOMAIN blocks[b].tests} ELSE kids)
  IN IF merged = "none" /\ blocks[b].kind \in TestCase THEN "ok" ELSE merged

\* The verdict of a suite: of its children and expectations, ok for an empty test case.
OwnVerdict(b) ==
  LET merged == Worst({blocks[i].verdict : i \in Children(b)}
                      \cup {blocks[b].tests[i] : i \in DOMAIN blocks[b].tests})
  IN IF merged = "none" /\ blocks[b].kind \in TestCase THEN "ok" ELSE merged

CloseBlock ==
  \E b \in Ids :
    /\ Looping(b) /\ Waiting(b) = {}
    /\ Close(b, OwnVerdict(b), TRUE)
    /\ current' = IF blocks[b].parent = 0 THEN 0 ELSE current
    /\ Send(<<Frame("suite-end")>>)

EndFile ==
  /\ Looping(0) /\ Waiting(0) = {}
  /\ stage' = "ended"
  /\ Send(<<[Frame("file-end") EXCEPT !.verdict = fileVerdict]>>)
  /\ UNCHANGED <<runs, treeVars, askVars, exit>>

-------------------------------------------------------------------------------
(* streamCoverage, sendReport and the end *)

AskCoverage ==
  /\ alive /\ stage = "ended" /\ asked = NoRequest
  /\ asked' = [NoRequest EXCEPT !.kind = "coverage:detail"]
  /\ Send(<<Frame("coverage:detail")>>)
  /\ UNCHANGED <<runs, stage, treeVars, reply, exit>>

\* With no point at all the host is not asked.
SendCoverage ==
  /\ alive /\ stage = "ended"
  /\ asked = NoRequest \/ reply # "none"
  /\ asked' = NoRequest /\ reply' = "none"
  /\ stage' = "covered"
  /\ Send(<<Frame("coverage")>>)
  /\ UNCHANGED <<runs, treeVars, exit>>

ReportStep(from, frames, to) ==
  /\ alive /\ stage = from
  /\ stage' = to
  /\ Send(frames)
  /\ UNCHANGED <<runs, treeVars, askVars, exit>>

\* A report of at most REPORT_CHUNK_BYTES is one DATA frame.
SendReport ==
  \/ ReportStep("covered", <<Frame("data"), Frame("close")>>, "reported")
  \/ ReportStep("covered", <<Frame("report:start")>>, "chunking")
  \/ ReportStep("chunking", <<Frame("data")>>, "chunked")
  \/ ReportStep("chunked", <<Frame("report:end"), Frame("close")>>, "reported")

\* Nothing is left to do: the report is out, or nobody called run().
AtEnd == stage = "reported" \/ (stage = "load" /\ ~runs /\ asked = NoRequest)

Stop(how) ==
  /\ alive
  /\ exit' = how
  /\ UNCHANGED <<runs, stage, treeVars, askVars, wire>>

Leave == AtEnd /\ Stop("clean")

\* At any moment: a trap, a signal, something printed to stderr; and proc_exit(0),
\* or a runtime command that hides the code.
Die == Stop("crashed") \/ Stop("clean")

FailToSpawn ==
  /\ stage = "load" /\ blocks = <<>> /\ asked = NoRequest
  /\ Stop("unspawned")

Code ==
  \/ \E kind \in Kinds : Register(kind)
  \/ \E outcome \in {"ok", "fail", "skip"}, chained \in BOOLEAN : Expect(outcome, chained)
  \/ \E value \in Values, skipped \in BOOLEAN : AskSnapshot(value, skipped)

Work ==
  \/ HearSnapshot
  \/ BeginRun
  \/ SkipBlock
  \/ CallBlock
  \/ Return
  \/ CloseBlock
  \/ EndFile
  \/ AskCoverage
  \/ SendCoverage
  \/ SendReport
  \/ Leave

RuntimeNext == Code \/ Work \/ Die \/ FailToSpawn

-------------------------------------------------------------------------------
(* Properties *)

\* The blocks nested in b, b among them.
Under[b \in Ids] == {b} \cup UNION {Under[i] : i \in {j \in Ids : j > b /\ blocks[j].parent = b}}

\* A suite that ran failed exactly if a matcher failed in it or in a suite that ran
\* below it, whatever came after and whatever else passed; it is skipped only if
\* nothing passed below.
VerdictTruthful ==
  \A b \in Ids : blocks[b].state = "closed" /\ blocks[b].ran =>
    /\ blocks[b].verdict = "fail" <=> \E i \in Under[b] : blocks[i].ran /\ blocks[i].failed
    /\ blocks[b].verdict = "skip" =>
         \A i \in Under[b] : \A t \in DOMAIN blocks[i].tests : blocks[i].tests[t] = "skip"
===============================================================================
