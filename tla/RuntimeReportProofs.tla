-------------------------- MODULE RuntimeReportProofs --------------------------
(***************************************************************************)
(* For any number of blocks and matchers, any pipe and any flags: what the *)
(* CLI makes of a file is what its process did.                            *)
(*                                                                         *)
(* The invariant has two halves.  In the process, what runs is a path of   *)
(* open suites and a failed matcher is in the verdict of the file or on    *)
(* its way there (Tree, Blame); a suite that ran has the verdict merged    *)
(* from its matchers and its children (Merged).  Between the two           *)
(* processes, what the host has seen or has still to read is what the      *)
(* runtime has done, in its order (EventFrames, ReportFrames).  When the   *)
(* process is gone and the pipe is empty, the two meet in the verdict.     *)
(***************************************************************************)
EXTENDS RuntimeReport, SequenceTheorems, FiniteSetTheorems, WellFoundedInduction, TLAPS

InWire(k) == \E i \in 1..Len(wire) : wire[i].kind = k
Failed == \E b \in Ids : blocks[b].failed
HasFail(block) == \E t \in 1..Len(block.tests) : block.tests[t] = "fail"
Judged(block) == \A t \in 1..Len(block.tests) : block.tests[t] # "none"
AllSkipped(block) == \A t \in 1..Len(block.tests) : block.tests[t] = "skip"
Active(b) == blocks[b].state \in {"called", "open"}
Past == stage \notin {"load", "run"}

\* The tree: what runs is a path of open suites, its end called or open, and a
\* request for a snapshot comes from the callback that runs, or from the top level.
Tree ==
  /\ \A b \in Ids :
       /\ blocks[b].ran => blocks[b].state # "waiting"
       /\ Active(b) => stage = "run" /\ blocks[b].ran
       /\ stage = "load" => blocks[b].state = "waiting"
       /\ blocks[b].state = "called" => b = current /\ \A i \in Ids : Active(i) => i <= b
       /\ Active(b) /\ blocks[b].parent # 0 => blocks[blocks[b].parent].state = "open"
       /\ blocks[b].failed <=> HasFail(blocks[b])
       /\ blocks[b].state # "closed" => blocks[b].verdict = "none"
       /\ blocks[b].verdict = "fail" => Failed
  /\ fileVerdict = "fail" => Failed
  /\ stage = "load" => current = 0
  /\ asked.kind = "snapshot:assert" =>
       /\ stage = "load" \/ (stage = "run" /\ current # 0 /\ blocks[current].state = "called")
       /\ NeedsGlobal => Len(blocks) < MaxBlocks

\* A failure in a suite that ran is in the verdict of the file, or on its way there:
\* in a suite that still runs, or in the verdict of one of its children.
Blame ==
  (\E b \in Ids : blocks[b].ran /\ blocks[b].failed) =>
    \/ fileVerdict = "fail"
    \/ \E c \in Ids :
         /\ Active(c)
         /\ HasFail(blocks[c]) \/ \E i \in Ids : blocks[i].parent = c /\ blocks[i].verdict = "fail"

\* The verdict of the matchers in b and of its children.
MergedAs(b, verdict) ==
  /\ verdict = "fail" <=>
       HasFail(blocks[b]) \/ \E i \in Ids : blocks[i].parent = b /\ blocks[i].verdict = "fail"
  /\ verdict \in {"none", "skip"} =>
       /\ AllSkipped(blocks[b])
       /\ \A i \in Ids : blocks[i].parent = b => blocks[i].verdict \in {"none", "skip"}

\* A suite that has run is closed after its children, with the verdict merged from theirs;
\* only what ran holds anything, except the suite of the top level.
Merged ==
  /\ \A b \in Ids :
       /\ Judged(blocks[b])
       /\ blocks[b].state = "closed" /\ ~blocks[b].ran => blocks[b].verdict = "skip"
       /\ blocks[b].parent # 0 => /\ blocks[blocks[b].parent].ran
                                  /\ blocks[b].ran \/ blocks[b].tests = <<>>
       /\ blocks[b].state = "closed" /\ blocks[b].ran =>
            /\ \A i \in Ids : blocks[i].parent = b => blocks[i].state = "closed"
            /\ MergedAs(b, blocks[b].verdict)
  /\ global # 0 => blocks[global].parent = 0

\* What the host has seen or has still to read is what the runtime has done.
EventFrames ==
  /\ stage # "load" => events.fileStart \/ InWire("file-start")
  /\ events.suites \/ InWire("suite-start") \/ InWire("suite-end") => stage # "load"
  /\ Past <=> events.fileEnd \/ InWire("file-end")
  /\ events.fileEnd => events.verdict = fileVerdict
  /\ \A i \in 1..Len(wire) : wire[i].kind = "file-end" => wire[i].verdict = fileVerdict
  /\ Failed <=> events.fails \/ InWire("assert-fail")

\* The frames of the report come in their order, a chunk after the start.
ReportFrames ==
  /\ stream.data \/ InWire("data") => stage \in {"chunked", "reported"}
  /\ stream.start \/ InWire("report:start") => stage \in {"chunking", "chunked", "reported"}
  /\ stream.end \/ report \/ InWire("report:end") => stage = "reported"
  /\ stage \in {"chunking", "chunked"} => stream.start \/ InWire("report:start")
  /\ stage = "chunked" =>
       \A j \in 1..Len(wire) : wire[j].kind = "data" =>
         stream.start \/ \E i \in 1..Len(wire) : i < j /\ wire[i].kind = "report:start"
  /\ stream.end => ~InWire("report:start")
  /\ \A i, j \in 1..Len(wire) :
       wire[i].kind = "report:start" /\ wire[j].kind = "report:end" => i < j
  /\ stage = "reported" /\ (stream.start \/ InWire("report:start")) =>
       stream.end \/ InWire("report:end")

Settled == result # "pending" => ~alive /\ wire = <<>>

IInv ==
  /\ TypeOK /\ Tree /\ Blame /\ Merged /\ EventFrames /\ ReportFrames
  /\ Settled /\ ResultHonest

-------------------------------------------------------------------------------
(* The wire *)

\* Frames are put at the end.
LEMMA SendAppends ==
  ASSUME wire \in Seq(FrameRecord), NEW frames \in Seq(FrameRecord), Send(frames)
  PROVE  /\ wire' \in Seq(FrameRecord)
         /\ Len(wire') = Len(wire) + Len(frames)
         /\ Len(wire) \in Nat /\ Len(frames) \in Nat
         /\ \A i \in 1..Len(wire) : wire'[i] = wire[i]
         /\ \A i \in 1..Len(frames) : wire'[Len(wire) + i] = frames[i]
         /\ \A i \in 1..Len(wire') : i \in 1..Len(wire) \/ (i - Len(wire)) \in 1..Len(frames)
<1>1. Len(wire) \in Nat /\ Len(frames) \in Nat
  BY LenProperties
<1>2. wire' = wire \o frames
  BY DEF Send
<1>3. /\ wire' \in Seq(FrameRecord)
      /\ Len(wire') = Len(wire) + Len(frames)
      /\ \A i \in 1..(Len(wire) + Len(frames)) :
           wire'[i] = IF i <= Len(wire) THEN wire[i] ELSE frames[i - Len(wire)]
  BY <1>2, ConcatProperties
<1>4. \A i \in 1..Len(wire) : wire'[i] = wire[i]
  BY <1>1, <1>3
<1>5. \A i \in 1..Len(frames) : wire'[Len(wire) + i] = frames[i]
  <2> SUFFICES ASSUME NEW i \in 1..Len(frames) PROVE wire'[Len(wire) + i] = frames[i]
    OBVIOUS
  <2>1. /\ Len(wire) + i \in 1..(Len(wire) + Len(frames)) /\ ~(Len(wire) + i <= Len(wire))
        /\ (Len(wire) + i) - Len(wire) = i
    BY <1>1
  <2>. QED  BY <1>3, <2>1
<1>. QED  BY <1>1, <1>3, <1>4, <1>5

\* What is in the wire after frames have been put there.
LEMMA SendAdds ==
  ASSUME wire \in Seq(FrameRecord), NEW frames \in Seq(FrameRecord), Send(frames)
  PROVE  \A k : InWire(k)' <=> InWire(k) \/ \E i \in 1..Len(frames) : frames[i].kind = k
<1> SUFFICES ASSUME NEW k
             PROVE  InWire(k)' <=> InWire(k) \/ \E i \in 1..Len(frames) : frames[i].kind = k
  OBVIOUS
<1>1. ASSUME NEW i \in 1..Len(wire'), wire'[i].kind = k
      PROVE  InWire(k) \/ \E j \in 1..Len(frames) : frames[j].kind = k
  <2>1. CASE i \in 1..Len(wire)
    BY <1>1, <2>1, SendAppends DEF InWire
  <2>2. CASE (i - Len(wire)) \in 1..Len(frames)
    <3>1. wire'[Len(wire) + (i - Len(wire))] = frames[i - Len(wire)]
      BY <2>2, SendAppends
    <3>2. Len(wire) + (i - Len(wire)) = i
      BY SendAppends
    <3>. QED  BY <1>1, <2>2, <3>1, <3>2
  <2>. QED  BY <2>1, <2>2, SendAppends
<1>2. ASSUME InWire(k) PROVE InWire(k)'
  <2>1. PICK i \in 1..Len(wire) : wire[i].kind = k
    BY <1>2 DEF InWire
  <2>2. i \in 1..Len(wire') /\ wire'[i] = wire[i]
    BY SendAppends
  <2>. QED  BY <2>1, <2>2 DEF InWire
<1>3. ASSUME NEW i \in 1..Len(frames), frames[i].kind = k PROVE InWire(k)'
  <2>1. Len(wire) + i \in 1..Len(wire') /\ wire'[Len(wire) + i] = frames[i]
    BY SendAppends
  <2>. QED  BY <1>3, <2>1 DEF InWire
<1>4. InWire(k)' => \E i \in 1..Len(wire') : wire'[i].kind = k
  BY DEF InWire
<1>. QED  BY <1>1, <1>2, <1>3, <1>4

\* The frames that are sent.
Plain == FrameKind \ {"snapshot:assert"}

LEMMA FrameTypes ==
  /\ <<>> \in Seq(FrameRecord) /\ Len(<<>>) = 0
  /\ \A k \in Plain : Frame(k) \in FrameRecord /\ Frame(k).kind = k
  /\ \A k \in Plain, v \in Verdict : LET f == [Frame(k) EXCEPT !.verdict = v]
                                     IN  f \in FrameRecord /\ f.kind = k /\ f.verdict = v
  /\ \A v \in Values : LET f == [Frame("snapshot:assert") EXCEPT !.actual = v]
                       IN  f \in FrameRecord /\ f.kind = "snapshot:assert"
  /\ \A f \in FrameRecord : <<f>> \in Seq(FrameRecord) /\ Len(<<f>>) = 1 /\ <<f>>[1] = f
  /\ \A f, g \in FrameRecord : /\ <<f, g>> \in Seq(FrameRecord) /\ Len(<<f, g>>) = 2
                               /\ <<f, g>>[1] = f /\ <<f, g>>[2] = g
<1>1. <<>> \in Seq(FrameRecord) /\ Len(<<>>) = 0
  BY EmptySeq
<1>2. ASSUME NEW k \in Plain PROVE Frame(k) \in FrameRecord /\ Frame(k).kind = k
  BY DEF Frame, FrameRecord, Verdict, Plain
<1>3. ASSUME NEW k \in Plain, NEW v \in Verdict
      PROVE  LET f == [Frame(k) EXCEPT !.verdict = v]
             IN  f \in FrameRecord /\ f.kind = k /\ f.verdict = v
  BY DEF Frame, FrameRecord, Verdict, Plain
<1>4. ASSUME NEW v \in Values
      PROVE  LET f == [Frame("snapshot:assert") EXCEPT !.actual = v]
             IN  f \in FrameRecord /\ f.kind = "snapshot:assert"
  BY DEF Frame, FrameRecord
<1>. QED  BY <1>1, <1>2, <1>3, <1>4

\* Frames are taken from the front.
LEMMA TakeShifts ==
  ASSUME wire \in Seq(FrameRecord), wire # <<>>, wire' = Tail(wire)
  PROVE  /\ wire' \in Seq(FrameRecord)
         /\ Len(wire) \in Nat /\ Len(wire) >= 1 /\ Len(wire') = Len(wire) - 1
         /\ Head(wire) = wire[1] /\ Head(wire) \in FrameRecord
         /\ \A i \in 1..Len(wire') : i + 1 \in 1..Len(wire) /\ wire'[i] = wire[i + 1]
         /\ \A i \in 1..Len(wire) : i # 1 => i - 1 \in 1..Len(wire') /\ wire[i] = wire'[i - 1]
         /\ \A k : InWire(k) <=> Head(wire).kind = k \/ InWire(k)'
<1>1. Len(wire) \in Nat /\ Len(wire) >= 1
  BY LenProperties, EmptySeq
<1>2. /\ wire' \in Seq(FrameRecord) /\ Len(wire') = Len(wire) - 1 /\ Head(wire) \in FrameRecord
      /\ \A i \in 1..Len(wire') : wire'[i] = wire[i + 1]
  BY HeadTailProperties
<1>3. Head(wire) = wire[1]
  OBVIOUS
<1>4. \A i \in 1..Len(wire') : i + 1 \in 1..Len(wire)
  BY <1>1, <1>2
<1>5. ASSUME NEW i \in 1..Len(wire), i # 1
      PROVE  i - 1 \in 1..Len(wire') /\ wire[i] = wire'[i - 1]
  <2>1. i - 1 \in 1..Len(wire') /\ (i - 1) + 1 = i
    BY <1>1, <1>2, <1>5
  <2>. QED  BY <1>2, <2>1
<1>6. ASSUME NEW k PROVE InWire(k) <=> Head(wire).kind = k \/ InWire(k)'
  <2>1. InWire(k) => Head(wire).kind = k \/ InWire(k)'
    BY <1>3, <1>5 DEF InWire
  <2>2. InWire(k)' => InWire(k)
    BY <1>2, <1>4 DEF InWire
  <2>3. 1 \in 1..Len(wire)
    BY <1>1
  <2>. QED  BY <1>3, <2>1, <2>2, <2>3 DEF InWire
<1>. QED  BY <1>1, <1>2, <1>3, <1>4, <1>5, <1>6

-------------------------------------------------------------------------------
(* The tree *)

LEMMA BlockFacts ==
  ASSUME TypeOK
  PROVE  /\ Ids = 1..Len(blocks) /\ Len(blocks) \in Nat /\ Len(blocks) <= MaxBlocks
         /\ MaxBlocks \in Nat
         /\ current \in 0..Len(blocks) /\ global \in 0..Len(blocks)
         /\ \A b \in Ids : blocks[b] \in Block /\ blocks[b].parent < b /\ b # 0
<1>1. blocks \in Seq(Block) /\ Len(blocks) <= MaxBlocks /\ MaxBlocks \in Nat
  BY RuntimeAssumption DEF TypeOK, TypeOKRuntime
<1>2. Len(blocks) \in Nat /\ Ids = 1..Len(blocks)
  BY <1>1, LenProperties DEF Ids
<1>3. \A b \in Ids : blocks[b] \in Block
  BY <1>1, <1>2, ElementOfSeq
<1>4. current \in 0..Len(blocks) /\ global \in 0..Len(blocks)
  BY DEF TypeOK, TypeOKRuntime
<1>5. \A b \in Ids : blocks[b].parent < b
  BY DEF TypeOK, TypeOKRuntime, Ids
<1>. QED  BY <1>1, <1>2, <1>3, <1>4, <1>5

\* One block changes, to r.
LEMMA OneBlock ==
  ASSUME TypeOK, NEW b \in Ids, NEW r \in Block, blocks' = [blocks EXCEPT ![b] = r]
  PROVE  /\ blocks' \in Seq(Block) /\ Len(blocks') = Len(blocks) /\ Ids' = Ids
         /\ blocks'[b] = r
         /\ \A i \in Ids : i # b => blocks'[i] = blocks[i]
<1>1. blocks \in Seq(Block) /\ b \in 1..Len(blocks)
  BY BlockFacts DEF TypeOK, TypeOKRuntime
<1>2. /\ blocks' \in Seq(Block) /\ Len(blocks') = Len(blocks)
      /\ \A j \in 1..Len(blocks) : blocks'[j] = IF j = b THEN r ELSE blocks[j]
  BY <1>1, ExceptSeq
<1>3. Ids' = 1..Len(blocks')
  BY <1>2, LenProperties DEF Ids
<1>. QED  BY <1>1, <1>2, <1>3, BlockFacts

LEMMA NewBlockType ==
  ASSUME TypeOK, NEW kind \in Kind
  PROVE  NewBlock(kind) \in Block
<1>1. <<>> \in Seq(Verdict) /\ current \in 0..MaxBlocks
  BY BlockFacts
<1>. QED  BY <1>1 DEF NewBlock, Block, Verdict

\* A block is registered.
LEMMA OneMore ==
  ASSUME TypeOK, NEW kind \in Kind, NEW tree, tree = Append(blocks, NewBlock(kind))
  PROVE  /\ tree \in Seq(Block) /\ Len(tree) = Len(blocks) + 1 /\ DOMAIN tree = 1..(Len(blocks) + 1)
         /\ \A i \in Ids : i \in DOMAIN tree /\ tree[i] = blocks[i]
         /\ \A i \in DOMAIN tree : i \in Ids \/ i = Len(blocks) + 1
         /\ Len(blocks) + 1 \notin Ids
         /\ tree[Len(blocks) + 1] = NewBlock(kind)
<1>1. blocks \in Seq(Block) /\ NewBlock(kind) \in Block
  BY NewBlockType DEF TypeOK, TypeOKRuntime
<1>2. /\ tree \in Seq(Block) /\ Len(tree) = Len(blocks) + 1
      /\ \A i \in 1..Len(blocks) : tree[i] = blocks[i]
      /\ tree[Len(blocks) + 1] = NewBlock(kind)
  BY <1>1, AppendProperties
<1>3. DOMAIN tree = 1..(Len(blocks) + 1)
  BY <1>2, LenProperties
<1>. QED  BY <1>2, <1>3, BlockFacts

\* expect() at the top level may add the suite it belongs to; a new block holds nothing.
LEMMA WithSuiteFacts ==
  ASSUME TypeOK, NeedsGlobal => Len(blocks) < MaxBlocks
  PROVE  /\ WithSuite \in Seq(Block) /\ Len(WithSuite) <= MaxBlocks
         /\ DOMAIN WithSuite = 1..Len(WithSuite)
         /\ Suite \in DOMAIN WithSuite
         /\ Len(WithSuite) \in Nat /\ Len(blocks) <= Len(WithSuite)
         /\ \A i \in Ids : i \in DOMAIN WithSuite /\ WithSuite[i] = blocks[i]
         /\ \A i \in DOMAIN WithSuite : i \in Ids \/ (i = Suite /\ current = 0 /\ WithSuite[i] = NewBlock("describe"))
         /\ current # 0 => Suite = current
<1>1. CASE NeedsGlobal
  <2>1. WithSuite = Append(blocks, NewBlock("describe")) /\ Suite = Len(blocks) + 1 /\ current = 0
    BY <1>1 DEF WithSuite, Suite, NeedsGlobal
  <2>2. "describe" \in Kind
    BY DEF Kind
  <2>3. /\ WithSuite \in Seq(Block) /\ Len(WithSuite) = Len(blocks) + 1
        /\ DOMAIN WithSuite = 1..(Len(blocks) + 1)
        /\ \A i \in Ids : i \in DOMAIN WithSuite /\ WithSuite[i] = blocks[i]
        /\ \A i \in DOMAIN WithSuite : i \in Ids \/ i = Len(blocks) + 1
        /\ WithSuite[Len(blocks) + 1] = NewBlock("describe")
    BY <2>1, <2>2, OneMore
  <2>. QED  BY <1>1, <2>1, <2>3, BlockFacts
<1>2. CASE ~NeedsGlobal
  <2>1. WithSuite = blocks /\ Suite \in Ids /\ (current # 0 => Suite = current)
    BY <1>2, BlockFacts DEF WithSuite, Suite, NeedsGlobal
  <2>. QED  BY <2>1, BlockFacts DEF TypeOK, TypeOKRuntime, Ids
<1>. QED  BY <1>1, <1>2

\* The tests of a suite after a matcher: a failure stays, and a failing matcher adds one.
LEMMA TestsFacts ==
  ASSUME NEW old \in Seq(Verdict), NEW outcome \in {"ok", "fail", "skip"}, NEW chained \in BOOLEAN,
         chained => Len(old) > 0,
         NEW tests,
         tests = IF chained THEN [old EXCEPT ![Len(old)] = IF @ = "fail" THEN @ ELSE outcome]
                            ELSE Append(old, outcome)
  PROVE  /\ tests \in Seq(Verdict)
         /\ (\E t \in 1..Len(tests) : tests[t] = "fail") <=>
              (\E t \in 1..Len(old) : old[t] = "fail") \/ outcome = "fail"
         /\ (\A t \in 1..Len(old) : old[t] # "none") => \A t \in 1..Len(tests) : tests[t] # "none"
<1>1. Len(old) \in Nat /\ outcome \in Verdict
  BY LenProperties DEF Verdict
<1>2. CASE chained
  <2> DEFINE n == Len(old)
             new == IF old[n] = "fail" THEN old[n] ELSE outcome
  <2>1. n \in 1..Len(old)
    BY <1>1, <1>2
  <2>2. new \in Verdict
    BY <1>1, <2>1, ElementOfSeq
  <2>3. tests = [old EXCEPT ![n] = new]
    BY <1>2
  <2>4. /\ tests \in Seq(Verdict) /\ Len(tests) = Len(old)
        /\ \A j \in 1..Len(old) : tests[j] = IF j = n THEN new ELSE old[j]
    BY <2>1, <2>2, <2>3, ExceptSeq
  <2>. QED  BY <2>1, <2>4
<1>3. CASE ~chained
  <2>1. tests = Append(old, outcome)
    BY <1>3
  <2>2. /\ tests \in Seq(Verdict) /\ Len(tests) = Len(old) + 1
        /\ \A j \in 1..Len(old) : tests[j] = old[j]
        /\ tests[Len(old) + 1] = outcome
    BY <1>1, <2>1, AppendProperties
  <2>3. /\ Len(old) + 1 \in 1..Len(tests)
        /\ \A t \in 1..Len(old) : t \in 1..Len(tests)
        /\ \A t \in 1..Len(tests) : t \in 1..Len(old) \/ t = Len(old) + 1
    BY <1>1, <2>2
  <2>4. ASSUME NEW t \in 1..Len(tests), tests[t] = "fail"
        PROVE  (\E s \in 1..Len(old) : old[s] = "fail") \/ outcome = "fail"
    BY <2>2, <2>3, <2>4
  <2>. QED  BY <2>2, <2>3, <2>4
<1>. QED  BY <1>2, <1>3

\* A matcher changes its suite only, and what it changes are tests and failed.
LEMMA ResolveFacts ==
  ASSUME TypeOK, NeedsGlobal => Len(blocks) < MaxBlocks,
         NEW outcome \in {"ok", "fail", "skip"}, NEW chained \in BOOLEAN, Resolve(outcome, chained)
  PROVE  /\ blocks' \in Seq(Block) /\ Len(blocks') <= MaxBlocks /\ Len(blocks) <= Len(blocks')
         /\ Ids' = 1..Len(blocks') /\ Len(blocks') \in Nat
         /\ Suite \in Ids' /\ (current # 0 => Suite = current)
         /\ \A i \in Ids : /\ i \in Ids'
                           /\ blocks'[i].parent = blocks[i].parent
                           /\ blocks'[i].state = blocks[i].state
                           /\ blocks'[i].ran = blocks[i].ran
                           /\ blocks'[i].verdict = blocks[i].verdict
                           /\ i # Suite => blocks'[i] = blocks[i]
         /\ \A i \in Ids' : i \in Ids \/
                           /\ i = Suite /\ current = 0
                           /\ blocks'[i].parent = 0 /\ blocks'[i].state = "waiting"
                           /\ blocks'[i].ran = FALSE /\ blocks'[i].verdict = "none"
         /\ blocks'[Suite].failed <=> (Suite \in Ids /\ blocks[Suite].failed) \/ outcome = "fail"
         /\ HasFail(blocks'[Suite]) <=> (Suite \in Ids /\ HasFail(blocks[Suite])) \/ outcome = "fail"
         /\ (Suite \in Ids => Judged(blocks[Suite])) => Judged(blocks'[Suite])
<1> DEFINE old == WithSuite[Suite]
           n == Len(old.tests)
           tests == IF chained THEN [old.tests EXCEPT ![n] = IF @ = "fail" THEN @ ELSE outcome]
                               ELSE Append(old.tests, outcome)
           new == [old EXCEPT !.tests = tests, !.failed = @ \/ outcome = "fail"]
<1>1. /\ WithSuite \in Seq(Block) /\ Len(WithSuite) <= MaxBlocks /\ Suite \in 1..Len(WithSuite)
      /\ DOMAIN WithSuite = 1..Len(WithSuite)
      /\ Len(WithSuite) \in Nat /\ Len(blocks) <= Len(WithSuite)
      /\ \A i \in Ids : i \in DOMAIN WithSuite /\ WithSuite[i] = blocks[i]
      /\ \A i \in DOMAIN WithSuite : i \in Ids \/ (i = Suite /\ current = 0 /\ WithSuite[i] = NewBlock("describe"))
      /\ current # 0 => Suite = current
  BY WithSuiteFacts
<1>2. old \in Block
  BY <1>1, ElementOfSeq
<1>3. old.tests \in Seq(Verdict) /\ old.failed \in BOOLEAN
  BY <1>2 DEF Block
<1>4. chained => n > 0
  BY DEF Resolve
<1>5. /\ tests \in Seq(Verdict)
      /\ (\E t \in 1..Len(tests) : tests[t] = "fail") <=>
           (\E t \in 1..n : old.tests[t] = "fail") \/ outcome = "fail"
      /\ (\A t \in 1..n : old.tests[t] # "none") => \A t \in 1..Len(tests) : tests[t] # "none"
  <2> HIDE DEF old
  <2>1. tests = IF chained THEN [old.tests EXCEPT ![Len(old.tests)] = IF @ = "fail" THEN @ ELSE outcome]
                           ELSE Append(old.tests, outcome)
    OBVIOUS
  <2> HIDE DEF tests, n
  <2>2. chained => Len(old.tests) > 0
    BY <1>4 DEF n
  <2>3. /\ tests \in Seq(Verdict)
        /\ (\E t \in 1..Len(tests) : tests[t] = "fail") <=>
             (\E t \in 1..Len(old.tests) : old.tests[t] = "fail") \/ outcome = "fail"
        /\ (\A t \in 1..Len(old.tests) : old.tests[t] # "none") =>
             \A t \in 1..Len(tests) : tests[t] # "none"
    BY <1>3, <2>1, <2>2, TestsFacts
  <2>. QED  BY <2>3 DEF n
<1>6. /\ new \in Block
      /\ new.parent = old.parent /\ new.state = old.state /\ new.ran = old.ran /\ new.verdict = old.verdict
      /\ new.tests = tests /\ new.failed = (old.failed \/ outcome = "fail")
  <2> HIDE DEF tests, old
  <2>. QED  BY <1>2, <1>3, <1>5 DEF Block
<1>7. blocks' = [WithSuite EXCEPT ![Suite] = new]
  <2>1. blocks' = [WithSuite EXCEPT ![Suite].tests = tests, ![Suite].failed = @ \/ outcome = "fail"]
    BY DEF Resolve
  <2>. QED  BY <2>1, <1>1
<1>8. /\ blocks' \in Seq(Block) /\ Len(blocks') = Len(WithSuite)
      /\ \A j \in 1..Len(WithSuite) : blocks'[j] = IF j = Suite THEN new ELSE WithSuite[j]
  <2> HIDE DEF new
  <2>. QED  BY <1>1, <1>6, <1>7, ExceptSeq
<1>9. Ids' = 1..Len(WithSuite)
  BY <1>8, LenProperties DEF Ids
<1>10. blocks'[Suite] = new
  BY <1>1, <1>8
<1>11. /\ NewBlock("describe").tests = <<>> /\ ~NewBlock("describe").failed
       /\ NewBlock("describe").parent = current /\ NewBlock("describe").state = "waiting"
       /\ NewBlock("describe").ran = FALSE /\ NewBlock("describe").verdict = "none"
  BY DEF NewBlock
<1>12. /\ Suite \in Ids => old = blocks[Suite]
       /\ Suite \notin Ids => old = NewBlock("describe") /\ current = 0
  BY <1>1
<1>13. \A i \in Ids : /\ i \in Ids'
                      /\ i # Suite => blocks'[i] = blocks[i]
                      /\ i = Suite => blocks'[i] = new /\ old = blocks[i]
  <2> HIDE DEF new
  <2>. QED  BY <1>1, <1>8, <1>9, <1>12
<1>14. \A i \in Ids : /\ blocks'[i].parent = blocks[i].parent
                      /\ blocks'[i].state = blocks[i].state
                      /\ blocks'[i].ran = blocks[i].ran
                      /\ blocks'[i].verdict = blocks[i].verdict
  <2> HIDE DEF new, old
  <2>. QED  BY <1>6, <1>13
<1>15. \A i \in Ids' : i \in Ids \/
                           /\ i = Suite /\ current = 0
                           /\ blocks'[i].parent = 0 /\ blocks'[i].state = "waiting"
                           /\ blocks'[i].ran = FALSE /\ blocks'[i].verdict = "none"
  <2> HIDE DEF new, old
  <2>. QED  BY <1>1, <1>6, <1>9, <1>10, <1>11, <1>12
<1>16. blocks'[Suite].failed <=> (Suite \in Ids /\ blocks[Suite].failed) \/ outcome = "fail"
  <2> HIDE DEF new, old
  <2>. QED  BY <1>3, <1>6, <1>10, <1>11, <1>12
<1>17. HasFail(blocks'[Suite]) <=> (Suite \in Ids /\ HasFail(blocks[Suite])) \/ outcome = "fail"
  <2>1. HasFail(blocks'[Suite]) <=> \E t \in 1..Len(tests) : tests[t] = "fail"
    <3>1. blocks'[Suite].tests = tests
      BY <1>6, <1>10
    <3> HIDE DEF tests, old
    <3>. QED  BY <3>1 DEF HasFail
  <2>2. Suite \in Ids => (HasFail(blocks[Suite]) <=> \E t \in 1..n : old.tests[t] = "fail")
    BY <1>12 DEF HasFail
  <2>3. Suite \notin Ids => n = 0
    BY <1>11, <1>12
  <2> HIDE DEF tests, old
  <2>. QED  BY <1>5, <2>1, <2>2, <2>3
<1>18. (Suite \in Ids => Judged(blocks[Suite])) => Judged(blocks'[Suite])
  <2>1. blocks'[Suite].tests = tests
    BY <1>6, <1>10
  <2>2. (Suite \in Ids => Judged(blocks[Suite])) => \A t \in 1..n : old.tests[t] # "none"
    BY <1>11, <1>12 DEF Judged
  <2> HIDE DEF tests, old
  <2>. QED  BY <1>5, <2>1, <2>2 DEF Judged
<1> HIDE DEF tests, old, new
<1>. QED  BY <1>1, <1>8, <1>9, <1>13, <1>14, <1>15, <1>16, <1>17, <1>18

-------------------------------------------------------------------------------
(* Types *)

LEMMA NothingSent ==
  ASSUME wire \in Seq(FrameRecord), Send(<<>>)
  PROVE  wire' = wire
BY ConcatEmptySeq DEF Send

\* Verdicts that are merged are verdicts; a failure among them prevails.
LEMMA WorstFacts ==
  ASSUME NEW verdicts
  PROVE  /\ Worst(verdicts) \in Verdict
         /\ Worst(verdicts) = "fail" <=> "fail" \in verdicts
BY DEF Worst, Verdict

LEMMA OwnVerdictFacts ==
  ASSUME TypeOK, NEW b \in Ids
  PROVE  /\ OwnVerdict(b) \in Verdict
         /\ OwnVerdict(b) = "fail" <=>
              HasFail(blocks[b]) \/ \E i \in Ids : blocks[i].parent = b /\ blocks[i].verdict = "fail"
<1> DEFINE kids == {blocks[i].verdict : i \in Children(b)}
           own == {blocks[b].tests[i] : i \in DOMAIN blocks[b].tests}
<1>1. DOMAIN blocks[b].tests = 1..Len(blocks[b].tests)
  BY BlockFacts, LenProperties DEF Block
<1>2. "fail" \in own <=> HasFail(blocks[b])
  BY <1>1 DEF HasFail
<1>3. "fail" \in kids <=> \E i \in Ids : blocks[i].parent = b /\ blocks[i].verdict = "fail"
  BY DEF Children
<1>4. /\ Worst(kids \cup own) \in Verdict
      /\ Worst(kids \cup own) = "fail" <=> "fail" \in kids \/ "fail" \in own
  BY WorstFacts
<1>5. OwnVerdict(b) = IF Worst(kids \cup own) = "none" /\ blocks[b].kind \in TestCase
                      THEN "ok" ELSE Worst(kids \cup own)
  BY DEF OwnVerdict
<1> HIDE DEF kids, own
<1>. QED  BY <1>2, <1>3, <1>4, <1>5 DEF Verdict

\* Closing a block.
LEMMA CloseFacts ==
  ASSUME TypeOK, NEW b \in Ids, NEW verdict \in Verdict, NEW ran \in BOOLEAN, Close(b, verdict, ran)
  PROVE  /\ blocks' \in Seq(Block) /\ Len(blocks') = Len(blocks) /\ Ids' = Ids
         /\ \A i \in Ids : /\ blocks'[i].parent = blocks[i].parent
                           /\ blocks'[i].tests = blocks[i].tests
                           /\ blocks'[i].failed = blocks[i].failed
                           /\ i # b => blocks'[i] = blocks[i]
         /\ blocks'[b].state = "closed" /\ blocks'[b].verdict = verdict /\ blocks'[b].ran = ran
         /\ fileVerdict' \in Verdict
         /\ fileVerdict' = "fail" <=> fileVerdict = "fail" \/ (blocks[b].parent = 0 /\ verdict = "fail")
         /\ UNCHANGED <<runs, stage, global, matchers, asked, reply, exit>>
<1> DEFINE r == [blocks[b] EXCEPT !.state = "closed", !.verdict = verdict, !.ran = ran]
<1>1. blocks[b] \in Block
  BY BlockFacts
<1>2. /\ r \in Block /\ r.parent = blocks[b].parent /\ r.tests = blocks[b].tests
      /\ r.failed = blocks[b].failed
      /\ r.state = "closed" /\ r.verdict = verdict /\ r.ran = ran
  BY <1>1 DEF Block
<1>3. blocks' = [blocks EXCEPT ![b] = r]
  <2>1. blocks' = [blocks EXCEPT ![b].state = "closed", ![b].verdict = verdict, ![b].ran = ran]
    BY DEF Close
  <2>. QED  BY <2>1
<1> HIDE DEF r
<1>4. /\ blocks' \in Seq(Block) /\ Len(blocks') = Len(blocks) /\ Ids' = Ids
      /\ blocks'[b] = r
      /\ \A i \in Ids : i # b => blocks'[i] = blocks[i]
  BY <1>2, <1>3, OneBlock
<1>5. /\ fileVerdict' \in Verdict
      /\ fileVerdict' = "fail" <=> fileVerdict = "fail" \/ (blocks[b].parent = 0 /\ verdict = "fail")
  <2>1. /\ Worst({fileVerdict, verdict}) \in Verdict
        /\ Worst({fileVerdict, verdict}) = "fail" <=> fileVerdict = "fail" \/ verdict = "fail"
    BY WorstFacts
  <2>. QED  BY <2>1 DEF Close, TypeOK, TypeOKRuntime
<1>6. UNCHANGED <<runs, stage, global, matchers, asked, reply, exit>>
  BY DEF Close, askVars
<1>. QED  BY <1>2, <1>4, <1>5, <1>6

\* A block that is called, or whose callback returns.
LEMMA StateFacts ==
  ASSUME TypeOK, NEW b \in Ids, NEW state \in {"called", "open"}, NEW ran \in BOOLEAN,
         blocks' = [blocks EXCEPT ![b] = [blocks[b] EXCEPT !.state = state, !.ran = ran]]
  PROVE  /\ blocks' \in Seq(Block) /\ Len(blocks') = Len(blocks) /\ Ids' = Ids
         /\ \A i \in Ids : /\ blocks'[i].parent = blocks[i].parent
                           /\ blocks'[i].tests = blocks[i].tests
                           /\ blocks'[i].failed = blocks[i].failed
                           /\ blocks'[i].verdict = blocks[i].verdict
                           /\ i # b => blocks'[i] = blocks[i]
         /\ blocks'[b].state = state /\ blocks'[b].ran = ran
<1> DEFINE r == [blocks[b] EXCEPT !.state = state, !.ran = ran]
<1>1. blocks[b] \in Block
  BY BlockFacts
<1>2. /\ r \in Block /\ r.parent = blocks[b].parent /\ r.tests = blocks[b].tests
      /\ r.failed = blocks[b].failed /\ r.verdict = blocks[b].verdict
      /\ r.state = state /\ r.ran = ran
  BY <1>1 DEF Block
<1> HIDE DEF r
<1>3. /\ blocks' \in Seq(Block) /\ Len(blocks') = Len(blocks) /\ Ids' = Ids
      /\ blocks'[b] = r
      /\ \A i \in Ids : i # b => blocks'[i] = blocks[i]
  BY <1>2, OneBlock DEF r
<1>. QED  BY <1>2, <1>3

\* What a step of the runtime leaves alone.
HostStays == UNCHANGED <<eventVars, storeVars, result>>

LEMMA RuntimeTypes ==
  ASSUME TypeOK, HostStays, TypeOKRuntime'
  PROVE  TypeOK'
BY DEF TypeOK, HostStays, eventVars, storeVars

\* A matcher.
LEMMA ResolveTypes ==
  ASSUME TypeOK, NeedsGlobal => Len(blocks) < MaxBlocks,
         NEW outcome \in {"ok", "fail", "skip"}, NEW chained \in BOOLEAN, Resolve(outcome, chained),
         UNCHANGED current
  PROVE  /\ wire' \in Seq(FrameRecord)
         /\ blocks' \in Seq(Block) /\ Len(blocks') <= MaxBlocks
         /\ \A i \in DOMAIN blocks' : blocks'[i].parent < i
         /\ {current, global}' \subseteq 0..Len(blocks')
<1>1. /\ blocks' \in Seq(Block) /\ Len(blocks') <= MaxBlocks /\ Len(blocks) <= Len(blocks')
      /\ Ids' = 1..Len(blocks') /\ Len(blocks') \in Nat
      /\ Suite \in Ids'
      /\ \A i \in Ids : blocks'[i].parent = blocks[i].parent
      /\ \A i \in Ids' : i \in Ids \/ blocks'[i].parent = 0
  BY ResolveFacts
<1>2. \A i \in DOMAIN blocks' : blocks'[i].parent < i
  BY <1>1, BlockFacts DEF Ids
<1>3. {current, global}' \subseteq 0..Len(blocks')
  BY <1>1, BlockFacts, SMTT(30) DEF Resolve
<1>4. wire' \in Seq(FrameRecord)
  <2>1. Send(<<Frame("assert-fail")>>) \/ Send(<<>>)
    BY DEF Resolve
  <2>2. "assert-fail" \in Plain
    BY DEF Plain, FrameKind
  <2>3. <<Frame("assert-fail")>> \in Seq(FrameRecord) /\ <<>> \in Seq(FrameRecord)
    BY <2>2, FrameTypes
  <2>. QED  BY <2>1, <2>3, SendAppends DEF TypeOK, TypeOKRuntime
<1>. QED  BY <1>1, <1>2, <1>3, <1>4

\* Frames of the kinds that the runtime sends.
LEMMA SendTypes ==
  ASSUME TypeOK
  PROVE  /\ \A k \in Plain : Send(<<Frame(k)>>) => wire' \in Seq(FrameRecord)
         /\ \A k, l \in Plain : Send(<<Frame(k), Frame(l)>>) => wire' \in Seq(FrameRecord)
         /\ \A k \in Plain, v \in Verdict :
              Send(<<[Frame(k) EXCEPT !.verdict = v]>>) => wire' \in Seq(FrameRecord)
         /\ \A v \in Values :
              Send(<<[Frame("snapshot:assert") EXCEPT !.actual = v]>>) => wire' \in Seq(FrameRecord)
<1>1. wire \in Seq(FrameRecord)
  BY DEF TypeOK, TypeOKRuntime
<1>2. ASSUME NEW k \in Plain, Send(<<Frame(k)>>) PROVE wire' \in Seq(FrameRecord)
  <2>1. <<Frame(k)>> \in Seq(FrameRecord)
    BY FrameTypes
  <2>. QED  BY <1>1, <1>2, <2>1, SendAppends
<1>3. ASSUME NEW k \in Plain, NEW l \in Plain, Send(<<Frame(k), Frame(l)>>)
      PROVE  wire' \in Seq(FrameRecord)
  <2>1. <<Frame(k), Frame(l)>> \in Seq(FrameRecord)
    BY FrameTypes
  <2>. QED  BY <1>1, <1>3, <2>1, SendAppends
<1>4. ASSUME NEW k \in Plain, NEW v \in Verdict, Send(<<[Frame(k) EXCEPT !.verdict = v]>>)
      PROVE  wire' \in Seq(FrameRecord)
  <2>1. <<[Frame(k) EXCEPT !.verdict = v]>> \in Seq(FrameRecord)
    BY FrameTypes
  <2>. QED  BY <1>1, <1>4, <2>1, SendAppends
<1>5. ASSUME NEW v \in Values, Send(<<[Frame("snapshot:assert") EXCEPT !.actual = v]>>)
      PROVE  wire' \in Seq(FrameRecord)
  <2>1. <<[Frame("snapshot:assert") EXCEPT !.actual = v]>> \in Seq(FrameRecord)
    BY FrameTypes
  <2>. QED  BY <1>1, <1>5, <2>1, SendAppends
<1>. QED  BY <1>2, <1>3, <1>4, <1>5

\* The tree does not change.
LEMMA TreeStays ==
  ASSUME TypeOK, UNCHANGED <<runs, treeVars>>,
         wire' \in Seq(FrameRecord), stage' \in Stage, exit' \in Exit,
         asked' \in [kind : FrameKind \cup {"none"}, skipped : BOOLEAN], reply' \in {"none", "1", "0"}
  PROVE  TypeOKRuntime'
BY DEF TypeOK, TypeOKRuntime, treeVars

LEMMA CodeTypes ==
  ASSUME TypeOK, Tree, Code \/ HearSnapshot
  PROVE  TypeOKRuntime'
<1>0. /\ wire \in Seq(FrameRecord) /\ reply \in {"none", "1", "0"} /\ matchers \in 0..MaxExpects
      /\ asked \in [kind : FrameKind \cup {"none"}, skipped : BOOLEAN]
      /\ MaxExpects \in Nat /\ Kinds \subseteq Kind
      /\ runs \in BOOLEAN /\ stage \in Stage /\ exit \in Exit /\ fileVerdict \in Verdict
  BY RuntimeAssumption DEF TypeOK, TypeOKRuntime
<1>1. ASSUME NEW kind \in Kinds, Register(kind) PROVE TypeOKRuntime'
  <2>1. /\ blocks' \in Seq(Block) /\ Len(blocks') = Len(blocks) + 1
        /\ DOMAIN blocks' = 1..(Len(blocks) + 1)
        /\ \A i \in Ids : blocks'[i] = blocks[i]
        /\ \A i \in DOMAIN blocks' : i \in Ids \/ i = Len(blocks) + 1
        /\ blocks'[Len(blocks) + 1] = NewBlock(kind)
    BY <1>0, <1>1, OneMore DEF Register
  <2>2. NewBlock(kind).parent < Len(blocks) + 1
    BY BlockFacts DEF NewBlock
  <2>3. /\ Len(blocks') <= MaxBlocks
        /\ \A i \in DOMAIN blocks' : blocks'[i].parent < i
        /\ {current, global}' \subseteq 0..Len(blocks')
    BY <1>1, <2>1, <2>2, BlockFacts DEF Register
  <2>. QED  BY <1>0, <1>1, <2>1, <2>3 DEF Register, TypeOKRuntime, askVars
<1>2. ASSUME NEW outcome \in {"ok", "fail", "skip"}, NEW chained \in BOOLEAN, Expect(outcome, chained)
      PROVE  TypeOKRuntime'
  <2>1. Resolve(outcome, chained) /\ (NeedsGlobal => Len(blocks) < MaxBlocks) /\ UNCHANGED current
    BY <1>2 DEF Expect, CanExpect
  <2>2. /\ wire' \in Seq(FrameRecord)
        /\ blocks' \in Seq(Block) /\ Len(blocks') <= MaxBlocks
        /\ \A i \in DOMAIN blocks' : blocks'[i].parent < i
        /\ {current, global}' \subseteq 0..Len(blocks')
    BY <2>1, ResolveTypes
  <2>3. matchers' \in 0..MaxExpects
    BY <1>0, <1>2 DEF Expect, CanExpect
  <2>. QED  BY <1>0, <1>2, <2>2, <2>3 DEF Expect, TypeOKRuntime, askVars
<1>3. ASSUME NEW value \in Values, NEW skipped \in BOOLEAN, AskSnapshot(value, skipped)
      PROVE  TypeOKRuntime'
  <2>1. "snapshot:assert" \in FrameKind
    BY DEF FrameKind
  <2>2. wire' \in Seq(FrameRecord)
    BY <1>3, <2>1, SendTypes DEF AskSnapshot
  <2>3. matchers' \in 0..MaxExpects
    BY <1>0, <1>3 DEF AskSnapshot, CanExpect
  <2>4. asked' \in [kind : FrameKind \cup {"none"}, skipped : BOOLEAN]
    BY <1>3, <2>1 DEF AskSnapshot
  <2>. QED  BY <1>0, <1>3, <2>2, <2>3, <2>4 DEF AskSnapshot, TypeOK, TypeOKRuntime
<1>4. ASSUME HearSnapshot PROVE TypeOKRuntime'
  <2> DEFINE outcome == IF asked.skipped THEN "skip" ELSE IF reply = "1" THEN "ok" ELSE "fail"
  <2>1. Resolve(outcome, FALSE) /\ UNCHANGED current /\ outcome \in {"ok", "fail", "skip"}
    BY <1>4 DEF HearSnapshot
  <2>2. NeedsGlobal => Len(blocks) < MaxBlocks
    BY <1>4 DEF HearSnapshot, Tree
  <2> HIDE DEF outcome
  <2>3. /\ wire' \in Seq(FrameRecord)
        /\ blocks' \in Seq(Block) /\ Len(blocks') <= MaxBlocks
        /\ \A i \in DOMAIN blocks' : blocks'[i].parent < i
        /\ {current, global}' \subseteq 0..Len(blocks')
    BY <2>1, <2>2, ResolveTypes
  <2>4. asked' \in [kind : FrameKind \cup {"none"}, skipped : BOOLEAN] /\ reply' \in {"none", "1", "0"}
    BY <1>4 DEF HearSnapshot, NoRequest
  <2>. QED  BY <1>0, <1>4, <2>3, <2>4 DEF HearSnapshot, TypeOKRuntime
<1>. QED  BY <1>1, <1>2, <1>3, <1>4 DEF Code

\* Suite.run.
LEMMA SuiteTypes ==
  ASSUME TypeOK, SkipBlock \/ CallBlock \/ Return \/ CloseBlock
  PROVE  TypeOKRuntime'
<1>0. /\ wire \in Seq(FrameRecord) /\ reply \in {"none", "1", "0"} /\ matchers \in 0..MaxExpects
      /\ asked \in [kind : FrameKind \cup {"none"}, skipped : BOOLEAN]
      /\ runs \in BOOLEAN /\ stage \in Stage /\ exit \in Exit /\ fileVerdict \in Verdict
      /\ {"suite-start", "suite-end"} \subseteq Plain
  BY DEF TypeOK, TypeOKRuntime, Plain, FrameKind
<1>1. CASE SkipBlock
  <2>1. PICK p \in {0} \cup Ids, b \in Ids :
          /\ Close(b, "skip", FALSE)
          /\ current' = IF p = 0 THEN 0 ELSE b
          /\ Send(<<Frame("suite-start"), Frame("suite-end")>>)
    BY <1>1 DEF SkipBlock
  <2>2. "skip" \in Verdict
    BY DEF Verdict
  <2>3. /\ blocks' \in Seq(Block) /\ Len(blocks') = Len(blocks) /\ Ids' = Ids
        /\ \A i \in Ids : blocks'[i].parent = blocks[i].parent
        /\ fileVerdict' \in Verdict
        /\ UNCHANGED <<runs, stage, global, matchers, asked, reply, exit>>
    BY <2>1, <2>2, CloseFacts
  <2>4. wire' \in Seq(FrameRecord)
    BY <1>0, <2>1, SendTypes
  <2>5. {current, global}' \subseteq 0..Len(blocks')
    BY <2>1, <2>3, BlockFacts
  <2>. QED  BY <1>0, <2>3, <2>4, <2>5, BlockFacts DEF TypeOKRuntime, Ids
<1>2. CASE CallBlock
  <2>1. PICK p \in {0} \cup Ids, b \in Ids :
          /\ blocks' = [blocks EXCEPT ![b].state = "called", ![b].ran = TRUE]
          /\ current' = b
    BY <1>2 DEF CallBlock
  <2>2. blocks' = [blocks EXCEPT ![b] = [blocks[b] EXCEPT !.state = "called", !.ran = TRUE]]
    BY <2>1
  <2>3. /\ blocks' \in Seq(Block) /\ Len(blocks') = Len(blocks) /\ Ids' = Ids
        /\ \A i \in Ids : blocks'[i].parent = blocks[i].parent
    BY <2>2, StateFacts
  <2>4. wire' \in Seq(FrameRecord)
    BY <1>0, <1>2, SendTypes DEF CallBlock
  <2>5. UNCHANGED <<runs, stage, global, fileVerdict, matchers, asked, reply, exit>>
    BY <1>2 DEF CallBlock, askVars
  <2>6. {current, global}' \subseteq 0..Len(blocks')
    BY <2>1, <2>3, <2>5, BlockFacts
  <2>. QED  BY <1>0, <2>3, <2>4, <2>5, <2>6, BlockFacts DEF TypeOKRuntime, Ids
<1>3. CASE Return
  <2>1. /\ blocks' = [blocks EXCEPT ![current].state = "open"] /\ current \in Ids
        /\ UNCHANGED <<runs, stage, current, global, fileVerdict, matchers, asked, reply, wire, exit>>
    BY <1>3, BlockFacts DEF Return, askVars
  <2>2. blocks[current] \in Block
    BY <2>1, BlockFacts
  <2>3. /\ blocks' = [blocks EXCEPT ![current] =
                        [blocks[current] EXCEPT !.state = "open", !.ran = blocks[current].ran]]
        /\ blocks[current].ran \in BOOLEAN
    BY <2>1, <2>2 DEF Block
  <2>4. /\ blocks' \in Seq(Block) /\ Len(blocks') = Len(blocks) /\ Ids' = Ids
        /\ \A i \in Ids : blocks'[i].parent = blocks[i].parent
    BY <2>1, <2>3, StateFacts
  <2>5. {current, global}' \subseteq 0..Len(blocks')
    BY <2>1, <2>4, BlockFacts
  <2>. QED  BY <1>0, <2>1, <2>4, <2>5, BlockFacts DEF TypeOKRuntime, Ids
<1>4. CASE CloseBlock
  <2>1. PICK b \in Ids : /\ Close(b, OwnVerdict(b), TRUE)
                         /\ current' = IF blocks[b].parent = 0 THEN 0 ELSE current
                         /\ Send(<<Frame("suite-end")>>)
    BY <1>4 DEF CloseBlock
  <2>2. OwnVerdict(b) \in Verdict
    BY OwnVerdictFacts
  <2>3. /\ blocks' \in Seq(Block) /\ Len(blocks') = Len(blocks) /\ Ids' = Ids
        /\ \A i \in Ids : blocks'[i].parent = blocks[i].parent
        /\ fileVerdict' \in Verdict
        /\ UNCHANGED <<runs, stage, global, matchers, asked, reply, exit>>
    BY <2>1, <2>2, CloseFacts
  <2>4. wire' \in Seq(FrameRecord)
    BY <1>0, <2>1, SendTypes
  <2>5. {current, global}' \subseteq 0..Len(blocks')
    BY <2>1, <2>3, BlockFacts
  <2>. QED  BY <1>0, <2>3, <2>4, <2>5, BlockFacts DEF TypeOKRuntime, Ids
<1>. QED  BY <1>1, <1>2, <1>3, <1>4

\* The stages of the program and its end.
LEMMA StageTypes ==
  ASSUME TypeOK,
         \/ BeginRun \/ EndFile \/ AskCoverage \/ SendCoverage \/ SendReport
         \/ Leave \/ Die \/ FailToSpawn
  PROVE  TypeOKRuntime'
<1>0. /\ wire \in Seq(FrameRecord) /\ reply \in {"none", "1", "0"}
      /\ asked \in [kind : FrameKind \cup {"none"}, skipped : BOOLEAN]
      /\ NoRequest \in [kind : FrameKind \cup {"none"}, skipped : BOOLEAN]
      /\ stage \in Stage /\ exit \in Exit /\ fileVerdict \in Verdict
      /\ {"file-start", "file-end", "coverage:detail", "coverage", "report:start", "data",
          "report:end", "close"} \subseteq Plain
  BY DEF TypeOK, TypeOKRuntime, Plain, FrameKind, NoRequest
<1>1. CASE BeginRun
  <2>1. wire' \in Seq(FrameRecord)
    BY <1>0, <1>1, SendTypes DEF BeginRun
  <2>. QED  BY <1>0, <1>1, <2>1, TreeStays DEF BeginRun, askVars, Stage
<1>2. CASE EndFile
  <2>1. wire' \in Seq(FrameRecord)
    BY <1>0, <1>2, SendTypes DEF EndFile
  <2>. QED  BY <1>0, <1>2, <2>1, TreeStays DEF EndFile, askVars, Stage
<1>3. CASE AskCoverage
  <2>1. wire' \in Seq(FrameRecord)
    BY <1>0, <1>3, SendTypes DEF AskCoverage
  <2>2. asked' \in [kind : FrameKind \cup {"none"}, skipped : BOOLEAN]
    BY <1>0, <1>3 DEF AskCoverage, NoRequest, Plain
  <2>. QED  BY <1>0, <1>3, <2>1, <2>2, TreeStays DEF AskCoverage
<1>4. CASE SendCoverage
  <2>1. wire' \in Seq(FrameRecord)
    BY <1>0, <1>4, SendTypes DEF SendCoverage
  <2>. QED  BY <1>0, <1>4, <2>1, TreeStays DEF SendCoverage, Stage
<1>5. CASE SendReport
  <2>1. wire' \in Seq(FrameRecord)
    BY <1>0, <1>5, SendTypes DEF SendReport, ReportStep
  <2>2. stage' \in Stage /\ UNCHANGED <<runs, treeVars, askVars, exit>>
    BY <1>5 DEF SendReport, ReportStep, Stage
  <2>. QED  BY <1>0, <2>1, <2>2, TreeStays DEF askVars
<1>6. CASE Leave \/ Die \/ FailToSpawn
  <2>1. exit' \in Exit /\ UNCHANGED <<runs, stage, treeVars, askVars, wire>>
    BY <1>6 DEF Leave, Die, FailToSpawn, Stop, Exit
  <2>. QED  BY <1>0, <2>1, TreeStays DEF askVars
<1>. QED  BY <1>1, <1>2, <1>3, <1>4, <1>5, <1>6

\* The host.
LEMMA HandleTypes ==
  ASSUME TypeOK, Handle
  PROVE  TypeOK'
<1>1. /\ wire \in Seq(FrameRecord) /\ wire # <<>> /\ wire' = Tail(wire)
      /\ UNCHANGED <<runs, stage, treeVars, asked, exit, saved, result>>
  BY DEF TypeOK, TypeOKRuntime, Handle, OnEvent, OnCoverageDetail, OnSnapshotAssert, OnReportStart,
         OnReportEnd, OnDataMessage, OnOther, Take
<1>2. wire' \in Seq(FrameRecord) /\ Head(wire) \in FrameRecord
  BY <1>1, TakeShifts
<1>3. reply' \in {"none", "1", "0"} => TypeOKRuntime'
  BY <1>1, <1>2, TreeStays DEF TypeOK, TypeOKRuntime
<1>4. /\ saved' \in Values \cup {Missing}
      /\ result' \in {"pending", "empty", "none", "skip", "ok", "fail"}
  BY <1>1 DEF TypeOK
<1>5. CASE OnEvent
  <2>1. Head(wire).verdict \in Verdict
    BY <1>2 DEF FrameRecord, Verdict
  <2>2. events \in [fileStart : BOOLEAN, fileEnd : BOOLEAN, verdict : Verdict,
                    suites : BOOLEAN, fails : BOOLEAN]
    BY DEF TypeOK
  <2>3. events' \in [fileStart : BOOLEAN, fileEnd : BOOLEAN, verdict : Verdict,
                     suites : BOOLEAN, fails : BOOLEAN]
    BY <1>5, <2>1, <2>2, ZenonT(60) DEF OnEvent
  <2>. QED  BY <1>3, <1>4, <1>5, <2>3 DEF OnEvent, TypeOK, TypeOKRuntime
<1>6. CASE OnCoverageDetail
  BY <1>3, <1>4, <1>6 DEF OnCoverageDetail, TypeOK, eventVars
<1>7. CASE OnSnapshotAssert
  <2>1. Head(wire).actual \in Values
    BY <1>2, <1>7 DEF OnSnapshotAssert, Take, FrameRecord
  <2>2. reply' \in {"none", "1", "0"} /\ UNCHANGED eventVars
    BY <1>7 DEF OnSnapshotAssert
  <2>3. store' \in [value : Values \cup {Missing}, failed : BOOLEAN, dirty : BOOLEAN]
    BY <1>7, <2>1 DEF OnSnapshotAssert, TypeOK
  <2>. QED  BY <1>3, <1>4, <2>2, <2>3 DEF TypeOK, eventVars
<1>8. CASE OnReportStart \/ OnReportEnd
  BY <1>3, <1>4, <1>8 DEF OnReportStart, OnReportEnd, TypeOK, TypeOKRuntime
<1>9. CASE OnDataMessage
  BY <1>3, <1>4, <1>9 DEF OnDataMessage, TypeOK, TypeOKRuntime
<1>10. CASE OnOther
  BY <1>3, <1>4, <1>10 DEF OnOther, TypeOK, TypeOKRuntime, eventVars
<1>. QED  BY <1>5, <1>6, <1>7, <1>8, <1>9, <1>10 DEF Handle

LEMMA EvaluateTypes ==
  ASSUME TypeOK, Evaluate
  PROVE  TypeOK'
<1>1. PICK verdict \in {"empty", "none", "skip", "ok", "fail"} : Settle(verdict)
  <2>1. events.verdict \in Verdict /\ ReadFileReport \in Verdict
    BY WorstFacts DEF TypeOK, ReadFileReport
  <2>. QED  BY <2>1 DEF Evaluate, StartFailed, BadPayload, Reported, Synthesized, EmptyFile, NoReportSent,
                        Verdict
<1>2. /\ UNCHANGED <<runtimeVars, eventVars, store>> /\ result' = verdict
      /\ saved' \in Values \cup {Missing}
  BY <1>1 DEF Settle, TypeOK
<1>. QED  BY <1>2 DEF TypeOK, TypeOKRuntime, runtimeVars, treeVars, askVars, eventVars

\* Every step keeps the types.
LEMMA TypeStep ==
  ASSUME TypeOK, Tree, [Next]_vars
  PROVE  TypeOK'
<1>1. CASE RuntimeNext /\ HostStays
  BY <1>1, CodeTypes, SuiteTypes, StageTypes, RuntimeTypes DEF RuntimeNext, Work
<1>2. CASE Handle
  BY <1>2, HandleTypes
<1>3. CASE Evaluate
  BY <1>3, EvaluateTypes
<1>4. CASE UNCHANGED vars
  BY <1>4 DEF vars, TypeOK, TypeOKRuntime, runtimeVars, treeVars, askVars, eventVars, storeVars
<1>. QED  BY <1>1, <1>2, <1>3, <1>4 DEF Next, HostStays

-------------------------------------------------------------------------------
(* Tree *)

LEMMA ParentFacts ==
  ASSUME TypeOK, NEW b \in Ids
  PROVE  /\ blocks[b].parent \in Nat /\ blocks[b].parent < b
         /\ blocks[b].parent # 0 => blocks[b].parent \in Ids
<1>1. blocks[b].parent \in 0..MaxBlocks /\ blocks[b].parent < b /\ b \in 1..Len(blocks)
  BY BlockFacts DEF Block
<1>. QED  BY <1>1, BlockFacts

\* Where a matcher may be evaluated.
Evaluates == stage = "load" \/ (stage = "run" /\ current # 0 /\ blocks[current].state = "called")

LEMMA ResolveTree ==
  ASSUME TypeOK, Tree, Evaluates, NeedsGlobal => Len(blocks) < MaxBlocks,
         NEW outcome \in {"ok", "fail", "skip"}, NEW chained \in BOOLEAN, Resolve(outcome, chained),
         asked' = NoRequest, UNCHANGED <<stage, current, fileVerdict>>
  PROVE  Tree'
<1> USE DEF Active
<1>1. /\ Suite \in Ids' /\ (current # 0 => Suite = current)
      /\ \A i \in Ids : /\ i \in Ids'
                        /\ blocks'[i].parent = blocks[i].parent
                        /\ blocks'[i].state = blocks[i].state
                        /\ blocks'[i].ran = blocks[i].ran
                        /\ blocks'[i].verdict = blocks[i].verdict
                        /\ i # Suite => blocks'[i] = blocks[i]
      /\ \A i \in Ids' : i \in Ids \/
                        /\ i = Suite /\ current = 0
                        /\ blocks'[i].parent = 0 /\ blocks'[i].state = "waiting"
                        /\ blocks'[i].ran = FALSE /\ blocks'[i].verdict = "none"
      /\ blocks'[Suite].failed <=> (Suite \in Ids /\ blocks[Suite].failed) \/ outcome = "fail"
      /\ HasFail(blocks'[Suite]) <=> (Suite \in Ids /\ HasFail(blocks[Suite])) \/ outcome = "fail"
  BY ResolveFacts
<1>2. Failed => Failed'
  BY <1>1 DEF Failed
<1>3. ASSUME NEW b \in Ids'
      PROVE  /\ blocks'[b].ran => blocks'[b].state # "waiting"
             /\ Active(b)' => stage' = "run" /\ blocks'[b].ran
             /\ stage' = "load" => blocks'[b].state = "waiting"
             /\ blocks'[b].state = "called" => b = current' /\ \A i \in Ids' : Active(i)' => i <= b
             /\ Active(b)' /\ blocks'[b].parent # 0 => blocks'[blocks'[b].parent].state = "open"
             /\ blocks'[b].state # "closed" => blocks'[b].verdict = "none"
             /\ blocks'[b].verdict = "fail" => Failed'
  <2>1. CASE b \in Ids
    <3>1. blocks[b].parent # 0 => blocks[b].parent \in Ids
      BY <2>1, ParentFacts
    <3>. QED  BY <1>1, <1>2, <2>1, <3>1 DEF Tree
  <2>2. CASE b \notin Ids
    BY <1>1, <2>2
  <2>. QED  BY <2>1, <2>2
<1>4. ASSUME NEW b \in Ids' PROVE blocks'[b].failed <=> HasFail(blocks'[b])
  <2>1. CASE b = Suite
    <3>1. Suite \in Ids => (blocks[Suite].failed <=> HasFail(blocks[Suite]))
      BY DEF Tree
    <3>. QED  BY <1>1, <2>1, <3>1
  <2>2. CASE b # Suite
    <3>1. b \in Ids /\ blocks'[b] = blocks[b]
      BY <1>1, <2>2
    <3>. QED  BY <3>1 DEF Tree
  <2>. QED  BY <2>1, <2>2
<1>5. /\ fileVerdict' = "fail" => Failed'
      /\ stage' = "load" => current' = 0
      /\ asked'.kind # "snapshot:assert"
  BY <1>2 DEF Tree, NoRequest
<1>. QED  BY <1>3, <1>4, <1>5 DEF Tree

LEMMA CodeTree ==
  ASSUME TypeOK, Tree, Code \/ HearSnapshot
  PROVE  Tree'
<1>1. ASSUME NEW kind \in Kinds, Register(kind) PROVE Tree'
  <2>1. kind \in Kind
    BY RuntimeAssumption
  <2>2. /\ DOMAIN blocks' = 1..(Len(blocks) + 1)
        /\ \A i \in Ids : i \in DOMAIN blocks' /\ blocks'[i] = blocks[i]
        /\ \A i \in DOMAIN blocks' : i \in Ids \/ i = Len(blocks) + 1
        /\ blocks'[Len(blocks) + 1] = NewBlock(kind)
    BY <1>1, <2>1, OneMore DEF Register
  <2>3. /\ asked = NoRequest
        /\ UNCHANGED <<stage, current, global, fileVerdict, asked>>
    BY <1>1 DEF Register, Coding, askVars
  <2>4. \A i \in Ids : i \in Ids' /\ blocks'[i] = blocks[i]
    BY <2>2 DEF Ids
  <2>5. \A i \in Ids' : i \in Ids \/
          /\ blocks'[i].state = "waiting" /\ ~blocks'[i].ran /\ ~blocks'[i].failed
          /\ blocks'[i].tests = <<>> /\ blocks'[i].verdict = "none"
    BY <2>2 DEF Ids, NewBlock
  <2>6. Failed => Failed'
    BY <2>4 DEF Failed
  <2>7. ASSUME NEW b \in Ids'
        PROVE  /\ blocks'[b].ran => blocks'[b].state # "waiting"
               /\ Active(b)' => stage' = "run" /\ blocks'[b].ran
               /\ stage' = "load" => blocks'[b].state = "waiting"
               /\ blocks'[b].state = "called" => b = current' /\ \A i \in Ids' : Active(i)' => i <= b
               /\ Active(b)' /\ blocks'[b].parent # 0 => blocks'[blocks'[b].parent].state = "open"
               /\ blocks'[b].failed <=> HasFail(blocks'[b])
               /\ blocks'[b].state # "closed" => blocks'[b].verdict = "none"
               /\ blocks'[b].verdict = "fail" => Failed'
    <3>1. CASE b \in Ids
      <4>1. blocks[b].parent # 0 => blocks[b].parent \in Ids
        BY <3>1, ParentFacts
      <4>. QED  BY <2>3, <2>4, <2>5, <2>6, <3>1, <4>1 DEF Tree, Active
    <3>2. CASE b \notin Ids
      <4>1. ~HasFail(blocks'[b])
        BY <2>5, <3>2 DEF HasFail
      <4>. QED  BY <2>5, <3>2, <4>1 DEF Active
    <3>. QED  BY <3>1, <3>2
  <2>8. /\ fileVerdict' = "fail" => Failed'
        /\ stage' = "load" => current' = 0
        /\ asked'.kind # "snapshot:assert"
    BY <2>3, <2>6 DEF Tree, NoRequest
  <2>. QED  BY <2>7, <2>8 DEF Tree
<1>2. ASSUME NEW outcome \in {"ok", "fail", "skip"}, NEW chained \in BOOLEAN, Expect(outcome, chained)
      PROVE  Tree'
  BY <1>2, ResolveTree DEF Expect, CanExpect, Coding, Evaluates, askVars
<1>3. ASSUME NEW value \in Values, NEW skipped \in BOOLEAN, AskSnapshot(value, skipped)
      PROVE  Tree'
  <2>1. /\ UNCHANGED <<stage, blocks, current, global, fileVerdict>>
        /\ Evaluates /\ (NeedsGlobal => Len(blocks) < MaxBlocks)
    BY <1>3 DEF AskSnapshot, CanExpect, Coding, Evaluates
  <2>. QED  BY <2>1 DEF Tree, Active, Failed, Ids, NeedsGlobal, Evaluates
<1>4. CASE HearSnapshot
  <2> DEFINE outcome == IF asked.skipped THEN "skip" ELSE IF reply = "1" THEN "ok" ELSE "fail"
  <2>1. /\ Resolve(outcome, FALSE) /\ outcome \in {"ok", "fail", "skip"}
        /\ asked' = NoRequest /\ UNCHANGED <<stage, current, fileVerdict>>
        /\ asked.kind = "snapshot:assert"
    BY <1>4 DEF HearSnapshot
  <2>2. Evaluates /\ (NeedsGlobal => Len(blocks) < MaxBlocks)
    BY <2>1 DEF Tree, Evaluates
  <2> HIDE DEF outcome
  <2>. QED  BY <2>1, <2>2, ResolveTree
<1>. QED  BY <1>1, <1>2, <1>3, <1>4 DEF Code

\* While a loop over children runs, no callback does.
LEMMA LoopFacts ==
  ASSUME TypeOK, Tree, NEW p \in {0} \cup Ids, Looping(p)
  PROVE  /\ stage = "run"
         /\ \A i \in Ids : blocks[i].state # "called"
         /\ \A i \in Ids : Active(i) => i <= p
         /\ p # 0 => p \in Ids /\ blocks[p].state = "open"
         /\ asked.kind # "snapshot:assert"
<1>1. stage = "run" /\ (p # 0 => p \in Ids /\ blocks[p].state = "open")
  BY DEF Looping
<1>2. \A i \in Ids : Active(i) => i <= p
  BY DEF Looping, Active
<1>3. ASSUME NEW i \in Ids, blocks[i].state = "called" PROVE FALSE
  <2>1. i <= p /\ i \in Nat /\ i # 0 /\ p \in Nat
    BY <1>2, <1>3, BlockFacts DEF Active
  <2>2. p # 0 => p <= i
    BY <1>1, <1>3 DEF Tree, Active
  <2>. QED  BY <1>1, <1>3, <2>1, <2>2
<1>4. asked.kind # "snapshot:assert"
  <2>1. current # 0 => current \in Ids
    BY BlockFacts
  <2>. QED  BY <1>1, <1>3, <2>1 DEF Tree
<1>. QED  BY <1>1, <1>2, <1>3, <1>4

\* The next child of a loop.
LEMMA ChildFacts ==
  ASSUME TypeOK, Tree, NEW p \in {0} \cup Ids, NEW b \in Ids, NextChild(p, b)
  PROVE  /\ blocks[b].parent = p /\ blocks[b].state = "waiting" /\ p < b
         /\ blocks[b].verdict = "none"
<1>1. blocks[b].parent = p /\ blocks[b].state = "waiting"
  BY DEF NextChild, Waiting, Children
<1>. QED  BY <1>1, BlockFacts DEF Tree

LEMMA SuiteTree ==
  ASSUME TypeOK, Tree, SkipBlock \/ CallBlock \/ Return \/ CloseBlock
  PROVE  Tree'
<1> USE DEF Active
<1>1. CASE SkipBlock
  <2>1. PICK p \in {0} \cup Ids, b \in Ids :
          /\ Looping(p) /\ NextChild(p, b)
          /\ Close(b, "skip", FALSE)
    BY <1>1 DEF SkipBlock
  <2>2. /\ Ids' = Ids
        /\ \A i \in Ids : /\ blocks'[i].parent = blocks[i].parent
                          /\ blocks'[i].tests = blocks[i].tests
                          /\ blocks'[i].failed = blocks[i].failed
                          /\ i # b => blocks'[i] = blocks[i]
        /\ blocks'[b].state = "closed" /\ blocks'[b].verdict = "skip" /\ blocks'[b].ran = FALSE
        /\ fileVerdict' = "fail" <=> fileVerdict = "fail"
        /\ UNCHANGED <<stage, asked>>
    BY <2>1, CloseFacts DEF Verdict
  <2>3. /\ stage = "run" /\ \A i \in Ids : blocks[i].state # "called"
        /\ asked.kind # "snapshot:assert"
    BY <2>1, LoopFacts
  <2>4. blocks[b].state = "waiting"
    BY <2>1, ChildFacts
  <2>5. Failed' <=> Failed
    BY <2>2 DEF Failed
  <2>6. ASSUME NEW i \in Ids
        PROVE  /\ blocks'[i].ran => blocks'[i].state # "waiting"
               /\ Active(i)' => blocks'[i].ran
               /\ blocks'[i].state # "called"
               /\ blocks'[i].failed <=> HasFail(blocks'[i])
               /\ blocks'[i].state # "closed" => blocks'[i].verdict = "none"
               /\ blocks'[i].verdict = "fail" => Failed'
    BY <2>2, <2>3, <2>5 DEF Tree, HasFail
  <2>7. ASSUME NEW i \in Ids, Active(i)', blocks'[i].parent # 0
        PROVE  blocks'[blocks'[i].parent].state = "open"
    <3>1. i # b /\ Active(i) /\ blocks[i].parent # 0 /\ blocks[i].parent \in Ids
      BY <2>2, <2>7, ParentFacts
    <3>2. blocks[blocks[i].parent].state = "open"
      BY <3>1 DEF Tree
    <3>. QED  BY <2>2, <2>4, <3>1, <3>2
  <2>8. stage' = "run" /\ (fileVerdict' = "fail" => Failed') /\ asked'.kind # "snapshot:assert"
    BY <2>2, <2>3, <2>5 DEF Tree
  <2>. QED  BY <2>2, <2>6, <2>7, <2>8 DEF Tree
<1>2. CASE CallBlock
  <2>1. PICK p \in {0} \cup Ids, b \in Ids :
          /\ Looping(p) /\ NextChild(p, b)
          /\ blocks' = [blocks EXCEPT ![b].state = "called", ![b].ran = TRUE]
          /\ current' = b
    BY <1>2 DEF CallBlock
  <2>2. blocks' = [blocks EXCEPT ![b] = [blocks[b] EXCEPT !.state = "called", !.ran = TRUE]]
    BY <2>1
  <2>3. /\ Ids' = Ids
        /\ \A i \in Ids : /\ blocks'[i].parent = blocks[i].parent
                          /\ blocks'[i].tests = blocks[i].tests
                          /\ blocks'[i].failed = blocks[i].failed
                          /\ blocks'[i].verdict = blocks[i].verdict
                          /\ i # b => blocks'[i] = blocks[i]
        /\ blocks'[b].state = "called" /\ blocks'[b].ran = TRUE
    BY <2>2, StateFacts
  <2>4. /\ stage = "run" /\ \A i \in Ids : blocks[i].state # "called" /\ (Active(i) => i <= p)
        /\ p # 0 => p \in Ids /\ blocks[p].state = "open"
        /\ asked.kind # "snapshot:assert"
    BY <2>1, LoopFacts
  <2>5. /\ blocks[b].parent = p /\ blocks[b].state = "waiting" /\ p < b /\ blocks[b].verdict = "none"
        /\ p \in Nat /\ b \in Nat
    BY <2>1, ChildFacts, BlockFacts
  <2>6. UNCHANGED <<stage, fileVerdict, asked>>
    BY <1>2 DEF CallBlock, askVars
  <2>7. Failed' <=> Failed
    BY <2>3 DEF Failed
  <2>8. ASSUME NEW i \in Ids
        PROVE  /\ blocks'[i].ran => blocks'[i].state # "waiting"
               /\ Active(i)' => blocks'[i].ran
               /\ blocks'[i].failed <=> HasFail(blocks'[i])
               /\ blocks'[i].state # "closed" => blocks'[i].verdict = "none"
               /\ blocks'[i].verdict = "fail" => Failed'
    BY <2>3, <2>5, <2>7 DEF Tree, HasFail
  <2>9. ASSUME NEW i \in Ids, Active(i)', blocks'[i].parent # 0
        PROVE  blocks'[blocks'[i].parent].state = "open"
    <3>1. CASE i = b
      BY <2>3, <2>4, <2>5, <2>9, <3>1
    <3>2. CASE i # b
      <4>1. Active(i) /\ blocks[i].parent # 0 /\ blocks[i].parent \in Ids
        BY <2>3, <2>9, <3>2, ParentFacts
      <4>2. blocks[blocks[i].parent].state = "open"
        BY <4>1 DEF Tree
      <4>. QED  BY <2>3, <2>5, <4>1, <4>2
    <3>. QED  BY <3>1, <3>2
  <2>10. ASSUME NEW i \in Ids, blocks'[i].state = "called"
         PROVE  i = current' /\ \A j \in Ids : Active(j)' => j <= i
    <3>1. i = b
      BY <2>3, <2>4, <2>10
    <3>2. \A j \in Ids : Active(j)' => j <= b
      <4> SUFFICES ASSUME NEW j \in Ids, Active(j)', j # b PROVE j <= b
        BY <2>5
      <4>1. j <= p /\ j \in Nat
        BY <2>3, <2>4, BlockFacts
      <4>. QED  BY <2>5, <4>1
    <3>. QED  BY <2>1, <3>1, <3>2
  <2>11. stage' = "run" /\ (fileVerdict' = "fail" => Failed') /\ asked'.kind # "snapshot:assert"
    BY <2>4, <2>6, <2>7 DEF Tree
  <2>. QED  BY <2>3, <2>8, <2>9, <2>10, <2>11 DEF Tree
<1>3. CASE Return
  <2>1. /\ blocks' = [blocks EXCEPT ![current].state = "open"] /\ current \in Ids
        /\ stage = "run" /\ asked = NoRequest /\ blocks[current].state = "called"
        /\ UNCHANGED <<stage, current, fileVerdict, asked>>
    BY <1>3, BlockFacts DEF Return, askVars
  <2>2. blocks[current] \in Block
    BY <2>1, BlockFacts
  <2>3. /\ blocks' = [blocks EXCEPT ![current] =
                        [blocks[current] EXCEPT !.state = "open", !.ran = blocks[current].ran]]
        /\ blocks[current].ran \in BOOLEAN
    BY <2>1, <2>2 DEF Block
  <2>4. /\ Ids' = Ids
        /\ \A i \in Ids : /\ blocks'[i].parent = blocks[i].parent
                          /\ blocks'[i].tests = blocks[i].tests
                          /\ blocks'[i].failed = blocks[i].failed
                          /\ blocks'[i].verdict = blocks[i].verdict
                          /\ i # current => blocks'[i] = blocks[i]
        /\ blocks'[current].state = "open" /\ blocks'[current].ran = blocks[current].ran
    BY <2>1, <2>3, StateFacts
  <2>5. Failed' <=> Failed
    BY <2>4 DEF Failed
  <2>6. ASSUME NEW i \in Ids
        PROVE  /\ blocks'[i].ran => blocks'[i].state # "waiting"
               /\ Active(i)' => blocks'[i].ran
               /\ blocks'[i].state # "called"
               /\ blocks'[i].failed <=> HasFail(blocks'[i])
               /\ blocks'[i].state # "closed" => blocks'[i].verdict = "none"
               /\ blocks'[i].verdict = "fail" => Failed'
    BY <2>1, <2>4, <2>5 DEF Tree, HasFail
  <2>7. ASSUME NEW i \in Ids, Active(i)', blocks'[i].parent # 0
        PROVE  blocks'[blocks'[i].parent].state = "open"
    <3>1. Active(i) /\ blocks[i].parent # 0 /\ blocks[i].parent \in Ids
      BY <2>1, <2>4, <2>7, ParentFacts
    <3>2. blocks[blocks[i].parent].state = "open"
      BY <3>1 DEF Tree
    <3>. QED  BY <2>4, <3>1, <3>2
  <2>8. stage' = "run" /\ (fileVerdict' = "fail" => Failed') /\ asked'.kind # "snapshot:assert"
    BY <2>1, <2>5 DEF Tree, NoRequest
  <2>. QED  BY <2>4, <2>6, <2>7, <2>8 DEF Tree
<1>4. CASE CloseBlock
  <2>1. PICK b \in Ids : Looping(b) /\ Close(b, OwnVerdict(b), TRUE)
    BY <1>4 DEF CloseBlock
  <2>2. /\ OwnVerdict(b) \in Verdict
        /\ OwnVerdict(b) = "fail" <=>
             HasFail(blocks[b]) \/ \E i \in Ids : blocks[i].parent = b /\ blocks[i].verdict = "fail"
    BY OwnVerdictFacts
  <2>3. /\ Ids' = Ids
        /\ \A i \in Ids : /\ blocks'[i].parent = blocks[i].parent
                          /\ blocks'[i].tests = blocks[i].tests
                          /\ blocks'[i].failed = blocks[i].failed
                          /\ i # b => blocks'[i] = blocks[i]
        /\ blocks'[b].state = "closed" /\ blocks'[b].verdict = OwnVerdict(b) /\ blocks'[b].ran = TRUE
        /\ fileVerdict' = "fail" <=> fileVerdict = "fail" \/ (blocks[b].parent = 0 /\ OwnVerdict(b) = "fail")
        /\ UNCHANGED <<stage, asked>>
    BY <2>1, <2>2, CloseFacts
  <2>4. /\ stage = "run" /\ \A i \in Ids : blocks[i].state # "called" /\ (Active(i) => i <= b)
        /\ blocks[b].state = "open"
        /\ asked.kind # "snapshot:assert"
    BY <2>1, LoopFacts, BlockFacts
  <2>5. Failed' <=> Failed
    BY <2>3 DEF Failed
  <2>6. OwnVerdict(b) = "fail" => Failed
    BY <2>2 DEF Tree, Failed
  <2>7. ASSUME NEW i \in Ids
        PROVE  /\ blocks'[i].ran => blocks'[i].state # "waiting"
               /\ Active(i)' => blocks'[i].ran
               /\ blocks'[i].state # "called"
               /\ blocks'[i].failed <=> HasFail(blocks'[i])
               /\ blocks'[i].state # "closed" => blocks'[i].verdict = "none"
               /\ blocks'[i].verdict = "fail" => Failed'
    BY <2>3, <2>4, <2>5, <2>6 DEF Tree, HasFail
  <2>8. ASSUME NEW i \in Ids, Active(i)', blocks'[i].parent # 0
        PROVE  blocks'[blocks'[i].parent].state = "open"
    <3>1. i # b /\ Active(i) /\ blocks[i].parent # 0 /\ blocks[i].parent \in Ids
      BY <2>3, <2>8, ParentFacts
    <3>2. blocks[blocks[i].parent].state = "open"
      BY <3>1 DEF Tree
    <3>3. i <= b /\ blocks[i].parent < i /\ i \in Nat /\ b \in Nat /\ blocks[i].parent \in Nat
      BY <2>4, <3>1, BlockFacts, ParentFacts
    <3>4. blocks[i].parent # b
      BY <3>1, <3>3
    <3>. QED  BY <2>3, <3>1, <3>2, <3>4
  <2>9. stage' = "run" /\ (fileVerdict' = "fail" => Failed') /\ asked'.kind # "snapshot:assert"
    BY <2>3, <2>4, <2>5, <2>6 DEF Tree
  <2>. QED  BY <2>3, <2>7, <2>8, <2>9 DEF Tree
<1>. QED  BY <1>1, <1>2, <1>3, <1>4

\* The tree stays as it is, and so does the request unless it is not one for a snapshot.
LEMMA StageTree ==
  ASSUME TypeOK, Tree, UNCHANGED treeVars,
         \/ UNCHANGED <<stage, asked>>
         \/ stage = "load" /\ stage' = "run" /\ asked' = NoRequest
         \/ Past' /\ asked'.kind # "snapshot:assert" /\ \A b \in Ids : ~Active(b)
  PROVE  Tree'
<1>1. /\ UNCHANGED <<blocks, current, global, fileVerdict>> /\ Ids' = Ids /\ (Failed' <=> Failed)
  BY DEF treeVars, Ids, Failed
<1>. QED  BY <1>1 DEF Tree, Active, NeedsGlobal, NoRequest, Past, HasFail

LEMMA TreeStep ==
  ASSUME TypeOK, Tree, [Next]_vars
  PROVE  Tree'
<1>1. CASE Code \/ HearSnapshot
  BY <1>1, CodeTree
<1>2. CASE SkipBlock \/ CallBlock \/ Return \/ CloseBlock
  BY <1>2, SuiteTree
<1>3. CASE BeginRun
  BY <1>3, StageTree DEF BeginRun, Coding, askVars
<1>4. CASE EndFile
  <2>1. (\A i \in Ids : ~Active(i)) /\ asked.kind # "snapshot:assert"
    <3>1. Looping(0)
      BY <1>4 DEF EndFile
    <3>2. (\A i \in Ids : Active(i) => i <= 0) /\ asked.kind # "snapshot:assert"
      BY <3>1, LoopFacts
    <3>. QED  BY <3>2, BlockFacts
  <2>. QED  BY <1>4, <2>1, StageTree DEF EndFile, askVars, Past
<1>5. CASE AskCoverage \/ SendCoverage \/ SendReport
  <2>1. UNCHANGED treeVars /\ Past /\ Past' /\ (asked' = asked \/ asked'.kind # "snapshot:assert")
    BY <1>5 DEF AskCoverage, SendCoverage, SendReport, ReportStep, Past, NoRequest, askVars
  <2>2. (\A b \in Ids : ~Active(b)) /\ asked.kind # "snapshot:assert"
    BY <2>1 DEF Tree, Past
  <2>. QED  BY <2>1, <2>2, StageTree
<1>6. CASE Leave \/ Die \/ FailToSpawn
  BY <1>6, StageTree DEF Leave, Die, FailToSpawn, Stop, askVars
<1>7. CASE Handle
  BY <1>7, StageTree DEF Handle, OnEvent, OnCoverageDetail, OnSnapshotAssert, OnReportStart,
         OnReportEnd, OnDataMessage, OnOther, Take
<1>8. CASE Evaluate
  BY <1>8, StageTree DEF Evaluate, StartFailed, BadPayload, Reported, Synthesized, EmptyFile,
         NoReportSent, Settle, runtimeVars, askVars
<1>9. CASE UNCHANGED vars
  BY <1>9, StageTree DEF vars, runtimeVars, askVars
<1>. QED  BY <1>1, <1>2, <1>3, <1>4, <1>5, <1>6, <1>7, <1>8, <1>9 DEF Next, RuntimeNext, Work

-------------------------------------------------------------------------------
(* Blame *)

LEMMA ResolveBlame ==
  ASSUME TypeOK, Tree, Blame, Evaluates, NeedsGlobal => Len(blocks) < MaxBlocks,
         NEW outcome \in {"ok", "fail", "skip"}, NEW chained \in BOOLEAN, Resolve(outcome, chained),
         UNCHANGED <<stage, current, fileVerdict>>
  PROVE  Blame'
<1> USE DEF Active
<1>1. /\ Suite \in Ids' /\ (current # 0 => Suite = current)
      /\ \A i \in Ids : /\ i \in Ids'
                        /\ blocks'[i].parent = blocks[i].parent
                        /\ blocks'[i].state = blocks[i].state
                        /\ blocks'[i].ran = blocks[i].ran
                        /\ blocks'[i].verdict = blocks[i].verdict
                        /\ i # Suite => blocks'[i] = blocks[i]
      /\ \A i \in Ids' : i \in Ids \/ (i = Suite /\ blocks'[i].ran = FALSE)
      /\ blocks'[Suite].failed <=> (Suite \in Ids /\ blocks[Suite].failed) \/ outcome = "fail"
      /\ HasFail(blocks'[Suite]) <=> (Suite \in Ids /\ HasFail(blocks[Suite])) \/ outcome = "fail"
  BY ResolveFacts
<1> SUFFICES ASSUME NEW b \in Ids', blocks'[b].ran, blocks'[b].failed, fileVerdict' # "fail"
             PROVE  \E c \in Ids' :
                      /\ Active(c)'
                      /\ HasFail(blocks'[c]) \/ \E i \in Ids' : blocks'[i].parent = c /\ blocks'[i].verdict = "fail"
  BY DEF Blame
<1>2. b \in Ids /\ blocks[b].ran
  BY <1>1
<1>3. stage = "run" /\ current # 0 /\ current \in Ids /\ blocks[current].state = "called" /\ Suite = current
  BY <1>1, <1>2, BlockFacts DEF Tree, Evaluates
<1>4. CASE blocks[b].failed
  <2>1. PICK c \in Ids : /\ Active(c)
                         /\ HasFail(blocks[c]) \/ \E i \in Ids : blocks[i].parent = c /\ blocks[i].verdict = "fail"
    BY <1>2, <1>4 DEF Blame
  <2>2. c \in Ids' /\ Active(c)'
    BY <1>1, <2>1
  <2>3. HasFail(blocks[c]) => HasFail(blocks'[c])
    BY <1>1, <2>1
  <2>. QED  BY <1>1, <2>1, <2>2, <2>3
<1>5. CASE ~blocks[b].failed
  <2>1. b = Suite /\ outcome = "fail"
    BY <1>1, <1>2, <1>5
  <2>2. Active(current)' /\ HasFail(blocks'[Suite])
    BY <1>1, <1>3, <2>1
  <2>3. blocks'[Suite].state \in {"called", "open"}
    BY <1>1, <1>3
  <2>. QED  BY <1>1, <2>2, <2>3
<1>. QED  BY <1>4, <1>5

\* The tests and failures stay; a suite that no longer runs passes its failure on.
LEMMA MovedBlame ==
  ASSUME Blame, Ids' = Ids, fileVerdict = "fail" => fileVerdict' = "fail",
         \A i \in Ids : /\ blocks'[i].parent = blocks[i].parent
                        /\ blocks'[i].tests = blocks[i].tests
                        /\ blocks'[i].failed = blocks[i].failed
                        /\ blocks[i].verdict = "fail" => blocks'[i].verdict = "fail"
                        /\ blocks'[i].ran /\ blocks[i].failed => blocks[i].ran \/ (Active(i)' /\ HasFail(blocks[i])),
         \A c \in Ids :
           Active(c) /\ (HasFail(blocks[c]) \/ \E i \in Ids : blocks[i].parent = c /\ blocks[i].verdict = "fail") =>
             \/ Active(c)'
             \/ fileVerdict' = "fail"
             \/ /\ blocks[c].parent \in Ids /\ Active(blocks[c].parent)'
                /\ blocks'[c].verdict = "fail"
  PROVE  Blame'
<1> SUFFICES ASSUME NEW b \in Ids, blocks'[b].ran, blocks'[b].failed, fileVerdict' # "fail"
             PROVE  \E c \in Ids :
                      /\ Active(c)'
                      /\ HasFail(blocks'[c]) \/ \E i \in Ids : blocks'[i].parent = c /\ blocks'[i].verdict = "fail"
  BY DEF Blame
<1>1. CASE ~blocks[b].ran
  BY <1>1 DEF HasFail
<1>2. CASE blocks[b].ran
  <2>1. PICK c \in Ids : /\ Active(c)
                         /\ HasFail(blocks[c]) \/ \E i \in Ids : blocks[i].parent = c /\ blocks[i].verdict = "fail"
    BY <1>2 DEF Blame
  <2>2. CASE Active(c)'
    BY <2>1, <2>2 DEF HasFail
  <2>3. CASE ~Active(c)'
    BY <2>1, <2>3
  <2>. QED  BY <2>2, <2>3
<1>. QED  BY <1>1, <1>2

LEMMA SuiteBlame ==
  ASSUME TypeOK, Tree, Blame, SkipBlock \/ CallBlock \/ Return \/ CloseBlock
  PROVE  Blame'
<1> USE DEF Active
<1>1. CASE SkipBlock
  <2>1. PICK p \in {0} \cup Ids, b \in Ids :
          /\ Looping(p) /\ NextChild(p, b)
          /\ Close(b, "skip", FALSE)
    BY <1>1 DEF SkipBlock
  <2>2. /\ Ids' = Ids
        /\ \A i \in Ids : /\ blocks'[i].parent = blocks[i].parent
                          /\ blocks'[i].tests = blocks[i].tests
                          /\ blocks'[i].failed = blocks[i].failed
                          /\ i # b => blocks'[i] = blocks[i]
        /\ blocks'[b].ran = FALSE
        /\ fileVerdict' = "fail" <=> fileVerdict = "fail"
    BY <2>1, CloseFacts DEF Verdict
  <2>3. blocks[b].state = "waiting" /\ blocks[b].verdict = "none"
    BY <2>1, ChildFacts
  <2>4. \A i \in Ids : /\ blocks[i].verdict = "fail" => blocks'[i].verdict = "fail"
                       /\ blocks'[i].ran => blocks[i].ran
                       /\ Active(i) => Active(i)'
    BY <2>2, <2>3
  <2>. QED  BY <2>2, <2>4, MovedBlame
<1>2. CASE CallBlock
  <2>1. PICK p \in {0} \cup Ids, b \in Ids :
          /\ NextChild(p, b)
          /\ blocks' = [blocks EXCEPT ![b].state = "called", ![b].ran = TRUE]
    BY <1>2 DEF CallBlock
  <2>2. blocks' = [blocks EXCEPT ![b] = [blocks[b] EXCEPT !.state = "called", !.ran = TRUE]]
    BY <2>1
  <2>3. /\ Ids' = Ids
        /\ \A i \in Ids : /\ blocks'[i].parent = blocks[i].parent
                          /\ blocks'[i].tests = blocks[i].tests
                          /\ blocks'[i].failed = blocks[i].failed
                          /\ blocks'[i].verdict = blocks[i].verdict
                          /\ i # b => blocks'[i] = blocks[i]
        /\ blocks'[b].state = "called"
    BY <2>2, StateFacts
  <2>4. UNCHANGED fileVerdict
    BY <1>2 DEF CallBlock
  <2>5. \A i \in Ids : /\ blocks[i].failed => HasFail(blocks[i])
                       /\ blocks'[i].ran => blocks[i].ran \/ Active(i)'
                       /\ Active(i) => Active(i)'
    BY <2>3 DEF Tree
  <2>. QED  BY <2>3, <2>4, <2>5, MovedBlame
<1>3. CASE Return
  <2>1. /\ blocks' = [blocks EXCEPT ![current].state = "open"] /\ current \in Ids
        /\ UNCHANGED fileVerdict
    BY <1>3, BlockFacts DEF Return
  <2>2. blocks[current] \in Block
    BY <2>1, BlockFacts
  <2>3. /\ blocks' = [blocks EXCEPT ![current] =
                        [blocks[current] EXCEPT !.state = "open", !.ran = blocks[current].ran]]
        /\ blocks[current].ran \in BOOLEAN
    BY <2>1, <2>2 DEF Block
  <2>4. /\ Ids' = Ids
        /\ \A i \in Ids : /\ blocks'[i].parent = blocks[i].parent
                          /\ blocks'[i].tests = blocks[i].tests
                          /\ blocks'[i].failed = blocks[i].failed
                          /\ blocks'[i].verdict = blocks[i].verdict
                          /\ i # current => blocks'[i] = blocks[i]
        /\ blocks'[current].state = "open" /\ blocks'[current].ran = blocks[current].ran
    BY <2>1, <2>3, StateFacts
  <2>5. \A i \in Ids : (blocks'[i].ran => blocks[i].ran) /\ (Active(i) => Active(i)')
    BY <2>4
  <2>. QED  BY <2>1, <2>4, <2>5, MovedBlame
<1>4. CASE CloseBlock
  <2>1. PICK b \in Ids : Looping(b) /\ Close(b, OwnVerdict(b), TRUE)
    BY <1>4 DEF CloseBlock
  <2>2. /\ OwnVerdict(b) \in Verdict
        /\ OwnVerdict(b) = "fail" <=>
             HasFail(blocks[b]) \/ \E i \in Ids : blocks[i].parent = b /\ blocks[i].verdict = "fail"
    BY OwnVerdictFacts
  <2>3. /\ Ids' = Ids
        /\ \A i \in Ids : /\ blocks'[i].parent = blocks[i].parent
                          /\ blocks'[i].tests = blocks[i].tests
                          /\ blocks'[i].failed = blocks[i].failed
                          /\ i # b => blocks'[i] = blocks[i]
        /\ blocks'[b].verdict = OwnVerdict(b)
        /\ fileVerdict' = "fail" <=> fileVerdict = "fail" \/ (blocks[b].parent = 0 /\ OwnVerdict(b) = "fail")
    BY <2>1, <2>2, CloseFacts
  <2>4. blocks[b].state = "open"
    BY <2>1, LoopFacts, BlockFacts
  <2>5. blocks[b].verdict = "none"
    BY <2>4 DEF Tree
  <2>6. blocks[b].failed => OwnVerdict(b) = "fail"
    BY <2>2 DEF Tree
  <2>7. blocks[b].parent # 0 => blocks[b].parent \in Ids /\ blocks[b].parent # b
                                /\ Active(blocks[b].parent)'
    <3>1. blocks[b].parent # 0 => blocks[b].parent \in Ids /\ blocks[b].parent # b
      BY ParentFacts, BlockFacts
    <3>2. blocks[b].parent # 0 => blocks[blocks[b].parent].state = "open"
      BY <2>4 DEF Tree
    <3>. QED  BY <2>3, <3>1, <3>2
  <2>8. blocks[b].ran
    BY <2>4 DEF Tree
  <2>9. \A i \in Ids : /\ blocks[i].verdict = "fail" => blocks'[i].verdict = "fail"
                       /\ blocks'[i].ran => blocks[i].ran
    BY <2>3, <2>5, <2>8
  <2>10. ASSUME NEW c \in Ids, Active(c),
                HasFail(blocks[c]) \/ \E i \in Ids : blocks[i].parent = c /\ blocks[i].verdict = "fail"
         PROVE  \/ Active(c)'
                \/ fileVerdict' = "fail"
                \/ /\ blocks[c].parent \in Ids /\ Active(blocks[c].parent)'
                   /\ blocks'[c].verdict = "fail"
    <3>1. CASE c = b
      <4>1. OwnVerdict(b) = "fail"
        BY <2>2, <2>10, <3>1
      <4>. QED  BY <2>3, <2>7, <3>1, <4>1
    <3>2. CASE c # b
      BY <2>3, <2>10, <3>2
    <3>. QED  BY <3>1, <3>2
  <2>. QED  BY <2>3, <2>9, <2>10, MovedBlame
<1>. QED  BY <1>1, <1>2, <1>3, <1>4

LEMMA BlameStays ==
  ASSUME Blame, UNCHANGED <<blocks, fileVerdict>>
  PROVE  Blame'
BY DEF Blame, Active, Ids

LEMMA BlameStep ==
  ASSUME TypeOK, Tree, Blame, [Next]_vars
  PROVE  Blame'
<1>1. ASSUME NEW kind \in Kinds, Register(kind) PROVE Blame'
  <2>1. kind \in Kind
    BY RuntimeAssumption
  <2>2. /\ \A i \in Ids : i \in DOMAIN blocks' /\ blocks'[i] = blocks[i]
        /\ \A i \in DOMAIN blocks' : i \in Ids \/ i = Len(blocks) + 1
        /\ blocks'[Len(blocks) + 1] = NewBlock(kind)
    BY <1>1, <2>1, OneMore DEF Register
  <2>3. /\ \A i \in Ids : i \in Ids' /\ blocks'[i] = blocks[i]
        /\ \A i \in Ids' : i \in Ids \/ ~blocks'[i].ran
        /\ UNCHANGED fileVerdict
    BY <1>1, <2>2 DEF Ids, NewBlock, Register
  <2>. QED  BY <2>3 DEF Blame, Active
<1>2. ASSUME NEW outcome \in {"ok", "fail", "skip"}, NEW chained \in BOOLEAN, Expect(outcome, chained)
      PROVE  Blame'
  BY <1>2, ResolveBlame DEF Expect, CanExpect, Coding, Evaluates
<1>3. ASSUME NEW value \in Values, NEW skipped \in BOOLEAN, AskSnapshot(value, skipped)
      PROVE  Blame'
  BY <1>3, BlameStays DEF AskSnapshot
<1>4. CASE HearSnapshot
  <2> DEFINE outcome == IF asked.skipped THEN "skip" ELSE IF reply = "1" THEN "ok" ELSE "fail"
  <2>1. /\ Resolve(outcome, FALSE) /\ outcome \in {"ok", "fail", "skip"}
        /\ UNCHANGED <<stage, current, fileVerdict>>
        /\ asked.kind = "snapshot:assert"
    BY <1>4 DEF HearSnapshot
  <2>2. Evaluates /\ (NeedsGlobal => Len(blocks) < MaxBlocks)
    BY <2>1 DEF Tree, Evaluates
  <2> HIDE DEF outcome
  <2>. QED  BY <2>1, <2>2, ResolveBlame
<1>5. CASE SkipBlock \/ CallBlock \/ Return \/ CloseBlock
  BY <1>5, SuiteBlame
<1>6. CASE BeginRun \/ EndFile \/ AskCoverage \/ SendCoverage \/ SendReport
  BY <1>6, BlameStays DEF BeginRun, EndFile, AskCoverage, SendCoverage, SendReport, ReportStep, treeVars
<1>7. CASE Leave \/ Die \/ FailToSpawn
  BY <1>7, BlameStays DEF Leave, Die, FailToSpawn, Stop, treeVars
<1>8. CASE Handle
  BY <1>8, BlameStays DEF Handle, OnEvent, OnCoverageDetail, OnSnapshotAssert, OnReportStart,
         OnReportEnd, OnDataMessage, OnOther, Take, treeVars
<1>9. CASE Evaluate
  BY <1>9, BlameStays DEF Evaluate, StartFailed, BadPayload, Reported, Synthesized, EmptyFile,
         NoReportSent, Settle, runtimeVars, treeVars
<1>10. CASE UNCHANGED vars
  BY <1>10, BlameStays DEF vars, runtimeVars, treeVars
<1>. QED  BY <1>1, <1>2, <1>3, <1>4, <1>5, <1>6, <1>7, <1>8, <1>9, <1>10 DEF Next, RuntimeNext, Work, Code

-------------------------------------------------------------------------------
(* Merged *)

LEMMA OwnVerdictMerges ==
  ASSUME TypeOK, NEW b \in Ids, Judged(blocks[b])
  PROVE  MergedAs(b, OwnVerdict(b))
<1> DEFINE kids == {blocks[i].verdict : i \in Children(b)}
           own == {blocks[b].tests[i] : i \in DOMAIN blocks[b].tests}
<1>1. blocks[b].tests \in Seq(Verdict) /\ DOMAIN blocks[b].tests = 1..Len(blocks[b].tests)
  BY BlockFacts, LenProperties DEF Block
<1>2. OwnVerdict(b) \in {"none", "skip"} => Worst(kids \cup own) \in {"none", "skip"}
  <2>1. OwnVerdict(b) = IF Worst(kids \cup own) = "none" /\ blocks[b].kind \in TestCase
                        THEN "ok" ELSE Worst(kids \cup own)
    BY DEF OwnVerdict
  <2> HIDE DEF kids, own
  <2>. QED  BY <2>1
<1>3. Worst(kids \cup own) \in {"none", "skip"} =>
        (\A v \in kids : v \notin {"fail", "ok"}) /\ \A v \in own : v \notin {"fail", "ok"}
  <2> HIDE DEF kids, own
  <2>. QED  BY DEF Worst
<1>4. ASSUME \A v \in own : v \notin {"fail", "ok"} PROVE AllSkipped(blocks[b])
  <2> SUFFICES ASSUME NEW t \in 1..Len(blocks[b].tests) PROVE blocks[b].tests[t] = "skip"
    BY DEF AllSkipped
  <2>1. blocks[b].tests[t] \in own /\ blocks[b].tests[t] # "none" /\ blocks[b].tests[t] \in Verdict
    BY <1>1, ElementOfSeq DEF Judged
  <2>. QED  BY <1>4, <2>1 DEF Verdict
<1>5. ASSUME \A v \in kids : v \notin {"fail", "ok"}, NEW i \in Ids, blocks[i].parent = b
      PROVE  blocks[i].verdict \in {"none", "skip"}
  <2>1. blocks[i].verdict \in kids /\ blocks[i].verdict \in Verdict
    BY <1>5, BlockFacts DEF Children, Block
  <2>. QED  BY <1>5, <2>1 DEF Verdict
<1>6. OwnVerdict(b) \in {"none", "skip"} =>
        /\ AllSkipped(blocks[b])
        /\ \A i \in Ids : blocks[i].parent = b => blocks[i].verdict \in {"none", "skip"}
  <2> HIDE DEF kids, own
  <2>. QED  BY <1>2, <1>3, <1>4, <1>5
<1>. QED  BY <1>6, OwnVerdictFacts DEF MergedAs

\* A block that is not closed moves on.
LEMMA MovedMerged ==
  ASSUME TypeOK, Merged, Ids' = Ids, global' = global, NEW b \in Ids, blocks[b].state # "closed",
         \A i \in Ids : /\ blocks'[i].parent = blocks[i].parent
                        /\ blocks'[i].tests = blocks[i].tests
                        /\ blocks[i].ran => blocks'[i].ran
                        /\ i # b => blocks'[i] = blocks[i],
         blocks'[b].state = "closed" /\ ~blocks'[b].ran => blocks'[b].verdict = "skip",
         blocks'[b].state = "closed" /\ blocks'[b].ran =>
           /\ \A i \in Ids : blocks[i].parent = b => blocks[i].state = "closed"
           /\ MergedAs(b, blocks'[b].verdict)
  PROVE  Merged'
<1>1. \A i \in Ids : /\ Judged(blocks'[i]) <=> Judged(blocks[i])
                     /\ HasFail(blocks'[i]) <=> HasFail(blocks[i])
                     /\ AllSkipped(blocks'[i]) <=> AllSkipped(blocks[i])
  BY DEF Judged, HasFail, AllSkipped
<1>2. \A i \in Ids : i \in Nat /\ blocks[i].parent # i /\ (blocks[i].parent # 0 => blocks[i].parent \in Ids)
  BY BlockFacts, ParentFacts
<1>3. ASSUME NEW i \in Ids
      PROVE  /\ Judged(blocks'[i])
             /\ blocks'[i].state = "closed" /\ ~blocks'[i].ran => blocks'[i].verdict = "skip"
             /\ blocks'[i].parent # 0 => /\ blocks'[blocks'[i].parent].ran
                                         /\ blocks'[i].ran \/ blocks'[i].tests = <<>>
  BY <1>1, <1>2 DEF Merged
<1>4. ASSUME NEW c \in Ids, blocks'[c].state = "closed", blocks'[c].ran
      PROVE  /\ \A i \in Ids : blocks'[i].parent = c => blocks'[i].state = "closed"
             /\ MergedAs(c, blocks[c].verdict)'
  <2>1. CASE c = b
    <3>1. \A i \in Ids : blocks[i].parent = b => blocks'[i] = blocks[i]
      BY <1>2
    <3>2. MergedAs(b, blocks'[b].verdict)
      BY <1>4, <2>1
    <3>3. \A i \in Ids : blocks'[i].parent = c => blocks'[i].state = "closed"
      BY <1>4, <2>1, <3>1
    <3>4. MergedAs(c, blocks[c].verdict)'
      BY <1>1, <2>1, <3>1, <3>2 DEF MergedAs
    <3>. QED  BY <3>3, <3>4
  <2>2. CASE c # b
    <3>1. blocks'[c] = blocks[c]
      BY <2>2
    <3>2. (\A i \in Ids : blocks[i].parent = c => blocks[i].state = "closed") /\ MergedAs(c, blocks[c].verdict)
      BY <1>4, <3>1 DEF Merged
    <3>3. \A i \in Ids : blocks[i].parent = c => blocks'[i] = blocks[i]
      BY <3>2
    <3>4. \A i \in Ids : blocks'[i].parent = c => blocks'[i].state = "closed"
      BY <3>2, <3>3
    <3>5. MergedAs(c, blocks[c].verdict)'
      BY <1>1, <3>1, <3>2, <3>3 DEF MergedAs
    <3>. QED  BY <3>4, <3>5
  <2>. QED  BY <2>1, <2>2
<1>5. global' # 0 => blocks'[global'].parent = 0
  <2>1. global # 0 => global \in Ids
    BY BlockFacts
  <2>. QED  BY <2>1 DEF Merged
<1>. QED  BY <1>3, <1>4, <1>5 DEF Merged

\* Blocks are added below what runs, and matchers evaluated in what runs, or at the top level.
LEMMA GrownMerged ==
  ASSUME TypeOK, Tree, Merged, NEW b \in Ids',
         \A i \in Ids : /\ i \in Ids'
                        /\ blocks'[i].parent = blocks[i].parent
                        /\ blocks'[i].state = blocks[i].state
                        /\ blocks'[i].ran = blocks[i].ran
                        /\ blocks'[i].verdict = blocks[i].verdict
                        /\ i # b => blocks'[i] = blocks[i],
         \A i \in Ids' : i \in Ids \/
                        /\ i = b /\ blocks'[i].state = "waiting"
                        /\ blocks'[i].parent # 0 => blocks'[i].parent \in Ids /\ Active(blocks'[i].parent),
         b \in Ids => blocks[b].state # "closed",
         blocks'[b].parent = 0 \/ blocks'[b].ran \/ blocks'[b].tests = <<>>,
         Judged(blocks'[b]),
         global' # 0 => global' \in Ids' /\ (global' = global \/ blocks'[global'].parent = 0)
  PROVE  Merged'
<1> USE DEF Active
<1>1. \A i \in Ids : blocks[i].parent # 0 => blocks[i].parent \in Ids
  BY ParentFacts
<1>2. ASSUME NEW i \in Ids'
      PROVE  /\ Judged(blocks'[i])
             /\ blocks'[i].state = "closed" /\ ~blocks'[i].ran => blocks'[i].verdict = "skip"
             /\ blocks'[i].parent # 0 => /\ blocks'[blocks'[i].parent].ran
                                         /\ blocks'[i].ran \/ blocks'[i].tests = <<>>
  <2>1. CASE i \in Ids
    <3>1. i # b => blocks'[i] = blocks[i]
      BY <2>1
    <3>2. /\ Judged(blocks[i])
          /\ blocks[i].state = "closed" /\ ~blocks[i].ran => blocks[i].verdict = "skip"
          /\ blocks[i].parent # 0 => /\ blocks[blocks[i].parent].ran
                                     /\ blocks[i].ran \/ blocks[i].tests = <<>>
      BY <2>1 DEF Merged
    <3>. QED  BY <1>1, <2>1, <3>1, <3>2
  <2>2. CASE i \notin Ids
    <3>1. /\ i = b /\ blocks'[i].state = "waiting"
          /\ blocks'[i].parent # 0 => blocks'[i].parent \in Ids /\ Active(blocks'[i].parent)
      BY <2>2
    <3>2. \A p \in Ids : Active(p) => blocks[p].ran
      BY DEF Tree
    <3>3. blocks'[i].parent # 0 => blocks'[blocks'[i].parent].ran
      BY <3>1, <3>2
    <3>. QED  BY <3>1, <3>3
  <2>. QED  BY <2>1, <2>2
<1>3. ASSUME NEW c \in Ids', blocks'[c].state = "closed", blocks'[c].ran
      PROVE  /\ \A i \in Ids' : blocks'[i].parent = c => blocks'[i].state = "closed"
             /\ MergedAs(c, blocks[c].verdict)'
  <2>1. c \in Ids /\ c # b /\ blocks'[c] = blocks[c]
    BY <1>3
  <2>2. (\A i \in Ids : blocks[i].parent = c => blocks[i].state = "closed") /\ MergedAs(c, blocks[c].verdict)
    BY <1>3, <2>1 DEF Merged
  <2>3. ASSUME NEW i \in Ids', blocks'[i].parent = c
        PROVE  i \in Ids /\ blocks'[i] = blocks[i]
    <3>1. i \in Ids
      <4>1. c # 0
        BY <2>1, BlockFacts
      <4>. QED  BY <1>3, <2>1, <2>3, <4>1
    <3>2. i # b
      BY <2>2, <2>3, <3>1
    <3>. QED  BY <3>1, <3>2
  <2>4. ASSUME NEW i \in Ids, blocks[i].parent = c
        PROVE  i \in Ids' /\ blocks'[i] = blocks[i]
    BY <2>2, <2>4
  <2>5. \A i \in Ids' : blocks'[i].parent = c => blocks'[i].state = "closed"
    BY <2>2, <2>3
  <2>6. MergedAs(c, blocks[c].verdict)'
    BY <2>1, <2>2, <2>3, <2>4 DEF MergedAs
  <2>. QED  BY <2>5, <2>6
<1>4. global' # 0 => blocks'[global'].parent = 0
  <2>1. global # 0 => global \in Ids /\ blocks[global].parent = 0
    BY BlockFacts DEF Merged
  <2>. QED  BY <2>1
<1>. QED  BY <1>2, <1>3, <1>4 DEF Merged

LEMMA ResolveMerged ==
  ASSUME TypeOK, Tree, Merged, Evaluates, NeedsGlobal => Len(blocks) < MaxBlocks,
         NEW outcome \in {"ok", "fail", "skip"}, NEW chained \in BOOLEAN, Resolve(outcome, chained)
  PROVE  Merged'
<1>1. /\ Suite \in Ids' /\ (current # 0 => Suite = current)
      /\ \A i \in Ids : /\ i \in Ids'
                        /\ blocks'[i].parent = blocks[i].parent
                        /\ blocks'[i].state = blocks[i].state
                        /\ blocks'[i].ran = blocks[i].ran
                        /\ blocks'[i].verdict = blocks[i].verdict
                        /\ i # Suite => blocks'[i] = blocks[i]
      /\ \A i \in Ids' : i \in Ids \/ (i = Suite /\ blocks'[i].parent = 0 /\ blocks'[i].state = "waiting")
      /\ (Suite \in Ids => Judged(blocks[Suite])) => Judged(blocks'[Suite])
  BY ResolveFacts
<1>2. current # 0 => current \in Ids /\ blocks[current].state = "called" /\ blocks[current].ran
  BY BlockFacts DEF Tree, Evaluates, Active
<1>3. current = 0 => stage = "load" /\ (Suite \in Ids => blocks[Suite].parent = 0 /\ blocks[Suite].state = "waiting")
  <2>1. current = 0 => stage = "load"
    BY DEF Evaluates
  <2>2. current = 0 /\ Suite \in Ids => Suite = global /\ global # 0
    BY BlockFacts DEF Suite
  <2>. QED  BY <2>1, <2>2 DEF Tree, Merged
<1>4. Judged(blocks'[Suite])
  BY <1>1 DEF Merged
<1>5. Suite \in Ids => blocks[Suite].state # "closed"
  BY <1>1, <1>2, <1>3
<1>6. blocks'[Suite].parent = 0 \/ blocks'[Suite].ran
  BY <1>1, <1>2, <1>3
<1>7. global' # 0 => global' \in Ids' /\ (global' = global \/ blocks'[global'].parent = 0)
  <2>1. global' = IF current = 0 THEN Suite ELSE global
    BY DEF Resolve
  <2>2. global # 0 => global \in Ids
    BY BlockFacts
  <2>. QED  BY <1>1, <1>3, <2>1, <2>2
<1> DEFINE s == Suite
<1>8. s \in Ids' /\ s = Suite
  BY <1>1
<1> HIDE DEF s
<1>. QED  BY <1>1, <1>4, <1>5, <1>6, <1>7, <1>8, GrownMerged

LEMMA SuiteMerged ==
  ASSUME TypeOK, Tree, Merged, SkipBlock \/ CallBlock \/ Return \/ CloseBlock
  PROVE  Merged'
<1>1. CASE SkipBlock
  <2>1. PICK p \in {0} \cup Ids, b \in Ids :
          /\ Looping(p) /\ NextChild(p, b)
          /\ Close(b, "skip", FALSE)
    BY <1>1 DEF SkipBlock
  <2>2. /\ Ids' = Ids
        /\ \A i \in Ids : /\ blocks'[i].parent = blocks[i].parent
                          /\ blocks'[i].tests = blocks[i].tests
                          /\ i # b => blocks'[i] = blocks[i]
        /\ blocks'[b].verdict = "skip" /\ blocks'[b].ran = FALSE
        /\ UNCHANGED global
    BY <2>1, CloseFacts DEF Verdict
  <2>3. blocks[b].state = "waiting"
    BY <2>1, ChildFacts
  <2>4. \A i \in Ids : blocks[i].ran => blocks'[i].ran
    BY <2>2, <2>3 DEF Tree
  <2>. QED  BY <2>2, <2>3, <2>4, MovedMerged
<1>2. CASE CallBlock
  <2>1. PICK p \in {0} \cup Ids, b \in Ids :
          /\ NextChild(p, b)
          /\ blocks' = [blocks EXCEPT ![b].state = "called", ![b].ran = TRUE]
    BY <1>2 DEF CallBlock
  <2>2. blocks' = [blocks EXCEPT ![b] = [blocks[b] EXCEPT !.state = "called", !.ran = TRUE]]
    BY <2>1
  <2>3. /\ Ids' = Ids
        /\ \A i \in Ids : /\ blocks'[i].parent = blocks[i].parent
                          /\ blocks'[i].tests = blocks[i].tests
                          /\ i # b => blocks'[i] = blocks[i]
        /\ blocks'[b].state = "called" /\ blocks'[b].ran = TRUE
    BY <2>2, StateFacts, ZenonT(60)
  <2>4. blocks[b].state = "waiting" /\ UNCHANGED global
    BY <1>2, <2>1, ChildFacts DEF CallBlock
  <2>. QED  BY <2>3, <2>4, MovedMerged
<1>3. CASE Return
  <2>1. /\ blocks' = [blocks EXCEPT ![current].state = "open"] /\ current \in Ids
        /\ blocks[current].state = "called" /\ UNCHANGED global
    BY <1>3, BlockFacts DEF Return
  <2>2. blocks[current] \in Block
    BY <2>1, BlockFacts
  <2>3. /\ blocks' = [blocks EXCEPT ![current] =
                        [blocks[current] EXCEPT !.state = "open", !.ran = blocks[current].ran]]
        /\ blocks[current].ran \in BOOLEAN
    BY <2>1, <2>2 DEF Block
  <2>4. /\ Ids' = Ids
        /\ \A i \in Ids : /\ blocks'[i].parent = blocks[i].parent
                          /\ blocks'[i].tests = blocks[i].tests
                          /\ i # current => blocks'[i] = blocks[i]
        /\ blocks'[current].state = "open" /\ blocks'[current].ran = blocks[current].ran
    BY <2>1, <2>3, StateFacts
  <2>. QED  BY <2>1, <2>4, MovedMerged
<1>4. CASE CloseBlock
  <2>1. PICK b \in Ids : Looping(b) /\ Waiting(b) = {} /\ Close(b, OwnVerdict(b), TRUE)
    BY <1>4 DEF CloseBlock
  <2>2. OwnVerdict(b) \in Verdict /\ MergedAs(b, OwnVerdict(b))
    BY OwnVerdictFacts, OwnVerdictMerges DEF Merged
  <2>3. /\ Ids' = Ids
        /\ \A i \in Ids : /\ blocks'[i].parent = blocks[i].parent
                          /\ blocks'[i].tests = blocks[i].tests
                          /\ i # b => blocks'[i] = blocks[i]
        /\ blocks'[b].verdict = OwnVerdict(b) /\ blocks'[b].ran = TRUE
        /\ UNCHANGED global
    BY <2>1, <2>2, CloseFacts
  <2>4. blocks[b].state = "open" /\ \A i \in Ids : Active(i) => i <= b
    BY <2>1, LoopFacts, BlockFacts
  <2>5. ASSUME NEW i \in Ids, blocks[i].parent = b PROVE blocks[i].state = "closed"
    <3>1. blocks[i].state # "waiting"
      BY <2>1, <2>5 DEF Waiting, Children
    <3>2. b < i /\ b \in Nat /\ i \in Nat
      BY <2>5, BlockFacts
    <3>3. ~Active(i)
      BY <2>4, <3>2
    <3>. QED  BY <3>1, <3>3, BlockFacts DEF Block, Active
  <2>. QED  BY <2>2, <2>3, <2>4, <2>5, MovedMerged
<1>. QED  BY <1>1, <1>2, <1>3, <1>4

LEMMA MergedStays ==
  ASSUME Merged, UNCHANGED <<blocks, global>>
  PROVE  Merged'
BY DEF Merged, MergedAs, Ids

LEMMA MergedStep ==
  ASSUME TypeOK, Tree, Merged, [Next]_vars
  PROVE  Merged'
<1>1. ASSUME NEW kind \in Kinds, Register(kind) PROVE Merged'
  <2>1. kind \in Kind
    BY RuntimeAssumption
  <2> DEFINE b == Len(blocks) + 1
  <2>2. /\ \A i \in Ids : i \in DOMAIN blocks' /\ blocks'[i] = blocks[i]
        /\ \A i \in DOMAIN blocks' : i \in Ids \/ i = b
        /\ b \in DOMAIN blocks' /\ b \notin Ids
        /\ blocks'[b] = NewBlock(kind)
    BY <1>1, <2>1, OneMore, BlockFacts DEF Register
  <2>3. current # 0 => current \in Ids /\ Active(current)
    BY <1>1, BlockFacts DEF Register, Coding, Tree, Active
  <2>4. /\ \A i \in Ids : i \in Ids' /\ blocks'[i] = blocks[i]
        /\ \A i \in Ids' : i \in Ids \/ i = b
        /\ b \in Ids' /\ b \notin Ids
        /\ blocks'[b].state = "waiting" /\ blocks'[b].parent = current /\ blocks'[b].tests = <<>>
        /\ UNCHANGED global
    BY <1>1, <2>2 DEF Ids, NewBlock, Register
  <2>5. Judged(blocks'[b])
    BY <2>4 DEF Judged
  <2>6. global # 0 => global \in Ids
    BY BlockFacts
  <2> HIDE DEF b
  <2>. QED  BY <2>3, <2>4, <2>5, <2>6, GrownMerged
<1>2. ASSUME NEW outcome \in {"ok", "fail", "skip"}, NEW chained \in BOOLEAN, Expect(outcome, chained)
      PROVE  Merged'
  BY <1>2, ResolveMerged DEF Expect, CanExpect, Coding, Evaluates
<1>3. ASSUME NEW value \in Values, NEW skipped \in BOOLEAN, AskSnapshot(value, skipped)
      PROVE  Merged'
  BY <1>3, MergedStays DEF AskSnapshot
<1>4. CASE HearSnapshot
  <2> DEFINE outcome == IF asked.skipped THEN "skip" ELSE IF reply = "1" THEN "ok" ELSE "fail"
  <2>1. Resolve(outcome, FALSE) /\ outcome \in {"ok", "fail", "skip"} /\ asked.kind = "snapshot:assert"
    BY <1>4 DEF HearSnapshot
  <2>2. Evaluates /\ (NeedsGlobal => Len(blocks) < MaxBlocks)
    BY <2>1 DEF Tree, Evaluates
  <2> HIDE DEF outcome
  <2>. QED  BY <2>1, <2>2, ResolveMerged
<1>5. CASE SkipBlock \/ CallBlock \/ Return \/ CloseBlock
  BY <1>5, SuiteMerged
<1>6. CASE BeginRun \/ EndFile \/ AskCoverage \/ SendCoverage \/ SendReport
  BY <1>6, MergedStays DEF BeginRun, EndFile, AskCoverage, SendCoverage, SendReport, ReportStep, treeVars
<1>7. CASE Leave \/ Die \/ FailToSpawn
  BY <1>7, MergedStays DEF Leave, Die, FailToSpawn, Stop, treeVars
<1>8. CASE Handle
  BY <1>8, MergedStays DEF Handle, OnEvent, OnCoverageDetail, OnSnapshotAssert, OnReportStart,
         OnReportEnd, OnDataMessage, OnOther, Take, treeVars
<1>9. CASE Evaluate
  BY <1>9, MergedStays DEF Evaluate, StartFailed, BadPayload, Reported, Synthesized, EmptyFile,
         NoReportSent, Settle, runtimeVars, treeVars
<1>10. CASE UNCHANGED vars
  BY <1>10, MergedStays DEF vars, runtimeVars, treeVars
<1>. QED  BY <1>1, <1>2, <1>3, <1>4, <1>5, <1>6, <1>7, <1>8, <1>9, <1>10 DEF Next, RuntimeNext, Work, Code

-------------------------------------------------------------------------------
(* What is nested in a block.  The library's induction theorems are about an  *)
(* operator; here each induction takes the last block of a set instead, which *)
(* well-foundedness of the subsets of a finite set provides.                  *)

\* A set of registered blocks has a last one.
LEMMA LastOne ==
  ASSUME NEW n \in Nat, NEW T \in SUBSET (1..n), T # {}
  PROVE  \E x \in T : \A y \in T : y <= x
<1> DEFINE Above(x) == {i \in 1..n : i > x}
           R == StrictSubsetOrdering(1..n)
           A == {Above(x) : x \in T}
<1>1. IsFiniteSet(1..n)
  BY FS_Interval
<1>2. IsWellFoundedOn(R, SUBSET (1..n))
  BY <1>1, FS_StrictSubsetOrderingWellFounded, FS_FiniteSubsetsOfFinite
<1>3. A \subseteq SUBSET (1..n) /\ A # {}
  OBVIOUS
<1>4. PICK a \in A : \A c \in A : ~(<<c, a>> \in R)
  <2> HIDE DEF A, R
  <2>. QED  BY <1>2, <1>3, WFMin
<1>5. PICK x \in T : a = Above(x)
  OBVIOUS
<1>6. ASSUME NEW y \in T, y > x PROVE FALSE
  <2>1. Above(y) \subseteq Above(x) /\ y \in Above(x) /\ y \notin Above(y)
    BY <1>6
  <2>2. Above(y) \in A /\ Above(y) \subseteq 1..n /\ Above(x) \subseteq 1..n
    OBVIOUS
  <2>3. <<Above(y), Above(x)>> \in R
    <3> HIDE DEF Above
    <3>. QED  BY <2>1, <2>2 DEF StrictSubsetOrdering
  <2>. QED  BY <1>4, <1>5, <2>2, <2>3
<1>. QED  BY <1>6
\* F[b] are the blocks nested in b, b among them.
Nested(F) == F = [b \in Ids |-> {b} \cup UNION {F[i] : i \in {j \in Ids : j > b /\ blocks[j].parent = b}}]

\* The definition of Under has a solution if any function solves it.
LEMMA UnderEquation ==
  ASSUME NEW F, Nested(F)
  PROVE  Nested(Under)
BY Zenon DEF Under, Nested

\* With a block, what is nested in it.
Family(S) == \A i \in S : \A j \in Ids : blocks[j].parent = i => j \in S

\* There is such a function: the least family around each block.
LEMMA NestedExists ==
  ASSUME \A j \in Ids : j > blocks[j].parent
  PROVE  Nested([b \in Ids |-> {i \in Ids : \A S \in SUBSET Ids : b \in S /\ Family(S) => i \in S}])
<1> DEFINE F == [b \in Ids |-> {i \in Ids : \A S \in SUBSET Ids : b \in S /\ Family(S) => i \in S}]
           Kids(b) == {j \in Ids : j > b /\ blocks[j].parent = b}
           G(b) == {b} \cup UNION {F[i] : i \in Kids(b)}
<1>1. ASSUME NEW b \in Ids PROVE b \in F[b] /\ F[b] \subseteq Ids /\ Family(F[b])
  <2>1. b \in F[b] /\ F[b] \subseteq Ids
    OBVIOUS
  <2>2. ASSUME NEW i \in F[b], NEW j \in Ids, blocks[j].parent = i PROVE j \in F[b]
    <3>1. ASSUME NEW S \in SUBSET Ids, b \in S, Family(S) PROVE j \in S
      BY <2>2, <3>1 DEF Family
    <3>. QED  BY <3>1
  <2>. QED  BY <2>1, <2>2 DEF Family
<1>2. ASSUME NEW b \in Ids, NEW S \in SUBSET Ids, b \in S, Family(S) PROVE F[b] \subseteq S
  BY <1>2
<1>3. ASSUME NEW b \in Ids PROVE F[b] = G(b)
  <2>1. \A k \in Kids(b) : k \in Ids /\ k \in F[b]
    BY <1>1, <1>3 DEF Family
  <2>2. \A k \in Kids(b) : F[k] \subseteq F[b]
    <3> HIDE DEF F, Kids
    <3>. QED  BY <1>1, <1>2, <1>3, <2>1
  <2>3. \A j \in Ids : blocks[j].parent = b => j \in Kids(b)
    OBVIOUS
  <2>4. G(b) \subseteq F[b]
    <3> HIDE DEF F, Kids
    <3>. QED  BY <1>1, <1>3, <2>2
  <2>5. G(b) \in SUBSET Ids /\ b \in G(b)
    <3>1. b \in G(b)
      OBVIOUS
    <3> HIDE DEF F, G
    <3>. QED  BY <1>1, <1>3, <2>4, <3>1
  <2>6. ASSUME NEW i \in G(b), NEW j \in Ids, blocks[j].parent = i PROVE j \in G(b)
    <3>1. CASE i = b
      <4>1. j \in Kids(b) /\ j \in F[j]
        BY <1>1, <2>3, <2>6, <3>1
      <4> HIDE DEF F, Kids
      <4>. QED  BY <4>1
    <3>2. CASE i # b
      <4> HIDE DEF F, Kids
      <4>1. PICK k \in Kids(b) : i \in F[k]
        BY <3>2
      <4>2. j \in F[k]
        BY <1>1, <2>1, <2>6, <4>1 DEF Family
      <4>. QED  BY <4>1, <4>2
    <3>. QED  BY <3>1, <3>2
  <2>7. F[b] \subseteq G(b)
    <3>1. Family(G(b))
      <4> HIDE DEF G
      <4>. QED  BY <2>6 DEF Family
    <3> HIDE DEF F, G
    <3>. QED  BY <1>2, <1>3, <2>5, <3>1
  <2>. QED  BY <2>4, <2>7
<1>4. F = [b \in Ids |-> F[b]]
  OBVIOUS
<1>5. F = [b \in Ids |-> G(b)]
  <2> HIDE DEF F, G
  <2>. QED  BY <1>3, <1>4
<1>. QED  BY <1>5, Zenon DEF Nested

\* Under is the least family.
LEMMA UnderFacts ==
  ASSUME \A j \in Ids : j > blocks[j].parent, NEW n \in Nat, Ids = 1..n, NEW b \in Ids
  PROVE  /\ b \in Under[b]
         /\ \A S \in SUBSET Ids : b \in S /\ Family(S) => Under[b] \subseteq S
         /\ Under[b] \subseteq Ids /\ Family(Under[b])
<1> DEFINE Kids(a) == {j \in Ids : j > a /\ blocks[j].parent = a}
<1>1. Nested(Under)
  BY NestedExists, UnderEquation
<1>2. \A a \in Ids : Under[a] = {a} \cup UNION {Under[i] : i \in Kids(a)}
  <2>1. Under = [a \in Ids |-> {a} \cup UNION {Under[i] : i \in Kids(a)}]
    BY <1>1, Zenon DEF Nested
  <2> DEFINE U == Under
  <2> HIDE DEF Kids, U
  <2>2. U = [a \in Ids |-> {a} \cup UNION {U[i] : i \in Kids(a)}]
    BY <2>1 DEF U
  <2>3. \A a \in Ids : U[a] = {a} \cup UNION {U[i] : i \in Kids(a)}
    BY <2>2
  <2>. QED  BY <2>3 DEF U
<1>3. ASSUME NEW S \in SUBSET Ids, Family(S) PROVE \A a \in S : Under[a] \subseteq S
  <2> DEFINE T == {a \in S : ~(Under[a] \subseteq S)}
  <2> SUFFICES ASSUME T # {} PROVE FALSE
    OBVIOUS
  <2>1. PICK a \in T : \A c \in T : c <= a
    BY LastOne
  <2>2. \A k \in Kids(a) : k \in S /\ k \in Ids /\ k > a
    BY <1>3, <2>1 DEF Family
  <2>3. \A k \in Kids(a) : Under[k] \subseteq S
    <3> SUFFICES ASSUME NEW k \in Kids(a), ~(Under[k] \subseteq S) PROVE FALSE
      OBVIOUS
    <3>1. k \in T /\ k > a /\ k \in Nat /\ a \in Nat
      BY <2>1, <2>2
    <3>. QED  BY <2>1, <3>1
  <2>4. Under[a] = {a} \cup UNION {Under[i] : i \in Kids(a)}
    BY <1>2, <2>1
  <2> HIDE DEF Kids
  <2>. QED  BY <2>1, <2>3, <2>4
<1>4. Family(Ids) /\ Ids \in SUBSET Ids
  BY DEF Family
<1>5. \A a \in Ids : Family(Under[a])
  <2> DEFINE T == {a \in Ids : ~Family(Under[a])}
  <2> SUFFICES ASSUME T # {} PROVE FALSE
    OBVIOUS
  <2>1. PICK a \in T : \A c \in T : c <= a
    BY LastOne
  <2>2. \A k \in Kids(a) : k \in Ids /\ Family(Under[k]) /\ k \in Under[k]
    <3> SUFFICES ASSUME NEW k \in Kids(a) PROVE k \in Ids /\ Family(Under[k]) /\ k \in Under[k]
      OBVIOUS
    <3>1. k > a /\ k \in Nat /\ a \in Nat /\ k \in Ids
      BY <2>1
    <3>2. k \notin T
      BY <2>1, <3>1
    <3>3. k \in Under[k]
      BY <1>2, <3>1
    <3>. QED  BY <3>1, <3>2, <3>3
  <2>3. Under[a] = {a} \cup UNION {Under[i] : i \in Kids(a)}
    BY <1>2, <2>1
  <2>4. ASSUME NEW i \in Under[a], NEW j \in Ids, blocks[j].parent = i PROVE j \in Under[a]
    <3>1. CASE i = a
      <4>1. j \in Kids(a)
        BY <2>4, <3>1
      <4> HIDE DEF Kids
      <4>. QED  BY <2>2, <2>3, <4>1
    <3>2. CASE i # a
      <4> HIDE DEF Kids
      <4>1. PICK k \in Kids(a) : i \in Under[k]
        BY <2>3, <3>2
      <4>2. j \in Under[k]
        BY <2>2, <2>4, <4>1 DEF Family
      <4>. QED  BY <2>3, <4>1, <4>2
    <3>. QED  BY <3>1, <3>2
  <2>5. Family(Under[a])
    BY <2>4 DEF Family
  <2>. QED  BY <2>1, <2>5
<1>6. b \in Under[b]
  BY <1>2
<1>. QED  BY <1>3, <1>4, <1>5, <1>6

\* What one closing after the other has merged is true of all that is nested below.
LEMMA Truthful ==
  ASSUME TypeOK, Tree, Merged
  PROVE  VerdictTruthful
<1> SUFFICES ASSUME NEW b \in Ids, blocks[b].state = "closed", blocks[b].ran
             PROVE  /\ blocks[b].verdict = "fail" <=> \E i \in Under[b] : blocks[i].ran /\ blocks[i].failed
                    /\ blocks[b].verdict = "skip" =>
                         \A i \in Under[b] : \A t \in DOMAIN blocks[i].tests : blocks[i].tests[t] = "skip"
  BY DEF VerdictTruthful
<1>1. /\ Ids = 1..Len(blocks) /\ Len(blocks) \in Nat
      /\ \A j \in Ids : j > blocks[j].parent /\ j # 0 /\ j \in Nat /\ blocks[j].parent \in Nat
  BY BlockFacts, ParentFacts
<1>2. /\ b \in Under[b] /\ Under[b] \subseteq Ids /\ Family(Under[b])
      /\ \A S \in SUBSET Ids : b \in S /\ Family(S) => Under[b] \subseteq S
  BY <1>1, UnderFacts
<1> DEFINE U == Under[b]
<1>3. /\ b \in U /\ U \subseteq Ids /\ Family(U)
      /\ \A S \in SUBSET Ids : b \in S /\ Family(S) => U \subseteq S
  BY <1>2
<1> HIDE DEF U
\* A child of a closed block has a parent that ran, and is closed.
<1>4. ASSUME NEW i \in Ids, blocks[i].state = "closed", NEW j \in Ids, blocks[j].parent = i
      PROVE  /\ blocks[i].ran /\ blocks[j].state = "closed" /\ MergedAs(i, blocks[i].verdict)
             /\ blocks[j].ran \/ blocks[j].tests = <<>>
  <2>1. blocks[j].parent # 0
    BY <1>1, <1>4
  <2>. QED  BY <1>4, <2>1 DEF Merged
<1>5. ASSUME blocks[b].verdict = "fail" PROVE \E i \in U : blocks[i].ran /\ blocks[i].failed
  <2> DEFINE T == {i \in U : blocks[i].verdict = "fail"}
  <2>1. T \in SUBSET (1..Len(blocks)) /\ T # {}
    BY <1>1, <1>3, <1>5
  <2>2. PICK x \in T : \A y \in T : y <= x
    BY <1>1, <2>1, LastOne
  <2>3. x \in Ids /\ x \in U /\ blocks[x].state = "closed" /\ blocks[x].ran
    BY <1>3, <2>2 DEF Tree, Merged
  <2>4. HasFail(blocks[x]) \/ \E i \in Ids : blocks[i].parent = x /\ blocks[i].verdict = "fail"
    BY <2>2, <2>3 DEF Merged, MergedAs
  <2>5. ASSUME NEW i \in Ids, blocks[i].parent = x, blocks[i].verdict = "fail" PROVE FALSE
    <3>1. i \in U
      BY <1>3, <2>3, <2>5 DEF Family
    <3>2. i \in T /\ i > x /\ i \in Nat /\ x \in Nat
      BY <1>1, <2>3, <2>5, <3>1
    <3>. QED  BY <2>2, <3>2
  <2>6. blocks[x].failed
    BY <2>3, <2>4, <2>5 DEF Tree
  <2>. QED  BY <2>3, <2>6
<1>6. ASSUME blocks[b].verdict # "fail", NEW i \in U, blocks[i].ran, blocks[i].failed PROVE FALSE
  <2> DEFINE S == {k \in Ids : blocks[k].state = "closed" /\ blocks[k].verdict # "fail"}
  <2>1. Family(S)
    BY <1>4 DEF Family, MergedAs
  <2>2. b \in S /\ S \in SUBSET Ids
    BY <1>6
  <2>3. i \in S
    BY <1>3, <2>1, <2>2
  <2>4. HasFail(blocks[i])
    BY <1>6, <2>3 DEF Tree
  <2>. QED  BY <1>6, <2>3, <2>4 DEF Merged, MergedAs
<1>7. ASSUME blocks[b].verdict = "skip", NEW i \in U PROVE \A t \in DOMAIN blocks[i].tests : blocks[i].tests[t] = "skip"
  <2> DEFINE S == {k \in Ids : /\ blocks[k].state = "closed" /\ blocks[k].verdict \in {"none", "skip"}
                               /\ blocks[k].ran \/ blocks[k].tests = <<>>}
  <2>1. Family(S)
    BY <1>4 DEF Family, MergedAs
  <2>2. b \in S /\ S \in SUBSET Ids
    BY <1>7
  <2>3. i \in S
    BY <1>3, <2>1, <2>2
  <2>4. DOMAIN blocks[i].tests = 1..Len(blocks[i].tests)
    BY <2>3, BlockFacts, LenProperties DEF Block
  <2>5. CASE blocks[i].ran
    BY <2>3, <2>4, <2>5 DEF Merged, MergedAs, AllSkipped
  <2>6. CASE blocks[i].tests = <<>>
    BY <2>6
  <2>. QED  BY <2>3, <2>5, <2>6
<1>. QED  BY <1>5, <1>6, <1>7 DEF U

-------------------------------------------------------------------------------
(* EventFrames *)

Has(frames, k) == \E i \in 1..Len(frames) : frames[i].kind = k

\* What the runtime does, it sends.
LEMMA SentEvents ==
  ASSUME EventFrames, wire \in Seq(FrameRecord), UNCHANGED events,
         NEW frames \in Seq(FrameRecord), Send(frames),
         stage' # "load" <=> stage # "load" \/ Has(frames, "file-start"),
         Has(frames, "suite-start") \/ Has(frames, "suite-end") => stage' # "load",
         Past' <=> Past \/ Has(frames, "file-end"),
         Past => UNCHANGED fileVerdict,
         \A i \in 1..Len(frames) : frames[i].kind = "file-end" => frames[i].verdict = fileVerdict',
         Failed' <=> Failed \/ Has(frames, "assert-fail")
  PROVE  EventFrames'
<1>1. \A k : InWire(k)' <=> InWire(k) \/ Has(frames, k)
  BY SendAdds DEF Has
<1>2. ASSUME NEW i \in 1..Len(wire'), wire'[i].kind = "file-end"
      PROVE  wire'[i].verdict = fileVerdict'
  <2>1. CASE i \in 1..Len(wire)
    <3>1. wire'[i] = wire[i]
      BY <2>1, SendAppends
    <3>2. InWire("file-end")
      BY <1>2, <2>1, <3>1 DEF InWire
    <3>. QED  BY <1>2, <2>1, <3>1, <3>2 DEF EventFrames
  <2>2. CASE (i - Len(wire)) \in 1..Len(frames)
    <3>1. Len(wire) + (i - Len(wire)) = i
      BY SendAppends
    <3>2. wire'[i] = frames[i - Len(wire)]
      BY <2>2, <3>1, SendAppends
    <3>. QED  BY <1>2, <2>2, <3>2
  <2>. QED  BY <2>1, <2>2, SendAppends
<1>3. /\ stage' # "load" => events'.fileStart \/ InWire("file-start")'
      /\ events'.suites \/ InWire("suite-start")' \/ InWire("suite-end")' => stage' # "load"
      /\ Past' <=> events'.fileEnd \/ InWire("file-end")'
      /\ Failed' <=> events'.fails \/ InWire("assert-fail")'
  BY <1>1 DEF EventFrames
<1>4. events'.fileEnd => events'.verdict = fileVerdict'
  BY DEF EventFrames
<1>. QED  BY <1>2, <1>3, <1>4 DEF EventFrames

\* One or two frames that are no events of the file.
LEMMA HasFacts ==
  /\ \A k : ~Has(<<>>, k)
  /\ \A f, k : Has(<<f>>, k) <=> f.kind = k
  /\ \A f, g, k : Has(<<f, g>>, k) <=> f.kind = k \/ g.kind = k
<1>1. ASSUME NEW f, NEW g, NEW k PROVE Has(<<f, g>>, k) <=> f.kind = k \/ g.kind = k
  <2>1. Len(<<f, g>>) = 2 /\ <<f, g>>[1] = f /\ <<f, g>>[2] = g
    OBVIOUS
  <2>2. \A i \in 1..2 : i = 1 \/ i = 2
    OBVIOUS
  <2>. QED  BY <2>1, <2>2 DEF Has
<1>2. ASSUME NEW f, NEW k PROVE Has(<<f>>, k) <=> f.kind = k
  <2>1. Len(<<f>>) = 1 /\ <<f>>[1] = f
    OBVIOUS
  <2>. QED  BY <2>1 DEF Has
<1>3. \A k : ~Has(<<>>, k)
  BY DEF Has
<1>. QED  BY <1>1, <1>2, <1>3

\* A matcher.
LEMMA ResolveEvents ==
  ASSUME TypeOK, EventFrames, NeedsGlobal => Len(blocks) < MaxBlocks,
         NEW outcome \in {"ok", "fail", "skip"}, NEW chained \in BOOLEAN, Resolve(outcome, chained),
         UNCHANGED <<stage, fileVerdict, events>>
  PROVE  EventFrames'
<1> DEFINE frames == IF outcome = "fail" THEN <<Frame("assert-fail")>> ELSE <<>>
<1>1. Frame("assert-fail") \in FrameRecord /\ Frame("assert-fail").kind = "assert-fail"
  <2>1. "assert-fail" \in Plain
    BY DEF Plain, FrameKind
  <2>. QED  BY <2>1, FrameTypes
<1>2. /\ frames \in Seq(FrameRecord) /\ Send(frames)
      /\ \A k : Has(frames, k) <=> outcome = "fail" /\ k = "assert-fail"
  BY <1>1, FrameTypes, HasFacts DEF Resolve
<1>3. Failed' <=> Failed \/ outcome = "fail"
  <2>1. /\ Suite \in Ids' /\ \A i \in Ids : i \in Ids' /\ (i # Suite => blocks'[i] = blocks[i])
        /\ \A i \in Ids' : i \in Ids \/ i = Suite
        /\ blocks'[Suite].failed <=> (Suite \in Ids /\ blocks[Suite].failed) \/ outcome = "fail"
    BY ResolveFacts
  <2>2. Failed => Failed'
    BY <2>1 DEF Failed
  <2>3. outcome = "fail" => Failed'
    BY <2>1 DEF Failed
  <2>4. Failed' => Failed \/ outcome = "fail"
    BY <2>1 DEF Failed
  <2>. QED  BY <2>2, <2>3, <2>4
<1>4. \A i \in 1..Len(frames) : frames[i].kind # "file-end"
  BY <1>2 DEF Has
<1>5. (Past' <=> Past) /\ wire \in Seq(FrameRecord)
  BY DEF Past, TypeOK, TypeOKRuntime
<1> HIDE DEF frames
<1>. QED  BY <1>2, <1>3, <1>4, <1>5, SentEvents

\* The failures stay, and what is sent says what is done.
LEMMA StageEvents ==
  ASSUME TypeOK, EventFrames, UNCHANGED events,
         NEW frames \in Seq(FrameRecord), Send(frames), Failed' <=> Failed,
         \A i \in 1..Len(frames) :
           /\ frames[i].kind \notin {"assert-fail", "file-start", "file-end"}
           /\ frames[i].kind \in {"suite-start", "suite-end"} => stage' # "load",
         Past' <=> Past, stage' = "load" <=> stage = "load", Past => UNCHANGED fileVerdict
  PROVE  EventFrames'
<1>1. wire \in Seq(FrameRecord)
  BY DEF TypeOK, TypeOKRuntime
<1>. QED  BY <1>1, SentEvents DEF Has

\* The wire stays.
LEMMA QuietEvents ==
  ASSUME EventFrames, UNCHANGED <<events, wire, stage>>, Failed' <=> Failed, Past => UNCHANGED fileVerdict
  PROVE  EventFrames'
<1>1. \A k : InWire(k)' <=> InWire(k)
  BY DEF InWire
<1>2. Past' <=> Past
  BY DEF Past
<1>3. \A i \in 1..Len(wire') : wire'[i].kind = "file-end" => wire'[i].verdict = fileVerdict'
  <2> SUFFICES ASSUME NEW i \in 1..Len(wire), wire[i].kind = "file-end" PROVE wire[i].verdict = fileVerdict'
    OBVIOUS
  <2>1. Past
    BY DEF EventFrames, InWire
  <2>. QED  BY <2>1 DEF EventFrames
<1>4. events'.fileEnd => events'.verdict = fileVerdict'
  BY DEF EventFrames
<1>. QED  BY <1>1, <1>2, <1>3, <1>4 DEF EventFrames

\* The host counts what it takes.
LEMMA HandleEvents ==
  ASSUME TypeOK, EventFrames, Handle
  PROVE  EventFrames'
<1>1. /\ wire \in Seq(FrameRecord) /\ wire # <<>> /\ wire' = Tail(wire)
      /\ UNCHANGED <<stage, treeVars>>
  BY DEF TypeOK, TypeOKRuntime, Handle, OnEvent, OnCoverageDetail, OnSnapshotAssert, OnReportStart,
         OnReportEnd, OnDataMessage, OnOther, Take
<1>2. /\ Head(wire) = wire[1] /\ Len(wire) \in Nat /\ Len(wire) >= 1
      /\ \A i \in 1..Len(wire') : i + 1 \in 1..Len(wire) /\ wire'[i] = wire[i + 1]
      /\ \A k : InWire(k) <=> Head(wire).kind = k \/ InWire(k)'
  BY <1>1, TakeShifts
<1>3. UNCHANGED <<stage, blocks, fileVerdict>> /\ (Failed' <=> Failed) /\ (Past' <=> Past)
  BY <1>1 DEF treeVars, Failed, Ids, Past
<1>4. \A i \in 1..Len(wire') : wire'[i].kind = "file-end" => wire'[i].verdict = fileVerdict'
  BY <1>2, <1>3 DEF EventFrames
<1>5. CASE OnEvent
  <2>1. /\ events'.fails <=> events.fails \/ Head(wire).kind = "assert-fail"
        /\ events'.fileStart <=> events.fileStart \/ Head(wire).kind = "file-start"
        /\ events'.fileEnd <=> events.fileEnd \/ Head(wire).kind = "file-end"
        /\ events'.suites <=> events.suites \/ Head(wire).kind \in {"suite-start", "suite-end"}
        /\ events'.verdict = IF Head(wire).kind = "file-end" THEN Head(wire).verdict ELSE events.verdict
    BY <1>5 DEF OnEvent, TypeOK
  <2>2. events'.fileEnd => events'.verdict = fileVerdict'
    <3>1. 1 \in 1..Len(wire)
      BY <1>2
    <3>. QED  BY <1>2, <1>3, <2>1, <3>1 DEF EventFrames
  <2>. QED  BY <1>2, <1>3, <1>4, <2>1, <2>2 DEF EventFrames
<1>6. CASE ~OnEvent
  <2>1. UNCHANGED events
    BY <1>6 DEF Handle, OnCoverageDetail, OnSnapshotAssert, OnReportStart, OnReportEnd, OnDataMessage,
            OnOther, eventVars
  <2>2. Head(wire).kind \notin {"assert-fail", "file-start", "file-end", "suite-start", "suite-end"}
    BY <1>6 DEF Handle, OnCoverageDetail, OnSnapshotAssert, OnReportStart, OnReportEnd, OnDataMessage,
            OnOther, Take
  <2>. QED  BY <1>2, <1>3, <1>4, <2>1, <2>2 DEF EventFrames
<1>. QED  BY <1>5, <1>6

\* Frames without a payload.
LEMMA PlainFrames ==
  /\ \A k \in Plain : /\ <<Frame(k)>> \in Seq(FrameRecord)
                      /\ \A i \in 1..Len(<<Frame(k)>>) : <<Frame(k)>>[i].kind = k
                      /\ \A l : Has(<<Frame(k)>>, l) <=> l = k
  /\ \A j, k \in Plain : /\ <<Frame(j), Frame(k)>> \in Seq(FrameRecord)
                         /\ \A i \in 1..Len(<<Frame(j), Frame(k)>>) :
                              <<Frame(j), Frame(k)>>[i].kind \in {j, k}
                         /\ \A l : Has(<<Frame(j), Frame(k)>>, l) <=> l \in {j, k}
  /\ {"file-start", "file-end", "suite-start", "suite-end", "assert-fail", "coverage:detail",
      "coverage", "report:start", "data", "report:end", "close"} \subseteq Plain
<1>1. ASSUME NEW k \in Plain
      PROVE  /\ <<Frame(k)>> \in Seq(FrameRecord)
             /\ \A i \in 1..Len(<<Frame(k)>>) : <<Frame(k)>>[i].kind = k
             /\ \A l : Has(<<Frame(k)>>, l) <=> l = k
  BY FrameTypes, HasFacts
<1>2. ASSUME NEW j \in Plain, NEW k \in Plain
      PROVE  /\ <<Frame(j), Frame(k)>> \in Seq(FrameRecord)
             /\ \A i \in 1..Len(<<Frame(j), Frame(k)>>) : <<Frame(j), Frame(k)>>[i].kind \in {j, k}
             /\ \A l : Has(<<Frame(j), Frame(k)>>, l) <=> l \in {j, k}
  <2>1. Frame(j) \in FrameRecord /\ Frame(j).kind = j /\ Frame(k) \in FrameRecord /\ Frame(k).kind = k
    BY FrameTypes
  <2>. QED  BY <2>1, FrameTypes, HasFacts
<1>3. {"file-start", "file-end", "suite-start", "suite-end", "assert-fail", "coverage:detail",
       "coverage", "report:start", "data", "report:end", "close"} \subseteq Plain
  BY DEF Plain, FrameKind
<1>. QED  BY <1>1, <1>2, <1>3

LEMMA SuiteEvents ==
  ASSUME TypeOK, Tree, EventFrames, UNCHANGED events, SkipBlock \/ CallBlock \/ Return \/ CloseBlock
  PROVE  EventFrames'
<1>1. CASE SkipBlock
  <2>1. PICK p \in {0} \cup Ids, b \in Ids :
          /\ Looping(p) /\ Close(b, "skip", FALSE)
          /\ Send(<<Frame("suite-start"), Frame("suite-end")>>)
    BY <1>1 DEF SkipBlock
  <2>2. Ids' = Ids /\ (\A i \in Ids : blocks'[i].failed = blocks[i].failed) /\ UNCHANGED stage
    BY <2>1, CloseFacts DEF Verdict
  <2>3. stage = "run" /\ (Failed' <=> Failed) /\ ~Past /\ ~Past'
    BY <2>1, <2>2 DEF Looping, Failed, Past
  <2>4. /\ <<Frame("suite-start"), Frame("suite-end")>> \in Seq(FrameRecord)
        /\ \A i \in 1..Len(<<Frame("suite-start"), Frame("suite-end")>>) :
             <<Frame("suite-start"), Frame("suite-end")>>[i].kind \in {"suite-start", "suite-end"}
    BY PlainFrames
  <2>. QED  BY <2>1, <2>2, <2>3, <2>4, StageEvents
<1>2. CASE CallBlock
  <2>1. PICK p \in {0} \cup Ids, b \in Ids :
          /\ Looping(p)
          /\ blocks' = [blocks EXCEPT ![b].state = "called", ![b].ran = TRUE]
          /\ Send(<<Frame("suite-start")>>) /\ UNCHANGED stage
    BY <1>2 DEF CallBlock
  <2>2. blocks' = [blocks EXCEPT ![b] = [blocks[b] EXCEPT !.state = "called", !.ran = TRUE]]
    BY <2>1
  <2>3. Ids' = Ids /\ \A i \in Ids : blocks'[i].failed = blocks[i].failed
    BY <2>2, StateFacts
  <2>4. stage = "run" /\ (Failed' <=> Failed) /\ ~Past /\ ~Past'
    BY <2>1, <2>3 DEF Looping, Failed, Past
  <2>5. /\ <<Frame("suite-start")>> \in Seq(FrameRecord)
        /\ \A i \in 1..Len(<<Frame("suite-start")>>) : <<Frame("suite-start")>>[i].kind = "suite-start"
    BY PlainFrames
  <2>. QED  BY <2>1, <2>4, <2>5, StageEvents
<1>3. CASE Return
  <2>1. /\ blocks' = [blocks EXCEPT ![current].state = "open"] /\ current \in Ids
        /\ UNCHANGED <<stage, fileVerdict, wire>>
    BY <1>3, BlockFacts DEF Return
  <2>2. blocks[current] \in Block
    BY <2>1, BlockFacts
  <2>3. /\ blocks' = [blocks EXCEPT ![current] =
                        [blocks[current] EXCEPT !.state = "open", !.ran = blocks[current].ran]]
        /\ blocks[current].ran \in BOOLEAN
    BY <2>1, <2>2 DEF Block
  <2>4. Ids' = Ids /\ \A i \in Ids : blocks'[i].failed = blocks[i].failed
    BY <2>1, <2>3, StateFacts
  <2>5. Failed' <=> Failed
    BY <2>4 DEF Failed
  <2>. QED  BY <2>1, <2>5, QuietEvents
<1>4. CASE CloseBlock
  <2>1. PICK b \in Ids : Looping(b) /\ Close(b, OwnVerdict(b), TRUE) /\ Send(<<Frame("suite-end")>>)
    BY <1>4 DEF CloseBlock
  <2>2. Ids' = Ids /\ (\A i \in Ids : blocks'[i].failed = blocks[i].failed) /\ UNCHANGED stage
    BY <2>1, OwnVerdictFacts, CloseFacts
  <2>3. stage = "run" /\ (Failed' <=> Failed) /\ ~Past /\ ~Past'
    BY <2>1, <2>2 DEF Looping, Failed, Past
  <2>4. /\ <<Frame("suite-end")>> \in Seq(FrameRecord)
        /\ \A i \in 1..Len(<<Frame("suite-end")>>) : <<Frame("suite-end")>>[i].kind = "suite-end"
    BY PlainFrames
  <2>. QED  BY <2>1, <2>2, <2>3, <2>4, StageEvents
<1>. QED  BY <1>1, <1>2, <1>3, <1>4

LEMMA StartEndEvents ==
  ASSUME TypeOK, EventFrames, UNCHANGED events, BeginRun \/ EndFile
  PROVE  EventFrames'
<1>1. UNCHANGED <<blocks, fileVerdict>> /\ (Failed' <=> Failed) /\ wire \in Seq(FrameRecord)
  BY DEF BeginRun, EndFile, treeVars, Failed, Ids, TypeOK, TypeOKRuntime
<1>2. CASE BeginRun
  <2> DEFINE frames == <<Frame("file-start")>>
  <2>1. /\ frames \in Seq(FrameRecord) /\ \A i \in 1..Len(frames) : frames[i].kind = "file-start"
        /\ \A k : Has(frames, k) <=> k = "file-start"
    BY PlainFrames
  <2>2. Send(frames) /\ stage = "load" /\ stage' = "run" /\ ~Past /\ ~Past'
    BY <1>2 DEF BeginRun, Past
  <2> HIDE DEF frames
  <2>. QED  BY <1>1, <2>1, <2>2, SentEvents
<1>3. CASE EndFile
  <2> DEFINE frames == <<[Frame("file-end") EXCEPT !.verdict = fileVerdict]>>
             last == [Frame("file-end") EXCEPT !.verdict = fileVerdict]
  <2>1. last \in FrameRecord /\ last.kind = "file-end" /\ last.verdict = fileVerdict
    BY FrameTypes, PlainFrames DEF TypeOK, TypeOKRuntime
  <2>2. /\ frames \in Seq(FrameRecord)
        /\ \A i \in 1..Len(frames) : frames[i].verdict = fileVerdict
        /\ \A k : Has(frames, k) <=> k = "file-end"
    <3> HIDE DEF last
    <3>1. frames = <<last>>
      BY DEF last
    <3> HIDE DEF frames
    <3>. QED  BY <2>1, <3>1, FrameTypes, HasFacts
  <2>3. Send(frames) /\ stage = "run" /\ stage' = "ended" /\ ~Past /\ Past'
    BY <1>3 DEF EndFile, Looping, Past
  <2> HIDE DEF frames
  <2>. QED  BY <1>1, <2>2, <2>3, SentEvents
<1>. QED  BY <1>2, <1>3

LEMMA EventStep ==
  ASSUME TypeOK, Tree, EventFrames, [Next]_vars
  PROVE  EventFrames'
<1>1. CASE Code /\ HostStays
  <2>0. UNCHANGED events
    BY <1>1 DEF HostStays, eventVars
  <2>1. ASSUME NEW kind \in Kinds, Register(kind) PROVE EventFrames'
    <3>1. kind \in Kind
      BY RuntimeAssumption
    <3>2. /\ \A i \in Ids : i \in DOMAIN blocks' /\ blocks'[i] = blocks[i]
          /\ \A i \in DOMAIN blocks' : i \in Ids \/ i = Len(blocks) + 1
          /\ blocks'[Len(blocks) + 1] = NewBlock(kind)
          /\ UNCHANGED <<stage, wire, fileVerdict>>
      BY <2>1, <3>1, OneMore DEF Register
    <3>3. Failed' <=> Failed
      BY <3>2 DEF Failed, Ids, NewBlock
    <3>. QED  BY <2>0, <3>2, <3>3, QuietEvents
  <2>2. ASSUME NEW outcome \in {"ok", "fail", "skip"}, NEW chained \in BOOLEAN, Expect(outcome, chained)
        PROVE  EventFrames'
    BY <2>0, <2>2, ResolveEvents DEF Expect, CanExpect
  <2>3. ASSUME NEW value \in Values, NEW skipped \in BOOLEAN, AskSnapshot(value, skipped)
        PROVE  EventFrames'
    <3> DEFINE f == [Frame("snapshot:assert") EXCEPT !.actual = value]
               frames == <<f>>
    <3>1. f \in FrameRecord /\ f.kind = "snapshot:assert"
      BY FrameTypes
    <3>2. frames \in Seq(FrameRecord) /\ \A i \in 1..Len(frames) : frames[i].kind = "snapshot:assert"
      <4> HIDE DEF f
      <4>. QED  BY <3>1, FrameTypes
    <3>3. Send(frames) /\ UNCHANGED <<stage, blocks, fileVerdict>>
      BY <2>3 DEF AskSnapshot
    <3>4. (Failed' <=> Failed) /\ (Past' <=> Past)
      BY <3>3 DEF Failed, Ids, Past
    <3> HIDE DEF frames
    <3>. QED  BY <2>0, <3>2, <3>3, <3>4, StageEvents
  <2>. QED  BY <1>1, <2>1, <2>2, <2>3 DEF Code
<1>2. CASE HearSnapshot /\ HostStays
  <2> DEFINE outcome == IF asked.skipped THEN "skip" ELSE IF reply = "1" THEN "ok" ELSE "fail"
  <2>1. /\ Resolve(outcome, FALSE) /\ outcome \in {"ok", "fail", "skip"}
        /\ UNCHANGED <<stage, fileVerdict, events>>
    BY <1>2 DEF HearSnapshot, HostStays, eventVars
  <2>2. NeedsGlobal => Len(blocks) < MaxBlocks
    BY <1>2 DEF Tree, HearSnapshot
  <2> HIDE DEF outcome
  <2>. QED  BY <2>1, <2>2, ResolveEvents
<1>3. CASE (SkipBlock \/ CallBlock \/ Return \/ CloseBlock) /\ HostStays
  BY <1>3, SuiteEvents DEF HostStays, eventVars
<1>4. CASE (BeginRun \/ EndFile) /\ HostStays
  BY <1>4, StartEndEvents DEF HostStays, eventVars
<1>5. CASE (AskCoverage \/ SendCoverage \/ SendReport) /\ HostStays
  <2>1. /\ UNCHANGED <<blocks, fileVerdict, events>> /\ (Failed' <=> Failed)
        /\ Past /\ Past' /\ stage # "load" /\ stage' # "load"
    BY <1>5 DEF AskCoverage, SendCoverage, SendReport, ReportStep, Past, treeVars, HostStays, eventVars,
                Failed, Ids
  <2>2. ASSUME NEW k \in {"coverage:detail", "coverage", "report:start", "data"}, Send(<<Frame(k)>>)
        PROVE  EventFrames'
    <3>1. /\ <<Frame(k)>> \in Seq(FrameRecord)
          /\ \A i \in 1..Len(<<Frame(k)>>) : <<Frame(k)>>[i].kind = k
      BY PlainFrames
    <3>. QED  BY <2>1, <2>2, <3>1, StageEvents
  <2>3. ASSUME NEW k \in {"report:end", "data"}, Send(<<Frame(k), Frame("close")>>)
        PROVE  EventFrames'
    <3>1. /\ <<Frame(k), Frame("close")>> \in Seq(FrameRecord)
          /\ \A i \in 1..Len(<<Frame(k), Frame("close")>>) :
               <<Frame(k), Frame("close")>>[i].kind \in {k, "close"}
      BY PlainFrames
    <3>. QED  BY <2>1, <2>3, <3>1, StageEvents
  <2>. QED  BY <1>5, <2>2, <2>3 DEF AskCoverage, SendCoverage, SendReport, ReportStep
<1>6. CASE (Leave \/ Die \/ FailToSpawn) /\ HostStays
  <2>1. UNCHANGED <<stage, wire, blocks, fileVerdict, events>> /\ (Failed' <=> Failed)
    BY <1>6 DEF Leave, Die, FailToSpawn, Stop, treeVars, HostStays, eventVars, Failed, Ids
  <2>. QED  BY <2>1, QuietEvents
<1>7. CASE Handle
  BY <1>7, HandleEvents
<1>8. CASE Evaluate \/ UNCHANGED vars
  <2>1. UNCHANGED <<stage, wire, blocks, fileVerdict, events>> /\ (Failed' <=> Failed)
    BY <1>8 DEF Evaluate, StartFailed, BadPayload, Reported, Synthesized, EmptyFile, NoReportSent, Settle,
                vars, runtimeVars, treeVars, eventVars, Failed, Ids
  <2>. QED  BY <2>1, QuietEvents
<1>. QED  BY <1>1, <1>2, <1>3, <1>4, <1>5, <1>6, <1>7, <1>8 DEF Next, RuntimeNext, Work, HostStays

-------------------------------------------------------------------------------
(* ReportFrames *)

ReportKinds == {"data", "report:start", "report:end"}
Early == {"load", "run", "ended", "covered"}

\* Frames that belong to no report.
LEMMA QuietReports ==
  ASSUME TypeOK, ReportFrames, UNCHANGED <<stream, report>>,
         NEW frames \in Seq(FrameRecord), Send(frames),
         \A i \in 1..Len(frames) : frames[i].kind \notin ReportKinds,
         UNCHANGED stage \/ {stage, stage'} \subseteq Early
  PROVE  ReportFrames'
<1>1. wire \in Seq(FrameRecord)
  BY DEF TypeOK, TypeOKRuntime
<1>2. /\ \A i \in 1..Len(wire) : i \in 1..Len(wire') /\ wire'[i] = wire[i]
      /\ \A i \in 1..Len(wire') : wire'[i].kind \in ReportKinds => i \in 1..Len(wire)
  <2>1. ASSUME NEW i \in 1..Len(wire') PROVE wire'[i].kind \in ReportKinds => i \in 1..Len(wire)
    <3>1. CASE i \in 1..Len(wire)
      BY <3>1
    <3>2. CASE (i - Len(wire)) \in 1..Len(frames)
      <4>1. Len(wire) + (i - Len(wire)) = i
        BY <1>1, SendAppends
      <4>2. wire'[i] = frames[i - Len(wire)]
        BY <1>1, <3>2, <4>1, SendAppends
      <4>. QED  BY <3>2, <4>2
    <3>. QED  BY <1>1, <3>1, <3>2, SendAppends
  <2>. QED  BY <1>1, <2>1, SendAppends
<1>3. \A k \in ReportKinds : InWire(k)' <=> InWire(k)
  BY <1>2 DEF InWire
<1>4. CASE UNCHANGED stage
  <2>1. /\ stream'.data \/ InWire("data")' => stage' \in {"chunked", "reported"}
        /\ stream'.start \/ InWire("report:start")' => stage' \in {"chunking", "chunked", "reported"}
        /\ stream'.end \/ report' \/ InWire("report:end")' => stage' = "reported"
        /\ stage' \in {"chunking", "chunked"} => stream'.start \/ InWire("report:start")'
        /\ stream'.end => ~InWire("report:start")'
        /\ stage' = "reported" /\ (stream'.start \/ InWire("report:start")') =>
             stream'.end \/ InWire("report:end")'
    BY <1>3, <1>4 DEF ReportFrames, ReportKinds
  <2>2. stage' = "chunked" =>
          \A j \in 1..Len(wire') : wire'[j].kind = "data" =>
            stream'.start \/ \E i \in 1..Len(wire') : i < j /\ wire'[i].kind = "report:start"
    BY <1>2, <1>4 DEF ReportFrames, ReportKinds
  <2>3. \A i, j \in 1..Len(wire') :
          wire'[i].kind = "report:start" /\ wire'[j].kind = "report:end" => i < j
    BY <1>2 DEF ReportFrames, ReportKinds
  <2>. QED  BY <2>1, <2>2, <2>3 DEF ReportFrames
<1>5. CASE {stage, stage'} \subseteq Early
  <2>1. /\ ~stream.data /\ ~stream.start /\ ~stream.end /\ ~report
        /\ ~InWire("data") /\ ~InWire("report:start") /\ ~InWire("report:end")
    BY <1>5 DEF ReportFrames, Early
  <2>2. \A i \in 1..Len(wire') : wire'[i].kind # "report:start"
    BY <1>3, <2>1 DEF InWire, ReportKinds
  <2>. QED  BY <1>3, <1>5, <2>1, <2>2 DEF ReportFrames, ReportKinds, Early
<1>. QED  BY <1>4, <1>5

\* The wire stays, and so does the stage.
LEMMA StillReports ==
  ASSUME ReportFrames, UNCHANGED <<stream, report, wire, stage>>
  PROVE  ReportFrames'
BY DEF ReportFrames, InWire

\* A report of one frame, or of chunks.
LEMMA SendReports ==
  ASSUME TypeOK, ReportFrames, SendReport, UNCHANGED <<stream, report>>
  PROVE  ReportFrames'
<1>0. wire \in Seq(FrameRecord)
  BY DEF TypeOK, TypeOKRuntime
<1>1. CASE ReportStep("covered", <<Frame("data"), Frame("close")>>, "reported")
  <2> DEFINE frames == <<Frame("data"), Frame("close")>>
  <2>1. frames \in Seq(FrameRecord) /\ \A k : Has(frames, k) <=> k \in {"data", "close"}
    BY PlainFrames
  <2>2. Send(frames) /\ stage = "covered" /\ stage' = "reported"
    BY <1>1 DEF ReportStep
  <2> HIDE DEF frames
  <2>3. \A k : InWire(k)' <=> InWire(k) \/ k \in {"data", "close"}
    BY <1>0, <2>1, <2>2, SendAdds DEF Has
  <2>4. ~stream.start /\ ~stream.end /\ ~InWire("report:start")
    BY <2>2 DEF ReportFrames
  <2>5. ~InWire("report:start")'
    BY <2>3, <2>4
  <2>6. \A i \in 1..Len(wire') : wire'[i].kind # "report:start"
    BY <2>5 DEF InWire
  <2>. QED  BY <2>2, <2>4, <2>5, <2>6 DEF ReportFrames
<1>2. CASE ReportStep("covered", <<Frame("report:start")>>, "chunking")
  <2> DEFINE frames == <<Frame("report:start")>>
  <2>1. frames \in Seq(FrameRecord) /\ \A k : Has(frames, k) <=> k = "report:start"
    BY PlainFrames
  <2>2. Send(frames) /\ stage = "covered" /\ stage' = "chunking"
    BY <1>2 DEF ReportStep
  <2> HIDE DEF frames
  <2>3. \A k : InWire(k)' <=> InWire(k) \/ k = "report:start"
    BY <1>0, <2>1, <2>2, SendAdds DEF Has
  <2>4. ~stream.data /\ ~stream.end /\ ~report /\ ~InWire("data") /\ ~InWire("report:end")
    BY <2>2 DEF ReportFrames
  <2>5. ~InWire("data")' /\ ~InWire("report:end")' /\ InWire("report:start")'
    BY <2>3, <2>4
  <2>6. \A i \in 1..Len(wire') : wire'[i].kind # "report:end"
    BY <2>5 DEF InWire
  <2>. QED  BY <2>2, <2>4, <2>5, <2>6 DEF ReportFrames
<1>3. CASE ReportStep("chunking", <<Frame("data")>>, "chunked")
  <2> DEFINE frames == <<Frame("data")>>
  <2>1. /\ frames \in Seq(FrameRecord) /\ \A i \in 1..Len(frames) : frames[i].kind = "data"
        /\ \A k : Has(frames, k) <=> k = "data"
    BY PlainFrames
  <2>2. Send(frames) /\ stage = "chunking" /\ stage' = "chunked"
    BY <1>3 DEF ReportStep
  <2> HIDE DEF frames
  <2>3. \A k : InWire(k)' <=> InWire(k) \/ k = "data"
    BY <1>0, <2>1, <2>2, SendAdds DEF Has
  <2>4. /\ ~stream.data /\ ~stream.end /\ ~report /\ ~InWire("data") /\ ~InWire("report:end")
        /\ stream.start \/ InWire("report:start")
    BY <2>2 DEF ReportFrames
  <2>5. ~InWire("report:end")' /\ (InWire("report:start")' <=> InWire("report:start"))
    BY <2>3, <2>4
  <2>6. \A i \in 1..Len(wire') : wire'[i].kind # "report:end"
    BY <2>5 DEF InWire
  <2>7. ASSUME NEW j \in 1..Len(wire'), wire'[j].kind = "data", ~stream.start
        PROVE  \E i \in 1..Len(wire') : i < j /\ wire'[i].kind = "report:start"
    <3>1. PICK i \in 1..Len(wire) : wire[i].kind = "report:start"
      BY <2>4, <2>7 DEF InWire
    <3>2. j \notin 1..Len(wire)
      <4>1. j \in 1..Len(wire) => wire'[j] = wire[j]
        BY <1>0, <2>1, <2>2, SendAppends
      <4>. QED  BY <2>4, <2>7, <4>1 DEF InWire
    <3>3. /\ i \in 1..Len(wire') /\ wire'[i] = wire[i]
          /\ Len(wire) \in Nat /\ Len(wire') \in Nat
      BY <1>0, <2>1, <2>2, SendAppends, LenProperties
    <3>. QED  BY <3>1, <3>2, <3>3
  <2>. QED  BY <2>2, <2>4, <2>5, <2>6, <2>7 DEF ReportFrames
<1>4. CASE ReportStep("chunked", <<Frame("report:end"), Frame("close")>>, "reported")
  <2> DEFINE frames == <<Frame("report:end"), Frame("close")>>
  <2>1. /\ frames \in Seq(FrameRecord)
        /\ \A i \in 1..Len(frames) : frames[i].kind \in {"report:end", "close"}
        /\ \A k : Has(frames, k) <=> k \in {"report:end", "close"}
    BY PlainFrames
  <2>2. Send(frames) /\ stage = "chunked" /\ stage' = "reported"
    BY <1>4 DEF ReportStep
  <2> HIDE DEF frames
  <2>3. \A k : InWire(k)' <=> InWire(k) \/ k \in {"report:end", "close"}
    BY <1>0, <2>1, <2>2, SendAdds DEF Has
  <2>4. ~stream.end /\ ~InWire("report:end")
    BY <2>2 DEF ReportFrames
  <2>5. InWire("report:end")' /\ (InWire("report:start")' <=> InWire("report:start"))
    BY <2>3
  <2>6. ASSUME NEW i \in 1..Len(wire'), NEW j \in 1..Len(wire'),
               wire'[i].kind = "report:start", wire'[j].kind = "report:end"
        PROVE  i < j
    <3>1. j \notin 1..Len(wire)
      <4>1. j \in 1..Len(wire) => wire'[j] = wire[j]
        BY <1>0, <2>1, <2>2, SendAppends
      <4>. QED  BY <2>4, <2>6, <4>1 DEF InWire
    <3>2. i \in 1..Len(wire)
      <4>1. CASE (i - Len(wire)) \in 1..Len(frames)
        <5>1. Len(wire) + (i - Len(wire)) = i
          BY <1>0, <2>1, <2>2, SendAppends
        <5>2. wire'[i] = frames[i - Len(wire)]
          BY <1>0, <2>1, <2>2, <4>1, <5>1, SendAppends
        <5>. QED  BY <2>1, <2>6, <4>1, <5>2
      <4>. QED  BY <1>0, <2>1, <2>2, <4>1, SendAppends
    <3>3. Len(wire) \in Nat /\ Len(wire') \in Nat
      BY <1>0, <2>1, <2>2, SendAppends, LenProperties
    <3>. QED  BY <3>1, <3>2, <3>3
  <2>. QED  BY <2>2, <2>4, <2>5, <2>6 DEF ReportFrames
<1>. QED  BY <1>1, <1>2, <1>3, <1>4 DEF SendReport

\* The host takes the frames in their order.
LEMMA HandleReports ==
  ASSUME TypeOK, ReportFrames, Handle
  PROVE  ReportFrames'
<1>1. wire \in Seq(FrameRecord) /\ wire # <<>> /\ wire' = Tail(wire) /\ UNCHANGED stage
  BY DEF TypeOK, TypeOKRuntime, Handle, OnEvent, OnCoverageDetail, OnSnapshotAssert, OnReportStart,
         OnReportEnd, OnDataMessage, OnOther, Take
<1>2. /\ Len(wire) \in Nat /\ Len(wire) >= 1 /\ Len(wire') = Len(wire) - 1 /\ Head(wire) = wire[1]
      /\ \A i \in 1..Len(wire') : i + 1 \in 1..Len(wire) /\ wire'[i] = wire[i + 1]
      /\ \A i \in 1..Len(wire) : i # 1 => i - 1 \in 1..Len(wire') /\ wire[i] = wire'[i - 1]
      /\ \A k : InWire(k) <=> Head(wire).kind = k \/ InWire(k)'
      /\ 1 \in 1..Len(wire)
  BY <1>1, TakeShifts
<1>3. \A i, j \in 1..Len(wire') :
        wire'[i].kind = "report:start" /\ wire'[j].kind = "report:end" => i < j
  BY <1>2 DEF ReportFrames
<1>4. ASSUME stage = "chunked", NEW j \in 1..Len(wire'), wire'[j].kind = "data",
             ~stream.start, Head(wire).kind # "report:start"
      PROVE  \E i \in 1..Len(wire') : i < j /\ wire'[i].kind = "report:start"
  <2>1. j + 1 \in 1..Len(wire) /\ wire[j + 1].kind = "data"
    BY <1>2, <1>4
  <2>2. PICK i \in 1..Len(wire) : i < j + 1 /\ wire[i].kind = "report:start"
    BY <1>4, <2>1 DEF ReportFrames
  <2>3. i # 1
    BY <1>2, <1>4, <2>2
  <2>4. i - 1 \in 1..Len(wire') /\ wire'[i - 1].kind = "report:start" /\ i - 1 < j
    BY <1>2, <2>2, <2>3
  <2>. QED  BY <2>4
<1>5. CASE OnReportStart
  <2>1. /\ Head(wire).kind = "report:start" /\ UNCHANGED report
        /\ stream'.start /\ ~stream'.end /\ stream'.data = stream.data
    BY <1>5 DEF OnReportStart, Take, TypeOK
  <2>2. ~stream.end
    BY <1>2, <2>1 DEF ReportFrames
  <2>. QED  BY <1>1, <1>2, <1>3, <2>1, <2>2 DEF ReportFrames
<1>6. CASE OnReportEnd
  <2>1. /\ Head(wire).kind = "report:end" /\ UNCHANGED report
        /\ stream'.start = stream.start /\ stream'.end /\ stream'.data = stream.data
    BY <1>6 DEF OnReportEnd, Take, TypeOK
  <2>2. ~InWire("report:start")'
    <3>1. \A i \in 1..Len(wire') : wire'[i].kind # "report:start"
      BY <1>2, <2>1 DEF ReportFrames
    <3>. QED  BY <3>1 DEF InWire
  <2>3. stage = "reported"
    BY <1>2, <2>1 DEF ReportFrames
  <2>. QED  BY <1>1, <1>2, <1>3, <2>1, <2>2, <2>3 DEF ReportFrames
<1>7. CASE OnDataMessage
  <2>1. /\ Head(wire).kind = "data"
        /\ report' = (report \/ ~(stream.start /\ ~stream.end))
        /\ stream'.start = stream.start /\ stream'.end = stream.end /\ stream'.data
    BY <1>7 DEF OnDataMessage, Take, TypeOK
  <2>2. stage \in {"chunked", "reported"}
    BY <1>2, <2>1 DEF ReportFrames
  <2>3. stage = "chunked" => stream.start /\ ~stream.end /\ ~report
    <3>1. stage = "chunked" => stream.start
      BY <1>2, <2>1 DEF ReportFrames
    <3>. QED  BY <3>1 DEF ReportFrames
  <2>4. report' => stage = "reported"
    BY <2>1, <2>2, <2>3
  <2>. QED  BY <1>1, <1>2, <1>3, <1>4, <2>1, <2>2, <2>4 DEF ReportFrames
<1>8. CASE OnEvent \/ OnCoverageDetail \/ OnSnapshotAssert \/ OnOther
  <2>1. UNCHANGED <<stream, report>> /\ Head(wire).kind \notin ReportKinds
    BY <1>8 DEF OnEvent, OnCoverageDetail, OnSnapshotAssert, OnOther, Take, eventVars, ReportKinds
  <2>. QED  BY <1>1, <1>2, <1>3, <1>4, <2>1 DEF ReportFrames, ReportKinds
<1>. QED  BY <1>5, <1>6, <1>7, <1>8 DEF Handle

LEMMA ReportsStep ==
  ASSUME TypeOK, ReportFrames, [Next]_vars
  PROVE  ReportFrames'
<1>0. <<>> \in Seq(FrameRecord) /\ \A k \in Plain : <<Frame(k)>> \in Seq(FrameRecord)
  BY FrameTypes
<1>1. CASE (Code \/ HearSnapshot) /\ HostStays
  <2>0. UNCHANGED <<stream, report>>
    BY <1>1 DEF HostStays, eventVars
  <2>1. ASSUME UNCHANGED stage, Send(<<>>) \/ Send(<<Frame("assert-fail")>>)
        PROVE  ReportFrames'
    <3>1. CASE Send(<<>>)
      <4>1. wire' = wire
        BY <3>1, NothingSent DEF TypeOK, TypeOKRuntime
      <4>. QED  BY <2>0, <2>1, <4>1, StillReports
    <3>2. CASE Send(<<Frame("assert-fail")>>)
      <4>1. /\ <<Frame("assert-fail")>> \in Seq(FrameRecord)
            /\ \A i \in 1..Len(<<Frame("assert-fail")>>) :
                 <<Frame("assert-fail")>>[i].kind = "assert-fail"
        BY PlainFrames
      <4>. QED  BY <2>0, <2>1, <3>2, <4>1, QuietReports DEF ReportKinds
    <3>. QED  BY <2>1, <3>1, <3>2
  <2>2. ASSUME NEW kind \in Kinds, Register(kind) PROVE ReportFrames'
    BY <2>0, <2>2, StillReports DEF Register
  <2>3. ASSUME NEW outcome \in {"ok", "fail", "skip"}, NEW chained \in BOOLEAN, Expect(outcome, chained)
        PROVE  ReportFrames'
    <3>1. UNCHANGED stage /\ (Send(<<>>) \/ Send(<<Frame("assert-fail")>>))
      BY <2>3 DEF Expect, Resolve
    <3>. QED  BY <2>1, <3>1
  <2>4. ASSUME NEW value \in Values, NEW skipped \in BOOLEAN, AskSnapshot(value, skipped)
        PROVE  ReportFrames'
    <3> DEFINE f == [Frame("snapshot:assert") EXCEPT !.actual = value]
               frames == <<f>>
    <3>1. f \in FrameRecord /\ f.kind = "snapshot:assert"
      BY FrameTypes
    <3>2. frames \in Seq(FrameRecord) /\ \A i \in 1..Len(frames) : frames[i].kind = "snapshot:assert"
      <4> HIDE DEF f
      <4>. QED  BY <3>1, FrameTypes
    <3>3. Send(frames) /\ UNCHANGED stage
      BY <2>4 DEF AskSnapshot
    <3> HIDE DEF frames
    <3>. QED  BY <2>0, <3>2, <3>3, QuietReports DEF ReportKinds
  <2>5. CASE HearSnapshot
    <3>1. UNCHANGED stage /\ (Send(<<>>) \/ Send(<<Frame("assert-fail")>>))
      BY <2>5 DEF HearSnapshot, Resolve
    <3>. QED  BY <2>1, <3>1
  <2>. QED  BY <1>1, <2>2, <2>3, <2>4, <2>5 DEF Code
<1>2. CASE (BeginRun \/ SkipBlock \/ CallBlock \/ CloseBlock \/ AskCoverage \/ SendCoverage) /\ HostStays
  <2>1. UNCHANGED <<stream, report>>
    BY <1>2 DEF HostStays, eventVars
  <2>2. UNCHANGED stage \/ {stage, stage'} \subseteq Early
    BY <1>2 DEF BeginRun, SkipBlock, CallBlock, CloseBlock, Close, AskCoverage, SendCoverage, Early
  <2>3. ASSUME NEW k \in {"file-start", "suite-start", "suite-end", "coverage:detail", "coverage"},
               Send(<<Frame(k)>>)
        PROVE  ReportFrames'
    <3>1. /\ <<Frame(k)>> \in Seq(FrameRecord)
          /\ \A i \in 1..Len(<<Frame(k)>>) : <<Frame(k)>>[i].kind = k
      BY PlainFrames
    <3>. QED  BY <2>1, <2>2, <2>3, <3>1, QuietReports DEF ReportKinds
  <2>4. ASSUME Send(<<Frame("suite-start"), Frame("suite-end")>>)
        PROVE  ReportFrames'
    <3>1. /\ <<Frame("suite-start"), Frame("suite-end")>> \in Seq(FrameRecord)
          /\ \A i \in 1..Len(<<Frame("suite-start"), Frame("suite-end")>>) :
               <<Frame("suite-start"), Frame("suite-end")>>[i].kind \in {"suite-start", "suite-end"}
      BY PlainFrames
    <3>. QED  BY <2>1, <2>2, <2>4, <3>1, QuietReports DEF ReportKinds
  <2>. QED  BY <1>2, <2>3, <2>4 DEF BeginRun, SkipBlock, CallBlock, CloseBlock, AskCoverage, SendCoverage
<1>3. CASE EndFile /\ HostStays
  <2> DEFINE f == [Frame("file-end") EXCEPT !.verdict = fileVerdict]
             frames == <<f>>
  <2>1. f \in FrameRecord /\ f.kind = "file-end"
    BY FrameTypes, PlainFrames DEF TypeOK, TypeOKRuntime
  <2>2. frames \in Seq(FrameRecord) /\ \A i \in 1..Len(frames) : frames[i].kind = "file-end"
    <3> HIDE DEF f
    <3>. QED  BY <2>1, FrameTypes
  <2>3. Send(frames) /\ {stage, stage'} \subseteq Early /\ UNCHANGED <<stream, report>>
    BY <1>3 DEF EndFile, Looping, Early, HostStays, eventVars
  <2> HIDE DEF frames
  <2>. QED  BY <2>2, <2>3, QuietReports DEF ReportKinds
<1>4. CASE SendReport /\ HostStays
  BY <1>4, SendReports DEF HostStays, eventVars
<1>5. CASE (Return \/ Leave \/ Die \/ FailToSpawn) /\ HostStays
  BY <1>5, StillReports DEF Return, Leave, Die, FailToSpawn, Stop, HostStays, eventVars
<1>6. CASE Handle
  BY <1>6, HandleReports
<1>7. CASE Evaluate \/ UNCHANGED vars
  BY <1>7, StillReports DEF Evaluate, StartFailed, BadPayload, Reported, Synthesized, EmptyFile,
         NoReportSent, Settle, vars, runtimeVars, eventVars
<1>. QED  BY <1>1, <1>2, <1>3, <1>4, <1>5, <1>6, <1>7 DEF Next, RuntimeNext, Work, HostStays

-------------------------------------------------------------------------------
(* The result *)

\* Nothing happens any more once there is a result.
LEMMA SettledStep ==
  ASSUME TypeOK, Settled, [Next]_vars
  PROVE  /\ Settled'
         /\ result # "pending" => UNCHANGED <<blocks, stage, exit, events, result>>
<1>1. CASE RuntimeNext /\ HostStays
  <2>1. alive /\ UNCHANGED result
    BY <1>1 DEF RuntimeNext, Code, Work, Register, Expect, AskSnapshot, Coding, HearSnapshot, BeginRun,
         SkipBlock, CallBlock, Looping, Return, CloseBlock, EndFile, AskCoverage, SendCoverage, SendReport,
         ReportStep, Leave, Die, FailToSpawn, Stop, HostStays
  <2>. QED  BY <2>1 DEF Settled
<1>2. CASE Handle
  <2>1. wire # <<>> /\ UNCHANGED result
    BY <1>2 DEF Handle, OnEvent, OnCoverageDetail, OnSnapshotAssert, OnReportStart, OnReportEnd,
         OnDataMessage, OnOther, Take
  <2>. QED  BY <2>1 DEF Settled
<1>3. CASE Evaluate
  <2>1. Closed /\ UNCHANGED runtimeVars
    BY <1>3 DEF Evaluate, StartFailed, BadPayload, Reported, Synthesized, NoReport, NothingSeen,
         EmptyFile, NoReportSent, Settle
  <2>. QED  BY <2>1 DEF Settled, Closed, runtimeVars, alive
<1>4. CASE UNCHANGED vars
  BY <1>4 DEF Settled, vars, runtimeVars, treeVars, eventVars, alive
<1>. QED  BY <1>1, <1>2, <1>3, <1>4 DEF Next, HostStays

\* Verdicts and tests of a report that fail come from a matcher that failed, and every
\* matcher that failed is among them.
LEMMA ReportFacts ==
  ASSUME TypeOK, Tree
  PROVE  ReadFileReport = "fail" <=> Failed
<1> DEFINE all == UNION {{blocks[i].verdict} \cup {blocks[i].tests[t] : t \in DOMAIN blocks[i].tests} : i \in Ids}
<1>1. \A i \in Ids : DOMAIN blocks[i].tests = 1..Len(blocks[i].tests)
  BY BlockFacts, LenProperties DEF Block
<1>2. "fail" \in all <=> \E i \in Ids : blocks[i].verdict = "fail" \/ HasFail(blocks[i])
  BY <1>1 DEF HasFail
<1>3. "fail" \in all <=> Failed
  BY <1>2 DEF Tree, Failed
<1>4. ReadFileReport = "fail" <=> "fail" \in all
  BY WorstFacts DEF ReadFileReport
<1>. QED  BY <1>3, <1>4

\* When the process is gone and the pipe is empty.
LEMMA ClosedFacts ==
  ASSUME TypeOK, Tree, Blame, EventFrames, ReportFrames, Closed
  PROVE  /\ stage # "load" => events.fileStart
         /\ events.suites => stage # "load"
         /\ Past <=> events.fileEnd
         /\ events.fileEnd => events.verdict = fileVerdict
         /\ Failed <=> events.fails
         /\ stream.data => Past
         /\ TornReport => events.fileStart /\ stage # "reported"
         /\ HasReport => stage = "reported" /\ Past
         /\ Past => \A b \in Ids : blocks[b].ran => blocks[b].state = "closed"
         /\ Past /\ fileVerdict # "fail" => \A b \in Ids : blocks[b].ran => ~blocks[b].failed
         /\ fileVerdict = "fail" => Failed
<1>1. \A k : ~InWire(k)
  BY DEF Closed, InWire
<1>2. /\ stage # "load" => events.fileStart
      /\ events.suites => stage # "load"
      /\ Past <=> events.fileEnd
      /\ events.fileEnd => events.verdict = fileVerdict
      /\ Failed <=> events.fails
  BY <1>1 DEF EventFrames
<1>3. /\ stream.data => Past
      /\ TornReport => Past /\ stage # "reported"
      /\ HasReport => stage = "reported" /\ Past
  BY <1>1 DEF ReportFrames, TornReport, HasReport, Past
<1>4. Past => \A b \in Ids : ~Active(b) /\ (blocks[b].ran => blocks[b].state = "closed")
  <2>1. \A b \in Ids : blocks[b].state \in {"waiting", "called", "open", "closed"}
    BY BlockFacts DEF Block
  <2>. QED  BY <2>1 DEF Tree, Past, Active
<1>5. Past /\ fileVerdict # "fail" => \A b \in Ids : blocks[b].ran => ~blocks[b].failed
  BY <1>4 DEF Blame
<1>6. fileVerdict = "fail" => Failed
  BY DEF Tree
<1>. QED  BY <1>2, <1>3, <1>4, <1>5, <1>6 DEF Past

\* The verdict agrees with what has happened.
LEMMA EvaluateHonest ==
  ASSUME TypeOK, Tree, Blame, EventFrames, ReportFrames, Evaluate
  PROVE  ResultHonest'
<1>1. Closed /\ UNCHANGED <<runtimeVars, eventVars>>
  BY DEF Evaluate, StartFailed, BadPayload, Reported, Synthesized, NoReport, NothingSeen,
         EmptyFile, NoReportSent, Settle
<1>2. UNCHANGED <<blocks, stage, exit, events>>
  BY <1>1 DEF runtimeVars, treeVars, eventVars
<1> DEFINE Fine == /\ ~Crashed /\ events.fileEnd
                   /\ \A b \in Ids : blocks[b].ran => ~blocks[b].failed /\ blocks[b].state = "closed"
           Bad == Failed \/ Crashed \/ ~Spawned \/ (events.fileStart /\ stage # "reported")
<1>3. ASSUME events.fileStart /\ result' # "fail" => Fine, result' = "fail" => Bad
      PROVE  ResultHonest'
  BY <1>2, <1>3 DEF ResultHonest, Failed, Crashed, Spawned, Ids
<1>4. CASE StartFailed
  BY <1>3, <1>4 DEF StartFailed, Settle
<1>5. CASE BadPayload
  BY <1>1, <1>3, <1>5, ClosedFacts DEF BadPayload, Settle
<1>6. CASE Reported
  <2>1. HasReport /\ result' = IF Crashed THEN "fail" ELSE ReadFileReport
    BY <1>6 DEF Reported, Settle
  <2>2. ReadFileReport = "fail" <=> Failed
    BY ReportFacts
  <2>3. Past /\ events.fileEnd /\ \A b \in Ids : blocks[b].ran => blocks[b].state = "closed"
    BY <1>1, <2>1, ClosedFacts
  <2>4. result' # "fail" => Fine
    BY <2>1, <2>2, <2>3 DEF Failed
  <2>5. result' = "fail" => Bad
    BY <2>1, <2>2
  <2>. QED  BY <1>3, <2>4, <2>5
<1>7. CASE Synthesized
  <2>1. /\ events.fileEnd \/ events.suites
        /\ result' = IF ~events.fileEnd \/ Crashed THEN "fail"
                     ELSE IF events.verdict # "none" THEN events.verdict
                     ELSE IF events.fails THEN "fail" ELSE "ok"
    BY <1>7 DEF Synthesized, Settle
  <2>2. result' # "fail" => Fine
    <3> SUFFICES ASSUME result' # "fail" PROVE Fine
      OBVIOUS
    <3>1. events.fileEnd /\ ~Crashed /\ Past /\ events.verdict = fileVerdict
      BY <1>1, <2>1, ClosedFacts
    <3>2. fileVerdict # "fail"
      BY <2>1, <3>1
    <3>. QED  BY <1>1, <3>1, <3>2, ClosedFacts
  <2>3. result' = "fail" => Bad
    <3>1. CASE ~events.fileEnd
      <4>1. events.fileStart /\ stage # "reported"
        BY <1>1, <2>1, <3>1, ClosedFacts DEF Past
      <4>. QED  BY <4>1
    <3>2. CASE events.fileEnd
      BY <1>1, <2>1, <3>2, ClosedFacts
    <3>. QED  BY <3>1, <3>2
  <2>. QED  BY <1>3, <2>2, <2>3
<1>8. CASE EmptyFile
  BY <1>3, <1>8 DEF EmptyFile, Settle
<1>9. CASE NoReportSent
  <2>1. ~events.fileEnd /\ (Crashed \/ stream.data \/ events.fileStart) /\ result' = "fail"
    BY <1>9 DEF NoReportSent, NothingSeen, Settle
  <2>2. ~Past /\ ~stream.data
    BY <1>1, <2>1, ClosedFacts
  <2>3. stage # "reported"
    BY <2>2 DEF Past
  <2>. QED  BY <1>3, <2>1, <2>2, <2>3
<1>. QED  BY <1>4, <1>5, <1>6, <1>7, <1>8, <1>9 DEF Evaluate

LEMMA HonestStep ==
  ASSUME TypeOK, Tree, Blame, EventFrames, ReportFrames, Settled, ResultHonest, [Next]_vars
  PROVE  ResultHonest'
<1>1. CASE Evaluate
  BY <1>1, EvaluateHonest
<1>2. CASE ~Evaluate
  <2>1. UNCHANGED result
    BY <1>2 DEF Next, Handle, OnEvent, OnCoverageDetail, OnSnapshotAssert, OnReportStart, OnReportEnd,
         OnDataMessage, OnOther, Take, vars
  <2>2. CASE result = "pending"
    BY <2>1, <2>2 DEF ResultHonest
  <2>3. CASE result # "pending"
    <3>1. UNCHANGED <<blocks, stage, exit, events, result>>
      BY <2>3, SettledStep
    <3>. QED  BY <3>1 DEF ResultHonest, Crashed, Spawned, Ids
  <2>. QED  BY <2>2, <2>3
<1>. QED  BY <1>1, <1>2

-------------------------------------------------------------------------------

LEMMA InitInvariant == Init => IInv
<1> SUFFICES ASSUME Init PROVE IInv
  OBVIOUS
<1> USE DEF Init, InitRuntime
<1>1. TypeOK
  <2>1. blocks \in Seq(Block) /\ Len(blocks) = 0 /\ Ids = {} /\ wire \in Seq(FrameRecord)
    BY EmptySeq DEF Ids
  <2>2. MaxBlocks \in Nat /\ MaxExpects \in Nat /\ saved \in Values \cup {Missing}
    BY RuntimeAssumption, FlagAssumption
  <2>3. asked \in [kind : FrameKind \cup {"none"}, skipped : BOOLEAN]
    BY DEF NoRequest
  <2>4. TypeOKRuntime
    BY <2>1, <2>2, <2>3 DEF TypeOKRuntime, Stage, Verdict, Exit, Ids
  <2>. QED  BY <2>2, <2>4 DEF TypeOK, Verdict
<1>2. Ids = {} /\ ~Failed /\ \A k : ~InWire(k)
  BY DEF Ids, Failed, InWire
<1>3. Tree /\ Blame /\ Merged
  BY <1>2 DEF Tree, Blame, Merged, NoRequest
<1>4. EventFrames
  BY <1>2 DEF EventFrames, Past
<1>5. ReportFrames
  BY <1>2 DEF ReportFrames
<1>6. Settled /\ ResultHonest
  BY DEF Settled, ResultHonest
<1>. QED  BY <1>1, <1>3, <1>4, <1>5, <1>6 DEF IInv

LEMMA StepInvariant == IInv /\ [Next]_vars => IInv'
BY TypeStep, TreeStep, BlameStep, MergedStep, EventStep, ReportsStep, SettledStep, HonestStep DEF IInv

LEMMA Invariance == Spec => []IInv
<1>1. Init => IInv
  BY InitInvariant
<1>2. IInv /\ [Next]_vars => IInv'
  BY StepInvariant
<1>. QED  BY <1>1, <1>2, PTL DEF Spec

\* For any number of blocks and matchers, any pipe, any flags: every block has a parent
\* registered before it, the current suite and the global one are registered, and the
\* wire holds frames (assembly/src/suite.ts, assembly/index.ts, runProcess).
THEOREM TypeCorrect == Spec => []TypeOK
<1>1. IInv => TypeOK
  BY DEF IInv
<1>. QED  BY <1>1, Invariance, PTL

\* For any program of a spec and any moment at which its process dies: a file is not
\* reported as passed or skipped when a matcher failed in a suite that ran, when the
\* process crashed, or before run() came to its end; and it is reported as failed only
\* with a reason (runProcess, readFileReport, synthesizeReportFromRuntimeEvents).
THEOREM ResultHonestHolds == Spec => []ResultHonest
<1>1. IInv => ResultHonest
  BY DEF IInv
<1>. QED  BY <1>1, Invariance, PTL

\* For any program of a spec: the verdict of a suite that ran is that of everything nested
\* below it.  A failed matcher is never lost in a deeper suite, nor overruled by what passes
\* later or beside it, and a skipped suite hides nothing that passed (Suite.run, skip and
\* the merging of verdicts in assembly/src/suite.ts).
THEOREM VerdictTruthfulHolds == Spec => []VerdictTruthful
<1>1. IInv => VerdictTruthful
  BY Truthful DEF IInv
<1>. QED  BY <1>1, Invariance, PTL
===============================================================================
