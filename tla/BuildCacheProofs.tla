---------------------------- MODULE BuildCacheProofs ---------------------------
(***************************************************************************)
(* For any specs, imports, contents, kinds of session and numbers of       *)
(* edits: every invariant of the cache.                                    *)
(***************************************************************************)
EXTENDS BuildCache, TLAPS

\* What the compiler is given, which need not compile.
Given(s) == [files : [Reads(s) -> Content \cup {None}], sig : Nat]
Indexed(v) == v = [s \in Spec |-> v[s]]

\* TypeOK, in groups of variables, with what it rests on: that a spec to run
\* has its .wasm, and its snapshots once it runs, and stages that there is a session.
OutsideTypes ==
  src \in [Source -> File] /\ snap \in [Spec -> Content] /\ edits \in 0..MaxEdits
ArtifactTypes ==
  /\ Indexed(wasm) /\ Indexed(report)
  /\ \A s \in Spec : /\ wasm[s] = None \/ wasm[s] \in Input(s)
                     /\ report[s] = None \/ report[s] \in Report(s)
ManifestTypes ==
  /\ Indexed(disk) /\ Indexed(mem) /\ dirty \in BOOLEAN
  /\ \A s \in Spec : /\ disk[s] = None \/ disk[s] \in Entry(s)
                     /\ mem[s] = None \/ mem[s] \in Entry(s)
ProgressTypes ==
  /\ session \in Sessions \cup {None} /\ live \in SUBSET Spec
  /\ stage \in [Spec -> {"build", "building", "run", "running", "done"}]
  /\ Indexed(answer) /\ Indexed(due)
  /\ \A s \in Spec : answer[s] \in {None, BuildError} \/ answer[s] \in Report(s)
  /\ read \in [Spec -> Content \cup {None}]
GapTypes == gap \in [Spec -> SUBSET Cause]
StageTypes ==
  \A s \in Spec :
    /\ session = None => stage[s] = "done"
    /\ stage[s] \in {"building", "run", "running"} =>
         due[s] \in Given(s) /\ due[s].sig = session.sig
    /\ stage[s] \in {"run", "running"} => wasm[s] # None
    /\ stage[s] = "running" => read[s] \in Content

Typed ==
  /\ OutsideTypes /\ ArtifactTypes /\ ManifestTypes /\ ProgressTypes /\ GapTypes
  /\ StageTypes

LEMMA TypedIsTypeOK == Typed => TypeOK
<1> SUFFICES ASSUME Typed PROVE TypeOK
  OBVIOUS
<1> USE DEF Typed
<1>1. src \in [Source -> File] /\ snap \in [Spec -> Content] /\ edits \in 0..MaxEdits
  BY DEF OutsideTypes
<1>2. ASSUME NEW s \in Spec
      PROVE  /\ wasm[s] = None \/ wasm[s] \in Input(s)
             /\ report[s] = None \/ report[s] \in Report(s)
             /\ {disk[s], mem[s]} \subseteq {None} \cup Entry(s)
             /\ answer[s] \in {None, BuildError} \/ answer[s] \in Report(s)
             /\ read[s] \in Content \cup {None}
             /\ gap[s] \subseteq Cause
  BY <1>2 DEF ArtifactTypes, ManifestTypes, ProgressTypes, GapTypes
<1>3. session \in Sessions \cup {None} /\ live \subseteq Spec
  BY DEF ProgressTypes
<1>4. dirty \in BOOLEAN
  BY DEF ManifestTypes
<1>5. stage \in [Spec -> {"build", "building", "run", "running", "done"}]
  BY DEF ProgressTypes
<1>. QED  BY <1>1, <1>2, <1>3, <1>4, <1>5 DEF TypeOK

\* Sets the entries of the manifest are made of.
Deps(s) == UNION {[D -> Fingerprint] : D \in SUBSET Reads(s)}

LEMMA DepsType ==
  ASSUME NEW s
  PROVE  /\ \A D \in SUBSET Reads(s) : \A d \in [D -> Fingerprint] : d \in Deps(s)
         /\ \A d \in Deps(s) : \E D \in SUBSET Reads(s) : d \in [D -> Fingerprint]
BY DEF Deps

LEMMA EntryType ==
  ASSUME NEW s
  PROVE  Entry(s) = [sig : Nat, deps : Deps(s), report : BOOLEAN,
                     runtime : Nat \cup {None}, snap : Content \cup {None}]
BY DEF Entry, Deps

LEMMA RecordedType ==
  ASSUME Typed, session # None, NEW s \in Spec
  PROVE  Recorded(s) \in Entry(s)
<1>1. session.sig \in Nat
  BY SessionAssumption DEF Typed, ProgressTypes, SessionKind
<1>2. Reads(s) \subseteq Source
  BY FileAssumption DEF Reads, Source
<1>3. \A f \in Reads(s) : Exists(f) => src[f] \in Fingerprint
  BY <1>2 DEF Typed, OutsideTypes, Exists, File, Fingerprint
<1>4. {r \in Reads(s) : Exists(r)} \in SUBSET Reads(s)
  OBVIOUS
<1>5. [f \in {r \in Reads(s) : Exists(r)} |-> src[f]] \in
        [{r \in Reads(s) : Exists(r)} -> Fingerprint]
  BY <1>3
<1>6. [f \in {r \in Reads(s) : Exists(r)} |-> src[f]] \in Deps(s)
  BY <1>4, <1>5, DepsType
<1>. QED  BY <1>1, <1>6, EntryType DEF Recorded

LEMMA RestampedType ==
  ASSUME Typed, NEW s \in Spec, mem[s] \in Entry(s), NEW F \in SUBSET Touched(mem[s].deps)
  PROVE  /\ [mem[s] EXCEPT !.deps = Restamped(@, F)] \in Entry(s)
         /\ DOMAIN Restamped(mem[s].deps, F) = DOMAIN mem[s].deps
         /\ \A f \in DOMAIN mem[s].deps :
              Restamped(mem[s].deps, F)[f].content = mem[s].deps[f].content
<1>1. PICK D \in SUBSET Reads(s) : mem[s].deps \in [D -> Fingerprint]
  BY EntryType, DepsType
<1>2. D \subseteq Source
  BY FileAssumption DEF Reads, Source
<1>3. \A f \in D : [mem[s].deps[f] EXCEPT !.stamp = src[f].stamp] \in Fingerprint
  BY <1>1, <1>2 DEF Typed, OutsideTypes, File, Fingerprint
<1>4. Restamped(mem[s].deps, F) \in [D -> Fingerprint]
  BY <1>1, <1>3 DEF Restamped
<1>5. Restamped(mem[s].deps, F) \in Deps(s)
  BY <1>4, DepsType
<1>6. [mem[s] EXCEPT !.deps = Restamped(@, F)] \in Entry(s)
  BY <1>5, EntryType
<1>7. \A f \in D : Restamped(mem[s].deps, F)[f].content = mem[s].deps[f].content
  BY <1>1 DEF Restamped, Fingerprint
<1>. QED  BY <1>1, <1>4, <1>6, <1>7

\* The sessions have the types of their kinds.
LEMMA SessionType ==
  ASSUME Typed, session # None
  PROVE  /\ session.sig \in Nat /\ session.runtime \in Nat
         /\ session.select \in {"all", "some"}
         /\ session.custom \in BOOLEAN /\ session.tier \in {"off", "build", "full"}
         /\ session.scope \in SUBSET Spec
BY SessionAssumption DEF Typed, ProgressTypes, SessionKind

\* What StartBuild chooses, with the fields it sets.
LEMMA StartBuildEffect ==
  ASSUME Typed, NEW s \in Spec, StartBuild(s)
  PROVE  /\ due' = [due EXCEPT ![s] = [files |-> [f \in Reads(s) |-> src[f].content],
                                       sig |-> session.sig]]
         /\ \/ /\ Cached /\ ~session.custom /\ \E expired \in BOOLEAN : IsBuildFresh(s, expired)
               /\ stage' = [stage EXCEPT ![s] = "run"]
            \/ stage' = [stage EXCEPT ![s] = "building"]
         /\ \/ mem' = mem /\ dirty' = dirty
            \/ /\ Cached /\ ~session.custom /\ mem[s] # None /\ dirty'
               /\ \E F \in SUBSET Touched(mem[s].deps) :
                    mem' = [mem EXCEPT ![s].deps = Restamped(@, F)]
<1>1. PICK expired \in BOOLEAN :
        LET checks == Cached /\ ~session.custom
            fresh == checks /\ IsBuildFresh(s, expired)
            touched == IF checks /\ mem[s] # None THEN Touched(mem[s].deps) ELSE {}
        IN  \E F \in IF fresh THEN {touched} ELSE SUBSET touched :
              /\ stage' = [stage EXCEPT ![s] = IF fresh THEN "run" ELSE "building"]
              /\ mem' = IF F = {} THEN mem
                        ELSE [mem EXCEPT ![s].deps = Restamped(@, F)]
              /\ dirty' = (dirty \/ F # {})
  BY DEF StartBuild
<1> DEFINE checks == Cached /\ ~session.custom
           fresh == checks /\ IsBuildFresh(s, expired)
           touched == IF checks /\ mem[s] # None THEN Touched(mem[s].deps) ELSE {}
<1>2. PICK F \in SUBSET touched :
        /\ stage' = [stage EXCEPT ![s] = IF fresh THEN "run" ELSE "building"]
        /\ mem' = IF F = {} THEN mem ELSE [mem EXCEPT ![s].deps = Restamped(@, F)]
        /\ dirty' = (dirty \/ F # {})
  <2>1. \A x \in IF fresh THEN {touched} ELSE SUBSET touched : x \in SUBSET touched
    OBVIOUS
  <2>. QED  BY <1>1, <2>1
<1>3. dirty \in BOOLEAN
  BY DEF Typed, ManifestTypes
<1>4. due' = [due EXCEPT ![s] = [files |-> [f \in Reads(s) |-> src[f].content],
                                 sig |-> session.sig]]
  BY DEF StartBuild
<1>5. \/ /\ Cached /\ ~session.custom /\ \E x \in BOOLEAN : IsBuildFresh(s, x)
         /\ stage' = [stage EXCEPT ![s] = "run"]
      \/ stage' = [stage EXCEPT ![s] = "building"]
  BY <1>2
<1>6. CASE F = {}
  BY <1>2, <1>3, <1>4, <1>5, <1>6
<1>7. CASE F # {}
  <2>1. checks /\ mem[s] # None /\ F \in SUBSET Touched(mem[s].deps)
    BY <1>7
  <2>2. dirty' /\ mem' = [mem EXCEPT ![s].deps = Restamped(@, F)]
    BY <1>2, <1>7
  <2>. QED  BY <2>1, <2>2, <1>4, <1>5
<1>. QED  BY <1>6, <1>7

\* Changing one entry of a table.
LEMMA ExceptIndexed ==
  ASSUME NEW v, v = [t \in Spec |-> v[t]], NEW s \in Spec, NEW x, NEW w,
         w = [v EXCEPT ![s] = x]
  PROVE  /\ w = [t \in Spec |-> w[t]] /\ w[s] = x
         /\ \A t \in Spec : t # s => w[t] = v[t]
<1>1. DOMAIN v = Spec
  OBVIOUS
<1>. QED  BY <1>1

LEMMA InitTypes == Init => Typed
<1> SUFFICES ASSUME Init PROVE Typed
  OBVIOUS
<1>1. OutsideTypes
  <2>1. PICK c \in Content \ (Broken \cup Failing) :
          src = [f \in Source |-> [content |-> c, stamp |-> 0]]
    BY DEF Init
  <2>2. src \in [Source -> File]
    BY <2>1, EditsAssumption DEF File
  <2>. QED  BY <2>2, FileAssumption, EditsAssumption DEF Init, OutsideTypes
<1>2. ArtifactTypes
  BY DEF Init, ArtifactTypes, Indexed
<1>3. ManifestTypes
  BY DEF Init, ManifestTypes, Indexed, NoEntries
<1>4. ProgressTypes
  BY DEF Init, ProgressTypes, Indexed
<1>5. GapTypes
  BY DEF Init, GapTypes
<1>6. StageTypes
  BY DEF Init, StageTypes
<1>. QED  BY <1>1, <1>2, <1>3, <1>4, <1>5, <1>6 DEF Typed

LEMMA GivenCompiles ==
  ASSUME NEW s, NEW in \in Given(s), Compiles(in)
  PROVE  in \in Input(s)
BY DEF Given, Input, Compiles

LEMMA OverTypes ==
  ASSUME Typed, Over
  PROVE  ProgressTypes' /\ StageTypes' /\ Indexed(mem') /\ dirty' \in BOOLEAN
         /\ \A s \in Spec : mem'[s] = None
BY DEF Typed, Over, ProgressTypes, StageTypes, NoEntries, Indexed

\* What a run of s that ends now reports.
Ran(s) == [built |-> wasm[s], runtime |-> session.runtime, snap |-> Left(s),
           select |-> session.select]

LEMMA StepTypes == Typed /\ [Next]_vars => Typed'
<1> SUFFICES ASSUME Typed, [Next]_vars PROVE Typed'
  OBVIOUS
<1> USE DEF Typed
<1>1. ASSUME NEW kind \in Sessions, Begin(kind) PROVE Typed'
  <2>1. OutsideTypes' /\ ArtifactTypes' /\ GapTypes'
    BY <1>1 DEF Begin, outside, artifacts, OutsideTypes, ArtifactTypes, GapTypes
  <2>2. ManifestTypes'
    BY <1>1 DEF Begin, ManifestTypes, NoEntries, Indexed
  <2>3. ProgressTypes'
    <3>1. session' \in Sessions \cup {None} /\ live' \in SUBSET Spec
      BY <1>1 DEF Begin
    <3>2. stage' \in [Spec -> {"build", "building", "run", "running", "done"}]
      BY <1>1 DEF Begin
    <3>. QED  BY <1>1, <3>1, <3>2 DEF Begin, ProgressTypes, Indexed
  <2>4. \A s \in Spec : stage'[s] \in {"build", "done"}
    BY <1>1 DEF Begin
  <2>5. session' # None
    BY <1>1, SessionAssumption DEF Begin
  <2>. QED  BY <2>1, <2>2, <2>3, <2>4, <2>5 DEF StageTypes
<1>2. ASSUME NEW s \in Spec, StartBuild(s) PROVE Typed'
  <2>0. session # None /\ stage[s] = "build"
    BY <1>2 DEF StartBuild
  <2>1. OutsideTypes' /\ ArtifactTypes' /\ GapTypes'
    BY <1>2 DEF StartBuild, outside, artifacts, OutsideTypes, ArtifactTypes, GapTypes
  <2>2. ManifestTypes'
    <3>1. CASE mem' = mem /\ dirty' = dirty
      BY <1>2, <3>1 DEF StartBuild, ManifestTypes
    <3>2. ASSUME dirty', mem[s] # None, NEW F \in SUBSET Touched(mem[s].deps),
                 mem' = [mem EXCEPT ![s].deps = Restamped(@, F)]
          PROVE  ManifestTypes'
      <4>1. mem[s] \in Entry(s)
        BY <3>2 DEF ManifestTypes
      <4>2. [mem[s] EXCEPT !.deps = Restamped(@, F)] \in Entry(s)
        BY <4>1, RestampedType
      <4>3. mem' = [mem EXCEPT ![s] = [mem[s] EXCEPT !.deps = Restamped(@, F)]]
        BY <3>2
      <4>4. /\ mem' = [t \in Spec |-> mem'[t]]
            /\ mem'[s] \in Entry(s) /\ \A t \in Spec : t # s => mem'[t] = mem[t]
        BY <4>2, <4>3, ExceptIndexed DEF ManifestTypes, Indexed
      <4>5. disk' = disk /\ dirty' \in BOOLEAN
        <5>1. dirty' \in BOOLEAN
          BY <1>2, StartBuildEffect DEF StartBuild, ManifestTypes
        <5>. QED  BY <1>2, <5>1 DEF StartBuild
      <4>. QED  BY <4>4, <4>5 DEF ManifestTypes, Indexed
    <3>. QED  BY <1>2, <3>1, <3>2, StartBuildEffect
  <2>3. PICK to \in {"run", "building"} : stage' = [stage EXCEPT ![s] = to]
    BY <1>2, StartBuildEffect
  <2>4. [files |-> [f \in Reads(s) |-> src[f].content], sig |-> session.sig] \in Given(s)
    <3>1. \A f \in Reads(s) : src[f].content \in Content \cup {None}
      BY FileAssumption DEF OutsideTypes, File, Reads, Source
    <3>. QED  BY <2>0, <3>1, SessionType DEF Given
  <2>5. /\ due' = [t \in Spec |-> due'[t]]
        /\ due'[s] = [files |-> [f \in Reads(s) |-> src[f].content], sig |-> session.sig]
        /\ \A t \in Spec : t # s => due'[t] = due[t]
    BY <1>2, ExceptIndexed, StartBuildEffect DEF ProgressTypes, Indexed
  <2>6. ProgressTypes'
    BY <1>2, <2>3, <2>5 DEF StartBuild, ProgressTypes, Indexed
  <2>7. stage'[s] = "run" => wasm[s] # None
    BY <1>2, StartBuildEffect DEF ProgressTypes, IsBuildFresh
  <2>8. StageTypes'
    <3>1. UNCHANGED <<session, wasm, read>>
      BY <1>2 DEF StartBuild, artifacts
    <3>2. stage'[s] = to /\ \A t \in Spec : t # s => stage'[t] = stage[t]
      BY <2>3 DEF ProgressTypes
    <3>3. due'[s] \in Given(s) /\ due'[s].sig = session.sig
      BY <2>4, <2>5
    <3>. QED  BY <2>0, <2>5, <2>7, <3>1, <3>2, <3>3 DEF StageTypes
  <2>. QED  BY <2>1, <2>2, <2>6, <2>8
<1>3. ASSUME NEW s \in Spec, FailBuild(s) PROVE Typed'
  <2>1. OutsideTypes' /\ ArtifactTypes' /\ ManifestTypes' /\ GapTypes'
    BY <1>3 DEF FailBuild, outside, artifacts, manifest, OutsideTypes, ArtifactTypes,
                ManifestTypes, GapTypes
  <2>2. /\ answer' = [t \in Spec |-> answer'[t]] /\ answer'[s] = BuildError
        /\ \A t \in Spec : t # s => answer'[t] = answer[t]
    BY <1>3, ExceptIndexed DEF FailBuild, ProgressTypes, Indexed
  <2>3. ProgressTypes'
    BY <1>3, <2>2 DEF FailBuild, ProgressTypes, Indexed
  <2>4. StageTypes'
    BY <1>3 DEF FailBuild, artifacts, ProgressTypes, StageTypes
  <2>. QED  BY <2>1, <2>3, <2>4
<1>4. ASSUME NEW s \in Spec, EndBuild(s) PROVE Typed'
  <2>0. session # None /\ stage[s] = "building" /\ due[s] \in Input(s) /\ due[s] \in Given(s)
    BY <1>4, GivenCompiles DEF EndBuild, StageTypes
  <2>1. /\ wasm' = [t \in Spec |-> wasm'[t]] /\ wasm'[s] = due[s]
        /\ \A t \in Spec : t # s => wasm'[t] = wasm[t]
    BY <1>4, ExceptIndexed DEF EndBuild, ArtifactTypes, Indexed
  <2>2. OutsideTypes' /\ ProgressTypes'
    BY <1>4 DEF EndBuild, outside, OutsideTypes, ProgressTypes
  <2>3. /\ Indexed(report)' /\ \A t \in Spec : report'[t] = None \/ report'[t] \in Report(t)
        /\ Indexed(mem)' /\ \A t \in Spec : mem'[t] = None \/ mem'[t] \in Entry(t)
        /\ dirty' \in BOOLEAN
    <3>1. CASE UNCHANGED <<report, mem, dirty>>
      BY <3>1 DEF ArtifactTypes, ManifestTypes, Indexed
    <3>2. CASE RecordBuild(s)
      <4>1. /\ mem' = [t \in Spec |-> mem'[t]] /\ mem'[s] = Recorded(s)
            /\ \A t \in Spec : t # s => mem'[t] = mem[t]
        BY <3>2, ExceptIndexed DEF RecordBuild, ManifestTypes, Indexed
      <4>2. /\ report' = [t \in Spec |-> report'[t]]
            /\ report'[s] \in {None, report[s]}
            /\ \A t \in Spec : t # s => report'[t] = report[t]
        <5>1. CASE report' = report
          BY <5>1 DEF ArtifactTypes, Indexed
        <5>2. CASE report' = [report EXCEPT ![s] = None]
          BY <5>2, ExceptIndexed DEF ArtifactTypes, Indexed
        <5>. QED  BY <3>2, <5>1, <5>2 DEF RecordBuild
      <4>3. Recorded(s) \in Entry(s)
        BY <2>0, RecordedType
      <4>4. dirty' \in BOOLEAN
        BY <3>2 DEF RecordBuild
      <4>5. \A t \in Spec : mem'[t] = None \/ mem'[t] \in Entry(t)
        BY <4>1, <4>3 DEF ManifestTypes
      <4>6. \A t \in Spec : report'[t] = None \/ report'[t] \in Report(t)
        BY <4>2 DEF ArtifactTypes
      <4>. QED  BY <4>1, <4>2, <4>4, <4>5, <4>6 DEF Indexed
    <3>. QED  BY <1>4, <3>1, <3>2 DEF EndBuild
  <2>4. ArtifactTypes'
    BY <2>0, <2>1, <2>3 DEF ArtifactTypes, Indexed
  <2>5. ManifestTypes'
    BY <1>4, <2>3 DEF EndBuild, ManifestTypes, Indexed
  <2>6. GapTypes'
    BY <1>4 DEF EndBuild, GapTypes, Cause
  <2>7. StageTypes'
    <3>1. due[s] # None
      BY <2>0, NoneAssumption DEF Given
    <3>2. stage'[s] = "run" /\ \A t \in Spec : t # s => stage'[t] = stage[t]
      BY <1>4 DEF EndBuild, ProgressTypes
    <3>3. UNCHANGED <<session, due, read>>
      BY <1>4 DEF EndBuild
    <3>. QED  BY <2>0, <2>1, <3>1, <3>2, <3>3 DEF StageTypes
  <2>. QED  BY <2>2, <2>4, <2>5, <2>6, <2>7
<1>5. ASSUME NEW s \in Spec, Replay(s) PROVE Typed'
  <2>1. OutsideTypes' /\ ArtifactTypes' /\ ManifestTypes' /\ GapTypes'
    BY <1>5 DEF Replay, outside, artifacts, manifest, OutsideTypes, ArtifactTypes,
                ManifestTypes, GapTypes
  <2>2. report[s] \in Report(s) /\ session.select \in {"all", "some"}
    BY <1>5, SessionType DEF Replay, Replays, CanReplay, ArtifactTypes
  <2>3. [report[s] EXCEPT !.select = session.select] \in Report(s)
    BY <2>2 DEF Report
  <2>4. PICK r \in Report(s) : answer' = [answer EXCEPT ![s] = r]
    BY <1>5, <2>2, <2>3 DEF Replay
  <2>5. /\ answer' = [t \in Spec |-> answer'[t]] /\ answer'[s] = r
        /\ \A t \in Spec : t # s => answer'[t] = answer[t]
    BY <2>4, ExceptIndexed DEF ProgressTypes, Indexed
  <2>6. read' \in [Spec -> Content \cup {None}] /\ \A t \in Spec : t # s => read'[t] = read[t]
    BY <1>5 DEF Replay, ProgressTypes, OutsideTypes
  <2>7. ProgressTypes'
    BY <1>5, <2>5, <2>6 DEF Replay, ProgressTypes, Indexed
  <2>8. StageTypes'
    <3>1. stage'[s] = "done" /\ \A t \in Spec : t # s => stage'[t] = stage[t]
      BY <1>5 DEF Replay, ProgressTypes
    <3>2. UNCHANGED <<session, due, wasm>>
      BY <1>5 DEF Replay, artifacts
    <3>. QED  BY <2>6, <3>1, <3>2 DEF StageTypes
  <2>. QED  BY <2>1, <2>7, <2>8
<1>14. ASSUME NEW s \in Spec, StartRun(s) PROVE Typed'
  <2>0. session # None /\ stage[s] = "run"
    BY <1>14 DEF StartRun
  <2>1. OutsideTypes' /\ ArtifactTypes' /\ ManifestTypes' /\ GapTypes'
    BY <1>14 DEF StartRun, outside, artifacts, manifest, OutsideTypes, ArtifactTypes,
                 ManifestTypes, GapTypes
  <2>2. /\ read' \in [Spec -> Content \cup {None}]
        /\ read'[s] \in Content /\ \A t \in Spec : t # s => read'[t] = read[t]
    BY <1>14 DEF StartRun, ProgressTypes, OutsideTypes
  <2>3. /\ stage' \in [Spec -> {"build", "building", "run", "running", "done"}]
        /\ stage'[s] = "running" /\ \A t \in Spec : t # s => stage'[t] = stage[t]
    BY <1>14 DEF StartRun, ProgressTypes
  <2>4. ProgressTypes'
    BY <1>14, <2>2, <2>3 DEF StartRun, ProgressTypes, Indexed
  <2>5. UNCHANGED <<session, due, wasm>>
    BY <1>14 DEF StartRun, artifacts
  <2>6. StageTypes'
    BY <2>0, <2>2, <2>3, <2>5 DEF StageTypes
  <2>. QED  BY <2>1, <2>4, <2>6
<1>6. ASSUME NEW s \in Spec, EndRun(s) PROVE Typed'
  <2> DEFINE r == Ran(s)
             sha == snap'[s]
  <2>0. session # None /\ stage[s] = "running" /\ wasm[s] \in Input(s) /\ Left(s) \in Content
    BY <1>6, FileAssumption DEF EndRun, StageTypes, ArtifactTypes, Left
  <2>1. OutsideTypes'
    BY <1>6, <2>0 DEF EndRun, OutsideTypes
  <2>2. r \in Report(s) /\ r.runtime \in Nat /\ sha \in Content
    <3>1. snap'[s] \in Content
      BY <2>1 DEF OutsideTypes
    <3>. QED  BY <2>0, <3>1, SessionType DEF Report, Ran
  <2>3. answer' = [answer EXCEPT ![s] = r] /\ RecordReport(s, r, sha)
    BY <1>6 DEF EndRun, Ran
  <2> HIDE DEF r, sha
  <2>4. /\ answer' = [t \in Spec |-> answer'[t]] /\ answer'[s] = r
        /\ \A t \in Spec : t # s => answer'[t] = answer[t]
    BY <2>3, ExceptIndexed DEF ProgressTypes, Indexed
  <2>5. ProgressTypes'
    BY <1>6, <2>2, <2>4 DEF EndRun, ProgressTypes, Indexed
  <2>6. StageTypes'
    BY <1>6 DEF EndRun, ProgressTypes, StageTypes
  <2>7. GapTypes'
    BY <2>3 DEF RecordReport, GapTypes, Cause
  <2>8. CASE Cached /\ mem[s] # None
    <3>1. /\ report' = [t \in Spec |-> report'[t]] /\ report'[s] = r
          /\ \A t \in Spec : t # s => report'[t] = report[t]
      BY <2>3, <2>8, ExceptIndexed DEF RecordReport, ArtifactTypes, Indexed
    <3>2. ArtifactTypes'
      BY <1>6, <2>2, <3>1 DEF EndRun, ArtifactTypes, Indexed
    <3>3. mem' = [mem EXCEPT ![s] = [mem[s] EXCEPT !.report = TRUE, !.runtime = r.runtime,
                                                  !.snap = sha]]
      BY <2>3, <2>8 DEF RecordReport
    <3>4. [mem[s] EXCEPT !.report = TRUE, !.runtime = r.runtime, !.snap = sha] \in Entry(s)
      BY <2>2, <2>8, EntryType DEF ManifestTypes
    <3>5. /\ mem' = [t \in Spec |-> mem'[t]] /\ mem'[s] \in Entry(s)
          /\ \A t \in Spec : t # s => mem'[t] = mem[t]
      BY <3>3, <3>4, ExceptIndexed DEF ManifestTypes, Indexed
    <3>6. ManifestTypes'
      BY <1>6, <2>3, <2>8, <3>5 DEF EndRun, RecordReport, ManifestTypes, Indexed
    <3>. QED  BY <2>1, <2>5, <2>6, <2>7, <3>2, <3>6
  <2>9. CASE ~(Cached /\ mem[s] # None)
    <3>1. UNCHANGED <<report, mem, dirty>>
      BY <2>3, <2>9 DEF RecordReport
    <3>2. ArtifactTypes' /\ ManifestTypes'
      BY <1>6, <3>1 DEF EndRun, ArtifactTypes, ManifestTypes, Indexed
    <3>. QED  BY <2>1, <2>5, <2>6, <2>7, <3>2
  <2>. QED  BY <2>8, <2>9
<1>7. ASSUME NEW s \in Spec, Throw(s) PROVE Typed'
  <2>1. OutsideTypes' /\ ArtifactTypes' /\ ManifestTypes' /\ GapTypes'
    BY <1>7 DEF Throw, outside, artifacts, manifest, OutsideTypes, ArtifactTypes,
                ManifestTypes, GapTypes
  <2>2. stage' \in [Spec -> {"build", "building", "run", "running", "done"}]
    BY <1>7 DEF Throw, ProgressTypes
  <2>3. \A t \in Spec : stage'[t] = "done" \/ stage'[t] = stage[t]
    BY <1>7 DEF Throw
  <2>4. ProgressTypes'
    BY <1>7, <2>2 DEF Throw, ProgressTypes
  <2>5. StageTypes'
    BY <1>7, <2>3 DEF Throw, artifacts, StageTypes
  <2>. QED  BY <2>1, <2>4, <2>5
<1>8. CASE End
  <2>0. Over /\ UNCHANGED <<outside, wasm, gap>>
    BY <1>8 DEF End
  <2>1. OutsideTypes' /\ GapTypes' /\ ProgressTypes' /\ StageTypes'
    BY <2>0, OverTypes DEF outside, OutsideTypes, GapTypes
  <2>2. ArtifactTypes'
    <3>1. CASE report' = report
      BY <2>0, <3>1 DEF ArtifactTypes, Indexed
    <3>2. CASE report' = [s \in Spec |-> IF s \in Pruned /\ mem[s].report THEN None ELSE report[s]]
      BY <2>0, <3>2 DEF ArtifactTypes, Indexed
    <3>. QED  BY <1>8, <3>1, <3>2 DEF End
  <2>3. disk' = [t \in Spec |-> disk'[t]] /\ \A t \in Spec : disk'[t] = None \/ disk'[t] \in Entry(t)
    <3>1. CASE disk' = disk
      BY <3>1 DEF ManifestTypes, Indexed
    <3>2. CASE disk' = [s \in Spec |-> IF s \in Pruned THEN None ELSE mem[s]]
      BY <3>2 DEF ManifestTypes
    <3>. QED  BY <1>8, <3>1, <3>2 DEF End
  <2>4. ManifestTypes'
    <3>1. mem' = [t \in Spec |-> mem'[t]] /\ (\A t \in Spec : mem'[t] = None) /\ dirty' \in BOOLEAN
      BY <2>0, OverTypes DEF Indexed
    <3>. QED  BY <2>3, <3>1 DEF ManifestTypes, Indexed
  <2>. QED  BY <2>1, <2>2, <2>4
<1>9. CASE Kill
  <2>1. Over /\ UNCHANGED <<outside, artifacts, disk>>
    BY <1>9 DEF Kill
  <2>2. OutsideTypes' /\ ArtifactTypes' /\ ProgressTypes' /\ StageTypes'
    BY <2>1, OverTypes DEF outside, artifacts, OutsideTypes, ArtifactTypes
  <2>3. GapTypes'
    BY <1>9 DEF Kill, GapTypes, Cause
  <2>4. ManifestTypes'
    <3>1. mem' = [t \in Spec |-> mem'[t]] /\ (\A t \in Spec : mem'[t] = None) /\ dirty' \in BOOLEAN
      BY <2>1, OverTypes DEF Indexed
    <3>. QED  BY <2>1, <3>1 DEF ManifestTypes, Indexed
  <2>. QED  BY <2>2, <2>3, <2>4
<1>10. ASSUME NEW f \in Source, NEW c \in Content \cup {None}, Edit(f, c) PROVE Typed'
  <2>1. OutsideTypes'
    BY <1>10, EditsAssumption DEF Edit, OutsideTypes, File
  <2>. QED
    BY <1>10, <2>1 DEF Edit, artifacts, manifest, progress, ArtifactTypes, ManifestTypes,
                       ProgressTypes, GapTypes, StageTypes
<1>11. ASSUME NEW s \in Spec, NEW c \in Content \ Broken, EditSnapshot(s, c) PROVE Typed'
  <2>1. OutsideTypes'
    BY <1>11, EditsAssumption DEF EditSnapshot, OutsideTypes
  <2>. QED
    BY <1>11, <2>1 DEF EditSnapshot, artifacts, manifest, progress, ArtifactTypes,
                       ManifestTypes, ProgressTypes, GapTypes, StageTypes
<1>12. CASE RemoveOutput \/ Clean \/ Upgrade
  <2>0. session = None /\ UNCHANGED <<outside, mem, dirty, progress, gap>>
    BY <1>12 DEF RemoveOutput, Clean, Upgrade, manifest
  <2>1. OutsideTypes' /\ ProgressTypes' /\ GapTypes'
    BY <2>0 DEF outside, progress, OutsideTypes, ProgressTypes, GapTypes
  <2>2. StageTypes'
    BY <2>0 DEF progress, StageTypes
  <2>3. wasm' = wasm \/ wasm' = [s \in Spec |-> None]
    BY <1>12 DEF RemoveOutput, Clean, Upgrade, artifacts
  <2>4. report' = report \/ report' = [s \in Spec |-> None]
    BY <1>12 DEF RemoveOutput, Clean, Upgrade, artifacts
  <2>5. disk' = disk \/ disk' = [s \in Spec |-> None]
    BY <1>12 DEF RemoveOutput, Clean, Upgrade, manifest, NoEntries
  <2>6. Indexed(wasm)' /\ \A s \in Spec : wasm'[s] = None \/ wasm'[s] \in Input(s)
    BY <2>3 DEF ArtifactTypes, Indexed
  <2>7. Indexed(report)' /\ \A s \in Spec : report'[s] = None \/ report'[s] \in Report(s)
    BY <2>4 DEF ArtifactTypes, Indexed
  <2>8. ArtifactTypes'
    BY <2>6, <2>7 DEF ArtifactTypes, Indexed
  <2>9. ManifestTypes'
    BY <2>0, <2>5 DEF ManifestTypes, Indexed
  <2>. QED  BY <2>1, <2>2, <2>8, <2>9
<1>13. CASE UNCHANGED vars
  BY <1>13 DEF vars, outside, artifacts, manifest, progress, OutsideTypes, ArtifactTypes,
               ManifestTypes, ProgressTypes, GapTypes, StageTypes, Indexed
<1>. QED
  BY <1>1, <1>2, <1>3, <1>4, <1>5, <1>6, <1>7, <1>8, <1>9, <1>10, <1>11, <1>12, <1>13,
     <1>14 DEF Next

\* Artifacts, entries, reports and answers keep their types: in particular what a
\* session runs is there, and was compiled from sources that compile.
THEOREM TypeCorrect == CacheSpec => []TypeOK
<1>. QED
  BY InitTypes, StepTypes, TypedIsTypeOK, PTL DEF CacheSpec

-------------------------------------------------------------------------------
(* What the entries, the files beside them and the answers have to do with *)
(* each other.                                                             *)

\* The manifest that speaks for the files: the session's, if it uses the cache.
Held == IF session # None /\ Cached THEN mem ELSE disk

\* What entry e of s says its .wasm was built from.
Described(e, s) == [files |-> [f \in Reads(s) |-> e.deps[f].content], sig |-> e.sig]

\* No gap but those that EndRun may close.
Sound(s) == gap[s] \subseteq {"partial", "resnapped"}

\* A recorded stamp is enough to tell that a file has not changed.
Stamped(e) ==
  e # None =>
  \A f \in DOMAIN e.deps :
    /\ e.deps[f].stamp <= edits
    /\ e.deps[f].stamp = src[f].stamp => e.deps[f].content = src[f].content
Stamps ==
  /\ \A f \in Source : src[f].stamp <= edits
  /\ \A s \in Spec : Stamped(disk[s]) /\ Stamped(mem[s])

\* The session's manifest is the saved one but for what it has to save; a custom
\* build command leaves it without new entries.
Saved ==
  session # None /\ Cached =>
    /\ ~dirty => mem = disk
    /\ session.custom => \A s \in Spec : disk[s] = None => mem[s] = None

\* DiskConsistent, extended to sessions.
WasmAsHeld(e, s) ==
  e # None /\ Sound(s) => DOMAIN e.deps = Reads(s) /\ wasm[s] \in {None, Described(e, s)}
ReportAsHeld(e, s) ==
  e # None /\ gap[s] = {} /\ e.report /\ report[s] # None =>
    report[s] = [built |-> Described(e, s), runtime |-> e.runtime, snap |-> e.snap,
                 select |-> "all"]
Consistent == \A s \in Spec : WasmAsHeld(Held[s], s) /\ ReportAsHeld(Held[s], s)

\* The session runs what it should have built, and has reported what came of it.
Current ==
  session # None =>
  \A s \in Spec :
    /\ stage[s] \in {"run", "running"} /\ Sound(s) => wasm[s] = due[s]
    /\ answer[s] \notin {None, BuildError} =>
         stage[s] = "done" /\ (gap[s] = {} => TrueReport(s))

IInv == Typed /\ Stamps /\ Saved /\ Consistent /\ Current

\* An entry or the sources as recorded are stamped rightly.
LEMMA EntryDeps ==
  ASSUME NEW s \in Spec, NEW e \in Entry(s)
  PROVE  /\ DOMAIN e.deps \subseteq Reads(s) /\ Reads(s) \subseteq Source
         /\ \A f \in DOMAIN e.deps : e.deps[f] \in Fingerprint
<1>1. PICK D \in SUBSET Reads(s) : e.deps \in [D -> Fingerprint]
  BY EntryType, DepsType
<1>. QED  BY <1>1, FileAssumption DEF Reads, Source

\* What may change the manifest of a session: one entry, to one of these.
LEMMA MemChange ==
  ASSUME Typed, NEW s \in Spec, NEW e, mem' = [mem EXCEPT ![s] = e]
  PROVE  mem'[s] = e /\ \A t \in Spec : t # s => mem'[t] = mem[t]
BY ExceptIndexed DEF Typed, ManifestTypes, Indexed

\* What EndRun records, if there is an entry, and the gaps it opens.
LEMMA EndRunEffect ==
  ASSUME NEW s, EndRun(s)
  PROVE  /\ answer' = [answer EXCEPT ![s] = Ran(s)]
         /\ Cached /\ mem[s] # None =>
              /\ report' = [report EXCEPT ![s] = Ran(s)]
              /\ mem' = [mem EXCEPT ![s] = [mem[s] EXCEPT !.report = TRUE,
                           !.runtime = session.runtime, !.snap = snap'[s]]]
              /\ dirty'
              /\ \E opened :
                   /\ gap' = [gap EXCEPT ![s] = (gap[s] \ {"partial", "resnapped"}) \cup opened]
                   /\ session.select = "some" => opened # {}
                   /\ Left(s) # snap'[s] => opened # {}
         /\ ~(Cached /\ mem[s] # None) => UNCHANGED <<report, mem, dirty, gap>>
<1>1. answer' = [answer EXCEPT ![s] = Ran(s)] /\ RecordReport(s, Ran(s), snap'[s])
  BY DEF EndRun, Ran
<1>2. /\ Ran(s).select = session.select /\ Ran(s).snap = Left(s)
      /\ Ran(s).runtime = session.runtime
  BY DEF Ran
<1>3. ASSUME Cached, mem[s] # None
      PROVE  /\ report' = [report EXCEPT ![s] = Ran(s)]
             /\ mem' = [mem EXCEPT ![s] = [mem[s] EXCEPT !.report = TRUE,
                          !.runtime = session.runtime, !.snap = snap'[s]]]
             /\ dirty'
             /\ \E opened :
                  /\ gap' = [gap EXCEPT ![s] = (gap[s] \ {"partial", "resnapped"}) \cup opened]
                  /\ session.select = "some" => opened # {}
                  /\ Left(s) # snap'[s] => opened # {}
  <2> DEFINE opened == (IF Ran(s).select = "some" THEN {"partial"} ELSE {})
                         \cup (IF Ran(s).snap # snap'[s] THEN {"resnapped"} ELSE {})
             left == gap[s] \ {"partial", "resnapped"}
             seen == IF Ran(s).select = "some" THEN {"partial"} ELSE {}
             changed == IF Ran(s).snap # snap'[s] THEN {"resnapped"} ELSE {}
  <2>1. gap' = [gap EXCEPT ![s] = left \cup seen \cup changed]
    BY <1>1, <1>3 DEF RecordReport
  <2>2. left \cup seen \cup changed = left \cup opened
    OBVIOUS
  <2>3. gap' = [gap EXCEPT ![s] = left \cup opened]
    BY <2>1, <2>2
  <2>4. (session.select = "some" => opened # {}) /\ (Left(s) # snap'[s] => opened # {})
    BY <1>2
  <2>5. /\ report' = [report EXCEPT ![s] = Ran(s)] /\ dirty'
        /\ mem' = [mem EXCEPT ![s] = [mem[s] EXCEPT !.report = TRUE,
                     !.runtime = session.runtime, !.snap = snap'[s]]]
    BY <1>1, <1>2, <1>3 DEF RecordReport
  <2> HIDE DEF opened
  <2>. QED  BY <2>3, <2>4, <2>5
<1>4. ~(Cached /\ mem[s] # None) => UNCHANGED <<report, mem, dirty, gap>>
  BY <1>1 DEF RecordReport
<1>. QED  BY <1>1, <1>3, <1>4

LEMMA StepStamps == Typed /\ Stamps /\ [Next]_vars => Stamps'
<1> SUFFICES ASSUME Typed, Stamps, [Next]_vars PROVE Stamps'
  OBVIOUS
<1>0. /\ \A f \in Source : src[f] \in File
      /\ edits \in Nat
      /\ \A s \in Spec : (disk[s] # None => disk[s] \in Entry(s)) /\ (mem[s] # None => mem[s] \in Entry(s))
  BY EditsAssumption DEF Typed, OutsideTypes, ManifestTypes
<1>1. ASSUME UNCHANGED <<src, edits>>, NEW e, Stamped(e) PROVE Stamped(e)'
  BY <1>1 DEF Stamped
<1>2. ASSUME UNCHANGED <<src, edits>>, \A s \in Spec : Stamped(disk'[s]) /\ Stamped(mem'[s])
      PROVE  Stamps'
  BY <1>2 DEF Stamps, Stamped
<1>3. ASSUME NEW s \in Spec, StartBuild(s) PROVE Stamps'
  <2>1. UNCHANGED <<src, edits, disk>>
    BY <1>3 DEF StartBuild, outside
  <2>2. \A t \in Spec : Stamped(mem'[t])
    <3>1. ASSUME mem[s] # None, NEW F \in SUBSET Touched(mem[s].deps),
                 mem' = [mem EXCEPT ![s].deps = Restamped(@, F)]
          PROVE  \A t \in Spec : Stamped(mem'[t])
      <4>1. mem[s] \in Entry(s) /\ Stamped(mem[s])
        BY <3>1, <1>0 DEF Stamps
      <4>2. mem' = [mem EXCEPT ![s] = [mem[s] EXCEPT !.deps = Restamped(@, F)]]
        BY <3>1
      <4>3. /\ mem'[s] = [mem[s] EXCEPT !.deps = Restamped(@, F)]
            /\ \A t \in Spec : t # s => mem'[t] = mem[t]
        BY <4>2, MemChange
      <4>4. mem'[s].deps = Restamped(mem[s].deps, F)
        BY <4>1, <4>3, EntryType
      <4>5. ASSUME NEW f \in DOMAIN mem[s].deps
            PROVE  /\ mem'[s].deps[f].stamp <= edits
                   /\ mem'[s].deps[f].stamp = src[f].stamp =>
                        mem'[s].deps[f].content = src[f].content
        <5>1. f \in Source /\ mem[s].deps[f] \in Fingerprint
          BY <4>1, EntryDeps
        <5>2. CASE f \in F
          <6>1. mem'[s].deps[f].stamp = src[f].stamp /\ mem'[s].deps[f].content = mem[s].deps[f].content
            BY <4>4, <5>1, <5>2 DEF Restamped, Fingerprint
          <6>2. mem[s].deps[f].content = src[f].content
            BY <3>1, <5>2 DEF Touched
          <6>. QED  BY <6>1, <6>2, <5>1 DEF Stamps
        <5>3. CASE f \notin F
          <6>1. mem'[s].deps[f] = mem[s].deps[f]
            BY <4>4, <5>3 DEF Restamped
          <6>. QED  BY <6>1, <4>1, <3>1 DEF Stamped
        <5>. QED  BY <5>2, <5>3
      <4>6. DOMAIN mem'[s].deps = DOMAIN mem[s].deps
        BY <4>4 DEF Restamped
      <4>7. Stamped(mem'[s])
        BY <4>5, <4>6 DEF Stamped
      <4>. QED  BY <4>3, <4>7 DEF Stamps
    <3>. QED  BY <1>3, <3>1, StartBuildEffect DEF Stamps
  <2>. QED  BY <1>2, <2>1, <2>2 DEF Stamps
<1>4. ASSUME NEW s \in Spec, EndBuild(s) PROVE Stamps'
  <2>1. UNCHANGED <<src, edits, disk>>
    BY <1>4 DEF EndBuild, outside
  <2>2. CASE mem' = mem
    BY <1>2, <2>1, <2>2 DEF Stamps
  <2>3. CASE mem' = [mem EXCEPT ![s] = Recorded(s)]
    <3>1. mem'[s] = Recorded(s) /\ \A t \in Spec : t # s => mem'[t] = mem[t]
      BY <2>3, MemChange
    <3>2. Reads(s) \subseteq Source
      BY FileAssumption DEF Reads, Source
    <3>3. Stamped(Recorded(s))
      BY <3>2 DEF Stamped, Recorded, Stamps
    <3>. QED  BY <1>2, <2>1, <3>1, <3>3 DEF Stamps
  <2>. QED  BY <1>4, <2>2, <2>3 DEF EndBuild, RecordBuild
<1>5. ASSUME NEW s \in Spec, EndRun(s) PROVE Stamps'
  <2>1. UNCHANGED <<src, edits, disk>>
    BY <1>5 DEF EndRun
  <2>2. CASE mem' = mem
    BY <1>2, <2>1, <2>2 DEF Stamps
  <2>3. CASE mem[s] # None /\ mem' # mem
    <3>1. mem' = [mem EXCEPT ![s] = [mem[s] EXCEPT !.report = TRUE,
                                     !.runtime = session.runtime, !.snap = snap'[s]]]
      BY <1>5, <2>3, EndRunEffect
    <3>2. /\ mem'[s] = [mem[s] EXCEPT !.report = TRUE, !.runtime = session.runtime,
                                      !.snap = snap'[s]]
          /\ \A t \in Spec : t # s => mem'[t] = mem[t]
      BY <3>1, MemChange
    <3>3. mem'[s].deps = mem[s].deps
      BY <3>2, <2>3, <1>0, EntryType
    <3>4. Stamped(mem'[s])
      BY <3>3, <2>3 DEF Stamps, Stamped
    <3>. QED  BY <1>2, <2>1, <3>2, <3>4 DEF Stamps
  <2>. QED  BY <1>5, <2>2, <2>3, EndRunEffect
<1>6. ASSUME NEW f \in Source, NEW c, Edit(f, c) PROVE Stamps'
  <2>1. /\ edits' = edits + 1 /\ UNCHANGED <<disk, mem>>
        /\ src' = [src EXCEPT ![f] = [content |-> c, stamp |-> edits + 1]]
    BY <1>6 DEF Edit, manifest
  <2>2. src'[f].stamp = edits + 1 /\ \A g \in Source : g # f => src'[g] = src[g]
    BY <2>1 DEF Typed, OutsideTypes
  <2>3. \A g \in Source : src'[g].stamp <= edits'
    BY <1>0, <2>1, <2>2 DEF Stamps, File
  <2>4. ASSUME NEW s \in Spec, NEW e \in Entry(s), Stamped(e), e # None PROVE Stamped(e)'
    <3> SUFFICES ASSUME NEW g \in DOMAIN e.deps
                 PROVE  /\ e.deps[g].stamp <= edits'
                        /\ e.deps[g].stamp = src'[g].stamp => e.deps[g].content = src'[g].content
      BY DEF Stamped
    <3>1. g \in Source /\ e.deps[g].stamp \in Nat
      <4>1. g \in Source /\ e.deps[g] \in Fingerprint
        BY EntryDeps
      <4>. QED  BY <4>1, EditsAssumption DEF Fingerprint
    <3>2. e.deps[g].stamp <= edits
      BY <2>4 DEF Stamped
    <3>3. CASE g = f
      BY <1>0, <2>1, <2>2, <3>1, <3>2, <3>3
    <3>4. CASE g # f
      BY <1>0, <2>1, <2>2, <2>4, <3>1, <3>2, <3>4 DEF Stamped
    <3>. QED  BY <3>3, <3>4
  <2>5. ASSUME NEW s \in Spec PROVE Stamped(disk[s])' /\ Stamped(mem[s])'
    <3>1. disk[s] = None => Stamped(disk[s])'
      BY <2>1 DEF Stamped
    <3>2. mem[s] = None => Stamped(mem[s])'
      BY <2>1 DEF Stamped
    <3>3. disk[s] # None => Stamped(disk[s])'
      BY <1>0, <2>1, <2>4 DEF Stamps, Stamped
    <3>4. mem[s] # None => Stamped(mem[s])'
      BY <1>0, <2>1, <2>4 DEF Stamps, Stamped
    <3>. QED  BY <3>1, <3>2, <3>3, <3>4
  <2>. QED  BY <2>3, <2>5 DEF Stamps
<1>7. ASSUME NEW kind, Begin(kind) PROVE Stamps'
  <2>1. UNCHANGED <<src, edits, disk>> /\ mem' \in {NoEntries, disk}
    BY <1>7 DEF Begin, outside
  <2>2. \A t \in Spec : NoEntries[t] = None
    BY DEF NoEntries
  <2>. QED  BY <1>2, <2>1, <2>2 DEF Stamps, Stamped
<1>8. CASE End \/ Kill
  <2>1. UNCHANGED <<src, edits>> /\ mem' = NoEntries
    BY <1>8 DEF End, Kill, outside, Over
  <2>2. disk' \in {disk, [s \in Spec |-> IF s \in Pruned THEN None ELSE mem[s]]}
    BY <1>8 DEF End, Kill
  <2>3. \A t \in Spec : disk'[t] \in {None, disk[t], mem[t]}
    BY <2>2
  <2>4. \A t \in Spec : mem'[t] = None
    BY <2>1 DEF NoEntries
  <2>5. Stamped(None)
    BY DEF Stamped
  <2>. QED  BY <1>2, <2>1, <2>3, <2>4, <2>5 DEF Stamps
<1>9. ASSUME NEW s, NEW c, EditSnapshot(s, c) PROVE Stamps'
  <2>1. UNCHANGED <<src, disk, mem>> /\ edits' = edits + 1
    BY <1>9 DEF EditSnapshot, manifest
  <2>2. ASSUME NEW t \in Spec, NEW e \in Entry(t), Stamped(e) PROVE Stamped(e)'
    <3>1. \A f \in DOMAIN e.deps : e.deps[f].stamp \in Nat
      <4>1. \A f \in DOMAIN e.deps : e.deps[f] \in Fingerprint
        BY EntryDeps
      <4>. QED  BY <4>1, EditsAssumption DEF Fingerprint
    <3>. QED  BY <1>0, <2>1, <2>2, <3>1 DEF Stamped
  <2>3. ASSUME NEW t \in Spec PROVE Stamped(disk[t])' /\ Stamped(mem[t])'
    <3>1. disk[t] = None => Stamped(disk[t])'
      BY <2>1 DEF Stamped
    <3>2. mem[t] = None => Stamped(mem[t])'
      BY <2>1 DEF Stamped
    <3>3. disk[t] # None => Stamped(disk[t])'
      BY <1>0, <2>1, <2>2 DEF Stamps, Stamped
    <3>4. mem[t] # None => Stamped(mem[t])'
      BY <1>0, <2>1, <2>2 DEF Stamps, Stamped
    <3>. QED  BY <3>1, <3>2, <3>3, <3>4
  <2>4. \A f \in Source : src'[f].stamp <= edits'
    BY <1>0, <2>1 DEF Stamps, File
  <2>. QED  BY <2>3, <2>4 DEF Stamps
<1>10. CASE RemoveOutput \/ Clean \/ Upgrade
  <2>1. UNCHANGED <<src, edits, mem>> /\ disk' \in {disk, NoEntries}
    BY <1>10 DEF RemoveOutput, Clean, Upgrade, outside, manifest
  <2>2. \A t \in Spec : NoEntries[t] = None
    BY DEF NoEntries
  <2>. QED  BY <1>2, <2>1, <2>2 DEF Stamps, Stamped
<1>11. ASSUME UNCHANGED <<outside, manifest>> PROVE Stamps'
  BY <1>2, <1>11 DEF outside, manifest, Stamps
<1>. QED
  BY <1>3, <1>4, <1>5, <1>6, <1>7, <1>8, <1>9, <1>10, <1>11
     DEF Next, FailBuild, Replay, StartRun, Throw, vars

LEMMA StepSaved == Typed /\ Saved /\ [Next]_vars => Saved'
<1> SUFFICES ASSUME Typed, Saved, [Next]_vars PROVE Saved'
  OBVIOUS
<1>1. ASSUME UNCHANGED <<session, manifest>> PROVE Saved'
  BY <1>1 DEF Saved, manifest, Cached
<1>2. ASSUME session' = None PROVE Saved'
  BY <1>2 DEF Saved
<1>3. ASSUME NEW kind, Begin(kind) PROVE Saved'
  BY <1>3 DEF Begin, Saved, Cached
<1>4. ASSUME NEW s \in Spec, NEW e, mem' = [mem EXCEPT ![s] = e], dirty', mem[s] # None,
             UNCHANGED <<session, disk>>
      PROVE  Saved'
  <2>1. \A t \in Spec : t # s => mem'[t] = mem[t]
    BY <1>4, MemChange
  <2>. QED  BY <1>4, <2>1 DEF Saved, Cached
<1>5. ASSUME NEW s \in Spec, StartBuild(s) PROVE Saved'
  <2>1. UNCHANGED <<session, disk>>
    BY <1>5 DEF StartBuild
  <2>2. ASSUME mem[s] # None, dirty', NEW F, mem' = [mem EXCEPT ![s].deps = Restamped(@, F)]
        PROVE  Saved'
    <3>1. mem' = [mem EXCEPT ![s] = [mem[s] EXCEPT !.deps = Restamped(@, F)]]
      BY <2>2
    <3>. QED  BY <1>4, <2>1, <2>2, <3>1
  <2>3. CASE mem' = mem /\ dirty' = dirty
    BY <1>1, <2>1, <2>3 DEF manifest
  <2>. QED  BY <1>5, <2>2, <2>3, StartBuildEffect
<1>6. ASSUME NEW s \in Spec, EndBuild(s) PROVE Saved'
  <2>1. UNCHANGED <<session, disk>>
    BY <1>6 DEF EndBuild
  <2>2. CASE Cached /\ ~session.custom
    <3>1. dirty'
      BY <1>6, <2>2 DEF EndBuild, RecordBuild
    <3>. QED  BY <2>1, <2>2, <3>1 DEF Saved, Cached
  <2>3. CASE ~(Cached /\ ~session.custom)
    BY <1>1, <1>6, <2>1, <2>3 DEF EndBuild, manifest
  <2>. QED  BY <2>2, <2>3
<1>7. ASSUME NEW s \in Spec, EndRun(s) PROVE Saved'
  <2>1. UNCHANGED <<session, disk>>
    BY <1>7 DEF EndRun
  <2>2. CASE Cached /\ mem[s] # None
    <3>1. PICK e : dirty' /\ mem' = [mem EXCEPT ![s] = e]
      BY <1>7, <2>2, EndRunEffect
    <3>. QED  BY <1>4, <2>1, <2>2, <3>1
  <2>3. CASE ~(Cached /\ mem[s] # None)
    BY <1>1, <1>7, <2>1, <2>3, EndRunEffect DEF manifest
  <2>. QED  BY <2>2, <2>3
<1>8. CASE End \/ Kill
  BY <1>2, <1>8 DEF End, Kill, Over
<1>9. CASE RemoveOutput \/ Clean \/ Upgrade
  BY <1>2, <1>9 DEF RemoveOutput, Clean, Upgrade, progress
<1>10. CASE UNCHANGED vars
  BY <1>1, <1>10 DEF vars, progress
<1>11. ASSUME NEW s \in Spec, FailBuild(s) \/ Replay(s) \/ StartRun(s) \/ Throw(s)
       PROVE  Saved'
  BY <1>1, <1>11 DEF FailBuild, Replay, StartRun, Throw
<1>12. ASSUME NEW x, NEW c, Edit(x, c) \/ EditSnapshot(x, c) PROVE Saved'
  BY <1>1, <1>12 DEF Edit, EditSnapshot, progress
<1>. QED
  BY <1>3, <1>5, <1>6, <1>7, <1>8, <1>9, <1>10, <1>11, <1>12 DEF Next

\* A step that leaves what the files and the entry of s are alone.
LEMMA SameHeld ==
  ASSUME NEW s, Held'[s] = Held[s], wasm'[s] = wasm[s], report'[s] = report[s],
         gap'[s] = gap[s], WasmAsHeld(Held[s], s) /\ ReportAsHeld(Held[s], s)
  PROVE  WasmAsHeld(Held[s], s)' /\ ReportAsHeld(Held[s], s)'
BY DEF WasmAsHeld, ReportAsHeld, Sound, Described

LEMMA SameHeldAll ==
  ASSUME Consistent, Held' = Held, UNCHANGED <<wasm, report, gap>>
  PROVE  Consistent'
<1> SUFFICES ASSUME NEW s \in Spec
             PROVE  WasmAsHeld(Held[s], s)' /\ ReportAsHeld(Held[s], s)'
  BY DEF Consistent
<1>1. Held'[s] = Held[s] /\ wasm'[s] = wasm[s] /\ report'[s] = report[s] /\ gap'[s] = gap[s]
  BY DEF Consistent
<1>2. WasmAsHeld(Held[s], s) /\ ReportAsHeld(Held[s], s)
  BY DEF Consistent
<1>. QED  BY <1>1, <1>2, SameHeld

LEMMA BuiltIsDescribed ==
  ASSUME Typed, NEW s \in Spec, session # None, stage[s] = "building",
         \A f \in Reads(s) : src[f].content = due[s].files[f], Compiles(due[s])
  PROVE  DOMAIN Recorded(s).deps = Reads(s) /\ due[s] = Described(Recorded(s), s)
<1>1. due[s] \in Given(s) /\ due[s].sig = session.sig
  BY DEF Typed, StageTypes
<1>2. \A f \in Reads(s) : Exists(f)
  BY <1>1 DEF Compiles, Exists, Given
<1>3. Recorded(s).deps = [f \in Reads(s) |-> src[f]] /\ Recorded(s).sig = session.sig
  BY <1>2 DEF Recorded
<1>4. Described(Recorded(s), s).files = due[s].files
  BY <1>1, <1>3 DEF Described, Given
<1>. QED  BY <1>1, <1>3, <1>4 DEF Described, Given

LEMMA StepConsistent == IInv /\ [Next]_vars => Consistent'
<1> SUFFICES ASSUME IInv, [Next]_vars PROVE Consistent'
  OBVIOUS
<1> USE DEF IInv
<1>1. ASSUME UNCHANGED <<session, disk, mem, wasm, report, gap>> PROVE Consistent'
  BY <1>1, SameHeldAll DEF Held, Cached
<1>2. ASSUME NEW kind, Begin(kind) PROVE Consistent'
  <2>1. Held' = disk /\ Held = disk
    BY <1>2 DEF Begin, Held, Cached
  <2>. QED  BY <1>2, <2>1, SameHeldAll DEF Begin, artifacts
<1>3. ASSUME NEW s \in Spec, StartBuild(s) PROVE Consistent'
  <2>1. UNCHANGED <<session, disk, wasm, report, gap>> /\ session # None
    BY <1>3 DEF StartBuild, artifacts
  <2>2. CASE mem' = mem
    BY <1>1, <2>1, <2>2
  <2>3. ASSUME Cached, mem[s] # None, NEW F \in SUBSET Touched(mem[s].deps),
               mem' = [mem EXCEPT ![s].deps = Restamped(@, F)]
        PROVE  Consistent'
    <3>1. mem[s] \in Entry(s)
      BY <2>3 DEF Typed, ManifestTypes
    <3>2. mem' = [mem EXCEPT ![s] = [mem[s] EXCEPT !.deps = Restamped(@, F)]]
      BY <2>3
    <3>3. /\ mem'[s] = [mem[s] EXCEPT !.deps = Restamped(@, F)]
          /\ \A t \in Spec : t # s => mem'[t] = mem[t]
      BY <3>2, MemChange
    <3>4. Held' = mem' /\ Held = mem
      BY <2>1, <2>3 DEF Held, Cached
    <3>5. /\ DOMAIN mem'[s].deps = DOMAIN mem[s].deps /\ mem'[s].sig = mem[s].sig
          /\ \A f \in DOMAIN mem[s].deps : mem'[s].deps[f].content = mem[s].deps[f].content
          /\ mem'[s].report = mem[s].report /\ mem'[s].runtime = mem[s].runtime
          /\ mem'[s].snap = mem[s].snap
      <4>1. mem'[s].deps = Restamped(mem[s].deps, F)
        BY <3>1, <3>3, EntryType
      <4>2. /\ DOMAIN mem'[s].deps = DOMAIN mem[s].deps
            /\ \A f \in DOMAIN mem[s].deps : mem'[s].deps[f].content = mem[s].deps[f].content
        BY <2>3, <3>1, <4>1, RestampedType
      <4>. QED  BY <3>1, <3>3, <4>2, EntryType
    <3>6. DOMAIN mem[s].deps = Reads(s) => Described(mem'[s], s) = Described(mem[s], s)
      BY <3>5 DEF Described
    <3>7. Reads(s)' = Reads(s)
      BY DEF Reads
    <3>8. WasmAsHeld(mem[s], s) /\ ReportAsHeld(mem[s], s)
      BY <3>4 DEF Consistent
    <3>9. WasmAsHeld(mem[s], s)'
      BY <2>1, <2>3, <3>5, <3>6, <3>8 DEF WasmAsHeld, Sound, Described
    <3>10. ReportAsHeld(mem[s], s)'
      <4> SUFFICES ASSUME gap[s] = {}, mem[s].report, report[s] # None
                   PROVE  report[s] = [built |-> Described(mem'[s], s), runtime |-> mem'[s].runtime,
                                       snap |-> mem'[s].snap, select |-> "all"]
        BY <2>1, <2>3, <3>5 DEF ReportAsHeld, Described
      <4>1. Described(mem'[s], s) = Described(mem[s], s)
        BY <2>3, <3>6, <3>8 DEF WasmAsHeld, Sound
      <4>. QED  BY <2>3, <3>5, <3>8, <4>1 DEF ReportAsHeld
    <3>11. ASSUME NEW t \in Spec, t # s
           PROVE  WasmAsHeld(Held[t], t)' /\ ReportAsHeld(Held[t], t)'
      <4>1. Held'[t] = Held[t] /\ WasmAsHeld(Held[t], t) /\ ReportAsHeld(Held[t], t)
        BY <3>3, <3>4, <3>11 DEF Consistent
      <4>. QED  BY <2>1, <4>1, SameHeld
    <3>. QED  BY <3>4, <3>9, <3>10, <3>11 DEF Consistent
  <2>. QED  BY <1>3, <2>2, <2>3, StartBuildEffect
<1>4. ASSUME NEW s \in Spec, EndBuild(s) PROVE Consistent'
  <2>1. UNCHANGED <<session, disk>> /\ session # None
    BY <1>4 DEF EndBuild
  <2>2. wasm'[s] = due[s] /\ \A t \in Spec : t # s => wasm'[t] = wasm[t]
    BY <1>4, ExceptIndexed DEF EndBuild, Typed, ArtifactTypes, Indexed
  <2>3. \A t \in Spec : t # s => gap'[t] = gap[t]
    BY <1>4 DEF EndBuild, Typed, GapTypes
  <2>4. \A t \in Spec : t # s => mem'[t] = mem[t] /\ report'[t] = report[t]
    <3>1. CASE mem' = mem /\ report' = report
      BY <3>1
    <3>2. CASE RecordBuild(s)
      <4>1. \A t \in Spec : t # s => mem'[t] = mem[t]
        BY <3>2, MemChange DEF RecordBuild
      <4>2. \A t \in Spec : t # s => report'[t] = report[t]
        <5>1. CASE report' = [report EXCEPT ![s] = None]
          BY <5>1, ExceptIndexed DEF Typed, ArtifactTypes, Indexed
        <5>. QED  BY <3>2, <5>1 DEF RecordBuild
      <4>. QED  BY <4>1, <4>2
    <3>. QED  BY <1>4, <3>1, <3>2 DEF EndBuild
  <2>5. Held = (IF Cached THEN mem ELSE disk) /\ Held' = (IF Cached THEN mem' ELSE disk)
    BY <2>1 DEF Held, Cached
  <2>6. ASSUME NEW t \in Spec, t # s PROVE WasmAsHeld(Held[t], t)' /\ ReportAsHeld(Held[t], t)'
    <3>1. Held'[t] = Held[t] /\ WasmAsHeld(Held[t], t) /\ ReportAsHeld(Held[t], t)
      BY <2>4, <2>5, <2>6 DEF Consistent
    <3>. QED  BY <2>2, <2>3, <2>4, <2>6, <3>1, SameHeld
  <2>7. WasmAsHeld(Held[s], s)' /\ ReportAsHeld(Held[s], s)'
    <3>1. CASE Cached /\ ~session.custom
      <4>1. mem'[s] = Recorded(s) /\ Held'[s] = mem'[s]
        BY <1>4, <2>5, <3>1, MemChange DEF EndBuild, RecordBuild
      <4>2. ~mem'[s].report
        BY <4>1 DEF Recorded
      <4>3. ReportAsHeld(Held[s], s)'
        BY <4>1, <4>2 DEF ReportAsHeld
      <4>4. CASE \A f \in Reads(s) : src[f].content = due[s].files[f]
        <5>1. DOMAIN Recorded(s).deps = Reads(s) /\ due[s] = Described(Recorded(s), s)
          BY <1>4, <4>4, BuiltIsDescribed DEF EndBuild
        <5>. QED  BY <2>2, <4>1, <4>3, <5>1 DEF WasmAsHeld, Described
      <4>5. CASE ~\A f \in Reads(s) : src[f].content = due[s].files[f]
        <5>1. gap'[s] = {"edited"}
          BY <1>4, <3>1, <4>5 DEF EndBuild, Typed, GapTypes
        <5>. QED  BY <4>3, <5>1 DEF WasmAsHeld, Sound
      <4>. QED  BY <4>4, <4>5
    <3>2. CASE ~(Cached /\ ~session.custom)
      <4>1. mem' = mem
        BY <1>4, <3>2 DEF EndBuild
      <4>2. CASE disk[s] = None
        <5>1. Held'[s] = None
          BY <2>1, <2>5, <3>2, <4>1, <4>2, SessionType DEF Saved
        <5>. QED  BY <5>1 DEF WasmAsHeld, ReportAsHeld
      <4>3. CASE disk[s] # None
        <5>1. gap'[s] = gap[s] \cup {IF Cached THEN "custom" ELSE "uncached"}
          BY <1>4, <3>2, <4>3 DEF EndBuild, Typed, GapTypes
        <5>2. ~Sound(s)' /\ gap'[s] # {}
          BY <5>1 DEF Sound
        <5>. QED  BY <5>2 DEF WasmAsHeld, ReportAsHeld
      <4>. QED  BY <4>2, <4>3
    <3>. QED  BY <3>1, <3>2
  <2>. QED  BY <2>6, <2>7 DEF Consistent
<1>5. ASSUME NEW s \in Spec, EndRun(s) PROVE Consistent'
  <2>1. UNCHANGED <<session, disk, wasm>> /\ session # None /\ stage[s] = "running"
    BY <1>5 DEF EndRun
  <2>2. CASE ~(Cached /\ mem[s] # None)
    BY <1>1, <1>5, <2>1, <2>2, EndRunEffect
  <2>3. CASE Cached /\ mem[s] # None
    <3>1. /\ report' = [report EXCEPT ![s] = Ran(s)]
          /\ mem' = [mem EXCEPT ![s] = [mem[s] EXCEPT !.report = TRUE,
                       !.runtime = session.runtime, !.snap = snap'[s]]]
      BY <1>5, <2>3, EndRunEffect
    <3>2. report'[s] = Ran(s) /\ \A t \in Spec : t # s => report'[t] = report[t]
      BY <3>1, ExceptIndexed DEF Typed, ArtifactTypes, Indexed
    <3>3. /\ mem'[s] = [mem[s] EXCEPT !.report = TRUE, !.runtime = session.runtime,
                                      !.snap = snap'[s]]
          /\ \A t \in Spec : t # s => mem'[t] = mem[t]
      BY <3>1, MemChange
    <3>4. PICK opened :
            /\ gap' = [gap EXCEPT ![s] = (gap[s] \ {"partial", "resnapped"}) \cup opened]
            /\ session.select = "some" => opened # {}
            /\ Left(s) # snap'[s] => opened # {}
      BY <1>5, <2>3, EndRunEffect
    <3>5. /\ gap'[s] = (gap[s] \ {"partial", "resnapped"}) \cup opened
          /\ \A t \in Spec : t # s => gap'[t] = gap[t]
      BY <3>4 DEF Typed, GapTypes
    <3>6. Held = mem /\ Held' = mem'
      BY <2>1, <2>3 DEF Held, Cached
    <3>7. mem[s] \in Entry(s)
      BY <2>3 DEF Typed, ManifestTypes
    <3>8. /\ mem'[s].deps = mem[s].deps /\ mem'[s].sig = mem[s].sig
          /\ mem'[s].runtime = session.runtime /\ mem'[s].snap = snap'[s]
      BY <3>3, <3>7, EntryType
    <3>9. Sound(s)' => Sound(s)
      BY <3>5 DEF Sound
    <3>10. Described(mem'[s], s) = Described(mem[s], s)
      BY <3>8 DEF Described
    <3>11. WasmAsHeld(mem[s], s)
      BY <3>6 DEF Consistent
    <3>12. WasmAsHeld(mem[s], s)'
      BY <2>1, <2>3, <3>8, <3>9, <3>10, <3>11 DEF WasmAsHeld, Described
    <3>13. ReportAsHeld(mem[s], s)'
      <4> SUFFICES ASSUME gap'[s] = {}
                   PROVE  report'[s] = [built |-> Described(mem'[s], s), runtime |-> mem'[s].runtime,
                                        snap |-> mem'[s].snap, select |-> "all"]
        BY DEF ReportAsHeld, Described
      <4>1. opened = {} /\ Sound(s)
        BY <3>5 DEF Sound
      <4>2. session.select = "all" /\ Left(s) = snap'[s]
        BY <2>1, <3>4, <4>1, SessionType
      <4>3. wasm[s] = Described(mem[s], s)
        BY <2>1, <2>3, <3>11, <4>1 DEF WasmAsHeld, Typed, StageTypes
      <4>. QED  BY <3>2, <3>8, <3>10, <4>2, <4>3 DEF Ran
    <3>14. ASSUME NEW t \in Spec, t # s
           PROVE  WasmAsHeld(Held[t], t)' /\ ReportAsHeld(Held[t], t)'
      <4>1. Held'[t] = Held[t] /\ WasmAsHeld(Held[t], t) /\ ReportAsHeld(Held[t], t)
        BY <3>3, <3>6, <3>14 DEF Consistent
      <4>. QED  BY <2>1, <3>2, <3>5, <3>14, <4>1, SameHeld
    <3>. QED  BY <3>6, <3>12, <3>13, <3>14 DEF Consistent
  <2>. QED  BY <2>2, <2>3
<1>6. CASE End
  <2>1. /\ session # None /\ Held = (IF Cached THEN mem ELSE disk) /\ Held' = disk'
        /\ UNCHANGED <<wasm, gap>>
    BY <1>6 DEF End, Over, Held
  <2>2. CASE ~Cached
    BY <1>6, <2>1, <2>2, SameHeldAll DEF End
  <2>3. CASE Cached
    <3> SUFFICES ASSUME NEW s \in Spec
                 PROVE  WasmAsHeld(Held[s], s)' /\ ReportAsHeld(Held[s], s)'
      BY DEF Consistent
    <3>1. CASE s \in Pruned
      <4>1. disk'[s] = None
        BY <1>6, <2>3, <3>1 DEF End
      <4>. QED  BY <2>1, <4>1 DEF WasmAsHeld, ReportAsHeld
    <3>2. CASE s \notin Pruned
      <4>1. disk'[s] = mem[s]
        <5>1. CASE dirty \/ Pruned # {}
          BY <1>6, <2>3, <3>2, <5>1 DEF End
        <5>2. CASE ~(dirty \/ Pruned # {})
          BY <1>6, <2>1, <2>3, <5>2 DEF End, Saved
        <5>. QED  BY <5>1, <5>2
      <4>2. report'[s] = report[s]
        BY <1>6, <2>3, <3>2 DEF End
      <4>3. WasmAsHeld(Held[s], s) /\ ReportAsHeld(Held[s], s)
        BY DEF Consistent
      <4>. QED  BY <2>1, <2>3, <4>1, <4>2, <4>3, SameHeld
    <3>. QED  BY <3>1, <3>2
  <2>. QED  BY <2>2, <2>3
<1>7. CASE Kill
  <2>1. /\ session # None /\ Held = (IF Cached THEN mem ELSE disk) /\ Held' = disk
        /\ UNCHANGED <<wasm, report>>
    BY <1>7 DEF Kill, Over, Held, artifacts
  <2> SUFFICES ASSUME NEW s \in Spec
               PROVE  WasmAsHeld(Held[s], s)' /\ ReportAsHeld(Held[s], s)'
    BY DEF Consistent
  <2>2. CASE Cached /\ mem[s] # disk[s]
    <3>1. gap'[s] = gap[s] \cup {"killed"}
      BY <1>7, <2>2 DEF Kill
    <3>2. ~Sound(s)' /\ gap'[s] # {}
      BY <3>1 DEF Sound
    <3>. QED  BY <3>2 DEF WasmAsHeld, ReportAsHeld
  <2>3. CASE ~(Cached /\ mem[s] # disk[s])
    <3>1. gap'[s] = gap[s] /\ Held'[s] = Held[s]
      BY <1>7, <2>1, <2>3 DEF Kill
    <3>2. WasmAsHeld(Held[s], s) /\ ReportAsHeld(Held[s], s)
      BY DEF Consistent
    <3>. QED  BY <2>1, <3>1, <3>2, SameHeld
  <2>. QED  BY <2>2, <2>3
<1>8. CASE RemoveOutput
  <2>1. Held' = Held /\ UNCHANGED <<report, gap>> /\ \A s \in Spec : wasm'[s] = None
    BY <1>8 DEF RemoveOutput, Held, Cached, manifest, progress
  <2>. QED
    BY <2>1 DEF Consistent, WasmAsHeld, ReportAsHeld, Sound, Described
<1>9. CASE Clean \/ Upgrade
  <2>1. \A s \in Spec : Held'[s] = None
    BY <1>9 DEF Clean, Upgrade, Held, progress, NoEntries
  <2>. QED  BY <2>1 DEF Consistent, WasmAsHeld, ReportAsHeld
<1>10. ASSUME NEW s \in Spec, FailBuild(s) \/ Replay(s) \/ StartRun(s) \/ Throw(s)
       PROVE  Consistent'
  BY <1>1, <1>10 DEF FailBuild, Replay, StartRun, Throw, artifacts, manifest
<1>11. ASSUME NEW x, NEW c, Edit(x, c) \/ EditSnapshot(x, c) PROVE Consistent'
  BY <1>1, <1>11 DEF Edit, EditSnapshot, artifacts, manifest, progress
<1>12. CASE UNCHANGED vars
  BY <1>1, <1>12 DEF vars, artifacts, manifest, progress
<1>. QED
  BY <1>2, <1>3, <1>4, <1>5, <1>6, <1>7, <1>8, <1>9, <1>10, <1>11, <1>12 DEF Next

\* Current, for one spec.
CurrentAt(s) ==
  /\ stage[s] \in {"run", "running"} /\ Sound(s) => wasm[s] = due[s]
  /\ answer[s] \notin {None, BuildError} =>
       stage[s] = "done" /\ (gap[s] = {} => TrueReport(s))

\* What other specs do leaves this one's stage alone, or ends it.
LEMMA SameCurrent ==
  ASSUME NEW s, CurrentAt(s), UNCHANGED session,
         wasm'[s] = wasm[s], due'[s] = due[s], answer'[s] = answer[s], gap'[s] = gap[s],
         read'[s] = read[s], stage'[s] \in {stage[s], "done"}
  PROVE  CurrentAt(s)'
BY DEF CurrentAt, TrueReport, Left, Sound

\* A fresh entry describes the sources as they are.
LEMMA FreshIsCurrent ==
  ASSUME IInv, NEW s \in Spec, session # None, Cached, NEW expired, IsBuildFresh(s, expired),
         Sound(s)
  PROVE  wasm[s] = [files |-> [f \in Reads(s) |-> src[f].content], sig |-> session.sig]
<1> USE DEF IInv
<1>1. mem[s] # None /\ mem[s].sig = session.sig /\ wasm[s] # None
  BY DEF IsBuildFresh
<1>2. WasmAsHeld(mem[s], s)
  BY DEF Consistent, Held
<1>3. DOMAIN mem[s].deps = Reads(s) /\ wasm[s] = Described(mem[s], s)
  BY <1>1, <1>2 DEF WasmAsHeld
<1>4. \A f \in Reads(s) : mem[s].deps[f].content = src[f].content
  BY <1>1, <1>3 DEF IsBuildFresh, DepUnchanged, Stamps, Stamped
<1>. QED  BY <1>1, <1>3, <1>4 DEF Described

LEMMA StepCurrent == IInv /\ [Next]_vars => Current'
<1> SUFFICES ASSUME IInv, [Next]_vars, session' # None, NEW t \in Spec PROVE CurrentAt(t)'
  BY DEF Current, CurrentAt
<1> USE DEF IInv
<1>0. session # None => CurrentAt(t)
  BY DEF Current, CurrentAt
<1>1. ASSUME UNCHANGED <<session, wasm, due, answer, gap, read, stage>> PROVE CurrentAt(t)'
  <2>1. session # None
    BY <1>1
  <2>2. /\ wasm'[t] = wasm[t] /\ due'[t] = due[t] /\ answer'[t] = answer[t] /\ gap'[t] = gap[t]
        /\ read'[t] = read[t] /\ stage'[t] = stage[t] /\ session' = session
    BY <1>1
  <2>. QED  BY <1>0, <2>1, <2>2, SameCurrent
<1>2. ASSUME NEW kind, Begin(kind) PROVE CurrentAt(t)'
  BY <1>2 DEF Begin, CurrentAt
<1>3. ASSUME NEW s \in Spec, StartBuild(s) PROVE CurrentAt(t)'
  <2>1. /\ session # None /\ stage[s] = "build"
        /\ UNCHANGED <<session, read, wasm, answer, gap>>
    BY <1>3 DEF StartBuild, artifacts
  <2>2. /\ due'[s] = [files |-> [f \in Reads(s) |-> src[f].content], sig |-> session.sig]
        /\ \A x \in Spec : x # s => due'[x] = due[x]
    BY <1>3, ExceptIndexed DEF StartBuild, Typed, ProgressTypes, Indexed
  <2>3. \A x \in Spec : x # s => stage'[x] = stage[x]
    BY <1>3, StartBuildEffect DEF Typed, ProgressTypes
  <2>4. CASE t # s
    BY <1>0, <2>1, <2>2, <2>3, <2>4, SameCurrent
  <2>5. CASE t = s
    <3>1. answer'[s] \in {None, BuildError}
      BY <1>0, <2>1, <2>5 DEF CurrentAt
    <3>2. ASSUME stage'[s] \in {"run", "running"}, Sound(s)' PROVE wasm'[s] = due'[s]
      <4>1. PICK expired \in BOOLEAN : IsBuildFresh(s, expired)
        BY <1>3, <3>2, StartBuildEffect DEF Typed, ProgressTypes
      <4>2. Cached
        BY <1>3, <3>2, StartBuildEffect DEF Typed, ProgressTypes
      <4>3. Sound(s)
        BY <2>1, <3>2 DEF Sound
      <4>. QED  BY <2>1, <2>2, <4>1, <4>2, <4>3, FreshIsCurrent
    <3>. QED  BY <2>5, <3>1, <3>2 DEF CurrentAt
  <2>. QED  BY <2>4, <2>5
<1>4. ASSUME NEW s \in Spec, FailBuild(s) PROVE CurrentAt(t)'
  <2>1. session # None /\ UNCHANGED <<session, wasm, due, gap, read>>
    BY <1>4 DEF FailBuild, artifacts
  <2>2. /\ stage' = [stage EXCEPT ![s] = "done"]
        /\ answer'[s] = BuildError /\ \A x \in Spec : x # s => answer'[x] = answer[x]
    BY <1>4, ExceptIndexed DEF FailBuild, Typed, ProgressTypes, Indexed
  <2>3. stage'[s] = "done" /\ \A x \in Spec : x # s => stage'[x] = stage[x]
    BY <2>2 DEF Typed, ProgressTypes
  <2>4. CASE t # s
    BY <1>0, <2>1, <2>2, <2>3, <2>4, SameCurrent
  <2>5. CASE t = s
    BY <2>2, <2>3, <2>5 DEF CurrentAt
  <2>. QED  BY <2>4, <2>5
<1>5. ASSUME NEW s \in Spec, EndBuild(s) PROVE CurrentAt(t)'
  <2>1. session # None /\ stage[s] = "building" /\ UNCHANGED <<session, due, answer, read>>
    BY <1>5 DEF EndBuild
  <2>2. wasm'[s] = due[s] /\ \A x \in Spec : x # s => wasm'[x] = wasm[x]
    BY <1>5, ExceptIndexed DEF EndBuild, Typed, ArtifactTypes, Indexed
  <2>3. \A x \in Spec : x # s => gap'[x] = gap[x] /\ stage'[x] = stage[x]
    BY <1>5 DEF EndBuild, Typed, GapTypes, ProgressTypes
  <2>4. CASE t # s
    BY <1>0, <2>1, <2>2, <2>3, <2>4, SameCurrent
  <2>5. CASE t = s
    <3>1. answer[s] \in {None, BuildError}
      BY <1>0, <2>1, <2>5 DEF CurrentAt
    <3>. QED  BY <2>1, <2>2, <2>5, <3>1 DEF CurrentAt
  <2>. QED  BY <2>4, <2>5
<1>6. ASSUME NEW s \in Spec, Replay(s) PROVE CurrentAt(t)'
  <2>1. session # None /\ stage[s] = "run" /\ UNCHANGED <<session, wasm, due, gap>>
    BY <1>6 DEF Replay, artifacts
  <2> DEFINE a == IF session.select = "all" THEN report[s]
                  ELSE [report[s] EXCEPT !.select = session.select]
  <2>2. answer'[s] = a /\ \A x \in Spec : x # s => answer'[x] = answer[x]
    BY <1>6, ExceptIndexed DEF Replay, Typed, ProgressTypes, Indexed
  <2>3. /\ stage'[s] = "done" /\ read'[s] = snap[s]
        /\ \A x \in Spec : x # s => stage'[x] = stage[x] /\ read'[x] = read[x]
    BY <1>6 DEF Replay, Typed, ProgressTypes
  <2>4. CASE t # s
    BY <1>0, <2>1, <2>2, <2>3, <2>4, SameCurrent
  <2>5. CASE t = s
    <3>1. ASSUME gap[s] = {} PROVE TrueReport(s)'
      <4>1. Cached /\ CanReplay(s)
        BY <1>6 DEF Replay, Replays, Cached
      <4>2. /\ mem[s] # None /\ mem[s].report /\ mem[s].runtime = session.runtime
            /\ mem[s].snap = snap[s] /\ wasm[s] # None /\ report[s] # None
        BY <4>1 DEF CanReplay
      <4>3. WasmAsHeld(mem[s], s) /\ ReportAsHeld(mem[s], s)
        BY <2>1, <4>1 DEF Consistent, Held
      <4>4. Sound(s)
        BY <3>1 DEF Sound
      <4>5. wasm[s] = Described(mem[s], s)
        BY <4>2, <4>3, <4>4 DEF WasmAsHeld
      <4>6. wasm[s] = due[s]
        BY <1>0, <2>1, <2>5, <4>4 DEF CurrentAt
      <4>7. report[s] = [built |-> due[s], runtime |-> session.runtime, snap |-> snap[s],
                         select |-> "all"]
        BY <3>1, <4>2, <4>3, <4>5, <4>6 DEF ReportAsHeld
      <4>8. a = [built |-> due[s], runtime |-> session.runtime, snap |-> snap[s],
                 select |-> session.select]
        BY <4>7
      <4>9. ~session.writes
        BY <1>6 DEF Replay, Replays
      <4>. QED  BY <2>1, <2>2, <2>3, <4>8, <4>9 DEF TrueReport, Left
    <3>2. gap'[s] = gap[s]
      BY <2>1
    <3>. QED  BY <2>3, <2>5, <3>1, <3>2 DEF CurrentAt
  <2>. QED  BY <2>4, <2>5
<1>7. ASSUME NEW s \in Spec, EndRun(s) PROVE CurrentAt(t)'
  <2>1. session # None /\ stage[s] = "running" /\ UNCHANGED <<session, wasm, due, read>>
    BY <1>7 DEF EndRun
  <2>2. answer'[s] = Ran(s) /\ \A x \in Spec : x # s => answer'[x] = answer[x]
    <3>1. answer' = [answer EXCEPT ![s] = Ran(s)]
      BY <1>7, EndRunEffect
    <3>. QED  BY <3>1, ExceptIndexed DEF Typed, ProgressTypes, Indexed
  <2>3. stage'[s] = "done" /\ \A x \in Spec : x # s => stage'[x] = stage[x]
    BY <1>7 DEF EndRun, Typed, ProgressTypes
  <2>4. \/ gap' = gap
        \/ \E opened :
             gap' = [gap EXCEPT ![s] = (gap[s] \ {"partial", "resnapped"}) \cup opened]
    BY <1>7, EndRunEffect
  <2>5. CASE t # s
    <3>1. gap'[t] = gap[t]
      BY <2>4, <2>5 DEF Typed, GapTypes
    <3>. QED  BY <1>0, <2>1, <2>2, <2>3, <2>5, <3>1, SameCurrent
  <2>6. CASE t = s
    <3>1. ASSUME gap'[s] = {} PROVE Sound(s)
      BY <2>4, <3>1 DEF Sound, Typed, GapTypes
    <3>2. ASSUME gap'[s] = {} PROVE TrueReport(s)'
      <4>1. wasm[s] = due[s]
        BY <1>0, <2>1, <2>6, <3>1, <3>2 DEF CurrentAt
      <4>. QED  BY <2>1, <2>2, <4>1 DEF TrueReport, Left, Ran
    <3>. QED  BY <2>3, <2>6, <3>2 DEF CurrentAt
  <2>. QED  BY <2>5, <2>6
<1>14. ASSUME NEW s \in Spec, StartRun(s) PROVE CurrentAt(t)'
  <2>1. session # None /\ stage[s] = "run" /\ UNCHANGED <<session, wasm, due, gap, answer>>
    BY <1>14 DEF StartRun, artifacts
  <2>2. /\ stage'[s] = "running"
        /\ \A x \in Spec : x # s => stage'[x] = stage[x] /\ read'[x] = read[x]
    BY <1>14 DEF StartRun, Typed, ProgressTypes
  <2>3. CASE t # s
    BY <1>0, <2>1, <2>2, <2>3, SameCurrent
  <2>4. CASE t = s
    BY <1>0, <2>1, <2>2, <2>4 DEF CurrentAt, Sound
  <2>. QED  BY <2>3, <2>4
<1>8. ASSUME NEW s \in Spec, Throw(s) PROVE CurrentAt(t)'
  <2>1. /\ session # None /\ UNCHANGED <<session, wasm, due, gap, read, answer>>
        /\ stage'[t] \in {stage[t], "done"}
    BY <1>8 DEF Throw, artifacts
  <2>. QED  BY <1>0, <2>1, SameCurrent
<1>9. CASE End \/ Kill
  BY <1>9 DEF End, Kill, Over
<1>10. ASSUME NEW x, NEW c, Edit(x, c) PROVE CurrentAt(t)'
  BY <1>1, <1>10 DEF Edit, artifacts, progress
<1>11. ASSUME NEW x, NEW c, EditSnapshot(x, c) PROVE CurrentAt(t)'
  BY <1>1, <1>11 DEF EditSnapshot, artifacts, progress
<1>12. CASE RemoveOutput \/ Clean \/ Upgrade
  BY <1>12 DEF RemoveOutput, Clean, Upgrade, progress
<1>13. CASE UNCHANGED vars
  BY <1>1, <1>13 DEF vars, outside, artifacts, progress
<1>. QED
  BY <1>2, <1>3, <1>4, <1>5, <1>6, <1>7, <1>8, <1>9, <1>10, <1>11, <1>12, <1>13, <1>14
     DEF Next

LEMMA InitInv == Init => IInv
<1> SUFFICES ASSUME Init PROVE IInv
  OBVIOUS
<1>1. Typed
  BY InitTypes
<1>2. Saved /\ Current
  BY DEF Init, Saved, Current
<1>3. \A s \in Spec : disk[s] = None /\ mem[s] = None
  BY DEF Init, NoEntries
<1>4. Consistent
  <2>1. \A s \in Spec : Held[s] = None
    BY <1>3 DEF Init, Held
  <2>. QED  BY <2>1 DEF Consistent, WasmAsHeld, ReportAsHeld
<1>5. Stamps
  BY <1>3 DEF Init, Stamps, Stamped
<1>. QED  BY <1>1, <1>2, <1>4, <1>5 DEF IInv

LEMMA InvHolds == CacheSpec => []IInv
<1>1. IInv /\ [Next]_vars => IInv'
  BY StepTypes, StepStamps, StepSaved, StepConsistent, StepCurrent DEF IInv
<1>. QED
  BY <1>1, InitInv, PTL DEF CacheSpec

\* Whatever a session is about to run was built from the sources it found, with
\* its options, but for the gaps the module names.
THEOREM WasmCurrentHolds == CacheSpec => []WasmCurrent
<1>1. IInv => WasmCurrent
  <2>1. Typed => \A s \in Spec : gap[s] \cap Cause = {} => Sound(s)
    BY DEF Typed, GapTypes, Sound
  <2>. QED  BY <2>1 DEF IInv, Current, WasmCurrent, CurrentUnless
<1>. QED
  BY <1>1, InvHolds, PTL

\* The cache changes no result, but for those gaps.
THEOREM TruthfulHolds == CacheSpec => []Truthful
<1>1. IInv => Truthful
  <2>1. Typed => \A s \in Spec : gap[s] \cap Cause = {} => gap[s] = {}
    BY DEF Typed, GapTypes
  <2>. QED  BY <2>1 DEF IInv, Current, Truthful, TruthfulUnless
<1>. QED
  BY <1>1, InvHolds, PTL

\* Between sessions the saved manifest describes the files beside it.
THEOREM DiskConsistentHolds == CacheSpec => []DiskConsistent
<1>1. IInv => DiskConsistent
  <2> SUFFICES ASSUME IInv, session = None, NEW s \in Spec, disk[s] # None, gap[s] = {}
               PROVE  /\ wasm[s] \in {None, Described(disk[s], s)}
                      /\ disk[s].report /\ report[s] # None =>
                           report[s] = [built |-> Described(disk[s], s),
                                        runtime |-> disk[s].runtime, snap |-> disk[s].snap,
                                        select |-> "all"]
    BY DEF DiskConsistent, Described
  <2>1. WasmAsHeld(disk[s], s) /\ ReportAsHeld(disk[s], s)
    BY DEF IInv, Consistent, Held
  <2>. QED  BY <2>1 DEF WasmAsHeld, ReportAsHeld, Sound
<1>. QED
  BY <1>1, InvHolds, PTL
===============================================================================
