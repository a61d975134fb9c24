------------------------------ MODULE BuildCache ------------------------------
(***************************************************************************)
(* The incremental cache of `ast test' (src/cli/build-cache.ts) with its   *)
(* users build(), buildFileForMode, run() and runTestModes: sessions load  *)
(* the manifest, skip builds that are fresh (tier 1), replay passing       *)
(* reports (tier 2), and save the manifest at their end, while users edit, *)
(* revert and delete files between and during sessions.                    *)
(*                                                                         *)
(* The .wasm and report files are on disk at once, the manifest only at    *)
(* the end of the session; sessions that bypass the cache write the same   *)
(* .wasm files.  One mode; one session at a time; mtime and size are one   *)
(* stamp, new at every edit.                                               *)
(*                                                                         *)
(* due and gap are history: what a build without cache would have produced *)
(* in this session, and how a spec's files got out of step with its entry. *)
(* read is the snapshot store of a run; it is kept until the session ends  *)
(* to say what an answer was the answer to.                                *)
(***************************************************************************)
EXTENDS Naturals

CONSTANTS
  Spec,       \* spec files
  Lib,        \* sources that specs import
  Imports,    \* Imports[s]: libs the source of s reads
  Content,    \* contents of sources and snapshots
  Broken,     \* contents that do not compile
  Failing,    \* contents, of a source or a snapshot, that fail the tests
  Matching,   \* the snapshot content a run writes that overwrites snapshots
  Sessions,   \* the kinds of session users start
  BuildError, \* the answer when a spec does not compile
  MaxEdits,   \* bound on edits
  None

Source == Spec \cup Lib
Reads(s) == {s} \cup Imports[s]

\* tier: cacheMode; custom: a custom build command; sig: whatever the build
\* signature covers; runtime: the runtime command; writes: --create-snapshots
\* or --overwrite-snapshots; select: --suite given ("some") or not; scope: the
\* specs the selectors name, pruning: there are none (ast test, not --watch).
SessionKind ==
  [tier : {"off", "build", "full"}, custom : BOOLEAN, sig : Nat, runtime : Nat,
   writes : BOOLEAN, select : {"all", "some"}, scope : SUBSET Spec,
   pruning : BOOLEAN]

ASSUME FileAssumption ==
  /\ Spec \cap Lib = {} /\ Imports \in [Spec -> SUBSET Lib]
  /\ Broken \subseteq Content /\ Failing \subseteq Content \ Broken
  /\ Matching \in Content \ Failing /\ {None, BuildError} \cap Content = {}
ASSUME SessionAssumption == Sessions \subseteq SessionKind /\ None \notin Sessions
ASSUME EditsAssumption == MaxEdits \in Nat

VARIABLES
  src,      \* src[f]: content (None: no such file) and stamp
  snap,     \* snap[s]: content of the .snap file
  wasm,     \* wasm[s]: what the .wasm file was built from
  report,   \* report[s]: the stored report file
  disk,     \* disk[s]: the manifest's entry for s, as saved
  edits,    \* edits made so far
  session,  \* the session that runs, or None
  live,     \* liveKeys: the specs there were at its start, if it prunes
  mem,      \* its manifest
  dirty,    \* the manifest must be saved
  stage,    \* stage[s]: how far the session is with s
  answer,   \* answer[s]: what it reported for s
  read,     \* read[s]: the snapshots it loaded to run s, or compared to replay it
  due,      \* history: what its build of s should produce
  gap       \* history: gap[s], causes why s and its saved entry may disagree

outside == <<src, snap, edits>>
artifacts == <<wasm, report>>
manifest == <<disk, mem, dirty>>
progress == <<session, live, stage, answer, read, due>>
vars == <<outside, artifacts, manifest, progress, gap>>

File == [content : Content \cup {None}, stamp : 0..MaxEdits]
Fingerprint == [content : Content, stamp : 0..MaxEdits]
\* What a .wasm of s was built from: what was read, and with which options.
Input(s) == [files : [Reads(s) -> Content \ Broken], sig : Nat]
Entry(s) ==
  [sig : Nat, deps : UNION {[D -> Fingerprint] : D \in SUBSET Reads(s)}, report : BOOLEAN,
   runtime : Nat \cup {None}, snap : Content \cup {None}]
Report(s) ==
  [built : Input(s), runtime : Nat, snap : Content, select : {"all", "some"}]
Cause == {"uncached", "custom", "killed", "edited", "partial", "resnapped"}

ASSUME NoneAssumption ==
  \A s \in Spec : None \notin [files : [Reads(s) -> Content \cup {None}], sig : Nat]

NoEntries == [s \in Spec |-> None]

\* Seeded fault: an error of the compiler is not noticed.
CompilesAlways(in) == TRUE

\* The compiler succeeds.
Compiles(in) == \A f \in DOMAIN in.files : in.files[f] \notin Broken \cup {None}

TypeOK ==
  /\ src \in [Source -> File]
  /\ snap \in [Spec -> Content]
  /\ \A s \in Spec :
       /\ wasm[s] = None \/ wasm[s] \in Input(s)
       /\ report[s] = None \/ report[s] \in Report(s)
       /\ {disk[s], mem[s]} \subseteq {None} \cup Entry(s)
       /\ answer[s] \in {None, BuildError} \/ answer[s] \in Report(s)
       /\ read[s] \in Content \cup {None}
       /\ gap[s] \subseteq Cause
  /\ edits \in 0..MaxEdits
  /\ session \in Sessions \cup {None}
  /\ live \subseteq Spec
  /\ dirty \in BOOLEAN
  /\ stage \in [Spec -> {"build", "building", "run", "running", "done"}]

Init ==
  /\ \E c \in Content \ (Broken \cup Failing) :
       /\ src = [f \in Source |-> [content |-> c, stamp |-> 0]]
       /\ snap = [s \in Spec |-> Matching]
  /\ wasm = [s \in Spec |-> None]
  /\ report = [s \in Spec |-> None]
  /\ disk = NoEntries
  /\ edits = 0
  /\ session = None
  /\ live = {}
  /\ mem = NoEntries
  /\ dirty = FALSE
  /\ stage = [s \in Spec |-> "done"]
  /\ answer = [s \in Spec |-> None]
  /\ read = [s \in Spec |-> None]
  /\ due = [s \in Spec |-> None]
  /\ gap = [s \in Spec |-> {}]

-------------------------------------------------------------------------------
(* A session *)

Exists(f) == src[f].content # None
Cached == session.tier # "off"

\* runTestModes, withCache: the manifest is loaded, the live specs collected.
Begin(kind) ==
  /\ session = None
  /\ session' = kind
  /\ live' = IF kind.tier # "off" /\ kind.pruning THEN {s \in Spec : Exists(s)} ELSE {}
  /\ mem' = IF kind.tier = "off" THEN NoEntries ELSE disk
  /\ dirty' = FALSE
  /\ stage' = [s \in Spec |-> IF s \in kind.scope /\ Exists(s) THEN "build"
                              ELSE "done"]
  /\ answer' = [s \in Spec |-> None]
  /\ read' = [s \in Spec |-> None]
  /\ due' = [s \in Spec |-> None]
  /\ UNCHANGED <<outside, artifacts, disk, gap>>

\* depUnchanged
DepUnchanged(f, fp) ==
  /\ Exists(f)
  /\ src[f].stamp = fp.stamp \/ src[f].content = fp.content

\* Seeded fault: the build signature is not compared.
IsBuildFreshAnyBuild(s, expired) ==
  /\ mem[s] # None
  /\ ~expired
  /\ wasm[s] # None
  /\ \A f \in DOMAIN mem[s].deps : DepUnchanged(f, mem[s].deps[f])

\* isBuildFresh; expired: the entry is older than maxTime.
IsBuildFresh(s, expired) ==
  /\ mem[s] # None
  /\ mem[s].sig = session.sig
  /\ ~expired
  /\ wasm[s] # None
  /\ \A f \in DOMAIN mem[s].deps : DepUnchanged(f, mem[s].deps[f])

\* depUnchanged takes over the stamp of a file whose content is the same.
Restamped(deps, F) ==
  [f \in DOMAIN deps |-> IF f \in F THEN [deps[f] EXCEPT !.stamp = src[f].stamp]
                         ELSE deps[f]]
Touched(deps) == {f \in DOMAIN deps : /\ deps[f].content = src[f].content
                                      /\ deps[f].stamp # src[f].stamp}

\* build, buildFileForMode up to the compiler: skip a fresh spec, or have the
\* compiler read the sources.  The check may stop at any changed dependency.
StartBuild(s) ==
  /\ session # None /\ stage[s] = "build"
  /\ due' = [due EXCEPT ![s] = [files |-> [f \in Reads(s) |-> src[f].content],
                                sig |-> session.sig]]
  /\ \E expired \in BOOLEAN :
       LET checks == Cached /\ ~session.custom
           fresh == checks /\ IsBuildFresh(s, expired)
           touched == IF checks /\ mem[s] # None THEN Touched(mem[s].deps) ELSE {}
       IN  \E F \in IF fresh THEN {touched} ELSE SUBSET touched :
             /\ stage' = [stage EXCEPT ![s] = IF fresh THEN "run" ELSE "building"]
             /\ mem' = IF F = {} THEN mem
                       ELSE [mem EXCEPT ![s].deps = Restamped(@, F)]
             /\ dirty' = (dirty \/ F # {})
  /\ UNCHANGED <<outside, artifacts, disk, session, live, answer, read, gap>>

\* recordBuild: fingerprints are taken now, of the files that are there now.
Recorded(s) ==
  [sig |-> session.sig, report |-> FALSE, runtime |-> None, snap |-> None,
   deps |-> [f \in {r \in Reads(s) : Exists(r)} |-> src[f]]]

\* Seeded fault: the stored report survives a rebuild.
RecordBuildKeepsReport(s) ==
  /\ mem' = [mem EXCEPT ![s] =
       IF @ = None THEN Recorded(s)
       ELSE [@ EXCEPT !.sig = session.sig, !.deps = Recorded(s).deps]]
  /\ dirty' = TRUE
  /\ UNCHANGED report

RecordBuild(s) ==
  /\ report' = IF mem[s] # None /\ mem[s].report THEN [report EXCEPT ![s] = None]
               ELSE report
  /\ mem' = [mem EXCEPT ![s] = Recorded(s)]
  /\ dirty' = TRUE

\* The compiler fails: the session goes on with the next spec.
FailBuild(s) ==
  /\ session # None /\ stage[s] = "building" /\ ~Compiles(due[s])
  /\ stage' = [stage EXCEPT ![s] = "done"]
  /\ answer' = [answer EXCEPT ![s] = BuildError]
  /\ UNCHANGED <<outside, artifacts, manifest, session, live, read, due, gap>>

\* The rest of build, buildFileForMode.
EndBuild(s) ==
  /\ session # None /\ stage[s] = "building" /\ Compiles(due[s])
  /\ stage' = [stage EXCEPT ![s] = "run"]
  /\ wasm' = [wasm EXCEPT ![s] = due[s]]
  /\ IF Cached /\ ~session.custom
       THEN /\ RecordBuild(s)
            /\ gap' = [gap EXCEPT ![s] =
                 IF \A f \in Reads(s) : src[f].content = due[s].files[f] THEN {}
                 ELSE {"edited"}]
       ELSE /\ UNCHANGED <<report, mem, dirty>>
            /\ gap' = [gap EXCEPT ![s] = IF disk[s] = None THEN @
                 ELSE @ \cup {IF Cached THEN "custom" ELSE "uncached"}]
  /\ UNCHANGED <<outside, disk, session, live, answer, read, due>>

\* reportHasFailure is false; a run of some suites may leave out what fails.
Passes(r) ==
  \/ r.select = "some"
  \/ /\ r.snap \notin Failing
     /\ \A f \in DOMAIN r.built.files : r.built.files[f] \notin Failing

\* Seeded fault: the runtime command is not compared.
CanReplayAnyRuntime(s) ==
  /\ mem[s] # None /\ mem[s].report
  /\ mem[s].snap = snap[s]
  /\ wasm[s] # None
  /\ report[s] # None

\* canReplay
CanReplay(s) ==
  /\ mem[s] # None /\ mem[s].report
  /\ mem[s].runtime = session.runtime
  /\ mem[s].snap = snap[s]
  /\ wasm[s] # None
  /\ report[s] # None

Replays(s) ==
  /\ session.tier = "full" /\ ~session.writes
  /\ CanReplay(s) /\ Passes(report[s])

\* run(), tier 2: the stored report, its suites filtered.
Replay(s) ==
  /\ session # None /\ stage[s] = "run" /\ Replays(s)
  /\ stage' = [stage EXCEPT ![s] = "done"]
  /\ read' = [read EXCEPT ![s] = snap[s]]
  /\ answer' = [answer EXCEPT ![s] =
       IF session.select = "all" THEN report[s]
       ELSE [report[s] EXCEPT !.select = session.select]]
  /\ UNCHANGED <<outside, artifacts, manifest, session, live, due, gap>>

\* run() otherwise: the snapshots are loaded and the runtime is started.
StartRun(s) ==
  /\ session # None /\ stage[s] = "run" /\ ~Replays(s)
  /\ stage' = [stage EXCEPT ![s] = "running"]
  /\ read' = [read EXCEPT ![s] = snap[s]]
  /\ UNCHANGED <<outside, artifacts, manifest, session, live, answer, due, gap>>

\* recordReport, if recordBuild made an entry: sha is that of the .snap file now,
\* r.snap what the run was compared with.
RecordReport(s, r, sha) ==
  IF Cached /\ mem[s] # None
    THEN /\ report' = [report EXCEPT ![s] = r]
         /\ mem' = [mem EXCEPT ![s].report = TRUE, ![s].runtime = r.runtime,
                               ![s].snap = sha]
         /\ dirty' = TRUE
         /\ gap' = [gap EXCEPT ![s] =
              (@ \ {"partial", "resnapped"})
                \cup (IF r.select = "some" THEN {"partial"} ELSE {})
                \cup (IF r.snap # sha THEN {"resnapped"} ELSE {})]
    ELSE UNCHANGED <<report, mem, dirty, gap>>

\* The snapshots a run of s leaves in its store: what it loaded, or what it wrote.
Left(s) == IF session.writes THEN Matching ELSE read[s]

\* The runtime is done: flush writes the store if the run changed it, and the
\* fingerprint of the .snap file is taken.
EndRun(s) ==
  /\ session # None /\ stage[s] = "running"
  /\ snap' = IF Left(s) # read[s] THEN [snap EXCEPT ![s] = Left(s)] ELSE snap
  /\ LET r == [built |-> wasm[s], runtime |-> session.runtime,
               snap |-> Left(s), select |-> session.select]
     IN  /\ answer' = [answer EXCEPT ![s] = r]
         /\ RecordReport(s, r, snap'[s])
  /\ stage' = [stage EXCEPT ![s] = "done"]
  /\ UNCHANGED <<src, edits, wasm, disk, session, live, read, due>>

\* The runtime fails in a way run() cannot report: no spec is started any more.
Throw(s) ==
  /\ session # None /\ stage[s] = "running"
  /\ stage' = [t \in Spec |-> IF t = s \/ stage[t] = "build" THEN "done"
                              ELSE stage[t]]
  /\ UNCHANGED <<outside, artifacts, manifest, session, live, answer, read, due, gap>>

\* The process is gone.
Over ==
  /\ session' = None
  /\ live' = {}
  /\ mem' = NoEntries
  /\ dirty' = FALSE
  /\ stage' = [s \in Spec |-> "done"]
  /\ answer' = [s \in Spec |-> None]
  /\ read' = [s \in Spec |-> None]
  /\ due' = [s \in Spec |-> None]

\* prune: the entries of specs that were not there, and their reports.
Pruned == IF session.pruning THEN {s \in Spec \ live : mem[s] # None} ELSE {}

\* runTestModes, withCache: prune and save.
End ==
  /\ session # None /\ \A s \in Spec : stage[s] = "done"
  /\ IF Cached
       THEN LET kept == [s \in Spec |-> IF s \in Pruned THEN None ELSE mem[s]]
            IN  /\ disk' = IF dirty \/ Pruned # {} THEN kept ELSE disk
                /\ report' = [s \in Spec |->
                     IF s \in Pruned /\ mem[s].report THEN None ELSE report[s]]
       ELSE UNCHANGED <<disk, report>>
  /\ Over
  /\ UNCHANGED <<outside, wasm, gap>>

-------------------------------------------------------------------------------
(* The user *)

\* ctrl+c, or the machine goes down: the manifest is not saved.
Kill ==
  /\ session # None
  /\ gap' = [s \in Spec |-> IF Cached /\ mem[s] # disk[s] THEN gap[s] \cup {"killed"}
                            ELSE gap[s]]
  /\ Over
  /\ UNCHANGED <<outside, artifacts, disk>>

\* A source is saved, touched, reverted or deleted.
Edit(f, c) ==
  /\ edits < MaxEdits
  /\ edits' = edits + 1
  /\ src' = [src EXCEPT ![f] = [content |-> c, stamp |-> edits + 1]]
  /\ UNCHANGED <<snap, artifacts, manifest, progress, gap>>

\* A .snap file is changed, also while its spec runs.
EditSnapshot(s, c) ==
  /\ edits < MaxEdits /\ c # snap[s]
  /\ edits' = edits + 1
  /\ snap' = [snap EXCEPT ![s] = c]
  /\ UNCHANGED <<src, artifacts, manifest, progress, gap>>

\* The build output is removed.
RemoveOutput ==
  /\ session = None
  /\ wasm' = [s \in Spec |-> None]
  /\ UNCHANGED <<outside, report, manifest, progress, gap>>

\* `ast clean': the cache directory always goes, the build output unless other
\* modes own it.
Clean ==
  /\ session = None
  /\ disk' = NoEntries
  /\ report' = [s \in Spec |-> None]
  /\ wasm' \in {wasm, [s \in Spec |-> None]}
  /\ UNCHANGED <<outside, mem, dirty, progress, gap>>

\* load gives an empty manifest after an update of as-test.
Upgrade ==
  /\ session = None
  /\ disk' = NoEntries
  /\ UNCHANGED <<outside, artifacts, mem, dirty, progress, gap>>

Next ==
  \/ \E kind \in Sessions : Begin(kind)
  \/ \E s \in Spec :
       \/ StartBuild(s) \/ FailBuild(s) \/ EndBuild(s)
       \/ Replay(s) \/ StartRun(s) \/ EndRun(s) \/ Throw(s)
  \/ End \/ Kill
  \/ \E f \in Source, c \in Content \cup {None} : Edit(f, c)
  \/ \E s \in Spec, c \in Content \ Broken : EditSnapshot(s, c)
  \/ RemoveOutput \/ Clean \/ Upgrade

CacheSpec == Init /\ [][Next]_vars

-------------------------------------------------------------------------------
(* Properties *)

\* "the existing .wasm is current": whatever a session is about to run was built
\* from the sources it found, with its options, unless a gap in `used' opened.
CurrentUnless(used) ==
  \A s \in Spec :
    session # None /\ stage[s] \in {"run", "running"} /\ gap[s] \cap used = {} =>
      wasm[s] = due[s]

\* The gaps this module names are the only ones that leave a stale .wasm.
WasmCurrent == CurrentUnless(Cause)

\* What a session reports of s is what building and running it would, from the
\* snapshots it found when it came to s.
TrueReport(s) ==
  answer[s] = [built |-> due[s], runtime |-> session.runtime, snap |-> Left(s),
               select |-> session.select]
TruthfulUnless(used) ==
  session # None =>
  \A s \in Spec : answer[s] \notin {None, BuildError} /\ gap[s] \cap used = {} => TrueReport(s)

\* The cache changes no result: sessions report the same with it as without,
\* through any sequence of edits, reverts, failed builds, removed outputs and
\* other sessions, apart from the gaps this module names.
Truthful == TruthfulUnless(Cause)

\* "the cache is bypassed automatically when it cannot be trusted": with a
\* custom build command too, the report is of what was just built.
CustomBypasses == TruthfulUnless(Cause \ {"custom"})

\* Between sessions the saved manifest describes the files beside it: where the
\* .wasm exists, it was built from the recorded contents, and a recorded report
\* is of that build.  This is what makes the next session's skips sound.
DiskConsistent ==
  session = None =>
  \A s \in Spec :
    disk[s] # None /\ gap[s] = {} =>
      LET recorded == [files |-> [f \in Reads(s) |-> disk[s].deps[f].content],
                       sig |-> disk[s].sig]
      IN  /\ wasm[s] \in {None, recorded}
          /\ disk[s].report /\ report[s] # None =>
               report[s] = [built |-> recorded, runtime |-> disk[s].runtime,
                            snap |-> disk[s].snap, select |-> "all"]
===============================================================================
