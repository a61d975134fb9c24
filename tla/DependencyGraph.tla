---------------------------- MODULE DependencyGraph ----------------------------
(***************************************************************************)
(* src/cli/dependency-graph.ts: which (mode, spec) builds read which files,*)
(* kept in two indices, forward (specToFiles) and reverse (fileToSpecs),   *)
(* updated incrementally.  The queries answer from the reverse index only. *)
(*                                                                         *)
(* The maps specToFiles, specPaths and specModes always have the same      *)
(* keys: `recorded'.  A key is the (mode, absolute spec path) pair that    *)
(* specKey encodes; the spec path and the mode are read off the key.       *)
(***************************************************************************)
CONSTANTS
  Path,            \* spellings of paths that callers pass
  SpecPath,        \* those of spec entries
  File,            \* absolute paths
  Resolve,         \* path.resolve
  Uninteresting,   \* files of the AssemblyScript or binaryen packages
  Mode             \* mode names, undefined among them

ASSUME ResolveAssumption == Resolve \in [Path -> File]
ASSUME SpecPathAssumption == SpecPath \subseteq Path
ASSUME UninterestingAssumption == Uninteresting \subseteq File

Key == Mode \X File

VARIABLES
  recorded,        \* the keys of specToFiles, specPaths and specModes
  specToFiles,     \* specToFiles[k]: files the build k read, {} if not recorded
  indexed,         \* the keys of fileToSpecs
  fileToSpecs      \* fileToSpecs[f]: builds that read f

vars == <<recorded, specToFiles, indexed, fileToSpecs>>

TypeOK ==
  /\ recorded \in SUBSET Key
  /\ specToFiles \in [Key -> SUBSET File]
  /\ indexed \in SUBSET File
  /\ fileToSpecs \in [File -> SUBSET Key]

Init ==
  /\ recorded = {}
  /\ specToFiles = [k \in Key |-> {}]
  /\ indexed = {}
  /\ fileToSpecs = [f \in File |-> {}]

\* specKey
KeyOf(spec, mode) == <<mode, Resolve[spec]>>

\* Take k out of the reverse index of each file in prior; emptied sets go.
Unindexed(k, prior) ==
  [f \in File |-> IF f \in prior THEN fileToSpecs[f] \ {k} ELSE fileToSpecs[f]]
Emptied(k, prior) == {f \in prior : Unindexed(k, prior)[f] = {}}

\* Seeded fault: read paths are stored as spelled.
StoredUnresolved(spec, files) == {Resolve[spec]} \cup (files \ Uninteresting)

\* The file set recordBuild stores: the spec itself, and what was read except
\* the compiler's own files.
Stored(spec, files) ==
  {Resolve[spec]} \cup ({Resolve[p] : p \in files} \ Uninteresting)

\* Seeded fault: imports the spec dropped stay in the reverse index.
RecordBuildKeepsPrior(spec, mode, files) ==
  LET k == KeyOf(spec, mode)
      next == Stored(spec, files)
  IN  /\ recorded' = recorded \cup {k}
      /\ specToFiles' = [specToFiles EXCEPT ![k] = next]
      /\ fileToSpecs' = [f \in File |-> IF f \in next THEN fileToSpecs[f] \cup {k}
                                        ELSE fileToSpecs[f]]
      /\ indexed' = indexed \cup next

\* recordBuild: the new reads replace the prior ones in both indices.
RecordBuild(spec, mode, files) ==
  LET k == KeyOf(spec, mode)
      prior == specToFiles[k]
      next == Stored(spec, files)
  IN  /\ recorded' = recorded \cup {k}
      /\ specToFiles' = [specToFiles EXCEPT ![k] = next]
      /\ fileToSpecs' = [f \in File |->
                           IF f \in next THEN Unindexed(k, prior)[f] \cup {k}
                           ELSE Unindexed(k, prior)[f]]
      /\ indexed' = (indexed \ Emptied(k, prior)) \cup next

\* Seeded fault: the reverse index is left alone.
ForgetForwardOnly(spec, mode) ==
  LET k == KeyOf(spec, mode)
  IN  /\ recorded' = recorded \ {k}
      /\ specToFiles' = [specToFiles EXCEPT ![k] = {}]
      /\ UNCHANGED <<fileToSpecs, indexed>>

\* forget
Forget(spec, mode) ==
  LET k == KeyOf(spec, mode)
  IN  /\ recorded' = recorded \ {k}
      /\ specToFiles' = [specToFiles EXCEPT ![k] = {}]
      /\ fileToSpecs' = Unindexed(k, specToFiles[k])
      /\ indexed' = indexed \ Emptied(k, specToFiles[k])

\* clear
Clear ==
  /\ recorded' = {}
  /\ specToFiles' = [k \in Key |-> {}]
  /\ indexed' = {}
  /\ fileToSpecs' = [f \in File |-> {}]

Next ==
  \/ \E spec \in SpecPath, mode \in Mode :
       \/ \E files \in SUBSET Path : RecordBuild(spec, mode, files)
       \/ Forget(spec, mode)
  \/ Clear

Spec == Init /\ [][Next]_vars

-------------------------------------------------------------------------------
(* The queries *)

AffectedKeys(p) == IF Resolve[p] \in indexed THEN fileToSpecs[Resolve[p]] ELSE {}
SpecsAffectedBy(p) == {k[2] : k \in AffectedKeys(p) \cap recorded}
AffectedEntries(p) ==
  {[mode |-> k[1], spec |-> k[2]] : k \in AffectedKeys(p) \cap recorded}
KnownSpecs(mode) == {k[2] : k \in {r \in recorded : r[1] = mode}}
HasSpec(spec, mode) == KeyOf(spec, mode) \in recorded
AllRecordedFiles == UNION {specToFiles[k] : k \in recorded}

-------------------------------------------------------------------------------
(* Properties *)

\* The reverse index is the exact inverse of the forward one after any sequence
\* of re-recordings and forgets, and keeps no empty sets behind.
IndexExact ==
  /\ \A k \in Key, f \in File : k \in fileToSpecs[f] <=> f \in specToFiles[k]
  /\ indexed = {f \in File : fileToSpecs[f] # {}}
  /\ recorded = {k \in Key : specToFiles[k] # {}}

\* A change of a file is reported to exactly the builds whose last recorded run
\* read it, under every spelling of its path; editing a recorded spec always
\* affects that spec, and nothing outside the recorded files affects anything.
AffectedExact ==
  \A p \in Path :
    /\ AffectedEntries(p) = {[mode |-> k[1], spec |-> k[2]] :
                               k \in {r \in recorded : Resolve[p] \in specToFiles[r]}}
    /\ \A mode \in Mode : HasSpec(p, mode) => Resolve[p] \in SpecsAffectedBy(p)
    /\ SpecsAffectedBy(p) # {} <=> Resolve[p] \in AllRecordedFiles

\* What the reverse index says is the relation the watch loop relies on.
Relation == INSTANCE DependencyRelation
              WITH Build <- Key,
                   known <- recorded,
                   readBy <- [k \in Key |-> {f \in File : k \in fileToSpecs[f]}]

\* Each call changes that relation as its name says and for its build only: a
\* recorded build has reads, a forgotten one has none, and the other builds that
\* read the same files keep them.
ImplementsRelation == Relation!Spec
===============================================================================
