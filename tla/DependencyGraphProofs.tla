------------------------- MODULE DependencyGraphProofs -------------------------
(***************************************************************************)
(* For any files, specs and modes: the two indices of the dependency graph *)
(* stay inverse to each other, so the queries, which read the reverse one, *)
(* answer exactly, and the graph is the relation the watch loop relies on. *)
(*                                                                         *)
(* A call only touches one key k, whose files go from prior to next in     *)
(* both indices: Moves says so of RecordBuild and, with next = {}, of      *)
(* Forget, and the invariant is proved once for both.                      *)
(***************************************************************************)
EXTENDS DependencyGraph, TLAPS

\* The calls name keys and files of the graph.
LEMMA CallArguments ==
  ASSUME NEW spec \in SpecPath, NEW mode \in Mode, NEW files \in SUBSET Path
  PROVE  /\ KeyOf(spec, mode) \in Key
         /\ Stored(spec, files) \in SUBSET File
         /\ Stored(spec, files) # {}
  BY ResolveAssumption, SpecPathAssumption DEF KeyOf, Key, Stored

\* Key k reads the files next from now on, in both indices.
Moves(k, next) ==
  /\ specToFiles' = [specToFiles EXCEPT ![k] = next]
  /\ \A f \in File : fileToSpecs'[f] =
       (fileToSpecs[f] \ {k}) \cup (IF f \in next THEN {k} ELSE {})
  /\ indexed' = {f \in File : fileToSpecs'[f] # {}}
  /\ recorded' = {l \in Key : specToFiles'[l] # {}}

\* recordBuild, forget and clear keep the types.
LEMMA TypeStep == TypeOK /\ [Next]_vars => TypeOK'
<1> SUFFICES ASSUME TypeOK, [Next]_vars PROVE TypeOK'
  OBVIOUS
<1>1. ASSUME NEW spec \in SpecPath, NEW mode \in Mode, NEW files \in SUBSET Path,
             RecordBuild(spec, mode, files)
      PROVE  TypeOK'
  <2> DEFINE k == KeyOf(spec, mode)
             next == Stored(spec, files)
  <2>1. k \in Key /\ next \in SUBSET File
    BY CallArguments
  <2> HIDE DEF k, next
  <2>2. \A f \in File : Unindexed(k, specToFiles[k])[f] \in SUBSET Key
    BY DEF Unindexed, TypeOK
  <2>3. fileToSpecs' = [f \in File |-> IF f \in next
                                       THEN Unindexed(k, specToFiles[k])[f] \cup {k}
                                       ELSE Unindexed(k, specToFiles[k])[f]]
    BY <1>1 DEF RecordBuild, k, next
  <2>4. fileToSpecs' \in [File -> SUBSET Key]
    BY <2>1, <2>2, <2>3
  <2>5. /\ recorded' = recorded \cup {k}
        /\ specToFiles' = [specToFiles EXCEPT ![k] = next]
        /\ indexed' \subseteq indexed \cup next
    BY <1>1 DEF RecordBuild, k, next
  <2>. QED  BY <2>1, <2>4, <2>5 DEF TypeOK
<1>2. ASSUME NEW spec \in SpecPath, NEW mode \in Mode, Forget(spec, mode)
      PROVE  TypeOK'
  <2>1. KeyOf(spec, mode) \in Key
    BY CallArguments
  <2>. QED  BY <1>2, <2>1 DEF Forget, Unindexed, TypeOK
<1>3. CASE Clear
  BY <1>3 DEF Clear, TypeOK
<1>4. CASE UNCHANGED vars
  BY <1>4 DEF vars, TypeOK
<1>. QED
  BY <1>1, <1>2, <1>3, <1>4 DEF Next

\* What RecordBuild and Forget do to the indices of an exact graph.
LEMMA CallsMove ==
  ASSUME TypeOK, IndexExact, NEW spec \in SpecPath, NEW mode \in Mode
  PROVE  /\ \A files \in SUBSET Path : RecordBuild(spec, mode, files) =>
              Moves(KeyOf(spec, mode), Stored(spec, files))
         /\ Forget(spec, mode) => Moves(KeyOf(spec, mode), {})
<1> DEFINE k == KeyOf(spec, mode)
           prior == specToFiles[k]
<1>1. k \in Key
  BY CallArguments
<1> HIDE DEF k
<1>2. \A f \in File : Unindexed(k, prior)[f] = fileToSpecs[f] \ {k}
  BY <1>1 DEF Unindexed, IndexExact
<1>3. prior \in SUBSET File
  BY <1>1 DEF TypeOK
<1>4. Emptied(k, prior) = {f \in prior : fileToSpecs[f] \ {k} = {}}
  BY <1>2, <1>3 DEF Emptied
<1>5. \A f \in prior : k \in fileToSpecs[f]
  BY <1>1, <1>3 DEF IndexExact
<1>6. \A f \in File \ prior : k \notin fileToSpecs[f]
  BY <1>1 DEF IndexExact
<1>7. indexed \ Emptied(k, prior) = {f \in File : fileToSpecs[f] \ {k} # {}}
  BY <1>3, <1>4, <1>5, <1>6 DEF IndexExact
<1>8. ASSUME NEW files \in SUBSET Path, RecordBuild(spec, mode, files)
      PROVE  Moves(k, Stored(spec, files))
  <2> DEFINE next == Stored(spec, files)
  <2>1. next \in SUBSET File /\ next # {}
    BY CallArguments
  <2> HIDE DEF next
  <2>2. /\ recorded' = recorded \cup {k}
        /\ specToFiles' = [specToFiles EXCEPT ![k] = next]
        /\ fileToSpecs' = [f \in File |-> IF f \in next
                                          THEN Unindexed(k, prior)[f] \cup {k}
                                          ELSE Unindexed(k, prior)[f]]
        /\ indexed' = (indexed \ Emptied(k, prior)) \cup next
    BY <1>8 DEF RecordBuild, k, next
  <2>3. \A f \in File : fileToSpecs'[f] =
          (fileToSpecs[f] \ {k}) \cup (IF f \in next THEN {k} ELSE {})
    BY <1>2, <2>2
  <2>4. indexed' = {f \in File : fileToSpecs'[f] # {}}
    BY <1>7, <2>1, <2>2, <2>3
  <2>5. recorded' = {l \in Key : specToFiles'[l] # {}}
    BY <1>1, <2>1, <2>2 DEF IndexExact, TypeOK
  <2>. QED  BY <2>2, <2>3, <2>4, <2>5 DEF Moves, next
<1>9. ASSUME Forget(spec, mode)
      PROVE  Moves(k, {})
  <2>1. /\ recorded' = recorded \ {k}
        /\ specToFiles' = [specToFiles EXCEPT ![k] = {}]
        /\ fileToSpecs' = Unindexed(k, prior)
        /\ indexed' = indexed \ Emptied(k, prior)
    BY <1>9 DEF Forget, k
  <2>2. \A f \in File : fileToSpecs'[f] = fileToSpecs[f] \ {k}
    BY <1>2, <2>1
  <2>3. indexed' = {f \in File : fileToSpecs'[f] # {}}
    BY <1>7, <2>1, <2>2
  <2>4. recorded' = {l \in Key : specToFiles'[l] # {}}
    BY <1>1, <2>1 DEF IndexExact, TypeOK
  <2>. QED  BY <2>1, <2>2, <2>3, <2>4 DEF Moves
<1>. QED  BY <1>8, <1>9 DEF k

\* A change of one key's files that moves both indices keeps them inverse.
LEMMA MovesKeepExact ==
  ASSUME TypeOK, IndexExact, NEW k \in Key, NEW next \in SUBSET File, Moves(k, next)
  PROVE  IndexExact'
<1>1. ASSUME NEW l \in Key, NEW f \in File
      PROVE  l \in fileToSpecs'[f] <=> f \in specToFiles'[l]
  <2>1. l \in fileToSpecs[f] <=> f \in specToFiles[l]
    BY DEF IndexExact
  <2>2. specToFiles'[l] = IF l = k THEN next ELSE specToFiles[l]
    BY DEF Moves, TypeOK
  <2>3. fileToSpecs'[f] = (fileToSpecs[f] \ {k}) \cup (IF f \in next THEN {k} ELSE {})
    BY DEF Moves
  <2>. QED  BY <2>1, <2>2, <2>3
<1>. QED  BY <1>1 DEF Moves, IndexExact

\* recordBuild, forget and clear keep the indices inverse to each other.
LEMMA IndexExactStep == TypeOK /\ IndexExact /\ [Next]_vars => IndexExact'
<1> SUFFICES ASSUME TypeOK, IndexExact, [Next]_vars PROVE IndexExact'
  OBVIOUS
<1>1. ASSUME NEW spec \in SpecPath, NEW mode \in Mode, NEW files \in SUBSET Path,
             RecordBuild(spec, mode, files)
      PROVE  IndexExact'
  BY <1>1, CallArguments, CallsMove, MovesKeepExact
<1>2. ASSUME NEW spec \in SpecPath, NEW mode \in Mode, Forget(spec, mode)
      PROVE  IndexExact'
  BY <1>2, CallArguments, CallsMove, MovesKeepExact
<1>3. CASE Clear
  BY <1>3 DEF Clear, IndexExact
<1>4. CASE UNCHANGED vars
  BY <1>4 DEF vars, IndexExact
<1>. QED
  BY <1>1, <1>2, <1>3, <1>4 DEF Next

\* A recorded spec is among the files of its own build.
OwnFile == \A k \in recorded : k[2] \in specToFiles[k]

\* A recorded spec reads at least its own file after every call.
LEMMA OwnFileStep == TypeOK /\ IndexExact /\ OwnFile /\ [Next]_vars => OwnFile'
<1> SUFFICES ASSUME TypeOK, IndexExact, OwnFile, [Next]_vars PROVE OwnFile'
  OBVIOUS
<1>1. ASSUME NEW spec \in SpecPath, NEW mode \in Mode, NEW files \in SUBSET Path,
             RecordBuild(spec, mode, files)
      PROVE  OwnFile'
  <2> DEFINE k == KeyOf(spec, mode)
             next == Stored(spec, files)
  <2>1. k \in Key /\ k[2] \in next
    BY CallArguments DEF KeyOf, Stored
  <2> HIDE DEF k, next
  <2>2. /\ recorded' = recorded \cup {k}
        /\ specToFiles' = [specToFiles EXCEPT ![k] = next]
    BY <1>1 DEF RecordBuild, k, next
  <2>. QED  BY <2>1, <2>2 DEF OwnFile, TypeOK
<1>2. ASSUME NEW spec \in SpecPath, NEW mode \in Mode, Forget(spec, mode)
      PROVE  OwnFile'
  BY <1>2 DEF Forget, OwnFile, TypeOK
<1>3. CASE Clear
  BY <1>3 DEF Clear, OwnFile
<1>4. CASE UNCHANGED vars
  BY <1>4 DEF vars, OwnFile
<1>. QED
  BY <1>1, <1>2, <1>3, <1>4 DEF Next

\* The inductive invariant.
Inv == TypeOK /\ IndexExact /\ OwnFile

\* It holds after every sequence of calls.
THEOREM Invariance == Spec => []Inv
<1>1. Init => Inv
  BY DEF Init, Inv, TypeOK, IndexExact, OwnFile
<1>2. Inv /\ [Next]_vars => Inv'
  BY TypeStep, IndexExactStep, OwnFileStep DEF Inv
<1>. QED  BY <1>1, <1>2, PTL DEF Spec

\* The maps keep their types.
THEOREM TypeCorrect == Spec => []TypeOK
<1>1. Inv => TypeOK
  BY DEF Inv
<1>. QED  BY <1>1, Invariance, PTL

\* The reverse index is the inverse of the forward one, without empty sets.
THEOREM IndexExactHolds == Spec => []IndexExact
<1>1. Inv => IndexExact
  BY DEF Inv
<1>. QED  BY <1>1, Invariance, PTL

\* The queries report exactly the builds whose last recorded run read the file.
THEOREM AffectedExactHolds == Spec => []AffectedExact
<1>1. Inv => AffectedExact
  <2> SUFFICES ASSUME Inv, NEW p \in Path
               PROVE  /\ AffectedEntries(p) =
                           {[mode |-> k[1], spec |-> k[2]] :
                              k \in {r \in recorded : Resolve[p] \in specToFiles[r]}}
                      /\ \A mode \in Mode :
                           HasSpec(p, mode) => Resolve[p] \in SpecsAffectedBy(p)
                      /\ SpecsAffectedBy(p) # {} <=> Resolve[p] \in AllRecordedFiles
    BY DEF AffectedExact
  <2> DEFINE f == Resolve[p]
  <2>1. f \in File
    BY ResolveAssumption
  <2>2. AffectedKeys(p) \cap recorded = {r \in recorded : f \in specToFiles[r]}
    BY <2>1 DEF AffectedKeys, Inv, TypeOK, IndexExact
  <2>3. AffectedEntries(p) = {[mode |-> k[1], spec |-> k[2]] :
                                k \in {r \in recorded : f \in specToFiles[r]}}
    BY <2>2 DEF AffectedEntries
  <2>4. SpecsAffectedBy(p) = {k[2] : k \in {r \in recorded : f \in specToFiles[r]}}
    BY <2>2 DEF SpecsAffectedBy
  <2>5. ASSUME NEW mode \in Mode, HasSpec(p, mode)
        PROVE  f \in SpecsAffectedBy(p)
    <3>1. <<mode, f>> \in recorded /\ f \in specToFiles[<<mode, f>>]
      BY <2>5 DEF HasSpec, KeyOf, Inv, OwnFile
    <3>. QED  BY <2>4, <3>1
  <2>6. SpecsAffectedBy(p) # {} <=> f \in AllRecordedFiles
    BY <2>4 DEF AllRecordedFiles
  <2>. QED  BY <2>3, <2>5, <2>6
<1>. QED  BY <1>1, Invariance, PTL

-------------------------------------------------------------------------------
(* Refinement *)

\* In every state and after every call the reverse index is the relation "the
\* last recorded build of k read f", which the call changes as its name says.
THEOREM ImplementsRelationHolds == Spec => ImplementsRelation
<1> DEFINE readBy == [k \in Key |-> {f \in File : k \in fileToSpecs[f]}]
<1>1. Init => Relation!Init
  BY DEF Init, Relation!Init
<1>2. ASSUME Inv, NEW k \in Key, NEW next \in SUBSET File, Moves(k, next)
      PROVE  readBy' = [readBy EXCEPT ![k] = next]
  <2> SUFFICES ASSUME NEW l \in Key
               PROVE  readBy'[l] = IF l = k THEN next ELSE readBy[l]
    OBVIOUS
  <2>1. \A f \in File : fileToSpecs'[f] =
          (fileToSpecs[f] \ {k}) \cup (IF f \in next THEN {k} ELSE {})
    BY <1>2 DEF Moves
  <2>. QED  BY <2>1
<1>3. ASSUME Inv, NEW k \in Key, NEW next \in SUBSET File, Moves(k, next)
      PROVE  recorded' = IF next = {} THEN recorded \ {k} ELSE recorded \cup {k}
  <2> SUFFICES ASSUME NEW l \in Key
               PROVE  l \in recorded' <=> IF l = k THEN next # {} ELSE l \in recorded
    BY <1>3 DEF Moves, Inv, TypeOK
  <2>1. specToFiles'[l] = IF l = k THEN next ELSE specToFiles[l]
    BY <1>3 DEF Moves, Inv, TypeOK
  <2>2. l \in recorded' <=> specToFiles'[l] # {}
    BY <1>3 DEF Moves
  <2>3. l \in recorded <=> specToFiles[l] # {}
    BY <1>3 DEF Inv, IndexExact
  <2>. QED  BY <2>1, <2>2, <2>3
<1>4. Inv /\ [Next]_vars => [Relation!Next]_(Relation!vars)
  <2> SUFFICES ASSUME Inv, [Next]_vars
               PROVE  Relation!Next \/ UNCHANGED Relation!vars
    OBVIOUS
  <2>1. ASSUME NEW spec \in SpecPath, NEW mode \in Mode, NEW files \in SUBSET Path,
               RecordBuild(spec, mode, files)
        PROVE  Relation!Next
    <3>1. /\ KeyOf(spec, mode) \in Key /\ Stored(spec, files) \in SUBSET File
          /\ Moves(KeyOf(spec, mode), Stored(spec, files))
      BY <2>1, CallArguments, CallsMove DEF Inv
    <3>2. Stored(spec, files) # {}
      BY DEF Stored
    <3>3. Relation!Record(KeyOf(spec, mode), Stored(spec, files))
      BY <1>2, <1>3, <3>1, <3>2 DEF Relation!Record
    <3>. QED  BY <3>1, <3>3 DEF Relation!Next
  <2>2. ASSUME NEW spec \in SpecPath, NEW mode \in Mode, Forget(spec, mode)
        PROVE  Relation!Next
    <3>1. KeyOf(spec, mode) \in Key /\ Moves(KeyOf(spec, mode), {})
      BY <2>2, CallArguments, CallsMove DEF Inv
    <3>2. Relation!Forget(KeyOf(spec, mode))
      BY <1>2, <1>3, <3>1 DEF Relation!Forget
    <3>. QED  BY <3>1, <3>2 DEF Relation!Next
  <2>3. CASE Clear
    <3>1. Relation!Clear
      BY <2>3 DEF Clear, Relation!Clear
    <3>. QED  BY <3>1 DEF Relation!Next
  <2>4. CASE UNCHANGED vars
    BY <2>4 DEF vars, Relation!vars
  <2>. QED
    BY <2>1, <2>2, <2>3, <2>4 DEF Next
<1>. QED
  BY <1>1, <1>4, Invariance, PTL DEF Spec, ImplementsRelation, Relation!Spec
===============================================================================
