-------------------------- MODULE GenerationProofs --------------------------
(***************************************************************************)
(* Theorems about Generation and the repairs it rests on, for any ideas    *)
(* and any batches a live model may answer with.                           *)
(***************************************************************************)
EXTENDS Generation, TLAPS

-----------------------------------------------------------------------------
(* The repair of imports, whatever the files of a project import *)

LEMMA CompletedKeeps ==
  ASSUME NEW f, NEW g
  PROVE  /\ DOMAIN Completed(f, g) = DOMAIN f \cup DOMAIN g
         /\ \A path \in DOMAIN f : Completed(f, g)[path] = f[path]
         /\ \A path \in DOMAIN g \ DOMAIN f : Completed(f, g)[path] = g[path]
BY DEF Completed

(* An import that resolves still does when there are more files. *)
LEMMA ResolvesWithMore ==
  ASSUME NEW target, NEW S, NEW T, S \subseteq T, Resolves(target, S)
  PROVE  Resolves(target, T)
BY DEF Resolves

(* The markers and stubs import nothing and are no placeholders. *)
Added(file) == file.imports = {} /\ file.flaw # "placeholder"

LEMMA MarkersAdded ==
  ASSUME NEW project
  PROVE  /\ DOMAIN project \subseteq DOMAIN WithMarkers(project)
         /\ \A path \in DOMAIN project : WithMarkers(project)[path] = project[path]
         /\ \A path \in DOMAIN WithMarkers(project) \ DOMAIN project :
               Added(WithMarkers(project)[path])
<1> DEFINE markers == {MarkerOf[package] : package \in
              {p \in DOMAIN Packages : Packages[p] \cap DOMAIN project # {}}}
           g == [path \in markers |-> File("marker", "none", {})]
<1>1. WithMarkers(project) = Completed(project, g)
  BY DEF WithMarkers
<1>2. \A path \in DOMAIN g : Added(g[path])
  BY DEF Added, File
<1> HIDE DEF g
<1>3. /\ DOMAIN Completed(project, g) = DOMAIN project \cup DOMAIN g
      /\ \A path \in DOMAIN project : Completed(project, g)[path] = project[path]
      /\ \A path \in DOMAIN g \ DOMAIN project : Completed(project, g)[path] = g[path]
  BY CompletedKeeps
<1> QED
  BY <1>1, <1>2, <1>3

LEMMA StubsAdded ==
  ASSUME NEW project
  PROVE  /\ DOMAIN project \subseteq DOMAIN WithStubs(project)
         /\ \A path \in DOMAIN project : WithStubs(project)[path] = project[path]
         /\ \A path \in DOMAIN WithStubs(project) \ DOMAIN project :
               Added(WithStubs(project)[path])
         /\ \A path \in Failing(project) : \A target \in project[path].imports :
               Resolves(target, DOMAIN project) \/ StubPath(target) \in DOMAIN WithStubs(project)
<1> DEFINE unresolved ==
             {target \in UNION {project[path].imports : path \in Failing(project)} :
                ~Resolves(target, DOMAIN project)}
           stubs == {StubPath(target) : target \in unresolved}
           g == [path \in stubs |-> File("stub", "thin", {})]
<1>1. WithStubs(project) = Completed(project, g)
  BY DEF WithStubs
<1>2. \A path \in DOMAIN g : Added(g[path])
  BY DEF Added, File
<1>3. DOMAIN g = stubs
  OBVIOUS
<1>4. \A path \in Failing(project) : \A target \in project[path].imports :
        Resolves(target, DOMAIN project) \/ StubPath(target) \in stubs
  OBVIOUS
<1> HIDE DEF g, stubs, unresolved
<1>5. /\ DOMAIN Completed(project, g) = DOMAIN project \cup DOMAIN g
      /\ \A path \in DOMAIN project : Completed(project, g)[path] = project[path]
      /\ \A path \in DOMAIN g \ DOMAIN project : Completed(project, g)[path] = g[path]
  BY CompletedKeeps
<1> QED
  BY <1>1, <1>2, <1>3, <1>4, <1>5

(* Once there are stubs, only an import of a bare root can fail. *)
LEMMA StubsSatisfy ==
  ASSUME NEW project, NEW path \in DOMAIN WithStubs(project),
         NEW target \in WithStubs(project)[path].imports,
         ~Resolves(target, DOMAIN WithStubs(project))
  PROVE  /\ target = BareRoot
         /\ path \in DOMAIN project
<1> DEFINE stubbed == WithStubs(project)
<1>1. path \in DOMAIN project /\ stubbed[path] = project[path]
  BY StubsAdded DEF Added
<1>2. ~Resolves(target, DOMAIN project)
  BY StubsAdded, ResolvesWithMore
<1>3. path \in Failing(project)
  BY <1>1, <1>2 DEF Failing
<1>4. StubPath(target) \in DOMAIN stubbed
  BY <1>1, <1>2, <1>3, StubsAdded
<1>5. CASE target # BareRoot
  <2>1. target \in DOMAIN stubbed
    BY <1>4, <1>5 DEF StubPath
  <2> HIDE DEF stubbed
  <2> QED
    BY <1>5, <2>1 DEF Resolves, stubbed
<1> QED
  BY <1>1, <1>5

-----------------------------------------------------------------------------
(* What is deleted fails although everything is stubbed, and nothing that  *)
(* stays needed it.                                                        *)

LEMMA PrunedDomain ==
  ASSUME NEW before, NEW project
  PROVE  /\ DOMAIN Pruned(before, project) = DOMAIN project \ Orphans(before, project)
         /\ \A path \in DOMAIN Pruned(before, project) : Pruned(before, project)[path] = project[path]
BY DEF Pruned, Without, Restrict

LEMMA PrunedDeletesBareRoots ==
  ASSUME NEW before, NEW project,
         \A path \in DOMAIN project : \A target \in project[path].imports :
            ~Resolves(target, DOMAIN project) => target = BareRoot
  PROVE  \A path \in DOMAIN project \ DOMAIN Pruned(before, project) :
            BareRoot \in project[path].imports
<1> SUFFICES ASSUME NEW path \in DOMAIN project, path \notin DOMAIN Pruned(before, project)
             PROVE  BareRoot \in project[path].imports
  OBVIOUS
<1>1. path \in Failing(project)
  BY PrunedDomain DEF Orphans
<1> QED
  BY <1>1 DEF Failing

(* A file the import is looked up as is gone, and it imported a bare root. *)
Lost(before, after, target) ==
  \E lost \in ({target} \cup AsPackage(target)) \cap (DOMAIN before \ DOMAIN after) :
    BareRoot \in before[lost].imports

(* An import of what was made of the files before leads somewhere, is of a *)
(* bare root, or is a plain one of a file that is gone for such an import. *)
Accountable(before, after) ==
  \A path \in DOMAIN after : \A target \in after[path].imports :
    \/ Resolves(target, DOMAIN after)
    \/ target = BareRoot
    \/ target \in after[path].plain /\ Lost(before, after, target)

LEMMA PrunedLeavesBareRoots ==
  ASSUME NEW before, NEW project,
         \A path \in DOMAIN project : \A target \in project[path].imports :
            ~Resolves(target, DOMAIN project) => target = BareRoot
  PROVE  Accountable(project, Pruned(before, project))
<1> DEFINE pruned == Pruned(before, project)
<1>1. /\ DOMAIN pruned = DOMAIN project \ Orphans(before, project)
      /\ \A path \in DOMAIN pruned : pruned[path] = project[path]
  BY PrunedDomain
<1>2. \A path \in DOMAIN project \ DOMAIN pruned : BareRoot \in project[path].imports
  BY PrunedDeletesBareRoots
<1> HIDE DEF pruned
<1>3. ASSUME NEW path \in DOMAIN pruned, NEW target \in pruned[path].imports,
             ~Resolves(target, DOMAIN pruned), target # BareRoot
      PROVE  target \in pruned[path].plain /\ Lost(project, pruned, target)
  <2>1. path \in DOMAIN project /\ target \in project[path].imports /\ pruned[path] = project[path]
    BY <1>1, <1>3
  <2>2. Resolves(target, DOMAIN project)
    BY <2>1, <1>3
  <2>3. PICK found \in DOMAIN project : found \in {target} \cup AsPackage(target)
    BY <2>2, <1>3 DEF Resolves
  <2>4. found \notin DOMAIN pruned
    BY <1>3, <2>3 DEF Resolves
  <2>5. found \notin Referenced(project)
    BY <1>1, <2>3, <2>4 DEF Orphans
  <2>6. target \notin References(project[path])
    BY <2>1, <2>3, <2>5 DEF Referenced
  <2>7. target \in pruned[path].plain
    BY <2>1, <2>6 DEF References
  <2>8. Lost(project, pruned, target)
    BY <1>2, <2>3, <2>4 DEF Lost
  <2> QED
    BY <2>7, <2>8
<1> QED
  BY <1>3 DEF Accountable, pruned

-----------------------------------------------------------------------------
(* What is left of the imports that led nowhere, whatever the project: an  *)
(* import of a bare root, and a plain import, which does not count as a    *)
(* reference, of a file that was deleted because it imported a bare root.  *)
THEOREM LeftoverImports ==
  ASSUME NEW project
  PROVE  Accountable(project, Repaired(project))
<1> DEFINE marked == WithMarkers(project)
           stubbed == WithStubs(marked)
           pruned == Pruned(marked, stubbed)
<1>1. CASE ImportsResolve(project)
  BY <1>1 DEF Repaired, ImportsResolve, Failing, Accountable
<1>2. CASE ~ImportsResolve(project) /\ ImportsResolve(marked)
  <2>1. Repaired(project) = marked
    BY <1>2 DEF Repaired
  <2>2. Failing(marked) = {}
    BY <1>2 DEF ImportsResolve
  <2> HIDE DEF marked
  <2> QED
    BY <2>1, <2>2 DEF Failing, Accountable
<1>3. CASE ~ImportsResolve(project) /\ ~ImportsResolve(marked)
  <2>1. Repaired(project) = pruned
    BY <1>3 DEF Repaired
  <2>2. \A path \in DOMAIN stubbed : \A target \in stubbed[path].imports :
          ~Resolves(target, DOMAIN stubbed) => target = BareRoot
    BY StubsSatisfy
  <2>3. \A path \in DOMAIN stubbed : BareRoot \in stubbed[path].imports =>
          path \in DOMAIN project /\ stubbed[path] = project[path]
    <3> TAKE path \in DOMAIN stubbed
    <3> HAVE BareRoot \in stubbed[path].imports
    <3>1. path \in DOMAIN marked /\ stubbed[path] = marked[path]
      BY StubsAdded DEF Added
    <3>2. path \in DOMAIN project /\ marked[path] = project[path]
      BY <3>1, MarkersAdded DEF Added
    <3> QED
      BY <3>1, <3>2
  <2> HIDE DEF marked, stubbed
  <2>4. Accountable(stubbed, pruned)
    BY <2>2, PrunedLeavesBareRoots
  <2> HIDE DEF pruned
  <2>5. \A target : Lost(stubbed, pruned, target) => Lost(project, pruned, target)
    BY <2>3 DEF Lost
  <2>6. Accountable(project, pruned)
    BY <2>4, <2>5 DEF Accountable
  <2> QED
    BY <2>1, <2>6
<1> QED
  BY <1>1, <1>2, <1>3

(* The repair rewrites no file: it adds files that import nothing, and     *)
(* deletes a file only for its import of a bare root.                      *)
THEOREM RepairSpares ==
  ASSUME NEW project
  PROVE  /\ \A path \in DOMAIN project \cap DOMAIN Repaired(project) :
               Repaired(project)[path] = project[path]
         /\ \A path \in DOMAIN Repaired(project) \ DOMAIN project : Added(Repaired(project)[path])
         /\ \A path \in DOMAIN project \ DOMAIN Repaired(project) : BareRoot \in project[path].imports
<1> DEFINE marked == WithMarkers(project)
           stubbed == WithStubs(marked)
           pruned == Pruned(marked, stubbed)
<1>1. Repaired(project) \in {project, marked, pruned}
  BY DEF Repaired
<1>2. CASE Repaired(project) = project
  BY <1>2
<1>3. CASE Repaired(project) = marked
  BY <1>3, MarkersAdded
<1>4. CASE Repaired(project) = pruned
  <2>1. \A path \in DOMAIN stubbed : \A target \in stubbed[path].imports :
          ~Resolves(target, DOMAIN stubbed) => target = BareRoot
    BY StubsSatisfy
  <2>2. /\ DOMAIN project \subseteq DOMAIN stubbed
        /\ \A path \in DOMAIN project : stubbed[path] = project[path]
    BY MarkersAdded, StubsAdded
  <2>3. \A path \in DOMAIN stubbed \ DOMAIN project : Added(stubbed[path])
    <3> TAKE path \in DOMAIN stubbed \ DOMAIN project
    <3>1. CASE path \in DOMAIN marked
      <4>1. stubbed[path] = marked[path]
        BY <3>1, StubsAdded
      <4> QED
        BY <3>1, <4>1, MarkersAdded
    <3>2. CASE path \notin DOMAIN marked
      BY <3>2, StubsAdded
    <3> QED
      BY <3>1, <3>2
  <2> HIDE DEF stubbed, marked
  <2>4. /\ DOMAIN pruned \subseteq DOMAIN stubbed
        /\ \A path \in DOMAIN pruned : pruned[path] = stubbed[path]
    BY PrunedDomain
  <2>5. \A path \in DOMAIN stubbed \ DOMAIN pruned : BareRoot \in stubbed[path].imports
    BY <2>1, PrunedDeletesBareRoots
  <2> HIDE DEF pruned
  <2> QED
    BY <1>4, <2>2, <2>3, <2>4, <2>5
<1> QED
  BY <1>1, <1>2, <1>3, <1>4

-----------------------------------------------------------------------------
(* What is put together from files is files. *)

Fields(f) == [by |-> f.by, flaw |-> f.flaw, imports |-> f.imports, plain |-> f.plain]

LEMMA NoFilesType == IsBatch(NoFiles)
BY DEF IsBatch, NoFiles

LEMMA CompletedType ==
  ASSUME NEW f, NEW g, IsBatch(f), IsBatch(g)
  PROVE  IsBatch(Completed(f, g))
BY DEF IsBatch, Completed

LEMMA OverlayType ==
  ASSUME NEW f, NEW g, NEW paths, IsBatch(f), IsBatch(g)
  PROVE  IsBatch(Overlay(f, g, paths))
BY DEF IsBatch, Overlay

LEMMA RestrictType ==
  ASSUME NEW f, NEW S \in SUBSET (DOMAIN f), IsBatch(f)
  PROVE  IsBatch(Restrict(f, S))
BY DEF IsBatch, Restrict

LEMMA ScaffoldType ==
  ASSUME NEW i
  PROVE  /\ IsBatch(ScaffoldOf(i))
         /\ DOMAIN ScaffoldOf(i) = ScaffoldPaths(i)
BY DEF IsBatch, IsFile, ScaffoldOf, File, ScaffoldFlaw, Flaws

LEMMA ReplyType ==
  ASSUME NEW paths, NEW thin, NEW imports
  PROVE  IsBatch(Reply(paths, thin, imports))
BY DEF IsBatch, IsFile, Reply, File, Flaws

LEMMA DegradedType ==
  ASSUME NEW i, NEW stage \in Stages
  PROVE  IsBatch(DegradedBatch(i, stage))
BY ScaffoldType, RestrictType DEF DegradedBatch

LEMMA MockType ==
  ASSUME NEW stage \in Stages
  PROVE  IsBatch(MockBatch(stage))
BY ReplyType
   DEF MockBatch, MockDatabase, MockBackend, MockFrontend, MockDocs, MockDemo, Stages

LEMMA AssembledType ==
  ASSUME NEW overall, NEW batch, IsBatch(batch)
  PROVE  IsBatch(Assembled(overall, batch))
<1>1. IsBatch(Hydrated(idea, batch))
  <2>1. IsBatch(Restrict(ScaffoldOf(idea), GapPaths(idea) \cap ScaffoldPaths(idea)))
    BY ScaffoldType, RestrictType
  <2> QED
    BY <2>1, CompletedType DEF Hydrated
<1>2. IsBatch(Merged(idea, batch))
  BY ScaffoldType, OverlayType DEF Merged
<1> QED
  BY <1>1, <1>2 DEF Assembled

LEMMA RepairedType ==
  ASSUME NEW batch, IsBatch(batch)
  PROVE  IsBatch(Repaired(batch))
<1> DEFINE marked == WithMarkers(batch)
           stubbed == WithStubs(marked)
<1>1. IsBatch(marked)
  <2> DEFINE markers == {MarkerOf[package] : package \in
                {p \in DOMAIN Packages : Packages[p] \cap DOMAIN batch # {}}}
  <2>1. IsBatch([path \in markers |-> File("marker", "none", {})])
    BY DEF IsBatch, IsFile, File, Flaws
  <2> QED
    BY <2>1, CompletedType DEF WithMarkers
<1>2. IsBatch(stubbed)
  <2> DEFINE unresolved ==
        {target \in UNION {marked[path].imports : path \in Failing(marked)} :
           ~Resolves(target, DOMAIN marked)}
             stubs == {StubPath(target) : target \in unresolved}
  <2>1. IsBatch([path \in stubs |-> File("stub", "thin", {})])
    BY DEF IsBatch, IsFile, File, Flaws
  <2> HIDE DEF marked
  <2> QED
    BY <1>1, <2>1, CompletedType DEF WithStubs
<1> HIDE DEF stubbed
<1>3. IsBatch(Pruned(marked, stubbed))
  BY <1>2, RestrictType DEF Pruned, Without
<1> QED
  BY <1>1, <1>3 DEF Repaired, stubbed

LEMMA WithFrontendType ==
  ASSUME NEW batch, IsBatch(batch)
  PROVE  IsBatch(WithFrontend(idea, batch))
BY ScaffoldType, OverlayType DEF WithFrontend

LEMMA WithPlansType ==
  ASSUME NEW scope, NEW batch, IsBatch(batch)
  PROVE  IsBatch(WithPlans(idea, scope, batch))
BY ScaffoldType, OverlayType DEF WithPlans

LEMMA PlaceholderSafeType ==
  ASSUME NEW batch, IsBatch(batch)
  PROVE  IsBatch(PlaceholderSafe(idea, batch))
<1> SUFFICES ASSUME NEW path \in DOMAIN batch
             PROVE  IsFile(PlaceholderSafe(idea, batch)[path])
  BY DEF IsBatch, PlaceholderSafe
<1>1. CASE batch[path].flaw = "todo"
  <2>1. PlaceholderSafe(idea, batch)[path] = [batch[path] EXCEPT !.flaw = "none"]
    BY <1>1 DEF PlaceholderSafe
  <2> QED
    BY <1>1, <2>1 DEF IsBatch, IsFile, File, Flaws
<1>2. CASE batch[path].flaw # "todo"
  BY <1>2, ScaffoldType DEF PlaceholderSafe, IsBatch
<1> QED
  BY <1>1, <1>2

(* The completed document is that of the files, or new; nothing else is. *)
LEMMA ArchitectureStep ==
  ASSUME NEW f, IsBatch(f)
  PROVE  /\ IsBatch(WithArchitecture(f))
         /\ DOMAIN f \subseteq DOMAIN WithArchitecture(f)
         /\ \A path \in DOMAIN f :
              /\ WithArchitecture(f)[path].imports = f[path].imports
              /\ WithArchitecture(f)[path] = f[path] \/ WithArchitecture(f)[path].flaw = "none"
              /\ path # "docs/ARCHITECTURE.md" \/ f[path].flaw # "thin" =>
                   WithArchitecture(f)[path] = f[path]
         /\ \A path \in DOMAIN WithArchitecture(f) \ DOMAIN f : Added(WithArchitecture(f)[path])
<1> DEFINE doc == "docs/ARCHITECTURE.md"
           completed == IF doc \in DOMAIN f THEN [f[doc] EXCEPT !.flaw = "none"]
                        ELSE File("appendix", "none", {})
           s == [path \in {doc} |-> completed]
           g == Overlay(f, s, {doc})
<1>1. IsFile(completed) /\ completed.flaw = "none"
  <2>1. CASE doc \in DOMAIN f
    <3>1. f[doc] = Fields(f[doc]) /\ f[doc].plain \subseteq f[doc].imports
      BY <2>1 DEF IsBatch, IsFile, Fields
    <3>2. completed = [f[doc] EXCEPT !.flaw = "none"]
      BY <2>1
    <3> HIDE DEF completed
    <3> QED
      BY <3>1, <3>2 DEF IsFile, Fields, Flaws
  <2>2. CASE doc \notin DOMAIN f
    BY <2>2 DEF IsFile, File, Flaws
  <2> QED
    BY <2>1, <2>2
<1>2. doc \in DOMAIN f => completed.imports = f[doc].imports
  <2> HAVE doc \in DOMAIN f
  <2>1. f[doc] = Fields(f[doc])
    BY DEF IsBatch, IsFile, Fields
  <2>2. completed = [f[doc] EXCEPT !.flaw = "none"]
    OBVIOUS
  <2> HIDE DEF completed
  <2> QED
    BY <2>1, <2>2 DEF Fields
<1>3. doc \notin DOMAIN f => completed.imports = {}
  BY DEF File
<1>4. WithArchitecture(f) = IF Sound(f, doc) THEN f ELSE g
  BY DEF WithArchitecture
<1> HIDE DEF completed
<1>5. /\ DOMAIN g = DOMAIN f \cup {doc}
      /\ \A path \in DOMAIN g : g[path] = IF path = doc THEN completed ELSE f[path]
  BY DEF Overlay
<1> HIDE DEF g
<1>6. CASE Sound(f, doc)
  <2>1. WithArchitecture(f) = f
    BY <1>4, <1>6
  <2> QED
    BY <2>1
<1>7. CASE ~Sound(f, doc)
  <2>1. WithArchitecture(f) = g
    BY <1>4, <1>7
  <2>2. IsBatch(g)
    BY <1>1, <1>5 DEF IsBatch
  <2>3. \A path \in DOMAIN f : g[path].imports = f[path].imports
    BY <1>2, <1>5
  <2>4. \A path \in DOMAIN f : g[path] = f[path] \/ g[path].flaw = "none"
    BY <1>1, <1>5
  <2>5. \A path \in DOMAIN f : path # doc \/ f[path].flaw # "thin" => g[path] = f[path]
    BY <1>5, <1>7 DEF Sound
  <2>6. \A path \in DOMAIN g \ DOMAIN f : Added(g[path])
    BY <1>1, <1>3, <1>5 DEF Added
  <2> QED
    BY <1>5, <2>1, <2>2, <2>3, <2>4, <2>5, <2>6
<1> QED
  BY <1>6, <1>7

LEMMA RepairsType ==
  ASSUME NEW scope, NEW batch, IsBatch(batch)
  PROVE  IsBatch(Repairs(scope, batch))
BY WithFrontendType, WithPlansType, PlaceholderSafeType DEF Repairs

-----------------------------------------------------------------------------
LEMMA GenerationStagesType ==
  ASSUME NEW plan, NEW hackathon
  PROVE  GenerationStages(plan, hackathon) \in Seq(Stages)
<1> DEFINE Included(part) ==
             IF plan.stages # {} THEN Hinted(plan.stages, part) ELSE plan.checks[part]
           Only(stage, included) == IF included THEN <<stage>> ELSE <<>>
<1>1. ASSUME NEW stage \in Stages, NEW included
      PROVE  Only(stage, included) \in Seq(Stages)
  BY <1>1
<1>2. {"database", "backend", "frontend", "docs", "demo"} \subseteq Stages
  BY DEF Stages
<1>3. Only("database", Included("database")) \in Seq(Stages)
  BY <1>1, <1>2
<1>4. Only("backend", Included("backend")) \in Seq(Stages)
  BY <1>1, <1>2
<1>5. Only("frontend", Included("frontend")) \in Seq(Stages)
  BY <1>1, <1>2
<1>6. <<"docs">> \in Seq(Stages)
  BY <1>2
<1>7. Only("demo", hackathon) \in Seq(Stages)
  BY <1>1, <1>2
<1>8. GenerationStages(plan, hackathon) =
        Only("database", Included("database")) \o Only("backend", Included("backend"))
        \o Only("frontend", Included("frontend")) \o <<"docs">> \o Only("demo", hackathon)
  BY DEF GenerationStages
<1> HIDE DEF Only, Included
<1> QED
  BY <1>3, <1>4, <1>5, <1>6, <1>7, <1>8

LEMMA AnsweredType ==
  ASSUME TypeOK, phase = "stages", stages # <<>>,
         NEW batch, IsBatch(batch), NEW m \in Modes, attempt > 0,
         Answered(batch, m)
  PROVE  /\ phase' = "stages"
         /\ stages' \in Seq(Stages)
         /\ answers' \in Seq(Answers)
         /\ IsBatch(written')
         /\ mode' \in Modes
<1>1. Head(stages) \in Stages
  BY DEF TypeOK
<1>2. [attempt |-> attempt, stage |-> Head(stages), mode |-> m] \in Answers
  BY <1>1 DEF TypeOK, Answers, Attempts
<1> QED
  BY <1>2, CompletedType DEF Answered, OverallMode, Together, TypeOK

(* TypeOK alone is not inductive: an answer is of an attempt that began.   *)
TypeInv == TypeOK /\ (phase = "plan" <=> attempt = 0)

LEMMA TypeInit == Init => TypeInv
BY TasksAssumption, NoFilesType
   DEF Init, TypeInv, TypeOK, NoFiles, Modes, Attempts

LEMMA BeginType ==
  ASSUME NEW n \in 1 .. Attempts, Begin(n)
  PROVE  /\ attempt' \in 1 .. Attempts
         /\ stages' \in Seq(Stages)
         /\ IsBatch(written')
         /\ mode' \in Modes
BY GenerationStagesType, NoFilesType DEF Begin, Modes

LEMMA AskStageType ==
  ASSUME TypeInv, AskStage
  PROVE  TypeInv'
<1> USE DEF TypeInv
<1>1. phase = "stages" /\ stages # <<>> /\ attempt > 0
  BY DEF AskStage, TypeOK, Attempts
<1>2. Head(stages) \in Stages
  BY <1>1 DEF TypeOK
<1>3. ASSUME NEW batch, IsBatch(batch), NEW m \in Modes, Answered(batch, m)
      PROVE  TypeInv'
  BY <1>1, <1>3, AnsweredType DEF TypeOK, AskStage
<1>4. CASE Raised
  BY <1>1, <1>4 DEF Raised, TypeOK, AskStage
<1>5. CASE StageFails
  BY <1>3, <1>4, <1>5, NoFilesType DEF StageFails, Modes
<1>6. CASE \E batch \in Replies[Head(stages)] : Answered(batch, "live")
  BY <1>2, <1>3, <1>6, RepliesAssumption DEF Modes, IsReply
<1>7. CASE Answered(DegradedBatch(idea, Head(stages)), "degraded")
  BY <1>2, <1>3, <1>7, DegradedType DEF Modes
<1>8. CASE Answered(MockBatch(Head(stages)), "mock")
  BY <1>2, <1>3, <1>8, MockType DEF Modes
<1>9. \/ StageFails
      \/ \E batch \in Replies[Head(stages)] : Answered(batch, "live")
      \/ Answered(DegradedBatch(idea, Head(stages)), "degraded")
      \/ Answered(MockBatch(Head(stages)), "mock")
  BY DEF AskStage
<1> QED
  BY <1>5, <1>6, <1>7, <1>8, <1>9

LEMMA GenerateFilesType ==
  ASSUME TypeInv, GenerateFiles
  PROVE  TypeInv'
<1>1. PICK overall \in {IF written = NoFiles THEN "degraded" ELSE mode} :
        \E assembled \in {Assembled(overall, IF written = NoFiles THEN ScaffoldOf(idea)
                                             ELSE written)} :
        \E repaired \in {Repaired(assembled)} :
           /\ mode' = overall
           /\ files' = Repairs(Scope(idea.category, idea), repaired)
  BY DEF GenerateFiles
<1>2. overall \in Modes
  BY DEF TypeInv, TypeOK, Modes
<1> DEFINE batch == IF written = NoFiles THEN ScaffoldOf(idea) ELSE written
<1>3. IsBatch(batch)
  BY ScaffoldType DEF TypeInv, TypeOK
<1> HIDE DEF batch
<1>4. files' = Repairs(Scope(idea.category, idea), Repaired(Assembled(overall, batch)))
  BY <1>1 DEF batch
<1>5. IsBatch(Repaired(Assembled(overall, batch)))
  BY <1>3, AssembledType, RepairedType
<1>6. IsBatch(files')
  BY <1>4, <1>5, RepairsType
<1> QED
  BY <1>1, <1>2, <1>6 DEF TypeInv, TypeOK, GenerateFiles

LEMMA ValidateMvpType ==
  ASSUME TypeInv, ValidateMvp
  PROVE  TypeInv'
<1> DEFINE scope == Scope(PlannedCategory(idea), idea)
           repaired == Repaired(WithArchitecture(files))
           planned == WithPlans(idea, scope, repaired)
<1>1. files' = PlaceholderSafe(idea, planned) /\ phase' \in {"passed", "failed"}
  BY DEF ValidateMvp, RepairedAgain
<1>2. IsBatch(repaired)
  BY ArchitectureStep, RepairedType DEF TypeInv, TypeOK
<1> HIDE DEF repaired, scope
<1>3. IsBatch(planned)
  BY <1>2, WithPlansType
<1> HIDE DEF planned
<1>4. IsBatch(files')
  BY <1>1, <1>3, PlaceholderSafeType
<1> QED
  BY <1>1, <1>4 DEF TypeInv, TypeOK, ValidateMvp

LEMMA TypeStep == TypeInv /\ [Next]_vars => TypeInv'
<1> SUFFICES ASSUME TypeInv, [Next]_vars
             PROVE  TypeInv'
  OBVIOUS
<1>1. CASE PlanRepo
  <2>1. 1 \in 1 .. Attempts
    BY DEF Attempts
  <2> QED
    BY <1>1, <2>1, BeginType DEF PlanRepo, TypeInv, TypeOK
<1>2. CASE AskAgain
  <2>1. attempt + 1 \in 1 .. Attempts
    BY <1>2 DEF AskAgain, TypeInv, TypeOK, Attempts
  <2> QED
    BY <1>2, <2>1, BeginType DEF AskAgain, TypeInv, TypeOK
<1>3. CASE UNCHANGED vars
  BY <1>3 DEF vars, TypeInv, TypeOK
<1> QED
  BY <1>1, <1>2, <1>3, AskStageType, GenerateFilesType, ValidateMvpType DEF Next

(* Whatever the ideas and the replies, the state of a generation has its   *)
(* type; what is written, kept or repaired is always files.                *)
THEOREM TypeCorrect == Spec => []TypeOK
<1>1. TypeInv => TypeOK
  BY DEF TypeInv
<1> QED
  BY <1>1, TypeInit, TypeStep, PTL DEF Spec

-----------------------------------------------------------------------------
(* While stages are asked for, the overall mode is live just when every    *)
(* answer of the attempt is, and no attempt to come has an answer.         *)
Asking == phase \in {"plan", "stages", "raised"}

Live(i) == answers[i].mode = "live"

LiveInv ==
  /\ \A i \in DOMAIN answers : answers[i].attempt <= attempt
  /\ Asking =>
       (mode = "live" <=> \A i \in DOMAIN answers : answers[i].attempt = attempt => Live(i))
  /\ ~Asking =>
       (mode = "live" <=>
          /\ written # NoFiles
          /\ \A i \in DOMAIN answers : answers[i].attempt = attempt => Live(i))

LEMMA AnsweredLive ==
  ASSUME TypeInv, LiveInv, phase = "stages", stages # <<>>, attempt > 0, attempt' = attempt,
         NEW batch, NEW m \in Modes, Answered(batch, m)
  PROVE  LiveInv'
<1> DEFINE answer == [attempt |-> attempt, stage |-> Head(stages), mode |-> m]
<1>1. /\ answer \in Answers
      /\ answers \in Seq(Answers)
      /\ answers' = Append(answers, answer)
  BY DEF Answered, TypeInv, TypeOK, Answers, Attempts
<1>2. /\ DOMAIN answers' = 1 .. Len(answers) + 1
      /\ DOMAIN answers = 1 .. Len(answers)
      /\ \A i \in 1 .. Len(answers) : answers'[i] = answers[i]
      /\ answers'[Len(answers) + 1] = answer
  BY <1>1
<1>3. Len(answers) \in Nat
  BY <1>1
<1>4. phase' = "stages"
  BY DEF Answered
<1>5. \A i \in DOMAIN answers' : answers'[i].attempt <= attempt'
  BY <1>2, <1>3 DEF LiveInv, TypeInv, TypeOK
<1>6. mode' = "live" <=> mode = "live" /\ m = "live"
  BY DEF Answered, OverallMode
<1>7. (\A i \in DOMAIN answers' : answers'[i].attempt = attempt' => Live(i)')
        <=> /\ \A i \in DOMAIN answers : answers[i].attempt = attempt => Live(i)
            /\ m = "live"
  BY <1>2, <1>3 DEF Live
<1> QED
  BY <1>4, <1>5, <1>6, <1>7 DEF LiveInv, Asking

LEMMA BeginLive ==
  ASSUME TypeInv, LiveInv, NEW n \in Nat, n > attempt, Begin(n),
         phase' = "stages", answers' = answers
  PROVE  LiveInv'
<1>1. \A i \in DOMAIN answers : answers[i] \in Answers
  BY DEF TypeInv, TypeOK
<1>2. \A i \in DOMAIN answers : answers[i].attempt < n
  BY <1>1 DEF LiveInv, Answers, Attempts, TypeInv, TypeOK
<1>3. \A i \in DOMAIN answers : answers[i].attempt # n
  BY <1>1, <1>2 DEF Answers
<1> QED
  BY <1>1, <1>2, <1>3 DEF LiveInv, Begin, Asking, Answers

LEMMA LiveInit == Init => LiveInv
BY DEF Init, LiveInv, Asking

LEMMA LiveStep == TypeInv /\ LiveInv /\ [Next]_vars => LiveInv'
<1> SUFFICES ASSUME TypeInv, LiveInv, [Next]_vars
             PROVE  LiveInv'
  OBVIOUS
<1>1. CASE PlanRepo
  <2>1. 1 > attempt
    BY <1>1 DEF PlanRepo, TypeInv
  <2> QED
    BY <1>1, <2>1, BeginLive DEF PlanRepo
<1>2. CASE AskStage
  <2>1. phase = "stages" /\ stages # <<>> /\ attempt > 0 /\ attempt' = attempt
    BY <1>2 DEF AskStage, TypeInv, TypeOK, Attempts
  <2>2. ASSUME NEW batch, NEW m \in Modes, Answered(batch, m)
        PROVE  LiveInv'
    BY <2>1, <2>2, AnsweredLive
  <2>3. CASE Raised
    BY <2>1, <2>3 DEF Raised, LiveInv, Asking, Live
  <2>4. \/ StageFails
        \/ \E batch \in Replies[Head(stages)] : Answered(batch, "live")
        \/ Answered(DegradedBatch(idea, Head(stages)), "degraded")
        \/ Answered(MockBatch(Head(stages)), "mock")
    BY <1>2 DEF AskStage
  <2>5. CASE StageFails
    BY <2>2, <2>3, <2>5 DEF StageFails, Modes
  <2> QED
    BY <2>2, <2>4, <2>5 DEF Modes
<1>3. CASE AskAgain
  <2>1. attempt + 1 > attempt /\ attempt + 1 \in Nat
    BY DEF TypeInv, TypeOK
  <2> QED
    BY <1>3, <2>1, BeginLive DEF AskAgain
<1>4. CASE GenerateFiles
  <2>1. Asking /\ ~Asking'
    BY <1>4 DEF GenerateFiles, Asking
  <2>2. mode' = IF written = NoFiles THEN "degraded" ELSE mode
    BY <1>4 DEF GenerateFiles
  <2> QED
    BY <1>4, <2>1, <2>2 DEF GenerateFiles, LiveInv, Live
<1>5. CASE ValidateMvp
  <2>1. ~Asking /\ ~Asking'
    BY <1>5 DEF ValidateMvp, Asking
  <2> QED
    BY <1>5, <2>1 DEF ValidateMvp, LiveInv, Live
<1>6. CASE UNCHANGED vars
  BY <1>6 DEF vars, LiveInv, Asking, Live
<1> QED
  BY <1>1, <1>2, <1>3, <1>4, <1>5, <1>6 DEF Next

LEMMA LiveInvImplies == LiveInv => LiveMeansEveryStageLive
BY DEF LiveInv, Asking, Live, LiveMeansEveryStageLive, InAttempt

(* Whatever the replies, files count as live just when every stage of the  *)
(* attempt they are from was answered by the live model, with files.       *)
THEOREM LiveMeansLive == Spec => []LiveMeansEveryStageLive
BY TypeInit, TypeStep, LiveInit, LiveStep, LiveInvImplies, PTL DEF Spec

-----------------------------------------------------------------------------
(* A task that must be live has nothing but live answers, and another mode *)
(* only once it got the scaffold.                                          *)
StrictInv ==
  setting = "strict" =>
    /\ \A i \in DOMAIN answers : Live(i)
    /\ mode = "live" \/ (~Asking /\ attempt = Attempts /\ written = NoFiles)

LEMMA StrictInit == Init => StrictInv
BY DEF Init, StrictInv

LEMMA StrictStep == TypeInv /\ StrictInv /\ [Next]_vars => StrictInv'
<1> SUFFICES ASSUME TypeInv, StrictInv, [Next]_vars, setting = "strict", setting' = setting
             PROVE  StrictInv'
  BY DEF StrictInv, Next, vars, PlanRepo, AskStage, AskAgain, GenerateFiles, ValidateMvp
<1>1. CASE PlanRepo
  BY <1>1 DEF PlanRepo, Begin, StrictInv, Live
<1>2. CASE AskStage
  <2>1. phase = "stages" /\ stages # <<>> /\ mode = "live"
    BY <1>2 DEF AskStage, StrictInv, Asking
  <2>2. ASSUME NEW batch, Answered(batch, "live")
        PROVE  StrictInv'
    <3> DEFINE answer == [attempt |-> attempt, stage |-> Head(stages), mode |-> "live"]
    <3>1. /\ answers \in Seq(Answers)
          /\ answers' = Append(answers, answer)
          /\ answer \in Answers
      BY <1>2, <2>1, <2>2 DEF Answered, TypeInv, TypeOK, Answers, Modes, Attempts
    <3>2. \A i \in DOMAIN answers' : answers'[i].mode = "live"
      BY <3>1 DEF StrictInv, Live
    <3> QED
      BY <2>1, <2>2, <3>2 DEF Answered, OverallMode, StrictInv, Live
  <2>3. CASE Raised
    BY <2>1, <2>3 DEF Raised, StrictInv, Live
  <2> QED
    BY <1>2, <2>2, <2>3 DEF AskStage, StageFails
<1>3. CASE AskAgain
  BY <1>3 DEF AskAgain, Begin, StrictInv, Live
<1>4. CASE GenerateFiles
  BY <1>4 DEF GenerateFiles, StrictInv, Asking, Live
<1>5. CASE ValidateMvp
  BY <1>5 DEF ValidateMvp, StrictInv, Asking, Live
<1>6. CASE UNCHANGED vars
  BY <1>6 DEF vars, StrictInv, Asking, Live
<1> QED
  BY <1>1, <1>2, <1>3, <1>4, <1>5, <1>6 DEF Next

LEMMA StrictInvImplies == StrictInv => StrictDegradesOnlyOnEmptyReplies
BY DEF StrictInv, StrictDegradesOnlyOnEmptyReplies, Live

(* Whatever the replies, a task that must be live gets the scaffold only   *)
(* after three attempts of live answers without a file.                    *)
THEOREM StrictDegrades == Spec => []StrictDegradesOnlyOnEmptyReplies
BY TypeInit, TypeStep, StrictInit, StrictStep, StrictInvImplies, PTL DEF Spec

-----------------------------------------------------------------------------
(* From files to files a path keeps what it imports, or imports no bare    *)
(* root; it is gone only if it imported one, and what is new does not.     *)
Spares(before, after) ==
  /\ \A path \in DOMAIN before \cap DOMAIN after :
        \/ after[path].imports = before[path].imports
        \/ BareRoot \notin after[path].imports
  /\ \A path \in DOMAIN before \ DOMAIN after : BareRoot \in before[path].imports
  /\ \A path \in DOMAIN after \ DOMAIN before : BareRoot \notin after[path].imports

LEMMA SparesOnward ==
  ASSUME NEW f, NEW g, NEW h, Spares(f, g), Spares(g, h)
  PROVE  Spares(f, h)
BY DEF Spares

LEMMA ScaffoldImportsNoBareRoot ==
  ASSUME NEW i
  PROVE  \A path \in DOMAIN ScaffoldOf(i) : BareRoot \notin ScaffoldOf(i)[path].imports
<1> TAKE path \in DOMAIN ScaffoldOf(i)
<1>1. \A database : BareRoot \notin ScaffoldImports(path, database)
  BY DEF ScaffoldImports, ClientImports, ServerImports, TestImports, BareRoot
<1>2. ScaffoldOf(i)[path].imports =
        ScaffoldImports(path, Scope(i.category, i).database)
  BY DEF ScaffoldOf, File
<1> QED
  BY <1>1, <1>2

LEMMA CompletedSpares ==
  ASSUME NEW f, NEW g, \A path \in DOMAIN g : BareRoot \notin g[path].imports
  PROVE  Spares(f, Completed(f, g))
BY DEF Spares, Completed

LEMMA OverlaySpares ==
  ASSUME NEW f, NEW g, NEW paths, \A path \in DOMAIN g : BareRoot \notin g[path].imports
  PROVE  Spares(f, Overlay(f, g, paths))
BY DEF Spares, Overlay

LEMMA RepairedSpares ==
  ASSUME NEW f
  PROVE  Spares(f, Repaired(f))
<1>1. \A path \in DOMAIN f \cap DOMAIN Repaired(f) : Repaired(f)[path] = f[path]
  BY RepairSpares
<1>2. \A path \in DOMAIN f \ DOMAIN Repaired(f) : BareRoot \in f[path].imports
  BY RepairSpares
<1>3. \A path \in DOMAIN Repaired(f) \ DOMAIN f : Added(Repaired(f)[path])
  BY RepairSpares
<1> QED
  BY <1>1, <1>2, <1>3 DEF Spares, Added

LEMMA AssembledSpares ==
  ASSUME NEW overall, NEW f
  PROVE  Spares(f, Assembled(overall, f))
<1>1. Spares(f, Hydrated(idea, f))
  <2> DEFINE g == Restrict(ScaffoldOf(idea), GapPaths(idea) \cap ScaffoldPaths(idea))
  <2>1. \A path \in DOMAIN g : BareRoot \notin g[path].imports
    BY ScaffoldImportsNoBareRoot, ScaffoldType DEF Restrict
  <2> HIDE DEF g
  <2>2. Spares(f, Completed(f, g))
    BY <2>1, CompletedSpares
  <2> QED
    BY <2>2 DEF Hydrated, g
<1>2. Spares(f, Merged(idea, f))
  BY ScaffoldImportsNoBareRoot, OverlaySpares DEF Merged
<1> QED
  BY <1>1, <1>2 DEF Assembled

LEMMA PlaceholderSafeSpares ==
  ASSUME NEW f, IsBatch(f)
  PROVE  Spares(f, PlaceholderSafe(idea, f))
<1> DEFINE g == PlaceholderSafe(idea, f)
<1>1. DOMAIN g = DOMAIN f
  BY DEF PlaceholderSafe
<1>2. ASSUME NEW path \in DOMAIN f
      PROVE  g[path].imports = f[path].imports \/ BareRoot \notin g[path].imports
  <2>1. CASE f[path].flaw = "todo"
    <3>1. g[path] = [f[path] EXCEPT !.flaw = "none"]
      BY <2>1 DEF PlaceholderSafe
    <3>2. f[path] = Fields(f[path])
      BY DEF IsBatch, IsFile, Fields
    <3> HIDE DEF g
    <3> QED
      BY <3>1, <3>2 DEF File
  <2>2. CASE f[path].flaw = "placeholder" /\ path \in ScaffoldPaths(idea)
    <3>1. g[path] = ScaffoldOf(idea)[path]
      BY <2>2 DEF PlaceholderSafe
    <3> HIDE DEF g
    <3> QED
      BY <2>2, <3>1, ScaffoldType, ScaffoldImportsNoBareRoot
  <2>3. CASE f[path].flaw # "todo" /\ ~(f[path].flaw = "placeholder" /\ path \in ScaffoldPaths(idea))
    <3>1. g[path] = f[path]
      BY <2>3 DEF PlaceholderSafe
    <3> QED
      BY <3>1
  <2> QED
    BY <2>1, <2>2, <2>3
<1> HIDE DEF g
<1>3. Spares(f, g)
  BY <1>1, <1>2 DEF Spares
<1> QED
  BY <1>3 DEF g

LEMMA ArchitectureSpares ==
  ASSUME NEW f, IsBatch(f)
  PROVE  Spares(f, WithArchitecture(f))
BY ArchitectureStep DEF Spares, Added

LEMMA WithPlansSpares ==
  ASSUME NEW scope, NEW f
  PROVE  Spares(f, WithPlans(idea, scope, f))
BY ScaffoldImportsNoBareRoot, OverlaySpares DEF WithPlans

LEMMA RepairsSpare ==
  ASSUME NEW scope, NEW f, IsBatch(f)
  PROVE  Spares(f, Repairs(scope, f))
<1> DEFINE shown == WithFrontend(idea, f)
           planned == WithPlans(idea, scope, shown)
<1>1. Spares(f, f)
  BY DEF Spares
<1>2. Spares(f, shown)
  BY <1>1, ScaffoldImportsNoBareRoot, OverlaySpares DEF WithFrontend
<1>3. IsBatch(shown)
  BY WithFrontendType
<1> HIDE DEF shown
<1>4. IsBatch(planned) /\ Spares(shown, planned)
  BY <1>3, WithPlansType, WithPlansSpares
<1>5. Spares(planned, PlaceholderSafe(idea, planned))
  BY <1>4, PlaceholderSafeSpares
<1> HIDE DEF planned
<1>6. Spares(f, PlaceholderSafe(idea, planned))
  BY <1>2, <1>4, <1>5, SparesOnward
<1> QED
  BY <1>6 DEF Repairs, shown, planned

-----------------------------------------------------------------------------
(* Files whose placeholders the scaffold can take the place of have none.  *)
NoPlaceholderLeft(f) ==
  \A path \in DOMAIN f \cap ScaffoldPaths(idea) : f[path].flaw # "placeholder"

LEMMA PlaceholderSafeLeavesNone ==
  ASSUME NEW f, IsBatch(f)
  PROVE  NoPlaceholderLeft(PlaceholderSafe(idea, f))
<1> DEFINE g == PlaceholderSafe(idea, f)
<1> SUFFICES ASSUME NEW path \in DOMAIN f, path \in ScaffoldPaths(idea)
             PROVE  g[path].flaw # "placeholder"
  BY DEF NoPlaceholderLeft, PlaceholderSafe
<1>1. CASE f[path].flaw = "todo"
  <2>1. g[path] = [f[path] EXCEPT !.flaw = "none"]
    BY <1>1 DEF PlaceholderSafe
  <2>2. f[path] = Fields(f[path])
    BY DEF IsBatch, IsFile, Fields
  <2> HIDE DEF g
  <2> QED
    BY <2>1, <2>2 DEF File
<1>2. CASE f[path].flaw = "placeholder"
  <2>1. g[path] = ScaffoldOf(idea)[path]
    BY <1>2 DEF PlaceholderSafe
  <2>2. ScaffoldOf(idea)[path].flaw \in {"none", "thin"}
    BY DEF ScaffoldOf, File, ScaffoldFlaw
  <2> HIDE DEF g
  <2> QED
    BY <2>1, <2>2
<1>3. CASE f[path].flaw \notin {"todo", "placeholder"}
  <2>1. g[path] = f[path]
    BY <1>3 DEF PlaceholderSafe
  <2> QED
    BY <1>3, <2>1
<1> QED
  BY <1>1, <1>2, <1>3

LEMMA RepairedLeavesNone ==
  ASSUME NEW f, NoPlaceholderLeft(f)
  PROVE  NoPlaceholderLeft(Repaired(f))
<1>1. \A path \in DOMAIN f \cap DOMAIN Repaired(f) : Repaired(f)[path] = f[path]
  BY RepairSpares
<1>2. \A path \in DOMAIN Repaired(f) \ DOMAIN f : Added(Repaired(f)[path])
  BY RepairSpares
<1> QED
  BY <1>1, <1>2 DEF NoPlaceholderLeft, Added

LEMMA ArchitectureLeavesNone ==
  ASSUME NEW f, IsBatch(f), NoPlaceholderLeft(f)
  PROVE  NoPlaceholderLeft(WithArchitecture(f))
BY ArchitectureStep DEF NoPlaceholderLeft, Added

LEMMA WithPlansLeavesNone ==
  ASSUME NEW scope, NEW f, NoPlaceholderLeft(f)
  PROVE  NoPlaceholderLeft(WithPlans(idea, scope, f))
<1>1. \A path \in DOMAIN ScaffoldOf(idea) : ScaffoldOf(idea)[path].flaw \in {"none", "thin"}
  BY DEF ScaffoldOf, File, ScaffoldFlaw
<1> QED
  BY <1>1 DEF NoPlaceholderLeft, WithPlans, Overlay

-----------------------------------------------------------------------------
(* Imports that are accounted for with what was made of earlier files are, *)
(* too, with those files, as long as the way there spared what it could.   *)
LEMMA AccountableFromBefore ==
  ASSUME NEW f, NEW g, NEW h, Spares(f, g), Accountable(g, h)
  PROVE  Accountable(f, h)
<1>1. ASSUME NEW target, Lost(g, h, target)
      PROVE  Lost(f, h, target)
  <2>1. PICK lost \in ({target} \cup AsPackage(target)) \cap (DOMAIN g \ DOMAIN h) :
               BareRoot \in g[lost].imports
    BY <1>1 DEF Lost
  <2>2. lost \in DOMAIN f /\ BareRoot \in f[lost].imports
    BY <2>1 DEF Spares
  <2> QED
    BY <2>1, <2>2 DEF Lost
<1> QED
  BY <1>1 DEF Accountable

(* What the scaffold puts in place of a plan imports at most the database, *)
(* which is put in place with it.                                          *)
LEMMA PlanImports ==
  ASSUME NEW i, NEW path \in DOMAIN ScaffoldOf(i),
         path \in {"docs/API_SPEC.md"} \cup SchemaPaths,
         NEW target \in ScaffoldOf(i)[path].imports
  PROVE  /\ target = "backend/db.py"
         /\ path \in SchemaPaths
         /\ target \in SchemaPaths
         /\ target \in DOMAIN ScaffoldOf(i)
<1> DEFINE database == Scope(i.category, i).database
<1>1. target \in ScaffoldImports(path, database)
  BY DEF ScaffoldOf, File
<1> HIDE DEF database
<1>2. path = "scripts/seed_data.py" /\ target = "backend/db.py"
  BY <1>1 DEF ScaffoldImports, ClientImports, ServerImports, TestImports, SchemaPaths
<1>3. path \in ScaffoldPaths(i)
  BY ScaffoldType
<1>4. path \notin CommonPaths \cup KindPaths[Kind(i)] \cup {"demo/script.md"}
  BY <1>2 DEF CommonPaths, KindPaths, Kind, ServerPaths, InterfacePaths, CliPaths,
              ExtensionPaths
<1>5. Scope(i.category, i).database /\ path \in DatabasePaths(Kind(i))
  BY <1>3, <1>4 DEF ScaffoldPaths
<1>6. target \in DatabasePaths(Kind(i))
  BY <1>2, <1>5 DEF DatabasePaths
<1>7. target \in ScaffoldPaths(i)
  BY <1>5, <1>6 DEF ScaffoldPaths
<1> QED
  BY <1>2, <1>7, ScaffoldType DEF SchemaPaths

LEMMA WithPlansResolve ==
  ASSUME NEW scope, NEW w, NEW f, Accountable(w, f)
  PROVE  Accountable(w, WithPlans(idea, scope, f))
<1> DEFINE api == IF ApiPlanned(scope, f) THEN {} ELSE {"docs/API_SPEC.md"}
           schema == IF SchemaPlanned(scope, f) THEN {} ELSE SchemaPaths
           paths == api \cup schema
           s == ScaffoldOf(idea)
           g == WithPlans(idea, scope, f)
<1>1. /\ DOMAIN g = DOMAIN f \cup (paths \cap DOMAIN s)
      /\ \A path \in DOMAIN g :
            g[path] = IF path \in paths \cap DOMAIN s THEN s[path] ELSE f[path]
  BY DEF WithPlans, Overlay
<1>2. schema \in {{}, SchemaPaths} /\ api \subseteq {"docs/API_SPEC.md"}
  OBVIOUS
<1> HIDE DEF api, schema, s, g
<1>3. ASSUME NEW path \in DOMAIN g, NEW target \in g[path].imports,
             ~Resolves(target, DOMAIN g), target # BareRoot
      PROVE  target \in g[path].plain /\ Lost(w, g, target)
  <2>1. CASE path \in paths \cap DOMAIN s
    <3>1. target \in s[path].imports
      BY <1>1, <1>3, <2>1
    <3>2. /\ target = "backend/db.py"
          /\ path \in SchemaPaths /\ target \in SchemaPaths /\ target \in DOMAIN s
      BY <1>2, <2>1, <3>1, PlanImports DEF s
    <3>3. target \in schema
      BY <1>2, <2>1, <3>2 DEF SchemaPaths
    <3>4. target \in DOMAIN g
      BY <1>1, <3>2, <3>3
    <3> QED
      BY <1>3, <3>2, <3>4 DEF Resolves, BareRoot
  <2>2. CASE path \notin paths \cap DOMAIN s
    <3>1. path \in DOMAIN f /\ g[path] = f[path]
      BY <1>1, <2>2
    <3>2. ~Resolves(target, DOMAIN f)
      BY <1>1, <1>3, ResolvesWithMore
    <3>3. target \in f[path].plain /\ Lost(w, f, target)
      BY <1>3, <3>1, <3>2 DEF Accountable
    <3>4. PICK lost \in ({target} \cup AsPackage(target)) \cap (DOMAIN w \ DOMAIN f) :
                 BareRoot \in w[lost].imports
      BY <3>3 DEF Lost
    <3>5. lost \notin DOMAIN g
      BY <1>3, <3>4 DEF Resolves
    <3>6. Lost(w, g, target)
      BY <3>4, <3>5 DEF Lost
    <3> QED
      BY <3>1, <3>3, <3>6
  <2> QED
    BY <2>1, <2>2
<1> QED
  BY <1>3 DEF Accountable, g

LEMMA PlaceholderSafeResolves ==
  ASSUME NEW w, NEW f, IsBatch(f), NoPlaceholderLeft(f), Accountable(w, f)
  PROVE  Accountable(w, PlaceholderSafe(idea, f))
<1> DEFINE g == PlaceholderSafe(idea, f)
<1>1. DOMAIN g = DOMAIN f
  BY DEF PlaceholderSafe
<1>2. \A path \in DOMAIN f :
         g[path].imports = f[path].imports /\ g[path].plain = f[path].plain
  <2> TAKE path \in DOMAIN f
  <2>1. CASE f[path].flaw = "todo"
    <3>1. g[path] = [f[path] EXCEPT !.flaw = "none"]
      BY <2>1 DEF PlaceholderSafe
    <3>2. f[path] = Fields(f[path])
      BY DEF IsBatch, IsFile, Fields
    <3> HIDE DEF g
    <3> QED
      BY <3>1, <3>2 DEF File
  <2>2. CASE f[path].flaw # "todo"
    <3>1. g[path] = f[path]
      BY <2>2 DEF PlaceholderSafe, NoPlaceholderLeft
    <3> QED
      BY <3>1
  <2> QED
    BY <2>1, <2>2
<1> HIDE DEF g
<1>3. Accountable(w, g)
  BY <1>1, <1>2 DEF Accountable, Lost
<1> QED
  BY <1>3 DEF g

-----------------------------------------------------------------------------
(* What holds of the files from the time they are put together. *)
RepairInv ==
  /\ phase \in {"generated", "passed", "failed"} => Spares(written, files)
  /\ phase = "generated" => NoPlaceholderLeft(files)
  /\ phase \in {"passed", "failed"} => Accountable(written, files)

LEMMA GenerateFilesRepairs ==
  ASSUME TypeInv, GenerateFiles
  PROVE  RepairInv'
<1> DEFINE overall == IF written = NoFiles THEN "degraded" ELSE mode
           batch == IF written = NoFiles THEN ScaffoldOf(idea) ELSE written
           assembled == Assembled(overall, batch)
           repaired == Repaired(assembled)
           scope == Scope(idea.category, idea)
<1>1. files' = Repairs(scope, repaired) /\ phase' = "generated"
  BY DEF GenerateFiles
<1>2. written' = written /\ idea' = idea
  BY DEF GenerateFiles
<1>3. IsBatch(batch) /\ Spares(written, batch)
  BY ScaffoldType, ScaffoldImportsNoBareRoot DEF TypeInv, TypeOK, Spares, NoFiles
<1> HIDE DEF overall, batch, scope
<1>4. IsBatch(assembled) /\ Spares(batch, assembled)
  BY <1>3, AssembledType, AssembledSpares
<1> HIDE DEF assembled
<1>5. IsBatch(repaired) /\ Spares(assembled, repaired)
  BY <1>4, RepairedType, RepairedSpares
<1> HIDE DEF repaired
<1>6. Spares(repaired, Repairs(scope, repaired))
  BY <1>5, RepairsSpare
<1>7. Spares(written, Repairs(scope, repaired))
  BY <1>3, <1>4, <1>5, <1>6, SparesOnward
<1>8. NoPlaceholderLeft(Repairs(scope, repaired))
  BY <1>5, WithFrontendType, WithPlansType, PlaceholderSafeLeavesNone DEF Repairs
<1> QED
  BY <1>1, <1>2, <1>7, <1>8 DEF RepairInv, NoPlaceholderLeft, Spares

LEMMA ValidateMvpRepairs ==
  ASSUME TypeInv, RepairInv, ValidateMvp
  PROVE  RepairInv'
<1> DEFINE scope == Scope(PlannedCategory(idea), idea)
           documented == WithArchitecture(files)
           repaired == Repaired(documented)
           planned == WithPlans(idea, scope, repaired)
           validated == PlaceholderSafe(idea, planned)
<1>1. /\ files' = validated
      /\ written' = written
      /\ phase' \in {"passed", "failed"}
  BY DEF ValidateMvp, RepairedAgain
<1>2. IsBatch(files) /\ Spares(written, files) /\ NoPlaceholderLeft(files)
  BY DEF TypeInv, TypeOK, RepairInv, ValidateMvp
<1> HIDE DEF scope
<1>3. /\ IsBatch(documented)
      /\ Spares(files, documented)
      /\ NoPlaceholderLeft(documented)
  BY <1>2, ArchitectureStep, ArchitectureSpares, ArchitectureLeavesNone
<1> HIDE DEF documented
<1>4. Spares(written, documented)
  BY <1>2, <1>3, SparesOnward
<1>5. /\ IsBatch(repaired)
      /\ Spares(documented, repaired)
      /\ NoPlaceholderLeft(repaired)
      /\ Accountable(documented, repaired)
  BY <1>3, RepairedType, RepairedSpares, RepairedLeavesNone, LeftoverImports
<1> HIDE DEF repaired
<1>6. Spares(written, repaired) /\ Accountable(written, repaired)
  BY <1>4, <1>5, SparesOnward, AccountableFromBefore
<1>7. /\ IsBatch(planned)
      /\ Spares(written, planned)
      /\ NoPlaceholderLeft(planned)
      /\ Accountable(written, planned)
  <2>1. Spares(repaired, planned)
    BY WithPlansSpares
  <2>2. Accountable(written, planned)
    BY <1>6, WithPlansResolve
  <2>3. IsBatch(planned) /\ NoPlaceholderLeft(planned)
    BY <1>5, WithPlansType, WithPlansLeavesNone
  <2> HIDE DEF planned
  <2> QED
    BY <1>6, <2>1, <2>2, <2>3, SparesOnward
<1> HIDE DEF planned
<1>8. Spares(written, validated)
  <2>1. Spares(planned, validated)
    BY <1>7, PlaceholderSafeSpares
  <2> HIDE DEF validated
  <2> QED
    BY <1>7, <2>1, SparesOnward
<1>9. Accountable(written, validated)
  BY <1>7, PlaceholderSafeResolves
<1> HIDE DEF validated
<1> QED
  BY <1>1, <1>8, <1>9 DEF RepairInv

LEMMA RepairInit == Init => RepairInv
BY DEF Init, RepairInv

LEMMA RepairStep == TypeInv /\ RepairInv /\ [Next]_vars => RepairInv'
<1> SUFFICES ASSUME TypeInv, RepairInv, [Next]_vars
             PROVE  RepairInv'
  OBVIOUS
<1>1. CASE PlanRepo \/ AskStage \/ AskAgain
  <2>1. phase' \in {"stages", "raised"}
    BY <1>1 DEF PlanRepo, AskStage, AskAgain, Answered, Raised, StageFails
  <2> QED
    BY <2>1 DEF RepairInv
<1>2. CASE UNCHANGED vars
  BY <1>2 DEF vars, RepairInv, NoPlaceholderLeft
<1> QED
  BY <1>1, <1>2, GenerateFilesRepairs, ValidateMvpRepairs DEF Next

LEMMA RepairInvImplies ==
  RepairInv => RepairedImportsResolve /\ OnlyBareRootImportersAreDeleted
BY DEF RepairInv, RepairedImportsResolve, OnlyBareRootImportersAreDeleted, Validated,
       Accountable, Lost, Deleted, Spares

(* Whatever the replies import, and in whatever form: no import of the     *)
(* project that is validated leads nowhere, but those of a bare root, and  *)
(* a plain one of a file of the replies that was deleted for such an       *)
(* import.                                                                 *)
THEOREM ImportsAreRepaired == Spec => []RepairedImportsResolve
BY TypeInit, TypeStep, RepairInit, RepairStep, RepairInvImplies, PTL DEF Spec

(* Whatever the replies, the repairs delete a file of theirs only for its  *)
(* import of a bare root.                                                  *)
THEOREM LittleIsDeleted == Spec => []OnlyBareRootImportersAreDeleted
BY TypeInit, TypeStep, RepairInit, RepairStep, RepairInvImplies, PTL DEF Spec

-----------------------------------------------------------------------------
(* What a live model has written imports a bare root only in Python files. *)
WrittenInv ==
  mode = "live" =>
    \A path \in DOMAIN written \cap NotPython : BareRoot \notin written[path].imports

LEMMA AnsweredWritten ==
  ASSUME WrittenInv, NEW batch, IsReply(batch), Answered(batch, "live")
  PROVE  WrittenInv'
<1>1. written' = Completed(batch, written) /\ mode' = mode
  BY DEF Answered, Together, OverallMode
<1>2. /\ DOMAIN Completed(batch, written) = DOMAIN batch \cup DOMAIN written
      /\ \A path \in DOMAIN batch : Completed(batch, written)[path] = batch[path]
      /\ \A path \in DOMAIN written \ DOMAIN batch :
            Completed(batch, written)[path] = written[path]
  BY CompletedKeeps
<1> QED
  BY <1>1, <1>2 DEF WrittenInv, IsReply

LEMMA WrittenInit == Init => WrittenInv
BY DEF Init, WrittenInv, NoFiles

LEMMA WrittenStep == TypeInv /\ WrittenInv /\ [Next]_vars => WrittenInv'
<1> SUFFICES ASSUME TypeInv, WrittenInv, [Next]_vars
             PROVE  WrittenInv'
  OBVIOUS
<1>1. CASE PlanRepo \/ AskAgain
  BY <1>1 DEF PlanRepo, AskAgain, Begin, WrittenInv, NoFiles
<1>2. CASE AskStage
  <2>1. Head(stages) \in Stages
    BY <1>2 DEF AskStage, TypeInv, TypeOK
  <2>2. CASE Raised
    BY <2>2 DEF Raised, WrittenInv
  <2>3. CASE \E batch \in Replies[Head(stages)] : Answered(batch, "live")
    BY <2>1, <2>3, RepliesAssumption, AnsweredWritten
  <2>4. ASSUME NEW batch, NEW m \in {"degraded", "mock"}, Answered(batch, m)
        PROVE  WrittenInv'
    BY <2>4 DEF Answered, OverallMode, WrittenInv
  <2> QED
    BY <1>2, <2>2, <2>3, <2>4 DEF AskStage, StageFails
<1>3. CASE GenerateFiles \/ ValidateMvp \/ UNCHANGED vars
  BY <1>3 DEF GenerateFiles, ValidateMvp, vars, WrittenInv, NoFiles
<1> QED
  BY <1>1, <1>2, <1>3 DEF Next

-----------------------------------------------------------------------------
(* From what the model wrote, w, to files f: every sound file of w is in f *)
(* or has one of the reasons not to be; and what decides whether the       *)
(* frontend and the schema are replaced is sound in f if it was in w.      *)
UiTaken(w, f) ==
  /\ ~Sound(w, "src/App.jsx")
  /\ "src/App.jsx" \in DOMAIN f
  /\ BareRoot \notin f["src/App.jsx"].imports

SchemaTaken(i, w) == ~SchemaPlanned(ValidatedScope(i), w)

Accounted(i, w, f, path) ==
  \/ w[path].flaw # "none"
  \/ BareRoot \in w[path].imports
  \/ path \in DOMAIN f /\ f[path] = w[path]
  \/ path \in UiPaths /\ UiTaken(w, f)
  \/ path \in SchemaPaths /\ SchemaTaken(i, w)

Deciding == {"src/App.jsx", "docs/DATABASE_SCHEMA.sql"}

StaysSound(w, f, path) ==
  Sound(w, path) => Sound(f, path) /\ BareRoot \notin f[path].imports

Survives(i, w, f) ==
  /\ \A path \in DOMAIN w : Accounted(i, w, f, path)
  /\ \A path \in Deciding : StaysSound(w, f, path)

LEMMA UiStaysTaken ==
  ASSUME NEW w, NEW f, NEW g, Spares(f, g), UiTaken(w, f)
  PROVE  UiTaken(w, g)
BY DEF Spares, UiTaken

LEMMA CompletedSurvives ==
  ASSUME NEW i, NEW w, NEW f, NEW g, Survives(i, w, f),
         \A path \in DOMAIN g : BareRoot \notin g[path].imports
  PROVE  Survives(i, w, Completed(f, g))
<1> DEFINE h == Completed(f, g)
<1>1. Spares(f, h)
  BY CompletedSpares
<1>2. DOMAIN f \subseteq DOMAIN h /\ \A path \in DOMAIN f : h[path] = f[path]
  BY CompletedKeeps
<1> HIDE DEF h
<1>3. \A path \in DOMAIN w : Accounted(i, w, h, path)
  BY <1>1, <1>2, UiStaysTaken DEF Survives, Accounted
<1>4. \A path \in Deciding : StaysSound(w, h, path)
  BY <1>2 DEF Survives, StaysSound, Sound
<1>5. Survives(i, w, h)
  BY <1>3, <1>4 DEF Survives
<1> QED
  BY <1>5 DEF h

(* A repair deletes nothing without an import of a bare root. *)
LEMMA RepairedSurvives ==
  ASSUME NEW i, NEW w, NEW f, Survives(i, w, f)
  PROVE  Survives(i, w, Repaired(f))
<1>1. Spares(f, Repaired(f))
  BY RepairedSpares
<1>2. \A path \in DOMAIN f \cap DOMAIN Repaired(f) : Repaired(f)[path] = f[path]
  BY RepairSpares
<1>3. \A path \in DOMAIN f \ DOMAIN Repaired(f) : BareRoot \in f[path].imports
  BY RepairSpares
<1>4. \A path \in DOMAIN w : Accounted(i, w, Repaired(f), path)
  BY <1>1, <1>2, <1>3, UiStaysTaken DEF Survives, Accounted
<1>5. \A path \in Deciding : StaysSound(w, Repaired(f), path)
  BY <1>2, <1>3 DEF Survives, StaysSound, Sound
<1> QED
  BY <1>4, <1>5 DEF Survives

LEMMA ArchitectureSurvives ==
  ASSUME NEW i, NEW w, NEW f, IsBatch(f), Survives(i, w, f)
  PROVE  Survives(i, w, WithArchitecture(f))
<1> DEFINE g == WithArchitecture(f)
<1>1. Spares(f, g)
  BY ArchitectureSpares
<1>2. /\ DOMAIN f \subseteq DOMAIN g
      /\ \A path \in DOMAIN f :
           path # "docs/ARCHITECTURE.md" \/ f[path].flaw # "thin" => g[path] = f[path]
  BY ArchitectureStep
<1> HIDE DEF g
<1>3. \A path \in DOMAIN w : Accounted(i, w, g, path)
  <2> TAKE path \in DOMAIN w
  <2>1. CASE path \in DOMAIN f /\ f[path] = w[path]
    <3>1. w[path].flaw # "none" \/ g[path] = f[path]
      BY <1>2, <2>1
    <3> QED
      BY <1>2, <2>1, <3>1 DEF Accounted
  <2>2. CASE ~(path \in DOMAIN f /\ f[path] = w[path])
    BY <1>1, <2>2, UiStaysTaken DEF Survives, Accounted
  <2> QED
    BY <2>1, <2>2
<1>4. \A path \in Deciding : StaysSound(w, g, path)
  BY <1>2 DEF Survives, StaysSound, Sound, Deciding
<1>5. Survives(i, w, g)
  BY <1>3, <1>4 DEF Survives
<1> QED
  BY <1>5 DEF g

(* An overlay may take what is not sound, imports a bare root, or is of a  *)
(* frontend or database that is replaced.                                  *)
LEMMA OverlaySurvives ==
  ASSUME NEW i, NEW w, NEW f, NEW g, NEW paths, Survives(i, w, f),
         \A path \in DOMAIN g : BareRoot \notin g[path].imports,
         \A path \in Deciding \cap DOMAIN g : g[path].flaw # "thin",
         \A path \in paths \cap DOMAIN g \cap DOMAIN w :
            \/ w[path].flaw # "none"
            \/ BareRoot \in w[path].imports
            \/ path \in UiPaths /\ UiTaken(w, Overlay(f, g, paths))
            \/ path \in SchemaPaths /\ SchemaTaken(i, w)
  PROVE  Survives(i, w, Overlay(f, g, paths))
<1> DEFINE h == Overlay(f, g, paths)
<1>1. Spares(f, h)
  BY OverlaySpares
<1>2. /\ DOMAIN h = DOMAIN f \cup (paths \cap DOMAIN g)
      /\ \A path \in DOMAIN h :
            h[path] = IF path \in paths \cap DOMAIN g THEN g[path] ELSE f[path]
  BY DEF Overlay
<1>3. \A path \in paths \cap DOMAIN g \cap DOMAIN w : Accounted(i, w, h, path)
  BY DEF Accounted
<1> HIDE DEF h
<1>4. \A path \in DOMAIN w \ (paths \cap DOMAIN g) : Accounted(i, w, h, path)
  BY <1>1, <1>2, UiStaysTaken DEF Survives, Accounted
<1>5. \A path \in Deciding : StaysSound(w, h, path)
  BY <1>2 DEF Survives, StaysSound, Sound
<1>6. Survives(i, w, h)
  BY <1>3, <1>4, <1>5 DEF Survives
<1> QED
  BY <1>6 DEF h

LEMMA ScaffoldDecides ==
  ASSUME NEW i
  PROVE  \A path \in Deciding \cap DOMAIN ScaffoldOf(i) : ScaffoldOf(i)[path].flaw = "none"
BY DEF Deciding, ScaffoldOf, ScaffoldFlaw, File

(* A scaffold that has a part of the interface has its App. *)
LEMMA ScaffoldHasApp ==
  ASSUME NEW i, NEW path \in PriorityPaths(i) \cap UiPaths, path \in DOMAIN ScaffoldOf(i)
  PROVE  "src/App.jsx" \in PriorityPaths(i) \cap UiPaths \cap DOMAIN ScaffoldOf(i)
<1>1. path \in InterfacePaths /\ path \in ScaffoldPaths(i)
  BY ScaffoldType DEF UiPaths
<1>2. path \notin CommonPaths \cup {"demo/script.md"}
  BY <1>1 DEF InterfacePaths, CommonPaths
<1>3. path \notin DatabasePaths(Kind(i))
  BY <1>1 DEF InterfacePaths, DatabasePaths
<1>4. path \in KindPaths[Kind(i)]
  BY <1>1, <1>2, <1>3 DEF ScaffoldPaths
<1>5. Kind(i) = "web"
  <2>1. Kind(i) \in {"mobile", "portfolio", "api", "cli", "extension", "web"}
    BY DEF Kind
  <2> QED
    BY <1>1, <1>4, <2>1 DEF KindPaths, InterfacePaths, ServerPaths, CliPaths, ExtensionPaths
<1>6. InterfacePaths \subseteq DOMAIN ScaffoldOf(i)
  <2>1. InterfacePaths \subseteq KindPaths[Kind(i)]
    BY <1>5 DEF KindPaths
  <2>2. KindPaths[Kind(i)] \subseteq ScaffoldPaths(i)
    BY DEF ScaffoldPaths
  <2> QED
    BY <2>1, <2>2, ScaffoldType
<1>7. "src/App.jsx" \in PriorityPaths(i)
  BY <1>1 DEF PriorityPaths, InterfacePaths
<1> QED
  BY <1>6, <1>7 DEF UiPaths, InterfacePaths

LEMMA WithFrontendSurvives ==
  ASSUME NEW i, NEW w, NEW f, Survives(i, w, f)
  PROVE  Survives(i, w, WithFrontend(i, f))
<1>1. CASE HasFrontend(f) /\ ~Sound(f, "src/App.jsx")
  <2> DEFINE s == ScaffoldOf(i)
             paths == PriorityPaths(i) \cap UiPaths
             g == Overlay(f, s, paths)
  <2>1. \A path \in DOMAIN s : BareRoot \notin s[path].imports
    BY ScaffoldImportsNoBareRoot
  <2>2. \A path \in Deciding \cap DOMAIN s : s[path].flaw # "thin"
    BY ScaffoldDecides
  <2>3. ASSUME NEW path \in paths \cap DOMAIN s
        PROVE  path \in UiPaths /\ UiTaken(w, g)
    <3>1. "src/App.jsx" \in paths \cap DOMAIN s
      BY <2>3, ScaffoldHasApp
    <3>2. ~Sound(w, "src/App.jsx")
      BY <1>1 DEF Survives, StaysSound, Deciding
    <3> HIDE DEF s, paths
    <3>3. "src/App.jsx" \in DOMAIN g /\ g["src/App.jsx"] = s["src/App.jsx"]
      BY <3>1 DEF Overlay
    <3> QED
      BY <2>1, <2>3, <3>1, <3>2, <3>3 DEF UiTaken, paths
  <2> HIDE DEF s, paths
  <2>4. Survives(i, w, g)
    BY <2>1, <2>2, <2>3, OverlaySurvives
  <2> QED
    BY <1>1, <2>4 DEF WithFrontend, s, paths
<1>2. CASE ~(HasFrontend(f) /\ ~Sound(f, "src/App.jsx"))
  BY <1>2 DEF WithFrontend
<1> QED
  BY <1>1, <1>2

(* A specification the model wrote well is a plan for any scope, and the   *)
(* scope decides about the schema as the validation does.                  *)
LEMMA WithPlansSurvives ==
  ASSUME NEW i, NEW w, NEW f, NEW scope, Survives(i, w, f),
         scope.database = ValidatedScope(i).database
  PROVE  Survives(i, w, WithPlans(i, scope, f))
<1> DEFINE s == ScaffoldOf(i)
           api == IF ApiPlanned(scope, f) THEN {} ELSE {"docs/API_SPEC.md"}
           schema == IF SchemaPlanned(scope, f) THEN {} ELSE SchemaPaths
           paths == api \cup schema
<1>1. \A path \in DOMAIN s : BareRoot \notin s[path].imports
  BY ScaffoldImportsNoBareRoot
<1>2. \A path \in Deciding \cap DOMAIN s : s[path].flaw # "thin"
  BY ScaffoldDecides
<1>3. ASSUME NEW path \in schema
      PROVE  path \in SchemaPaths /\ SchemaTaken(i, w)
  <2>1. path \in SchemaPaths /\ scope.database /\ ~Sound(f, "docs/DATABASE_SCHEMA.sql")
    BY <1>3 DEF SchemaPlanned
  <2>2. ~Sound(w, "docs/DATABASE_SCHEMA.sql")
    BY <2>1 DEF Survives, StaysSound, Deciding
  <2> QED
    BY <2>1, <2>2 DEF SchemaTaken, SchemaPlanned
<1>4. ASSUME NEW path \in api \cap DOMAIN w
      PROVE  w[path].flaw # "none" \/ BareRoot \in w[path].imports
  <2>1. path = "docs/API_SPEC.md" /\ ~ApiPlanned(scope, f)
    BY <1>4
  <2>2. ~(path \in DOMAIN f /\ f[path].flaw = "none")
    BY <2>1 DEF ApiPlanned, Sound
  <2>3. path \notin UiPaths \cup SchemaPaths
    BY <2>1 DEF UiPaths, InterfacePaths, SchemaPaths
  <2> QED
    BY <2>2, <2>3, <1>4 DEF Survives, Accounted
<1> HIDE DEF s, api, schema
<1>5. Survives(i, w, Overlay(f, s, paths))
  BY <1>1, <1>2, <1>3, <1>4, OverlaySurvives
<1> QED
  BY <1>5 DEF WithPlans, s, api, schema

LEMMA PlaceholderSafeSurvives ==
  ASSUME NEW w, NEW f, IsBatch(f), Survives(idea, w, f)
  PROVE  Survives(idea, w, PlaceholderSafe(idea, f))
<1> DEFINE g == PlaceholderSafe(idea, f)
<1>1. Spares(f, g) /\ DOMAIN g = DOMAIN f
  BY PlaceholderSafeSpares DEF PlaceholderSafe
<1>2. \A path \in DOMAIN f : f[path].flaw = "none" => g[path] = f[path]
  BY DEF PlaceholderSafe
<1>3. ASSUME NEW path \in Deciding \cap DOMAIN f, f[path].flaw # "thin"
      PROVE  g[path].flaw # "thin"
  <2>1. CASE f[path].flaw = "todo"
    <3>1. g[path] = [f[path] EXCEPT !.flaw = "none"]
      BY <2>1 DEF PlaceholderSafe
    <3>2. f[path] = Fields(f[path])
      BY DEF IsBatch, IsFile, Fields
    <3> HIDE DEF g
    <3> QED
      BY <3>1, <3>2 DEF File
  <2>2. CASE f[path].flaw = "placeholder" /\ path \in ScaffoldPaths(idea)
    <3>1. g[path] = ScaffoldOf(idea)[path]
      BY <2>2 DEF PlaceholderSafe
    <3> HIDE DEF g
    <3> QED
      BY <1>3, <2>2, <3>1, ScaffoldType, ScaffoldDecides
  <2>3. CASE f[path].flaw # "todo" /\ ~(f[path].flaw = "placeholder" /\ path \in ScaffoldPaths(idea))
    <3>1. g[path] = f[path]
      BY <2>3 DEF PlaceholderSafe
    <3> QED
      BY <1>3, <3>1
  <2> QED
    BY <2>1, <2>2, <2>3
<1> HIDE DEF g
<1>4. \A path \in DOMAIN w : Accounted(idea, w, g, path)
  BY <1>1, <1>2, UiStaysTaken DEF Survives, Accounted
<1>5. \A path \in Deciding : StaysSound(w, g, path)
  BY <1>1, <1>3 DEF Survives, StaysSound, Sound, Spares
<1>6. Survives(idea, w, g)
  BY <1>4, <1>5 DEF Survives
<1> QED
  BY <1>6 DEF g

-----------------------------------------------------------------------------
(* What holds of a live model's files from the time they are put together. *)
SurvivalInv ==
  phase \in {"generated", "passed", "failed"} /\ mode = "live" =>
    Survives(idea, written, files)

(* The database of a scope does not depend on when it is classified. *)
LEMMA DatabaseIsFixed ==
  ASSUME TypeInv
  PROVE  /\ Scope(idea.category, idea).database = ValidatedScope(idea).database
         /\ Scope(PlannedCategory(idea), idea).database = ValidatedScope(idea).database
<1> DEFINE planned == PlannedCategory(idea)
<1>1. \A category : Scope(category, idea).database =
                      Profile(category, idea).database
  BY DEF Scope
<1>2. ValidatedScope(idea).database = Scope(planned, idea).database
  BY DEF ValidatedScope, Scope
<1>3. planned = idea.category \/ (/\ planned = "api_service"
                                  /\ idea.category \in {"api_service", "data_pipeline"})
  BY DEF PlannedCategory, Platform
<1>4. planned \in Persistent <=> idea.category \in Persistent
  BY <1>3 DEF Persistent
<1>5. Profile(planned, idea).database = Profile(idea.category, idea).database
  BY <1>4 DEF Profile
<1> QED
  BY <1>1, <1>2, <1>5

LEMMA GenerateFilesSurvival ==
  ASSUME TypeInv, WrittenInv, GenerateFiles, mode' = "live"
  PROVE  Survives(idea, written, files')
<1> DEFINE hydrated == Hydrated(idea, written)
           repaired == Repaired(hydrated)
           shown == WithFrontend(idea, repaired)
           scope == Scope(idea.category, idea)
           planned == WithPlans(idea, scope, shown)
<1>1. written # NoFiles /\ mode = "live"
  BY DEF GenerateFiles
<1>2. files' = Repairs(scope, Repaired(Assembled("live", written)))
  BY <1>1 DEF GenerateFiles
<1>3. files' = PlaceholderSafe(idea, planned)
  BY <1>2 DEF Repairs, Assembled
<1>4. Survives(idea, written, written)
  BY <1>1 DEF Survives, Accounted, StaysSound, Sound, WrittenInv, Deciding, NotPython, UiPaths,
              InterfacePaths
<1>5. Survives(idea, written, hydrated)
  <2> DEFINE g == Restrict(ScaffoldOf(idea), GapPaths(idea) \cap ScaffoldPaths(idea))
  <2>1. \A path \in DOMAIN g : BareRoot \notin g[path].imports
    BY ScaffoldImportsNoBareRoot, ScaffoldType DEF Restrict
  <2> HIDE DEF g
  <2>2. Survives(idea, written, Completed(written, g))
    BY <1>4, <2>1, CompletedSurvives
  <2> QED
    BY <2>2 DEF Hydrated, g
<1>6. IsBatch(hydrated)
  BY AssembledType DEF Assembled, TypeInv, TypeOK
<1> HIDE DEF hydrated
<1>7. Survives(idea, written, repaired) /\ IsBatch(repaired)
  BY <1>5, <1>6, RepairedSurvives, RepairedType
<1> HIDE DEF repaired
<1>8. Survives(idea, written, shown) /\ IsBatch(shown)
  BY <1>7, WithFrontendSurvives, WithFrontendType
<1>9. scope.database = ValidatedScope(idea).database
  BY DatabaseIsFixed
<1> HIDE DEF shown, scope
<1>10. Survives(idea, written, planned) /\ IsBatch(planned)
  BY <1>8, <1>9, WithPlansSurvives, WithPlansType
<1> HIDE DEF planned
<1> QED
  BY <1>3, <1>10, PlaceholderSafeSurvives

LEMMA ValidateMvpSurvival ==
  ASSUME TypeInv, ValidateMvp, Survives(idea, written, files)
  PROVE  Survives(idea, written, files')
<1> DEFINE scope == Scope(PlannedCategory(idea), idea)
           documented == WithArchitecture(files)
           repaired == Repaired(documented)
           planned == WithPlans(idea, scope, repaired)
<1>1. files' = PlaceholderSafe(idea, planned)
  BY DEF ValidateMvp, RepairedAgain
<1>2. Survives(idea, written, repaired) /\ IsBatch(repaired)
  <2>1. Survives(idea, written, documented) /\ IsBatch(documented)
    BY ArchitectureStep, ArchitectureSurvives DEF TypeInv, TypeOK
  <2> HIDE DEF documented
  <2> QED
    BY <2>1, RepairedSurvives, RepairedType
<1>3. scope.database = ValidatedScope(idea).database
  BY DatabaseIsFixed
<1> HIDE DEF repaired, scope
<1>4. Survives(idea, written, planned) /\ IsBatch(planned)
  BY <1>2, <1>3, WithPlansSurvives, WithPlansType
<1> HIDE DEF planned
<1> QED
  BY <1>1, <1>4, PlaceholderSafeSurvives

LEMMA SurvivalInit == Init => SurvivalInv
BY DEF Init, SurvivalInv

LEMMA SurvivalStep == TypeInv /\ WrittenInv /\ SurvivalInv /\ [Next]_vars => SurvivalInv'
<1> SUFFICES ASSUME TypeInv, WrittenInv, SurvivalInv, [Next]_vars
             PROVE  SurvivalInv'
  OBVIOUS
<1>1. CASE PlanRepo \/ AskStage \/ AskAgain
  <2>1. phase' \in {"stages", "raised"}
    BY <1>1 DEF PlanRepo, AskStage, AskAgain, Answered, Raised, StageFails
  <2> QED
    BY <2>1 DEF SurvivalInv
<1>2. CASE GenerateFiles
  <2>1. idea' = idea /\ written' = written
    BY <1>2 DEF GenerateFiles
  <2>2. mode' = "live" => Survives(idea, written, files')
    BY <1>2, GenerateFilesSurvival
  <2> QED
    BY <2>1, <2>2 DEF SurvivalInv
<1>3. CASE ValidateMvp
  <2>1. /\ idea' = idea /\ written' = written /\ mode' = mode
        /\ phase = "generated"
    BY <1>3 DEF ValidateMvp
  <2>2. mode = "live" => Survives(idea, written, files')
    BY <1>3, <2>1, ValidateMvpSurvival DEF SurvivalInv
  <2> QED
    BY <2>1, <2>2 DEF SurvivalInv
<1>4. CASE UNCHANGED vars
  BY <1>4 DEF vars, SurvivalInv
<1> QED
  BY <1>1, <1>2, <1>3, <1>4 DEF Next

LEMMA SurvivalInvImplies == SurvivalInv => SoundLiveFilesSurvive
<1> SUFFICES ASSUME SurvivalInv, Validated, mode = "live", NEW path \in DOMAIN written,
                    written[path].flaw = "none", BareRoot \notin written[path].imports,
                    ~(path \in DOMAIN files /\ files[path] = written[path])
             PROVE  \/ path \in UiPaths /\ UiIsReplaced
                    \/ path \in SchemaPaths /\ SchemaIsReplaced
  BY DEF SoundLiveFilesSurvive
<1>1. \/ path \in UiPaths /\ UiTaken(written, files)
      \/ path \in SchemaPaths /\ SchemaTaken(idea, written)
  BY DEF SurvivalInv, Validated, Survives, Accounted
<1>2. UiTaken(written, files) => UiIsReplaced
  BY DEF UiTaken, UiIsReplaced, HasFrontend
<1> QED
  BY <1>1, <1>2 DEF SchemaTaken, SchemaIsReplaced

(* Whatever the replies, a sound file of a live model is validated as the  *)
(* model wrote it, but for a frontend whose App does not show the idea, a  *)
(* database whose schema is none, and an import of a bare root.            *)
THEOREM LiveFilesSurvive == Spec => []SoundLiveFilesSurvive
BY TypeInit, TypeStep, WrittenInit, WrittenStep, SurvivalInit, SurvivalStep,
   SurvivalInvImplies, PTL DEF Spec

-----------------------------------------------------------------------------
(* A project that stands has every file of the scaffold, as the scaffold   *)
(* has it where it takes precedence, and nothing the repairs cannot mend.  *)
Mendable(i, f) ==
  \A path \in DOMAIN f :
    /\ BareRoot \notin f[path].imports
    /\ f[path].flaw = "placeholder" => path \in ScaffoldPaths(i)

Stands(i, f) ==
  /\ ScaffoldPaths(i) \subseteq DOMAIN f
  /\ \A path \in PriorityPaths(i) \cap ScaffoldPaths(i) : f[path] = ScaffoldOf(i)[path]
  /\ Mendable(i, f)

LEMMA ScaffoldMends ==
  ASSUME NEW i
  PROVE  \A path \in ScaffoldPaths(i) :
            /\ BareRoot \notin ScaffoldOf(i)[path].imports
            /\ ScaffoldOf(i)[path].flaw \in {"none", "thin"}
<1>1. \A path \in DOMAIN ScaffoldOf(i) : ScaffoldOf(i)[path].flaw \in {"none", "thin"}
  BY DEF ScaffoldOf, File, ScaffoldFlaw
<1> QED
  BY <1>1, ScaffoldImportsNoBareRoot, ScaffoldType

LEMMA MergedStands ==
  ASSUME NEW i, NEW f, Mendable(i, f)
  PROVE  Stands(i, Merged(i, f))
<1> DEFINE s == ScaffoldOf(i)
           short == {path \in GapPaths(i) \cap DOMAIN f : f[path].flaw = "thin"}
           paths == PriorityPaths(i) \cup short \cup (ScaffoldPaths(i) \ DOMAIN f)
           g == Overlay(f, s, paths)
<1>1. Merged(i, f) = g
  BY DEF Merged
<1>2. PriorityPaths(i) \cup (ScaffoldPaths(i) \ DOMAIN f) \subseteq paths
  OBVIOUS
<1>3. DOMAIN s = ScaffoldPaths(i)
  BY ScaffoldType
<1>4. \A path \in DOMAIN s : BareRoot \notin s[path].imports /\ s[path].flaw \in {"none", "thin"}
  BY <1>3, ScaffoldMends
<1> HIDE DEF s, paths
<1>5. /\ DOMAIN g = DOMAIN f \cup (paths \cap DOMAIN s)
      /\ \A path \in DOMAIN g : g[path] = IF path \in paths \cap DOMAIN s THEN s[path] ELSE f[path]
  BY DEF Overlay
<1> HIDE DEF g
<1>6. Stands(i, g)
  <2>1. ScaffoldPaths(i) \subseteq DOMAIN g
    BY <1>2, <1>3, <1>5
  <2>2. \A path \in PriorityPaths(i) \cap ScaffoldPaths(i) : g[path] = s[path]
    BY <1>2, <1>3, <1>5
  <2>3. Mendable(i, g)
    BY <1>3, <1>4, <1>5 DEF Mendable
  <2> QED
    BY <2>1, <2>2, <2>3 DEF Stands, s
<1> QED
  BY <1>1, <1>6

LEMMA OverlayStands ==
  ASSUME NEW i, NEW f, NEW paths, Stands(i, f)
  PROVE  Stands(i, Overlay(f, ScaffoldOf(i), paths))
<1> DEFINE s == ScaffoldOf(i)
           g == Overlay(f, s, paths)
<1>1. DOMAIN s = ScaffoldPaths(i)
  BY ScaffoldType
<1>2. \A path \in DOMAIN s : BareRoot \notin s[path].imports /\ s[path].flaw \in {"none", "thin"}
  BY <1>1, ScaffoldMends
<1>3. \A path \in PriorityPaths(i) \cap ScaffoldPaths(i) : f[path] = s[path]
  BY DEF Stands
<1> HIDE DEF s
<1>4. /\ DOMAIN g = DOMAIN f \cup (paths \cap DOMAIN s)
      /\ \A path \in DOMAIN g : g[path] = IF path \in paths \cap DOMAIN s THEN s[path] ELSE f[path]
  BY DEF Overlay
<1> HIDE DEF g
<1>5. ScaffoldPaths(i) \subseteq DOMAIN f /\ Mendable(i, f)
  BY DEF Stands
<1>6. Mendable(i, g)
  BY <1>1, <1>2, <1>4, <1>5 DEF Mendable
<1>7. \A path \in PriorityPaths(i) \cap ScaffoldPaths(i) : g[path] = s[path]
  BY <1>3, <1>4, <1>5
<1>8. ScaffoldPaths(i) \subseteq DOMAIN g
  BY <1>4, <1>5
<1>9. Stands(i, g)
  BY <1>6, <1>7, <1>8 DEF Stands, s
<1> QED
  BY <1>9 DEF g, s

LEMMA RepairedStands ==
  ASSUME NEW i, NEW f, Stands(i, f)
  PROVE  Stands(i, Repaired(f))
<1>1. \A path \in DOMAIN f \cap DOMAIN Repaired(f) : Repaired(f)[path] = f[path]
  BY RepairSpares
<1>2. DOMAIN f \subseteq DOMAIN Repaired(f)
  BY RepairSpares DEF Stands, Mendable
<1>3. \A path \in DOMAIN Repaired(f) \ DOMAIN f : Added(Repaired(f)[path])
  BY RepairSpares
<1>4. Mendable(i, Repaired(f))
  BY <1>1, <1>2, <1>3 DEF Stands, Mendable, Added
<1> QED
  BY <1>1, <1>2, <1>4 DEF Stands

LEMMA PlaceholderSafeStands ==
  ASSUME NEW f, IsBatch(f), Stands(idea, f)
  PROVE  /\ Stands(idea, PlaceholderSafe(idea, f))
         /\ HasNoPlaceholder(PlaceholderSafe(idea, f))
<1> DEFINE g == PlaceholderSafe(idea, f)
<1>1. Spares(f, g) /\ DOMAIN g = DOMAIN f
  BY PlaceholderSafeSpares DEF PlaceholderSafe
<1>2. \A path \in DOMAIN f : f[path].flaw \in {"none", "thin"} => g[path] = f[path]
  BY DEF PlaceholderSafe
<1>3. ASSUME NEW path \in DOMAIN f
      PROVE  g[path].flaw \in {"none", "thin"}
  <2>1. CASE f[path].flaw = "todo"
    <3>1. g[path] = [f[path] EXCEPT !.flaw = "none"]
      BY <2>1 DEF PlaceholderSafe
    <3>2. f[path] = Fields(f[path])
      BY DEF IsBatch, IsFile, Fields
    <3> HIDE DEF g
    <3> QED
      BY <3>1, <3>2 DEF File
  <2>2. CASE f[path].flaw = "placeholder"
    <3>1. path \in ScaffoldPaths(idea)
      BY <2>2 DEF Stands, Mendable
    <3>2. g[path] = ScaffoldOf(idea)[path]
      BY <2>2, <3>1 DEF PlaceholderSafe
    <3> HIDE DEF g
    <3> QED
      BY <3>1, <3>2, ScaffoldMends
  <2>3. CASE f[path].flaw \in {"none", "thin"}
    BY <1>2, <2>3
  <2> QED
    BY <2>1, <2>2, <2>3 DEF IsBatch, IsFile, Flaws
<1> HIDE DEF g
<1>4. \A path \in DOMAIN g : g[path].flaw \notin {"todo", "placeholder"}
  BY <1>1, <1>3
<1>5. Mendable(idea, g)
  BY <1>1, <1>4 DEF Stands, Mendable, Spares
<1>6. \A path \in PriorityPaths(idea) \cap ScaffoldPaths(idea) :
         f[path] = ScaffoldOf(idea)[path] /\ g[path] = f[path]
  BY <1>1, <1>2, ScaffoldMends DEF Stands
<1>7. Stands(idea, g)
  BY <1>1, <1>5, <1>6 DEF Stands
<1> QED
  BY <1>4, <1>7 DEF HasNoPlaceholder, g

-----------------------------------------------------------------------------
(* An idea for a web product is planned as what it is.                     *)
LEMMA WebIsWeb ==
  ASSUME NEW i \in Ideas, i.category \in WebCategories
  PROVE  /\ Kind(i) = "web"
         /\ PlannedCategory(i) = i.category
         /\ ValidatedScope(i).routes
         /\ Scope(i.category, i).routes
         /\ ValidatedScope(i).database = Scope(i.category, i).database
         /\ PlannedProfile(i).database = Scope(i.category, i).database
<1>1. Platform(i) = "web"
  BY DEF Platform, WebCategories
<1>2. PlannedCategory(i) = i.category
  BY <1>1 DEF PlannedCategory
<1>3. Kind(i) = "web"
  BY <1>2 DEF Kind, WebCategories, Ideas
<1>4. i.category \notin Routeless /\ Profile(i.category, i).backend
  BY DEF Routeless, WebCategories, Profile
<1>5. Scope(i.category, i).routes
  BY <1>4 DEF Scope
<1> QED
  BY <1>2, <1>3, <1>5 DEF ValidatedScope, Scope, PlannedProfile

(* What the scaffold of a web product has, and has in place of the model's.*)
LEMMA WebScaffold ==
  ASSUME NEW i \in Ideas, i.category \in WebCategories
  PROVE  /\ {"README.md", "src/App.jsx", "backend/main.py", "backend/models.py",
             "docs/API_SPEC.md"} \subseteq PriorityPaths(i) \cap ScaffoldPaths(i)
         /\ {"tests/test_backend.py", "docs/DEPLOY.md"} \subseteq ScaffoldPaths(i)
         /\ i.hackathon => "demo/script.md" \in PriorityPaths(i) \cap ScaffoldPaths(i)
         /\ Scope(i.category, i).database =>
              /\ {"backend/db.py", "docs/DATABASE_SCHEMA.sql"}
                   \subseteq PriorityPaths(i) \cap ScaffoldPaths(i)
              /\ {"data/seed.json", "scripts/seed_data.py"} \subseteq ScaffoldPaths(i)
<1>1. Kind(i) = "web"
  BY WebIsWeb
<1>2. KindPaths[Kind(i)] = ServerPaths \cup InterfacePaths
                           \cup {"package.json", "tests/test_backend.py"}
  BY <1>1 DEF KindPaths
<1>3. DatabasePaths(Kind(i)) = {"data/seed.json", "backend/db.py", "scripts/seed_data.py",
                                "docs/DATABASE_SCHEMA.sql"}
  BY <1>1 DEF DatabasePaths
<1>4. /\ CommonPaths \cup KindPaths[Kind(i)] \subseteq ScaffoldPaths(i)
      /\ Scope(i.category, i).database => DatabasePaths(Kind(i)) \subseteq ScaffoldPaths(i)
      /\ i.hackathon => "demo/script.md" \in ScaffoldPaths(i)
  BY DEF ScaffoldPaths
<1>5. PriorityPaths(i) =
         CommonPaths \cup InterfacePaths \cup (ServerPaths \ {"requirements.txt"})
         \cup {"backend/db.py", "scripts/seed_data.py", "docs/DATABASE_SCHEMA.sql",
               "data/seed.json", "demo/script.md"}
  BY DEF PriorityPaths, Platform, WebCategories
<1> QED
  BY <1>2, <1>3, <1>4, <1>5 DEF CommonPaths, ServerPaths, InterfacePaths

LEMMA StandingIsSound ==
  ASSUME NEW i \in Ideas, i.category \in WebCategories, NEW f, Stands(i, f),
         NEW path \in PriorityPaths(i) \cap ScaffoldPaths(i)
  PROVE  Sound(f, path)
<1>1. path \in DOMAIN f /\ f[path] = ScaffoldOf(i)[path]
  BY DEF Stands
<1>2. Scope(PlannedCategory(i), i).routes
  BY WebIsWeb
<1>3. ScaffoldOf(i)[path].flaw = "none"
  BY <1>2 DEF ScaffoldOf, File, ScaffoldFlaw
<1> QED
  BY <1>1, <1>3 DEF Sound

LEMMA ArchitectureStands ==
  ASSUME NEW i \in Ideas, i.category \in WebCategories, NEW f, Stands(i, f)
  PROVE  WithArchitecture(f) = f
<1>1. "docs/ARCHITECTURE.md" \in PriorityPaths(i) \cap ScaffoldPaths(i)
  BY DEF PriorityPaths, ScaffoldPaths, Platform, WebCategories, CommonPaths
<1>2. Sound(f, "docs/ARCHITECTURE.md")
  BY <1>1, StandingIsSound
<1> QED
  BY <1>2 DEF WithArchitecture

LEMMA StandingPasses ==
  ASSUME NEW i \in Ideas, i.category \in WebCategories, NEW f, Stands(i, f),
         HasNoPlaceholder(f), ImportsResolve(f)
  PROVE  Passes(i, f)
<1> DEFINE scope == ValidatedScope(i)
           database == Scope(i.category, i).database
<1>1. /\ \A path \in {"README.md", "src/App.jsx", "backend/main.py", "backend/models.py",
                      "docs/API_SPEC.md"} : Sound(f, path)
      /\ i.hackathon => Sound(f, "demo/script.md")
      /\ database => Sound(f, "backend/db.py") /\ Sound(f, "docs/DATABASE_SCHEMA.sql")
  BY WebScaffold, StandingIsSound
<1>2. ScaffoldPaths(i) \subseteq DOMAIN f
  BY DEF Stands
<1>3. DescribesTheIdea(i, f) /\ UiIsSpecific(f)
  BY <1>1 DEF DescribesTheIdea, UiIsSpecific
<1>4. Testable(f)
  BY <1>2, WebScaffold DEF Testable
<1>5. scope.routes /\ scope.database = database /\ PlannedProfile(i).database = database
  BY WebIsWeb
<1>6. RoutesExist(scope, f)
  BY <1>1, <1>5 DEF RoutesExist, Sound
<1>7. ApiPlanned(scope, f) /\ SchemaPlanned(scope, f)
  BY <1>1, <1>5 DEF ApiPlanned, SchemaPlanned, Sound
<1>8. ASSUME database
      PROVE  ModelsUsed(f) /\ SeedDataPresent(f)
  <2>1. SeedDataPresent(f)
    BY <1>2, <1>8, WebScaffold DEF SeedDataPresent
  <2>2. "backend/main.py" \in ScaffoldPaths(i) /\ f["backend/main.py"] = ScaffoldOf(i)["backend/main.py"]
    BY WebScaffold DEF Stands
  <2>3. "backend/models.py" \in ScaffoldImports("backend/main.py", database)
    BY <1>8 DEF ScaffoldImports, ServerImports
  <2>4. ScaffoldOf(i)["backend/main.py"].imports = ScaffoldImports("backend/main.py", database)
    BY <2>2 DEF ScaffoldOf, File
  <2>5. "backend/models.py" \in f["backend/main.py"].imports
    BY <2>2, <2>3, <2>4
  <2> QED
    BY <1>1, <1>8, <2>1, <2>5 DEF ModelsUsed, Sound
<1> HIDE DEF scope, database
<1> QED
  BY <1>3, <1>4, <1>5, <1>6, <1>7, <1>8 DEF Passes, scope

-----------------------------------------------------------------------------
(* What is made of a web product without a live model stands.              *)
StandsInv ==
  /\ phase \in {"generated", "passed", "failed"}
  /\ mode # "live" /\ idea.category \in WebCategories
  /\ Mendable(idea, written)
  => Stands(idea, files) /\ phase # "failed"

LEMMA GenerateFilesStands ==
  ASSUME TypeInv, GenerateFiles, mode' # "live", Mendable(idea, written)
  PROVE  Stands(idea, files')
<1> DEFINE overall == IF written = NoFiles THEN "degraded" ELSE mode
           batch == IF written = NoFiles THEN ScaffoldOf(idea) ELSE written
           assembled == Merged(idea, batch)
           repaired == Repaired(assembled)
           shown == WithFrontend(idea, repaired)
           planned == WithPlans(idea, Scope(idea.category, idea), shown)
<1>1. overall # "live"
  BY DEF GenerateFiles
<1>2. files' = Repairs(Scope(idea.category, idea), Repaired(Assembled(overall, batch)))
  BY DEF GenerateFiles
<1>3. files' = PlaceholderSafe(idea, planned)
  BY <1>1, <1>2 DEF Repairs, Assembled
<1>4. Mendable(idea, batch) /\ IsBatch(batch)
  BY ScaffoldMends, ScaffoldType DEF Mendable, TypeInv, TypeOK
<1> HIDE DEF overall, batch
<1>5. Stands(idea, assembled) /\ IsBatch(assembled)
  BY <1>1, <1>4, MergedStands, AssembledType DEF Assembled
<1> HIDE DEF assembled
<1>6. Stands(idea, repaired) /\ IsBatch(repaired)
  BY <1>5, RepairedStands, RepairedType
<1> HIDE DEF repaired
<1>7. Stands(idea, shown) /\ IsBatch(shown)
  BY <1>6, OverlayStands, WithFrontendType DEF WithFrontend
<1> HIDE DEF shown
<1>8. Stands(idea, planned) /\ IsBatch(planned)
  BY <1>7, OverlayStands, WithPlansType DEF WithPlans
<1> HIDE DEF planned
<1> QED
  BY <1>3, <1>8, PlaceholderSafeStands

LEMMA ValidateMvpStands ==
  ASSUME TypeInv, RepairInv, ValidateMvp, Stands(idea, files),
         idea.category \in WebCategories, Mendable(idea, written)
  PROVE  Stands(idea, files') /\ phase' # "failed"
<1> DEFINE repaired == Repaired(files)
           planned == WithPlans(idea, Scope(PlannedCategory(idea), idea), repaired)
           validated == PlaceholderSafe(idea, planned)
<1>1. idea \in Ideas
  BY TasksAssumption DEF TypeInv, TypeOK
<1>2. /\ files' = validated
      /\ phase' = IF Passes(idea, validated) THEN "passed" ELSE "failed"
  <2>1. WithArchitecture(files) = files
    BY <1>1, ArchitectureStands
  <2> QED
    BY <2>1 DEF ValidateMvp, RepairedAgain
<1>3. phase' \in {"passed", "failed"}
  BY <1>2
<1>4. Stands(idea, repaired) /\ IsBatch(repaired)
  BY RepairedStands, RepairedType DEF TypeInv, TypeOK
<1> HIDE DEF repaired
<1>5. Stands(idea, planned) /\ IsBatch(planned)
  BY <1>4, OverlayStands, WithPlansType DEF WithPlans
<1> HIDE DEF planned
<1>6. Stands(idea, validated) /\ HasNoPlaceholder(validated)
  BY <1>5, PlaceholderSafeStands
<1> HIDE DEF validated
<1>7. Accountable(written, validated)
  BY <1>2, <1>3, ValidateMvpRepairs DEF RepairInv, ValidateMvp
<1>8. ImportsResolve(validated)
  <2>1. \A target : ~Lost(written, validated, target)
    BY DEF Lost, Mendable
  <2>2. \A path \in DOMAIN validated : BareRoot \notin validated[path].imports
    BY <1>6 DEF Stands, Mendable
  <2> QED
    BY <1>7, <2>1, <2>2 DEF Accountable, ImportsResolve, Failing
<1>9. Passes(idea, validated)
  BY <1>1, <1>6, <1>8, StandingPasses
<1> QED
  BY <1>2, <1>6, <1>9

LEMMA StandsInit == Init => StandsInv
BY DEF Init, StandsInv

LEMMA StandsStep == TypeInv /\ RepairInv /\ StandsInv /\ [Next]_vars => StandsInv'
<1> SUFFICES ASSUME TypeInv, RepairInv, StandsInv, [Next]_vars
             PROVE  StandsInv'
  OBVIOUS
<1>1. CASE PlanRepo \/ AskStage \/ AskAgain
  <2>1. phase' \in {"stages", "raised"}
    BY <1>1 DEF PlanRepo, AskStage, AskAgain, Answered, Raised, StageFails
  <2> QED
    BY <2>1 DEF StandsInv
<1>2. CASE GenerateFiles
  <2>1. idea' = idea /\ written' = written /\ phase' = "generated"
    BY <1>2 DEF GenerateFiles
  <2>2. mode' # "live" /\ Mendable(idea, written) => Stands(idea, files')
    BY <1>2, GenerateFilesStands
  <2> QED
    BY <2>1, <2>2 DEF StandsInv
<1>3. CASE ValidateMvp
  <2>1. /\ idea' = idea /\ written' = written /\ mode' = mode
        /\ phase = "generated"
    BY <1>3 DEF ValidateMvp
  <2>2. mode # "live" /\ idea.category \in WebCategories /\ Mendable(idea, written) =>
           Stands(idea, files') /\ phase' # "failed"
    BY <1>3, <2>1, ValidateMvpStands DEF StandsInv
  <2> QED
    BY <2>1, <2>2 DEF StandsInv
<1>4. CASE UNCHANGED vars
  BY <1>4 DEF vars, StandsInv
<1> QED
  BY <1>1, <1>2, <1>3, <1>4 DEF Next

LEMMA StandsInvImplies == StandsInv => WebScaffoldPasses
BY DEF StandsInv, WebScaffoldPasses, Mendable

(* Whatever the stages brought, a web product that is not live passes the  *)
(* validation, but for an import of a bare root or a placeholder in a file *)
(* the scaffold does not have.                                             *)
THEOREM WebScaffoldStands == Spec => []WebScaffoldPasses
BY TypeInit, TypeStep, RepairInit, RepairStep, StandsInit, StandsStep, StandsInvImplies,
   PTL DEF Spec
=============================================================================
