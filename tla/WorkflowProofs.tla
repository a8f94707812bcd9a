--------------------------- MODULE WorkflowProofs ---------------------------
(***************************************************************************)
(* Theorems about Workflow, for any set of tasks, of paths and of          *)
(* configurations and any recursion limit.                                 *)
(***************************************************************************)
EXTENDS Workflow, TLAPS

(* TypeOK alone is not inductive: the live progress callback shows the last*)
(* step of a trace, which must have one.                                   *)
CallbackHasStep ==
  \A t \in Tasks : run[t] = "append" => Len(graph[t].trace) > 0

TypeInv == TypeOK /\ CallbackHasStep

-----------------------------------------------------------------------------
(* What the helpers of the nodes return *)

LEMMA StepType ==
  ASSUME NEW n \in Nodes, NEW s \in StepStatuses
  PROVE  Step(n, s) \in Steps
BY DEF Step, Steps

LEMMA WrittenType ==
  ASSUME NEW S \in SUBSET Paths, NEW v \in Versions
  PROVE  Written(S, v) \in [Paths -> Versions]
BY DEF Written, Versions, None

LEMMA OverlayType ==
  ASSUME NEW new \in [Paths -> Versions], NEW old \in [Paths -> Versions]
  PROVE  Overlay(new, old) \in [Paths -> Versions]
BY DEF Overlay

LEMMA RecordType ==
  ASSUME NEW timeline \in [Phases -> PhaseStatuses], NEW S,
         NEW s \in PhaseStatuses
  PROVE  Record(timeline, S, s) \in [Phases -> PhaseStatuses]
BY DEF Record

LEMMA FailsType ==
  ASSUME NEW g \in States, NEW n \in Nodes
  PROVE  Fails(g, n) \in States
BY DEF Fails, States, TaskStatuses

LEMMA RecordsType ==
  ASSUME NEW g \in States, NEW S, NEW s \in PhaseStatuses
  PROVE  Records(g, S, s) \in States
BY RecordType DEF Records, States

LEMMA OutcomeType ==
  ASSUME NEW ok \in BOOLEAN
  PROVE  /\ Outcome(ok) \in StepStatuses
         /\ Outcome(ok) \in PhaseStatuses
BY DEF Outcome, StepStatuses, PhaseStatuses

LEMMA ResultType ==
  ASSUME NEW n \in Nodes, NEW r \in BOOLEAN
  PROVE  /\ Success(n) \in ToolResults
         /\ Failure(n, r) \in ToolResults
BY DEF Success, Failure, ToolResults

LEMMA InitialStateType == InitialState \in States
<1>1. [p \in Phases |-> "pending"] \in [Phases -> PhaseStatuses]
  BY DEF PhaseStatuses
<1>2. NoFiles \in [Paths -> Versions]
  BY DEF NoFiles, Versions
<1>3. NoResult \in ToolResults
  BY DEF NoResult, ToolResults
<1>4. NoReport \in Reports
  BY DEF NoReport, Reports
<1>5. <<>> \in Seq(Steps)
  OBVIOUS
<1>6. "receive_idea" \in Nodes
  BY DEF Nodes
<1> QED
  BY <1>1, <1>2, <1>3, <1>4, <1>5, <1>6 DEF InitialState, States, TaskStatuses, Modes

(* LangGraph applies a well-typed update to a well-typed state. *)
LEMMA LeaveType ==
  ASSUME TypeOK, NEW t \in Tasks, NEW n \in Nodes, NEW s \in StepStatuses,
         NEW g \in States, NEW next \in Nodes \cup {"END"},
         Leave(t, n, s, g, next)
  PROVE  /\ graph' \in [Tasks -> States]
         /\ run' \in [Tasks -> RunPhases]
         /\ UNCHANGED <<settings, store, held, client>>
<1>1. Append(g.trace, Step(n, s)) \in Seq(Steps)
  BY StepType DEF States
<1>2. [g EXCEPT !.trace = Append(@, Step(n, s)), !.pc = next] \in States
  BY <1>1 DEF States
<1>3. AfterNode(n) \in RunPhases
  BY DEF AfterNode, RunPhases
<1> QED
  BY <1>2, <1>3 DEF Leave, TypeOK

-----------------------------------------------------------------------------
(* Every node leaves well-typed states *)

(* The conditional edges lead to nodes. *)
LEMMA RouteType ==
  ASSUME NEW g \in States
  PROVE  /\ RouteAfterGithubExchange(g) \in Nodes
         /\ RouteAfterCreateRepo(g) \in Nodes
         /\ RouteAfterValidateMvp(g) \in Nodes
         /\ RouteAfterCommitProgress(g) \in Nodes
         /\ RouteAfterToolResult(g) \in Nodes
BY DEF RouteAfterGithubExchange, RouteAfterCreateRepo, RouteAfterValidateMvp,
       RouteAfterCommitProgress, RouteAfterToolResult, Nodes

LEMMA RepositoryType ==
  /\ Repositories \subseteq GitHubRepos
  /\ NewRepository \in GitHubRepos
<1>1. NoFiles \in [Paths -> Versions]
  BY DEF NoFiles, Versions
<1>2. /\ {AutoInitPath} \in SUBSET Paths
      /\ HealthPaths \in SUBSET Paths
      /\ "prior" \in Versions
  BY PathsAssumption DEF Versions
<1>3. /\ Written({AutoInitPath}, "prior") \in [Paths -> Versions]
      /\ Written(HealthPaths, "prior") \in [Paths -> Versions]
  BY <1>2, WrittenType
<1>4. /\ [repo |-> "absent", tree |-> NoFiles] \in GitHubRepos
      /\ [repo |-> "empty", tree |-> NoFiles] \in GitHubRepos
  BY <1>1 DEF GitHubRepos
<1>5. \A S \in {{AutoInitPath}, HealthPaths} :
        [repo |-> "populated", tree |-> Written(S, "prior")] \in GitHubRepos
  BY <1>3 DEF GitHubRepos
<1> QED
  BY <1>4, <1>5 DEF Repositories, NewRepository

LEMMA CreateOutcomesType ==
  ASSUME TypeOK, NEW t \in Tasks, NEW outcome \in CreateOutcomes(t)
  PROVE  /\ outcome[1] \in BOOLEAN
         /\ outcome[2] \in GitHubRepos
BY RepositoryType DEF TypeOK, CreateOutcomes

LEMMA CommittedFilesType ==
  ASSUME NEW files \in [Paths -> Versions]
  PROVE  CommittedFiles(files) \in [Paths -> Versions]
<1>1. Written(HealthPaths, "scaffold") \in [Paths -> Versions]
  BY PathsAssumption, WrittenType DEF Versions
<1> QED
  BY <1>1, OverlayType DEF CommittedFiles

LEMMA CommitOutcomesType ==
  ASSUME TypeOK, NEW t \in Tasks, NEW outcome \in CommitOutcomes(t)
  PROVE  /\ outcome[1] \in BOOLEAN
         /\ outcome[2] \in GitHubRepos
<1> DEFINE files  == CommittedFiles(graph[t].artifacts)
           before == github[t]
           after  == [repo |-> "populated", tree |-> Overlay(files, before.tree)]
           seeded == {[repo |-> "populated", tree |-> Written({p}, files[p])] :
                        p \in DomainOf(files)}
<1>1. files \in [Paths -> Versions]
  BY CommittedFilesType DEF TypeOK, States
<1>2. before \in GitHubRepos
  BY DEF TypeOK
<1>3. after \in GitHubRepos
  BY <1>1, <1>2, OverlayType DEF GitHubRepos
<1>4. seeded \subseteq GitHubRepos
  <2>1. ASSUME NEW p \in DomainOf(files)
        PROVE  [repo |-> "populated", tree |-> Written({p}, files[p])] \in GitHubRepos
    <3>1. p \in Paths /\ files[p] \in Versions
      BY <1>1 DEF DomainOf
    <3>2. Written({p}, files[p]) \in [Paths -> Versions]
      BY <3>1, WrittenType
    <3> QED
      BY <3>2 DEF GitHubRepos
  <2> QED
    BY <2>1
<1>5. \/ outcome \in {TRUE} \X {before}
      \/ outcome \in {FALSE} \X {before}
      \/ outcome \in {<<TRUE, after>>, <<FALSE, after>>, <<FALSE, before>>}
      \/ outcome \in {FALSE} \X seeded
  BY DEF CommitOutcomes
<1> HIDE DEF files, before, after, seeded
<1>6. CASE outcome \in {TRUE} \X {before} \/ outcome \in {FALSE} \X {before}
  BY <1>2, <1>6
<1>7. CASE outcome \in {<<TRUE, after>>, <<FALSE, after>>, <<FALSE, before>>}
  <2>1. \E b \in BOOLEAN, r \in {after, before} : outcome = <<b, r>>
    BY <1>7
  <2> QED
    BY <1>2, <1>3, <2>1
<1>8. CASE outcome \in {FALSE} \X seeded
  BY <1>4, <1>8
<1> QED
  BY <1>5, <1>6, <1>7, <1>8

(* The shape of every node: an update of the state and, for two of them,   *)
(* of the repository.                                                      *)
LEMMA NodeType ==
  ASSUME TypeInv, NEW t \in Tasks, NEW n \in Nodes, NEW s \in StepStatuses,
         NEW g \in States, NEW next \in Nodes \cup {"END"},
         Leave(t, n, s, g, next),
         \/ UNCHANGED github
         \/ \E r \in GitHubRepos : github' = [github EXCEPT ![t] = r]
  PROVE  TypeInv'
<1>0. TypeOK
  BY DEF TypeInv
<1>1. github' \in [Tasks -> GitHubRepos]
  BY <1>0 DEF TypeOK
<1>2. TypeOK'
  BY <1>0, <1>1, LeaveType DEF TypeOK
<1>3. CallbackHasStep'
  <2>1. graph'[t].trace = Append(g.trace, Step(n, s))
    BY <1>0 DEF Leave, TypeOK, States
  <2>2. Len(graph'[t].trace) > 0
    BY <2>1, StepType DEF States
  <2>3. ASSUME NEW u \in Tasks, u # t, run'[u] = "append"
        PROVE  Len(graph'[u].trace) > 0
    <3>1. graph'[u] = graph[u] /\ run[u] = "append"
      BY <1>0, <2>3 DEF Leave, TypeOK
    <3> QED
      BY <3>1 DEF TypeInv, CallbackHasStep
  <2> QED
    BY <2>2, <2>3 DEF CallbackHasStep
<1> QED
  BY <1>2, <1>3 DEF TypeInv

LEMMA NodeStepType ==
  ASSUME TypeInv, NEW t \in Tasks, RunNode(t)
  PROVE  TypeInv'
<1> DEFINE G == graph[t]
<1>0. TypeOK
  BY DEF TypeInv
<1>g. G \in States
  BY <1>0 DEF TypeOK
<1>p. /\ "completed" \in PhaseStatuses
      /\ "running" \in PhaseStatuses
      /\ "completed" \in StepStatuses
      /\ "blocked" \in StepStatuses
      /\ "failed" \in StepStatuses
  BY DEF PhaseStatuses, StepStatuses
<1>n. /\ Nodes \subseteq Nodes \cup {"END"}
      /\ "receive_idea" \in Nodes
      /\ "exchange_github_code" \in Nodes
      /\ "retrieve_context" \in Nodes
      /\ "scope_mvp" \in Nodes
      /\ "recommend_stack" \in Nodes
      /\ "plan_repo" \in Nodes
      /\ "create_repo" \in Nodes
      /\ "generate_files" \in Nodes
      /\ "validate_mvp" \in Nodes
      /\ "debug_generated_files" \in Nodes
      /\ "commit_progress" \in Nodes
      /\ "verify_build" \in Nodes
      /\ "handle_blocker" \in Nodes
      /\ "generate_final_package" \in Nodes
      /\ "remember_outcome" \in Nodes
      /\ "report_result" \in Nodes
      /\ "failed" \in Nodes
  BY DEF Nodes
<1> HIDE DEF G
<1>1. CASE ReceiveIdea(t)
  <2>1. Records(G, {"idea_intake"}, "completed") \in States
    BY <1>g, <1>p, RecordsType
  <2> QED
    BY <1>1, <1>n, <1>p, <2>1, NodeType DEF ReceiveIdea, G
<1>2. CASE ExchangeGithubCode(t)
  <2> DEFINE n == "exchange_github_code"
             g(ok) == IF ok THEN [G EXCEPT !.authorized = ~settings.mock]
                            ELSE Fails(G, n)
  <2>1. PICK ok \in BOOLEAN :
          /\ Leave(t, n, Outcome(ok), g(ok), RouteAfterGithubExchange(g(ok)))
          /\ UNCHANGED github
    BY <1>2 DEF ExchangeGithubCode, G
  <2>2. g(ok) \in States
    <3>1. settings.mock \in BOOLEAN
      BY <1>0, ConfigsAssumption DEF TypeOK
    <3>2. [G EXCEPT !.authorized = ~settings.mock] \in States
      BY <1>g, <3>1 DEF States
    <3>3. Fails(G, n) \in States
      BY <1>g, <1>n, FailsType
    <3> QED
      BY <3>2, <3>3
  <2> HIDE DEF n, g
  <2>3. n \in Nodes /\ Outcome(ok) \in StepStatuses
    BY <1>n, OutcomeType DEF n
  <2> QED
    BY <1>n, <2>1, <2>2, <2>3, NodeType, RouteType
<1>3. CASE RetrieveContext(t)
  <2>1. Records(G, {"domain_research", "reference_url_analysis"}, "completed") \in States
    BY <1>g, <1>p, RecordsType
  <2> QED
    BY <1>3, <1>n, <1>p, <2>1, NodeType DEF RetrieveContext, G
<1>4. CASE ScopeMvp(t)
  <2>1. Records(G, {"requirement_expansion", "user_goal_interpretation",
                    "feature_system_design"}, "completed") \in States
    BY <1>g, <1>p, RecordsType
  <2> QED
    BY <1>4, <1>n, <1>p, <2>1, NodeType DEF ScopeMvp, G
<1>5. CASE RecommendStack(t)
  <2>1. Records(G, {"tech_stack_recommendation"}, "completed") \in States
    BY <1>g, <1>p, RecordsType
  <2> QED
    BY <1>5, <1>n, <1>p, <2>1, NodeType DEF RecommendStack, G
<1>6. CASE PlanRepo(t)
  <2>1. Records(G, {"data_model_design", "api_design", "frontend_architecture",
                    "backend_architecture", "auth_authorization_design",
                    "database_schema_planning"}, "completed") \in States
    BY <1>g, <1>p, RecordsType
  <2> QED
    BY <1>6, <1>n, <1>p, <2>1, NodeType DEF PlanRepo, G
<1>7. CASE CreateRepo(t)
  <2> DEFINE n == "create_repo"
             g(ok, r) == IF ok
                         THEN [Records(G, {"github_repo_export"}, "completed")
                                 EXCEPT !.last = Success(n)]
                         ELSE [Fails(G, n) EXCEPT !.last = Failure(n, r)]
  <2>1. PICK outcome \in CreateOutcomes(t), r \in Recoverable(t) :
          /\ Leave(t, n, Outcome(outcome[1]), g(outcome[1], r),
                   RouteAfterCreateRepo(g(outcome[1], r)))
          /\ github' = [github EXCEPT ![t] = outcome[2]]
    BY <1>7 DEF CreateRepo, G
  <2>2. outcome[1] \in BOOLEAN /\ outcome[2] \in GitHubRepos
    BY <1>0, CreateOutcomesType
  <2>r. r \in BOOLEAN
    BY DEF Recoverable
  <2>3. ASSUME NEW ok \in BOOLEAN PROVE g(ok, r) \in States
    <3>1. Records(G, {"github_repo_export"}, "completed") \in States
      BY <1>g, <1>p, RecordsType
    <3>2. Fails(G, n) \in States
      BY <1>g, <1>n, FailsType
    <3>3. Success(n) \in ToolResults /\ Failure(n, r) \in ToolResults
      BY <1>n, <2>r, ResultType
    <3> QED
      BY <3>1, <3>2, <3>3 DEF States
  <2> HIDE DEF n, g
  <2>4. n \in Nodes /\ Outcome(outcome[1]) \in StepStatuses
    BY <1>n, <2>2, OutcomeType DEF n
  <2>5. g(outcome[1], r) \in States
    BY <2>2, <2>3
  <2>6. RouteAfterCreateRepo(g(outcome[1], r)) \in Nodes \cup {"END"}
    BY <2>5, RouteType
  <2> QED
    BY <2>1, <2>2, <2>4, <2>5, <2>6, NodeType
<1>8. CASE GenerateFiles(t)
  <2> DEFINE g(S, m) == [G EXCEPT
                           !.artifacts = Overlay(Written(S, "generated"), @),
                           !.mode = m,
                           !.timeline = GenerationTimeline(@)]
  <2>1. PICK S \in SUBSET GeneratedPaths, m \in GenerationModes :
          /\ Leave(t, "generate_files", "completed", g(S, m), "validate_mvp")
          /\ UNCHANGED github
    BY <1>8 DEF GenerateFiles, G
  <2>2. g(S, m) \in States
    <3>1. Overlay(Written(S, "generated"), G.artifacts) \in [Paths -> Versions]
      <4>1. S \in SUBSET Paths /\ "generated" \in Versions
        BY DEF GeneratedPaths, Versions
      <4>2. G.artifacts \in [Paths -> Versions]
        BY <1>g DEF States
      <4> QED
        BY <4>1, <4>2, WrittenType, OverlayType
    <3>2. GenerationTimeline(G.timeline) \in [Phases -> PhaseStatuses]
      <4>1. G.timeline \in [Phases -> PhaseStatuses]
        BY <1>g DEF States
      <4> QED
        BY <1>p, <4>1, RecordType DEF GenerationTimeline
    <3>3. m \in Modes
      BY DEF GenerationModes, Modes
    <3> QED
      BY <1>g, <3>1, <3>2, <3>3 DEF States
  <2> HIDE DEF g
  <2> QED
    BY <1>n, <1>p, <2>1, <2>2, NodeType
<1>9. CASE ValidateMvp(t)
  <2> DEFINE n == "validate_mvp"
             g(S, ok) == [Records(G, {"testing_strategy"}, Outcome(ok)) EXCEPT
                            !.artifacts = WithRepaired(S, @),
                            !.inspected = S,
                            !.validation = IF ok THEN "passed" ELSE "failed",
                            !.status = IF ok THEN @ ELSE "failed",
                            !.reason = IF ok THEN @ ELSE n]
  <2>1. PICK S \in Repaired(G.artifacts), ok \in BOOLEAN :
          /\ Leave(t, n, Outcome(ok), g(S, ok), RouteAfterValidateMvp(g(S, ok)))
          /\ UNCHANGED github
    BY <1>9 DEF ValidateMvp, G
  <2>2. g(S, ok) \in States
    <3>1. S \in SUBSET Paths
      BY DEF Repaired, GeneratedPaths
    <3>2. Records(G, {"testing_strategy"}, Outcome(ok)) \in States
      BY <1>g, OutcomeType, RecordsType
    <3>3. WithRepaired(S, Records(G, {"testing_strategy"}, Outcome(ok)).artifacts)
            \in [Paths -> Versions]
      <4>1. Written(S, "inspected") \in [Paths -> Versions]
        BY <3>1, WrittenType DEF Versions
      <4> QED
        BY <3>2, <4>1, OverlayType DEF WithRepaired, States
    <3> HIDE DEF n
    <3>4. n \in Nodes
      BY <1>n DEF n
    <3> QED
      BY <3>1, <3>2, <3>3, <3>4 DEF States, TaskStatuses
  <2> HIDE DEF n, g
  <2>3. n \in Nodes /\ Outcome(ok) \in StepStatuses
    BY <1>n, OutcomeType DEF n
  <2>4. RouteAfterValidateMvp(g(S, ok)) \in Nodes \cup {"END"}
    BY <2>2, RouteType
  <2> QED
    BY <2>1, <2>2, <2>3, <2>4, NodeType
<1>10. CASE DebugGeneratedFiles(t)
  <2> DEFINE g == [G EXCEPT !.artifacts =
                              Overlay(Written({ReportPath}, "report"), @)]
  <2>1. g \in States
    <3>1. Written({ReportPath}, "report") \in [Paths -> Versions]
      BY PathsAssumption, WrittenType DEF Versions
    <3>2. Overlay(Written({ReportPath}, "report"), G.artifacts) \in [Paths -> Versions]
      BY <1>g, <3>1, OverlayType DEF States
    <3> QED
      BY <1>g, <3>2 DEF States
  <2>2. /\ Leave(t, "debug_generated_files", "completed", g, "commit_progress")
        /\ UNCHANGED github
    BY <1>10 DEF DebugGeneratedFiles, G
  <2> HIDE DEF g
  <2> QED
    BY <1>n, <1>p, <2>1, <2>2, NodeType
<1>11. CASE CommitProgress(t)
  <2> DEFINE n == "commit_progress"
             g(ok, r) == IF ok
                         THEN [Records(G, {"github_repo_export"}, "running")
                                 EXCEPT !.last = Success(n)]
                         ELSE [Fails(G, n) EXCEPT !.last = Failure(n, r)]
  <2>1. PICK outcome \in CommitOutcomes(t), r \in Recoverable(t) :
          /\ Leave(t, n, "completed", g(outcome[1], r),
                   RouteAfterCommitProgress(g(outcome[1], r)))
          /\ github' = [github EXCEPT ![t] = outcome[2]]
    BY <1>11 DEF CommitProgress, G
  <2>2. outcome[1] \in BOOLEAN /\ outcome[2] \in GitHubRepos
    BY <1>0, CommitOutcomesType
  <2>r. r \in BOOLEAN
    BY DEF Recoverable
  <2>3. ASSUME NEW ok \in BOOLEAN PROVE g(ok, r) \in States
    <3>1. Records(G, {"github_repo_export"}, "running") \in States
      BY <1>g, <1>p, RecordsType
    <3>2. Fails(G, n) \in States
      BY <1>g, <1>n, FailsType
    <3>3. Success(n) \in ToolResults /\ Failure(n, r) \in ToolResults
      BY <1>n, <2>r, ResultType
    <3> QED
      BY <3>1, <3>2, <3>3 DEF States
  <2> HIDE DEF n, g
  <2>4. n \in Nodes
    BY <1>n DEF n
  <2>5. g(outcome[1], r) \in States
    BY <2>2, <2>3
  <2>6. RouteAfterCommitProgress(g(outcome[1], r)) \in Nodes \cup {"END"}
    BY <2>5, RouteType
  <2> QED
    BY <1>p, <2>1, <2>2, <2>4, <2>5, <2>6, NodeType
<1>12. CASE VerifyBuild(t)
  <2> DEFINE n == "verify_build"
             ok(r) == r.status = "success"
             g(r) == [Records(G, {"build_test_validation"}, Outcome(ok(r)))
                        EXCEPT !.last = r,
                               !.reason = IF ok(r) THEN @ ELSE n]
  <2>1. PICK result \in VerifyResults(t) :
          /\ Leave(t, n, IF ok(result) THEN "completed" ELSE "blocked",
                   g(result), RouteAfterToolResult(g(result)))
          /\ UNCHANGED github
    BY <1>12 DEF VerifyBuild, G
  <2>2. result \in ToolResults
    BY <1>n, ResultType DEF VerifyResults
  <2>3. g(result) \in States
    <3>1. ok(result) \in BOOLEAN
      OBVIOUS
    <3>2. Records(G, {"build_test_validation"}, Outcome(ok(result))) \in States
      BY <1>g, <3>1, OutcomeType, RecordsType
    <3> HIDE DEF ok, n
    <3>3. n \in Nodes
      BY <1>n DEF n
    <3> QED
      BY <2>2, <3>2, <3>3 DEF States
  <2>4. (IF ok(result) THEN "completed" ELSE "blocked") \in StepStatuses
    BY <1>p
  <2> HIDE DEF n, g, ok
  <2>5. n \in Nodes
    BY <1>n DEF n
  <2>6. RouteAfterToolResult(g(result)) \in Nodes \cup {"END"}
    BY <2>3, RouteType
  <2> QED
    BY <2>1, <2>3, <2>4, <2>5, <2>6, NodeType
<1>13. CASE HandleBlocker(t)
  <2>1. ApplyRecovery(G) \in States
    BY <1>g, <1>n, ResultType DEF ApplyRecovery, States
  <2> QED
    BY <1>13, <1>n, <1>p, <2>1, NodeType DEF HandleBlocker, G
<1>14. CASE GenerateFinalPackage(t)
  <2> DEFINE g == [G EXCEPT
                     !.report = [status |-> "completed", blame |-> None],
                     !.timeline = PackageTimeline(@)]
  <2>1. g \in States
    <3>1. [status |-> "completed", blame |-> None] \in Reports
      BY DEF Reports
    <3>2. PackageTimeline(G.timeline) \in [Phases -> PhaseStatuses]
      <4>1. G.timeline \in [Phases -> PhaseStatuses]
        BY <1>g DEF States
      <4> QED
        BY <1>p, <4>1, RecordType DEF PackageTimeline
    <3> QED
      BY <1>g, <3>1, <3>2 DEF States
  <2>2. /\ Leave(t, "generate_final_package", "completed", g, "remember_outcome")
        /\ UNCHANGED github
    BY <1>14 DEF GenerateFinalPackage, G
  <2> HIDE DEF g
  <2> QED
    BY <1>n, <1>p, <2>1, <2>2, NodeType
<1>15. CASE RememberOutcome(t)
  BY <1>15, <1>g, <1>n, <1>p, NodeType DEF RememberOutcome, G
<1>16. CASE ReportResult(t)
  <2>1. [G EXCEPT !.status = "completed"] \in States
    BY <1>g DEF States, TaskStatuses
  <2> QED
    BY <1>16, <1>n, <1>p, <2>1, NodeType DEF ReportResult, G
<1>17. CASE Failed(t)
  <2> DEFINE why  == FailureReason(G)
             done == [G EXCEPT !.status = "failed",
                               !.report = [status |-> "failed", blame |-> why]]
  <2>1. done \in States
    <3>1. why \in Nodes \cup {"unknown"}
      BY <1>g DEF FailureReason, States, ToolResults
    <3>2. [status |-> "failed", blame |-> why] \in Reports
      BY <3>1 DEF Reports
    <3> QED
      BY <1>g, <3>2 DEF States, TaskStatuses
  <2>2. /\ Leave(t, "failed", "failed", done, "END")
        /\ UNCHANGED github
    BY <1>17 DEF Failed, G
  <2> HIDE DEF done
  <2> QED
    BY <1>n, <1>p, <2>1, <2>2, NodeType
<1> QED
  BY <1>1, <1>2, <1>3, <1>4, <1>5, <1>6, <1>7, <1>8, <1>9, <1>10, <1>11, <1>12,
     <1>13, <1>14, <1>15, <1>16, <1>17 DEF RunNode

-----------------------------------------------------------------------------
(* Type correctness *)

LEMMA InitType == Init => TypeInv
<1> SUFFICES ASSUME Init PROVE TypeInv
  OBVIOUS
<1>1. NoTask \in Details
  <2>1. [p \in Phases |-> "pending"] \in [Phases -> PhaseStatuses]
    BY DEF PhaseStatuses
  <2>2. NoReport \in Reports
    BY DEF NoReport, Reports
  <2>3. <<>> \in Seq(Steps)
    OBVIOUS
  <2> QED
    BY <2>1, <2>2, <2>3 DEF NoTask, Details
<1>2. NoClient \in Clients
  BY DEF NoClient, Clients
<1>3. TypeOK
  BY <1>1, <1>2, InitialStateType, RepositoryType DEF Init, TypeOK, RunPhases
<1> QED
  BY <1>3 DEF Init, TypeInv, CallbackHasStep

(* The steps of the job outside the nodes, and those of the browser. *)
LEMMA ServiceStepType ==
  ASSUME TypeInv, NEW t \in Tasks,
         \/ Submit(t) \/ RunTaskWorkflow(t) \/ AppendAgentSteps(t)
         \/ SnapshotTask(t) \/ Raise(t) \/ SnapshotFailure(t) \/ PollTask(t)
  PROVE  TypeOK'
<1>0. TypeOK
  BY DEF TypeInv
<1>1. CASE Submit(t)
  <2>a. [store[t] EXCEPT !.status = "started"] \in Details
    BY <1>0 DEF TypeOK, Details, TaskStatuses
  <2>1. store' \in [Tasks -> Details]
    BY <1>0, <1>1, <2>a DEF Submit, TypeOK
  <2>b. /\ [submit |-> "sent", polling |-> TRUE, seen |-> None,
            notice |-> "building"] \in Clients
        /\ [submit |-> "error", polling |-> FALSE, seen |-> None,
            notice |-> "unreachable"] \in Clients
    BY DEF Clients
  <2>2. client' \in [Tasks -> Clients]
    BY <1>0, <1>1, <2>b DEF Submit, TypeOK
  <2>3. run' \in [Tasks -> RunPhases]
    BY <1>0, <1>1 DEF Submit, TypeOK, RunPhases
  <2> QED
    BY <1>0, <1>1, <2>1, <2>2, <2>3 DEF Submit, TypeOK
<1>2. CASE RunTaskWorkflow(t)
  BY <1>0, <1>2, InitialStateType DEF RunTaskWorkflow, TypeOK, RunPhases
<1>3. CASE AppendAgentSteps(t)
  <2>1. /\ graph[t].trace \in Seq(Steps)
        /\ Len(graph[t].trace) > 0
    BY <1>0, <1>3 DEF AppendAgentSteps, TypeOK, States, TypeInv, CallbackHasStep
  <2> DEFINE last == graph[t].trace[Len(graph[t].trace)]
  <2>2. last \in Steps
    BY <2>1
  <2>3. store[t] \in Details
    BY <1>0 DEF TypeOK
  <2> HIDE DEF last
  <2>4. Append(store[t].steps, last) \in Seq(Steps)
    BY <2>2, <2>3 DEF Details
  <2>5. [store[t] EXCEPT !.steps = Append(@, last)] \in Details
    BY <2>3, <2>4 DEF Details
  <2>6. store' = [store EXCEPT ![t] = [store[t] EXCEPT !.steps = Append(@, last)]]
    BY <1>0, <1>3 DEF AppendAgentSteps, TypeOK, last
  <2>7. store' \in [Tasks -> Details]
    BY <1>0, <2>5, <2>6 DEF TypeOK
  <2> QED
    BY <1>0, <1>3, <2>7 DEF AppendAgentSteps, TypeOK, RunPhases
<1>4. CASE SnapshotTask(t)
  <2>1. Detail(store[t], graph[t]) \in Details
    BY <1>0 DEF TypeOK, States, Detail, Details
  <2>2. store' \in [Tasks -> Details]
    BY <1>0, <1>4, <2>1 DEF SnapshotTask, TypeOK
  <2> QED
    BY <1>0, <1>4, <2>2 DEF SnapshotTask, TypeOK, RunPhases
<1>5. CASE Raise(t)
  <2>1. store[t].steps \in Seq(Steps)
    BY <1>0 DEF TypeOK, Details
  <2> QED
    BY <1>0, <1>5, <2>1 DEF Raise, TypeOK, RunPhases
<1>6. CASE SnapshotFailure(t)
  <2>1. Step("failed", "failed") \in Steps
    BY DEF Step, Steps, Nodes, StepStatuses
  <2>2. Append(held[t], Step("failed", "failed")) \in Seq(Steps)
    BY <1>0, <2>1 DEF TypeOK
  <2>3. [status |-> "failed", blame |-> "exception"] \in Reports
    BY DEF Reports
  <2>4. UnexpectedFailure(store[t], held[t]) \in Details
    BY <1>0, <2>2, <2>3 DEF UnexpectedFailure, TypeOK, Details, TaskStatuses
  <2>5. store' \in [Tasks -> Details]
    BY <1>0, <1>6, <2>4 DEF SnapshotFailure, TypeOK
  <2> QED
    BY <1>0, <1>6, <2>5 DEF SnapshotFailure, TypeOK, RunPhases
<1>7. CASE PollTask(t)
  <2>1. store[t] \in Details /\ client[t] \in Clients
    BY <1>0 DEF TypeOK
  <2>2. Notice(store[t], client[t].notice)
          \in {None, "building", "landed", "step", "summary", "generic",
               "unreachable"}
    BY <2>1 DEF Notice, FailureNotice, Details, Clients
  <2>3. KeepsPolling(client[t], store[t].status) \in BOOLEAN
    BY DEF KeepsPolling
  <2> DEFINE c == [submit  |-> IF store[t].status = "failed" THEN "error"
                               ELSE client[t].submit,
                   polling |-> KeepsPolling(client[t], store[t].status),
                   seen    |-> store[t].status,
                   notice  |-> Notice(store[t], client[t].notice)]
  <2>4. c \in Clients
    BY <2>1, <2>2, <2>3 DEF Clients, Details
  <2>5. client' = [client EXCEPT ![t] = c]
    BY <1>7 DEF PollTask
  <2> HIDE DEF c
  <2>6. client' \in [Tasks -> Clients]
    BY <1>0, <2>4, <2>5 DEF TypeOK
  <2> QED
    BY <1>0, <1>7, <2>6 DEF PollTask, TypeOK
<1> QED
  BY <1>1, <1>2, <1>3, <1>4, <1>5, <1>6, <1>7

LEMMA ServiceStepCallback ==
  ASSUME TypeInv, NEW t \in Tasks,
         \/ Submit(t) \/ RunTaskWorkflow(t) \/ AppendAgentSteps(t)
         \/ SnapshotTask(t) \/ Raise(t) \/ SnapshotFailure(t) \/ PollTask(t)
  PROVE  CallbackHasStep'
<1> SUFFICES ASSUME NEW u \in Tasks, run'[u] = "append"
             PROVE  Len(graph'[u].trace) > 0
  BY DEF CallbackHasStep
<1>1. run[u] = "append" /\ graph'[u] = graph[u]
  BY DEF TypeInv, TypeOK, Submit, RunTaskWorkflow, AppendAgentSteps,
         SnapshotTask, Raise, SnapshotFailure, PollTask
<1> QED
  BY <1>1 DEF TypeInv, CallbackHasStep

(* What the other theorems start from: besides the types, the live progress*)
(* callback always finds a step to show.                                   *)
THEOREM TypeInvariant == Spec => []TypeInv
<1>1. Init => TypeInv
  BY InitType
<1>2. TypeInv /\ [Next]_vars => TypeInv'
  <2> SUFFICES ASSUME TypeInv, [Next]_vars PROVE TypeInv'
    OBVIOUS
  <2>1. CASE UNCHANGED vars
    BY <2>1 DEF vars, TypeInv, TypeOK, CallbackHasStep
  <2>2. ASSUME NEW t \in Tasks, RunNode(t) PROVE TypeInv'
    BY <2>2, NodeStepType
  <2>3. ASSUME NEW t \in Tasks,
               \/ Submit(t) \/ RunTaskWorkflow(t) \/ AppendAgentSteps(t)
               \/ SnapshotTask(t) \/ Raise(t) \/ SnapshotFailure(t)
               \/ PollTask(t)
        PROVE  TypeInv'
    BY <2>3, ServiceStepType, ServiceStepCallback DEF TypeInv
  <2> QED
    BY <2>1, <2>2, <2>3 DEF Next, Job
<1> QED
  BY <1>1, <1>2, PTL DEF Spec

(* Every variable keeps its type, whatever the nodes, the tools, the model *)
(* and the browser do: no status reaches the store or the timeline that the*)
(* schemas of the API do not know.                                         *)
THEOREM TypeCorrect == Spec => []TypeOK
<1>1. TypeInv => TypeOK
  BY DEF TypeInv
<1> QED
  BY <1>1, TypeInvariant, PTL

-----------------------------------------------------------------------------
(* Why a completed task is a delivered one, and why a failed one is left   *)
(* alone: the inductive invariant behind CompletedMeansDelivered,          *)
(* InspectedVersionWins and FailedTaskLeavesGitHubAlone.                   *)

(* The invariant *)

BeforeValidation == {"receive_idea", "exchange_github_code",
                     "retrieve_context", "scope_mvp", "recommend_stack",
                     "plan_repo", "create_repo", "generate_files",
                     "validate_mvp"}
BeforeCommit == BeforeValidation \cup {"debug_generated_files",
                                       "commit_progress"}
AfterVerification == {"generate_final_package", "remember_outcome",
                      "report_result"}
AfterCommit == {"verify_build", "handle_blocker"} \cup AfterVerification

Healthy(r) == HealthPaths \subseteq DomainOf(r.tree)

(* The inspected list is in the repository, after it passed validation. *)
Shipped(g, r) == /\ g.validation = "passed"
                 /\ \A p \in g.inspected : r.tree[p] = "inspected"

(* Nothing is written to GitHub before the commit; up to there the artifact*)
(* list keeps every inspected file as it was inspected.                    *)
UpToCommit(g, r) ==
  /\ g.inspected \subseteq GeneratedPaths
  /\ g.pc \in BeforeCommit => \A p \in Paths : r.tree[p] \in {None, "prior"}
  /\ g.pc \in BeforeValidation => g.inspected = {}
  /\ g.pc \in {"debug_generated_files", "commit_progress"} =>
       /\ g.validation = "passed"
       /\ \A p \in g.inspected : g.artifacts[p] = "inspected"

(* From there on what was inspected is shipped, and later verified. *)
FromCommit(g, r) ==
  /\ ~settings.mock /\ g.pc \in AfterCommit => Shipped(g, r)
  /\ ~settings.mock /\ g.pc \in AfterVerification => Healthy(r)
  /\ \A p \in g.inspected : r.tree[p] \in {None, "prior", "inspected"}

(* The status is decided on the way to the end, and nowhere else. *)
Decided(g, r) ==
  /\ g.status = "completed" =>
       /\ g.pc = "END"
       /\ ~settings.mock => Shipped(g, r) /\ Healthy(r)
  /\ g.status = "failed" => g.pc \in {"failed", "END"}

StateInv(g, r) == UpToCommit(g, r) /\ FromCommit(g, r) /\ Decided(g, r)

(* The store repeats the status of the state, or an unexpected failure. *)
StoreInv(phase, g, d) ==
  /\ phase \in {"idle", "queued"} =>
       g = InitialState /\ d.status \in {"absent", "started"}
  /\ d.status = "completed" => g.status = "completed"
  /\ d.status = "failed" => g.status = "failed" \/ phase = "done"

DeliveryInv ==
  \A t \in Tasks : /\ StateInv(graph[t], github[t])
                   /\ StoreInv(run[t], graph[t], store[t])

-----------------------------------------------------------------------------
(* The nodes *)

(* A node moves its own state, and at most its own repository. *)
LEMMA NodeFrame ==
  ASSUME TypeOK, NEW t \in Tasks, RunNode(t)
  PROVE  /\ run[t] = "node"
         /\ graph[t].pc \in Nodes
         /\ run'[t] \in {"append", "snapshot"}
         /\ UNCHANGED <<settings, store, held, client>>
         /\ \A u \in Tasks \ {t} : /\ graph'[u] = graph[u]
                                   /\ run'[u] = run[u]
                                   /\ github'[u] = github[u]
<1>1. ASSUME NEW n, NEW s, NEW g, NEW next, Leave(t, n, s, g, next)
      PROVE  /\ run'[t] \in {"append", "snapshot"}
             /\ UNCHANGED <<settings, store, held, client>>
             /\ \A u \in Tasks \ {t} : /\ graph'[u] = graph[u]
                                       /\ run'[u] = run[u]
  BY <1>1 DEF Leave, AfterNode, TypeOK
<1>2. \E n, s, g, next : Leave(t, n, s, g, next)
  BY DEF RunNode, ReceiveIdea, ExchangeGithubCode, RetrieveContext, ScopeMvp,
         RecommendStack, PlanRepo, CreateRepo, GenerateFiles, ValidateMvp,
         DebugGeneratedFiles, CommitProgress, VerifyBuild, HandleBlocker,
         GenerateFinalPackage, RememberOutcome, ReportResult, Failed
<1>3. run[t] = "node" /\ graph[t].pc \in Nodes
  BY DEF RunNode, ReceiveIdea, ExchangeGithubCode, RetrieveContext, ScopeMvp,
         RecommendStack, PlanRepo, CreateRepo, GenerateFiles, ValidateMvp,
         DebugGeneratedFiles, CommitProgress, VerifyBuild, HandleBlocker,
         GenerateFinalPackage, RememberOutcome, ReportResult, Failed, Enter,
         Nodes
<1>4. \A u \in Tasks \ {t} : github'[u] = github[u]
  BY DEF RunNode, ReceiveIdea, ExchangeGithubCode, RetrieveContext, ScopeMvp,
         RecommendStack, PlanRepo, CreateRepo, GenerateFiles, ValidateMvp,
         DebugGeneratedFiles, CommitProgress, VerifyBuild, HandleBlocker,
         GenerateFinalPackage, RememberOutcome, ReportResult, Failed, TypeOK
<1> QED
  BY <1>1, <1>2, <1>3, <1>4

(* Most nodes decide nothing, or fail, and stay on their side of the       *)
(* validation, of the commit and of the verification.                      *)
LEMMA QuietNode ==
  ASSUME NEW g, NEW r, NEW h, NEW q,
         StateInv(g, r), g.pc \in Nodes, h.pc \in Nodes,
         h.inspected = g.inspected,
         h.validation = g.validation,
         \A p \in g.inspected : h.artifacts[p] = g.artifacts[p],
         \/ h.status = g.status
         \/ h.status = "failed" /\ h.pc = "failed",
         \/ q = r
         \/ /\ g.pc \in BeforeValidation
            /\ \A p \in Paths : q.tree[p] \in {None, "prior"},
         h.pc \in BeforeValidation => g.pc \in BeforeValidation,
         h.pc \in BeforeCommit => g.pc \in BeforeCommit,
         h.pc \in BeforeCommit \ BeforeValidation =>
           g.pc \in BeforeCommit \ BeforeValidation,
         h.pc \in AfterCommit => g.pc \in AfterCommit,
         h.pc \in AfterVerification => g.pc \in AfterVerification,
         g.pc = "failed" => h.pc = "failed"
  PROVE  StateInv(h, q)
<1>1. g.status # "completed"
  BY DEF StateInv, Decided, Nodes
<1>2. UpToCommit(h, q)
  BY DEF StateInv, UpToCommit, BeforeCommit, BeforeValidation
<1>3. FromCommit(h, q)
  BY DEF StateInv, UpToCommit, FromCommit, Shipped, Healthy, BeforeValidation,
         AfterCommit, AfterVerification
<1>4. Decided(h, q)
  BY <1>1 DEF StateInv, Decided, Nodes
<1> QED
  BY <1>2, <1>3, <1>4 DEF StateInv

LEMMA NodeStateInv ==
  ASSUME TypeOK, NEW t \in Tasks, StateInv(graph[t], github[t]), RunNode(t)
  PROVE  StateInv(graph'[t], github'[t])
<1> DEFINE g == graph[t]
           h == graph'[t]
           r == github[t]
           q == github'[t]
<1>g. g \in States /\ r \in GitHubRepos
  BY DEF TypeOK
<1>1. CASE \/ ReceiveIdea(t) \/ RetrieveContext(t) \/ ScopeMvp(t)
           \/ RecommendStack(t) \/ PlanRepo(t)
  <2>1. \E n, S, next :
          /\ Leave(t, n, "completed", Records(g, S, "completed"), next)
          /\ \/ n = "receive_idea" /\ next = "exchange_github_code"
             \/ n = "retrieve_context" /\ next = "scope_mvp"
             \/ n = "scope_mvp" /\ next = "recommend_stack"
             \/ n = "recommend_stack" /\ next = "plan_repo"
             \/ n = "plan_repo" /\ next = "create_repo"
          /\ g.pc = n
    BY <1>1 DEF ReceiveIdea, RetrieveContext, ScopeMvp, RecommendStack,
         PlanRepo, Enter
  <2>2. q = r
    BY <1>1 DEF ReceiveIdea, RetrieveContext, ScopeMvp, RecommendStack,
         PlanRepo
  <2>3. /\ h.inspected = g.inspected
        /\ h.validation = g.validation
        /\ h.artifacts = g.artifacts
        /\ h.status = g.status
        /\ g.pc \in BeforeValidation \ {"validate_mvp"}
        /\ h.pc \in BeforeValidation \ {"validate_mvp"}
    <3>1. ASSUME NEW n, NEW S, NEW next,
                 Leave(t, n, "completed", Records(g, S, "completed"), next)
          PROVE  /\ h.inspected = g.inspected
                 /\ h.validation = g.validation
                 /\ h.artifacts = g.artifacts
                 /\ h.status = g.status
                 /\ h.pc = next
      BY <3>1, <1>g DEF Leave, Records, TypeOK, States
    <3> HIDE DEF g, h
    <3> QED
      BY <2>1, <3>1 DEF BeforeValidation
  <2> HIDE DEF g, h, r, q
  <2>4. StateInv(h, q)
    BY <2>2, <2>3, QuietNode DEF g, r, Nodes, BeforeValidation,
       BeforeCommit, AfterCommit, AfterVerification
  <2> QED
    BY <2>4 DEF h, q
<1>2. CASE ExchangeGithubCode(t)
  <2>1. /\ h.inspected = g.inspected
        /\ h.validation = g.validation
        /\ h.artifacts = g.artifacts
        /\ q = r
        /\ g.pc = "exchange_github_code"
        /\ \/ h.status = g.status /\ h.pc \in {"retrieve_context", "failed"}
           \/ h.status = "failed" /\ h.pc = "failed"
    BY <1>2, <1>g DEF ExchangeGithubCode, RouteAfterGithubExchange, Leave,
         Enter, Fails, TypeOK, States
  <2> HIDE DEF g, h, r, q
  <2>2. StateInv(h, q)
    BY <2>1, QuietNode DEF g, r, Nodes, BeforeValidation,
       BeforeCommit, AfterCommit, AfterVerification
  <2> QED
    BY <2>2 DEF h, q
<1>3. CASE CreateRepo(t)
  <2>1. PICK outcome \in CreateOutcomes(t), rec \in Recoverable(t) :
          /\ Leave(t, "create_repo", Outcome(outcome[1]),
                IF outcome[1]
                THEN [Records(g, {"github_repo_export"}, "completed")
                        EXCEPT !.last = Success("create_repo")]
                ELSE [Fails(g, "create_repo")
                        EXCEPT !.last = Failure("create_repo", rec)],
                RouteAfterCreateRepo(
                  IF outcome[1]
                  THEN [Records(g, {"github_repo_export"}, "completed")
                          EXCEPT !.last = Success("create_repo")]
                  ELSE [Fails(g, "create_repo")
                          EXCEPT !.last = Failure("create_repo", rec)]))
          /\ github' = [github EXCEPT ![t] = outcome[2]]
    BY <1>3 DEF CreateRepo
  <2>2. /\ h.inspected = g.inspected
        /\ h.validation = g.validation
        /\ h.artifacts = g.artifacts
        /\ g.pc = "create_repo"
        /\ \/ h.status = g.status /\ h.pc \in {"generate_files", "failed"}
           \/ h.status = "failed" /\ h.pc = "failed"
    BY <1>3, <2>1, <1>g DEF CreateRepo, RouteAfterCreateRepo, Leave, Enter,
       Fails, Records, TypeOK, States
  <2>3. q = outcome[2] /\ outcome[2] \in {r, NewRepository}
    BY <2>1 DEF CreateOutcomes, TypeOK
  <2>4. \A p \in Paths : NewRepository.tree[p] \in {None, "prior"}
    BY DEF NewRepository, Written
  <2> HIDE DEF g, h, r, q
  <2>5. StateInv(h, q)
    BY <2>2, <2>3, <2>4, QuietNode DEF g, r, Nodes, BeforeValidation,
       BeforeCommit, AfterCommit, AfterVerification
  <2> QED
    BY <2>5 DEF h, q
<1>4. CASE GenerateFiles(t)
  <2>1. /\ h.inspected = g.inspected
        /\ h.validation = g.validation
        /\ h.status = g.status
        /\ q = r
        /\ g.pc = "generate_files"
        /\ h.pc = "validate_mvp"
    BY <1>4, <1>g DEF GenerateFiles, Leave, Enter, TypeOK, States
  <2>2. g.inspected = {}
    BY <2>1 DEF StateInv, UpToCommit, BeforeValidation
  <2> HIDE DEF g, h, r, q
  <2>3. StateInv(h, q)
    BY <2>1, <2>2, QuietNode DEF g, r, Nodes, BeforeValidation,
       BeforeCommit, AfterCommit, AfterVerification
  <2> QED
    BY <2>3 DEF h, q
<1>5. CASE ValidateMvp(t)
  <2>1. PICK S \in Repaired(g.artifacts), ok \in BOOLEAN :
          /\ h.inspected = S
          /\ h.artifacts = WithRepaired(S, g.artifacts)
          /\ h.validation = IF ok THEN "passed" ELSE "failed"
          /\ h.status = IF ok THEN g.status ELSE "failed"
          /\ h.pc = IF ok /\ g.status # "failed" THEN "debug_generated_files"
                                                 ELSE "failed"
          /\ q = r
          /\ g.pc = "validate_mvp"
    BY <1>5, <1>g DEF ValidateMvp, RouteAfterValidateMvp, Leave, Enter,
       Records, TypeOK, States
  <2>2. S \subseteq GeneratedPaths /\ S \subseteq Paths
    BY DEF Repaired, GeneratedPaths
  <2>3. \A p \in S : h.artifacts[p] = "inspected"
    BY <2>1, <2>2 DEF WithRepaired, Overlay, Written, None
  <2>4. \A p \in Paths : r.tree[p] \in {None, "prior"}
    BY <2>1 DEF StateInv, UpToCommit, BeforeCommit, BeforeValidation
  <2>5. g.status # "completed"
    BY <2>1 DEF StateInv, Decided
  <2> HIDE DEF g, h, r, q
  <2>6. UpToCommit(h, q)
    BY <2>1, <2>2, <2>3, <2>4 DEF UpToCommit, BeforeValidation
  <2>7. FromCommit(h, q)
    BY <2>1, <2>2, <2>4 DEF FromCommit, AfterCommit, AfterVerification
  <2>8. Decided(h, q)
    BY <2>1, <2>5 DEF Decided
  <2> QED
    BY <2>6, <2>7, <2>8 DEF StateInv, h, q
<1>6. CASE DebugGeneratedFiles(t)
  <2>1. /\ h.inspected = g.inspected
        /\ h.validation = g.validation
        /\ h.artifacts = Overlay(Written({ReportPath}, "report"), g.artifacts)
        /\ h.status = g.status
        /\ q = r
        /\ g.pc = "debug_generated_files"
        /\ h.pc = "commit_progress"
    BY <1>6, <1>g DEF DebugGeneratedFiles, Leave, Enter, TypeOK, States
  <2>2. g.inspected \subseteq Paths \ {ReportPath}
    BY DEF StateInv, UpToCommit, GeneratedPaths
  <2>3. \A p \in g.inspected : h.artifacts[p] = g.artifacts[p]
    BY <2>1, <2>2 DEF Overlay, Written
  <2> HIDE DEF g, h, r, q
  <2>4. StateInv(h, q)
    BY <2>1, <2>3, QuietNode DEF g, r, Nodes, BeforeValidation,
       BeforeCommit, AfterCommit, AfterVerification
  <2> QED
    BY <2>4 DEF h, q
<1>7. CASE CommitProgress(t)
  <2>1. PICK outcome \in CommitOutcomes(t) :
          /\ h.inspected = g.inspected
          /\ h.validation = g.validation
          /\ h.artifacts = g.artifacts
          /\ h.status = IF outcome[1] THEN g.status ELSE "failed"
          /\ h.pc = IF outcome[1] /\ g.status # "failed" THEN "verify_build"
                                                         ELSE "failed"
          /\ q = outcome[2]
          /\ g.pc = "commit_progress"
    BY <1>7, <1>g DEF CommitProgress, RouteAfterCommitProgress, Leave, Enter,
       Records, Fails, TypeOK, States
  <2>2. /\ g.validation = "passed"
        /\ g.inspected \subseteq Paths
        /\ \A p \in g.inspected : g.artifacts[p] = "inspected"
        /\ \A p \in Paths : r.tree[p] \in {None, "prior"}
        /\ g.status # "completed"
    BY <2>1 DEF StateInv, UpToCommit, Decided, BeforeCommit, GeneratedPaths
  <2> DEFINE files == CommittedFiles(g.artifacts)
             after == [repo |-> "populated", tree |-> Overlay(files, r.tree)]
  <2>3. \A p \in g.inspected : files[p] = "inspected"
    BY <2>2 DEF CommittedFiles, Overlay, None
  <2> HIDE DEF files
  <2>4. \A p \in g.inspected : after.tree[p] = "inspected"
    BY <2>2, <2>3 DEF Overlay, None
  <2>5. ASSUME NEW f \in DomainOf(files), NEW p \in g.inspected
        PROVE  Written({f}, files[f])[p] \in {None, "inspected"}
    BY <2>2, <2>3 DEF Written
  <2> DEFINE seeded == {[repo |-> "populated",
                         tree |-> Written({f}, files[f])] : f \in DomainOf(files)}
  <2>6. \/ settings.mock /\ outcome \in {TRUE} \X {r}
        \/ outcome \in {FALSE} \X {r}
        \/ outcome \in {<<TRUE, after>>, <<FALSE, after>>, <<FALSE, r>>}
        \/ outcome \in {FALSE} \X seeded
    BY DEF CommitOutcomes, files
  <2> HIDE DEF after, seeded
  <2>7. \/ settings.mock /\ outcome[2] = r
        \/ outcome[1] = FALSE /\ outcome[2] \in {r, after} \cup seeded
        \/ outcome[2] = after
    <3>1. CASE outcome \in {<<TRUE, after>>, <<FALSE, after>>, <<FALSE, r>>}
      <4>1. ASSUME outcome = <<TRUE, after>> PROVE outcome[2] = after
        BY <4>1
      <4>2. ASSUME outcome = <<FALSE, after>> PROVE outcome[2] = after
        BY <4>2
      <4>3. ASSUME outcome = <<FALSE, r>>
            PROVE  outcome[1] = FALSE /\ outcome[2] = r
        BY <4>3
      <4> HIDE DEF r
      <4> QED
        BY <3>1, <4>1, <4>2, <4>3
    <3>2. CASE \/ settings.mock /\ outcome \in {TRUE} \X {r}
               \/ outcome \in {FALSE} \X {r}
               \/ outcome \in {FALSE} \X seeded
      BY <3>2
    <3> QED
      BY <2>6, <3>1, <3>2
  <2>8. \A p \in g.inspected : q.tree[p] \in {None, "prior", "inspected"}
    <3>1. CASE q = r
      BY <2>2, <3>1
    <3>2. CASE q = after
      BY <2>4, <3>2
    <3>3. CASE q \in seeded
      <4>1. PICK f \in DomainOf(files) :
              q = [repo |-> "populated", tree |-> Written({f}, files[f])]
        BY <3>3 DEF seeded
      <4>2. q.tree = Written({f}, files[f])
        BY <4>1
      <4> HIDE DEF q, g
      <4> QED
        BY <2>5, <4>2
    <3> HIDE DEF q, g, r
    <3> QED
      BY <2>1, <2>7, <3>1, <3>2, <3>3
  <2> HIDE DEF g, h, r, q
  <2>9. UpToCommit(h, q)
    <3>1. h.inspected \subseteq GeneratedPaths
      BY <2>1 DEF StateInv, UpToCommit, g, r
    <3> QED
      BY <2>1, <3>1 DEF UpToCommit, BeforeCommit, BeforeValidation
  <2>10. FromCommit(h, q)
    BY <2>1, <2>2, <2>4, <2>7, <2>8
    DEF FromCommit, Shipped, AfterCommit, AfterVerification
  <2>11. Decided(h, q)
    BY <2>1, <2>2 DEF Decided
  <2> QED
    BY <2>9, <2>10, <2>11 DEF StateInv, h, q
<1>8. CASE VerifyBuild(t)
  <2>1. PICK result \in VerifyResults(t) :
          /\ h.inspected = g.inspected
          /\ h.validation = g.validation
          /\ h.artifacts = g.artifacts
          /\ h.status = g.status
          /\ h.pc = IF result.status = "success" THEN "generate_final_package"
                    ELSE IF result.recoverable THEN "handle_blocker"
                    ELSE "failed"
          /\ q = r
          /\ g.pc = "verify_build"
    BY <1>8, <1>g DEF VerifyBuild, RouteAfterToolResult, Leave, Enter,
       Records, TypeOK, States
  <2>2. ~settings.mock /\ result.status = "success" => Healthy(r)
    BY DEF VerifyResults, Failure, Healthy
  <2>3. /\ g.status \notin {"completed", "failed"}
        /\ ~settings.mock => Shipped(g, r)
        /\ g.inspected \subseteq GeneratedPaths
        /\ \A p \in g.inspected : r.tree[p] \in {None, "prior", "inspected"}
    BY <2>1 DEF StateInv, UpToCommit, FromCommit, Decided, AfterCommit
  <2> HIDE DEF g, h, r, q
  <2>4. UpToCommit(h, q)
    BY <2>1, <2>3 DEF UpToCommit, BeforeCommit, BeforeValidation
  <2>5. FromCommit(h, q)
    BY <2>1, <2>2, <2>3 DEF FromCommit, Shipped, AfterVerification
  <2>6. Decided(h, q)
    BY <2>1, <2>3 DEF Decided
  <2> QED
    BY <2>4, <2>5, <2>6 DEF StateInv, h, q
<1>9. CASE HandleBlocker(t) \/ GenerateFinalPackage(t) \/ RememberOutcome(t)
  <2> DEFINE Kept == /\ h.inspected = g.inspected
                     /\ h.validation = g.validation
                     /\ h.artifacts = g.artifacts
                     /\ h.status = g.status
                     /\ q = r
  <2>1. ASSUME HandleBlocker(t)
        PROVE  Kept /\ g.pc = "handle_blocker" /\ h.pc = "verify_build"
    BY <2>1, <1>g DEF HandleBlocker, ApplyRecovery, Leave, Enter, TypeOK, States
  <2>2. ASSUME GenerateFinalPackage(t)
        PROVE  Kept /\ g.pc = "generate_final_package" /\ h.pc = "remember_outcome"
    BY <2>2, <1>g DEF GenerateFinalPackage, Leave, Enter, TypeOK, States
  <2>3. ASSUME RememberOutcome(t)
        PROVE  Kept /\ g.pc = "remember_outcome" /\ h.pc = "report_result"
    BY <2>3, <1>g DEF RememberOutcome, Leave, Enter, TypeOK, States
  <2>4. /\ Kept
        /\ \/ g.pc = "handle_blocker" /\ h.pc = "verify_build"
           \/ g.pc = "generate_final_package" /\ h.pc = "remember_outcome"
           \/ g.pc = "remember_outcome" /\ h.pc = "report_result"
    BY <1>9, <2>1, <2>2, <2>3
  <2> HIDE DEF g, h, r, q
  <2>5. StateInv(h, q)
    BY <2>4, QuietNode DEF g, r, Nodes, BeforeValidation,
       BeforeCommit, AfterCommit, AfterVerification
  <2> QED
    BY <2>5 DEF h, q
<1>10. CASE ReportResult(t)
  <2>1. /\ h.inspected = g.inspected
        /\ h.validation = g.validation
        /\ h.status = "completed"
        /\ h.pc = "END"
        /\ q = r
        /\ g.pc = "report_result"
    BY <1>10, <1>g DEF ReportResult, Leave, Enter, TypeOK, States
  <2>2. /\ ~settings.mock => Shipped(g, r) /\ Healthy(r)
        /\ g.inspected \subseteq GeneratedPaths
        /\ \A p \in g.inspected : r.tree[p] \in {None, "prior", "inspected"}
    BY <2>1 DEF StateInv, UpToCommit, FromCommit, AfterCommit,
       AfterVerification
  <2> HIDE DEF g, h, r, q
  <2>3. UpToCommit(h, q)
    BY <2>1, <2>2 DEF UpToCommit, BeforeCommit, BeforeValidation
  <2>4. FromCommit(h, q)
    BY <2>1, <2>2 DEF FromCommit, AfterCommit, AfterVerification
  <2>5. Decided(h, q)
    BY <2>1, <2>2 DEF Decided, Shipped
  <2> QED
    BY <2>3, <2>4, <2>5 DEF StateInv, h, q
<1>11. CASE Failed(t)
  <2>1. /\ h.inspected = g.inspected
        /\ h.status = "failed"
        /\ h.pc = "END"
        /\ q = r
    BY <1>11, <1>g DEF Failed, Leave, Enter, TypeOK, States
  <2>2. /\ g.inspected \subseteq GeneratedPaths
        /\ \A p \in g.inspected : r.tree[p] \in {None, "prior", "inspected"}
    BY DEF StateInv, UpToCommit, FromCommit
  <2> HIDE DEF g, h, r, q
  <2>3. UpToCommit(h, q)
    BY <2>1, <2>2 DEF UpToCommit, BeforeCommit, BeforeValidation
  <2>4. FromCommit(h, q)
    BY <2>1, <2>2 DEF FromCommit, AfterCommit, AfterVerification
  <2>5. Decided(h, q)
    BY <2>1 DEF Decided
  <2> QED
    BY <2>3, <2>4, <2>5 DEF StateInv, h, q
<1> QED
  BY <1>1, <1>2, <1>3, <1>4, <1>5, <1>6, <1>7, <1>8, <1>9, <1>10, <1>11
  DEF RunNode

(* A task the store already shows as decided has no node to run but        *)
(* "failed".                                                               *)
LEMMA NodeStoreInv ==
  ASSUME TypeOK, NEW t \in Tasks, StateInv(graph[t], github[t]),
         StoreInv(run[t], graph[t], store[t]), RunNode(t)
  PROVE  StoreInv(run'[t], graph'[t], store[t])
<1>1. /\ run[t] = "node"
      /\ graph[t].pc \in Nodes
      /\ run'[t] \in {"append", "snapshot"}
  BY NodeFrame
<1>2. store[t].status # "completed"
  BY <1>1 DEF StoreInv, StateInv, Decided, Nodes
<1>3. ASSUME store[t].status = "failed" PROVE graph'[t].status = "failed"
  <2>1. graph[t].pc = "failed"
    BY <1>1, <1>3 DEF StoreInv, StateInv, Decided, Nodes
  <2>2. Failed(t)
    BY <2>1 DEF RunNode, ReceiveIdea, ExchangeGithubCode, RetrieveContext,
         ScopeMvp, RecommendStack, PlanRepo, CreateRepo, GenerateFiles,
         ValidateMvp, DebugGeneratedFiles, CommitProgress, VerifyBuild,
         HandleBlocker, GenerateFinalPackage, RememberOutcome, ReportResult,
         Enter
  <2> QED
    BY <2>2 DEF Failed, Leave, TypeOK, States
<1> QED
  BY <1>1, <1>2, <1>3 DEF StoreInv

-----------------------------------------------------------------------------
(* The whole system *)

(* StateInv speaks of the settings, which never change. *)
LEMMA StateInvPrime ==
  ASSUME UNCHANGED settings, NEW t \in Tasks, StateInv(graph'[t], github'[t])
  PROVE  StateInv(graph[t], github[t])'
BY DEF StateInv, UpToCommit, FromCommit, Decided, Shipped, Healthy

LEMMA InitDelivery == Init => DeliveryInv
<1> SUFFICES ASSUME Init, NEW t \in Tasks
             PROVE  /\ StateInv(graph[t], github[t])
                    /\ StoreInv(run[t], graph[t], store[t])
  BY DEF DeliveryInv
<1>1. /\ graph[t] = InitialState
      /\ graph[t].inspected = {}
      /\ graph[t].pc = "receive_idea"
      /\ graph[t].status = "started"
      /\ store[t].status = "absent"
  BY DEF Init, InitialState, NoTask
<1>2. \A p \in Paths : github[t].tree[p] \in {None, "prior"}
  <2>1. github[t] \in Repositories
    BY DEF Init
  <2> QED
    BY <2>1 DEF Repositories, NoFiles, Written
<1>3. StateInv(graph[t], github[t])
  BY <1>1, <1>2 DEF StateInv, UpToCommit, FromCommit, Decided,
     BeforeValidation, AfterCommit, AfterVerification
<1> QED
  BY <1>1, <1>3 DEF StoreInv

LEMMA ServiceStepDelivery ==
  ASSUME TypeOK, DeliveryInv, NEW t \in Tasks,
         \/ Submit(t) \/ RunTaskWorkflow(t) \/ AppendAgentSteps(t)
         \/ SnapshotTask(t) \/ Raise(t) \/ SnapshotFailure(t) \/ PollTask(t)
  PROVE  DeliveryInv'
<1> SUFFICES ASSUME NEW u \in Tasks
             PROVE  /\ StateInv(graph[u], github[u])'
                    /\ StoreInv(run'[u], graph'[u], store'[u])
  BY DEF DeliveryInv, StoreInv
<1>1. StateInv(graph[u], github[u]) /\ StoreInv(run[u], graph[u], store[u])
  BY DEF DeliveryInv
<1>2. /\ UNCHANGED <<settings, github>>
      /\ graph'[u] = graph[u]
  BY <1>1 DEF Submit, RunTaskWorkflow, AppendAgentSteps, SnapshotTask, Raise,
     SnapshotFailure, PollTask, StoreInv, TypeOK
<1>3. StateInv(graph[u], github[u])'
  BY <1>1, <1>2, StateInvPrime
<1>4. StoreInv(run'[u], graph'[u], store'[u])
  <2>1. CASE Submit(t)
    BY <1>1, <1>2, <2>1 DEF Submit, StoreInv, TypeOK, Details
  <2>2. CASE RunTaskWorkflow(t)
    BY <1>1, <1>2, <2>2 DEF RunTaskWorkflow, StoreInv, TypeOK
  <2>3. CASE AppendAgentSteps(t)
    BY <1>1, <1>2, <2>3 DEF AppendAgentSteps, StoreInv, TypeOK, Details
  <2>4. CASE SnapshotTask(t)
    BY <1>1, <1>2, <2>4 DEF SnapshotTask, Detail, StoreInv, TypeOK
  <2>5. CASE Raise(t)
    BY <1>1, <1>2, <2>5 DEF Raise, StoreInv, TypeOK
  <2>6. CASE SnapshotFailure(t)
    BY <1>1, <1>2, <2>6 DEF SnapshotFailure, UnexpectedFailure, StoreInv,
       TypeOK, Details
  <2>7. CASE PollTask(t)
    BY <1>1, <1>2, <2>7 DEF PollTask, StoreInv
  <2> QED
    BY <2>1, <2>2, <2>3, <2>4, <2>5, <2>6, <2>7
<1> QED
  BY <1>3, <1>4

LEMMA NodeStepDelivery ==
  ASSUME TypeOK, DeliveryInv, NEW t \in Tasks, RunNode(t)
  PROVE  DeliveryInv'
<1> SUFFICES ASSUME NEW u \in Tasks
             PROVE  /\ StateInv(graph[u], github[u])'
                    /\ StoreInv(run'[u], graph'[u], store'[u])
  BY DEF DeliveryInv, StoreInv
<1>1. StateInv(graph[u], github[u]) /\ StoreInv(run[u], graph[u], store[u])
  BY DEF DeliveryInv
<1>2. UNCHANGED <<settings, store>>
  BY NodeFrame
<1>3. StateInv(graph'[u], github'[u])
  BY <1>1, NodeFrame, NodeStateInv
<1>4. StoreInv(run'[u], graph'[u], store'[u])
  BY <1>1, <1>2, NodeFrame, NodeStoreInv
<1> QED
  BY <1>2, <1>3, <1>4, StateInvPrime

(* The strengthening is inductive, given the types. *)
THEOREM DeliveryInvariant == Spec => []DeliveryInv
<1>1. Init => DeliveryInv
  BY InitDelivery
<1>2. TypeOK /\ DeliveryInv /\ [Next]_vars => DeliveryInv'
  <2> SUFFICES ASSUME TypeOK, DeliveryInv, [Next]_vars PROVE DeliveryInv'
    OBVIOUS
  <2>1. CASE UNCHANGED vars
    BY <2>1 DEF vars, DeliveryInv, StateInv, StoreInv, UpToCommit, FromCommit,
       Decided, Shipped, Healthy
  <2>2. ASSUME NEW t \in Tasks, RunNode(t) PROVE DeliveryInv'
    BY <2>2, NodeStepDelivery
  <2>3. ASSUME NEW t \in Tasks,
               \/ Submit(t) \/ RunTaskWorkflow(t) \/ AppendAgentSteps(t)
               \/ SnapshotTask(t) \/ Raise(t) \/ SnapshotFailure(t)
               \/ PollTask(t)
        PROVE  DeliveryInv'
    BY <2>3, ServiceStepDelivery
  <2> QED
    BY <2>1, <2>2, <2>3 DEF Next, Job
<1> QED
  BY <1>1, <1>2, TypeCorrect, PTL DEF Spec

-----------------------------------------------------------------------------
(* What it gives *)

(* For any paths, any repository the task may start from and any answer of *)
(* the tools: outside mock mode the API shows a task completed only when   *)
(* every inspected file is in the repository as it was inspected, it passed*)
(* validation and the repository passes its health check.                  *)
THEOREM CompletedIsDelivered == Spec => []CompletedMeansDelivered
<1>1. DeliveryInv => CompletedMeansDelivered
  BY DEF DeliveryInv, StateInv, StoreInv, Decided, Shipped, Healthy,
         CompletedMeansDelivered, Delivered, InspectedFilesOnGitHub
<1> QED
  BY <1>1, DeliveryInvariant, PTL

(* Neither the version generate_files wrote nor the health scaffold ever   *)
(* takes the place of an inspected file in the repository.                 *)
THEOREM InspectedWins == Spec => []InspectedVersionWins
<1>1. DeliveryInv => InspectedVersionWins
  BY DEF DeliveryInv, StateInv, FromCommit, InspectedVersionWins
<1> QED
  BY <1>1, DeliveryInvariant, PTL

(* No step changes the repository of a task the API shows as failed: not a *)
(* node still to run, nor one of another task.                             *)
THEOREM FailedIsFinal == Spec => FailedTaskLeavesGitHubAlone
<1>1. TypeOK /\ DeliveryInv /\ [Next]_vars =>
        [\A t \in Tasks :
           store[t].status = "failed" => github'[t] = github[t]]_vars
  <2> SUFFICES ASSUME TypeOK, DeliveryInv, Next,
                      NEW t \in Tasks, store[t].status = "failed"
               PROVE  github'[t] = github[t]
    OBVIOUS
  <2>1. PICK u \in Tasks : Submit(u) \/ Job(u) \/ PollTask(u)
    BY DEF Next
  <2>2. CASE RunNode(u)
    <3>1. CASE u # t
      BY <2>2, <3>1, NodeFrame
    <3>2. CASE u = t
      <4>1. graph[t].pc = "failed"
        BY <2>2, <3>2, NodeFrame
        DEF DeliveryInv, StateInv, StoreInv, Decided, Nodes
      <4>2. UNCHANGED github
        BY <2>2, <3>2, <4>1
        DEF RunNode, ReceiveIdea, ExchangeGithubCode, RetrieveContext,
            ScopeMvp, RecommendStack, PlanRepo, CreateRepo, GenerateFiles,
            ValidateMvp, DebugGeneratedFiles, CommitProgress, VerifyBuild,
            HandleBlocker, GenerateFinalPackage, RememberOutcome,
            ReportResult, Failed, Enter
      <4> QED
        BY <4>2
    <3> QED
      BY <3>1, <3>2
  <2>3. CASE ~RunNode(u)
    BY <2>1, <2>3 DEF Submit, Job, RunTaskWorkflow, AppendAgentSteps,
       SnapshotTask, Raise, SnapshotFailure, PollTask
  <2> QED
    BY <2>2, <2>3
<1> QED
  BY <1>1, TypeCorrect, DeliveryInvariant, PTL
  DEF Spec, FailedTaskLeavesGitHubAlone
=============================================================================
