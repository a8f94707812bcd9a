--------------------------- MODULE LifecycleProofs ---------------------------
(***************************************************************************)
(* What the API shows of a task is what its run did: the inductive         *)
(* invariants behind ShownStepsAreTheTrace, ReportBlamesTheCulprit,        *)
(* CompletedTimelineIsFull and RunFitsRecursionLimit, and the proof that   *)
(* Workflow implements TaskLifecycle.                                      *)
(***************************************************************************)
EXTENDS WorkflowProofs

-----------------------------------------------------------------------------
(* The invariants *)

FailedStep == Step("failed", "failed")

(* u is s and one step more. *)
OneStepMore(u, s) == \E step \in Steps : u = Append(s, step)

(* The history that is shown, in every phase of the job.  The live callback*)
(* shows the last step of the trace; a snapshot shows the trace; the       *)
(* failure handler adds its own step to what it read.                      *)
HistoryInv(phase, g, d, kept) ==
  /\ phase \in {"idle", "queued"} => d.steps = <<>>
  /\ phase = "node" => d.steps = g.trace /\ g.pc # "END"
  /\ phase = "append" => OneStepMore(g.trace, d.steps)
  /\ phase = "snapshot" =>
       d.steps = g.trace \/ OneStepMore(g.trace, d.steps)
  /\ phase = "caught" => d.steps = g.trace /\ kept = g.trace
  /\ phase = "done" => \/ d.report.blame # "exception" /\ d.steps = g.trace
                       \/ /\ d.report.blame = "exception"
                          /\ d.steps = Append(g.trace, FailedStep)
  /\ d.report.blame = "exception" => phase = "done"
  /\ g.report.blame # "exception"

(* A task is absent until it is submitted, and shown completed only after  *)
(* the last snapshot of its run.                                           *)
StatusInv(phase, d) ==
  /\ phase = "idle" <=> d.status = "absent"
  /\ d.status = "completed" => phase = "done"

(* The reason of a state that is about to fail is its last step; a report  *)
(* of failure comes of the step before "failed".                           *)
BlameInv(g) ==
  /\ g.pc = "failed" => /\ Len(g.trace) > 0
                        /\ g.reason # None
                        /\ g.trace[Len(g.trace)].node = g.reason
  /\ g.report.status = "failed" =>
       /\ g.pc = "END"
       /\ Len(g.trace) > 1
       /\ g.trace[Len(g.trace)].node = "failed"
       /\ g.trace[Len(g.trace) - 1].node = g.report.blame

(* A report of failure is stored by the last snapshot, or by the handler.  *)
ReportInv(phase, g, d) ==
  d.report.status = "failed" /\ d.report.blame # "exception" =>
    phase = "done" /\ d.report = g.report

(* The phases that are not yet completed when node n is to run, the export *)
(* aside; only the nodes a live run passes before it is decided matter.    *)
PackagePhases == {"deployment_instructions", "final_project_report"}
CheckPhases == {"build_test_validation"} \cup PackagePhases
TestPhases == {"testing_strategy"} \cup CheckPhases
FilePhases == {"file_tree_generation", "code_implementation",
               "documentation_generation"} \cup TestPhases
DesignPhases == {"data_model_design", "api_design", "frontend_architecture",
                 "backend_architecture", "auth_authorization_design",
                 "database_schema_planning"} \cup FilePhases
StackPhases == {"tech_stack_recommendation"} \cup DesignPhases
ScopePhases == {"requirement_expansion", "user_goal_interpretation",
                "feature_system_design"} \cup StackPhases
ResearchPhases == {"domain_research", "reference_url_analysis"} \cup ScopePhases

ToCome ==
  [n \in Nodes \cup {"END"} |->
     CASE n \in {"exchange_github_code", "retrieve_context"} -> ResearchPhases
       [] n = "scope_mvp" -> ScopePhases
       [] n = "recommend_stack" -> StackPhases
       [] n = "plan_repo" -> DesignPhases
       [] n \in {"create_repo", "generate_files"} -> FilePhases
       [] n = "validate_mvp" -> TestPhases
       [] n \in {"debug_generated_files", "commit_progress", "verify_build",
                 "handle_blocker"} -> CheckPhases
       [] n = "generate_final_package" -> PackagePhases
       [] n \in {"remember_outcome", "report_result"} -> {}
       [] OTHER -> Phases]

Export == "github_repo_export"

(* Every phase that is behind the run is completed; commit_progress put the*)
(* export back to running.                                                 *)
TimelineInv(g) ==
  /\ \A p \in Phases \ {Export} :
       g.status = "completed" \/ p \notin ToCome[g.pc] =>
         g.timeline[p] = "completed"
  /\ g.pc \in AfterCommit \/ g.status = "completed" =>
       g.timeline[Export] = "running"

ShownTimelineInv(phase, g, d) ==
  d.status = "completed" => d.timeline = g.timeline

(* How many nodes a run may have run before node n.  The blocker of mock   *)
(* mode is the only way back, and it is taken once.                        *)
MostNodes == 17

NodesBefore(n, recovered) ==
  CASE n = "receive_idea"           -> 0
    [] n = "exchange_github_code"   -> 1
    [] n = "retrieve_context"       -> 2
    [] n = "scope_mvp"              -> 3
    [] n = "recommend_stack"        -> 4
    [] n = "plan_repo"              -> 5
    [] n = "create_repo"            -> 6
    [] n = "generate_files"         -> 7
    [] n = "validate_mvp"           -> 8
    [] n = "debug_generated_files"  -> 9
    [] n = "commit_progress"        -> 10
    [] n = "verify_build"           -> IF recovered THEN 13 ELSE 11
    [] n = "handle_blocker"         -> 12
    [] n = "generate_final_package" -> 14
    [] n = "remember_outcome"       -> 15
    [] n = "report_result"          -> 16
    [] n = "failed"                 -> 14
    [] OTHER                        -> MostNodes

LengthInv(g) == Len(g.trace) <= NodesBefore(g.pc, g.recovered)

RunInv(g) == BlameInv(g) /\ TimelineInv(g) /\ LengthInv(g)

ShownInv(phase, g, d, kept) ==
  /\ HistoryInv(phase, g, d, kept)
  /\ StatusInv(phase, d)
  /\ ReportInv(phase, g, d)
  /\ ShownTimelineInv(phase, g, d)

LifecycleInv ==
  \A t \in Tasks : /\ RunInv(graph[t])
                   /\ ShownInv(run[t], graph[t], store[t], held[t])

-----------------------------------------------------------------------------
(* What a node does to its state *)

(* Node n is run in g and leaves h, with s as its step. *)
Runs(g, h, n, s) == /\ g.pc = n
                    /\ h.trace = Append(g.trace, Step(n, s))

Marks(g, h, S, s) ==
  \A p \in Phases : h.timeline[p] = IF p \in S THEN s ELSE g.timeline[p]

(* The run goes on at next, with the phases of S completed. *)
GoesOn(g, h, n, next, S) ==
  /\ Runs(g, h, n, "completed")
  /\ h.pc = next
  /\ h.report = g.report
  /\ h.recovered = g.recovered
  /\ h.status = g.status
  /\ Marks(g, h, S, "completed")

(* The run is stopped by n. *)
Stops(g, h, n) ==
  /\ \E s \in StepStatuses : Runs(g, h, n, s)
  /\ h.pc = "failed"
  /\ h.reason = n
  /\ h.report = g.report
  /\ h.recovered = g.recovered
  /\ h.status # "completed"

(* The ways a node can leave its state, read off the nodes. *)
Prepares(g, h) ==
  \/ GoesOn(g, h, "receive_idea", "exchange_github_code", {"idea_intake"})
  \/ GoesOn(g, h, "exchange_github_code", "retrieve_context", {})
  \/ GoesOn(g, h, "retrieve_context", "scope_mvp",
            {"domain_research", "reference_url_analysis"})
  \/ GoesOn(g, h, "scope_mvp", "recommend_stack",
            {"requirement_expansion", "user_goal_interpretation",
             "feature_system_design"})
  \/ GoesOn(g, h, "recommend_stack", "plan_repo", {"tech_stack_recommendation"})
  \/ GoesOn(g, h, "plan_repo", "create_repo",
            {"data_model_design", "api_design", "frontend_architecture",
             "backend_architecture", "auth_authorization_design",
             "database_schema_planning"})

Builds(g, h) ==
  \/ GoesOn(g, h, "create_repo", "generate_files", {Export})
  \/ GoesOn(g, h, "generate_files", "validate_mvp",
            {"file_tree_generation", "code_implementation",
             "documentation_generation"})
  \/ GoesOn(g, h, "validate_mvp", "debug_generated_files", {"testing_strategy"})
  \/ GoesOn(g, h, "debug_generated_files", "commit_progress", {})

Commits(g, h) ==
  /\ Runs(g, h, "commit_progress", "completed")
  /\ h.pc = "verify_build"
  /\ h.report = g.report
  /\ h.recovered = g.recovered
  /\ h.status = g.status
  /\ Marks(g, h, {Export}, "running")

MeetsBlocker(g, h) ==
  /\ Runs(g, h, "verify_build", "blocked")
  /\ h.pc = "handle_blocker"
  /\ h.report = g.report
  /\ ~g.recovered /\ ~h.recovered
  /\ h.status = g.status
  /\ Marks(g, h, {"build_test_validation"}, "failed")

Recovers(g, h) ==
  /\ Runs(g, h, "handle_blocker", "completed")
  /\ h.pc = "verify_build"
  /\ h.report = g.report
  /\ h.recovered
  /\ h.status = g.status
  /\ Marks(g, h, {}, "completed")

Packages(g, h) ==
  /\ Runs(g, h, "generate_final_package", "completed")
  /\ h.pc = "remember_outcome"
  /\ h.report = [status |-> "completed", blame |-> None]
  /\ h.recovered = g.recovered
  /\ h.status = g.status
  /\ Marks(g, h, {"deployment_instructions", "documentation_generation",
                  "final_project_report"}, "completed")

Finishes(g, h) ==
  /\ Runs(g, h, "report_result", "completed")
  /\ h.pc = "END"
  /\ h.report = g.report
  /\ h.status = "completed"
  /\ Marks(g, h, {}, "completed")

GivesUp(g, h) ==
  /\ Runs(g, h, "failed", "failed")
  /\ h.pc = "END"
  /\ h.report = [status |-> "failed", blame |-> FailureReason(g)]
  /\ h.status = "failed"

Stopping == {"exchange_github_code", "create_repo", "validate_mvp",
             "commit_progress", "verify_build"}

NodeEffect(g, h) ==
  \/ Prepares(g, h)
  \/ Builds(g, h)
  \/ Commits(g, h)
  \/ GoesOn(g, h, "verify_build", "generate_final_package",
            {"build_test_validation"})
  \/ MeetsBlocker(g, h)
  \/ Recovers(g, h)
  \/ Packages(g, h)
  \/ GoesOn(g, h, "remember_outcome", "report_result", {})
  \/ Finishes(g, h)
  \/ GivesUp(g, h)
  \/ \E n \in Stopping : Stops(g, h, n)

(* Leave hands the fields of g on, but for the trace and the next node. *)
LEMMA LeaveFields ==
  ASSUME TypeOK, NEW t \in Tasks, NEW n, NEW s, NEW next,
         NEW g \in States, Leave(t, n, s, g, next)
  PROVE  /\ graph'[t].trace = Append(g.trace, Step(n, s))
         /\ graph'[t].pc = next
         /\ graph'[t].status = g.status
         /\ graph'[t].reason = g.reason
         /\ graph'[t].recovered = g.recovered
         /\ graph'[t].timeline = g.timeline
         /\ graph'[t].report = g.report
BY DEF Leave, TypeOK, States

LEMMA RecordMarks ==
  ASSUME NEW timeline, NEW S, NEW s, NEW p \in Phases
  PROVE  Record(timeline, S, s)[p] = IF p \in S THEN s ELSE timeline[p]
BY DEF Record

LEMMA RecordsFields ==
  ASSUME NEW g \in States, NEW S, NEW s \in PhaseStatuses
  PROVE  /\ Records(g, S, s) \in States
         /\ Records(g, S, s).trace = g.trace
         /\ Records(g, S, s).status = g.status
         /\ Records(g, S, s).reason = g.reason
         /\ Records(g, S, s).recovered = g.recovered
         /\ Records(g, S, s).report = g.report
         /\ Records(g, S, s).validation = g.validation
         /\ \A p \in Phases :
              Records(g, S, s).timeline[p] = IF p \in S THEN s ELSE g.timeline[p]
<1>1. Records(g, S, s) \in States
  BY RecordsType
<1> QED
  BY <1>1, RecordMarks DEF Records, States

(* The nodes that only record phases. *)
LEMMA RecordingGoesOn ==
  ASSUME TypeOK, NEW t \in Tasks, NEW n, NEW next, NEW S,
         graph[t].pc = n,
         Leave(t, n, "completed", Records(graph[t], S, "completed"), next)
  PROVE  GoesOn(graph[t], graph'[t], n, next, S)
<1>1. graph[t] \in States /\ "completed" \in PhaseStatuses
  BY DEF TypeOK, PhaseStatuses
<1> DEFINE g == Records(graph[t], S, "completed")
<1>2. /\ g \in States
      /\ g.trace = graph[t].trace
      /\ g.status = graph[t].status
      /\ g.recovered = graph[t].recovered
      /\ g.report = graph[t].report
      /\ \A p \in Phases :
           g.timeline[p] = IF p \in S THEN "completed" ELSE graph[t].timeline[p]
  BY <1>1, RecordsFields
<1> HIDE DEF g
<1>3. Leave(t, n, "completed", g, next)
  BY DEF g
<1> QED
  BY <1>2, <1>3, LeaveFields DEF GoesOn, Runs, Marks

LEMMA PreparesEffect ==
  ASSUME TypeOK, NEW t \in Tasks,
         \/ ReceiveIdea(t) \/ RetrieveContext(t) \/ ScopeMvp(t)
         \/ RecommendStack(t) \/ PlanRepo(t)
  PROVE  Prepares(graph[t], graph'[t])
<1>1. CASE ReceiveIdea(t)
  BY <1>1, RecordingGoesOn DEF ReceiveIdea, Enter, Prepares
<1>2. CASE RetrieveContext(t)
  BY <1>2, RecordingGoesOn DEF RetrieveContext, Enter, Prepares
<1>3. CASE ScopeMvp(t)
  BY <1>3, RecordingGoesOn DEF ScopeMvp, Enter, Prepares
<1>4. CASE RecommendStack(t)
  BY <1>4, RecordingGoesOn DEF RecommendStack, Enter, Prepares
<1>5. CASE PlanRepo(t)
  BY <1>5, RecordingGoesOn DEF PlanRepo, Enter, Prepares
<1> QED
  BY <1>1, <1>2, <1>3, <1>4, <1>5

(* A node that fails stops the run, whatever it noted of the call. *)
LEMMA FailingStops ==
  ASSUME TypeOK, NEW t \in Tasks, NEW n \in Nodes, NEW s \in StepStatuses,
         NEW g \in States, g.trace = graph[t].trace, g.status # "completed",
         g.reason = n, g.report = graph[t].report,
         g.recovered = graph[t].recovered,
         graph[t].pc = n, Leave(t, n, s, g, "failed")
  PROVE  Stops(graph[t], graph'[t], n)
BY LeaveFields DEF Stops, Runs

LEMMA FailsFields ==
  ASSUME NEW g \in States, NEW n \in Nodes
  PROVE  /\ Fails(g, n) \in States
         /\ Fails(g, n).trace = g.trace
         /\ Fails(g, n).status = "failed"
         /\ Fails(g, n).reason = n
         /\ Fails(g, n).recovered = g.recovered
         /\ Fails(g, n).report = g.report
BY FailsType DEF Fails, States

LEMMA ExchangeEffect ==
  ASSUME TypeOK, NEW t \in Tasks, StateInv(graph[t], github[t]),
         ExchangeGithubCode(t)
  PROVE  NodeEffect(graph[t], graph'[t])
<1> DEFINE n == "exchange_github_code"
           G == graph[t]
           h == [G EXCEPT !.authorized = ~settings.mock]
<1>g. /\ G \in States
      /\ n \in Nodes
      /\ G.pc = n
      /\ settings.mock \in BOOLEAN
  BY ConfigsAssumption DEF TypeOK, Nodes, ExchangeGithubCode, Enter
<1>s. G.status \notin {"failed", "completed"}
  BY <1>g DEF StateInv, Decided
<1>1. PICK ok \in BOOLEAN :
        Leave(t, n, Outcome(ok), IF ok THEN h ELSE Fails(G, n),
              RouteAfterGithubExchange(IF ok THEN h ELSE Fails(G, n)))
  BY DEF ExchangeGithubCode
<1>h. /\ h \in States
      /\ h.trace = G.trace
      /\ h.status = G.status
      /\ h.recovered = G.recovered
      /\ h.report = G.report
      /\ h.timeline = G.timeline
  BY <1>g DEF States
<1> HIDE DEF h
<1>2. CASE ok
  <2>1. Leave(t, n, "completed", h, "retrieve_context")
    BY <1>1, <1>2, <1>h, <1>s DEF RouteAfterGithubExchange, Outcome
  <2>2. GoesOn(G, graph'[t], n, "retrieve_context", {})
    BY <1>g, <1>h, <2>1, LeaveFields DEF GoesOn, Runs, Marks
  <2> QED
    BY <2>2 DEF NodeEffect, Prepares
<1>3. CASE ~ok
  <2>1. Leave(t, n, "failed", Fails(G, n), "failed")
    BY <1>1, <1>3, <1>g, FailsFields DEF RouteAfterGithubExchange, Outcome
  <2>2. Stops(G, graph'[t], n)
    BY <1>g, <2>1, FailsFields, FailingStops DEF StepStatuses
  <2> QED
    BY <2>2 DEF NodeEffect, Stopping
<1> QED
  BY <1>2, <1>3

LEMMA CreateEffect ==
  ASSUME TypeOK, NEW t \in Tasks, StateInv(graph[t], github[t]), CreateRepo(t)
  PROVE  NodeEffect(graph[t], graph'[t])
<1> DEFINE n == "create_repo"
           G == graph[t]
           R == Records(G, {Export}, "completed")
           h == [R EXCEPT !.last = Success(n)]
           f(r) == [Fails(G, n) EXCEPT !.last = Failure(n, r)]
<1>g. /\ G \in States
      /\ n \in Nodes
      /\ G.pc = n
      /\ "completed" \in PhaseStatuses
  BY DEF TypeOK, Nodes, CreateRepo, Enter, PhaseStatuses
<1>s. G.status \notin {"failed", "completed"}
  BY <1>g DEF StateInv, Decided
<1>1. PICK outcome \in CreateOutcomes(t), r \in Recoverable(t) :
        Leave(t, n, Outcome(outcome[1]), IF outcome[1] THEN h ELSE f(r),
              RouteAfterCreateRepo(IF outcome[1] THEN h ELSE f(r)))
  BY DEF CreateRepo, Export
<1>r. r \in BOOLEAN
  BY DEF Recoverable
<1>h. /\ h \in States
      /\ h.trace = G.trace
      /\ h.status = G.status
      /\ h.recovered = G.recovered
      /\ h.report = G.report
      /\ \A p \in Phases :
           h.timeline[p] = IF p \in {Export} THEN "completed" ELSE G.timeline[p]
  <2>1. Success(n) \in ToolResults
    BY <1>g, ResultType
  <2> HIDE DEF R, n, G
  <2>2. R \in States
    BY <1>g, RecordsFields DEF R
  <2>3. /\ h \in States
        /\ h.trace = R.trace
        /\ h.status = R.status
        /\ h.recovered = R.recovered
        /\ h.report = R.report
        /\ h.timeline = R.timeline
    BY <2>1, <2>2 DEF States
  <2> QED
    BY <1>g, <2>3, RecordsFields DEF R
<1>f. /\ f(r) \in States
      /\ f(r).trace = G.trace
      /\ f(r).status = "failed"
      /\ f(r).reason = n
      /\ f(r).recovered = G.recovered
      /\ f(r).report = G.report
  <2>1. Failure(n, r) \in ToolResults
    BY <1>g, <1>r, ResultType
  <2> QED
    BY <1>g, <2>1, FailsFields DEF States
<1> HIDE DEF h, f
<1>2. CASE outcome[1]
  <2>1. Leave(t, n, "completed", h, "generate_files")
    BY <1>1, <1>2, <1>h, <1>s DEF RouteAfterCreateRepo, Outcome
  <2>2. GoesOn(G, graph'[t], n, "generate_files", {Export})
    BY <1>g, <1>h, <2>1, LeaveFields DEF GoesOn, Runs, Marks
  <2> QED
    BY <2>2 DEF NodeEffect, Builds
<1>3. CASE ~outcome[1]
  <2>1. Leave(t, n, "failed", f(r), "failed")
    BY <1>1, <1>3, <1>f DEF RouteAfterCreateRepo, Outcome
  <2>2. Stops(G, graph'[t], n)
    BY <1>g, <1>f, <2>1, FailingStops DEF StepStatuses
  <2> QED
    BY <2>2 DEF NodeEffect, Stopping
<1> QED
  BY <1>2, <1>3

LEMMA GenerateEffect ==
  ASSUME TypeOK, NEW t \in Tasks, GenerateFiles(t)
  PROVE  NodeEffect(graph[t], graph'[t])
<1> DEFINE n == "generate_files"
           G == graph[t]
           g(S, m) == [G EXCEPT
                         !.artifacts = Overlay(Written(S, "generated"), @),
                         !.mode = m,
                         !.timeline = GenerationTimeline(@)]
<1>g. /\ G \in States
      /\ G.pc = n
      /\ n \in Nodes
  BY DEF TypeOK, GenerateFiles, Enter, Nodes
<1>1. PICK S \in SUBSET GeneratedPaths, m \in GenerationModes :
        Leave(t, n, "completed", g(S, m), "validate_mvp")
  BY DEF GenerateFiles
<1>2. \A p \in Phases :
        GenerationTimeline(G.timeline)[p] =
          IF p \in {"file_tree_generation", "code_implementation",
                    "documentation_generation"}
          THEN "completed" ELSE G.timeline[p]
  BY DEF GenerationTimeline, Record
<1>3. /\ graph'[t].trace = Append(G.trace, Step(n, "completed"))
      /\ graph'[t].pc = "validate_mvp"
      /\ graph'[t].status = G.status
      /\ graph'[t].recovered = G.recovered
      /\ graph'[t].report = G.report
      /\ graph'[t].timeline = GenerationTimeline(G.timeline)
  BY <1>g, <1>1 DEF Leave, TypeOK, States
<1>4. GoesOn(G, graph'[t], n, "validate_mvp",
             {"file_tree_generation", "code_implementation",
              "documentation_generation"})
  BY <1>g, <1>2, <1>3 DEF GoesOn, Runs, Marks
<1> QED
  BY <1>4 DEF NodeEffect, Builds

LEMMA ValidateEffect ==
  ASSUME TypeOK, NEW t \in Tasks, StateInv(graph[t], github[t]), ValidateMvp(t)
  PROVE  NodeEffect(graph[t], graph'[t])
<1> DEFINE n == "validate_mvp"
           G == graph[t]
           R(ok) == Records(G, {"testing_strategy"}, Outcome(ok))
           g(S, ok) == [R(ok) EXCEPT
                          !.artifacts = WithRepaired(S, @),
                          !.inspected = S,
                          !.validation = IF ok THEN "passed" ELSE "failed",
                          !.status = IF ok THEN @ ELSE "failed",
                          !.reason = IF ok THEN @ ELSE n]
<1>g. /\ G \in States
      /\ G.pc = n
      /\ n \in Nodes
  BY DEF TypeOK, ValidateMvp, Enter, Nodes
<1>s. G.status \notin {"failed", "completed"}
  BY <1>g DEF StateInv, Decided
<1>1. PICK S \in Repaired(G.artifacts), ok \in BOOLEAN :
        Leave(t, n, Outcome(ok), g(S, ok), RouteAfterValidateMvp(g(S, ok)))
  BY DEF ValidateMvp
<1>2. /\ R(ok) \in States
      /\ R(ok).trace = G.trace
      /\ R(ok).status = G.status
      /\ R(ok).recovered = G.recovered
      /\ R(ok).report = G.report
      /\ \A p \in Phases : R(ok).timeline[p] =
           IF p \in {"testing_strategy"} THEN Outcome(ok) ELSE G.timeline[p]
  BY <1>g, OutcomeType, RecordsFields
<1> HIDE DEF R, n, G
<1>3. /\ g(S, ok).trace = G.trace
      /\ g(S, ok).status = IF ok THEN G.status ELSE "failed"
      /\ g(S, ok).validation = IF ok THEN "passed" ELSE "failed"
      /\ g(S, ok).reason = IF ok THEN R(ok).reason ELSE n
      /\ g(S, ok).recovered = G.recovered
      /\ g(S, ok).report = G.report
      /\ g(S, ok).timeline = R(ok).timeline
  BY <1>2 DEF States
<1>4. /\ graph'[t].trace = Append(G.trace, Step(n, Outcome(ok)))
      /\ graph'[t].pc = RouteAfterValidateMvp(g(S, ok))
      /\ graph'[t].status = g(S, ok).status
      /\ graph'[t].reason = g(S, ok).reason
      /\ graph'[t].recovered = G.recovered
      /\ graph'[t].report = G.report
      /\ graph'[t].timeline = R(ok).timeline
  <2>1. graph'[t] = [g(S, ok) EXCEPT !.trace = Append(@, Step(n, Outcome(ok))),
                                     !.pc = RouteAfterValidateMvp(g(S, ok))]
    BY <1>1 DEF Leave, TypeOK
  <2> QED
    BY <1>2, <1>3, <2>1 DEF States
<1> HIDE DEF g
<1>5. CASE ok
  <2>1. GoesOn(G, graph'[t], n, "debug_generated_files", {"testing_strategy"})
    BY <1>g, <1>s, <1>2, <1>3, <1>4, <1>5
    DEF GoesOn, Runs, Marks, RouteAfterValidateMvp, Outcome
  <2> QED
    BY <2>1 DEF NodeEffect, Builds, n, G
<1>6. CASE ~ok
  <2>1. Stops(G, graph'[t], n)
    BY <1>g, <1>3, <1>4, <1>6
    DEF Stops, Runs, RouteAfterValidateMvp, Outcome, StepStatuses
  <2> QED
    BY <2>1 DEF NodeEffect, Stopping, n, G
<1> QED
  BY <1>5, <1>6

LEMMA CommitEffect ==
  ASSUME TypeOK, NEW t \in Tasks, StateInv(graph[t], github[t]),
         CommitProgress(t)
  PROVE  NodeEffect(graph[t], graph'[t])
<1> DEFINE n == "commit_progress"
           G == graph[t]
           R == Records(G, {Export}, "running")
           h == [R EXCEPT !.last = Success(n)]
           f(r) == [Fails(G, n) EXCEPT !.last = Failure(n, r)]
<1>g. /\ G \in States
      /\ n \in Nodes
      /\ G.pc = n
      /\ "running" \in PhaseStatuses
  BY DEF TypeOK, Nodes, CommitProgress, Enter, PhaseStatuses
<1>s. G.status \notin {"failed", "completed"}
  BY <1>g DEF StateInv, Decided
<1>1. PICK outcome \in CommitOutcomes(t), r \in Recoverable(t) :
        Leave(t, n, "completed", IF outcome[1] THEN h ELSE f(r),
              RouteAfterCommitProgress(IF outcome[1] THEN h ELSE f(r)))
  BY DEF CommitProgress, Export
<1>r. r \in BOOLEAN
  BY DEF Recoverable
<1>h. /\ h \in States
      /\ h.trace = G.trace
      /\ h.status = G.status
      /\ h.recovered = G.recovered
      /\ h.report = G.report
      /\ \A p \in Phases :
           h.timeline[p] = IF p \in {Export} THEN "running" ELSE G.timeline[p]
  <2>1. Success(n) \in ToolResults
    BY <1>g, ResultType
  <2> HIDE DEF R, n, G
  <2>2. R \in States
    BY <1>g, RecordsFields DEF R
  <2>3. /\ h \in States
        /\ h.trace = R.trace
        /\ h.status = R.status
        /\ h.recovered = R.recovered
        /\ h.report = R.report
        /\ h.timeline = R.timeline
    BY <2>1, <2>2 DEF States
  <2> QED
    BY <1>g, <2>3, RecordsFields DEF R
<1>f. /\ f(r) \in States
      /\ f(r).trace = G.trace
      /\ f(r).status = "failed"
      /\ f(r).reason = n
      /\ f(r).recovered = G.recovered
      /\ f(r).report = G.report
  <2>1. Failure(n, r) \in ToolResults
    BY <1>g, <1>r, ResultType
  <2> QED
    BY <1>g, <2>1, FailsFields DEF States
<1> HIDE DEF h, f
<1>2. CASE outcome[1]
  <2>1. Leave(t, n, "completed", h, "verify_build")
    BY <1>1, <1>2, <1>h, <1>s DEF RouteAfterCommitProgress
  <2>2. Commits(G, graph'[t])
    BY <1>g, <1>h, <2>1, LeaveFields DEF Commits, Runs, Marks
  <2> QED
    BY <2>2 DEF NodeEffect
<1>3. CASE ~outcome[1]
  <2>1. Leave(t, n, "completed", f(r), "failed")
    BY <1>1, <1>3, <1>f DEF RouteAfterCommitProgress
  <2>2. Stops(G, graph'[t], n)
    BY <1>g, <1>f, <2>1, FailingStops DEF StepStatuses
  <2> QED
    BY <2>2 DEF NodeEffect, Stopping
<1> QED
  BY <1>2, <1>3

LEMMA VerifyEffect ==
  ASSUME TypeOK, NEW t \in Tasks, StateInv(graph[t], github[t]), VerifyBuild(t)
  PROVE  NodeEffect(graph[t], graph'[t])
<1> DEFINE n == "verify_build"
           G == graph[t]
           ok(r) == r.status = "success"
           R(r) == Records(G, {"build_test_validation"}, Outcome(ok(r)))
           g(r) == [R(r) EXCEPT !.last = r, !.reason = IF ok(r) THEN @ ELSE n]
<1>g. /\ G \in States
      /\ G.pc = n
      /\ n \in Nodes
  BY DEF TypeOK, VerifyBuild, Enter, Nodes
<1>s. G.status \notin {"failed", "completed"}
  BY <1>g DEF StateInv, Decided
<1>1. PICK r \in VerifyResults(t) :
        Leave(t, n, IF ok(r) THEN "completed" ELSE "blocked", g(r),
              RouteAfterToolResult(g(r)))
  BY DEF VerifyBuild
<1>r. /\ r.status = "failed" /\ r.recoverable => ~G.recovered
      /\ r.recoverable \in BOOLEAN
  <2>1. /\ Failure(n, FALSE).recoverable = FALSE
        /\ Failure(n, TRUE).recoverable = TRUE
        /\ Success(n).status = "success"
        /\ Success(n).recoverable = FALSE
    BY DEF Failure, Success
  <2>2. \/ r = Success(n)
        \/ r = Failure(n, FALSE)
        \/ r = Failure(n, TRUE) /\ ~G.recovered
    BY DEF VerifyResults
  <2> QED
    BY <2>1, <2>2
<1>t. r \in ToolResults
  BY <1>g, ResultType DEF VerifyResults
<1>2. /\ R(r) \in States
      /\ R(r).trace = G.trace
      /\ R(r).status = G.status
      /\ R(r).recovered = G.recovered
      /\ R(r).report = G.report
      /\ \A p \in Phases : R(r).timeline[p] =
           IF p \in {"build_test_validation"} THEN Outcome(ok(r))
           ELSE G.timeline[p]
  <2>1. ok(r) \in BOOLEAN
    OBVIOUS
  <2> HIDE DEF ok, G
  <2>2. Outcome(ok(r)) \in PhaseStatuses
    BY <2>1, OutcomeType
  <2> QED
    BY <1>g, <2>2, RecordsFields
<1> HIDE DEF R, n, G
<1>3. /\ g(r) \in States
      /\ g(r).trace = G.trace
      /\ g(r).status = G.status
      /\ g(r).last = r
      /\ g(r).reason = IF ok(r) THEN R(r).reason ELSE n
      /\ g(r).recovered = G.recovered
      /\ g(r).report = G.report
      /\ g(r).timeline = R(r).timeline
  BY <1>g, <1>2, <1>t DEF States
<1> HIDE DEF g
<1>4. /\ graph'[t].trace = Append(G.trace, Step(n, IF ok(r) THEN "completed"
                                                         ELSE "blocked"))
      /\ graph'[t].pc = RouteAfterToolResult(g(r))
      /\ graph'[t].status = G.status
      /\ graph'[t].reason = IF ok(r) THEN R(r).reason ELSE n
      /\ graph'[t].recovered = G.recovered
      /\ graph'[t].report = G.report
      /\ graph'[t].timeline = R(r).timeline
  BY <1>1, <1>3, LeaveFields
<1>5. CASE ok(r)
  <2>1. GoesOn(G, graph'[t], n, "generate_final_package",
               {"build_test_validation"})
    BY <1>g, <1>2, <1>3, <1>4, <1>5
    DEF GoesOn, Runs, Marks, RouteAfterToolResult, Outcome
  <2> QED
    BY <2>1 DEF NodeEffect, n, G
<1>6. CASE ~ok(r) /\ r.recoverable
  <2>1. MeetsBlocker(G, graph'[t])
    <3>1. r.status = "failed"
      BY <1>6 DEF VerifyResults, Failure, Success
    <3> QED
      BY <1>g, <1>r, <1>2, <1>3, <1>4, <1>6, <3>1
      DEF MeetsBlocker, Runs, Marks, RouteAfterToolResult, Outcome, n
  <2> QED
    BY <2>1 DEF NodeEffect, G
<1>7. CASE ~ok(r) /\ ~r.recoverable
  <2>1. Stops(G, graph'[t], n)
    BY <1>g, <1>s, <1>3, <1>4, <1>7
    DEF Stops, Runs, RouteAfterToolResult, StepStatuses
  <2> QED
    BY <2>1 DEF NodeEffect, Stopping, n, G
<1> QED
  BY <1>5, <1>6, <1>7

LEMMA RemainingEffect ==
  ASSUME TypeOK, NEW t \in Tasks,
         \/ DebugGeneratedFiles(t) \/ HandleBlocker(t) \/ GenerateFinalPackage(t)
         \/ RememberOutcome(t) \/ ReportResult(t) \/ Failed(t)
  PROVE  NodeEffect(graph[t], graph'[t])
<1>g. graph[t] \in States
  BY DEF TypeOK
<1>1. CASE DebugGeneratedFiles(t)
  <2>1. GoesOn(graph[t], graph'[t], "debug_generated_files",
               "commit_progress", {})
    BY <1>g, <1>1 DEF DebugGeneratedFiles, Enter, Leave, GoesOn, Runs, Marks,
       TypeOK, States
  <2> QED
    BY <2>1 DEF NodeEffect, Builds
<1>2. CASE HandleBlocker(t)
  <2>1. Recovers(graph[t], graph'[t])
    BY <1>g, <1>2 DEF HandleBlocker, ApplyRecovery, Enter, Leave, Recovers,
       Runs, Marks, TypeOK, States
  <2> QED
    BY <2>1 DEF NodeEffect
<1>3. CASE GenerateFinalPackage(t)
  <2>1. \A p \in Phases :
          PackageTimeline(graph[t].timeline)[p] =
            IF p \in {"deployment_instructions", "documentation_generation",
                      "final_project_report"}
            THEN "completed" ELSE graph[t].timeline[p]
    BY DEF PackageTimeline, Record
  <2>2. Packages(graph[t], graph'[t])
    BY <1>g, <1>3, <2>1 DEF GenerateFinalPackage, Enter, Leave, Packages,
       Runs, Marks, TypeOK, States
  <2> QED
    BY <2>2 DEF NodeEffect
<1>4. CASE RememberOutcome(t)
  <2>1. GoesOn(graph[t], graph'[t], "remember_outcome", "report_result", {})
    BY <1>g, <1>4 DEF RememberOutcome, Enter, Leave, GoesOn, Runs, Marks,
       TypeOK, States
  <2> QED
    BY <2>1 DEF NodeEffect
<1>5. CASE ReportResult(t)
  <2>1. Finishes(graph[t], graph'[t])
    BY <1>g, <1>5 DEF ReportResult, Enter, Leave, Finishes, Runs, Marks,
       TypeOK, States
  <2> QED
    BY <2>1 DEF NodeEffect
<1>6. CASE Failed(t)
  <2>1. GivesUp(graph[t], graph'[t])
    BY <1>g, <1>6 DEF Failed, Enter, Leave, GivesUp, Runs, TypeOK, States
  <2> QED
    BY <2>1 DEF NodeEffect
<1> QED
  BY <1>1, <1>2, <1>3, <1>4, <1>5, <1>6

LEMMA NodeEffects ==
  ASSUME TypeOK, NEW t \in Tasks, StateInv(graph[t], github[t]), RunNode(t)
  PROVE  NodeEffect(graph[t], graph'[t])
BY PreparesEffect, ExchangeEffect, CreateEffect, GenerateEffect,
   ValidateEffect, CommitEffect, VerifyEffect, RemainingEffect
DEF RunNode, NodeEffect

-----------------------------------------------------------------------------
(* A node preserves what is known of its run *)

(* A node appends one step, its own, and no other exception than its own   *)
(* reaches a report.                                                       *)
LEMMA EffectAppends ==
  ASSUME NEW g \in States, NEW h \in States, NodeEffect(g, h)
  PROVE  /\ g.pc \in Nodes
         /\ \E s \in StepStatuses : /\ Step(g.pc, s) \in Steps
                                    /\ h.trace = Append(g.trace, Step(g.pc, s))
<1>1. ASSUME NEW n, NEW s, Runs(g, h, n, s), n \in Nodes, s \in StepStatuses
      PROVE  /\ g.pc \in Nodes
             /\ \E step \in StepStatuses :
                  /\ Step(g.pc, step) \in Steps
                  /\ h.trace = Append(g.trace, Step(g.pc, step))
  BY <1>1, StepType DEF Runs
<1>2. \E n \in Nodes, s \in StepStatuses : Runs(g, h, n, s)
  <2>1. \A n \in Stopping : n \in Nodes
    BY DEF Stopping, Nodes
  <2>2. CASE \E n \in Stopping : Stops(g, h, n)
    BY <2>1, <2>2 DEF Stops
  <2>3. CASE Prepares(g, h)
    BY <2>3 DEF Prepares, GoesOn, Nodes, StepStatuses
  <2>4. CASE Builds(g, h)
    BY <2>4 DEF Builds, GoesOn, Nodes, StepStatuses
  <2>5. CASE ~Prepares(g, h) /\ ~Builds(g, h) /\ ~\E n \in Stopping : Stops(g, h, n)
    BY <2>5 DEF NodeEffect, GoesOn, Commits, MeetsBlocker, Recovers, Packages,
       Finishes, GivesUp, Nodes, StepStatuses
  <2> QED
    BY <2>2, <2>3, <2>4, <2>5
<1> QED
  BY <1>1, <1>2

LEMMA AppendedStep ==
  ASSUME NEW s \in Seq(Steps), NEW step \in Steps
  PROVE  /\ Append(s, step) \in Seq(Steps)
         /\ Len(Append(s, step)) = Len(s) + 1
         /\ Append(s, step)[Len(s) + 1] = step
         /\ \A i \in 1..Len(s) : Append(s, step)[i] = s[i]
OBVIOUS

LEMMA NodeBlame ==
  ASSUME NEW g \in States, NEW h \in States, NodeEffect(g, h), BlameInv(g)
  PROVE  BlameInv(h)
<1>1. PICK s \in StepStatuses : /\ Step(g.pc, s) \in Steps
                                /\ h.trace = Append(g.trace, Step(g.pc, s))
  BY EffectAppends
<1>2. /\ g.pc \in Nodes
      /\ g.trace \in Seq(Steps)
      /\ Len(g.trace) \in Nat
      /\ Len(h.trace) = Len(g.trace) + 1
      /\ h.trace[Len(h.trace)].node = g.pc
      /\ Len(g.trace) > 0 =>
           h.trace[Len(h.trace) - 1] = g.trace[Len(g.trace)]
  <2>1. g.pc \in Nodes /\ g.trace \in Seq(Steps)
    BY EffectAppends DEF States
  <2>2. Step(g.pc, s).node = g.pc
    BY DEF Step
  <2>3. Len(g.trace) \in Nat
    BY <2>1
  <2> QED
    BY <1>1, <2>1, <2>2, <2>3, AppendedStep
<1>3. g.report.status # "failed"
  BY <1>2 DEF BlameInv, Nodes
<1>4. CASE \E n \in Stopping : Stops(g, h, n)
  <2>1. /\ h.pc = "failed"
        /\ h.reason = g.pc
        /\ h.report = g.report
    BY <1>4 DEF Stops, Runs
  <2>2. h.reason # None
    BY <1>2, <2>1 DEF Nodes, None
  <2> QED
    BY <1>2, <1>3, <2>1, <2>2 DEF BlameInv
<1>5. CASE GivesUp(g, h)
  <2>1. /\ g.pc = "failed"
        /\ h.pc = "END"
        /\ h.report.blame = FailureReason(g)
    BY <1>5 DEF GivesUp, Runs
  <2>2. /\ Len(g.trace) > 0
        /\ g.trace[Len(g.trace)].node = FailureReason(g)
    BY <2>1 DEF BlameInv, FailureReason
  <2> QED
    BY <1>2, <2>1, <2>2 DEF BlameInv
<1>6. CASE ~GivesUp(g, h) /\ ~\E n \in Stopping : Stops(g, h, n)
  <2>1. h.pc # "failed" /\ h.report.status # "failed"
    <3>1. CASE Prepares(g, h)
      BY <1>3, <3>1 DEF Prepares, GoesOn
    <3>2. CASE Builds(g, h)
      BY <1>3, <3>2 DEF Builds, GoesOn
    <3>3. CASE ~Prepares(g, h) /\ ~Builds(g, h)
      BY <1>3, <1>6, <3>3 DEF NodeEffect, GoesOn, Commits, MeetsBlocker,
         Recovers, Packages, Finishes
    <3> QED
      BY <3>1, <3>2, <3>3
  <2> QED
    BY <2>1 DEF BlameInv
<1> QED
  BY <1>4, <1>5, <1>6

LEMMA NodeLength ==
  ASSUME NEW g \in States, NEW h \in States, NodeEffect(g, h), LengthInv(g)
  PROVE  LengthInv(h)
<1>1. /\ Len(g.trace) \in Nat
      /\ Len(h.trace) = Len(g.trace) + 1
  <2>1. g.trace \in Seq(Steps)
    BY DEF States
  <2> QED
    BY <2>1, EffectAppends, AppendedStep
<1>2. ASSUME NEW m \in Nat, NEW k \in Nat,
             NodesBefore(g.pc, g.recovered) = m,
             NodesBefore(h.pc, h.recovered) = k, m + 1 <= k
      PROVE  LengthInv(h)
  BY <1>1, <1>2 DEF LengthInv
<1>3. CASE Prepares(g, h)
  BY <1>1, <1>3 DEF Prepares, GoesOn, Runs, LengthInv, NodesBefore
<1>4. CASE Builds(g, h)
  BY <1>1, <1>4 DEF Builds, GoesOn, Runs, LengthInv, NodesBefore
<1>5. CASE \E n \in Stopping : Stops(g, h, n)
  BY <1>1, <1>5 DEF Stopping, Stops, Runs, LengthInv, NodesBefore
<1>6. CASE ~Prepares(g, h) /\ ~Builds(g, h) /\ ~\E n \in Stopping : Stops(g, h, n)
  BY <1>1, <1>6 DEF NodeEffect, GoesOn, Commits, MeetsBlocker, Recovers,
     Packages, Finishes, GivesUp, Runs, LengthInv, NodesBefore, MostNodes
<1> QED
  BY <1>3, <1>4, <1>5, <1>6

LEMMA ToComeTable ==
  /\ ToCome["receive_idea"] = Phases
  /\ ToCome["exchange_github_code"] = ResearchPhases
  /\ ToCome["retrieve_context"] = ResearchPhases
  /\ ToCome["scope_mvp"] = ScopePhases
  /\ ToCome["recommend_stack"] = StackPhases
  /\ ToCome["plan_repo"] = DesignPhases
  /\ ToCome["create_repo"] = FilePhases
  /\ ToCome["generate_files"] = FilePhases
  /\ ToCome["validate_mvp"] = TestPhases
  /\ ToCome["debug_generated_files"] = CheckPhases
  /\ ToCome["commit_progress"] = CheckPhases
  /\ ToCome["verify_build"] = CheckPhases
  /\ ToCome["handle_blocker"] = CheckPhases
  /\ ToCome["generate_final_package"] = PackagePhases
  /\ ToCome["remember_outcome"] = {}
  /\ ToCome["report_result"] = {}
  /\ ToCome["failed"] = Phases
  /\ ToCome["END"] = Phases
BY DEF ToCome, Nodes

(* A node that completes the phases that come no more keeps the timeline.  *)
LEMMA MarksTimeline ==
  ASSUME NEW g, NEW h, NEW S, TimelineInv(g), Marks(g, h, S, "completed"),
         h.status # "completed",
         ToCome[g.pc] \ {Export} \subseteq ToCome[h.pc] \cup S,
         h.pc \in AfterCommit => g.pc \in AfterCommit /\ Export \notin S
  PROVE  TimelineInv(h)
<1>1. Export \in Phases
  BY DEF Export, Phases
<1> QED
  BY <1>1 DEF TimelineInv, Marks

LEMMA NodeTimeline ==
  ASSUME NEW g \in States, NEW h \in States, NodeEffect(g, h), TimelineInv(g),
         g.status # "completed"
  PROVE  TimelineInv(h)
<1> USE ToComeTable
<1> DEFINE Quiet(n, next, S) ==
             /\ GoesOn(g, h, n, next, S)
             /\ ToCome[n] \ {Export} \subseteq ToCome[next] \cup S
             /\ next \in AfterCommit => n \in AfterCommit /\ Export \notin S
<1>1. ASSUME NEW n, NEW next, NEW S, Quiet(n, next, S) PROVE TimelineInv(h)
  BY <1>1, MarksTimeline DEF GoesOn, Runs
<1> HIDE ToComeTable DEF Quiet
<1>2. CASE Prepares(g, h)
  <2> USE DEF Quiet, AfterCommit, AfterVerification, Export
  <2>1. ASSUME GoesOn(g, h, "receive_idea", "exchange_github_code", {"idea_intake"})
        PROVE  Quiet("receive_idea", "exchange_github_code", {"idea_intake"})
    BY <2>1, ToComeTable DEF Phases, ResearchPhases, ScopePhases, StackPhases,
       DesignPhases, FilePhases, TestPhases, CheckPhases, PackagePhases
  <2>2. ASSUME GoesOn(g, h, "exchange_github_code", "retrieve_context", {})
        PROVE  Quiet("exchange_github_code", "retrieve_context", {})
    BY <2>2, ToComeTable
  <2>3. ASSUME NEW S, S = {"domain_research", "reference_url_analysis"},
               GoesOn(g, h, "retrieve_context", "scope_mvp", S)
        PROVE  Quiet("retrieve_context", "scope_mvp", S)
    BY <2>3, ToComeTable DEF ResearchPhases
  <2>4. ASSUME NEW S, S = {"requirement_expansion", "user_goal_interpretation",
                           "feature_system_design"},
               GoesOn(g, h, "scope_mvp", "recommend_stack", S)
        PROVE  Quiet("scope_mvp", "recommend_stack", S)
    BY <2>4, ToComeTable DEF ScopePhases
  <2>5. ASSUME GoesOn(g, h, "recommend_stack", "plan_repo",
                      {"tech_stack_recommendation"})
        PROVE  Quiet("recommend_stack", "plan_repo",
                     {"tech_stack_recommendation"})
    BY <2>5, ToComeTable DEF StackPhases
  <2>6. ASSUME NEW S,
               S = {"data_model_design", "api_design", "frontend_architecture",
                    "backend_architecture", "auth_authorization_design",
                    "database_schema_planning"},
               GoesOn(g, h, "plan_repo", "create_repo", S)
        PROVE  Quiet("plan_repo", "create_repo", S)
    BY <2>6, ToComeTable DEF DesignPhases
  <2> HIDE DEF Quiet, AfterCommit, AfterVerification, Export
  <2> QED
    BY <1>1, <1>2, <2>1, <2>2, <2>3, <2>4, <2>5, <2>6 DEF Prepares
<1>3. CASE Builds(g, h)
  <2> USE DEF Quiet, AfterCommit, AfterVerification, Export
  <2>1. ASSUME GoesOn(g, h, "create_repo", "generate_files", {Export})
        PROVE  Quiet("create_repo", "generate_files", {Export})
    BY <2>1, ToComeTable
  <2>2. ASSUME NEW S, S = {"file_tree_generation", "code_implementation",
                           "documentation_generation"},
               GoesOn(g, h, "generate_files", "validate_mvp", S)
        PROVE  Quiet("generate_files", "validate_mvp", S)
    BY <2>2, ToComeTable DEF FilePhases
  <2>3. ASSUME GoesOn(g, h, "validate_mvp", "debug_generated_files",
                      {"testing_strategy"})
        PROVE  Quiet("validate_mvp", "debug_generated_files",
                     {"testing_strategy"})
    BY <2>3, ToComeTable DEF TestPhases
  <2>4. ASSUME GoesOn(g, h, "debug_generated_files", "commit_progress", {})
        PROVE  Quiet("debug_generated_files", "commit_progress", {})
    BY <2>4, ToComeTable
  <2> HIDE DEF Quiet, AfterCommit, AfterVerification, Export
  <2> QED
    BY <1>1, <1>3, <2>1, <2>2, <2>3, <2>4 DEF Builds
<1>4. CASE \/ GoesOn(g, h, "verify_build", "generate_final_package",
                     {"build_test_validation"})
           \/ GoesOn(g, h, "remember_outcome", "report_result", {})
  <2> USE DEF Quiet, AfterCommit, AfterVerification, Export
  <2>1. ASSUME GoesOn(g, h, "verify_build", "generate_final_package",
                      {"build_test_validation"})
        PROVE  Quiet("verify_build", "generate_final_package",
                     {"build_test_validation"})
    BY <2>1, ToComeTable DEF CheckPhases
  <2>2. ASSUME GoesOn(g, h, "remember_outcome", "report_result", {})
        PROVE  Quiet("remember_outcome", "report_result", {})
    BY <2>2, ToComeTable
  <2> HIDE DEF Quiet, AfterCommit, AfterVerification, Export
  <2> QED
    BY <1>1, <1>4, <2>1, <2>2
<1>5. CASE Commits(g, h)
  <2>1. /\ g.pc = "commit_progress"
        /\ h.pc = "verify_build"
        /\ h.status # "completed"
        /\ \A p \in Phases : h.timeline[p] = IF p = Export THEN "running"
                                                           ELSE g.timeline[p]
    BY <1>5 DEF Commits, Runs, Marks
  <2>2. ToCome[h.pc] = ToCome[g.pc]
    BY <2>1, ToComeTable
  <2> QED
    BY <2>1, <2>2 DEF TimelineInv, Export, Phases
<1>6. CASE MeetsBlocker(g, h)
  <2>1. /\ g.pc = "verify_build"
        /\ h.pc = "handle_blocker"
        /\ h.status # "completed"
        /\ \A p \in Phases : h.timeline[p] =
             IF p = "build_test_validation" THEN "failed" ELSE g.timeline[p]
    BY <1>6 DEF MeetsBlocker, Runs, Marks
  <2>2. ToCome[h.pc] = CheckPhases /\ ToCome[g.pc] = CheckPhases
    BY <2>1, ToComeTable
  <2>3. "build_test_validation" \in CheckPhases /\ Export \in Phases
    BY DEF CheckPhases, Phases, Export
  <2> QED
    BY <2>1, <2>2, <2>3 DEF TimelineInv, Export, AfterCommit
<1>7. CASE Recovers(g, h)
  <2>1. /\ g.pc = "handle_blocker"
        /\ h.pc = "verify_build"
        /\ h.status # "completed"
        /\ Marks(g, h, {}, "completed")
    BY <1>7 DEF Recovers, Runs
  <2> QED
    BY <2>1, ToComeTable, MarksTimeline DEF AfterCommit
<1>8. CASE Packages(g, h)
  <2>1. /\ g.pc = "generate_final_package"
        /\ h.pc = "remember_outcome"
        /\ h.status # "completed"
        /\ Marks(g, h, {"deployment_instructions", "documentation_generation",
                        "final_project_report"}, "completed")
    BY <1>8 DEF Packages, Runs
  <2> QED
    BY <2>1, ToComeTable, MarksTimeline
    DEF AfterCommit, AfterVerification, PackagePhases, Export
<1>9. CASE Finishes(g, h)
  <2>1. /\ g.pc = "report_result"
        /\ \A p \in Phases : h.timeline[p] = g.timeline[p]
    BY <1>9 DEF Finishes, Runs, Marks
  <2>2. ToCome[g.pc] = {} /\ g.pc \in AfterCommit /\ Export \in Phases
    BY <2>1, ToComeTable DEF AfterCommit, AfterVerification, Export, Phases
  <2> QED
    BY <2>1, <2>2 DEF TimelineInv
<1>10. CASE GivesUp(g, h) \/ \E n \in Stopping : Stops(g, h, n)
  <2>1. h.pc \in {"failed", "END"} /\ h.status # "completed"
    BY <1>10 DEF GivesUp, Stops
  <2> QED
    BY <2>1, ToComeTable DEF TimelineInv, AfterCommit, AfterVerification
<1> QED
  BY <1>2, <1>3, <1>4, <1>5, <1>6, <1>7, <1>8, <1>9, <1>10 DEF NodeEffect

LEMMA NodeRunInv ==
  ASSUME NEW g \in States, NEW h \in States, NodeEffect(g, h), RunInv(g),
         g.status # "completed"
  PROVE  RunInv(h)
BY NodeBlame, NodeLength, NodeTimeline DEF RunInv

(* No node blames an exception: that is left to the failure handler. *)
LEMMA NodeReport ==
  ASSUME NEW g \in States, NEW h \in States, NodeEffect(g, h),
         g.report.blame # "exception"
  PROVE  h.report.blame # "exception"
<1>1. FailureReason(g) # "exception"
  BY DEF FailureReason, States, ToolResults, Nodes, None
<1>2. CASE Prepares(g, h)
  BY <1>2 DEF Prepares, GoesOn
<1>3. CASE Builds(g, h)
  BY <1>3 DEF Builds, GoesOn
<1>4. CASE ~Prepares(g, h) /\ ~Builds(g, h)
  BY <1>1, <1>4 DEF NodeEffect, GoesOn, Commits, MeetsBlocker, Recovers,
     Packages, Finishes, GivesUp, Stops, None
<1> QED
  BY <1>2, <1>3, <1>4

-----------------------------------------------------------------------------
(* The whole system *)

LEMMA InitLifecycle == Init => LifecycleInv
<1> SUFFICES ASSUME Init, NEW t \in Tasks
             PROVE  /\ RunInv(graph[t])
                    /\ ShownInv(run[t], graph[t], store[t], held[t])
  BY DEF LifecycleInv
<1>1. /\ run[t] = "idle"
      /\ graph[t] = InitialState
      /\ store[t] = NoTask
  BY DEF Init
<1>2. /\ graph[t].pc = "receive_idea"
      /\ graph[t].status = "started"
      /\ graph[t].report = NoReport
      /\ Len(graph[t].trace) = 0
      /\ store[t].steps = <<>>
      /\ store[t].status = "absent"
      /\ store[t].report = NoReport
  BY <1>1 DEF InitialState, NoTask
<1>3. NoReport.status = None /\ NoReport.blame = None
  BY DEF NoReport
<1>4. BlameInv(graph[t])
  BY <1>2, <1>3 DEF BlameInv, None
<1>5. TimelineInv(graph[t])
  BY <1>2, ToComeTable DEF TimelineInv, AfterCommit, AfterVerification
<1>6. LengthInv(graph[t])
  BY <1>2 DEF LengthInv, NodesBefore
<1>7. ShownInv(run[t], graph[t], store[t], held[t])
  BY <1>1, <1>2, <1>3
  DEF ShownInv, HistoryInv, StatusInv, ReportInv, ShownTimelineInv, None
<1> QED
  BY <1>4, <1>5, <1>6, <1>7 DEF RunInv

(* A node changes what is shown of no task. *)
LEMMA NodeStepLifecycle ==
  ASSUME TypeInv, TypeInv', DeliveryInv, LifecycleInv, NEW t \in Tasks,
         RunNode(t)
  PROVE  LifecycleInv'
<1> SUFFICES ASSUME NEW u \in Tasks
             PROVE  /\ RunInv(graph'[u])
                    /\ ShownInv(run'[u], graph'[u], store'[u], held'[u])
  BY DEF LifecycleInv
<1>1. RunInv(graph[u]) /\ ShownInv(run[u], graph[u], store[u], held[u])
  BY DEF LifecycleInv
<1>2. /\ run[t] = "node"
      /\ run'[t] \in {"append", "snapshot"}
      /\ store' = store /\ held' = held
      /\ u # t => graph'[u] = graph[u] /\ run'[u] = run[u]
  BY NodeFrame DEF TypeInv
<1>3. CASE u # t
  BY <1>1, <1>2, <1>3
<1>4. CASE u = t
  <2> DEFINE g == graph[t]
             h == graph'[t]
  <2>1. g \in States /\ h \in States
    BY DEF TypeInv, TypeOK
  <2>2. NodeEffect(g, h)
    BY NodeEffects DEF TypeInv, DeliveryInv
  <2>3. g.status # "completed"
    <3>1. g.pc \in Nodes
      BY <2>1, <2>2, EffectAppends
    <3> QED
      BY <3>1 DEF DeliveryInv, StateInv, Decided, Nodes
  <2> HIDE DEF g, h
  <2>4. RunInv(h)
    BY <1>1, <1>4, <2>1, <2>2, <2>3, NodeRunInv DEF g
  <2>5. OneStepMore(h.trace, g.trace)
    BY <2>1, <2>2, EffectAppends DEF OneStepMore
  <2>6. store[t].steps = g.trace /\ g.report.blame # "exception"
    BY <1>1, <1>2, <1>4 DEF ShownInv, HistoryInv, g
  <2>7. h.report.blame # "exception"
    BY <2>1, <2>2, <2>6, NodeReport
  <2>8. HistoryInv(run'[t], h, store[t], held[t])
    BY <1>1, <1>2, <1>4, <2>5, <2>6, <2>7 DEF ShownInv, HistoryInv
  <2>9. /\ StatusInv(run'[t], store[t])
        /\ ReportInv(run'[t], h, store[t])
        /\ ShownTimelineInv(run'[t], h, store[t])
    BY <1>1, <1>2, <1>4 DEF ShownInv, StatusInv, ReportInv, ShownTimelineInv
  <2> QED
    BY <1>2, <1>4, <2>4, <2>8, <2>9 DEF ShownInv, h
<1> QED
  BY <1>3, <1>4

LEMMA ServiceFrame ==
  ASSUME TypeOK, DeliveryInv, NEW t \in Tasks,
         \/ Submit(t) \/ RunTaskWorkflow(t) \/ AppendAgentSteps(t)
         \/ SnapshotTask(t) \/ Raise(t) \/ SnapshotFailure(t) \/ PollTask(t)
  PROVE  /\ UNCHANGED <<settings, graph, github>>
         /\ \A u \in Tasks \ {t} : /\ run'[u] = run[u]
                                   /\ store'[u] = store[u]
                                   /\ held'[u] = held[u]
<1>1. UNCHANGED <<settings, github>>
  BY DEF Submit, RunTaskWorkflow, AppendAgentSteps, SnapshotTask, Raise,
     SnapshotFailure, PollTask
<1>2. UNCHANGED graph
  <2>1. CASE RunTaskWorkflow(t)
    <3>1. graph[t] = InitialState
      BY <2>1 DEF RunTaskWorkflow, DeliveryInv, StoreInv
    <3> QED
      BY <2>1, <3>1 DEF RunTaskWorkflow, TypeOK
  <2>2. CASE ~RunTaskWorkflow(t)
    BY <2>2 DEF Submit, AppendAgentSteps, SnapshotTask, Raise, SnapshotFailure,
       PollTask
  <2> QED
    BY <2>1, <2>2
<1>3. \A u \in Tasks \ {t} : /\ run'[u] = run[u]
                             /\ store'[u] = store[u]
                             /\ held'[u] = held[u]
  BY DEF Submit, RunTaskWorkflow, AppendAgentSteps, SnapshotTask, Raise,
     SnapshotFailure, PollTask, TypeOK
<1> QED
  BY <1>1, <1>2, <1>3

(* The live callback shows the last step of a trace that is one step ahead.*)
LEMMA LastOfOneMore ==
  ASSUME NEW s \in Seq(Steps), NEW u, OneStepMore(u, s)
  PROVE  u = Append(s, u[Len(u)])
<1>1. PICK step \in Steps : u = Append(s, step)
  BY DEF OneStepMore
<1>2. Len(u) = Len(s) + 1 /\ u[Len(s) + 1] = step
  BY <1>1, AppendedStep
<1> QED
  BY <1>1, <1>2

LEMMA ServiceStepLifecycle ==
  ASSUME TypeInv, DeliveryInv, LifecycleInv, NEW t \in Tasks,
         \/ Submit(t) \/ RunTaskWorkflow(t) \/ AppendAgentSteps(t)
         \/ SnapshotTask(t) \/ Raise(t) \/ SnapshotFailure(t) \/ PollTask(t)
  PROVE  LifecycleInv'
<1>0. TypeOK
  BY DEF TypeInv
<1> DEFINE g == graph[t]
           d == store[t]
<1>1. /\ UNCHANGED graph
      /\ \A u \in Tasks \ {t} : /\ run'[u] = run[u]
                                /\ store'[u] = store[u]
                                /\ held'[u] = held[u]
  BY <1>0, ServiceFrame
<1> SUFFICES ShownInv(run'[t], g, store'[t], held'[t])
  BY <1>1 DEF LifecycleInv
<1>2. /\ HistoryInv(run[t], g, d, held[t])
      /\ StatusInv(run[t], d)
      /\ ReportInv(run[t], g, d)
      /\ ShownTimelineInv(run[t], g, d)
      /\ RunInv(g)
      /\ StoreInv(run[t], g, d)
      /\ Decided(g, github[t])
  BY DEF LifecycleInv, ShownInv, DeliveryInv, StateInv
<1>3. g \in States /\ d \in Details
  BY <1>0 DEF TypeOK
<1> HIDE DEF g, d
<1> USE DEF HistoryInv, StatusInv, ReportInv, ShownTimelineInv
<1>4. CASE Submit(t)
  <2>1. /\ run[t] = "idle" /\ run'[t] = "queued"
        /\ store'[t] = [d EXCEPT !.status = "started"]
        /\ held'[t] = held[t]
    BY <1>0, <1>4 DEF Submit, TypeOK, d
  <2>2. g = InitialState
    BY <1>2, <2>1 DEF StoreInv
  <2>3. /\ store'[t].steps = d.steps
        /\ store'[t].report = d.report
        /\ store'[t].status = "started"
    BY <1>3, <2>1 DEF Details
  <2> QED
    BY <1>2, <2>1, <2>3 DEF ShownInv
<1>5. CASE RunTaskWorkflow(t)
  <2>1. /\ run[t] = "queued" /\ run'[t] = "snapshot"
        /\ store'[t] = d
        /\ held'[t] = held[t]
    BY <1>0, <1>5 DEF RunTaskWorkflow, TypeOK, d
  <2>2. g.trace = <<>>
    BY <1>2, <2>1 DEF StoreInv, InitialState
  <2> QED
    BY <1>2, <2>1, <2>2 DEF ShownInv
<1>6. CASE AppendAgentSteps(t)
  <2>1. /\ run[t] = "append" /\ run'[t] = "snapshot"
        /\ store'[t] = [d EXCEPT !.steps = Append(@, g.trace[Len(g.trace)])]
        /\ held'[t] = held[t]
    BY <1>0, <1>6 DEF AppendAgentSteps, TypeOK, d, g
  <2>2. /\ store'[t].steps = Append(d.steps, g.trace[Len(g.trace)])
        /\ store'[t].report = d.report
        /\ store'[t].status = d.status
        /\ store'[t].timeline = d.timeline
    BY <1>3, <2>1 DEF Details
  <2>3. store'[t].steps = g.trace
    <3>1. d.steps \in Seq(Steps)
      BY <1>3 DEF Details
    <3>2. OneStepMore(g.trace, d.steps)
      BY <1>2, <2>1
    <3> QED
      BY <2>2, <3>1, <3>2, LastOfOneMore
  <2> QED
    BY <1>2, <2>1, <2>2, <2>3 DEF ShownInv
<1>7. CASE SnapshotTask(t)
  <2>1. /\ run[t] = "snapshot"
        /\ run'[t] = IF g.pc = "END" THEN "done" ELSE "node"
        /\ store'[t] = Detail(d, g)
        /\ held'[t] = held[t]
    BY <1>0, <1>7 DEF SnapshotTask, TypeOK, d, g
  <2>2. /\ store'[t].steps = g.trace
        /\ store'[t].report = g.report
        /\ store'[t].status = g.status
        /\ store'[t].timeline = g.timeline
    BY <2>1 DEF Detail
  <2>3. g.status # "absent"
    BY <1>3 DEF States, TaskStatuses
  <2>4. g.status = "completed" => g.pc = "END"
    BY <1>2 DEF Decided
  <2>5. g.report.status = "failed" => g.pc = "END"
    BY <1>2 DEF RunInv, BlameInv
  <2> QED
    BY <1>2, <2>1, <2>2, <2>3, <2>4, <2>5 DEF ShownInv
<1>8. CASE Raise(t)
  <2>1. /\ run[t] = "node" /\ run'[t] = "caught"
        /\ store'[t] = d
        /\ held'[t] = d.steps
    BY <1>0, <1>8 DEF Raise, TypeOK, d
  <2> QED
    BY <1>2, <2>1 DEF ShownInv
<1>9. CASE SnapshotFailure(t)
  <2>1. /\ run[t] = "caught" /\ run'[t] = "done"
        /\ store'[t] = UnexpectedFailure(d, held[t])
        /\ held'[t] = held[t]
    BY <1>0, <1>9 DEF SnapshotFailure, TypeOK, d
  <2>2. /\ store'[t].steps = Append(held[t], FailedStep)
        /\ store'[t].report = [status |-> "failed", blame |-> "exception"]
        /\ store'[t].status = "failed"
    BY <1>3, <2>1 DEF UnexpectedFailure, FailedStep, Details
  <2> QED
    BY <1>2, <2>1, <2>2 DEF ShownInv
<1>10. CASE PollTask(t)
  <2>1. run'[t] = run[t] /\ store'[t] = d /\ held'[t] = held[t]
    BY <1>0, <1>10 DEF PollTask, TypeOK, d
  <2> QED
    BY <1>2, <2>1 DEF ShownInv
<1> QED
  BY <1>4, <1>5, <1>6, <1>7, <1>8, <1>9, <1>10

(* The strengthening is inductive, given the types and what is known of    *)
(* the delivery.                                                           *)
THEOREM LifecycleInvariant == Spec => []LifecycleInv
<1>1. Init => LifecycleInv
  BY InitLifecycle
<1>2. TypeInv /\ TypeInv' /\ DeliveryInv /\ LifecycleInv /\ [Next]_vars =>
        LifecycleInv'
  <2> SUFFICES ASSUME TypeInv, TypeInv', DeliveryInv, LifecycleInv, [Next]_vars
               PROVE  LifecycleInv'
    OBVIOUS
  <2>1. CASE UNCHANGED vars
    BY <2>1 DEF vars, LifecycleInv
  <2>2. ASSUME NEW t \in Tasks, RunNode(t) PROVE LifecycleInv'
    BY <2>2, NodeStepLifecycle
  <2>3. ASSUME NEW t \in Tasks,
               \/ Submit(t) \/ RunTaskWorkflow(t) \/ AppendAgentSteps(t)
               \/ SnapshotTask(t) \/ Raise(t) \/ SnapshotFailure(t)
               \/ PollTask(t)
        PROVE  LifecycleInv'
    BY <2>3, ServiceStepLifecycle
  <2> QED
    BY <2>1, <2>2, <2>3 DEF Next, Job
<1> QED
  BY <1>1, <1>2, TypeInvariant, DeliveryInvariant, PTL DEF Spec

-----------------------------------------------------------------------------
(* What it gives *)

LEMMA PrefixOfItself ==
  ASSUME NEW u \in Seq(Steps)
  PROVE  IsPrefixOf(u, u) /\ Len(u) <= Len(u) + 1
BY DEF IsPrefixOf

LEMMA PrefixOfOneMore ==
  ASSUME NEW s \in Seq(Steps), NEW u, OneStepMore(u, s)
  PROVE  IsPrefixOf(s, u) /\ Len(u) <= Len(s) + 1
<1>1. PICK step \in Steps : u = Append(s, step)
  BY DEF OneStepMore
<1>2. /\ Len(s) \in Nat
      /\ Len(u) = Len(s) + 1
      /\ \A i \in 1..Len(s) : u[i] = s[i]
  BY <1>1, AppendedStep
<1> QED
  BY <1>2 DEF IsPrefixOf

(* For any number of tasks and any interleaving of their jobs: the history *)
(* the API shows is the trace of the run, at most one step behind, with no *)
(* step twice and none missing, and after an unexpected exception the whole*)
(* trace and the step that says so.                                        *)
THEOREM HistoryIsTheTrace == Spec => []ShownStepsAreTheTrace
<1>1. TypeOK /\ DeliveryInv /\ LifecycleInv => ShownStepsAreTheTrace
  <2> SUFFICES ASSUME TypeOK, DeliveryInv, LifecycleInv, NEW t \in Tasks
               PROVE  LET shown == store[t].steps
                          trace == graph[t].trace
                      IN  IF store[t].report.blame = "exception"
                          THEN shown = Append(trace, Step("failed", "failed"))
                          ELSE /\ IsPrefixOf(shown, trace)
                               /\ Len(trace) <= Len(shown) + 1
                               /\ run[t] \in {"node", "caught", "done"} =>
                                    shown = trace
    BY DEF ShownStepsAreTheTrace
  <2>1. /\ HistoryInv(run[t], graph[t], store[t], held[t])
        /\ RunInv(graph[t])
        /\ run[t] \in RunPhases
        /\ graph[t].trace \in Seq(Steps)
        /\ store[t].steps \in Seq(Steps)
    BY DEF LifecycleInv, ShownInv, TypeOK, States, Details
  <2>2. CASE store[t].report.blame = "exception"
    BY <2>1, <2>2 DEF HistoryInv, FailedStep
  <2>3. CASE /\ store[t].report.blame # "exception"
             /\ run[t] \notin {"idle", "queued"}
    <3>1. \/ store[t].steps = graph[t].trace
          \/ /\ OneStepMore(graph[t].trace, store[t].steps)
             /\ run[t] \notin {"node", "caught", "done"}
      BY <2>1, <2>3 DEF HistoryInv, RunPhases
    <3> QED
      BY <2>1, <2>3, <3>1, PrefixOfItself, PrefixOfOneMore
  <2>4. CASE /\ store[t].report.blame # "exception"
             /\ run[t] \in {"idle", "queued"}
    <3>1. store[t].steps = <<>>
      BY <2>1, <2>4 DEF HistoryInv
    <3>2. graph[t].trace = <<>>
      BY <2>4 DEF DeliveryInv, StoreInv, InitialState
    <3> QED
      BY <2>1, <2>4, <3>1, <3>2, PrefixOfItself
  <2> QED
    BY <2>2, <2>3, <2>4
<1> QED
  BY <1>1, TypeCorrect, DeliveryInvariant, LifecycleInvariant, PTL

(* The report of a failed task blames the node that ran before "failed",   *)
(* for each of the five nodes that can stop a run and whatever an earlier  *)
(* node left in the state.                                                 *)
THEOREM CulpritIsBlamed == Spec => []ReportBlamesTheCulprit
<1>1. LifecycleInv => ReportBlamesTheCulprit
  <2> SUFFICES ASSUME LifecycleInv, NEW t \in Tasks,
                      store[t].report.status = "failed",
                      store[t].report.blame # "exception"
               PROVE  /\ Len(store[t].steps) > 1
                      /\ store[t].steps[Len(store[t].steps)].node = "failed"
                      /\ store[t].steps[Len(store[t].steps) - 1].node
                           = store[t].report.blame
    BY DEF ReportBlamesTheCulprit
  <2>1. /\ run[t] = "done"
        /\ store[t].report = graph[t].report
        /\ store[t].steps = graph[t].trace
    BY DEF LifecycleInv, ShownInv, ReportInv, HistoryInv
  <2> QED
    BY <2>1 DEF LifecycleInv, RunInv, BlameInv
<1> QED
  BY <1>1, LifecycleInvariant, PTL

(* A task shown completed shows every phase completed, save the export that*)
(* commit_progress put back to running: no node undoes or skips the update *)
(* of another.                                                             *)
THEOREM TimelineIsFull == Spec => []CompletedTimelineIsFull
<1>1. DeliveryInv /\ LifecycleInv => CompletedTimelineIsFull
  <2> SUFFICES ASSUME DeliveryInv, LifecycleInv, NEW t \in Tasks,
                      store[t].status = "completed", NEW p \in Phases
               PROVE  store[t].timeline[p] =
                        IF p = Export THEN "running" ELSE "completed"
    BY DEF CompletedTimelineIsFull, Export
  <2>1. store[t].timeline = graph[t].timeline
    BY DEF LifecycleInv, ShownInv, ShownTimelineInv
  <2>2. graph[t].status = "completed"
    BY DEF DeliveryInv, StoreInv
  <2> QED
    BY <2>1, <2>2 DEF LifecycleInv, RunInv, TimelineInv
<1> QED
  BY <1>1, DeliveryInvariant, LifecycleInvariant, PTL

(* No run needs more than 17 nodes, with the one way back the mock blocker *)
(* takes: any recursion limit of at least that many, such as LangGraph's   *)
(* own 25, never stops a run.                                              *)
THEOREM RunsFit ==
  ASSUME RecursionLimit >= MostNodes
  PROVE  Spec => []RunFitsRecursionLimit
<1>1. TypeOK /\ LifecycleInv => RunFitsRecursionLimit
  <2> SUFFICES ASSUME TypeOK, LifecycleInv, NEW t \in Tasks, run[t] = "node"
               PROVE  Len(graph[t].trace) < RecursionLimit
    BY DEF RunFitsRecursionLimit
  <2>1. Len(graph[t].trace) <= NodesBefore(graph[t].pc, graph[t].recovered)
    BY DEF LifecycleInv, RunInv, LengthInv
  <2>2. graph[t].pc \in Nodes
    BY DEF LifecycleInv, ShownInv, HistoryInv, TypeOK, States
  <2>3. NodesBefore(graph[t].pc, graph[t].recovered) \in 0..16
    BY <2>2 DEF NodesBefore, Nodes
  <2>4. Len(graph[t].trace) \in Nat
    BY DEF TypeOK, States
  <2> QED
    BY <2>1, <2>3, <2>4, RecursionLimitAssumption DEF MostNodes
<1> QED
  BY <1>1, TypeCorrect, LifecycleInvariant, PTL

-----------------------------------------------------------------------------
(* Workflow implements TaskLifecycle *)

LEMMA ExtendsItself ==
  ASSUME NEW s \in Seq(Steps)
  PROVE  L!Extends(s, s)
BY DEF L!Extends

LEMMA ExtendsByOne ==
  ASSUME NEW s \in Seq(Steps), NEW step \in Steps
  PROVE  L!Extends(Append(s, step), s)
<1>1. /\ Len(s) \in Nat
      /\ Len(Append(s, step)) = Len(s) + 1
  OBVIOUS
<1>2. SubSeq(Append(s, step), 1, Len(s)) = s
  OBVIOUS
<1> QED
  BY <1>1, <1>2 DEF L!Extends

(* What the mapping shows of a step that leaves the settings, the states   *)
(* and GitHub alone.                                                       *)
LEMMA DeliveredUnchanged ==
  ASSUME UNCHANGED <<settings, graph, github>>
  PROVE  [u \in Tasks |-> Delivered(u)]' = [u \in Tasks |-> Delivered(u)]
BY DEF Delivered, InspectedFilesOnGitHub

LEMMA StatusMap ==
  ASSUME NEW f, NEW g, NEW t \in Tasks, NEW s,
         \A u \in Tasks : g[u].status = IF u = t THEN s ELSE f[u].status
  PROVE  [u \in Tasks |-> g[u].status] =
           [[u \in Tasks |-> f[u].status] EXCEPT ![t] = s]
OBVIOUS

(* The service stores d for task t, after "started". *)
LEMMA StoringPublishes ==
  ASSUME TypeOK, NEW t \in Tasks, NEW d, store' = [store EXCEPT ![t] = d],
         UNCHANGED <<settings, graph, github>>,
         store[t].status = "started",
         d.status \in {"started", "completed", "failed"},
         d.status = "completed" => Delivered(t),
         L!Extends(d.steps, store[t].steps)
  PROVE  L!Next
<1>1. store'[t] = d /\ \A u \in Tasks \ {t} : store'[u] = store[u]
  BY DEF TypeOK
<1>2. d.status = "completed" => [u \in Tasks |-> Delivered(u)][t]
  <2> HIDE DEF Delivered
  <2> QED
    BY Zenon
<1>3. /\ [u \in Tasks |-> store[u].status]' =
           [[u \in Tasks |-> store[u].status] EXCEPT ![t] = d.status]
      /\ [u \in Tasks |-> store[u].steps]'[t] = d.steps
      /\ \A v \in Tasks \ {t} : [u \in Tasks |-> store[u].steps]'[v] =
                                [u \in Tasks |-> store[u].steps][v]
  <2>0. \A u \in Tasks :
          store'[u].status = IF u = t THEN d.status ELSE store[u].status
    BY <1>1
  <2>1. [u \in Tasks |-> store'[u].status] =
          [[u \in Tasks |-> store[u].status] EXCEPT ![t] = d.status]
    BY ONLY <2>0, StatusMap, t \in Tasks
  <2>2. \A v \in Tasks \ {t} : [u \in Tasks |-> store'[u].steps][v] =
                               [u \in Tasks |-> store[u].steps][v]
    BY <1>1
  <2>3. [u \in Tasks |-> store'[u].steps][t] = d.steps
    BY <1>1
  <2> QED
    BY <2>1, <2>2, <2>3
<1>4. L!Publish(t, d.status)
  BY <1>2, <1>3, DeliveredUnchanged DEF L!Publish
<1> QED
  BY <1>4 DEF L!Next

(* ... and after "failed". *)
LEMMA StoringExplains ==
  ASSUME TypeOK, NEW t \in Tasks, NEW d, store' = [store EXCEPT ![t] = d],
         UNCHANGED <<settings, graph, github>>,
         store[t].status = "failed", d.status = "failed",
         L!Extends(d.steps, store[t].steps)
  PROVE  L!Next
<1>1. store'[t] = d /\ \A u \in Tasks \ {t} : store'[u] = store[u]
  BY DEF TypeOK
<1>2. L!Explain(t)
  BY <1>1, DeliveredUnchanged DEF L!Explain
<1> QED
  BY <1>2 DEF L!Next

(* A node works unseen; the one that runs after its failure is shown does  *)
(* not touch what was delivered.                                           *)
LEMMA NodeWorks ==
  ASSUME TypeInv, DeliveryInv, LifecycleInv, NEW t \in Tasks, RunNode(t)
  PROVE  L!Next \/ UNCHANGED L!vars
<1>0. TypeOK
  BY DEF TypeInv
<1>1. /\ run[t] = "node"
      /\ graph[t].pc \in Nodes
      /\ UNCHANGED <<settings, store>>
      /\ \A u \in Tasks \ {t} : graph'[u] = graph[u] /\ github'[u] = github[u]
  BY <1>0, NodeFrame
<1>2. store[t].status \in {"started", "failed"}
  <2>1. /\ StatusInv(run[t], store[t])
        /\ store[t].status \in TaskStatuses \cup {"absent"}
    BY <1>0 DEF LifecycleInv, ShownInv, TypeOK, Details
  <2> QED
    BY <1>1, <2>1 DEF StatusInv, TaskStatuses
<1>3. ASSUME NEW u \in Tasks \ {t} PROVE Delivered(u)' = Delivered(u)
  BY <1>1, <1>3 DEF Delivered, InspectedFilesOnGitHub
<1>4. CASE store[t].status = "started"
  <2> DEFINE D == [u \in Tasks |-> Delivered(u)]
             E == [u \in Tasks |-> Delivered(u)']
  <2>1. Delivered(t)' \in BOOLEAN
    BY DEF Delivered
  <2>2. E = [D EXCEPT ![t] = Delivered(t)']
    <3> HIDE DEF Delivered
    <3>1. \A u \in Tasks \ {t} : E[u] = D[u]
      BY <1>3
    <3>2. E[t] = Delivered(t)'
      BY Zenon
    <3>3. E = [u \in Tasks |-> E[u]] /\ D = [u \in Tasks |-> D[u]]
      OBVIOUS
    <3> HIDE DEF D, E
    <3> QED
      BY <3>1, <3>2, <3>3
  <2>3. L!Work(t)
    BY <1>1, <1>4, <2>1, <2>2 DEF L!Work
  <2> QED
    BY <2>3 DEF L!Next
<1>5. CASE store[t].status = "failed"
  <2>1. graph[t].pc = "failed"
    BY <1>1, <1>5 DEF DeliveryInv, StateInv, StoreInv, Decided, Nodes
  <2>2. Failed(t)
    BY <2>1 DEF RunNode, ReceiveIdea, ExchangeGithubCode, RetrieveContext,
       ScopeMvp, RecommendStack, PlanRepo, CreateRepo, GenerateFiles,
       ValidateMvp, DebugGeneratedFiles, CommitProgress, VerifyBuild,
       HandleBlocker, GenerateFinalPackage, RememberOutcome, ReportResult,
       Enter
  <2>3. /\ graph'[t].validation = graph[t].validation
        /\ graph'[t].inspected = graph[t].inspected
        /\ github' = github
    BY <1>0, <2>2 DEF Failed, Leave, TypeOK, States
  <2>4. Delivered(t)' = Delivered(t)
    BY <1>1, <2>3 DEF Delivered, InspectedFilesOnGitHub
  <2>5. \A u \in Tasks : Delivered(u)' = Delivered(u)
    BY <1>3, <2>4
  <2>6. [u \in Tasks |-> Delivered(u)]' = [u \in Tasks |-> Delivered(u)]
    BY <2>5
  <2> QED
    BY <1>1, <2>6 DEF L!vars
<1> QED
  BY <1>2, <1>4, <1>5

LEMMA ServiceImplements ==
  ASSUME TypeInv, DeliveryInv, LifecycleInv, NEW t \in Tasks,
         \/ Submit(t) \/ RunTaskWorkflow(t) \/ AppendAgentSteps(t)
         \/ SnapshotTask(t) \/ Raise(t) \/ SnapshotFailure(t) \/ PollTask(t)
  PROVE  L!Next \/ UNCHANGED L!vars
<1> DEFINE g == graph[t]
           d == store[t]
<1>0. TypeOK
  BY DEF TypeInv
<1>1. UNCHANGED <<settings, graph, github>>
  BY <1>0, ServiceFrame
<1>2. /\ HistoryInv(run[t], g, d, held[t])
      /\ StatusInv(run[t], d)
      /\ StoreInv(run[t], g, d)
      /\ Decided(g, github[t])
  BY DEF LifecycleInv, ShownInv, DeliveryInv, StateInv
<1>3. g \in States /\ d \in Details /\ d.steps \in Seq(Steps)
  BY <1>0 DEF TypeOK, Details
(* After submission and before the end a task is shown started or failed. *)
<1>4. ASSUME run[t] \notin {"idle", "done"}
      PROVE  d.status \in {"started", "failed"}
  BY <1>2, <1>3, <1>4 DEF StatusInv, Details, TaskStatuses
<1> HIDE DEF g, d
<1>5. ASSUME NEW e, store' = [store EXCEPT ![t] = e],
             d.status \in {"started", "failed"},
             e.status \in TaskStatuses,
             e.status = "completed" => Delivered(t),
             d.status = "failed" => e.status = "failed",
             L!Extends(e.steps, d.steps)
      PROVE  L!Next
  BY <1>0, <1>1, <1>5, StoringPublishes, StoringExplains DEF d, TaskStatuses
<1>6. CASE Submit(t)
  <2>1. /\ run[t] = "idle"
        /\ store' = [store EXCEPT ![t].status = "started"]
    BY <1>6 DEF Submit
  <2>2. d.status = "absent"
    BY <1>2, <2>1 DEF StatusInv
  <2>3. /\ \A u \in Tasks : store'[u].status =
             IF u = t THEN "started" ELSE store[u].status
        /\ \A u \in Tasks : store'[u].steps = store[u].steps
    BY <1>0, <2>1 DEF TypeOK, Details
  <2>4. [u \in Tasks |-> store'[u].status] =
          [[u \in Tasks |-> store[u].status] EXCEPT ![t] = "started"]
    BY ONLY <2>3, StatusMap, t \in Tasks
  <2>5. [u \in Tasks |-> store'[u].steps] = [u \in Tasks |-> store[u].steps]
    BY ONLY <2>3
  <2>6. L!Accept(t)
    BY <1>1, <2>2, <2>4, <2>5, DeliveredUnchanged DEF L!Accept, d
  <2> QED
    BY <2>6 DEF L!Next
<1>7. CASE RunTaskWorkflow(t) \/ Raise(t) \/ PollTask(t)
  <2>1. UNCHANGED store
    BY <1>7 DEF RunTaskWorkflow, Raise, PollTask
  <2> QED
    BY <1>1, <2>1, DeliveredUnchanged DEF L!vars
<1>8. CASE AppendAgentSteps(t)
  <2> DEFINE last == g.trace[Len(g.trace)]
             e == [d EXCEPT !.steps = Append(@, last)]
  <2>1. run[t] = "append" /\ store' = [store EXCEPT ![t] = e]
    BY <1>0, <1>8 DEF AppendAgentSteps, TypeOK, d, g
  <2>2. last \in Steps
    <3>1. g.trace \in Seq(Steps) /\ Len(g.trace) > 0
      BY <1>3, <2>1 DEF TypeInv, CallbackHasStep, States, g
    <3> QED
      BY <3>1
  <2> HIDE DEF last
  <2>3. e.steps = Append(d.steps, last) /\ e.status = d.status
    BY <1>3 DEF Details
  <2> HIDE DEF e
  <2>4. L!Extends(e.steps, d.steps)
    BY <1>3, <2>2, <2>3, ExtendsByOne
  <2>5. d.status \in {"started", "failed"}
    BY <1>4, <2>1
  <2> QED
    BY <1>5, <2>1, <2>3, <2>4, <2>5 DEF TaskStatuses
<1>9. CASE SnapshotTask(t)
  <2> DEFINE e == Detail(d, g)
  <2>1. run[t] = "snapshot" /\ store' = [store EXCEPT ![t] = e]
    BY <1>0, <1>9 DEF SnapshotTask, TypeOK, d, g
  <2>2. e.steps = g.trace /\ e.status = g.status
    BY DEF Detail
  <2> HIDE DEF e
  <2>3. L!Extends(e.steps, d.steps)
    <3>1. CASE g.trace = d.steps
      BY <1>3, <2>2, <3>1, ExtendsItself
    <3>2. CASE OneStepMore(g.trace, d.steps)
      BY <1>3, <2>2, <3>2, ExtendsByOne DEF OneStepMore
    <3> QED
      BY <1>2, <2>1, <3>1, <3>2 DEF HistoryInv
  <2>4. d.status \in {"started", "failed"}
    BY <1>4, <2>1
  <2>5. d.status = "failed" => e.status = "failed"
    BY <1>2, <2>1, <2>2 DEF StoreInv
  <2>6. e.status = "completed" => Delivered(t)
    BY <1>2, <2>2 DEF Decided, Shipped, Delivered, InspectedFilesOnGitHub, g
  <2>7. e.status \in TaskStatuses
    BY <1>3, <2>2 DEF States
  <2> QED
    BY <1>5, <2>1, <2>3, <2>4, <2>5, <2>6, <2>7
<1>10. CASE SnapshotFailure(t)
  <2> DEFINE e == UnexpectedFailure(d, held[t])
  <2>1. run[t] = "caught" /\ store' = [store EXCEPT ![t] = e]
    BY <1>0, <1>10 DEF SnapshotFailure, TypeOK, d
  <2>2. e.steps = Append(held[t], FailedStep) /\ e.status = "failed"
    BY <1>3 DEF UnexpectedFailure, FailedStep, Details
  <2> HIDE DEF e
  <2>3. held[t] = d.steps
    BY <1>2, <2>1 DEF HistoryInv
  <2>4. FailedStep \in Steps
    BY StepType DEF FailedStep, Nodes, StepStatuses
  <2>5. L!Extends(e.steps, d.steps)
    BY <1>3, <2>2, <2>3, <2>4, ExtendsByOne
  <2>6. d.status \in {"started", "failed"}
    BY <1>4, <2>1
  <2> QED
    BY <1>5, <2>1, <2>2, <2>5, <2>6 DEF TaskStatuses
<1> QED
  BY <1>6, <1>7, <1>8, <1>9, <1>10

(* Whatever the nodes, the tools and the model do: the API accepts a task  *)
(* once, lets its history only grow, decides its status once, publishes    *)
(* after a failure nothing but its explanation, and says completed only of *)
(* what was delivered.                                                     *)
THEOREM Refinement == Spec => ImplementsLifecycle
<1>1. Init => L!Init
  <2> SUFFICES ASSUME Init PROVE L!Init
    OBVIOUS
  <2>1. \A t \in Tasks : store[t].status = "absent" /\ store[t].steps = <<>>
    BY DEF Init, NoTask
  <2>2. [t \in Tasks |-> Delivered(t)] \in [Tasks -> BOOLEAN]
    BY DEF Delivered
  <2> QED
    BY <2>1, <2>2 DEF L!Init
<1>2. TypeInv /\ DeliveryInv /\ LifecycleInv /\ [Next]_vars => [L!Next]_(L!vars)
  <2> SUFFICES ASSUME TypeInv, DeliveryInv, LifecycleInv, [Next]_vars
               PROVE  L!Next \/ UNCHANGED L!vars
    OBVIOUS
  <2>1. CASE UNCHANGED vars
    BY <2>1, DeliveredUnchanged DEF vars, L!vars
  <2>2. ASSUME NEW t \in Tasks, RunNode(t)
        PROVE  L!Next \/ UNCHANGED L!vars
    BY <2>2, NodeWorks
  <2>3. ASSUME NEW t \in Tasks,
               \/ Submit(t) \/ RunTaskWorkflow(t) \/ AppendAgentSteps(t)
               \/ SnapshotTask(t) \/ Raise(t) \/ SnapshotFailure(t)
               \/ PollTask(t)
        PROVE  L!Next \/ UNCHANGED L!vars
    BY <2>3, ServiceImplements
  <2> QED
    BY <2>1, <2>2, <2>3 DEF Next, Job
<1> QED
  BY <1>1, <1>2, TypeInvariant, DeliveryInvariant, LifecycleInvariant, PTL
  DEF Spec, ImplementsLifecycle, L!Spec
=============================================================================
