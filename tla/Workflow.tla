----------------------------- MODULE Workflow -----------------------------
(***************************************************************************)
(* One GemPilot task, end to end: the LangGraph graph of agent/workflow.py,*)
(* the background job of agent/service.py that drives it and publishes     *)
(* every state into the task store, the in-memory task store of            *)
(* agent/task_store.py, and the browser that polls it                      *)
(* (frontend/app/page.tsx).                                                *)
(*                                                                         *)
(* A node of the graph is one action.  It reads graph[t], the WorkflowState*)
(* of task t, and leaves an updated one with the step appended to the      *)
(* trace (the reducer of agent_steps/graph_trace) and pc set to the next   *)
(* node.  Between two nodes the service stores a snapshot: LangGraph's     *)
(* "values" stream hands over the state after a node and only then runs the*)
(* next one, so run[t] alternates "node" -> ["append" ->] "snapshot" ->    *)
(* "node".  The "append" phase exists for async nodes only, whose live     *)
(* progress callback really gets scheduled; in a sync node it runs in an   *)
(* executor thread, where asyncio.get_event_loop() raises and the error is *)
(* swallowed.                                                              *)
(*                                                                         *)
(* Abstracted: prompts, messages, decision traces, tool-call logs and the  *)
(* contents of files.  A file is a path and the pass that last wrote it.   *)
(* Two filters drop ".env" paths before a commit; Paths are the others.    *)
(*                                                                         *)
(* A definition that no other uses (RouteWithoutBlocker, DetailAppending..)*)
(* is what the one after it would be with a plausible bug: put in its      *)
(* place, it breaks the property README.md names.                          *)
(***************************************************************************)
EXTENDS Sequences, Naturals

CONSTANTS
  Tasks,           \* task ids
  Paths,           \* repository paths
  CodePaths,       \* those of source files, which the import repair may delete
  HealthPaths,     \* those the repository health check looks for
  ReportPath,      \* docs/DEBUG_REPORT.md
  AutoInitPath,    \* README.md, which GitHub writes into a new repository
  Configs,         \* the runtime settings considered, each [mock, partial]
  RecursionLimit   \* LangGraph's bound on the nodes of one run

ASSUME PathsAssumption ==
  /\ CodePaths \subseteq Paths
  /\ HealthPaths \subseteq Paths
  /\ ReportPath \in Paths
  /\ AutoInitPath \in HealthPaths

ASSUME ConfigsAssumption == Configs \subseteq [mock : BOOLEAN, partial : BOOLEAN]

ASSUME RecursionLimitAssumption == RecursionLimit \in Nat

VARIABLES
  settings,  \* mock_mode and allow_idea_aware_partial, fixed for the run
  run,       \* run[t]: where the background job of t is
  graph,     \* graph[t]: the WorkflowState of t, and the node to run next
  github,    \* github[t]: the repository t works on, as GitHub has it
  store,     \* store[t]: the TaskDetailResponse of t
  held,      \* held[t]: the steps the failure handler read from the store
  client     \* client[t]: the browser tab that launched t

vars == <<settings, run, graph, github, store, held, client>>

-----------------------------------------------------------------------------
(* Values *)

Nodes == {"receive_idea", "exchange_github_code", "retrieve_context",
          "scope_mvp", "recommend_stack", "plan_repo", "create_repo",
          "generate_files", "validate_mvp", "debug_generated_files",
          "commit_progress", "verify_build", "handle_blocker",
          "generate_final_package", "remember_outcome", "report_result",
          "failed"}

(* Nodes defined with "async def". *)
AsyncNodes == {"exchange_github_code", "retrieve_context", "scope_mvp",
               "recommend_stack", "plan_repo", "generate_files",
               "handle_blocker", "generate_final_package",
               "remember_outcome"}

(* Nodes that need a live answer of the model unless a partial one is      *)
(* allowed.                                                                *)
ModelNodes == {"scope_mvp", "recommend_stack", "plan_repo", "generate_files",
               "generate_final_package"}

Phases == {"idea_intake", "requirement_expansion", "domain_research",
           "reference_url_analysis", "user_goal_interpretation",
           "feature_system_design", "tech_stack_recommendation",
           "data_model_design", "api_design", "frontend_architecture",
           "backend_architecture", "auth_authorization_design",
           "database_schema_planning", "file_tree_generation",
           "code_implementation", "testing_strategy",
           "documentation_generation", "deployment_instructions",
           "github_repo_export", "build_test_validation",
           "final_project_report"}

None == "none"

(* The schema also knows "waiting_for_approval", which only                *)
(* seed_pending_approval sets, and that only a test calls.                 *)
TaskStatuses == {"started", "completed", "failed"}
StepStatuses == {"completed", "failed", "blocked"}
PhaseStatuses == {"pending", "running", "completed", "failed"}
RunPhases == {"idle", "queued", "node", "append", "snapshot", "caught", "done"}
Modes == {None, "mock", "live", "partial", "degraded"}

(* Who last wrote a file: nobody; generate_files; the repair passes of     *)
(* validate_mvp, whose output is what gets validated; the debug report; the*)
(* health scaffold of the commit; whoever owned the repository before.     *)
Versions == {None, "generated", "inspected", "report", "scaffold", "prior"}

Step(n, s) == [node |-> n, status |-> s]
Steps == [node : Nodes, status : StepStatuses]

(* The outcome of the last tool call, as route_after_tool_result reads it. *)
ToolResults == [tool : Nodes \cup {None}, status : {None, "success", "failed"},
                recoverable : BOOLEAN]
NoResult == [tool |-> None, status |-> None, recoverable |-> FALSE]
Success(n) == [tool |-> n, status |-> "success", recoverable |-> FALSE]
Failure(n, r) == [tool |-> n, status |-> "failed", recoverable |-> r]

(* final_report: its status, and what its summary blames. *)
Reports == [status : {None, "completed", "failed"},
            blame : Nodes \cup {None, "exception", "unknown"}]
NoReport == [status |-> None, blame |-> None]

NoFiles == [p \in Paths |-> None]
DomainOf(files) == {p \in Paths : files[p] # None}
Written(S, v) == [p \in Paths |-> IF p \in S THEN v ELSE None]

(* The artifact list is read by path and the last entry of a path wins, so *)
(* appending a list to it overlays its files on the earlier ones.          *)
Overlay(new, old) == [p \in Paths |-> IF new[p] # None THEN new[p] ELSE old[p]]

(* apply_timeline_events *)
Record(timeline, S, s) == [p \in Phases |-> IF p \in S THEN s ELSE timeline[p]]

InitialState ==
  [pc          |-> "receive_idea",
   status      |-> "started",
   reason      |-> None,
   authorized  |-> FALSE,
   recovered   |-> FALSE,
   last        |-> NoResult,
   artifacts   |-> NoFiles,
   inspected   |-> {},
   validation  |-> None,
   mode        |-> None,
   timeline    |-> [p \in Phases |-> "pending"],
   trace       |-> <<>>,
   report      |-> NoReport]

NoTask == [status |-> "absent", steps |-> <<>>, report |-> NoReport,
           timeline |-> [p \in Phases |-> "pending"]]

NoClient == [submit |-> "idle", polling |-> FALSE, seen |-> None,
             notice |-> None]

-----------------------------------------------------------------------------
(* Types *)

(* WorkflowState, and the node to run next. *)
States ==
  [pc : Nodes \cup {"END"}, status : TaskStatuses,
   reason : Nodes \cup {None}, authorized : BOOLEAN, recovered : BOOLEAN,
   last : ToolResults, artifacts : [Paths -> Versions],
   inspected : SUBSET Paths, validation : {None, "passed", "failed"},
   mode : Modes, timeline : [Phases -> PhaseStatuses],
   trace : Seq(Steps), report : Reports]

GitHubRepos == [repo : {"absent", "empty", "populated"},
                tree : [Paths -> Versions]]

(* TaskDetailResponse *)
Details == [status : TaskStatuses \cup {"absent"}, steps : Seq(Steps),
            report : Reports, timeline : [Phases -> PhaseStatuses]]

Clients == [submit : {"idle", "sent", "error"}, polling : BOOLEAN,
            seen : TaskStatuses \cup {None, "absent"},
            notice : {None, "building", "landed", "step", "summary",
                      "generic", "unreachable"}]

(* Every variable has its type; in particular every status a node, the     *)
(* timeline or the store is given is one its schema knows.                 *)
TypeOK ==
  /\ settings \in Configs
  /\ run \in [Tasks -> RunPhases]
  /\ graph \in [Tasks -> States]
  /\ github \in [Tasks -> GitHubRepos]
  /\ store \in [Tasks -> Details]
  /\ held \in [Tasks -> Seq(Steps)]
  /\ client \in [Tasks -> Clients]

(* A task may point at a repository that exists already: create_repo reuses*)
(* one of the requested name, and use_existing_repo names one.             *)
Repositories ==
  {[repo |-> "absent", tree |-> NoFiles], [repo |-> "empty", tree |-> NoFiles]}
    \cup {[repo |-> "populated", tree |-> Written(S, "prior")] :
            S \in {{AutoInitPath}, HealthPaths}}

Init ==
  /\ settings \in Configs
  /\ run = [t \in Tasks |-> "idle"]
  /\ graph = [t \in Tasks |-> InitialState]
  /\ github \in [Tasks -> Repositories]
  /\ store = [t \in Tasks |-> NoTask]
  /\ held = [t \in Tasks |-> <<>>]
  /\ client = [t \in Tasks |-> NoClient]

-----------------------------------------------------------------------------
(* Routing: the conditional edges of the graph *)

RouteAfterGithubExchange(g) ==
  IF g.status = "failed" THEN "failed" ELSE "retrieve_context"

RouteAfterCreateRepo(g) ==
  IF g.status = "failed" THEN "failed" ELSE "generate_files"

RouteIgnoringValidateMvp(g) == "debug_generated_files"

RouteAfterValidateMvp(g) ==
  IF g.status = "failed" \/ g.validation = "failed"
  THEN "failed" ELSE "debug_generated_files"

RouteIgnoringCommitProgress(g) == "verify_build"

RouteAfterCommitProgress(g) ==
  IF g.status = "failed" THEN "failed" ELSE "verify_build"

RouteWithoutBlocker(g) ==
  IF g.last.status = "success" THEN "generate_final_package" ELSE "failed"

RouteAfterToolResult(g) ==
  IF g.last.status = "success" THEN "generate_final_package"
  ELSE IF g.last.recoverable THEN "handle_blocker" ELSE "failed"

-----------------------------------------------------------------------------
(* Running a node *)

Enter(t, n) == /\ run[t] = "node"
               /\ graph[t].pc = n
               /\ Len(graph[t].trace) < RecursionLimit

(* append_step: the live progress callback gets through from async nodes. *)
AfterNode(n) == IF n \in AsyncNodes THEN "append" ELSE "snapshot"

(* Node n returns the update that makes g of graph[t]; LangGraph applies it*)
(* and routes to the next node.                                            *)
Leave(t, n, s, g, next) ==
  /\ graph' = [graph EXCEPT ![t] =
                 [g EXCEPT !.trace = Append(@, Step(n, s)), !.pc = next]]
  /\ run' = [run EXCEPT ![t] = AfterNode(n)]
  /\ UNCHANGED <<settings, store, held, client>>

Fails(g, n) == [g EXCEPT !.status = "failed", !.reason = n]
Records(g, S, s) == [g EXCEPT !.timeline = Record(@, S, s)]
OutcomeSkipped(ok) == IF ok THEN "completed" ELSE "skipped"

Outcome(ok) == IF ok THEN "completed" ELSE "failed"

(* Nodes before the repository exists *)

ReceiveIdea(t) ==
  /\ Enter(t, "receive_idea")
  /\ Leave(t, "receive_idea", "completed",
           Records(graph[t], {"idea_intake"}, "completed"),
           "exchange_github_code")
  /\ UNCHANGED github

(* The connection is exchanged for the credentials of the tool adapter, or *)
(* it is missing, unknown, expired or refused.                             *)
ExchangeGithubCode(t) ==
  /\ Enter(t, "exchange_github_code")
  /\ \E ok \in IF settings.mock THEN {TRUE} ELSE BOOLEAN :
       LET n == "exchange_github_code"
           g == IF ok THEN [graph[t] EXCEPT !.authorized = ~settings.mock]
                      ELSE Fails(graph[t], n)
       IN  Leave(t, n, Outcome(ok), g, RouteAfterGithubExchange(g))
  /\ UNCHANGED github

RetrieveContext(t) ==
  /\ Enter(t, "retrieve_context")
  /\ Leave(t, "retrieve_context", "completed",
           Records(graph[t], {"domain_research", "reference_url_analysis"},
                   "completed"),
           "scope_mvp")
  /\ UNCHANGED github

ScopeMvp(t) ==
  /\ Enter(t, "scope_mvp")
  /\ Leave(t, "scope_mvp", "completed",
           Records(graph[t], {"requirement_expansion",
                              "user_goal_interpretation",
                              "feature_system_design"}, "completed"),
           "recommend_stack")
  /\ UNCHANGED github

RecommendStack(t) ==
  /\ Enter(t, "recommend_stack")
  /\ Leave(t, "recommend_stack", "completed",
           Records(graph[t], {"tech_stack_recommendation"}, "completed"),
           "plan_repo")
  /\ UNCHANGED github

PlanRepo(t) ==
  /\ Enter(t, "plan_repo")
  /\ Leave(t, "plan_repo", "completed",
           Records(graph[t], {"data_model_design", "api_design",
                              "frontend_architecture", "backend_architecture",
                              "auth_authorization_design",
                              "database_schema_planning"}, "completed"),
           "create_repo")
  /\ UNCHANGED github

(* The repository *)

(* A call that GitHub failed counts as recoverable, one that the policy or *)
(* a missing connection refused does not.  No edge asks after create_repo  *)
(* or commit_progress.                                                     *)
Recoverable(t) == IF graph[t].authorized THEN BOOLEAN ELSE {FALSE}

(* GitHub makes the first commit of a new repository (auto_init). *)
NewRepository == [repo |-> "populated",
                  tree |-> Written({AutoInitPath}, "prior")]

(* What create_repo answers and what it leaves on GitHub: it reuses or     *)
(* creates a repository, takes the name of an existing one on trust, or    *)
(* fails, after creating it when the read that verifies it fails.          *)
CreateOutcomes(t) ==
  IF settings.mock THEN {TRUE} \X {github[t]}
  ELSE IF ~graph[t].authorized THEN {FALSE} \X {github[t]}
  ELSE BOOLEAN \X ({github[t]} \cup
         (IF github[t].repo = "absent" THEN {NewRepository} ELSE {}))

CreateRepo(t) ==
  /\ Enter(t, "create_repo")
  /\ \E outcome \in CreateOutcomes(t), r \in Recoverable(t) :
       LET n == "create_repo"
           g == IF outcome[1]
                THEN [Records(graph[t], {"github_repo_export"}, "completed")
                        EXCEPT !.last = Success(n)]
                ELSE [Fails(graph[t], n) EXCEPT !.last = Failure(n, r)]
       IN  /\ Leave(t, n, Outcome(outcome[1]), g, RouteAfterCreateRepo(g))
           /\ github' = [github EXCEPT ![t] = outcome[2]]

(* The files *)

(* The mode of the staged generation; an empty one is replaced by the      *)
(* scaffold of the project generator and called degraded.                  *)
GenerationModes ==
  IF settings.mock THEN {"mock"}
  ELSE IF settings.partial THEN {"live", "partial", "degraded"}
  ELSE {"live", "degraded"}

GenerationTimelineFromStale(timeline) ==
  Record(timeline, {"code_implementation", "documentation_generation"},
         "completed")

(* The second update of the timeline starts from the first one. *)
GenerationTimeline(timeline) ==
  Record(Record(timeline, {"file_tree_generation"}, "completed"),
         {"code_implementation", "documentation_generation"}, "completed")

(* The paths the model generates; one it put at ReportPath is always       *)
(* replaced by the debug report.                                           *)
GeneratedPaths == Paths \ {ReportPath}

GenerateFiles(t) ==
  /\ Enter(t, "generate_files")
  /\ \E S \in (SUBSET GeneratedPaths) \ {{}}, m \in GenerationModes :
       Leave(t, "generate_files", "completed",
             [graph[t] EXCEPT
                !.artifacts = Overlay(Written(S, "generated"), @),
                !.mode = m,
                !.timeline = GenerationTimeline(@)],
             "validate_mvp")
  /\ UNCHANGED github

(* The repairs add files, rewrite files, and delete source files whose     *)
(* imports still fail; the repaired list is validated and returned, and the*)
(* reducer appends it to the list of generate_files.                       *)
Repaired(files) == {S \in SUBSET GeneratedPaths :
                      DomainOf(files) \ CodePaths \subseteq S}

WithRepairedInFront(S, files) == Overlay(files, Written(S, "inspected"))

WithRepaired(S, files) == Overlay(Written(S, "inspected"), files)

ValidateMvp(t) ==
  /\ Enter(t, "validate_mvp")
  /\ \E S \in Repaired(graph[t].artifacts), ok \in BOOLEAN :
       LET n == "validate_mvp"
           g == [Records(graph[t], {"testing_strategy"}, Outcome(ok)) EXCEPT
                   !.artifacts = WithRepaired(S, @),
                   !.inspected = S,
                   !.validation = IF ok THEN "passed" ELSE "failed",
                   !.status = IF ok THEN @ ELSE "failed",
                   !.reason = IF ok THEN @ ELSE n]
       IN  Leave(t, n, Outcome(ok), g, RouteAfterValidateMvp(g))
  /\ UNCHANGED github

DebugGeneratedFiles(t) ==
  /\ Enter(t, "debug_generated_files")
  /\ Leave(t, "debug_generated_files", "completed",
           [graph[t] EXCEPT
              !.artifacts = Overlay(Written({ReportPath}, "report"), @)],
           "commit_progress")
  /\ UNCHANGED github

(* merge_repo_health_scaffold: the scaffold fills the gaps. *)
CommittedFiles(files) == Overlay(files, Written(HealthPaths, "scaffold"))

(* What commit_files answers and leaves on GitHub.  It may fail before     *)
(* anything is written, after the commit when the commit cannot be         *)
(* verified, and between the two commits an empty repository takes.        *)
CommitOutcomes(t) ==
  LET files  == CommittedFiles(graph[t].artifacts)
      before == github[t]
      after  == [repo |-> "populated", tree |-> Overlay(files, before.tree)]
      seeded == {[repo |-> "populated", tree |-> Written({p}, files[p])] :
                   p \in DomainOf(files)}
  IN  IF settings.mock THEN {TRUE} \X {before}
      ELSE IF ~graph[t].authorized \/ before.repo = "absent"
           THEN {FALSE} \X {before}
      ELSE {<<TRUE, after>>, <<FALSE, after>>, <<FALSE, before>>} \cup
           (IF before.repo = "empty" THEN {FALSE} \X seeded ELSE {})

(* The step of a failed commit is recorded "completed" as well. *)
CommitProgress(t) ==
  /\ Enter(t, "commit_progress")
  /\ \E outcome \in CommitOutcomes(t), r \in Recoverable(t) :
       LET n == "commit_progress"
           g == IF outcome[1]
                THEN [Records(graph[t], {"github_repo_export"}, "running")
                        EXCEPT !.last = Success(n)]
                ELSE [Fails(graph[t], n) EXCEPT !.last = Failure(n, r)]
       IN  /\ Leave(t, n, "completed", g, RouteAfterCommitProgress(g))
           /\ github' = [github EXCEPT ![t] = outcome[2]]

(* Verification and recovery *)

(* The mock build fails until a recovery was applied; the live check reads *)
(* the repository, may fail to, and is never recoverable.                  *)
VerifyResults(t) ==
  LET n == "verify_build"
  IN  IF settings.mock
      THEN {IF graph[t].recovered THEN Success(n) ELSE Failure(n, TRUE)}
      ELSE {Failure(n, FALSE)} \cup
           (IF /\ github[t].repo # "absent"
               /\ HealthPaths \subseteq DomainOf(github[t].tree)
            THEN {Success(n)} ELSE {})

VerifyBuild(t) ==
  /\ Enter(t, "verify_build")
  /\ \E result \in VerifyResults(t) :
       LET n  == "verify_build"
           ok == result.status = "success"
           g  == [Records(graph[t], {"build_test_validation"}, Outcome(ok))
                    EXCEPT !.last = result,
                           !.reason = IF ok THEN @ ELSE n]
       IN  Leave(t, n, IF ok THEN "completed" ELSE "blocked", g,
                 RouteAfterToolResult(g))
  /\ UNCHANGED github

ApplyRecoveryUnmarked(g) == [g EXCEPT !.last = Success("handle_blocker")]

ApplyRecovery(g) == [g EXCEPT !.recovered = TRUE,
                              !.last = Success("handle_blocker")]

HandleBlocker(t) ==
  /\ Enter(t, "handle_blocker")
  /\ Leave(t, "handle_blocker", "completed", ApplyRecovery(graph[t]),
           "verify_build")
  /\ UNCHANGED github

(* The end of a run *)

PackageTimeline(timeline) ==
  Record(Record(timeline, {"deployment_instructions"}, "completed"),
         {"documentation_generation", "final_project_report"}, "completed")

GenerateFinalPackage(t) ==
  /\ Enter(t, "generate_final_package")
  /\ Leave(t, "generate_final_package", "completed",
           [graph[t] EXCEPT
              !.report = [status |-> "completed", blame |-> None],
              !.timeline = PackageTimeline(@)],
           "remember_outcome")
  /\ UNCHANGED github

(* A memory that cannot be written is skipped. *)
RememberOutcome(t) ==
  /\ Enter(t, "remember_outcome")
  /\ Leave(t, "remember_outcome", "completed", graph[t], "report_result")
  /\ UNCHANGED github

ReportResult(t) ==
  /\ Enter(t, "report_result")
  /\ Leave(t, "report_result", "completed",
           [graph[t] EXCEPT !.status = "completed"], "END")
  /\ UNCHANGED github

FailureReasonOfLastTool(g) == IF g.last.tool # None THEN g.last.tool
                              ELSE IF g.reason # None THEN g.reason
                              ELSE "unknown"

FailureReason(g) == IF g.reason # None THEN g.reason
                    ELSE IF g.last.tool # None THEN g.last.tool
                    ELSE "unknown"

Failed(t) ==
  /\ Enter(t, "failed")
  /\ LET g    == graph[t]
         why  == FailureReason(g)
         done == [g EXCEPT !.status = "failed",
                           !.report = [status |-> "failed", blame |-> why]]
     IN  Leave(t, "failed", "failed", done, "END")
  /\ UNCHANGED github

-----------------------------------------------------------------------------
(* The service and the task store *)

(* POST /agent/run: the task is stored, then answered; the browser polls   *)
(* it if the answer arrives.                                               *)
Submit(t) ==
  /\ run[t] = "idle"
  /\ run' = [run EXCEPT ![t] = "queued"]
  /\ store' = [store EXCEPT ![t].status = "started"]
  /\ \/ client' = [client EXCEPT ![t] = [submit |-> "sent", polling |-> TRUE,
                                         seen |-> None, notice |-> "building"]]
     \/ client' = [client EXCEPT ![t] = [submit |-> "error", polling |-> FALSE,
                                         seen |-> None,
                                         notice |-> "unreachable"]]
  /\ UNCHANGED <<settings, graph, github, held>>

(* The background job builds the graph; its first state is the input. *)
RunTaskWorkflow(t) ==
  /\ run[t] = "queued"
  /\ graph' = [graph EXCEPT ![t] = InitialState]
  /\ run' = [run EXCEPT ![t] = "snapshot"]
  /\ UNCHANGED <<settings, github, store, held, client>>

(* on_progress: the step of a node is shown before its state is stored. *)
AppendAgentSteps(t) ==
  /\ run[t] = "append"
  /\ store' = [store EXCEPT ![t].steps =
                 Append(@, graph[t].trace[Len(graph[t].trace)])]
  /\ run' = [run EXCEPT ![t] = "snapshot"]
  /\ UNCHANGED <<settings, graph, github, held, client>>

DetailAppending(old, g) ==
  [status |-> g.status, steps |-> old.steps \o g.trace,
   report |-> g.report, timeline |-> g.timeline]

(* The detail the store keeps after a snapshot of state g. *)
Detail(old, g) == [status |-> g.status, steps |-> g.trace,
                   report |-> g.report, timeline |-> g.timeline]

SnapshotTask(t) ==
  /\ run[t] = "snapshot"
  /\ store' = [store EXCEPT ![t] = Detail(@, graph[t])]
  /\ run' = [run EXCEPT ![t] = IF graph[t].pc = "END" THEN "done" ELSE "node"]
  /\ UNCHANGED <<settings, graph, github, held, client>>

(* The node to run raises, or LangGraph refuses to run it. *)
MayRaise(t) ==
  \/ /\ ~settings.mock
     /\ \/ graph[t].pc \in {"exchange_github_code", "retrieve_context"}
        \/ graph[t].pc \in ModelNodes /\ ~settings.partial
  \/ Len(graph[t].trace) >= RecursionLimit

(* The except clause of run_task_workflow reads the task back ... *)
Raise(t) ==
  /\ run[t] = "node"
  /\ MayRaise(t)
  /\ held' = [held EXCEPT ![t] = store[t].steps]
  /\ run' = [run EXCEPT ![t] = "caught"]
  /\ UNCHANGED <<settings, graph, github, store, client>>

UnexpectedFailureAlone(old, steps) ==
  [old EXCEPT !.status = "failed",
              !.steps = <<Step("failed", "failed")>>,
              !.report = [status |-> "failed", blame |-> "exception"]]

UnexpectedFailureUnmarked(old, steps) ==
  [old EXCEPT !.steps = Append(steps, Step("failed", "failed")),
              !.report = [status |-> "failed", blame |-> "exception"]]

(* ... and stores the failure on top of what it read. *)
UnexpectedFailure(old, steps) ==
  [old EXCEPT !.status = "failed",
              !.steps = Append(steps, Step("failed", "failed")),
              !.report = [status |-> "failed", blame |-> "exception"]]

SnapshotFailure(t) ==
  /\ run[t] = "caught"
  /\ store' = [store EXCEPT ![t] = UnexpectedFailure(@, held[t])]
  /\ run' = [run EXCEPT ![t] = "done"]
  /\ UNCHANGED <<settings, graph, github, held, client>>

-----------------------------------------------------------------------------
(* The browser *)

(* What pollTask displays for a task it reads as failed. *)
FailureNotice(task) ==
  IF \E i \in 1..Len(task.steps) : task.steps[i].status = "failed"
  THEN "step"
  ELSE IF task.report.status # None THEN "summary" ELSE "generic"

Notice(task, old) ==
  CASE task.status = "completed" -> "landed"
    [] task.status = "failed"    -> FailureNotice(task)
    [] OTHER                     -> old

KeepsPollingOnFailure(c, status) == status \in {"started", "failed"}

(* A poll that reads a terminal status is the last one, but the first      *)
(* failed one changes submitState, on which the effect depends, and so runs*)
(* it again.                                                               *)
KeepsPolling(c, status) == \/ status = "started"
                           \/ status = "failed" /\ c.submit = "sent"

(* A poll that does not reach the server changes nothing and is repeated. *)
PollTask(t) ==
  /\ client[t].polling
  /\ client' = [client EXCEPT ![t] =
       [submit  |-> IF store[t].status = "failed" THEN "error" ELSE @.submit,
        polling |-> KeepsPolling(@, store[t].status),
        seen    |-> store[t].status,
        notice  |-> Notice(store[t], @.notice)]]
  /\ UNCHANGED <<settings, run, graph, github, store, held>>

-----------------------------------------------------------------------------
RunNode(t) ==
  \/ ReceiveIdea(t)
  \/ ExchangeGithubCode(t)
  \/ RetrieveContext(t)
  \/ ScopeMvp(t)
  \/ RecommendStack(t)
  \/ PlanRepo(t)
  \/ CreateRepo(t)
  \/ GenerateFiles(t)
  \/ ValidateMvp(t)
  \/ DebugGeneratedFiles(t)
  \/ CommitProgress(t)
  \/ VerifyBuild(t)
  \/ HandleBlocker(t)
  \/ GenerateFinalPackage(t)
  \/ RememberOutcome(t)
  \/ ReportResult(t)
  \/ Failed(t)

(* The background job of t takes a step. *)
Job(t) ==
  \/ RunTaskWorkflow(t)
  \/ RunNode(t)
  \/ AppendAgentSteps(t)
  \/ SnapshotTask(t)
  \/ Raise(t)
  \/ SnapshotFailure(t)

Next == \E t \in Tasks : Submit(t) \/ Job(t) \/ PollTask(t)

Spec == Init /\ [][Next]_vars

(* Every call a node makes has a timeout and a bounded number of retries,  *)
(* so a job that can go on does; a page that stays open keeps its timer.   *)
Fairness == \A t \in Tasks : WF_vars(Job(t)) /\ WF_vars(PollTask(t))

FairSpec == Spec /\ Fairness

-----------------------------------------------------------------------------
(* What must hold *)

(* Every file of the list that validate_mvp inspected is in the repository,*)
(* in the version inspected.                                               *)
InspectedFilesOnGitHub(t) ==
  \A p \in graph[t].inspected : github[t].tree[p] = "inspected"

Delivered(t) == \/ settings.mock
                \/ /\ graph[t].validation = "passed"
                   /\ InspectedFilesOnGitHub(t)

(* Outside mock mode a task is shown completed only when the validated     *)
(* files are in the repository and the repository passes its health check: *)
(* four conditional edges and two tools stand between the two.             *)
CompletedMeansDelivered ==
  \A t \in Tasks : store[t].status = "completed" /\ ~settings.mock =>
    /\ Delivered(t)
    /\ HealthPaths \subseteq DomainOf(github[t].tree)

(* A path that the validator inspected is never committed in the version   *)
(* generate_files wrote, nor filled by the health scaffold: the artifact   *)
(* list holds both versions and the commit must take the last one.         *)
InspectedVersionWins ==
  \A t \in Tasks : \A p \in graph[t].inspected :
    github[t].tree[p] \in {None, "prior", "inspected"}

(* What the API shows as the history of a task is the trace of its run, at *)
(* most one step behind, each step once, also while the live progress and  *)
(* the snapshots both write it; after an unexpected exception it is the    *)
(* whole trace and one failed step.                                        *)
IsPrefixOf(s, u) == /\ Len(s) <= Len(u)
                    /\ \A i \in 1..Len(s) : s[i] = u[i]

ShownStepsAreTheTrace ==
  \A t \in Tasks :
    LET shown == store[t].steps
        trace == graph[t].trace
    IN  IF store[t].report.blame = "exception"
        THEN shown = Append(trace, Step("failed", "failed"))
        ELSE /\ IsPrefixOf(shown, trace)
             /\ Len(trace) <= Len(shown) + 1
             /\ run[t] \in {"node", "caught", "done"} => shown = trace

(* The final report of a failed task blames the node that ran just before  *)
(* "failed", whichever of the five places that can stop a run stopped it,  *)
(* also when an earlier blocker left its reason behind.                    *)
ReportBlamesTheCulprit ==
  \A t \in Tasks :
    LET shown == store[t].steps
        blame == store[t].report.blame
    IN  store[t].report.status = "failed" /\ blame # "exception" =>
          /\ Len(shown) > 1
          /\ shown[Len(shown)].node = "failed"
          /\ shown[Len(shown) - 1].node = blame

(* No update of the timeline is lost on the way: a completed task shows    *)
(* every phase completed, save the export, which commit_progress put back  *)
(* to running.                                                             *)
CompletedTimelineIsFull ==
  \A t \in Tasks : store[t].status = "completed" =>
    \A p \in Phases :
      store[t].timeline[p] = IF p = "github_repo_export" THEN "running"
                                                         ELSE "completed"

(* A run, recovery included, ends before LangGraph would stop it. *)
RunFitsRecursionLimit ==
  \A t \in Tasks : run[t] = "node" => Len(graph[t].trace) < RecursionLimit

(* Once a task is shown failed, nothing of it reaches GitHub any more. *)
FailedTaskLeavesGitHubAlone ==
  [][\A t \in Tasks : store[t].status = "failed" => github'[t] = github[t]]_vars

(* The API of the task store implements the abstract task lifecycle: the   *)
(* status is decided once, the history only grows, and completed means     *)
(* delivered.                                                              *)
L == INSTANCE TaskLifecycle
       WITH status    <- [t \in Tasks |-> store[t].status],
            history   <- [t \in Tasks |-> store[t].steps],
            delivered <- [t \in Tasks |-> Delivered(t)]

ImplementsLifecycle == L!Spec

(* Whatever a node, a tool or the model does, an accepted task ends. *)
EveryTaskEnds ==
  \A t \in Tasks : store[t].status = "started" ~>
                   store[t].status \in {"completed", "failed"}

(* The blocker of mock mode is recovered from: once its files passed       *)
(* validation, a mock run completes.                                       *)
MockRunsComplete ==
  \A t \in Tasks : settings.mock /\ graph[t].validation = "passed" ~>
                   store[t].status = "completed"

(* A page that polls stops polling, and with the outcome of the task. *)
PollerLearnsOutcome ==
  \A t \in Tasks : client[t].polling ~>
    /\ ~client[t].polling
    /\ client[t].seen \in {"completed", "failed"}
    /\ client[t].seen = store[t].status

-----------------------------------------------------------------------------
(* What the repository says of the program, and the program does not do *)

(* README.md:7, "validate the output against 22 checks, then commit the    *)
(* result": nothing generate_files wrote reaches GitHub unless the         *)
(* validator inspected it.                                                 *)
CommitsOnlyValidatedFiles ==
  \A t \in Tasks : \A p \in Paths : github[t].tree[p] # "generated"

(* config.py:348, "Non-mock workflow runs commit only live model           *)
(* artifacts.", under the default require_live_file_manifest.              *)
CommitsOnlyLiveArtifacts ==
  \A t \in Tasks :
    ~settings.mock /\ (\E p \in Paths : github[t].tree[p] = "inspected") =>
      graph[t].mode = "live"

(* README.md, known limitations: a commit that fails does so "with an error*)
(* surfaced in Mission Control": a page that has stopped polling a failed  *)
(* task displays what the task says of the failure.                        *)
StoppedPollerShowsTheError ==
  \A t \in Tasks : client[t].seen = "failed" /\ ~client[t].polling =>
                   client[t].notice # "generic"
=============================================================================
