# GemPilot in TLA+

GemPilot turns the description of an idea into a GitHub repository. A FastAPI backend
accepts a task, runs it in a background job as a LangGraph state machine (scope the idea,
recommend a stack, plan, create the repository, generate files with an LLM, validate,
commit, verify, report), and a Next.js page polls the task until it ends. This directory
holds TLA+ models of that program, TLC configurations that check them, and TLAPS proofs.

To check: `tlc -config MCWorkflow.cfg MCWorkflow.tla` for a run, `tlapm WorkflowProofs.tla`
for proofs. `PROJECT.json` lists the runs, the theorems, which lines of the source each
definition stands for, and the hazards of the code.

## 1. Inventory

| Component (source) | State | Operations | Interacts with | Hard behaviour |
|---|---|---|---|---|
| Workflow graph (`agent/workflow.py`, `agent/build_timeline.py`) | `WorkflowState`: status, failure reason, last tool result, artifact list, validation, trace, timeline, final report | 17 nodes, 5 conditional edges, recovery loop | tools, model, RAG, OAuth connections (awaited calls); service (yields every state) | reducers that append, edges that must stop a failed run, a reason left by an earlier blocker, the recursion limit |
| Agent service (`agent/service.py`, `agent/routers/agent.py`) | none of its own | `start_task`, `run_task_workflow`, `get_task_detail` | task store, graph, FastAPI background tasks | live progress callback against snapshots; exceptions out of a node |
| Task store (`agent/task_store.py`) | task records and details under a lock | `create_task`, `append_agent_steps`, `snapshot_task`, `get_task`, approvals | service writes, HTTP handlers read | two writers of one history; a status that must be decided once |
| Persisting store (`agent/project_session_store.py`, `agent/dependencies.py`) | the same, and rows of Supabase; how many log entries were stored | the same, each followed by a best-effort copy of up to a dozen requests | Supabase, with a synchronous client that keeps the event loop | restart, delete-then-insert, lost answers, reload of settings while jobs run |
| Browser page (`frontend/app/page.tsx`) | submit state, task, timers | launch, `pollTask`, sign-in, reset | HTTP API, OAuth | polls a state that is one node behind; effects that restart themselves |
| OAuth connections (`agent/github_oauth.py`, `agent/routers/github.py`) | connection records: status, code, token, state | start, callback, exchange, disconnect, validate | GitHub OAuth, graph | records read before an await and written back after it; single-use code |
| GitHub tools (`tools/github_tool.py`, `agent/live_adapters.py`, `agent/adapters.py`) | the repository on GitHub | `create_repo`, `commit_files`, health check | GitHub REST | calls that fail half way; two committers; an empty repository |
| Import repair, scaffold (`agent/project_generation.py`, `agent/generated_project.py`) | none | markers, stubs, removal; hydrate, merge, overlay | graph | which version of a path wins; a repair that deletes; a repair that another undoes |
| Validation (`agent/project_validation.py`, `agent/validate_project.py`) | none | `validate_project` | graph | inspects another list than the one committed; checks that depend on two classifications of one idea |
| Staged generation (`agent/code_generator.py`) | manifest under construction | five stages, up to three attempts, merge | model client | partial answers, the mode of a whole run |
| Model client (`agent/model_client.py`, `agent/llm/provider.py`) | none across calls | `chat_json` with retries and fallback | LLM providers | retries, back-off, growing token limits |
| RAG (`agent/rag/*`) | chunks of a vector store | ingest, retrieve, remember | Supabase, scraping | delete-then-insert against searches |
| Build log, tool audit (`tools/repo_writer.py`, `tools/tool_logger.py`) | a file of the repository | append | GitHub REST | read-modify-write with retries |
| Planning (`agent/project_classifier.py`, `agent/architecture_planner.py`, ...) | none | classify, scope, blueprint, stages | graph, generation, validation | a plan whose fields nobody reads; an idea classified twice |
| Configuration (`agent/config.py`) | settings | read, reload | everything | reload during a job |

What makes each correct:

- *graph and tools*: a task shown completed was validated, its validated files are on GitHub
  in the version validated, and the repository passes its health check; a failed task
  touches GitHub no more; the failure report blames the node that failed; a run ends, within
  the recursion limit, and recovers from a recoverable blocker.
- *service and store*: the status is decided once, the history only grows and is the trace
  of the run; every accepted task ends.
- *page*: it stops, knowing the outcome.
- *connections*: a token that was stored is not lost to a concurrent operation; a code is
  exchanged once; a disconnected connection stays so.
- *commits*: two commits to a branch both survive or one reports failure; success means
  every file is there; a name is claimed by one caller.
- *build log*: success means the entry was committed; an entry is lost only by a call
  that had not read it.
- *persisting store*: a copy that fails half way harms nothing that a later one does not
  mend; the stored trace has no gap; a page that polls is told how the task ended as long
  as the store that runs it is there.
- *model client*: every call ends, with a bounded number of requests, and with a kind of
  result its settings permit.
- *generation, repair, validation*: what counts as live is live; sound files of the model
  survive the repairs; the imports of what is validated resolve; the scaffold passes.
- *RAG*: a search sees a source whole, or not at all, and a failed ingest loses nothing.

`PROJECT.json` has every hazard at its line with the properties that guard it, or the
reason why none does.

## 2. Modules

| Module | What it is |
|---|---|
| `TaskLifecycle` | abstract specification: what a caller of the API may rely on about a task |
| `Workflow` | graph, service, in-memory store, repository and page, one action per node or handler |
| `MCWorkflow` | the instance TLC checks |
| `WorkflowProofs` | type correctness and the delivery properties, proved |
| `LifecycleProofs` | history, blame, timeline, length of a run and the refinement of `TaskLifecycle`, proved |
| `GitHubConnection` | connection records under concurrent sign-in, exchange, disconnect, reload and restart |
| `MCGitHubConnection` | the instance TLC checks |
| `GitHubConnectionProofs` | its types and its safety properties, proved |
| `CommitLog` | abstract specification: branches to which commits are only appended |
| `GitHubCommit` | `create_repo` and `commit_files`, request by request, for several writers |
| `GitHubCommitProofs` | its safety properties and the refinement of `CommitLog`, proved |
| `BuildLog` | `append_build_log` with its retries, among other commits |
| `BuildLogProofs` | its types and its safety properties, proved |
| `StructuredCall` | abstract specification: what the workflow is promised by one call of its model |
| `LlmClient` | one call: attempts, fallback provider, degraded output |
| `LlmClientProofs` | its types, three properties and the safety of the refinement, proved |
| `SessionStore` | the persisting store, its copies to Supabase, reload, crash, restart, and the page |
| `SessionStoreProofs` | its types and its safety properties, proved |
| `RepoPlan` | from an idea to profile, scope, blueprint and the stages of generation |
| `Scaffold` | the project GemPilot writes without a model, by platform, and the batches made up for a stage |
| `ImportRepair` | `ensure_imports_resolve` |
| `Validation` | the other repairs, and `validate_project` |
| `Generation` | plan, stages, attempts, assembly, repairs, validation: the state machine over the four above |
| `GenerationProofs` | the repairs of any project, and the six properties of `Generation`, proved |
| `MCGitHubCommit`, `MCBuildLog`, `MCSessionStore`, `MCGeneration` | the instances TLC checks; `LlmClient` has numbers alone and is checked as it is |

How they fit together: `Workflow` has the whole run of a task, with what its parts can
answer as choices; `GitHubConnection`, `GitHubCommit`, `LlmClient` and `Generation` are what
lies beneath one of its nodes, `SessionStore` beneath its store. `Generation` extends
`Validation`, which extends `ImportRepair`, `Scaffold` and `RepoPlan`.

### Workflow

`graph[t]` is the `WorkflowState` of task `t` plus `pc`, the node LangGraph runs next.
`run[t]` is where the background job is:

    idle --Submit--> queued --RunTaskWorkflow--> snapshot --SnapshotTask--> node
    node --<a node's action>--> append (async nodes) or snapshot (sync nodes)
    append --AppendAgentSteps--> snapshot
    node --Raise--> caught --SnapshotFailure--> done
    snapshot --SnapshotTask--> done, when the graph has reached END

This is the interleaving of the program. `astream(..., "values")` hands over the
state after each node, the service stores it and only then asks for the next one.
`append_step` also schedules `on_progress`, which reaches the store between the two. It
does so for `async def` nodes only: LangGraph runs a sync node in an executor thread, where
`_fire_progress` finds no event loop and swallows the error. The except clause of
`run_task_workflow` awaits the store twice, so it is two steps and `held[t]` is what the
first read.

Every node is an action that updates status, reason, last tool result, artifacts, timeline,
trace and report as the code does, and moves `pc` along the edge or through the `Route...`
operator that stands for the conditional edge. What a tool, the model, the validator or
GitHub answers is a choice: `CreateOutcomes`, `CommitOutcomes` and `VerifyResults` give the
answer together with what is left on GitHub, including a repository that was created but
could not be read back, and a commit that landed but could not be verified. `Raise` is any
exception a node can raise: GitHub or Supabase out of reach, a live answer of the model
missing where no partial one is allowed, and the recursion limit.

A file is a path and who wrote it last: `generate_files` ("generated"), the repairs of
`validate_mvp`, whose output is validated ("inspected"), the debug report, the scaffold of
the commit, or the former owner of the repository ("prior"). That is all the
delivery properties tell apart. `Configs` are the settings that change control: mock mode;
live with partial answers allowed; strict live.

`client[t]` is the tab that launched `t`. `PollTask` is one answered poll. A
poll that cannot reach the server is repeated and so a stutter.

`TaskLifecycle` sees `status`, `history` and `delivered` of each task. `Workflow`
implements it with the store's status and steps, and `Delivered(t)`.

### GitHubConnection

`stores[s][c]` is the record of connection `c` in store `s`: the `Database` (Supabase) or
one of the in-memory stores the process has built, numbered in order. `service` is the
service new requests find: the store it was built over and the environment token of its
settings. `codes[k]` is what GitHub knows of a code: for whose sign-in it was issued, and
whether it is live, spent or expired. A token is named after the code it was
granted for, or is one of `EnvTokens`. `opened[c]` remembers how a connection came to be.

`caller[x]` is one call of `exchange_for_workflow`, by a task or an upload:

    idle --Launch--> launched --ReadConnection--> code --ExchangeCode--> user --FetchUser-->
    ended: authorized | refused | raised | lost (the process died)

The server is one event loop, so what lies between two awaits is one step, and the calls to the
store (synchronous) belong to the step they are made in; the two awaits are `_exchange_code` and
`_fetch_user`. `record` is what the caller read before the first, and writes back after the last.
`Launch` takes the service of that moment: a task holds on to it through a reload. `Update`
answers as the stores do: the in-memory one raises a connection error for a record that is gone;
the database changes no row and says nothing; a call to the database may fail before or after it
took effect. `MarkedFailed` changes the status alone, as `_mark_failed` does: code and token are
those of the record read. `Restart` empties the in-memory stores and ends what is in flight.

`mishaps` is a history variable: which of a crash in mid-exchange, a failed store call and
a callback delivered again has happened; `SpentCodeIsNotOffered` excepts them, since after
each the code does leave a spent code on offer (the next exchange is then refused).

In `Workflow` the exchange is the outcome of one node, authorized, refused or raised; this
module has what lies beneath.

### GitHubCommit

A branch is the sequence of its commits; a commit is who made it and the paths it writes.
`writer[w]` is one call of `create_repo` followed by `commit_files`, or, of a request that
uses an existing repository, `commit_files` alone:

    get_repo --> create --> read_back --> get_ref --> update --> verify --> success
       |  ^         |                        |           |
       |  +--name taken: next candidate      |           +--not a fast-forward--> stale
       +--exists: reused--> get_ref          +--empty: contents --> put --> seeded --> update

Each action is one request that reads or changes what others may change; blobs, trees and
commits no branch points to belong to the action that reads their parent. Any request may
fail, and `CreateUserRepo`, `PutContents` and `UpdateRef` may take effect while their answer
is lost. An upload keeps the name it asked for, a task the one it was answered
(`Answer`). `OwnerCreates` is the user who opens a repository between the lookup of a name
and its claim. `CommitLog` sees the branches and who was told what.

### BuildLog

`versions[i]` are the entries of the log file as of commit `i`; a read may fail, which the
code takes for an empty log, or lag behind by a commit. `commit_files` is its two requests
that matter, `get_ref` and `update_ref`. `unread` is a history variable, the entries that some
call did not find in what it read: because the read failed, lagged, or came before the entry
was committed (`ReadTooEarly`). Such a call may overwrite them, and does
(`PreservesPreviousEntries` below); `LostOnlyUnread` says that no other entry is ever lost,
because from `get_ref` on whatever lands in between makes the update no fast-forward.

### LlmClient

`settings` is every combination of keys and switches an environment and a `.env` file can
produce, chosen once. `call` is the progress of `complete_structured`: an attempt asks the
first provider, and the facade a second one within the same attempt when the first answers
with an error; `Replies` are what one request can come to, told apart by what the code does
next. `StructuredCall` sees which results are permitted, and the result.

### SessionStore

`memory[s][t]` is the record of task `t` in store `s`, `db[t]` its rows: the session, one row
per table of `Tables`, and the agent logs. What a snapshot holds is its number. `job[t]`
runs the task and, after each snapshot, holds in `todo` what is left of copying it. The
client of Supabase is synchronous and is called from the event loop: while a copy is under
way nothing else is served (`Blocked`), so only the end of the process comes between two of
its requests. A request succeeds, fails, or takes effect and fails; any failure ends the
copy, not the job. The job ends with the snapshot of `report_result`, of the node `failed`, or
of the except clause: a node that sets the status to failed is followed by that of `failed`.
`ReloadRuntimeSettings` builds another store for new requests while the job keeps its own;
`Crash` empties memory and kills jobs; `Restart` comes back with an empty store. The page
polls memory, and stops at an answer of 404.

### RepoPlan, Scaffold, ImportRepair, Validation, Generation

An idea is what the classifier finds in it (`Ideas`). `RepoPlan` has what follows: the profile,
the scope, the category it is planned as, the blueprint's stages, the validation profile, and the
stages generation asks for, with the simplified plans of the second and third attempt. A file is
who wrote it, what is wrong with it (`Flaws`), the files it imports, and which of them `plain`, by
`import x.y`; a project is a function from paths to files. `Scaffold` has the paths of the
scaffold for each kind of project, and what they import. `ImportRepair` is the three passes of
`ensure_imports_resolve`: package markers, stubs, removal of what imports the missing and is not
referred to itself; a plain import is looked up and stubbed like any other, but is no reference
(`References`, `agent/project_generation.py:317`). `Validation` has the other repairs and the
checks that decide whether a project passes.

`Generation` is the state machine: `PlanRepo`, `AskStage` for each stage in order (answered by the
live model, made up for, failed, or mock), `AskAgain` while an attempt brought nothing,
`GenerateFiles` with hydrate or merge and every repair, `ValidateMvp` with the completion of the
architecture document (`WithArchitecture`), the second repair and the verdict. It has no choice
but in the answers: everything else is computed, as in the code.

The pure part of these modules was compared with the Python functions: the scaffold of 84
ideas, 2682 combinations of batches and 18 mock runs gave the same paths, authors and
verdicts, and 6000 random Python projects, with imports of either form and repaired twice, the
same paths after each repair.

## 3. Runs

| Run | Shows |
|---|---|
| `workflow` | all invariants, action properties, the refinement and the liveness properties of `Workflow` hold |
| `commits_only_validated` | counterexample to `CommitsOnlyValidatedFiles` |
| `commits_only_live` | counterexample to `CommitsOnlyLiveArtifacts` |
| `stopped_poller_shows_error` | counterexample to `StoppedPollerShowsTheError` |
| `github_connection` | a token stays with its connection, a spent code is not offered, a deleted connection stays deleted, and no caller is authorized by an in-memory connection that is gone |
| `exchanged_token_is_kept` | counterexample to `ExchangedTokenIsKept` |
| `github_commit` | the requests of two writers implement the log; success means every file is on the branch; a name is claimed once; a refusal has another writer to blame; every call ends |
| `build_log` | success was committed, entries are doubled at most once a retry, an entry is lost only by a call that had not read it, every append ends |
| `llm_client` | requests are bounded, nobody is asked without a key, a call gives up only for a reason, and keeps what the workflow is promised |
| `session_store` | the stored logs are the trace, a clean copy heals, no row is ahead of its session, a polling page is told how the task ended |
| `generation` | live means live, strict runs degrade only on empty replies, sound files survive, imports resolve but for plain ones of what a repair had to delete, little is deleted, the scaffold of a web product passes |
| `planned_code_is_asked_for` | counterexample to `PlannedCodeIsAskedFor` |

Bounds of `Workflow`. One task: tasks share no variable of this model, and each works on a
repository of its own; two tasks on one connection are the subject of `GitHubConnection`, on one
repository of `GitHubCommit`. Three configurations: all that the nodes distinguish. Four paths,
one of each kind the code treats differently: the one GitHub's auto-init writes (also a health
path), another health path, a source file the repair may delete, and the debug report.
`RecursionLimit` is 25, LangGraph's default; the longest run, in mock mode with its recovery, is
shorter, which `RunFitsRecursionLimit` checks. The state space (some 35,000 states, depth 48) is
complete: no constraint cuts it.

Bounds of `GitHubConnection`. Two callers, for the race of two exchanges of one record; two
connections and two codes, so that a code or a token could end up at the wrong connection,
and a connection can be approved twice; two environment tokens, so that a reload can change
the one in force; `MaxMemory` 2: an in-memory store and the one after a restart or reload.
Some 620,000 states up to symmetry, complete. Only safety is stated, so the
specification has no fairness and symmetry is sound; `CHECK_DEADLOCK` is off because every
caller may have ended and every connection been used and deleted.

Bounds of `GitHubCommit`. Two writers, for every race of two; of either kind, with one name
to want, since names that differ never meet; two numbered candidates, so that a conflict is
followed by another and by none; two files, one of them the README that GitHub writes, in
every order and number a seed distinguishes. Repositories may exist, empty or not. Some
555,000 states, depth 26.

Bounds of `BuildLog`. Two appends and one commit of somebody else, each with the single retry
of the code (`RetryLimit`): enough for a lagging read, an overwritten entry and a commit
between `get_ref` and `update_ref`. Some 67,000 states.

Bounds of `LlmClient`. The limits are the defaults of the settings, so that the three
purposes differ; every combination of the switches; replies without bound but for the
attempts. Some 16,000 states.

Bounds of `SessionStore`. One task: tasks share the event loop, which a copy holds to its end,
and no row. Three snapshots, so that a copy can fail, heal, and the next fail; a table that
has a row from the second snapshot on and one from the third; logs added by two of them;
`MaxStores` 3: two replacements of the store, by reload or crash, in either order. Three
snapshots are also enough for a node that fails and the node `failed` after it. Some 60,000
states.

Bounds of `Generation`. An idea of every category, and the six variants planned differently (no
database, a hackathon, a form that says web, an API with a database, a site with AI and a server,
a command line tool whose idea mentions a portfolio); for every stage an empty batch, a good one,
and those that give the repairs work: a missing module, a package without marker, a bare root with
and without a file under it, a placeholder in a file of the scaffold and in another, models that
are deleted and then imported again, models that only a plain import is left of when the second
repair comes, an App that does not show the idea, a database without its schema, a README that
says little or has marks of work to do, an architecture document that says little. Some 460,000
states, every combination of them. No property of it is about liveness: a generation ends because
every step uses up a stage or an attempt, and its calls end by `LlmClient`.

Fairness. `Job` and `PollTask` are weakly fair. Every call a node makes has a timeout
(`tools/github_tool.py:75`, `agent/github_oauth.py:519`, the timeouts of
`agent/config.py`) and a bounded number of retries, so a node returns or raises; nothing
but the event loop schedules the job. A page that stays open keeps its timer. `Submit` is
not fair. `CHECK_DEADLOCK` is off because a task that ended and whose page has stopped
polling leaves nothing to do.

`GitHubCommit` and `BuildLog` are weakly fair in the requests of each call
(`tools/github_tool.py:75`: twenty seconds), not in failures, in other commits or in the
start of an append. `LlmClient` is weakly fair in its one step: requests have a timeout and
pauses a bound; it checks deadlock, with an explicit `Finished`. `SessionStore` is fair in
the job of a task and the timer of its page; a crash, a restart and a reload need never
happen, and `PageIsTold` allows for a process that stays down and for a store that was
replaced. In the others `CHECK_DEADLOCK` is
off because every call, append, page or generation may have ended.

Each property is guarded against being vacuous by a variant of one definition, a plausible
bug in the code, that breaks it:

| Variant in `Workflow` | Bug | Property it breaks |
|---|---|---|
| `RouteIgnoringValidateMvp` | no conditional edge after `validate_mvp` | `FailedTaskLeavesGitHubAlone` |
| `RouteIgnoringCommitProgress` | none after `commit_progress` | `CompletedMeansDelivered` |
| `RouteWithoutBlocker` | a recoverable failure is not sent to `handle_blocker` | `MockRunsComplete` |
| `OutcomeSkipped` | a status the schema does not know | `TypeOK` |
| `GenerationTimelineFromStale` | the second round of phases starts from the old timeline | `CompletedTimelineIsFull` |
| `WithRepairedInFront` | the validated list is put before the generated one | `InspectedVersionWins` |
| `ApplyRecoveryUnmarked` | the recovery is not remembered | `RunFitsRecursionLimit` |
| `FailureReasonOfLastTool` | the report prefers the last tool | `ReportBlamesTheCulprit` |
| `DetailAppending` | a snapshot appends the trace | `ShownStepsAreTheTrace` |
| `UnexpectedFailureAlone` | the handler drops the history | `ImplementsLifecycle` |
| `UnexpectedFailureUnmarked` | the handler forgets the status | `EveryTaskEnds` |
| `KeepsPollingOnFailure` | the page polls a failed task for ever | `PollerLearnsOutcome` |

In `GitHubConnection`:

| Variant | Bug | Property it breaks |
|---|---|---|
| `MarkedRejected` | a failed exchange leaves a status the schema does not know | `TypeOK` |
| `RefreshedAlways` | the environment's token replaces that of a signed-in user | `TokensStayWithTheirConnection` |
| `Unmarked` | a failed exchange does not mark the connection | `SpentCodeIsNotOffered` |
| `UpdateAsUpsert` | an update creates the record that is gone | `DeletedStaysDeleted` |
| `UpdateNeverMinding` | the in-memory update ignores a record that is gone | `AuthorizedOnlyWhileConnected` |

In `GitHubCommit`:

| Variant | Bug | Property it breaks |
|---|---|---|
| `VerifiedAfterSeed` | an empty repository is left with the first file alone | `SuccessIsOnBranch` |
| `ConflictTakenForOurs` | a name taken meanwhile is read back as one's own | `CreatedIsOwn` |
| `HeadOfSeed` | the second commit is built on the head read before the seed | `StaleOnlyBehindAnother` |
| `UpdateForced` | the branch is moved with force | `ImplementsCommitLog` |
| `ConflictTriedAgain` | a taken name is tried for ever | `EveryWriterEnds` |

In `BuildLog`:

| Variant | Bug | Property it breaks |
|---|---|---|
| `TakenAsCommitted` | a failed commit is verified as if it had been made | `SuccessWasCommitted` |
| `AgainUncounted` | retries are not counted | `EntriesBounded`, `EveryAppendEnds` |
| `UpdateForced` | the branch is moved with force | `LostOnlyUnread` |

In `LlmClient`:

| Variant | Bug | Property it breaks |
|---|---|---|
| `AnotherAttemptInclusive` | one attempt too many | `RequestsBounded` |
| `FallbackUnchecked` | the fallback is used without a key | `AskedOnlyWithAKey` |
| `AfterErrorAsRefusal` | an error worth a retry ends the call | `GivesUpForAReason` |
| `WithoutLiveOutputAnyway` | the rule for live manifests is ignored | `KeepsThePromise` |

In `SessionStore`:

| Variant | Bug | Property it breaks |
|---|---|---|
| `CountFirst` | log entries are counted though their insert failed | `LogsAreTheTrace` |
| `OnlyNewest` | only the newest log entry is inserted | `CleanCopyHeals` |
| `SkipFailed` | a copy goes on after a failure | `RowsNotAheadOfSession` |
| `JobEnds` | a failed copy ends the job, not only the copy | `PageIsTold` |

In `Generation` and the modules it extends:

| Variant | Bug | Property it breaks |
|---|---|---|
| `LatestMode` | the last stage decides the mode | `LiveMeansEveryStageLive` |
| `StageLeftOut` | a failed stage is left out in strict mode too | `StrictDegradesOnlyOnEmptyReplies` |
| `HydratedAnyway` | the documents of the scaffold replace those of the model | `SoundLiveFilesSurvive` |
| `ValidatedUnrepaired` | the imports are not looked at after the other repairs | `RepairedImportsResolve` |
| `OrphansBeforeStubs` | importers are removed before what they miss is stubbed | `OnlyBareRootImportersAreDeleted` |
| `MergedGapsOnly` | the scaffold only fills gaps of a degraded run | `WebScaffoldPasses` |

### Where code and documentation disagree

1. `README.md:7` of the repository: "validate the output against 22 checks, then commit the
   result". `validate_mvp` repairs a copy of the artifact list and validates that; its
   result is *appended* to the list in the state. A source file the repair deletes is
   therefore still in the list, and `commit_progress` commits it without anyone having
   validated it. The repair is not idempotent (deleting one file makes another
   unreferenced), so this happens although `generate_files` already ran it.
2. `agent/config.py:348`: "Non-mock workflow runs commit only live model artifacts." When
   the stages of a live generation answer with empty file lists, `generate_files` puts the
   scaffold in their place (`agent/workflow.py:992`), marks the run degraded, and it is
   validated and committed; the setting is read by the health router alone.
3. `README.md:230`: a commit without write access "will fail with an error surfaced in
   Mission Control". The status turns failed one node before the failed step and the
   report are stored, and the page stops after reading failed twice; if both reads fall into
   that gap it shows only a generic text that points at a step that is not there.
4. `tests/test_github_oauth.py:190`: after a successful exchange the connection is exchanged
   and keeps its token. Two callers launched with one fresh connection both read the record
   with its single-use code; GitHub refuses the second, whose `_mark_failed` writes the
   record it read back over the exchanged one. The first goes on with its token; the
   connection has lost it, and the next task has to sign in again.
5. `tests/test_code_generator.py:6-16`: of a plan with `implementation_stages`, the stages
   of generation follow them. The plan of a task has no such field:
   `architecture_plan_to_repo_plan` (`agent/architecture_planner.py:569`) renders the
   blueprint's stages as lines of prose, and generation falls back to the validation
   profile, which has no server and no frontend for a command line tool, a browser
   extension or a portfolio. No live model is ever asked for their code.

Further statements the modules contradict, which no run of this directory checks; adding the
definition as an INVARIANT to the configuration of its module shows a counterexample:

- `SingleCommit` (`GitHubCommit`). `README.md:66`: the artifact tree is committed as a single
  commit. An empty repository gets two (`tools/github_tool.py:513`).
- `PreservesPreviousEntries` (`BuildLog`). `tests/test_person3_github_tool.py:489`: an append
  preserves the entries before it. A read of the log that fails counts as an empty log
  (`tools/repo_writer.py:80`), and the append overwrites them.
- `GroqStandsIn` (`LlmClient`). `README.md:62`: groq is the fallback of structured calls when
  its key is set. Where partial answers are not allowed it is no fallback
  (`agent/llm/provider.py:97`).
- `StoredTaskIsFound` (`SessionStore`). `README.md:76`: a task is kept in Supabase, so that it
  can be polled. `get_task` reads memory (`agent/project_session_store.py:84`): after a
  restart or a reload the page is told there is no such task.
- `OnlyUnreferencedAreDeleted` (`Generation`). `agent/project_generation.py:451`: the repair
  of the imports deletes unreferenced files only. What another file names by `import x.y` does
  not count as referenced (`agent/project_generation.py:335`), so a file can be deleted whose
  import is left behind.
- `SessionHasATaskStatus` (`SessionStore`). `agent/schemas.py:28`: the statuses of a task. The
  session of a task that raised is stored with "TaskStatus.FAILED", the text of the
  enumeration's member (`agent/project_session_store.py:135`).

## 4. Proofs

Every invariant, action property and refinement a passing run checks is a theorem, for all
values of the constants, but for liveness. `PROJECT.json` lists the theorems with what they
establish. The constants are arbitrary but for the assumptions named below, which TLC
evaluates on the instances of the runs; sets need not be finite where no assumption says so.

### Workflow

Assumed: `PathsAssumption`, `ConfigsAssumption`, `RecursionLimitAssumption`.

`WorkflowProofs` proves `TypeCorrect`. `TypeOK` is not inductive: `AppendAgentSteps` shows
the last step of the trace, which must exist. `TypeInv` adds `CallbackHasStep` (a job in
"append" has a nonempty trace). Lemmas give the type of what each helper returns; a lemma
per group of nodes shows that it keeps `States`.

Over `TypeInv` it proves `DeliveryInv` and from it `CompletedIsDelivered`, `InspectedWins` and
`FailedIsFinal`. The nodes fall into four groups (`BeforeValidation`, `BeforeCommit`,
`AfterCommit`, `AfterVerification`) and the invariant says what holds in each: before
validation nothing is inspected; from there up to the commit every inspected file is in the
list in its inspected version, and GitHub holds none of another (`UpToCommit`); past the
commit it is on GitHub (`FromCommit`); a task whose status is decided has no node ahead of it
that touches GitHub (`Decided`). `StoreInv` ties the stored status to the state of the job.
Most nodes change neither artifacts nor repository: one lemma (`QuietNode`) covers them, and
the remaining ones have one each.

`LifecycleProofs` is about what the API shows. `LifecycleInv` has two parts. `RunInv` is of
the graph's state alone: the reason of a state that is about to fail is the node that ran
last (`BlameInv`), every phase behind the run is completed (`TimelineInv`), and the trace is
no longer than the longest path to its node (`LengthInv`, with the table `NodesBefore`).
`ShownInv` relates it to the record in the store, in every phase of the job (`HistoryInv`,
`StatusInv`, `ReportInv`, `ShownTimelineInv`); `HistoryInv` has what the failure handler holds
between its two awaits. A node comes in a few shapes (it goes on, stops, fails, ends), so one
lemma says which shape each node has (`NodeEffects`) and the invariants are proved of shapes.
From it follow `HistoryIsTheTrace`, `CulpritIsBlamed`, `TimelineIsFull` and `RunsFit`. `RunsFit`
supposes `RecursionLimit >= MostNodes`, the 17 nodes of the longest path; LangGraph's
default is 25, and below 17 the property is false. `Refinement` is that `Workflow` implements
`TaskLifecycle`: storing a snapshot publishes steps or a verdict (`StoringPublishes`), a node
at most delivers (`NodeWorks`), all else stutters; that a verdict is "completed" only for what
is delivered is `DeliveryInv`.

### GitHubConnection

Assumed: `NoneAssumption`, `CodesAssumption`, `MaxMemoryAssumption`. Proved: `ConnectionTypes`,
`TokensStay`, `DeletedForGood`, `AuthorizedConnected` and `SpentNotOffered`.

The invariant `TokenInv` says of each record, those in a store (`StoresOK`) and those a caller
holds across its awaits (`CallersOK`), that its code was issued to its connection and its
token granted for it: the held record must be there because it comes back into the store.
Those statements are about `codes` and `opened`, which every step may change; `StepGrows`
shows that a step only adds to them (`Grows`), so what was right of a record stays right, and
each action has to account for the records it writes alone. For `SpentNotOffered`, `HomeInv`
adds that a connection is kept in one store and that nothing is stored under an id that was
never handed out: otherwise the caller that spends a code, and marks the record afterwards,
might mark another copy than the one still on offer.

### GitHubCommit

Assumed: `ManifestsAssumption`, `AutoInitAssumption`, `OwnerAssumption`,
`MaxCandidatesAssumption`. Proved: `SuccessStays`, `CreatedOnce`, `StaleBehindAnother` and
`ImplementsLog`.

`CommitInv`: what a writer has yet to commit (`left`) and what the branch has of it cover its
files (`OnItsWay`), so with nothing left, at the verification, all are there; who is past the
lookup works in a repository that exists (`Committing`); those who created one, or are about
to be told so, have different ones (`Claims`). A branch only grows, so a step of one writer
disturbs nobody else's part (`CommittedByMore`). `SeenInv`, for `StaleBehindAnother`: before its
first commit a writer has none anywhere, and from the head it read on the commits of the
branch are those of others, so what refuses its update is one of them. The head is the
greatest index the writer saw, which exists (`Greatest`) by the induction described below.
The refinement (`LogStep`) maps `PutContents` and `UpdateRef` to `Land`, `CreateUserRepo` and
`OwnerCreates` to `Open`, an answer to `Tell`, and all else to a stutter; `OwnerCreates` may be
any writer's `Open`.

### BuildLog

Assumed: `RetryLimitAssumption`, `MaxOthersAssumption`. Proved: `TypeCorrect`,
`SuccessIsCommitted`, `EntriesStayBounded` and `EntriesStay`, from `LogInv`.

What a call is about to write contains its entry, and what it verifies was committed
(`CommittedInv`). No version of the file, *and no version a call is about to write*, has an
entry more often than it was written (`CountInv`): the second half is needed because a call
may put back an older version it read. An attempt is counted once, when it is over or has
updated the branch. An entry that is not in `unread` is, once committed, in the present file
and in whatever may still land on it (`KeptInv`): what a call writes that has yet to take the
head, or took the present one (`MayLand`); a call with an older head is refused.

### LlmClient

Assumed: `RetriesAssumption`. Proved: `TypeCorrect`, `RequestsAreBounded`, `KeysAreNeeded`,
`GivingUpHasAReason` and `ImplementsTheCall` (the safety part of `KeepsThePromise`).

The operators of the module take a call and give it back changed, so the invariant is a predicate
of a call (`Good`), and one lemma per operator says what it makes of one: the requests sent are at
most those of the attempts so far, with one to spare while the fallback is yet to be asked;
whoever was asked has a key; a call that is over has its reason, and one that gave up with
attempts left, although it had a provider, was refused, and had no fallback or had asked it.

### SessionStore

Assumed: `StepsAssumption`, `TablesAssumption`, `LogStepsAssumption`, `MaxStoresAssumption`.
Proved: `TypeCorrect`, `LogsStayTheTrace`, `CleanCopies` and `RowsFollowSession`, from `StoreInv`.

What the store counts as written is in the database, in order (`LogsInv`): the logs are a
beginning of the trace because only what was not counted is inserted, after the answer of
the insert before. While a snapshot is copied (`CopyInv`) the session comes first, a table
that was emptied is filled next, and for each table either a request to fill it is still to
come or it has the rows of the snapshot, if the copy is clean; so a clean copy with nothing
left to do has them all. No row is ahead of its session (`RowsInv`), no session of the run.
Of the lists the copy is built from, `Ascending` is shown to be an enumeration, which exists
and is unique (`EnumerationExists`, `EnumerationUnique`) and grows by one with its set.

### ImportRepair, Validation, Generation

Assumed: `TasksAssumption` and `RepliesAssumption`: the batches are any functions from names
to files, in which only Python files import a bare root (`IsReply`): in a script or a schema
the code reads no such import (`agent/project_validation.py:803`).

`LeftoverImports` and `RepairSpares` are about the repair of any project: what it leaves of
the imports that led nowhere is `Accountable`, an import of a bare root, or a plain one of a
file that is gone because it imported a bare root. `TypeCorrect`,
`LiveMeansLive` and `StrictDegrades` need what is true while the stages are asked: the mode is
live just when all answers of the attempt were (`LiveInv`), a strict task has had no other
answer (`StrictInv`).

`ImportsAreRepaired` and `LittleIsDeleted`: between the two repairs of the imports files are
replaced, so neither follows from the repair alone. `RepairInv` says that from the replies to
the project a path keeps what it imports or imports no bare root, and is gone only if it did
(`Spares`, which chains along the repairs); that after `generate_files` no placeholder of the
scaffold is left (`NoPlaceholderLeft`), so that the last repair before the verdict replaces
no file and with it no import; and that after the validation the imports left over are
`Accountable` with the replies. The last repair of the imports makes them so with the files
before it, and `Spares` takes that back to the replies (`AccountableFromBefore`).

`LiveFilesSurvive`: `Survives` relates the replies to the files, through each repair in turn.
Every sound file is unchanged or has one of the reasons not to be (`Accounted`), and the two
files that decide whether the frontend and the database are replaced, the App and the
schema, are sound in the files if they were in the replies (`StaysSound`); without the second
part a repair might damage the App and so give the next one a reason to replace the rest.
The schema is asked for with two scopes, of the category and of the category it is planned
as, which agree on the database (`DatabaseIsFixed`).

`WebScaffoldStands`: a project without a live model has every file of the scaffold, as the
scaffold has it where it takes precedence, and nothing the repairs cannot mend (`Stands`).
Merging establishes that, every repair keeps it, and for an idea of a web product it is all
the validation asks for (`StandingPasses`, with the paths of the scaffold in `WebScaffold`).

Two of these properties were false as first stated, beyond the instance TLC had; each case is
now in the instance. A file deleted for its import of a bare root can come back as a stub,
when the scaffold's main file takes the place of an unfinished one that did not need it
(`BareModels`). And a placeholder in a file the scaffold does not have is replaced by
nothing, so that a run made up from the scaffold fails on it (`UnfinishedSignIn`).

### Model-checked only

All liveness: `EveryTaskEnds`, `MockRunsComplete`, `PollerLearnsOutcome`, `EveryWriterEnds`,
`EveryAppendEnds`, `PageIsTold`, and the liveness of `KeepsThePromise`. Proofs from fairness
need `ENABLED`, which the prover does not have. The provers' induction theorems that take a
predicate cannot be used either; where a proof needs induction over the natural numbers it
goes by a smallest counterexample, from the well-foundedness of `<` (`Least`, `Greatest`).
`MockBatch` and the replies of the instances are put together with operators of the module
TLC (`:>`, `@@`), of which the provers know nothing: what the mock batches import is left to
the runs.

## 5. Not modelled

- RAG (`agent/rag/*`): scraping, embedding and chunking are I/O and text; what a search
  returns is context for a prompt, which no module tells apart. The two requests of an ingest
  (delete, then insert, `agent/rag/store.py:30`) are a hazard without a property.
- The contents of files, prompts and messages. Of the repairs: import aliases of the frontend,
  taken to be the same wherever they are read (as plain imports where they are no reference), and
the six source files the stack detection
  samples (whatever brings a server brings its requirements). Of the validation: the study
  benchmark, the checks of titles, features and user flows, which the scope always satisfies,
  and checks that only warn. Of planning: which keywords name a category, the recommended
  stack, and the choice of features by depth.
- Approvals, which only a test creates; the mock store of the tools; `generate_text` and
  `stream_text`, which the program does not call; the reset of the page and its sign-in poll.
- Exceptions before the `try` of `run_task_workflow`: what runs there only copies a request
  that was validated by the same rules.

## 6. Plan

Done: `Workflow` with `TaskLifecycle`, `GitHubConnection`, `GitHubCommit` with `CommitLog`,
`BuildLog`, `LlmClient` with `StructuredCall`, `SessionStore`, and `Generation` with its four
modules of operators.

Next, most useful first:

1. An abstract specification of a connection, whose code is used once, for `GitHubConnection`,
   and the refinement.
2. Theorems about the operators of `RepoPlan`: that a task is asked for at least one stage,
   and which parts the simplified plans leave out.
3. The choice of features and routes by depth, and the checks of the validation on them.
4. `RagStore`: delete-then-insert against concurrent searches.
