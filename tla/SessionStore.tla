---------------------------- MODULE SessionStore ----------------------------
(***************************************************************************)
(* SupabasePersistingTaskStore: tasks in memory, and after every change a  *)
(* best-effort copy in the tables of Supabase; the job that writes it, the *)
(* page that polls, a reload of the settings, which replaces the store     *)
(* while jobs run, a crash of the process, and its restart.                *)
(*                                                                         *)
(* The client of Supabase is synchronous: while a snapshot is copied the   *)
(* event loop serves nobody, and only the end of the process comes between *)
(* two of its requests.  What a snapshot holds is its number: it stands    *)
(* for the plan, the timeline and whatever else grows with the run.        *)
(* TaskLifecycle and Workflow have the order of the writes to memory.      *)
(*                                                                         *)
(* OnlyNewest, SkipFailed, JobEnds and CountFirst are the definitions after *)
(* them with a plausible bug.                                              *)
(***************************************************************************)
EXTENDS Integers, Sequences, SequencesExt

CONSTANTS
  Tasks,
  Steps,       \* snapshots of a run that no exception ends
  Tables,      \* the tables replaced row by row, in the order they are written
  FirstStep,   \* FirstStep[tb]: the first snapshot with a row for tb
  LogSteps,    \* the snapshots that add an entry to the agent logs
  MaxStores    \* bound: stores built, by restarts and reloads

ASSUME StepsAssumption == Steps \in Nat \ {0}
ASSUME TablesAssumption ==
  Tables \in Seq(ToSet(Tables)) /\ FirstStep \in [ToSet(Tables) -> 1..Steps]
ASSUME LogStepsAssumption == LogSteps \subseteq 1..Steps
ASSUME MaxStoresAssumption == MaxStores \in Nat \ {0}

VARIABLES
  server,    \* the process: is it up, and the store new requests find
  persists,  \* persists[s]: store s has a client of Supabase
  memory,    \* memory[s][t]: the record of t in store s
  db,        \* db[t]: the rows of t
  job,       \* job[t]: the background job that runs t
  page       \* page[t]: the tab that launched t

vars == <<server, persists, memory, db, job, page>>

-----------------------------------------------------------------------------
Stores == 1..MaxStores
TableSet == ToSet(Tables)

Absent == [step |-> 0, status |-> "absent", counted |-> 0]

(* counted is _persisted_log_count. *)
TaskRecords == [step : 0..Steps, status : {"absent", "started", "completed", "failed"},
                counted : 0..Steps]

(* str() of a TaskStatus, as the failure state of the service has it, is    *)
(* its name; the nodes of the graph use plain strings.                     *)
RowStatuses == {"absent", "started", "completed", "failed", "TaskStatus.FAILED"}

Rows == [step : 0..Steps, status : RowStatuses, row : [TableSet -> 0..Steps],
         logs : Seq(LogSteps)]

Requests == {<<"upsert">>, <<"logs">>}
            \cup ({"delete", "insert"} \X TableSet)

Jobs == [pc : {"none", "queued", "node", "persist", "done", "killed"}, store : Stores,
         step : 0..Steps,       \* snapshots taken
         raised : BOOLEAN,      \* the last one is that of an exception
         ends : BOOLEAN,        \* nothing of the run follows the last one
         todo : Seq(Requests),  \* what is left of copying it
         clean : BOOLEAN,       \* no request of the copy has failed
         doubled : BOOLEAN]     \* history: an insert of logs took effect and failed

Pages == {"none", "polling", "told", "gone"}

TypeOK ==
  /\ server \in [up : BOOLEAN, store : Stores]
  /\ persists \in [Stores -> BOOLEAN]
  /\ memory \in [Stores -> [Tasks -> TaskRecords]]
  /\ db \in [Tasks -> Rows]
  /\ job \in [Tasks -> Jobs]
  /\ page \in [Tasks -> Pages]

(* Each store is built with the settings of its time. *)
Init ==
  /\ server = [up |-> TRUE, store |-> 1]
  /\ persists \in [Stores -> BOOLEAN]
  /\ memory = [s \in Stores |-> [t \in Tasks |-> Absent]]
  /\ db = [t \in Tasks |-> [step |-> 0, status |-> "absent",
                            row |-> [tb \in TableSet |-> 0], logs |-> <<>>]]
  /\ job = [t \in Tasks |-> [pc |-> "none", store |-> 1, step |-> 0, raised |-> FALSE,
                             ends |-> FALSE, todo |-> <<>>, clean |-> TRUE, doubled |-> FALSE]]
  /\ page = [t \in Tasks |-> "none"]

-----------------------------------------------------------------------------
(* What a snapshot holds *)

(* The failure state has none of the keys the tables are filled from. *)
Carried(t) ==
  IF job[t].raised THEN {} ELSE {tb \in TableSet : FirstStep[tb] <= job[t].step}

(* The members of S in their order. *)
Ascending(S) ==
  CHOOSE s \in [1..Cardinality(S) -> S] :
    \A i, j \in DOMAIN s : i < j => s[i] < s[j]

LogsAt(n) == Ascending(LogSteps \cap 1..n)

CarriedLogs(t) == IF job[t].raised THEN <<>> ELSE LogsAt(job[t].step)

(* The tables that snapshot n has rows for, each emptied and filled. *)
Replacing(n) ==
  LET due == Ascending({i \in DOMAIN Tables : FirstStep[Tables[i]] <= n})
  IN  [k \in 1..(2 * Len(due)) |->
        <<IF k % 2 = 1 THEN "delete" ELSE "insert", Tables[due[(k + 1) \div 2]]>>]

(* _persist_snapshot; the logs are written only when there are new ones. *)
PersistRequests(t, raised, n) ==
  <<<<"upsert">>>>
  \o (IF raised THEN <<>> ELSE Replacing(n))
  \o (IF raised \/ Len(LogsAt(n)) <= memory[job[t].store][t].counted THEN <<>>
      ELSE <<<<"logs">>>>)

Decided(status) == status \in {"completed", "failed"}

(* The event loop is busy copying a snapshot. *)
Blocked == \E t \in Tasks : job[t].pc = "persist"

Serving == server.up /\ ~Blocked

-----------------------------------------------------------------------------
(* create_task; its upsert may fail, or take effect and fail. *)
CreateTask(t) ==
  /\ Serving
  /\ job[t].pc = "none"
  /\ memory' = [memory EXCEPT ![server.store][t].status = "started"]
  /\ job' = [job EXCEPT ![t].pc = "queued", ![t].store = server.store]
  /\ page' = [page EXCEPT ![t] = "polling"]
  /\ \/ /\ persists[server.store]
        /\ db' = [db EXCEPT ![t].status = "started"]
     \/ UNCHANGED db
  /\ UNCHANGED <<server, persists>>

AfterSnapshot(ends) == IF ends THEN "done" ELSE "node"

Snapshot(t, status, raised, ends) ==
  LET s == job[t].store
      n == job[t].step + 1
  IN  /\ job[t].pc \in {"queued", "node"}
      /\ ~Blocked
      /\ n <= Steps
      /\ memory' = [memory EXCEPT ![s][t].step = n, ![s][t].status = status]
      /\ job' = [job EXCEPT ![t].step = n, ![t].raised = raised, ![t].clean = TRUE,
                            ![t].ends = ends,
                            ![t].pc = IF persists[s] THEN "persist" ELSE AfterSnapshot(ends),
                            ![t].todo = IF persists[s] THEN PersistRequests(t, raised, n) ELSE <<>>]
      /\ UNCHANGED <<server, persists, db, page>>

(* snapshot_task with the next state of the graph: that of a node on the    *)
(* way, which may set the status to failed; of report_result, the last; or  *)
(* of the node named failed, where every failure ends, whether a node has   *)
(* set the status before or only its verdict sends the run there.  astream  *)
(* hands over the initial state before any node runs.                      *)
SnapshotTask(t) ==
  LET failing == memory[job[t].store][t].status = "failed"
      last    == job[t].step + 1 = Steps
      ran     == job[t].pc = "node"
  IN  \/ ~failing /\ ~last /\ Snapshot(t, "started", FALSE, FALSE)
      \/ ~failing /\ ~last /\ ran /\ Snapshot(t, "failed", FALSE, FALSE)
      \/ ~failing /\ last /\ Snapshot(t, "completed", FALSE, TRUE)
      \/ ran /\ Snapshot(t, "failed", FALSE, TRUE)

(* The except clause of run_task_workflow. *)
SnapshotFailure(t) == job[t].pc = "node" /\ Snapshot(t, "failed", TRUE, TRUE)

-----------------------------------------------------------------------------
(* The requests of _persist_snapshot *)

RowStatus(t) ==
  IF job[t].raised THEN "TaskStatus.FAILED" ELSE memory[job[t].store][t].status

OnlyNewest(t) ==
  LET entries == CarriedLogs(t)
  IN  IF Len(entries) > memory[job[t].store][t].counted THEN <<Last(entries)>> ELSE <<>>

NewLogs(t) ==
  LET entries == CarriedLogs(t)
  IN  SubSeq(entries, memory[job[t].store][t].counted + 1, Len(entries))

Effect(t, request) ==
  CASE request[1] = "upsert" ->
         [db[t] EXCEPT !.step = job[t].step, !.status = RowStatus(t)]
    [] request[1] = "delete" -> [db[t] EXCEPT !.row[request[2]] = 0]
    [] request[1] = "insert" -> [db[t] EXCEPT !.row[request[2]] = job[t].step]
    [] request[1] = "logs"   -> [db[t] EXCEPT !.logs = @ \o NewLogs(t)]

SkipFailed(t) == [job[t] EXCEPT !.todo = Tail(@), !.clean = FALSE]

JobEnds(t) == [job[t] EXCEPT !.todo = <<>>, !.clean = FALSE, !.pc = "done"]

(* Any failure is logged and ends the copy, not the job. *)
RequestFailed(t) == [job[t] EXCEPT !.todo = <<>>, !.clean = FALSE]

CountFirst(t) ==
  memory' = [memory EXCEPT ![job[t].store][t].counted = Len(CarriedLogs(t))]

CountOnFailure(t) == UNCHANGED memory

CountLogs(t) ==
  memory' = [memory EXCEPT ![job[t].store][t].counted = Len(CarriedLogs(t))]

PersistRequest(t) ==
  LET request == Head(job[t].todo)
      logs == request[1] = "logs"
  IN  /\ job[t].pc = "persist"
      /\ job[t].todo # <<>>
      /\ \/ /\ db' = [db EXCEPT ![t] = Effect(t, request)]
            /\ job' = [job EXCEPT ![t].todo = Tail(@)]
            /\ IF logs THEN CountLogs(t) ELSE UNCHANGED memory
         \/ /\ job' = [job EXCEPT ![t] = RequestFailed(t)]
            /\ IF logs THEN CountOnFailure(t) ELSE UNCHANGED memory
            /\ UNCHANGED db
         \/ /\ db' = [db EXCEPT ![t] = Effect(t, request)]
            /\ job' = [job EXCEPT ![t] = [RequestFailed(t) EXCEPT !.doubled = @ \/ logs]]
            /\ IF logs THEN CountOnFailure(t) ELSE UNCHANGED memory
      /\ UNCHANGED <<server, persists, page>>

Persisted(t) ==
  /\ job[t].pc = "persist"
  /\ job[t].todo = <<>>
  /\ job' = [job EXCEPT ![t].pc = AfterSnapshot(job[t].ends)]
  /\ UNCHANGED <<server, persists, memory, db, page>>

-----------------------------------------------------------------------------
(* pollTask returns without a timer when the answer is an error. *)
AnsweredNotFound == "gone"

(* A poll that cannot reach the server is repeated.  get_task of the store  *)
(* reads memory only.                                                      *)
PollTask(t) ==
  /\ Serving
  /\ page[t] = "polling"
  /\ page' = [page EXCEPT ![t] =
       CASE memory[server.store][t].status = "absent"      -> AnsweredNotFound
         [] Decided(memory[server.store][t].status)        -> "told"
         [] OTHER                                          -> "polling"]
  /\ UNCHANGED <<server, persists, memory, db, job>>

(* The tab is reloaded and finds the task in its session storage. *)
ReloadPage(t) ==
  /\ page[t] \in {"told", "gone"}
  /\ page' = [page EXCEPT ![t] = "polling"]
  /\ UNCHANGED <<server, persists, memory, db, job>>

(* reload_runtime_settings: jobs keep the service they were started by. *)
ReloadRuntimeSettings ==
  /\ Serving
  /\ server.store < MaxStores
  /\ server' = [server EXCEPT !.store = @ + 1]
  /\ UNCHANGED <<persists, memory, db, job, page>>

Crash ==
  /\ server.up
  /\ server.store < MaxStores
  /\ server' = [server EXCEPT !.up = FALSE]
  /\ memory' = [s \in Stores |-> [t \in Tasks |-> Absent]]
  /\ job' = [t \in Tasks |->
       IF job[t].pc \in {"none", "done"} THEN job[t]
       ELSE [job[t] EXCEPT !.pc = "killed", !.todo = <<>>]]
  /\ UNCHANGED <<persists, db, page>>

Restart ==
  /\ ~server.up
  /\ server' = [up |-> TRUE, store |-> server.store + 1]
  /\ UNCHANGED <<persists, memory, db, job, page>>

-----------------------------------------------------------------------------
Run(t) ==
  \/ SnapshotTask(t)
  \/ SnapshotFailure(t)
  \/ PersistRequest(t)
  \/ Persisted(t)

Next ==
  \/ \E t \in Tasks : CreateTask(t) \/ Run(t) \/ PollTask(t) \/ ReloadPage(t)
  \/ ReloadRuntimeSettings
  \/ Crash
  \/ Restart

(* A request to Supabase has a timeout, a node ends, and a page that stays  *)
(* open polls; a process that is down need not come back.                  *)
Spec ==
  /\ Init /\ [][Next]_vars
  /\ \A t \in Tasks : WF_vars(Run(t)) /\ WF_vars(PollTask(t))

-----------------------------------------------------------------------------
(* What must hold *)

(* The agent logs in the database are those of the run, in their order and *)
(* without a gap, however many copies failed before they were written; one *)
(* appears twice only if the answer to its insert was lost.                *)
LogsAreTheTrace ==
  \A t \in Tasks :
    ~job[t].doubled => IsPrefix(db[t].logs, LogsAt(job[t].step))

(* A copy none of whose requests failed makes up for every earlier one that *)
(* failed half way: the rows are those of the snapshot, all of them.       *)
CleanCopyHeals ==
  \A t \in Tasks :
    job[t].pc = "persist" /\ job[t].todo = <<>> /\ job[t].clean =>
      /\ db[t].step = job[t].step
      /\ \A tb \in Carried(t) : db[t].row[tb] = job[t].step
      /\ \A i \in DOMAIN CarriedLogs(t) : Contains(db[t].logs, CarriedLogs(t)[i])

(* A row of another table is never from a later snapshot than the session  *)
(* it belongs to, wherever a copy broke off.                               *)
RowsNotAheadOfSession ==
  \A t \in Tasks, tb \in TableSet : db[t].row[tb] <= db[t].step

(* A page that polls is told how the task ended, whatever becomes of the   *)
(* copies and however often the page is reloaded, as long as the process   *)
(* and the store that runs the task are there to be asked.                 *)
PageIsTold ==
  \A t \in Tasks :
    page[t] = "polling" ~> page[t] = "told" \/ ~server.up \/ server.store # job[t].store

-----------------------------------------------------------------------------
(* What the repository says of the program, and the program does not do *)

(* README.md:76: task state is stored in Supabase, so that a task can be   *)
(* polled without the backend holding it in memory: no poll for a task     *)
(* that has its session there is answered not found.                       *)
StoredTaskIsFound ==
  \A t \in Tasks : page[t] = "gone" => db[t].status = "absent"

(* agent/schemas.py:28-32: the statuses of a task; the session is stored    *)
(* with one of them.                                                       *)
SessionHasATaskStatus ==
  \A t \in Tasks : db[t].status \in {"absent", "started", "completed", "failed"}
=============================================================================
