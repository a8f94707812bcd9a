--------------------------- MODULE TaskLifecycle ---------------------------
(***************************************************************************)
(* What the agent API promises about a task, whatever the workflow does    *)
(* behind it: `GET /agent/tasks/{id}` shows a status and a history of      *)
(* agent steps.  A task is accepted as "started", its history only grows,  *)
(* its status is decided once, a failed task may still publish the step    *)
(* that explains the failure, and a task is shown "completed" only when    *)
(* what was promised to the user has been delivered.                       *)
(*                                                                         *)
(* The module says nothing of nodes, tools or models.  Workflow.tla        *)
(* implements it: see the refinement mapping there.                        *)
(***************************************************************************)
EXTENDS Naturals, Sequences

CONSTANTS Tasks,   \* task ids
          Steps    \* agent steps a history is made of

VARIABLES status,    \* status[t]: what the API answers for task t
          history,   \* history[t]: the agent steps it answers
          delivered  \* delivered[t]: the project is where the user expects it

vars == <<status, history, delivered>>

Statuses == {"absent", "started", "completed", "failed"}

TypeOK == /\ status \in [Tasks -> Statuses]
          /\ history \in [Tasks -> Seq(Steps)]
          /\ delivered \in [Tasks -> BOOLEAN]

Init == /\ status = [t \in Tasks |-> "absent"]
        /\ history = [t \in Tasks |-> <<>>]
        /\ delivered \in [Tasks -> BOOLEAN]

Extends(new, old) == /\ Len(old) <= Len(new)
                     /\ SubSeq(new, 1, Len(old)) = old

(* The API accepts the request. *)
Accept(t) == /\ status[t] = "absent"
             /\ status' = [status EXCEPT ![t] = "started"]
             /\ UNCHANGED <<history, delivered>>

(* Work happens that the API does not show. *)
Work(t) == /\ status[t] = "started"
           /\ \E b \in BOOLEAN : delivered' = [delivered EXCEPT ![t] = b]
           /\ UNCHANGED <<status, history>>

(* The history grows and the status may be decided. *)
Publish(t, s) == /\ status[t] = "started"
                 /\ s = "completed" => delivered[t]
                 /\ status' = [status EXCEPT ![t] = s]
                 /\ Extends(history'[t], history[t])
                 /\ \A u \in Tasks \ {t} : history'[u] = history[u]
                 /\ UNCHANGED delivered

(* A failed task publishes the step that says why, and stays failed. *)
Explain(t) == /\ status[t] = "failed"
              /\ Extends(history'[t], history[t])
              /\ \A u \in Tasks \ {t} : history'[u] = history[u]
              /\ UNCHANGED <<status, delivered>>

Next == \E t \in Tasks :
          \/ Accept(t)
          \/ Work(t)
          \/ \E s \in {"started", "completed", "failed"} : Publish(t, s)
          \/ Explain(t)

Spec == Init /\ [][Next]_vars
=============================================================================
