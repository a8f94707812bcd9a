--------------------------- MODULE MCSessionStore ---------------------------
(* SessionStore for TLC. *)
EXTENDS SessionStore

CONSTANTS t1, requirements, architectures

MCTasks == {t1}
MCTables == <<requirements, architectures>>
MCFirstStep == (requirements :> 2) @@ (architectures :> 3)
MCLogSteps == {1, 2}
=============================================================================
