----------------------------- MODULE MCBuildLog -----------------------------
(* BuildLog for TLC. *)
EXTENDS BuildLog

CONSTANTS a1, a2

MCAppenders == {a1, a2}
=============================================================================
