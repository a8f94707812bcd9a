---------------------------- MODULE MCGitHubCommit ----------------------------
(* GitHubCommit for TLC. *)
EXTENDS GitHubCommit

CONSTANTS w1, w2, n1, readme, code

MCWriters == {w1, w2}
MCNames == {n1}
MCPaths == {readme, code}
MCManifests == {[first |-> readme, rest |-> {}],
                [first |-> readme, rest |-> {code}],
                [first |-> code, rest |-> {readme}]}
=============================================================================
