------------------------- MODULE MCGitHubConnection -------------------------
(* GitHubConnection for TLC. *)
EXTENDS GitHubConnection, TLC

CONSTANTS c1, c2, x1, x2, k1, k2, e1, e2

MCConnections == {c1, c2}
MCCallers == {x1, x2}
MCCodes == {k1, k2}
MCEnvTokens == {e1, e2}

Symmetry == Permutations(MCConnections) \cup Permutations(MCCallers)
              \cup Permutations(MCCodes) \cup Permutations(MCEnvTokens)
=============================================================================
