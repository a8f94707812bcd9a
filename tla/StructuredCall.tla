---- MODULE StructuredCall ----
(***************************************************************************)
(* What the workflow is promised by one structured call of its model       *)
(* client, whichever provider answers and however often it is asked: one   *)
(* result, of a kind that the settings permit for the purpose of the call. *)
(*                                                                         *)
(*   "live"      an output of a configured provider                        *)
(*   "degraded"  the output that is computed from the idea alone           *)
(*   "error"     a ModelClientError                                        *)
(***************************************************************************)
EXTENDS Naturals

VARIABLES
    permitted,  \* the kinds of result this call may have
    result      \* "none" until the call has returned or raised

callVars == <<permitted, result>>

Results == {"live", "degraded", "error"}

CallInit ==
    /\ permitted \in (SUBSET Results) \ {{}}
    /\ result = "none"

Answer ==
    /\ result = "none"
    /\ result' \in permitted
    /\ UNCHANGED permitted

CallSpec == CallInit /\ [][Answer]_callVars

CallFairSpec == CallSpec /\ WF_callVars(Answer)

====
