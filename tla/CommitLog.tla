------------------------------ MODULE CommitLog ------------------------------
(***************************************************************************)
(* What the callers of the GitHub tools may rely on, whoever else commits  *)
(* to the same repository: a branch is a log to which commits are only     *)
(* appended, and who is told of success finds all its files in the log.    *)
(***************************************************************************)
EXTENDS Naturals, Sequences

CONSTANTS Writers, Repos, Paths, Owner

VARIABLES
  log,     \* log[n]: the commits of repository n, oldest first
  wanted,  \* wanted[w]: the files w wants committed
  told     \* told[w]: what w was answered

vars == <<log, wanted, told>>

Commits == [by : Writers \cup {Owner}, paths : SUBSET Paths]

CommittedBy(w, s) == UNION {s[i].paths : i \in {j \in DOMAIN s : s[j].by = w}}

Init ==
  /\ log \in [Repos -> {s \in Seq(Commits) : \A i \in DOMAIN s : s[i].by = Owner}]
  /\ wanted \in [Writers -> SUBSET Paths]
  /\ told = [w \in Writers |-> "none"]

Land(w, n) ==
  /\ told[w] = "none"
  /\ \E ps \in SUBSET wanted[w] :
       log' = [log EXCEPT ![n] = Append(@, [by |-> w, paths |-> ps])]
  /\ told' \in {told, [told EXCEPT ![w] = "failed"]}
  /\ UNCHANGED wanted

(* A repository comes with a commit of its owner, the README of GitHub. *)
Open(w, n) ==
  /\ \E ps \in SUBSET Paths :
       log' = [log EXCEPT ![n] = Append(@, [by |-> Owner, paths |-> ps])]
  /\ told' \in {told, [told EXCEPT ![w] = "failed"]}
  /\ UNCHANGED wanted

Tell(w, answer) ==
  /\ told[w] = "none"
  /\ answer = "success" => \E n \in Repos : wanted[w] \subseteq CommittedBy(w, log[n])
  /\ told' = [told EXCEPT ![w] = answer]
  /\ UNCHANGED <<log, wanted>>

Next ==
  \E w \in Writers :
    \/ \E n \in Repos : Land(w, n) \/ Open(w, n)
    \/ Tell(w, "success")
    \/ Tell(w, "failed")

Spec == Init /\ [][Next]_vars
=============================================================================
