------------------------------ MODULE BuildLog ------------------------------
(***************************************************************************)
(* append_build_log of tools/repo_writer.py: read the log file, write it   *)
(* back with one more entry through commit_files, look whether the entry   *)
(* can be read, and do it all once more if not.  The calls of several      *)
(* tasks interleave, and other commits go to the same branch.              *)
(*                                                                         *)
(* commit_files is the two requests that matter here, get_ref and          *)
(* update_ref (see GitHubCommit, whose branch is a log of commits).  The   *)
(* contents API may lag behind by a commit.  Left out: mock mode, which is *)
(* one step, and calls refused before their first request.                 *)
(*                                                                         *)
(* AgainUncounted, UpdateForced and TakenAsCommitted are the definitions    *)
(* after them with a plausible bug.                                        *)
(***************************************************************************)
EXTENDS Naturals, Sequences, FiniteSets, SequencesExt

CONSTANTS
  Appenders,    \* calls of append_build_log, each with its own entry
  RetryLimit,   \* BUILD_LOG_RETRY_LIMIT
  MaxOthers     \* bound: how many other commits go to the branch

ASSUME RetryLimitAssumption == RetryLimit \in Nat
ASSUME MaxOthersAssumption == MaxOthers \in Nat

VARIABLES
  versions,  \* versions[i]: the entries of the log file as of commit i
  others,    \* how many other commits there have been
  call,      \* call[x]: where x is, and what it holds
  unread     \* history: the entries some call did not find in what it read

vars == <<versions, others, call, unread>>

-----------------------------------------------------------------------------
Running == {"ref", "update", "verify", "wait", "check"}
Ended == {"success", "failed"}

Log == Seq(Appenders)

TypeOK ==
  /\ versions \in Seq(Log) /\ versions # <<>>
  /\ others \in 0..MaxOthers
  /\ call \in [Appenders -> [pc : {"idle", "read"} \cup Running \cup Ended,
                             attempt : 0..RetryLimit, updated : Log, base : Nat]]
  /\ unread \subseteq Appenders

Init ==
  /\ versions = << <<>> >>
  /\ others = 0
  /\ call = [x \in Appenders |->
               [pc |-> "idle", attempt |-> 0, updated |-> <<>>, base |-> 0]]
  /\ unread = {}

Current == versions[Len(versions)]

(* What the contents API may answer. *)
Readable == {Current} \cup
            (IF Len(versions) > 1 THEN {versions[Len(versions) - 1]} ELSE {})

Goto(x, pc) == call' = [call EXCEPT ![x].pc = pc]

Others(x) == Appenders \ {x}

-----------------------------------------------------------------------------
Begin(x) ==
  /\ call[x].pc = "idle"
  /\ Goto(x, "read")
  /\ UNCHANGED <<versions, others, unread>>

MayRetry(x) == call[x].attempt < RetryLimit

AgainUncounted(x) == Goto(x, "read")

(* After a failed commit or verification, or an exception. *)
Again(x) ==
  call' = IF MayRetry(x)
          THEN [call EXCEPT ![x].pc = "read", ![x].attempt = @ + 1]
          ELSE [call EXCEPT ![x].pc = "failed"]

(* The entries of a log that another lacks. *)
Missing(log, other) == {x \in Appenders : Contains(log, x) /\ ~Contains(other, x)}

Updated(existing, x) == Append(existing, x)

(* get_file_text; a file that cannot be read counts as one there is not.   *)
ReadLog(x) ==
  /\ call[x].pc = "read"
  /\ \E existing \in Readable \cup {<<>>} :
       /\ call' = [call EXCEPT ![x].pc = "ref",
                               ![x].updated = Updated(existing, x)]
       /\ unread' = unread \cup Missing(Current, existing)
  /\ UNCHANGED <<versions, others>>

(* commit_files, up to the commit object. *)
GetRef(x) ==
  /\ call[x].pc = "ref"
  /\ \/ call' = [call EXCEPT ![x].pc = "update", ![x].base = Len(versions)]
     \/ Again(x)
  /\ UNCHANGED <<versions, others, unread>>

UpdateForced(x) == TRUE

(* update_ref is sent with force false. *)
FastForward(x) == Len(versions) = call[x].base

TakenAsCommitted(x) == Goto(x, "wait")

NotCommitted(x) == Again(x)

(* What lands on the branch after another call has read the log, and before *)
(* that call takes the head to build its commit on.                        *)
ReadTooEarly(x) ==
  UNION {Missing(call[x].updated, call[y].updated) : y \in {z \in Others(x) : call[z].pc = "ref"}}

(* update_ref, refused when it is no fast-forward; its answer may be lost. *)
UpdateRef(x) ==
  /\ call[x].pc = "update"
  /\ \/ /\ FastForward(x)
        /\ versions' = Append(versions, call[x].updated)
        /\ unread' = unread \cup ReadTooEarly(x)
        /\ Goto(x, "verify") \/ Again(x)
     \/ /\ NotCommitted(x)
        /\ UNCHANGED <<versions, unread>>
  /\ UNCHANGED others

(* verify_commit in commit_files, which may fail though the commit landed. *)
VerifyCommit(x) ==
  /\ call[x].pc = "verify"
  /\ Goto(x, "wait") \/ Again(x)
  /\ UNCHANGED <<versions, others, unread>>

(* _wait_for_file_entry: the entry shows in one of three reads, or in none.*)
WaitForFileEntry(x) ==
  /\ call[x].pc = "wait"
  /\ \/ /\ \E seen \in Readable : Contains(seen, x)
        /\ Goto(x, "success")
     \/ Goto(x, "check")
     \/ Again(x)
  /\ UNCHANGED <<versions, others, unread>>

(* The commit itself is looked up where its contents cannot be read. *)
CheckCommit(x) ==
  /\ call[x].pc = "check"
  /\ Goto(x, "success") \/ Again(x)
  /\ UNCHANGED <<versions, others, unread>>

(* A commit that does not touch the log, of a task that uses the branch. *)
OtherCommit ==
  /\ others < MaxOthers
  /\ others' = others + 1
  /\ versions' = Append(versions, Current)
  /\ UNCHANGED <<call, unread>>

-----------------------------------------------------------------------------
Step(x) ==
  \/ ReadLog(x)
  \/ GetRef(x)
  \/ UpdateRef(x)
  \/ VerifyCommit(x)
  \/ WaitForFileEntry(x)
  \/ CheckCommit(x)

Next == OtherCommit \/ \E x \in Appenders : Begin(x) \/ Step(x)

(* Every request has a timeout. *)
Spec == Init /\ [][Next]_vars /\ \A x \in Appenders : WF_vars(Step(x))

-----------------------------------------------------------------------------
(* What must hold *)

(* Who is answered success has had its entry committed, whichever of the   *)
(* two ways of verifying said so and however often it was tried.           *)
SuccessWasCommitted ==
  \A x \in Appenders :
    call[x].pc = "success" => \E i \in DOMAIN versions : Contains(versions[i], x)

(* An entry is written again only when the attempt before looked failed:   *)
(* never more often than there are attempts.                               *)
EntriesBounded ==
  \A x \in Appenders, i \in DOMAIN versions :
    Cardinality({j \in DOMAIN versions[i] : versions[i][j] = x}) <= RetryLimit + 1

(* However calls interleave, an entry that was once in the file is lost only *)
(* by a call that had not read it, because its read failed or lagged or came *)
(* before the entry was committed: from the moment a call has taken the head *)
(* to build on, nothing that lands in between is overwritten.              *)
LostOnlyUnread ==
  \A x \in Appenders \ unread, i \in DOMAIN versions :
    Contains(versions[i], x) => Contains(Current, x)

(* Every call ends, though it starts over when it cannot verify. *)
EveryAppendEnds == \A x \in Appenders : call[x].pc = "read" ~> call[x].pc \in Ended

-----------------------------------------------------------------------------
(* What the repository says of the program, and the program does not do *)

(* tests/test_person3_github_tool.py:489-498: an append preserves previous *)
(* entries: of two that were answered success the log has both.            *)
PreservesPreviousEntries ==
  \A x \in Appenders : call[x].pc = "success" => Contains(Current, x)
=============================================================================
