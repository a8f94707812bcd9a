---------------------------- MODULE GitHubCommit ----------------------------
(***************************************************************************)
(* create_repo and commit_files of tools/github_tool.py, called by several *)
(* tasks and uploads at once, one action per request to GitHub that reads  *)
(* or changes what others may change.  The tools of a task run in a thread *)
(* of their own, so their requests interleave.                             *)
(*                                                                         *)
(* A branch is the sequence of its commits.  A commit is who made it and   *)
(* the paths it writes; its tree is that of its parent with those paths    *)
(* replaced.  Blobs, trees and commits no branch points to are visible to  *)
(* nobody else and belong to the action that reads their parent; only a    *)
(* failure to make them counts, as CallFails.                              *)
(*                                                                         *)
(* Left out: mock mode, a missing token, and names or files the policy     *)
(* refuses: such a call fails before its first request.                    *)
(*                                                                         *)
(* UpdateForced, ConflictTakenForOurs, ConflictTriedAgain, HeadOfSeed and  *)
(* VerifiedAfterSeed are the definitions after them with a plausible bug;  *)
(* README.md names the property each breaks.                               *)
(***************************************************************************)
EXTENDS Integers, Sequences

CONSTANTS
  Writers,        \* runs of create_repo and commit_files: tasks and uploads
  Names,          \* requested repository names, as the prefix policy has them
  Paths,          \* paths of files
  Manifests,      \* the lists of files to commit: the first, and the others
  AutoInitPath,   \* the README GitHub puts into a new repository
  MaxCandidates,  \* max_candidates of repo_name_candidates
  Owner           \* whoever made the commits that were there before

ASSUME ManifestsAssumption ==
  Manifests \subseteq [first : Paths, rest : SUBSET Paths]
ASSUME AutoInitAssumption == AutoInitPath \in Paths
ASSUME OwnerAssumption == Owner \notin Writers
ASSUME MaxCandidatesAssumption == MaxCandidates \in Nat

VARIABLES
  request,  \* request[w]: what w was asked to do
  exists,   \* the repositories there are
  branch,   \* branch[n]: the commits of the default branch, oldest first
  writer    \* writer[w]: where w is, and what it has read

vars == <<request, exists, branch, writer>>

-----------------------------------------------------------------------------
(* A name tried for a request: as it is, tagged with the task, numbered.   *)
Repos == [name : Names, suffix : {<<"none">>} \cup {<<"task", w>> : w \in Writers}
                                 \cup {<<"number", i>> : i \in 2..MaxCandidates}]

Plain(n) == [name |-> n, suffix |-> <<"none">>]

(* "task": a task with a new repository; "existing": a task or an upload   *)
(* with use_existing_repo; "upload": upload_project with a new repository. *)
Requests == [kind : {"task", "existing", "upload"}, name : Names,
             files : Manifests]

First(w) == request[w].files.first
Files(w) == {First(w)} \cup request[w].files.rest

Commits == [by : Writers \cup {Owner}, paths : SUBSET Paths]

InitialCommit == [by |-> Owner, paths |-> {AutoInitPath}]

(* repo_name_candidates; an upload has no task id. *)
Candidates(w) ==
  LET n == request[w].name
  IN  <<Plain(n)>>
      \o (IF request[w].kind = "task"
          THEN <<[name |-> n, suffix |-> <<"task", w>>]>> ELSE <<>>)
      \o [i \in 1..(MaxCandidates - 1) |-> [name |-> n, suffix |-> <<"number", i + 1>>]]

Calling == {"get_repo", "create", "read_back", "get_ref", "contents", "put",
            "seeded", "update", "verify"}
Ended == {"success", "failed", "stale"}

Hows == {"none", "created", "reused"}

TypeOK ==
  /\ request \in [Writers -> Requests]
  /\ exists \subseteq Repos
  /\ branch \in [Repos -> Seq(Commits)]
  /\ writer \in [Writers -> [pc : Calling \cup Ended, cand : Nat, how : Hows,
                             repo : Repos, base : Nat, left : SUBSET Paths]]

(* A task asks for a repository first; "existing" is used unseen.  No       *)
(* repository is tagged with a task that has not run.                      *)
Init ==
  /\ request \in [Writers -> Requests]
  /\ exists \in SUBSET {n \in Repos : n.suffix[1] # "task"}
  /\ branch \in [Repos -> {<<>>, <<InitialCommit>>}]
  /\ \A n \in Repos \ exists : branch[n] = <<>>
  /\ writer = [w \in Writers |->
       [pc |-> IF request[w].kind = "existing" THEN "get_ref" ELSE "get_repo",
        cand |-> 1, how |-> "none", repo |-> Plain(request[w].name),
        base |-> 0, left |-> Files(w)]]

-----------------------------------------------------------------------------
(* create_repo *)

Candidate(w) == Candidates(w)[writer[w].cand]

Goto(w, pc) == writer' = [writer EXCEPT ![w].pc = pc]

(* upload_project goes on with the name it asked for, a task with the one  *)
(* it was answered.                                                        *)
Answer(w, how) ==
  writer' = [writer EXCEPT
    ![w].pc = "get_ref",
    ![w].how = how,
    ![w].repo = IF request[w].kind = "upload" THEN @ ELSE Candidate(w)]

(* get_repo, with reuse_existing. *)
GetRepo(w) ==
  /\ writer[w].pc = "get_repo"
  /\ IF Candidate(w) \in exists THEN Answer(w, "reused") ELSE Goto(w, "create")
  /\ UNCHANGED <<request, exists, branch>>

ConflictTriedAgain(w) == UNCHANGED writer

ConflictTakenForOurs(w) == Goto(w, "read_back")

(* The name was taken between get_repo and create_user_repo: the next one. *)
Conflict(w) ==
  IF writer[w].cand < Len(Candidates(w))
  THEN writer' = [writer EXCEPT ![w].cand = @ + 1, ![w].pc = "get_repo"]
  ELSE Goto(w, "failed")

(* create_user_repo; its answer may be lost. *)
CreateUserRepo(w) ==
  LET n == Candidate(w)
  IN  /\ writer[w].pc = "create"
      /\ \/ /\ n \in exists
            /\ Conflict(w)
            /\ UNCHANGED <<exists, branch>>
         \/ /\ n \notin exists
            /\ exists' = exists \cup {n}
            /\ branch' = [branch EXCEPT ![n] = <<InitialCommit>>]
            /\ \E pc \in {"read_back", "failed"} : Goto(w, pc)
      /\ UNCHANGED request

ReadBack(w) ==
  /\ writer[w].pc = "read_back"
  /\ Answer(w, "created")
  /\ UNCHANGED <<request, exists, branch>>

-----------------------------------------------------------------------------
(* commit_files *)

Branch(w) == branch[writer[w].repo]

HeadOfSeed(w) == writer[w].base

HeadSeen(w) == Len(Branch(w))

(* get_repo, get_ref and get_commit; GitHub answers 409 for the ref of an  *)
(* empty repository, which is then seeded.                                 *)
GetRef(w) ==
  /\ writer[w].pc = "get_ref"
  /\ \/ /\ writer[w].repo \notin exists
        /\ Goto(w, "failed")
     \/ /\ writer[w].repo \in exists
        /\ IF Branch(w) = <<>>
           THEN Goto(w, "contents")
           ELSE writer' = [writer EXCEPT ![w].pc = "update",
                                         ![w].base = HeadSeen(w)]
  /\ UNCHANGED <<request, exists, branch>>

(* The commit path p is as of, which stands for the sha of its blob. *)
LastSeen(p, s) ==
  LET touching == {i \in DOMAIN s : p \in s[i].paths}
  IN  IF touching = {} THEN 0
      ELSE CHOOSE i \in touching : \A j \in touching : j <= i

(* get_contents_sha of _commit_files_to_empty_repository: another writer   *)
(* may have seeded the repository meanwhile.                               *)
GetContentsSha(w) ==
  /\ writer[w].pc = "contents"
  /\ writer' = [writer EXCEPT ![w].pc = "put",
                              ![w].base = LastSeen(First(w), Branch(w))]
  /\ UNCHANGED <<request, exists, branch>>

Pushed(w, s, paths) == Append(s, [by |-> w, paths |-> paths])

VerifiedAfterSeed(w, left) == "verify"

AfterPut(w, left) == IF left = {} THEN "verify" ELSE "seeded"

(* put_contents: refused unless the sha is that of the file there is. *)
PutContents(w) ==
  LET p == First(w)
      n == writer[w].repo
      left == writer[w].left \ {p}
  IN  /\ writer[w].pc = "put"
      /\ \/ /\ LastSeen(p, Branch(w)) = writer[w].base
            /\ branch' = [branch EXCEPT ![n] = Pushed(w, @, {p})]
            /\ \E pc \in {AfterPut(w, left), "failed"} :
                 writer' = [writer EXCEPT ![w].pc = pc, ![w].left = left]
         \/ /\ LastSeen(p, Branch(w)) # writer[w].base
            /\ Goto(w, "stale")
            /\ UNCHANGED branch
      /\ UNCHANGED <<request, exists>>

(* get_ref and get_commit for the files that are left. *)
GetRefSeeded(w) ==
  /\ writer[w].pc = "seeded"
  /\ writer' = [writer EXCEPT ![w].pc = "update", ![w].base = HeadSeen(w)]
  /\ UNCHANGED <<request, exists, branch>>

UpdateForced(w) ==
  branch' = [branch EXCEPT ![writer[w].repo] =
               Pushed(w, SubSeq(@, 1, writer[w].base), writer[w].left)]

(* update_ref without force: fast-forward only. *)
FastForward(w) ==
  /\ Len(Branch(w)) = writer[w].base
  /\ branch' = [branch EXCEPT ![writer[w].repo] = Pushed(w, @, writer[w].left)]

UpdateRef(w) ==
  /\ writer[w].pc = "update"
  /\ \/ /\ FastForward(w)
        /\ \E pc \in {"verify", "failed"} :
             writer' = [writer EXCEPT ![w].pc = pc, ![w].left = {}]
     \/ /\ Len(Branch(w)) # writer[w].base
        /\ Goto(w, "stale")
        /\ UNCHANGED branch
  /\ UNCHANGED <<request, exists>>

(* verify_commit: a commit that was made is found. *)
VerifyCommit(w) ==
  /\ writer[w].pc = "verify"
  /\ Goto(w, "success")
  /\ UNCHANGED <<request, exists, branch>>

(* A request times out, is refused or never arrives. *)
CallFails(w) ==
  /\ writer[w].pc \in Calling
  /\ Goto(w, "failed")
  /\ UNCHANGED <<request, exists, branch>>

(* The user opens a repository by hand, under a name just found free. *)
OwnerCreates(w) ==
  /\ writer[w].pc = "create"
  /\ Candidate(w) \notin exists
  /\ exists' = exists \cup {Candidate(w)}
  /\ branch' \in {branch, [branch EXCEPT ![Candidate(w)] = <<InitialCommit>>]}
  /\ UNCHANGED <<request, writer>>

-----------------------------------------------------------------------------
CreateRepo(w) == GetRepo(w) \/ CreateUserRepo(w) \/ ReadBack(w)

CommitFiles(w) ==
  \/ GetRef(w)
  \/ GetContentsSha(w)
  \/ PutContents(w)
  \/ GetRefSeeded(w)
  \/ UpdateRef(w)
  \/ VerifyCommit(w)

Call(w) == CreateRepo(w) \/ CommitFiles(w)

Next ==
  \E w \in Writers : Call(w) \/ CallFails(w) \/ OwnerCreates(w)

Spec == Init /\ [][Next]_vars

(* Every request is answered, or times out after twenty seconds. *)
FairSpec == Spec /\ \A w \in Writers : WF_vars(Call(w))

-----------------------------------------------------------------------------
(* What must hold *)

CommittedBy(w, s) == UNION {s[i].paths : i \in {j \in DOMAIN s : s[j].by = w}}

(* Who is answered success finds every one of its files committed in the   *)
(* repository it committed to, whatever others did to the branch between   *)
(* its requests, and also when the repository had to be seeded first.      *)
SuccessIsOnBranch ==
  \A w \in Writers :
    writer[w].pc = "success" => Files(w) \subseteq CommittedBy(w, Branch(w))

(* A repository answered as created was there before for nobody: not for a *)
(* second caller, though the name is looked up in one request and claimed  *)
(* in another, and one claimed meanwhile is left to its owner.             *)
CreatedIsOwn ==
  \A w, x \in Writers :
    w # x /\ writer[w].how = "created" /\ writer[x].how = "created" =>
      Candidate(w) # Candidate(x)

(* A commit is only refused as stale behind one of somebody else that came *)
(* in after the writer had read the branch: the two commits that fill an   *)
(* empty repository do not get into each other's way.                      *)
StaleOnlyBehindAnother ==
  \A w \in Writers :
    writer[w].pc = "stale" =>
      \E i \in DOMAIN Branch(w) : i > writer[w].base /\ Branch(w)[i].by # w

Told(pc) == CASE pc = "success"             -> "success"
              [] pc \in {"failed", "stale"} -> "failed"
              [] OTHER                      -> "none"

Log == INSTANCE CommitLog WITH
  log <- branch,
  wanted <- [w \in Writers |-> Files(w)],
  told <- [w \in Writers |-> Told(writer[w].pc)]

(* The requests, taken together, implement a log to which commits are      *)
(* appended: no commit of another writer is ever dropped from a branch.    *)
ImplementsCommitLog == Log!Spec

(* However the names of its candidates are taken, every call ends. *)
EveryWriterEnds == \A w \in Writers : <>(writer[w].pc \in Ended)

-----------------------------------------------------------------------------
(* What the repository says of the program, and the program does not do *)

(* README.md:66: the GitHub tool commits the artifact tree as a single     *)
(* commit.                                                                 *)
SingleCommit ==
  \A w \in Writers :
    writer[w].pc = "success" =>
      \E i \in DOMAIN Branch(w) : /\ Branch(w)[i].by = w
                                  /\ Branch(w)[i].paths = Files(w)
=============================================================================
