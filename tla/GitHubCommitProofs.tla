------------------------- MODULE GitHubCommitProofs -------------------------
(***************************************************************************)
(* Theorems about GitHubCommit, for any writers, names and files.          *)
(***************************************************************************)
EXTENDS GitHubCommit, WellFoundedInduction, TLAPS

-----------------------------------------------------------------------------
(* What a branch has of a writer when a commit is added to it. *)

LEMMA CommittedByMore ==
  ASSUME NEW s \in Seq(Commits), NEW c \in Commits, NEW w
  PROVE  /\ CommittedBy(w, s) \subseteq CommittedBy(w, Append(s, c))
         /\ c.by = w => c.paths \subseteq CommittedBy(w, Append(s, c))
<1>1. /\ DOMAIN Append(s, c) = 1 .. Len(s) + 1 /\ DOMAIN s = 1 .. Len(s) /\ Len(s) \in Nat
      /\ \A i \in 1 .. Len(s) : Append(s, c)[i] = s[i]
      /\ Append(s, c)[Len(s) + 1] = c
  OBVIOUS
<1> DEFINE t == Append(s, c)
<1> HIDE DEF t
<1>2. \A i \in DOMAIN s : i \in DOMAIN t /\ t[i] = s[i]
  BY <1>1 DEF t
<1>3. Len(s) + 1 \in DOMAIN t /\ t[Len(s) + 1] = c
  BY <1>1 DEF t
<1>4. /\ CommittedBy(w, s) \subseteq CommittedBy(w, t)
      /\ c.by = w => c.paths \subseteq CommittedBy(w, t)
  BY <1>2, <1>3 DEF CommittedBy
<1> QED
  BY <1>4 DEF t

LEMMA CommittedByNone == \A w : CommittedBy(w, <<>>) = {}
BY DEF CommittedBy

-----------------------------------------------------------------------------
(* Types *)

LEMMA CandidatesType ==
  ASSUME NEW w \in Writers, request \in [Writers -> Requests]
  PROVE  /\ Candidates(w) \in Seq(Repos)
         /\ Len(Candidates(w)) \in Nat /\ Len(Candidates(w)) >= 1
         /\ Plain(request[w].name) \in Repos
<1> DEFINE n == request[w].name
           tagged == IF request[w].kind = "task"
                     THEN <<[name |-> n, suffix |-> <<"task", w>>]>> ELSE <<>>
           numbered == [i \in 1..(MaxCandidates - 1) |->
                          [name |-> n, suffix |-> <<"number", i + 1>>]]
<1>1. n \in Names
  BY DEF Requests
<1>2. Plain(n) \in Repos
  BY <1>1 DEF Plain, Repos
<1>3. [name |-> n, suffix |-> <<"task", w>>] \in Repos
  BY <1>1 DEF Repos
<1>4. tagged \in Seq(Repos)
  BY <1>3
<1>5. numbered \in Seq(Repos)
  <2>1. \A i \in 1..(MaxCandidates - 1) : [name |-> n, suffix |-> <<"number", i + 1>>] \in Repos
    <3> TAKE i \in 1..(MaxCandidates - 1)
    <3>1. i + 1 \in 2..MaxCandidates
      BY MaxCandidatesAssumption
    <3> QED
      BY <1>1, <3>1 DEF Repos
  <2>2. CASE MaxCandidates = 0
    <3>1. numbered = <<>>
      BY <2>2
    <3>2. <<>> \in Seq(Repos)
      OBVIOUS
    <3> HIDE DEF numbered
    <3> QED
      BY <3>1, <3>2
  <2>3. CASE MaxCandidates # 0
    <3>1. MaxCandidates - 1 \in Nat
      BY <2>3, MaxCandidatesAssumption
    <3>2. numbered \in [1..(MaxCandidates - 1) -> Repos]
      BY <2>1
    <3> HIDE DEF numbered
    <3> QED
      BY <3>1, <3>2
  <2> QED
    BY <2>2, <2>3
<1>6. Candidates(w) = <<Plain(n)>> \o tagged \o numbered
  BY DEF Candidates
<1> HIDE DEF n, tagged, numbered
<1>7. <<Plain(n)>> \in Seq(Repos) /\ Len(<<Plain(n)>>) = 1
  BY <1>2
<1>8. <<Plain(n)>> \o tagged \in Seq(Repos) /\ Len(<<Plain(n)>> \o tagged) >= 1
  BY <1>4, <1>7
<1> QED
  BY <1>2, <1>5, <1>6, <1>8 DEF n

(* Where a writer is; its base is any. *)
Records(b) == [pc : Calling \cup Ended, cand : Nat, how : Hows,
               repo : Repos, base : {b}, left : SUBSET Paths]

(* Before a repository is answered. *)
Looking == {"get_repo", "create", "read_back"}

(* What holds of w, at record r, with the commits s on its branch. *)
OnItsWay(w, r, s) ==
  /\ r \in Records(r.base)
  /\ r.cand \in 1 .. Len(Candidates(w))
  /\ r.left \subseteq Files(w)
  /\ Files(w) \subseteq r.left \cup CommittedBy(w, s)
  /\ r.pc \in Looking => r.how = "none" /\ r.left = Files(w)
  /\ r.pc \in {"verify", "success"} => r.left = {}

(* Who was answered, or is about to be, that it created a repository. *)
Claims(w) == writer[w].pc = "read_back" \/ writer[w].how = "created"

Committing == {"contents", "put", "seeded", "update"}

CommitInv ==
  /\ request \in [Writers -> Requests]
  /\ exists \subseteq Repos
  /\ branch \in [Repos -> Seq(Commits)]
  /\ \A n \in Repos \ exists : branch[n] = <<>>
  /\ writer = [w \in Writers |-> writer[w]]
  /\ \A w \in Writers : OnItsWay(w, writer[w], Branch(w))
  /\ \A w \in Writers : writer[w].pc \in Committing => writer[w].repo \in exists
  /\ \A w \in Writers : Claims(w) => Candidate(w) \in exists
  /\ \A w, x \in Writers : w # x /\ Claims(w) /\ Claims(x) => Candidate(w) # Candidate(x)

LEMMA FilesType ==
  ASSUME NEW w \in Writers, request \in [Writers -> Requests]
  PROVE  Files(w) \subseteq Paths /\ First(w) \in Files(w) /\ First(w) \in Paths
BY ManifestsAssumption DEF Files, First, Requests

LEMMA InitialCommitType == InitialCommit \in Commits
BY AutoInitAssumption DEF InitialCommit, Commits

LEMMA CommitInit == Init => CommitInv
<1> SUFFICES ASSUME Init
             PROVE  CommitInv
  OBVIOUS
<1>1. branch \in [Repos -> Seq(Commits)]
  <2>1. <<InitialCommit>> \in Seq(Commits) /\ <<>> \in Seq(Commits)
    BY InitialCommitType
  <2> QED
    BY <2>1 DEF Init
<1>2. \A w \in Writers : OnItsWay(w, writer[w], Branch(w))
  <2> TAKE w \in Writers
  <2>1. writer[w] = [pc |-> IF request[w].kind = "existing" THEN "get_ref" ELSE "get_repo",
                     cand |-> 1, how |-> "none", repo |-> Plain(request[w].name),
                     base |-> 0, left |-> Files(w)]
    BY DEF Init
  <2>2. request \in [Writers -> Requests]
    BY DEF Init
  <2>3. /\ Plain(request[w].name) \in Repos
        /\ Len(Candidates(w)) \in Nat /\ Len(Candidates(w)) >= 1
    BY <2>2, CandidatesType
  <2>4. Files(w) \subseteq Paths
    BY <2>2, FilesType
  <2> QED
    BY <2>1, <2>3, <2>4 DEF OnItsWay, Records, Calling, Looking, Hows
<1>3. \A w \in Writers : ~Claims(w)
  BY DEF Init, Claims
<1>4. \A w \in Writers : writer[w].pc \notin Committing
  BY DEF Init, Committing
<1> QED
  BY <1>1, <1>2, <1>3, <1>4 DEF Init, CommitInv

-----------------------------------------------------------------------------
(* The steps *)

LEMMA CandidateType ==
  ASSUME CommitInv, NEW w \in Writers
  PROVE  Candidate(w) \in Repos
<1>1. Candidates(w) \in Seq(Repos) /\ writer[w].cand \in 1 .. Len(Candidates(w))
  BY CandidatesType DEF CommitInv, OnItsWay
<1> QED
  BY <1>1 DEF Candidate

LEMMA CandidatesStay ==
  ASSUME request' = request
  PROVE  \A w : Candidates(w)' = Candidates(w) /\ Files(w)' = Files(w)
BY DEF Candidates, Plain, Files, First

(* Only w takes a step, and what was committed stays. *)
WriterMoves(w) ==
  /\ request' = request
  /\ writer' = [x \in Writers |-> writer'[x]]
  /\ \A x \in Writers \ {w} : writer'[x] = writer[x]

BranchesGrow ==
  /\ exists \subseteq exists' /\ exists' \subseteq Repos
  /\ branch' \in [Repos -> Seq(Commits)]
  /\ \A n \in Repos \ exists' : branch'[n] = <<>>
  /\ \A x \in Writers, n \in Repos : CommittedBy(x, branch[n]) \subseteq CommittedBy(x, branch'[n])

LEMMA BranchesStay ==
  ASSUME CommitInv, UNCHANGED <<exists, branch>>
  PROVE  BranchesGrow
BY DEF CommitInv, BranchesGrow

(* A step preserves the invariant if w stays on its way, and claims a name *)
(* only if it did before or the name was free.                             *)
LEMMA Advance ==
  ASSUME CommitInv, NEW w \in Writers, WriterMoves(w), BranchesGrow,
         OnItsWay(w, writer'[w], branch'[writer'[w].repo]),
         writer'[w].pc \in Committing => writer'[w].repo \in exists',
         Claims(w)' =>
           /\ Candidates(w)[writer'[w].cand] \in exists'
           /\ \/ Claims(w) /\ writer'[w].cand = writer[w].cand
              \/ Candidates(w)[writer'[w].cand] \notin exists
  PROVE  CommitInv'
<1>1. \A x \in Writers : /\ Candidate(x)' = Candidates(x)[writer'[x].cand]
                         /\ x # w => Candidate(x)' = Candidate(x) /\ (Claims(x)' <=> Claims(x))
  BY CandidatesStay DEF WriterMoves, Candidate, Claims
<1>2. \A x \in Writers : Claims(x) => Candidate(x) \in exists
  BY DEF CommitInv
<1>3. \A x \in Writers : OnItsWay(x, writer[x], Branch(x))
  BY DEF CommitInv
<1>4. \A x \in Writers : OnItsWay(x, writer'[x], branch'[writer'[x].repo])
  <2> TAKE x \in Writers
  <2>1. CASE x = w
    BY <2>1
  <2>2. CASE x # w
    <3>1. writer'[x] = writer[x]
      BY <2>2 DEF WriterMoves
    <3>2. writer[x].repo \in Repos
      BY <1>3 DEF OnItsWay, Records
    <3>3. CommittedBy(x, Branch(x)) \subseteq CommittedBy(x, branch'[writer[x].repo])
      BY <3>2 DEF BranchesGrow, Branch
    <3>4. OnItsWay(x, writer[x], branch'[writer[x].repo])
      BY <1>3, <3>3 DEF OnItsWay
    <3> QED
      BY <3>1, <3>4
  <2> QED
    BY <2>1, <2>2
<1>5. \A x \in Writers : OnItsWay(x, writer[x], Branch(x))'
  BY <1>4, CandidatesStay DEF OnItsWay, Branch, WriterMoves
<1>6. \A x \in Writers : Claims(x)' => Candidate(x)' \in exists'
  BY <1>1, <1>2 DEF BranchesGrow
<1>7. \A x \in Writers \ {w} : Claims(w)' /\ Claims(x)' => Candidate(w)' # Candidate(x)'
  <2> SUFFICES ASSUME NEW x \in Writers \ {w}, Claims(w)', Claims(x)'
               PROVE  Candidate(w)' # Candidate(x)'
    OBVIOUS
  <2>1. Claims(x) /\ Candidate(x)' = Candidate(x) /\ Candidate(x) \in exists
    BY <1>1, <1>2
  <2>2. CASE Claims(w) /\ writer'[w].cand = writer[w].cand
    <3>1. Candidate(w)' = Candidate(w)
      BY <1>1, <2>2 DEF Candidate
    <3> QED
      BY <2>1, <2>2, <3>1 DEF CommitInv
  <2>3. CASE Candidates(w)[writer'[w].cand] \notin exists
    BY <1>1, <2>1, <2>3
  <2> QED
    BY <2>2, <2>3
<1>8. \A x, y \in Writers : x # y /\ Claims(x)' /\ Claims(y)' => Candidate(x)' # Candidate(y)'
  <2> TAKE x, y \in Writers
  <2>1. CASE x # w /\ y # w
    BY <1>1, <2>1 DEF CommitInv
  <2>2. CASE x = w \/ y = w
    BY <1>7, <2>2
  <2> QED
    BY <2>1, <2>2
<1>9. /\ request' \in [Writers -> Requests] /\ exists' \subseteq Repos
      /\ branch' \in [Repos -> Seq(Commits)]
      /\ \A n \in Repos \ exists' : branch'[n] = <<>>
      /\ writer' = [x \in Writers |-> writer'[x]]
  BY DEF CommitInv, WriterMoves, BranchesGrow
<1>10. \A x \in Writers : writer'[x].pc \in Committing => writer'[x].repo \in exists'
  BY DEF CommitInv, WriterMoves, BranchesGrow
<1> QED
  BY <1>5, <1>6, <1>8, <1>9, <1>10 DEF CommitInv

LEMMA GotoMoves ==
  ASSUME CommitInv, NEW w \in Writers, NEW pc, Goto(w, pc), request' = request
  PROVE  WriterMoves(w) /\ writer'[w] = [writer[w] EXCEPT !.pc = pc]
BY DEF CommitInv, Goto, WriterMoves

(* A step that only goes on, or gives up. *)
LEMMA GotoInv ==
  ASSUME CommitInv, NEW w \in Writers, NEW pc \in Calling \cup Ended, Goto(w, pc),
         UNCHANGED <<request, exists, branch>>,
         pc \in Looking => writer[w].pc \in Looking /\ pc # "read_back",
         pc \in Committing => writer[w].repo \in exists,
         pc \in {"verify", "success"} => writer[w].left = {}
  PROVE  CommitInv'
<1>1. WriterMoves(w) /\ writer'[w] = [writer[w] EXCEPT !.pc = pc]
  BY GotoMoves
<1>2. OnItsWay(w, writer[w], Branch(w))
  BY DEF CommitInv
<1>3. /\ writer'[w] \in Records(writer'[w].base)
      /\ writer'[w].pc = pc /\ writer'[w].cand = writer[w].cand
      /\ writer'[w].how = writer[w].how /\ writer'[w].repo = writer[w].repo
      /\ writer'[w].left = writer[w].left
  BY <1>1, <1>2 DEF OnItsWay, Records
<1>4. OnItsWay(w, writer'[w], branch'[writer'[w].repo])
  BY <1>2, <1>3 DEF OnItsWay, Branch
<1>5. Claims(w)' => Claims(w)
  BY <1>3 DEF Claims, Looking
<1>6. Claims(w) => Candidates(w)[writer[w].cand] \in exists
  BY DEF CommitInv, Candidate
<1> QED
  BY <1>1, <1>3, <1>4, <1>5, <1>6, BranchesStay, Advance

LEMMA AnswerInv ==
  ASSUME CommitInv, NEW w \in Writers, NEW how \in {"created", "reused"}, Answer(w, how),
         writer[w].pc \in Looking, how = "created" => Claims(w),
         UNCHANGED <<request, exists, branch>>
  PROVE  CommitInv'
<1>1. OnItsWay(w, writer[w], Branch(w)) /\ Candidate(w) \in Repos
  BY CandidateType DEF CommitInv
<1> DEFINE repo == IF request[w].kind = "upload" THEN writer[w].repo ELSE Candidate(w)
<1>2. repo \in Repos
  BY <1>1 DEF OnItsWay, Records
<1>3. /\ WriterMoves(w)
      /\ writer'[w] = [writer[w] EXCEPT !.pc = "get_ref", !.how = how, !.repo = repo]
  BY DEF CommitInv, Answer, WriterMoves
<1> HIDE DEF repo
<1>4. /\ writer'[w] \in Records(writer'[w].base)
      /\ writer'[w].pc = "get_ref" /\ writer'[w].cand = writer[w].cand
      /\ writer'[w].how = how /\ writer'[w].left = writer[w].left
  BY <1>1, <1>2, <1>3 DEF OnItsWay, Records, Calling, Hows
<1>5. OnItsWay(w, writer'[w], branch'[writer'[w].repo])
  BY <1>1, <1>4 DEF OnItsWay, Looking
<1>6. Claims(w)' => Claims(w)
  BY <1>4 DEF Claims
<1>7. Claims(w) => Candidates(w)[writer[w].cand] \in exists
  BY DEF CommitInv, Candidate
<1>8. writer'[w].pc \notin Committing
  BY <1>4 DEF Committing
<1> QED
  BY <1>3, <1>4, <1>5, <1>6, <1>7, <1>8, BranchesStay, Advance

LEMMA GetRepoInv ==
  ASSUME CommitInv, NEW w \in Writers, GetRepo(w)
  PROVE  CommitInv'
<1>1. writer[w].pc \in Looking /\ UNCHANGED <<request, exists, branch>>
  BY DEF GetRepo, Looking
<1>2. CASE Answer(w, "reused")
  BY <1>1, <1>2, AnswerInv
<1>3. CASE Goto(w, "create")
  BY <1>1, <1>3, GotoInv DEF Calling, Looking, Committing
<1> QED
  BY <1>2, <1>3 DEF GetRepo

LEMMA ConflictInv ==
  ASSUME CommitInv, NEW w \in Writers, Conflict(w), writer[w].pc = "create",
         UNCHANGED <<request, exists, branch>>
  PROVE  CommitInv'
<1>1. CASE Goto(w, "failed")
  BY <1>1, GotoInv DEF Ended, Looking, Committing
<1>2. CASE /\ writer[w].cand < Len(Candidates(w))
           /\ writer' = [writer EXCEPT ![w].cand = @ + 1, ![w].pc = "get_repo"]
  <2>1. OnItsWay(w, writer[w], Branch(w)) /\ Len(Candidates(w)) \in Nat
    BY CandidatesType DEF CommitInv
  <2>2. /\ WriterMoves(w)
        /\ writer'[w] = [writer[w] EXCEPT !.cand = writer[w].cand + 1, !.pc = "get_repo"]
    BY <1>2 DEF CommitInv, WriterMoves
  <2>3. writer[w].cand + 1 \in Nat /\ writer[w].cand + 1 \in 1 .. Len(Candidates(w))
    BY <1>2, <2>1 DEF OnItsWay, Records
  <2>4. /\ writer'[w] \in Records(writer'[w].base)
        /\ writer'[w].pc = "get_repo" /\ writer'[w].cand = writer[w].cand + 1
        /\ writer'[w].how = "none" /\ writer'[w].left = writer[w].left
        /\ writer'[w].repo = writer[w].repo
    BY <2>1, <2>2, <2>3 DEF OnItsWay, Records, Calling, Looking
  <2>5. OnItsWay(w, writer'[w], branch'[writer'[w].repo])
    BY <2>1, <2>3, <2>4 DEF OnItsWay, Branch, Looking
  <2>6. ~Claims(w)' /\ writer'[w].pc \notin Committing
    BY <2>4 DEF Claims, Committing
  <2> QED
    BY <2>2, <2>5, <2>6, BranchesStay, Advance
<1> QED
  BY <1>1, <1>2 DEF Conflict

(* A repository that was not there comes with the commit of its owner. *)
LEMMA OpenedGrows ==
  ASSUME CommitInv, NEW n \in Repos, n \notin exists, exists' = exists \cup {n},
         branch' \in {branch, [branch EXCEPT ![n] = <<InitialCommit>>]}
  PROVE  BranchesGrow
<1>1. branch[n] = <<>> /\ <<InitialCommit>> \in Seq(Commits)
  BY InitialCommitType DEF CommitInv
<1>2. \A x \in Writers, m \in Repos :
        CommittedBy(x, branch[m]) \subseteq CommittedBy(x, branch'[m])
  BY <1>1, CommittedByNone DEF CommitInv
<1>3. branch' \in [Repos -> Seq(Commits)]
  BY <1>1 DEF CommitInv
<1> QED
  BY <1>2, <1>3 DEF CommitInv, BranchesGrow

LEMMA CreateUserRepoInv ==
  ASSUME CommitInv, NEW w \in Writers, CreateUserRepo(w)
  PROVE  CommitInv'
<1>1. writer[w].pc = "create" /\ request' = request
  BY DEF CreateUserRepo
<1>2. CASE Conflict(w) /\ UNCHANGED <<exists, branch>>
  BY <1>1, <1>2, ConflictInv
<1>3. CASE /\ Candidate(w) \notin exists
           /\ exists' = exists \cup {Candidate(w)}
           /\ branch' = [branch EXCEPT ![Candidate(w)] = <<InitialCommit>>]
           /\ \E pc \in {"read_back", "failed"} : Goto(w, pc)
  <2>1. PICK pc \in {"read_back", "failed"} : Goto(w, pc)
    BY <1>3
  <2>2. WriterMoves(w) /\ writer'[w] = [writer[w] EXCEPT !.pc = pc]
    BY <1>1, <2>1, GotoMoves
  <2>3. BranchesGrow
    BY <1>3, CandidateType, OpenedGrows
  <2>4. OnItsWay(w, writer[w], Branch(w))
    BY DEF CommitInv
  <2>5. /\ writer'[w] \in Records(writer'[w].base)
        /\ writer'[w].pc = pc /\ writer'[w].cand = writer[w].cand
        /\ writer'[w].how = writer[w].how /\ writer'[w].left = writer[w].left
        /\ writer'[w].repo = writer[w].repo
    BY <2>2, <2>4 DEF OnItsWay, Records, Calling, Ended
  <2>6. CommittedBy(w, Branch(w)) \subseteq CommittedBy(w, branch'[writer[w].repo])
    BY <2>3, <2>4 DEF BranchesGrow, Branch, OnItsWay, Records
  <2>7. OnItsWay(w, writer'[w], branch'[writer'[w].repo])
    BY <1>1, <2>4, <2>5, <2>6 DEF OnItsWay, Looking
  <2>8. Candidates(w)[writer'[w].cand] \in exists' /\ Candidates(w)[writer'[w].cand] \notin exists
    BY <1>3, <2>5 DEF Candidate
  <2>9. writer'[w].pc \notin Committing
    BY <2>5 DEF Committing
  <2> QED
    BY <2>2, <2>3, <2>7, <2>8, <2>9, Advance
<1> QED
  BY <1>2, <1>3 DEF CreateUserRepo

LEMMA ReadBackInv ==
  ASSUME CommitInv, NEW w \in Writers, ReadBack(w)
  PROVE  CommitInv'
BY AnswerInv DEF ReadBack, Looking, Claims

LEMMA OwnerCreatesInv ==
  ASSUME CommitInv, NEW w \in Writers, OwnerCreates(w)
  PROVE  CommitInv'
<1>1. BranchesGrow /\ writer' = writer /\ request' = request
  BY CandidateType, OpenedGrows DEF OwnerCreates
<1>2. WriterMoves(w)
  BY <1>1 DEF CommitInv, WriterMoves
<1>3. OnItsWay(w, writer[w], Branch(w))
  BY DEF CommitInv
<1>4. CommittedBy(w, Branch(w)) \subseteq CommittedBy(w, branch'[writer[w].repo])
  BY <1>1, <1>3 DEF BranchesGrow, Branch, OnItsWay, Records
<1>5. OnItsWay(w, writer'[w], branch'[writer'[w].repo])
  BY <1>1, <1>3, <1>4 DEF OnItsWay
<1>6. Claims(w)' => Claims(w) /\ Candidates(w)[writer'[w].cand] \in exists'
  BY <1>1 DEF CommitInv, Claims, Candidate, BranchesGrow
<1>7. writer'[w].pc \in Committing => writer'[w].repo \in exists'
  BY <1>1 DEF CommitInv, BranchesGrow
<1> QED
  BY <1>1, <1>2, <1>5, <1>6, <1>7, Advance

-----------------------------------------------------------------------------
(* commit_files *)

(* A step that notes what the branch was. *)
LEMMA BasedInv ==
  ASSUME CommitInv, NEW w \in Writers, NEW pc \in {"put", "update"}, NEW base,
         writer' = [writer EXCEPT ![w].pc = pc, ![w].base = base],
         writer[w].repo \in exists, UNCHANGED <<request, exists, branch>>,
         writer[w].pc \in {"get_ref", "contents", "seeded"}
  PROVE  CommitInv'
<1>1. OnItsWay(w, writer[w], Branch(w))
  BY DEF CommitInv
<1>2. /\ WriterMoves(w)
      /\ writer'[w] = [writer[w] EXCEPT !.pc = pc, !.base = base]
  BY DEF CommitInv, WriterMoves
<1>3. /\ writer'[w] \in Records(writer'[w].base)
      /\ writer'[w].pc = pc /\ writer'[w].cand = writer[w].cand
      /\ writer'[w].how = writer[w].how /\ writer'[w].left = writer[w].left
      /\ writer'[w].repo = writer[w].repo
  <2> DEFINE r == writer[w]
  <2>1. r \in Records(r.base) /\ pc \in Calling
    BY <1>1 DEF OnItsWay, Calling
  <2> HIDE DEF r
  <2> DEFINE d == [r EXCEPT !.pc = pc, !.base = base]
  <2>2. d \in Records(base)
    BY <2>1 DEF Records
  <2>3. /\ d.base = base /\ d.pc = pc
        /\ d.cand = r.cand /\ d.how = r.how /\ d.left = r.left /\ d.repo = r.repo
    BY <2>1 DEF Records
  <2>4. writer'[w] = d
    BY <1>2 DEF r
  <2> HIDE DEF d
  <2> QED
    BY <2>2, <2>3, <2>4 DEF r
<1>4. OnItsWay(w, writer'[w], branch'[writer'[w].repo])
  BY <1>1, <1>3 DEF OnItsWay, Branch, Looking
<1>5. Claims(w)' => Claims(w)
  BY <1>3 DEF Claims
<1>6. Claims(w) => Candidates(w)[writer[w].cand] \in exists
  BY DEF CommitInv, Candidate
<1>7. writer'[w].repo \in exists'
  BY <1>3
<1>8. Claims(w)' => /\ Candidates(w)[writer'[w].cand] \in exists'
                    /\ Claims(w) /\ writer'[w].cand = writer[w].cand
  BY <1>3, <1>5, <1>6
<1> QED
  BY <1>2, <1>4, <1>7, <1>8, BranchesStay, Advance

LEMMA GetRefInv ==
  ASSUME CommitInv, NEW w \in Writers, GetRef(w)
  PROVE  CommitInv'
<1>1. writer[w].pc = "get_ref" /\ UNCHANGED <<request, exists, branch>>
  BY DEF GetRef
<1>2. CASE Goto(w, "failed")
  BY <1>1, <1>2, GotoInv DEF Ended, Looking, Committing
<1>3. CASE writer[w].repo \in exists /\ Goto(w, "contents")
  BY <1>1, <1>3, GotoInv DEF Calling, Looking
<1>4. CASE /\ writer[w].repo \in exists
           /\ writer' = [writer EXCEPT ![w].pc = "update", ![w].base = HeadSeen(w)]
  BY <1>1, <1>4, BasedInv
<1> QED
  BY <1>2, <1>3, <1>4 DEF GetRef

LEMMA GetContentsShaInv ==
  ASSUME CommitInv, NEW w \in Writers, GetContentsSha(w)
  PROVE  CommitInv'
<1>1. writer[w].pc = "contents" /\ UNCHANGED <<request, exists, branch>>
  BY DEF GetContentsSha
<1>2. writer[w].repo \in exists
  BY <1>1 DEF CommitInv, Committing
<1>3. writer' = [writer EXCEPT ![w].pc = "put", ![w].base = LastSeen(First(w), Branch(w))]
  BY DEF GetContentsSha
<1> QED
  BY <1>1, <1>2, <1>3, BasedInv

LEMMA GetRefSeededInv ==
  ASSUME CommitInv, NEW w \in Writers, GetRefSeeded(w)
  PROVE  CommitInv'
<1>1. writer[w].pc = "seeded" /\ UNCHANGED <<request, exists, branch>>
  BY DEF GetRefSeeded
<1>2. writer[w].repo \in exists
  BY <1>1 DEF CommitInv, Committing
<1>3. writer' = [writer EXCEPT ![w].pc = "update", ![w].base = HeadSeen(w)]
  BY DEF GetRefSeeded
<1> QED
  BY <1>1, <1>2, <1>3, BasedInv

(* A step that commits some of the files. *)
LEMMA PushedInv ==
  ASSUME CommitInv, NEW w \in Writers, writer[w].pc \in Committing,
         NEW paths \in SUBSET Files(w), NEW pc \in {"verify", "seeded", "failed"},
         branch' = [branch EXCEPT ![writer[w].repo] = Pushed(w, @, paths)],
         writer' = [writer EXCEPT ![w].pc = pc, ![w].left = writer[w].left \ paths],
         pc = "verify" => writer[w].left \subseteq paths,
         UNCHANGED <<request, exists>>
  PROVE  CommitInv'
<1> DEFINE n == writer[w].repo
           c == [by |-> w, paths |-> paths]
<1>1. OnItsWay(w, writer[w], Branch(w)) /\ n \in exists /\ n \in Repos
  BY DEF CommitInv, OnItsWay, Records
<1>2. c \in Commits /\ c.by = w /\ c.paths = paths
  BY FilesType DEF CommitInv, Commits
<1> HIDE DEF c
<1>3. branch[n] \in Seq(Commits)
  BY <1>1 DEF CommitInv
<1>4. branch' = [branch EXCEPT ![n] = Append(branch[n], c)]
  BY DEF Pushed, c
<1>5. Append(branch[n], c) \in Seq(Commits)
  BY <1>2, <1>3
<1> HIDE DEF n
<1>6. /\ branch' \in [Repos -> Seq(Commits)]
      /\ \A m \in Repos : branch'[m] = IF m = n THEN Append(branch[n], c) ELSE branch[m]
  BY <1>1, <1>4, <1>5 DEF CommitInv
<1>7. /\ \A x \in Writers : CommittedBy(x, branch[n]) \subseteq CommittedBy(x, branch'[n])
      /\ paths \subseteq CommittedBy(w, branch'[n])
  BY <1>1, <1>2, <1>3, <1>6, CommittedByMore
<1>8. BranchesGrow
  BY <1>1, <1>6, <1>7 DEF BranchesGrow, CommitInv
<1>9. /\ WriterMoves(w)
      /\ writer'[w] = [writer[w] EXCEPT !.pc = pc, !.left = writer[w].left \ paths]
  BY DEF CommitInv, WriterMoves
<1>10. /\ writer'[w] \in Records(writer'[w].base)
       /\ writer'[w].pc = pc /\ writer'[w].cand = writer[w].cand
       /\ writer'[w].how = writer[w].how /\ writer'[w].left = writer[w].left \ paths
       /\ writer'[w].repo = n
  <2> DEFINE r == writer[w]
  <2>1. r \in Records(r.base) /\ pc \in Calling \cup Ended /\ r.repo = n
    BY <1>1 DEF OnItsWay, Calling, Ended, n
  <2> HIDE DEF r
  <2>2. [r EXCEPT !.pc = pc, !.left = r.left \ paths] \in Records(r.base)
    BY <2>1 DEF Records
  <2>3. writer'[w] = [r EXCEPT !.pc = pc, !.left = r.left \ paths]
    BY <1>9 DEF r
  <2>4. /\ writer'[w].base = r.base
        /\ writer'[w].pc = pc /\ writer'[w].cand = r.cand /\ writer'[w].how = r.how
        /\ writer'[w].left = r.left \ paths /\ writer'[w].repo = r.repo
    BY <2>1, <2>3 DEF Records
  <2> QED
    BY <2>1, <2>2, <2>3, <2>4 DEF r
<1>11. Files(w) \subseteq writer[w].left \cup CommittedBy(w, branch[n])
  BY <1>1 DEF OnItsWay, Branch, n
<1>12. Files(w) \subseteq (writer[w].left \ paths) \cup CommittedBy(w, branch'[n])
  BY <1>7, <1>11
<1>13. OnItsWay(w, writer'[w], branch'[writer'[w].repo])
  BY <1>1, <1>10, <1>12 DEF OnItsWay, Looking
<1>14. writer'[w].repo \in exists'
  BY <1>1, <1>10
<1>15. Claims(w)' => /\ Candidates(w)[writer'[w].cand] \in exists'
                     /\ Claims(w) /\ writer'[w].cand = writer[w].cand
  BY <1>10 DEF CommitInv, Claims, Candidate
<1> QED
  BY <1>8, <1>9, <1>13, <1>14, <1>15, Advance

LEMMA PutContentsInv ==
  ASSUME CommitInv, NEW w \in Writers, PutContents(w)
  PROVE  CommitInv'
<1>1. writer[w].pc = "put" /\ writer[w].pc \in Committing
  BY DEF PutContents, Committing
<1>2. First(w) \in Files(w)
  BY DEF Files
<1>3. CASE /\ branch' = [branch EXCEPT ![writer[w].repo] = Pushed(w, @, {First(w)})]
           /\ \E pc \in {AfterPut(w, writer[w].left \ {First(w)}), "failed"} :
                writer' = [writer EXCEPT ![w].pc = pc, ![w].left = writer[w].left \ {First(w)}]
  <2>1. PICK pc \in {AfterPut(w, writer[w].left \ {First(w)}), "failed"} :
          writer' = [writer EXCEPT ![w].pc = pc, ![w].left = writer[w].left \ {First(w)}]
    BY <1>3
  <2>2. pc \in {"verify", "seeded", "failed"} /\ (pc = "verify" => writer[w].left \subseteq {First(w)})
    BY DEF AfterPut
  <2> QED
    BY <1>1, <1>2, <1>3, <2>1, <2>2, PushedInv DEF PutContents
<1>4. CASE Goto(w, "stale") /\ UNCHANGED branch
  BY <1>4, GotoInv DEF PutContents, Ended, Looking, Committing
<1> QED
  BY <1>3, <1>4 DEF PutContents

LEMMA UpdateRefInv ==
  ASSUME CommitInv, NEW w \in Writers, UpdateRef(w)
  PROVE  CommitInv'
<1>1. writer[w].pc = "update" /\ writer[w].pc \in Committing
  BY DEF UpdateRef, Committing
<1>2. writer[w].left \subseteq Files(w) /\ writer[w].left \ writer[w].left = {}
  BY DEF CommitInv, OnItsWay
<1>3. CASE /\ FastForward(w)
           /\ \E pc \in {"verify", "failed"} :
                writer' = [writer EXCEPT ![w].pc = pc, ![w].left = {}]
  <2>1. PICK pc \in {"verify", "failed"} :
          writer' = [writer EXCEPT ![w].pc = pc, ![w].left = {}]
    BY <1>3
  <2>2. writer' = [writer EXCEPT ![w].pc = pc, ![w].left = writer[w].left \ writer[w].left]
    BY <1>2, <2>1
  <2> QED
    BY <1>1, <1>2, <1>3, <2>2, PushedInv DEF UpdateRef, FastForward
<1>4. CASE Goto(w, "stale") /\ UNCHANGED branch
  BY <1>4, GotoInv DEF UpdateRef, Ended, Looking, Committing
<1> QED
  BY <1>3, <1>4 DEF UpdateRef

LEMMA VerifyCommitInv ==
  ASSUME CommitInv, NEW w \in Writers, VerifyCommit(w)
  PROVE  CommitInv'
<1>1. writer[w].left = {}
  BY DEF VerifyCommit, CommitInv, OnItsWay
<1> QED
  BY <1>1, GotoInv DEF VerifyCommit, Ended, Looking, Committing

LEMMA CallFailsInv ==
  ASSUME CommitInv, NEW w \in Writers, CallFails(w)
  PROVE  CommitInv'
BY GotoInv DEF CallFails, Ended, Looking, Committing

LEMMA CommitStep == CommitInv /\ [Next]_vars => CommitInv'
<1> SUFFICES ASSUME CommitInv, [Next]_vars
             PROVE  CommitInv'
  OBVIOUS
<1>1. CASE UNCHANGED vars
  BY <1>1, CandidatesStay
     DEF vars, CommitInv, OnItsWay, Branch, Claims, Candidate
<1>2. ASSUME NEW w \in Writers, CreateRepo(w)
      PROVE  CommitInv'
  BY <1>2, GetRepoInv, CreateUserRepoInv, ReadBackInv DEF CreateRepo
<1>3. ASSUME NEW w \in Writers, CommitFiles(w)
      PROVE  CommitInv'
  BY <1>3, GetRefInv, GetContentsShaInv, PutContentsInv, GetRefSeededInv, UpdateRefInv,
     VerifyCommitInv DEF CommitFiles
<1> QED
  BY <1>1, <1>2, <1>3, CallFailsInv, OwnerCreatesInv DEF Next, Call

-----------------------------------------------------------------------------
LEMMA CommitInvImplies == CommitInv => SuccessIsOnBranch /\ CreatedIsOwn
BY DEF CommitInv, OnItsWay, SuccessIsOnBranch, CreatedIsOwn, Claims

(* Whoever else writes, who is answered success finds every one of its     *)
(* files committed in the repository it committed to.                      *)
THEOREM SuccessStays == Spec => []SuccessIsOnBranch
BY CommitInit, CommitStep, CommitInvImplies, PTL DEF Spec

(* No two callers are answered that they created the same repository. *)
THEOREM CreatedOnce == Spec => []CreatedIsOwn
BY CommitInit, CommitStep, CommitInvImplies, PTL DEF Spec

-----------------------------------------------------------------------------
(* What a writer has read of a branch, and what was added to it since. *)

LEMMA Greatest ==
  ASSUME NEW n \in Nat, NEW T \in SUBSET (1..n), T # {}
  PROVE  \E x \in T : \A y \in T : y <= x
<1> DEFINE R == {n - y : y \in T}
<1>1. R \in SUBSET Nat /\ R # {}
  <2>1. \A y \in T : n - y \in Nat
    OBVIOUS
  <2> QED
    BY <2>1
<1> HIDE DEF R
<1>2. \E x \in R : \A y \in R : <<y, x>> \notin OpToRel(<, Nat)
  BY <1>1, NatLessThanWellFounded, WFMin
<1>3. OpToRel(<, Nat) = {ss \in Nat \X Nat : ss[1] < ss[2]}
  BY DEF OpToRel
<1>4. PICK x \in R : \A y \in R : <<y, x>> \notin {ss \in Nat \X Nat : ss[1] < ss[2]}
  BY <1>2, <1>3
<1>5. \A y \in R : ~(y < x)
  BY <1>1, <1>4
<1>6. PICK z \in T : x = n - z
  BY DEF R
<1>7. ASSUME NEW y \in T PROVE y <= z
  <2>1. ~(n - y < x)
    BY <1>5 DEF R
  <2>2. y \in Nat /\ z \in Nat /\ y <= n /\ z <= n
    OBVIOUS
  <2> QED
    BY <1>6, <2>1, <2>2
<1> QED
  BY <1>7

LEMMA LastSeenIs ==
  ASSUME NEW s \in Seq(Commits), NEW p
  PROVE  /\ LastSeen(p, s) \in 0..Len(s)
         /\ LastSeen(p, s) # 0 =>
              LastSeen(p, s) \in DOMAIN s /\ p \in s[LastSeen(p, s)].paths
         /\ \A i \in DOMAIN s : p \in s[i].paths => i <= LastSeen(p, s)
<1> DEFINE touching == {i \in DOMAIN s : p \in s[i].paths}
<1>1. Len(s) \in Nat /\ DOMAIN s = 1..Len(s)
  OBVIOUS
<1>2. touching \in SUBSET (1..Len(s))
  BY <1>1
<1>3. LastSeen(p, s) = IF touching = {} THEN 0
                       ELSE CHOOSE i \in touching : \A j \in touching : j <= i
  BY DEF LastSeen
<1>4. CASE touching = {}
  BY <1>1, <1>3, <1>4
<1>5. CASE touching # {}
  <2> HIDE DEF touching
  <2>1. \E i \in touching : \A j \in touching : j <= i
    BY <1>1, <1>2, <1>5, Greatest
  <2>2. LastSeen(p, s) \in touching /\ \A j \in touching : j <= LastSeen(p, s)
    BY <1>3, <1>5, <2>1
  <2> QED
    BY <1>1, <1>2, <2>2 DEF touching
<1> QED
  BY <1>4, <1>5

(* t is s with commits of the writers in W added. *)
Grown(W, s, t) ==
  /\ DOMAIN s \subseteq DOMAIN t
  /\ \A i \in DOMAIN s : t[i] = s[i]
  /\ \A i \in DOMAIN t \ DOMAIN s : t[i].by \in W

NothingYet == Looking \cup {"get_ref", "contents"}
Past == {"seeded", "verify", "success", "failed"}

(* What w, at record r, may rely on with the commits in b: before its first *)
(* commit there is none of its own anywhere; a commit it has read the file  *)
(* of is still there; what came after it read the head is of others.        *)
Seen(w, r, b) ==
  /\ r.pc \in NothingYet \cup {"put"} =>
       \A n \in Repos : \A i \in DOMAIN b[n] : b[n][i].by # w
  /\ r.pc = "put" =>
       /\ r.base \in Nat
       /\ r.base # 0 => r.base \in DOMAIN b[r.repo] /\ First(w) \in b[r.repo][r.base].paths
  /\ r.pc = "update" =>
       /\ r.base \in 0..Len(b[r.repo])
       /\ \A i \in DOMAIN b[r.repo] : i > r.base => b[r.repo][i].by # w
  /\ r.pc = "stale" =>
       \E i \in DOMAIN b[r.repo] : i > r.base /\ b[r.repo][i].by # w

SeenInv == CommitInv /\ \A w \in Writers : Seen(w, writer[w], branch)

LEMMA SeenStays ==
  ASSUME CommitInv, branch' \in [Repos -> Seq(Commits)], NEW w \in Writers,
         NEW r, r.repo \in Repos,
         NEW W, w \notin W, \A n \in Repos : Grown(W, branch[n], branch'[n]),
         Seen(w, r, branch), First(w)' = First(w)
  PROVE  Seen(w, r, branch')
<1>1. /\ branch[r.repo] \in Seq(Commits) /\ branch'[r.repo] \in Seq(Commits)
      /\ Grown(W, branch[r.repo], branch'[r.repo])
  BY DEF CommitInv
<1>2. /\ DOMAIN branch[r.repo] = 1..Len(branch[r.repo]) /\ Len(branch[r.repo]) \in Nat
      /\ DOMAIN branch'[r.repo] = 1..Len(branch'[r.repo]) /\ Len(branch'[r.repo]) \in Nat
  BY <1>1
<1>3. Len(branch[r.repo]) <= Len(branch'[r.repo])
  BY <1>1, <1>2 DEF Grown
<1>4. r.pc \in NothingYet \cup {"put"} =>
        \A n \in Repos : \A i \in DOMAIN branch'[n] : branch'[n][i].by # w
  BY DEF Grown, Seen
<1>5. r.pc = "put" =>
        /\ r.base \in Nat
        /\ r.base # 0 =>
             r.base \in DOMAIN branch'[r.repo] /\ First(w) \in branch'[r.repo][r.base].paths
  BY <1>1 DEF Grown, Seen
<1>6. r.pc = "update" =>
        /\ r.base \in 0..Len(branch'[r.repo])
        /\ \A i \in DOMAIN branch'[r.repo] : i > r.base => branch'[r.repo][i].by # w
  BY <1>1, <1>2, <1>3 DEF Grown, Seen
<1>7. r.pc = "stale" =>
        \E i \in DOMAIN branch'[r.repo] : i > r.base /\ branch'[r.repo][i].by # w
  BY <1>1 DEF Grown, Seen
<1> QED
  BY <1>4, <1>5, <1>6, <1>7 DEF Seen

LEMMA GrownNot ==
  ASSUME NEW W, branch' = branch
  PROVE  \A n \in Repos : Grown(W, branch[n], branch'[n])
BY DEF Grown

LEMMA GrownOpened ==
  ASSUME CommitInv, NEW n \in Repos, n \notin exists,
         branch' \in {branch, [branch EXCEPT ![n] = <<InitialCommit>>]}
  PROVE  \A m \in Repos : Grown({Owner}, branch[m], branch'[m])
<1> TAKE m \in Repos
<1>1. branch'[m] = branch[m] \/ (branch[m] = <<>> /\ branch'[m] = <<InitialCommit>>)
  BY DEF CommitInv
<1>2. <<InitialCommit>>[1].by = Owner /\ DOMAIN <<InitialCommit>> = {1}
  BY DEF InitialCommit
<1>3. DOMAIN <<>> = {}
  OBVIOUS
<1> QED
  BY <1>1, <1>2, <1>3 DEF Grown

LEMMA GrownPushed ==
  ASSUME CommitInv, NEW w \in Writers, NEW paths,
         branch' = [branch EXCEPT ![writer[w].repo] = Pushed(w, @, paths)]
  PROVE  \A m \in Repos : Grown({w}, branch[m], branch'[m])
<1> TAKE m \in Repos
<1> DEFINE c == [by |-> w, paths |-> paths]
<1>1. branch[m] \in Seq(Commits) /\ c.by = w
  BY DEF CommitInv
<1>2. branch'[m] = branch[m] \/ branch'[m] = Append(branch[m], c)
  BY DEF CommitInv, Pushed
<1> HIDE DEF c
<1>3. /\ DOMAIN branch[m] = 1..Len(branch[m]) /\ Len(branch[m]) \in Nat
      /\ DOMAIN Append(branch[m], c) = 1..(Len(branch[m]) + 1)
      /\ \A i \in 1..Len(branch[m]) : Append(branch[m], c)[i] = branch[m][i]
      /\ Append(branch[m], c)[Len(branch[m]) + 1] = c
  BY <1>1
<1> DEFINE s == branch[m]
           t == Append(branch[m], c)
<1>4. Grown({w}, s, t)
  <2> HIDE DEF s, t
  <2>1. /\ DOMAIN s = 1..Len(s) /\ Len(s) \in Nat /\ DOMAIN t = 1..(Len(s) + 1)
        /\ \A i \in 1..Len(s) : t[i] = s[i]
        /\ t[Len(s) + 1].by = w
    BY <1>1, <1>3 DEF s, t
  <2> QED
    BY <2>1 DEF Grown
<1> QED
  BY <1>2, <1>4 DEF Grown

(* The record of w after a step, by what it means for what it has seen. *)
Wanders(w) ==
  /\ writer[w].pc \in NothingYet /\ writer'[w].pc \in NothingYet
  /\ \A n \in Repos : Grown({Owner}, branch[n], branch'[n])

Passes(w) ==
  /\ writer'[w].pc \in Past
  /\ \E W \in {{w}, {Owner}} : \A n \in Repos : Grown(W, branch[n], branch'[n])

Reads(w) ==
  /\ branch' = branch /\ writer'[w].repo = writer[w].repo
  /\ \/ /\ writer[w].pc = "contents" /\ writer'[w].pc = "put"
        /\ writer'[w].base = LastSeen(First(w), Branch(w))
     \/ writer'[w].pc = "update" /\ writer'[w].base = Len(Branch(w))

Refused(w) ==
  /\ branch' = branch /\ writer'[w].repo = writer[w].repo
  /\ writer'[w].base = writer[w].base /\ writer'[w].pc = "stale"
  /\ \/ writer[w].pc = "put" /\ LastSeen(First(w), Branch(w)) # writer[w].base
     \/ writer[w].pc = "update" /\ Len(Branch(w)) # writer[w].base

Stands(w) ==
  /\ writer' = writer
  /\ \A n \in Repos : Grown({Owner}, branch[n], branch'[n])

LEMMA GotoFields ==
  ASSUME CommitInv, NEW w \in Writers, NEW pc, Goto(w, pc), request' = request
  PROVE  /\ WriterMoves(w)
         /\ writer'[w].pc = pc
         /\ writer'[w].repo = writer[w].repo /\ writer'[w].base = writer[w].base
<1>1. WriterMoves(w) /\ writer'[w] = [writer[w] EXCEPT !.pc = pc]
  BY GotoMoves
<1>2. writer[w] \in Records(writer[w].base)
  BY DEF CommitInv, OnItsWay
<1> QED
  BY <1>1, <1>2 DEF Records

LEMMA BasedFields ==
  ASSUME CommitInv, NEW w \in Writers, NEW pc, NEW base, request' = request,
         writer' = [writer EXCEPT ![w].pc = pc, ![w].base = base]
  PROVE  /\ WriterMoves(w)
         /\ writer'[w].pc = pc /\ writer'[w].base = base
         /\ writer'[w].repo = writer[w].repo
<1>1. WriterMoves(w) /\ writer'[w] = [writer[w] EXCEPT !.pc = pc, !.base = base]
  BY DEF CommitInv, WriterMoves
<1>2. writer[w] \in Records(writer[w].base)
  BY DEF CommitInv, OnItsWay
<1> QED
  BY <1>1, <1>2 DEF Records

LEMMA LeftFields ==
  ASSUME CommitInv, NEW w \in Writers, NEW pc, NEW left, request' = request,
         writer' = [writer EXCEPT ![w].pc = pc, ![w].left = left]
  PROVE  WriterMoves(w) /\ writer'[w].pc = pc
<1>1. WriterMoves(w) /\ writer'[w] = [writer[w] EXCEPT !.pc = pc, !.left = left]
  BY DEF CommitInv, WriterMoves
<1>2. writer[w] \in Records(writer[w].base)
  BY DEF CommitInv, OnItsWay
<1> QED
  BY <1>1, <1>2 DEF Records

LEMMA AnswerFields ==
  ASSUME CommitInv, NEW w \in Writers, NEW how, Answer(w, how), request' = request
  PROVE  WriterMoves(w) /\ writer'[w].pc = "get_ref"
<1> DEFINE repo == IF request[w].kind = "upload" THEN writer[w].repo ELSE Candidate(w)
<1>1. /\ WriterMoves(w)
      /\ writer'[w] = [writer[w] EXCEPT !.pc = "get_ref", !.how = how, !.repo = repo]
  BY DEF CommitInv, Answer, WriterMoves
<1> HIDE DEF repo
<1>2. writer[w] \in Records(writer[w].base)
  BY DEF CommitInv, OnItsWay
<1> QED
  BY <1>1, <1>2 DEF Records

LEMMA CreateRepoSeen ==
  ASSUME CommitInv, NEW w \in Writers, CreateRepo(w)
  PROVE  WriterMoves(w) /\ (Wanders(w) \/ Passes(w))
<1>1. CASE GetRepo(w)
  <2>1. writer[w].pc \in NothingYet /\ request' = request /\ branch' = branch
    BY <1>1 DEF GetRepo, NothingYet, Looking
  <2>2. WriterMoves(w) /\ writer'[w].pc \in {"get_ref", "create"}
    BY <1>1, <2>1, AnswerFields, GotoFields DEF GetRepo
  <2> QED
    BY <2>1, <2>2, GrownNot DEF Wanders, NothingYet, Looking
<1>2. CASE CreateUserRepo(w)
  <2>1. writer[w].pc = "create" /\ request' = request
    BY <1>2 DEF CreateUserRepo
  <2>2. CASE Conflict(w) /\ UNCHANGED <<exists, branch>>
    <3>1. CASE Goto(w, "failed")
      BY <2>1, <2>2, <3>1, GotoFields, GrownNot DEF Passes, Past
    <3>2. CASE writer' = [writer EXCEPT ![w].cand = @ + 1, ![w].pc = "get_repo"]
      <4>1. /\ WriterMoves(w)
            /\ writer'[w] = [writer[w] EXCEPT !.cand = writer[w].cand + 1, !.pc = "get_repo"]
        BY <2>1, <3>2 DEF CommitInv, WriterMoves
      <4>2. writer[w] \in Records(writer[w].base)
        BY DEF CommitInv, OnItsWay
      <4>3. writer'[w].pc = "get_repo"
        BY <4>1, <4>2 DEF Records
      <4> QED
        BY <2>1, <2>2, <4>1, <4>3, GrownNot DEF Wanders, NothingYet, Looking
    <3> QED
      BY <2>2, <3>1, <3>2 DEF Conflict
  <2>3. CASE /\ Candidate(w) \notin exists
             /\ branch' = [branch EXCEPT ![Candidate(w)] = <<InitialCommit>>]
             /\ \E pc \in {"read_back", "failed"} : Goto(w, pc)
    <3>1. WriterMoves(w) /\ writer'[w].pc \in {"read_back", "failed"}
      BY <2>1, <2>3, GotoFields
    <3>2. \A n \in Repos : Grown({Owner}, branch[n], branch'[n])
      BY <2>3, CandidateType, GrownOpened
    <3> QED
      BY <2>1, <3>1, <3>2 DEF Wanders, Passes, Past, NothingYet, Looking
  <2> QED
    BY <1>2, <2>2, <2>3 DEF CreateUserRepo
<1>3. CASE ReadBack(w)
  <2>1. /\ writer[w].pc \in NothingYet /\ request' = request /\ branch' = branch
        /\ Answer(w, "created")
    BY <1>3 DEF ReadBack, NothingYet, Looking
  <2>2. WriterMoves(w) /\ writer'[w].pc = "get_ref"
    BY <2>1, AnswerFields
  <2> QED
    BY <2>1, <2>2, GrownNot DEF Wanders, NothingYet
<1> QED
  BY <1>1, <1>2, <1>3 DEF CreateRepo

LEMMA CommitFilesSeen ==
  ASSUME CommitInv, NEW w \in Writers, CommitFiles(w)
  PROVE  WriterMoves(w) /\ (Wanders(w) \/ Passes(w) \/ Reads(w) \/ Refused(w))
<1>1. CASE GetRef(w)
  <2>1. writer[w].pc = "get_ref" /\ request' = request /\ branch' = branch
    BY <1>1 DEF GetRef
  <2>2. CASE \E pc \in {"failed", "contents"} : Goto(w, pc)
    <3>1. WriterMoves(w) /\ writer'[w].pc \in {"failed", "contents"}
      BY <2>1, <2>2, GotoFields
    <3> QED
      BY <2>1, <3>1, GrownNot DEF Wanders, Passes, Past, NothingYet
  <2>3. CASE writer' = [writer EXCEPT ![w].pc = "update", ![w].base = HeadSeen(w)]
    BY <2>1, <2>3, BasedFields DEF Reads, HeadSeen
  <2> QED
    BY <1>1, <2>2, <2>3 DEF GetRef
<1>2. CASE GetContentsSha(w)
  <2>1. /\ writer[w].pc = "contents" /\ request' = request /\ branch' = branch
        /\ writer' = [writer EXCEPT ![w].pc = "put",
                                    ![w].base = LastSeen(First(w), Branch(w))]
    BY <1>2 DEF GetContentsSha
  <2> QED
    BY <2>1, BasedFields DEF Reads
<1>3. CASE PutContents(w)
  <2>1. writer[w].pc = "put" /\ request' = request
    BY <1>3 DEF PutContents
  <2>2. CASE /\ branch' = [branch EXCEPT ![writer[w].repo] = Pushed(w, @, {First(w)})]
             /\ \E pc \in {AfterPut(w, writer[w].left \ {First(w)}), "failed"} :
                  writer' = [writer EXCEPT ![w].pc = pc, ![w].left = writer[w].left \ {First(w)}]
    <3>1. WriterMoves(w) /\ writer'[w].pc \in Past
      BY <2>1, <2>2, LeftFields DEF AfterPut, Past
    <3> QED
      BY <2>2, <3>1, GrownPushed DEF Passes
  <2>3. CASE /\ LastSeen(First(w), Branch(w)) # writer[w].base
             /\ Goto(w, "stale") /\ branch' = branch
    BY <2>1, <2>3, GotoFields DEF Refused
  <2> QED
    BY <1>3, <2>2, <2>3 DEF PutContents
<1>4. CASE GetRefSeeded(w)
  <2>1. /\ request' = request /\ branch' = branch
        /\ writer' = [writer EXCEPT ![w].pc = "update", ![w].base = HeadSeen(w)]
    BY <1>4 DEF GetRefSeeded
  <2> QED
    BY <2>1, BasedFields DEF Reads, HeadSeen
<1>5. CASE UpdateRef(w)
  <2>1. writer[w].pc = "update" /\ request' = request
    BY <1>5 DEF UpdateRef
  <2>2. CASE /\ FastForward(w)
             /\ \E pc \in {"verify", "failed"} :
                  writer' = [writer EXCEPT ![w].pc = pc, ![w].left = {}]
    <3>1. WriterMoves(w) /\ writer'[w].pc \in Past
      BY <2>1, <2>2, LeftFields DEF Past
    <3> QED
      BY <2>2, <3>1, GrownPushed DEF Passes, FastForward
  <2>3. CASE Len(Branch(w)) # writer[w].base /\ Goto(w, "stale") /\ branch' = branch
    BY <2>1, <2>3, GotoFields DEF Refused
  <2> QED
    BY <1>5, <2>2, <2>3 DEF UpdateRef
<1>6. CASE VerifyCommit(w)
  <2>1. Goto(w, "success") /\ request' = request /\ branch' = branch
    BY <1>6 DEF VerifyCommit
  <2> QED
    BY <2>1, GotoFields, GrownNot DEF Passes, Past
<1> QED
  BY <1>1, <1>2, <1>3, <1>4, <1>5, <1>6 DEF CommitFiles

(* A refusal finds a commit that came in since, and it is not of w. *)
LEMMA RefusedBehindAnother ==
  ASSUME SeenInv, NEW w \in Writers, Refused(w)
  PROVE  \E i \in DOMAIN Branch(w) : i > writer[w].base /\ Branch(w)[i].by # w
<1>1. /\ writer[w].repo \in Repos /\ Branch(w) \in Seq(Commits)
      /\ Seen(w, writer[w], branch)
  BY DEF SeenInv, CommitInv, OnItsWay, Records, Branch
<1>2. DOMAIN Branch(w) = 1..Len(Branch(w)) /\ Len(Branch(w)) \in Nat
  BY <1>1
<1>3. CASE writer[w].pc = "put" /\ LastSeen(First(w), Branch(w)) # writer[w].base
  <2> DEFINE last == LastSeen(First(w), Branch(w))
  <2>1. /\ last \in 0..Len(Branch(w))
        /\ last # 0 => last \in DOMAIN Branch(w)
        /\ \A i \in DOMAIN Branch(w) : First(w) \in Branch(w)[i].paths => i <= last
    BY <1>1, LastSeenIs
  <2>2. /\ writer[w].base \in Nat
        /\ writer[w].base # 0 =>
             writer[w].base \in DOMAIN Branch(w) /\ First(w) \in Branch(w)[writer[w].base].paths
        /\ \A i \in DOMAIN Branch(w) : Branch(w)[i].by # w
    BY <1>1, <1>3 DEF Seen, Branch
  <2> HIDE DEF last
  <2>3. last # writer[w].base
    BY <1>3 DEF last
  <2>4. last \in DOMAIN Branch(w) /\ last > writer[w].base
    BY <1>2, <2>1, <2>2, <2>3
  <2> QED
    BY <2>2, <2>4
<1>4. CASE writer[w].pc = "update" /\ Len(Branch(w)) # writer[w].base
  <2>1. /\ writer[w].base \in 0..Len(Branch(w))
        /\ \A i \in DOMAIN Branch(w) : i > writer[w].base => Branch(w)[i].by # w
    BY <1>1, <1>4 DEF Seen, Branch
  <2>2. Len(Branch(w)) \in DOMAIN Branch(w) /\ Len(Branch(w)) > writer[w].base
    BY <1>2, <1>4, <2>1
  <2> QED
    BY <2>1, <2>2
<1> QED
  BY <1>3, <1>4 DEF Refused

LEMMA SeenInit == Init => SeenInv
<1> SUFFICES ASSUME Init, NEW w \in Writers
             PROVE  Seen(w, writer[w], branch)
  BY CommitInit DEF SeenInv
<1>1. writer[w].pc \in {"get_ref", "get_repo"}
  BY DEF Init
<1>2. \A n \in Repos : \A i \in DOMAIN branch[n] : branch[n][i].by # w
  <2> TAKE n \in Repos
  <2>1. branch[n] = <<>> \/ branch[n] = <<InitialCommit>>
    BY DEF Init
  <2>2. DOMAIN <<>> = {} /\ DOMAIN <<InitialCommit>> = {1} /\ <<InitialCommit>>[1].by = Owner
    BY DEF InitialCommit
  <2> QED
    BY <2>1, <2>2, OwnerAssumption
<1> QED
  BY <1>1, <1>2 DEF Seen

LEMMA SeenStep == SeenInv /\ [Next]_vars => SeenInv'
<1> SUFFICES ASSUME SeenInv, [Next]_vars
             PROVE  SeenInv'
  OBVIOUS
<1>1. CommitInv /\ CommitInv' /\ \A x \in Writers : Seen(x, writer[x], branch)
  BY CommitStep DEF SeenInv
<1>2. branch' \in [Repos -> Seq(Commits)]
  BY <1>1 DEF CommitInv
<1>3. CASE UNCHANGED vars
  BY <1>1, <1>3 DEF SeenInv, Seen, vars, First
<1>4. ASSUME NEW w \in Writers, WriterMoves(w),
             Wanders(w) \/ Passes(w) \/ Reads(w) \/ Refused(w) \/ Stands(w)
      PROVE  \A x \in Writers : Seen(x, writer'[x], branch')
  <2>1. PICK W \in {{w}, {Owner}} : \A n \in Repos : Grown(W, branch[n], branch'[n])
    BY <1>4, GrownNot DEF Wanders, Passes, Reads, Refused, Stands
  <2>2. \A x \in Writers : First(x)' = First(x) /\ writer[x].repo \in Repos
    BY <1>1, <1>4 DEF WriterMoves, First, CommitInv, OnItsWay, Records
  <2>3. ASSUME NEW x \in Writers \ {w} PROVE Seen(x, writer'[x], branch')
    <3>1. x \notin W /\ writer'[x] = writer[x]
      BY <1>4, <2>1, OwnerAssumption DEF WriterMoves
    <3> QED
      BY <1>1, <1>2, <2>1, <2>2, <3>1, SeenStays
  <2>4. Seen(w, writer'[w], branch')
    <3>1. CASE Stands(w)
      BY <1>1, <1>2, <2>2, <3>1, OwnerAssumption, SeenStays DEF Stands
    <3>2. CASE Wanders(w)
      <4>1. \A n \in Repos : \A i \in DOMAIN branch'[n] : branch'[n][i].by # w
        BY <1>1, <3>2, OwnerAssumption DEF Wanders, Grown, Seen
      <4> QED
        BY <3>2, <4>1 DEF Wanders, Seen, NothingYet, Looking
    <3>3. CASE Passes(w)
      BY <3>3 DEF Passes, Past, Seen, NothingYet, Looking
    <3>4. CASE Reads(w)
      <4>1. Branch(w) \in Seq(Commits) /\ Branch(w) = branch'[writer'[w].repo]
        BY <1>2, <2>2, <3>4 DEF Reads, Branch
      <4>2. DOMAIN Branch(w) = 1..Len(Branch(w)) /\ Len(Branch(w)) \in Nat
        BY <4>1
      <4>3. CASE writer'[w].pc = "update" /\ writer'[w].base = Len(Branch(w))
        BY <4>1, <4>2, <4>3 DEF Seen, NothingYet, Looking
      <4>4. CASE /\ writer[w].pc = "contents" /\ writer'[w].pc = "put"
                 /\ writer'[w].base = LastSeen(First(w), Branch(w))
        <5>1. \A n \in Repos : \A i \in DOMAIN branch'[n] : branch'[n][i].by # w
          BY <1>1, <3>4, <4>4 DEF Reads, Seen, NothingYet
        <5>2. /\ writer'[w].base \in Nat
              /\ writer'[w].base # 0 =>
                   /\ writer'[w].base \in DOMAIN Branch(w)
                   /\ First(w) \in Branch(w)[writer'[w].base].paths
          BY <4>1, <4>2, <4>4, LastSeenIs
        <5> QED
          BY <4>1, <4>4, <5>1, <5>2 DEF Seen
      <4> QED
        BY <3>4, <4>3, <4>4 DEF Reads
    <3>5. CASE Refused(w)
      <4>1. \E i \in DOMAIN Branch(w) : i > writer[w].base /\ Branch(w)[i].by # w
        BY <3>5, RefusedBehindAnother
      <4> QED
        BY <3>5, <4>1 DEF Refused, Seen, NothingYet, Looking, Branch
    <3> QED
      BY <1>4, <3>1, <3>2, <3>3, <3>4, <3>5
  <2> QED
    BY <2>3, <2>4
<1>5. ASSUME \A x \in Writers : Seen(x, writer'[x], branch'), request' = request
      PROVE  SeenInv'
  BY <1>1, <1>5 DEF SeenInv, Seen, First
<1>6. ASSUME NEW w \in Writers, CallFails(w)
      PROVE  WriterMoves(w) /\ Passes(w)
  BY <1>1, <1>6, GotoFields, GrownNot DEF CallFails, Passes, Past
<1>7. ASSUME NEW w \in Writers, OwnerCreates(w)
      PROVE  WriterMoves(w) /\ Stands(w)
  BY <1>1, <1>7, CandidateType, GrownOpened DEF OwnerCreates, WriterMoves, Stands, CommitInv
<1>8. CASE Next
  <2>1. PICK w \in Writers :
          /\ WriterMoves(w)
          /\ Wanders(w) \/ Passes(w) \/ Reads(w) \/ Refused(w) \/ Stands(w)
    BY <1>1, <1>6, <1>7, <1>8, CreateRepoSeen, CommitFilesSeen DEF Next, Call
  <2> QED
    BY <1>4, <1>5, <2>1 DEF WriterMoves
<1> QED
  BY <1>3, <1>8

(* update_ref and put_contents refuse a writer only when another has       *)
(* committed since it read the branch: the seed of an empty repository and *)
(* the commit that follows it are not in each other's way.                 *)
THEOREM StaleBehindAnother == Spec => []StaleOnlyBehindAnother
<1>1. SeenInv => StaleOnlyBehindAnother
  BY DEF SeenInv, Seen, StaleOnlyBehindAnother, Branch
<1> QED
  BY <1>1, SeenInit, SeenStep, PTL DEF Spec

-----------------------------------------------------------------------------
(* The requests implement a log of commits. *)

Wanted == [w \in Writers |-> Files(w)]
Answers == [w \in Writers |-> Told(writer[w].pc)]

LEMMA LogInit == Init => Log!Init
<1> SUFFICES ASSUME Init
             PROVE  Log!Init
  OBVIOUS
<1>1. branch \in [Repos -> {s \in Seq(Commits) : \A i \in DOMAIN s : s[i].by = Owner}]
  <2>1. <<>> \in {s \in Seq(Commits) : \A i \in DOMAIN s : s[i].by = Owner}
    OBVIOUS
  <2>2. <<InitialCommit>> \in {s \in Seq(Commits) : \A i \in DOMAIN s : s[i].by = Owner}
    BY InitialCommitType DEF InitialCommit
  <2> QED
    BY <2>1, <2>2 DEF Init
<1>2. Wanted \in [Writers -> SUBSET Paths]
  <2>1. \A w \in Writers : Files(w) \in SUBSET Paths
    BY FilesType DEF Init
  <2> QED
    BY <2>1 DEF Wanted
<1>3. Answers = [w \in Writers |-> "none"]
  <2>1. \A w \in Writers : Told(writer[w].pc) = "none"
    BY DEF Init, Told
  <2> QED
    BY <2>1 DEF Answers
<1> QED
  BY <1>1, <1>2, <1>3 DEF Log!Init, Log!Commits, Commits, Wanted, Answers

LEMMA AnswersMove ==
  ASSUME NEW w \in Writers, WriterMoves(w)
  PROVE  /\ Wanted' = Wanted
         /\ Answers' = [Answers EXCEPT ![w] = Told(writer'[w].pc)]
         /\ Told(writer'[w].pc) = Told(writer[w].pc) => Answers' = Answers
<1>1. Wanted' = Wanted
  BY CandidatesStay DEF WriterMoves, Wanted
<1>2. \A x \in Writers \ {w} : Told(writer'[x].pc) = Told(writer[x].pc)
  BY DEF WriterMoves
<1>3. Answers' = [x \in Writers |-> Told(writer'[x].pc)]
  BY DEF Answers
<1> QED
  BY <1>1, <1>2, <1>3 DEF Answers

(* A step of w that leaves the branches alone, and tells nothing or that   *)
(* it failed.                                                              *)
LEMMA GoesOn ==
  ASSUME CommitInv, NEW w \in Writers, WriterMoves(w), branch' = branch,
         writer[w].pc \in Calling, Told(writer'[w].pc) \in {"none", "failed"}
  PROVE  Log!Next \/ UNCHANGED Log!vars
<1>1. Told(writer[w].pc) = "none" /\ Answers[w] = "none"
  BY DEF Told, Calling, Answers
<1>2. CASE Told(writer'[w].pc) = "none"
  BY <1>1, <1>2, AnswersMove DEF Log!vars, Wanted, Answers
<1>3. CASE Told(writer'[w].pc) = "failed"
  <2>1. Log!Tell(w, "failed")
    BY <1>1, <1>3, AnswersMove DEF Log!Tell, Wanted, Answers
  <2> QED
    BY <2>1 DEF Log!Next
<1> QED
  BY <1>2, <1>3

LEMMA GotoGoesOn ==
  ASSUME CommitInv, NEW w \in Writers, NEW pc \in Calling \cup {"failed", "stale"}, Goto(w, pc),
         UNCHANGED <<request, branch>>, writer[w].pc \in Calling
  PROVE  Log!Next \/ UNCHANGED Log!vars
<1>1. WriterMoves(w) /\ writer'[w] = [writer[w] EXCEPT !.pc = pc]
  BY GotoMoves
<1>2. writer[w] \in Records(writer[w].base)
  BY DEF CommitInv, OnItsWay
<1>3. writer'[w].pc = pc
  BY <1>1, <1>2 DEF Records
<1>4. Told(writer'[w].pc) \in {"none", "failed"}
  BY <1>3 DEF Told, Calling
<1> QED
  BY <1>1, <1>4, GoesOn

(* A step of w after which its record is r. *)
LEMMA RecordGoesOn ==
  ASSUME CommitInv, NEW w \in Writers, NEW r, writer' = [writer EXCEPT ![w] = r],
         r.pc \in Calling, UNCHANGED <<request, branch>>, writer[w].pc \in Calling
  PROVE  Log!Next \/ UNCHANGED Log!vars
<1>1. WriterMoves(w) /\ writer'[w] = r
  BY DEF CommitInv, WriterMoves
<1>2. Told(r.pc) = "none"
  BY DEF Told, Calling
<1> QED
  BY <1>1, <1>2, GoesOn

LEMMA AnswerGoesOn ==
  ASSUME CommitInv, NEW w \in Writers, NEW how, Answer(w, how),
         UNCHANGED <<request, branch>>, writer[w].pc \in Calling
  PROVE  Log!Next \/ UNCHANGED Log!vars
<1> DEFINE repo == IF request[w].kind = "upload" THEN writer[w].repo ELSE Candidate(w)
           r == [writer[w] EXCEPT !.pc = "get_ref", !.how = how, !.repo = repo]
<1>1. writer' = [writer EXCEPT ![w] = r]
  BY DEF CommitInv, Answer
<1>2. writer[w] \in Records(writer[w].base)
  BY DEF CommitInv, OnItsWay
<1> HIDE DEF repo
<1>3. r.pc = "get_ref"
  BY <1>2 DEF Records
<1>4. r.pc \in Calling
  BY <1>3 DEF Calling
<1> HIDE DEF r
<1> QED
  BY <1>1, <1>4, RecordGoesOn

LEMMA BasedGoesOn ==
  ASSUME CommitInv, NEW w \in Writers, NEW pc \in {"put", "update"}, NEW base,
         writer' = [writer EXCEPT ![w].pc = pc, ![w].base = base],
         UNCHANGED <<request, branch>>, writer[w].pc \in Calling
  PROVE  Log!Next \/ UNCHANGED Log!vars
<1> DEFINE r == [writer[w] EXCEPT !.pc = pc, !.base = base]
<1>1. writer' = [writer EXCEPT ![w] = r]
  BY DEF CommitInv
<1>2. writer[w] \in Records(writer[w].base)
  BY DEF CommitInv, OnItsWay
<1>3. r.pc = pc
  BY <1>2 DEF Records
<1>4. r.pc \in Calling
  BY <1>3 DEF Calling
<1> HIDE DEF r
<1> QED
  BY <1>1, <1>4, RecordGoesOn

LEMMA ConflictGoesOn ==
  ASSUME CommitInv, NEW w \in Writers, Conflict(w), writer[w].pc = "create",
         UNCHANGED <<request, branch>>
  PROVE  Log!Next \/ UNCHANGED Log!vars
<1> DEFINE r == [writer[w] EXCEPT !.cand = writer[w].cand + 1, !.pc = "get_repo"]
<1>1. writer[w].pc \in Calling
  BY DEF Calling
<1>2. CASE Goto(w, "failed")
  BY <1>1, <1>2, GotoGoesOn
<1>3. CASE writer' = [writer EXCEPT ![w].cand = @ + 1, ![w].pc = "get_repo"]
  <2>1. writer' = [writer EXCEPT ![w] = r]
    BY <1>3 DEF CommitInv
  <2>2. writer[w] \in Records(writer[w].base)
    BY DEF CommitInv, OnItsWay
  <2>3. r.pc = "get_repo"
    BY <2>2 DEF Records
  <2>4. r.pc \in Calling
    BY <2>3 DEF Calling
  <2> HIDE DEF r
  <2> QED
    BY <1>1, <2>1, <2>4, RecordGoesOn
<1> QED
  BY <1>2, <1>3 DEF Conflict

(* A commit lands, and w may be told that it failed. *)
LEMMA PushedLands ==
  ASSUME CommitInv, NEW w \in Writers, writer[w].pc \in Calling,
         NEW paths \in SUBSET Files(w), NEW pc \in {"verify", "seeded", "failed"},
         branch' = [branch EXCEPT ![writer[w].repo] = Pushed(w, @, paths)],
         writer' = [writer EXCEPT ![w].pc = pc, ![w].left = writer[w].left \ paths],
         request' = request
  PROVE  Log!Next
<1> DEFINE n == writer[w].repo
<1>1. writer[w] \in Records(writer[w].base) /\ n \in Repos
  BY DEF CommitInv, OnItsWay, Records
<1>2. /\ WriterMoves(w)
      /\ writer'[w] = [writer[w] EXCEPT !.pc = pc, !.left = writer[w].left \ paths]
  BY DEF CommitInv, WriterMoves
<1>3. writer'[w].pc = pc
  BY <1>1, <1>2 DEF Records
<1>4. Told(writer'[w].pc) \in {"none", "failed"}
  BY <1>3 DEF Told
<1>5. Told(writer[w].pc) = "none" /\ Answers[w] = "none"
  BY DEF Told, Calling, Answers
<1>6. Answers' \in {Answers, [Answers EXCEPT ![w] = "failed"]}
  BY <1>2, <1>4, <1>5, AnswersMove
<1>7. branch' = [branch EXCEPT ![n] = Append(@, [by |-> w, paths |-> paths])]
  BY DEF Pushed
<1>8. paths \in SUBSET Wanted[w]
  BY DEF Wanted
<1>9. Wanted' = Wanted
  BY <1>2, AnswersMove
<1> HIDE DEF n
<1>10. Log!Land(w, n)
  BY <1>5, <1>6, <1>7, <1>8, <1>9 DEF Log!Land, Wanted, Answers
<1> QED
  BY <1>1, <1>10 DEF Log!Next

(* A repository opens, and w may be told that it failed. *)
LEMMA OpenedOpens ==
  ASSUME CommitInv, NEW w \in Writers, WriterMoves(w), Candidate(w) \notin exists,
         branch' = [branch EXCEPT ![Candidate(w)] = <<InitialCommit>>],
         Told(writer'[w].pc) \in {Told(writer[w].pc), "failed"}
  PROVE  Log!Next
<1> DEFINE n == Candidate(w)
<1>1. n \in Repos /\ branch[n] = <<>>
  BY CandidateType DEF CommitInv
<1>2. branch' = [branch EXCEPT ![n] = Append(@, [by |-> Owner, paths |-> {AutoInitPath}])]
  BY <1>1 DEF CommitInv, InitialCommit
<1>3. Answers' \in {Answers, [Answers EXCEPT ![w] = "failed"]} /\ Wanted' = Wanted
  BY AnswersMove
<1> HIDE DEF n
<1>4. Log!Open(w, n)
  BY <1>2, <1>3, AutoInitAssumption DEF Log!Open, Wanted, Answers
<1> QED
  BY <1>1, <1>4 DEF Log!Next

LEMMA CreateRepoLog ==
  ASSUME CommitInv, NEW w \in Writers, CreateRepo(w)
  PROVE  Log!Next \/ UNCHANGED Log!vars
<1>1. CASE GetRepo(w)
  <2>1. writer[w].pc \in Calling /\ UNCHANGED <<request, branch>>
    BY <1>1 DEF GetRepo, Calling
  <2>2. CASE Answer(w, "reused")
    BY <2>1, <2>2, AnswerGoesOn
  <2>3. CASE Goto(w, "create")
    <3>1. "create" \in Calling
      BY DEF Calling
    <3> QED
      BY <2>1, <2>3, <3>1, GotoGoesOn
  <2> QED
    BY <1>1, <2>2, <2>3 DEF GetRepo
<1>2. CASE CreateUserRepo(w)
  <2>1. writer[w].pc = "create" /\ request' = request
    BY <1>2 DEF CreateUserRepo
  <2>2. CASE Conflict(w) /\ UNCHANGED <<exists, branch>>
    BY <2>1, <2>2, ConflictGoesOn
  <2>3. CASE /\ Candidate(w) \notin exists
             /\ branch' = [branch EXCEPT ![Candidate(w)] = <<InitialCommit>>]
             /\ \E pc \in {"read_back", "failed"} : Goto(w, pc)
    <3>1. PICK pc \in {"read_back", "failed"} : Goto(w, pc)
      BY <2>3
    <3>2. WriterMoves(w) /\ writer'[w] = [writer[w] EXCEPT !.pc = pc]
      BY <2>1, <3>1, GotoMoves
    <3>3. writer[w] \in Records(writer[w].base)
      BY DEF CommitInv, OnItsWay
    <3>4. writer'[w].pc = pc
      BY <3>2, <3>3 DEF Records
    <3>5. Told(writer'[w].pc) \in {Told(writer[w].pc), "failed"}
      BY <2>1, <3>4 DEF Told
    <3> QED
      BY <2>3, <3>2, <3>5, OpenedOpens
  <2> QED
    BY <1>2, <2>2, <2>3 DEF CreateUserRepo
<1>3. CASE ReadBack(w)
  <2>1. writer[w].pc \in Calling /\ UNCHANGED <<request, branch>> /\ Answer(w, "created")
    BY <1>3 DEF ReadBack, Calling
  <2> QED
    BY <2>1, AnswerGoesOn
<1> QED
  BY <1>1, <1>2, <1>3 DEF CreateRepo

LEMMA OwnerCreatesLog ==
  ASSUME CommitInv, NEW w \in Writers, OwnerCreates(w)
  PROVE  Log!Next \/ UNCHANGED Log!vars
<1>1. /\ WriterMoves(w) /\ writer' = writer
      /\ Candidate(w) \notin exists
  BY DEF CommitInv, OwnerCreates, WriterMoves
<1>2. CASE branch' = branch
  BY <1>1, <1>2, AnswersMove DEF Log!vars, Wanted, Answers
<1>3. CASE branch' = [branch EXCEPT ![Candidate(w)] = <<InitialCommit>>]
  BY <1>1, <1>3, OpenedOpens
<1> QED
  BY <1>2, <1>3 DEF OwnerCreates

LEMMA CommitFilesLog ==
  ASSUME CommitInv, NEW w \in Writers, CommitFiles(w)
  PROVE  Log!Next \/ UNCHANGED Log!vars
<1>1. {"failed", "stale", "contents"} \subseteq Calling \cup {"failed", "stale"}
  BY DEF Calling
<1>2. CASE GetRef(w)
  <2>1. writer[w].pc \in Calling /\ UNCHANGED <<request, branch>>
    BY <1>2 DEF GetRef, Calling
  <2>2. \/ \E pc \in {"failed", "contents"} : Goto(w, pc)
        \/ writer' = [writer EXCEPT ![w].pc = "update", ![w].base = HeadSeen(w)]
    BY <1>2 DEF GetRef
  <2> QED
    BY <1>1, <2>1, <2>2, GotoGoesOn, BasedGoesOn
<1>3. CASE GetContentsSha(w)
  <2>1. /\ writer[w].pc \in Calling /\ UNCHANGED <<request, branch>>
        /\ writer' = [writer EXCEPT ![w].pc = "put",
                                    ![w].base = LastSeen(First(w), Branch(w))]
    BY <1>3 DEF GetContentsSha, Calling
  <2> QED
    BY <2>1, BasedGoesOn
<1>4. CASE PutContents(w)
  <2>1. writer[w].pc \in Calling /\ request' = request
    BY <1>4 DEF PutContents, Calling
  <2>2. CASE /\ branch' = [branch EXCEPT ![writer[w].repo] = Pushed(w, @, {First(w)})]
             /\ \E pc \in {AfterPut(w, writer[w].left \ {First(w)}), "failed"} :
                  writer' = [writer EXCEPT ![w].pc = pc, ![w].left = writer[w].left \ {First(w)}]
    <3>1. PICK pc \in {AfterPut(w, writer[w].left \ {First(w)}), "failed"} :
            writer' = [writer EXCEPT ![w].pc = pc, ![w].left = writer[w].left \ {First(w)}]
      BY <2>2
    <3>2. pc \in {"verify", "seeded", "failed"} /\ {First(w)} \subseteq Files(w)
      BY DEF AfterPut, Files
    <3> QED
      BY <2>1, <2>2, <3>1, <3>2, PushedLands
  <2>3. CASE Goto(w, "stale") /\ branch' = branch
    BY <1>1, <2>1, <2>3, GotoGoesOn
  <2> QED
    BY <1>4, <2>2, <2>3 DEF PutContents
<1>5. CASE GetRefSeeded(w)
  <2>1. /\ writer[w].pc \in Calling /\ UNCHANGED <<request, branch>>
        /\ writer' = [writer EXCEPT ![w].pc = "update", ![w].base = HeadSeen(w)]
    BY <1>5 DEF GetRefSeeded, Calling
  <2> QED
    BY <2>1, BasedGoesOn
<1>6. CASE UpdateRef(w)
  <2>1. writer[w].pc \in Calling /\ request' = request
    BY <1>6 DEF UpdateRef, Calling
  <2>2. CASE /\ FastForward(w)
             /\ \E pc \in {"verify", "failed"} :
                  writer' = [writer EXCEPT ![w].pc = pc, ![w].left = {}]
    <3>1. PICK pc \in {"verify", "failed"} :
            writer' = [writer EXCEPT ![w].pc = pc, ![w].left = {}]
      BY <2>2
    <3>2. writer[w].left \subseteq Files(w) /\ writer[w].left \ writer[w].left = {}
      BY DEF CommitInv, OnItsWay
    <3>3. writer' = [writer EXCEPT ![w].pc = pc, ![w].left = writer[w].left \ writer[w].left]
      BY <3>1, <3>2
    <3> QED
      BY <2>1, <2>2, <3>2, <3>3, PushedLands DEF FastForward
  <2>3. CASE Goto(w, "stale") /\ branch' = branch
    BY <1>1, <2>1, <2>3, GotoGoesOn
  <2> QED
    BY <1>6, <2>2, <2>3 DEF UpdateRef
<1>7. CASE VerifyCommit(w)
  <2>1. /\ writer[w].pc = "verify" /\ Goto(w, "success")
        /\ UNCHANGED <<request, branch>>
    BY <1>7 DEF VerifyCommit
  <2>2. WriterMoves(w) /\ writer'[w] = [writer[w] EXCEPT !.pc = "success"]
    BY <2>1, GotoMoves
  <2>3. OnItsWay(w, writer[w], Branch(w))
    BY DEF CommitInv
  <2>4. writer'[w].pc = "success"
    BY <2>2, <2>3 DEF OnItsWay, Records
  <2>5. Answers' = [Answers EXCEPT ![w] = "success"] /\ Wanted' = Wanted /\ Answers[w] = "none"
    BY <2>1, <2>2, <2>4, AnswersMove DEF Told, Answers
  <2>6. writer[w].repo \in Repos /\ Wanted[w] \subseteq CommittedBy(w, branch[writer[w].repo])
    BY <2>1, <2>3 DEF OnItsWay, Records, Branch, Wanted
  <2>7. Log!Tell(w, "success")
    BY <2>1, <2>5, <2>6 DEF Log!Tell, Log!CommittedBy, CommittedBy, Wanted, Answers
  <2> QED
    BY <2>7 DEF Log!Next
<1> QED
  BY <1>2, <1>3, <1>4, <1>5, <1>6, <1>7 DEF CommitFiles

LEMMA LogStep == CommitInv /\ [Next]_vars => [Log!Next]_(Log!vars)
<1> SUFFICES ASSUME CommitInv, [Next]_vars
             PROVE  Log!Next \/ UNCHANGED Log!vars
  OBVIOUS
<1>1. CASE UNCHANGED vars
  <2>1. Wanted' = Wanted /\ Answers' = Answers
    BY <1>1, CandidatesStay DEF vars, Wanted, Answers
  <2> QED
    BY <1>1, <2>1 DEF vars, Log!vars, Wanted, Answers
<1>2. ASSUME NEW w \in Writers, CallFails(w)
      PROVE  Log!Next \/ UNCHANGED Log!vars
  BY <1>2, GotoGoesOn DEF CallFails
<1> QED
  BY <1>1, <1>2, CreateRepoLog, CommitFilesLog, OwnerCreatesLog DEF Next, Call

(* However the requests of the writers interleave and fail, a branch is a  *)
(* log: no commit of another writer is ever dropped from it.               *)
THEOREM ImplementsLog == Spec => ImplementsCommitLog
BY CommitInit, CommitStep, LogInit, LogStep, PTL DEF Spec, ImplementsCommitLog, Log!Spec
=============================================================================
