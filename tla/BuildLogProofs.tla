--------------------------- MODULE BuildLogProofs ---------------------------
(***************************************************************************)
(* Theorems about BuildLog, for any set of calls, any retry limit and any  *)
(* number of other commits.                                                *)
(***************************************************************************)
EXTENDS BuildLog, FiniteSetTheorems, TLAPS

-----------------------------------------------------------------------------
(* The invariants *)

Landed == {"verify", "wait", "check", "success"}
Writing == {"ref", "update"}

Committed(x) == \E i \in DOMAIN versions : Contains(versions[i], x)

(* What a call is about to write has its entry, and what it is verifying   *)
(* has been committed.                                                     *)
CommittedInv ==
  \A x \in Appenders :
    /\ call[x].pc \in Writing => Contains(call[x].updated, x)
    /\ call[x].pc \in Landed => Committed(x)

Count(s, x) == Cardinality({j \in DOMAIN s : s[j] = x})

(* How often x may have been written: once in every attempt that is over,  *)
(* and in this one once it has updated the branch.                         *)
Written(x) ==
  IF call[x].pc = "failed" THEN RetryLimit + 1
  ELSE IF call[x].pc \in Landed THEN call[x].attempt + 1
  ELSE call[x].attempt

Pending(y, x) == IF y = x /\ call[y].pc \in Writing THEN 1 ELSE 0

(* No version of the file, and no version a call is about to write, has the*)
(* entry of x more often than x was written.                               *)
CountInv ==
  \A x \in Appenders :
    /\ \A i \in DOMAIN versions : Count(versions[i], x) <= Written(x)
    /\ \A y \in Appenders :
         Count(call[y].updated, x) <= Written(x) + Pending(y, x)

(* What y is about to write is not refused for another commit: y has read  *)
(* the log, and if it has taken a head that is still the head.             *)
MayLand(y) ==
  \/ call[y].pc = "ref"
  \/ call[y].pc = "update" /\ call[y].base = Len(versions)

(* An entry that no call has missed is in the file since it was committed, *)
(* and in whatever may land.                                               *)
KeptInv ==
  /\ \A y \in Appenders : call[y].pc = "update" => call[y].base <= Len(versions)
  /\ \A x \in Appenders \ unread :
       Committed(x) =>
         /\ Contains(Current, x)
         /\ \A y \in Appenders : MayLand(y) => Contains(call[y].updated, x)

LogInv == TypeOK /\ CommittedInv /\ CountInv /\ KeptInv

-----------------------------------------------------------------------------
(* Moves of one call *)

CallPCs == {"idle", "read"} \cup Running \cup Ended
Calls == [pc : CallPCs, attempt : 0..RetryLimit, updated : Log, base : Nat]

(* Only x moves, to r. *)
Moves(x, r) == /\ call'[x] = r
               /\ \A y \in Others(x) : call'[y] = call[y]

LEMMA GotoMoves ==
  ASSUME TypeOK, NEW x \in Appenders, NEW pc \in CallPCs, Goto(x, pc)
  PROVE  /\ call' \in [Appenders -> Calls]
         /\ Moves(x, call'[x])
         /\ call'[x].pc = pc
         /\ call'[x].attempt = call[x].attempt
         /\ call'[x].updated = call[x].updated
BY DEF TypeOK, Goto, Moves, Others, Calls, CallPCs

(* A call that starts over has spent an attempt; one that may not ends. *)
LEMMA AgainMoves ==
  ASSUME TypeOK, NEW x \in Appenders, Again(x)
  PROVE  /\ call' \in [Appenders -> Calls]
         /\ Moves(x, call'[x])
         /\ call'[x].updated = call[x].updated
         /\ \/ call'[x].pc = "read" /\ call'[x].attempt = call[x].attempt + 1
            \/ call'[x].pc = "failed" /\ call'[x].attempt = call[x].attempt
<1>1. call[x] \in Calls
  BY DEF TypeOK, Calls, CallPCs
<1>2. CASE MayRetry(x)
  <2> DEFINE r == [call[x] EXCEPT !.pc = "read", !.attempt = @ + 1]
  <2>1. call' = [call EXCEPT ![x] = r]
    BY <1>2 DEF Again, TypeOK
  <2>2. call[x].attempt + 1 \in 0..RetryLimit
    BY <1>1, <1>2, RetryLimitAssumption DEF MayRetry, Calls
  <2>3. /\ r \in Calls
        /\ r.pc = "read" /\ r.attempt = call[x].attempt + 1
        /\ r.updated = call[x].updated
    BY <1>1, <2>2 DEF Calls, CallPCs
  <2> HIDE DEF r
  <2> QED
    BY <2>1, <2>3 DEF TypeOK, Moves, Others, Calls, CallPCs
<1>3. CASE ~MayRetry(x)
  BY <1>3 DEF Again, TypeOK, Moves, Others, Calls, CallPCs, Ended
<1> QED
  BY <1>2, <1>3

LEMMA CurrentType ==
  ASSUME TypeOK
  PROVE  /\ Len(versions) \in Nat \ {0}
         /\ Current \in Log
         /\ Readable \subseteq {versions[i] : i \in DOMAIN versions}
         /\ \A i \in DOMAIN versions : versions[i] \in Log
<1>1. versions \in Seq(Log) /\ versions # <<>>
  BY DEF TypeOK
<1>2. Len(versions) \in Nat \ {0}
  BY <1>1
<1> QED
  BY <1>1, <1>2 DEF Current, Readable

LEMMA AppendedEntry ==
  ASSUME NEW s \in Log, NEW x \in Appenders
  PROVE  /\ Append(s, x) \in Log
         /\ Contains(Append(s, x), x)
         /\ \A y : Contains(s, y) => Contains(Append(s, x), y)
<1>1. /\ Append(s, x) \in Log
      /\ Len(Append(s, x)) = Len(s) + 1
      /\ Len(s) \in Nat
      /\ Append(s, x)[Len(s) + 1] = x
      /\ \A i \in 1..Len(s) : Append(s, x)[i] = s[i]
  BY DEF Log
<1> QED
  BY <1>1 DEF Contains

LEMMA AppendedVersion ==
  ASSUME TypeOK, NEW log \in Log, versions' = Append(versions, log)
  PROVE  /\ versions' \in Seq(Log) /\ versions' # <<>>
         /\ DOMAIN versions' = DOMAIN versions \cup {Len(versions) + 1}
         /\ \A i \in DOMAIN versions : versions'[i] = versions[i]
         /\ versions'[Len(versions) + 1] = log
         /\ Current' = log
<1>1. versions \in Seq(Log)
  BY DEF TypeOK
<1>2. /\ versions' \in Seq(Log)
      /\ Len(versions') = Len(versions) + 1
      /\ Len(versions) \in Nat
      /\ \A i \in 1..Len(versions) : versions'[i] = versions[i]
      /\ versions'[Len(versions) + 1] = log
  BY <1>1
<1> QED
  BY <1>1, <1>2 DEF Current

LEMMA ReadMoves ==
  ASSUME TypeOK, NEW x \in Appenders, ReadLog(x)
  PROVE  \E existing \in Log :
           /\ existing = <<>> \/ \E i \in DOMAIN versions : existing = versions[i]
           /\ call' \in [Appenders -> Calls]
           /\ Moves(x, call'[x])
           /\ call[x].pc = "read"
           /\ call'[x].pc = "ref"
           /\ call'[x].attempt = call[x].attempt
           /\ call'[x].updated = Append(existing, x)
           /\ unread' = unread \cup Missing(Current, existing)
           /\ UNCHANGED <<versions, others>>
<1>1. PICK existing \in Readable \cup {<<>>} :
        /\ call' = [call EXCEPT ![x].pc = "ref",
                                ![x].updated = Updated(existing, x)]
        /\ unread' = unread \cup Missing(Current, existing)
  BY DEF ReadLog
<1>2. existing \in Log
  <2>1. <<>> \in Seq(Appenders)
    OBVIOUS
  <2> QED
    BY <2>1, CurrentType DEF Log
<1>3. Append(existing, x) \in Log
  BY <1>2, AppendedEntry
<1> DEFINE r == [call[x] EXCEPT !.pc = "ref", !.updated = Append(existing, x)]
<1>4. call' = [call EXCEPT ![x] = r]
  BY <1>1 DEF TypeOK, Updated
<1>5. /\ r \in Calls
      /\ r.pc = "ref" /\ r.attempt = call[x].attempt
      /\ r.updated = Append(existing, x)
  BY <1>3 DEF TypeOK, Calls, CallPCs, Running
<1> HIDE DEF r
<1>6. /\ call' \in [Appenders -> Calls]
      /\ Moves(x, call'[x])
      /\ call'[x] = r
  BY <1>4, <1>5 DEF TypeOK, Moves, Others, Calls, CallPCs
<1> QED
  BY <1>1, <1>2, <1>5, <1>6, CurrentType DEF ReadLog

(* The other ways a call moves, read off its requests: it goes on, gives   *)
(* up, or starts over.                                                     *)
Proceeds(x) ==
  /\ call' \in [Appenders -> Calls]
  /\ Moves(x, call'[x])
  /\ call'[x].updated = call[x].updated
  /\ call[x].pc \in Running
  /\ \/ /\ call'[x].attempt = call[x].attempt
        /\ \/ /\ call[x].pc = "ref" /\ call'[x].pc = "update"
              /\ call'[x].base = Len(versions)
           \/ call[x].pc \in Landed /\ call'[x].pc \in Landed
           \/ call'[x].pc = "failed"
     \/ call'[x].attempt = call[x].attempt + 1 /\ call'[x].pc = "read"

LEMMA RequestProceeds ==
  ASSUME TypeOK, NEW x \in Appenders,
         GetRef(x) \/ VerifyCommit(x) \/ WaitForFileEntry(x) \/ CheckCommit(x)
  PROVE  Proceeds(x) /\ UNCHANGED <<versions, others, unread>>
<1>1. CASE GetRef(x)
  <2>1. CASE Again(x)
    BY <1>1, <2>1, AgainMoves DEF GetRef, Proceeds, Running
  <2>2. CASE call' = [call EXCEPT ![x].pc = "update", ![x].base = Len(versions)]
    <3> DEFINE r == [call[x] EXCEPT !.pc = "update", !.base = Len(versions)]
    <3>1. call' = [call EXCEPT ![x] = r]
      BY <2>2 DEF TypeOK
    <3>2. /\ r \in Calls
          /\ r.pc = "update" /\ r.base = Len(versions)
          /\ r.attempt = call[x].attempt
          /\ r.updated = call[x].updated
      BY CurrentType DEF TypeOK, Calls, CallPCs, Running
    <3> HIDE DEF r
    <3> QED
      BY <1>1, <3>1, <3>2 DEF GetRef, Proceeds, Moves, Others, TypeOK, Calls,
         CallPCs, Running
  <2> QED
    BY <1>1, <2>1, <2>2 DEF GetRef
<1>2. CASE VerifyCommit(x) \/ WaitForFileEntry(x) \/ CheckCommit(x)
  <2>1. /\ call[x].pc \in Landed \cap Running
        /\ Again(x) \/ \E pc \in Landed : Goto(x, pc)
        /\ UNCHANGED <<versions, others, unread>>
    BY <1>2 DEF VerifyCommit, WaitForFileEntry, CheckCommit, Landed, Running
  <2>2. CASE Again(x)
    BY <2>1, <2>2, AgainMoves DEF Proceeds
  <2>3. ASSUME NEW pc \in Landed, Goto(x, pc) PROVE Proceeds(x)
    BY <2>1, <2>3, GotoMoves DEF Proceeds, Landed, CallPCs, Running, Ended
  <2> QED
    BY <2>1, <2>2, <2>3
<1> QED
  BY <1>1, <1>2

(* A commit that lands, or does not. *)
LEMMA UpdateProceeds ==
  ASSUME TypeOK, NEW x \in Appenders, UpdateRef(x)
  PROVE  /\ UNCHANGED others
         /\ call[x].pc = "update"
         /\ \/ Proceeds(x) /\ UNCHANGED <<versions, unread>>
            \/ /\ call[x].base = Len(versions)
               /\ versions' = Append(versions, call[x].updated)
               /\ unread' = unread \cup ReadTooEarly(x)
               /\ call' \in [Appenders -> Calls]
               /\ Moves(x, call'[x])
               /\ call'[x].updated = call[x].updated
               /\ \/ /\ call'[x].attempt = call[x].attempt
                     /\ call'[x].pc \in {"verify", "failed"}
                  \/ /\ call'[x].attempt = call[x].attempt + 1
                     /\ call'[x].pc = "read"
<1>1. CASE Again(x)
  BY <1>1, AgainMoves DEF UpdateRef, NotCommitted, FastForward, Proceeds, Running
<1>2. CASE Goto(x, "verify") /\ ~Again(x)
  BY <1>2, GotoMoves DEF UpdateRef, NotCommitted, FastForward, CallPCs, Running
<1> QED
  BY <1>1, <1>2 DEF UpdateRef, NotCommitted, FastForward

(* Every step is one of these. *)
LEMMA StepCases ==
  ASSUME TypeOK, Next
  PROVE  \/ /\ UNCHANGED <<call, unread>>
            /\ versions' = Append(versions, Current)
            /\ others' = others + 1 /\ others < MaxOthers
         \/ \E x \in Appenders :
              \/ Begin(x)
              \/ ReadLog(x)
              \/ Proceeds(x) /\ UNCHANGED <<versions, others, unread>>
              \/ UpdateRef(x)
BY RequestProceeds DEF Next, OtherCommit, Step

-----------------------------------------------------------------------------
(* Types *)

LEMMA InitLog == Init => LogInv
<1> SUFFICES ASSUME Init PROVE LogInv
  OBVIOUS
<1>1. TypeOK
  <2>1. <<>> \in Seq(Appenders)
    OBVIOUS
  <2>2. << <<>> >> \in Seq(Log) /\ << <<>> >> # <<>>
    BY <2>1 DEF Log
  <2>3. others \in 0..MaxOthers /\ 0 \in 0..RetryLimit
    BY RetryLimitAssumption, MaxOthersAssumption DEF Init
  <2> QED
    BY <2>1, <2>2, <2>3 DEF Init, TypeOK, Log
<1>2. \A x \in Appenders : /\ call[x].pc = "idle"
                           /\ call[x].attempt = 0
                           /\ call[x].updated = <<>>
  BY DEF Init
<1>3. CommittedInv
  BY <1>2 DEF CommittedInv, Writing, Landed
<1>4. \A x : Count(<<>>, x) = 0
  <2>1. ASSUME NEW x PROVE {j \in DOMAIN <<>> : <<>>[j] = x} = {}
    OBVIOUS
  <2> QED
    BY <2>1, FS_EmptySet DEF Count
<1>5. CountInv
  <2>1. \A i \in DOMAIN versions : versions[i] = <<>>
    BY DEF Init
  <2> QED
    BY <1>2, <1>4, <2>1 DEF CountInv, Written, Pending, Landed, Writing
<1>6. KeptInv
  <2>1. \A x : ~Committed(x)
    BY DEF Init, Committed, Contains
  <2> QED
    BY <1>2, <2>1 DEF KeptInv
<1> QED
  BY <1>1, <1>3, <1>5, <1>6 DEF LogInv

LEMMA TypeStep ==
  ASSUME TypeOK, Next
  PROVE  TypeOK'
<1>0. TypeOK <=> /\ versions \in Seq(Log) /\ versions # <<>>
                 /\ others \in 0..MaxOthers
                 /\ call \in [Appenders -> Calls]
                 /\ unread \subseteq Appenders
  BY DEF TypeOK, Calls, CallPCs
<1>1. CASE /\ UNCHANGED <<call, unread>>
           /\ versions' = Append(versions, Current)
           /\ others' = others + 1 /\ others < MaxOthers
  <2>1. others' \in 0..MaxOthers
    BY <1>1, MaxOthersAssumption DEF TypeOK
  <2> QED
    BY <1>1, <2>1, CurrentType, AppendedVersion DEF TypeOK
<1>2. ASSUME NEW x \in Appenders, Begin(x) PROVE TypeOK'
  BY <1>0, <1>2, GotoMoves DEF Begin, CallPCs, TypeOK, Calls
<1>3. ASSUME NEW x \in Appenders, ReadLog(x) PROVE TypeOK'
  <2>1. unread' \subseteq Appenders
    BY <1>3, ReadMoves DEF TypeOK, Missing
  <2> QED
    BY <1>0, <1>3, <2>1, ReadMoves DEF TypeOK, Calls, CallPCs
<1>4. ASSUME NEW x \in Appenders, Proceeds(x),
             UNCHANGED <<versions, others, unread>>
      PROVE  TypeOK'
  BY <1>0, <1>4 DEF Proceeds, TypeOK, Calls, CallPCs
<1>5. ASSUME NEW x \in Appenders, UpdateRef(x) PROVE TypeOK'
  <2>1. call[x].updated \in Log
    BY DEF TypeOK
  <2>2. ReadTooEarly(x) \subseteq Appenders
    BY DEF ReadTooEarly, Missing
  <2>3. unread' \subseteq Appenders
    BY <1>5, <2>2, UpdateProceeds DEF TypeOK
  <2> QED
    BY <1>0, <1>5, <2>1, <2>3, UpdateProceeds, AppendedVersion
    DEF Proceeds, TypeOK, Calls, CallPCs
<1> QED
  BY <1>1, <1>2, <1>3, <1>4, <1>5, StepCases

-----------------------------------------------------------------------------
(* Whose success was committed *)

(* No commit is ever taken back. *)
LEMMA CommittedStays ==
  ASSUME TypeOK, NEW log \in Log, versions' = Append(versions, log),
         NEW x \in Appenders, Committed(x) \/ Contains(log, x)
  PROVE  Committed(x)'
BY AppendedVersion, CurrentType DEF Committed

LEMMA CommittedStep ==
  ASSUME TypeOK, CommittedInv, Next
  PROVE  CommittedInv'
<1>1. CASE /\ UNCHANGED <<call, unread>>
           /\ versions' = Append(versions, Current)
  <2>1. \A z \in Appenders : Committed(z) => Committed(z)'
    BY <1>1, CurrentType, CommittedStays
  <2> QED
    BY <1>1, <2>1 DEF CommittedInv
<1>2. ASSUME NEW x \in Appenders, Begin(x) PROVE CommittedInv'
  BY <1>2, GotoMoves
  DEF Begin, CommittedInv, Committed, Moves, Others, CallPCs, Writing, Landed
<1>3. ASSUME NEW x \in Appenders, ReadLog(x) PROVE CommittedInv'
  <2>1. /\ Moves(x, call'[x])
        /\ call'[x].pc = "ref"
        /\ Contains(call'[x].updated, x)
        /\ UNCHANGED versions
    <3>1. PICK existing \in Log :
            /\ Moves(x, call'[x])
            /\ call'[x].pc = "ref"
            /\ call'[x].updated = Append(existing, x)
            /\ UNCHANGED versions
      BY <1>3, ReadMoves
    <3>2. Contains(Append(existing, x), x)
      BY AppendedEntry
    <3> QED
      BY <3>1, <3>2
  <2> QED
    BY <2>1 DEF CommittedInv, Committed, Moves, Others, Writing, Landed
<1>4. ASSUME NEW x \in Appenders, Proceeds(x), UNCHANGED versions
      PROVE  CommittedInv'
  BY <1>4 DEF Proceeds, CommittedInv, Committed, Moves, Others, Writing, Landed
<1>5. ASSUME NEW x \in Appenders, UpdateRef(x) PROVE CommittedInv'
  <2>1. CASE UNCHANGED versions /\ Proceeds(x)
    BY <1>4, <2>1
  <2>2. CASE ~(UNCHANGED versions /\ Proceeds(x))
    <3>1. /\ versions' = Append(versions, call[x].updated)
          /\ call[x].pc = "update"
          /\ Moves(x, call'[x])
          /\ call'[x].pc \in {"verify", "failed", "read"}
      BY <1>5, <2>2, UpdateProceeds
    <3>2. call[x].updated \in Log /\ Contains(call[x].updated, x)
      BY <3>1 DEF TypeOK, CommittedInv, Writing
    <3>3. \A z \in Appenders : z = x \/ Committed(z) => Committed(z)'
      BY <3>1, <3>2, CommittedStays
    <3> QED
      BY <3>1, <3>3 DEF CommittedInv, Moves, Others, Writing, Landed
  <2> QED
    BY <2>1, <2>2
<1> QED
  BY <1>1, <1>2, <1>3, <1>4, <1>5, StepCases

-----------------------------------------------------------------------------
(* How often an entry is in the log *)

LEMMA CountFinite ==
  ASSUME NEW s \in Log, NEW x
  PROVE  /\ IsFiniteSet({j \in DOMAIN s : s[j] = x})
         /\ Count(s, x) \in Nat
<1>1. DOMAIN s = 1..Len(s) /\ Len(s) \in Nat
  BY DEF Log
<1>2. IsFiniteSet(1..Len(s))
  BY <1>1, FS_Interval
<1>3. {j \in DOMAIN s : s[j] = x} \subseteq 1..Len(s)
  BY <1>1
<1>4. IsFiniteSet({j \in DOMAIN s : s[j] = x})
  BY <1>2, <1>3, FS_Subset
<1> QED
  BY <1>4, FS_CardinalityType DEF Count

LEMMA CountAppend ==
  ASSUME NEW s \in Log, NEW x \in Appenders, NEW z
  PROVE  Count(Append(s, x), z) = Count(s, z) + (IF z = x THEN 1 ELSE 0)
<1> DEFINE Places(r) == {j \in DOMAIN r : r[j] = z}
<1>1. /\ DOMAIN s = 1..Len(s) /\ Len(s) \in Nat
      /\ DOMAIN Append(s, x) = 1..(Len(s) + 1)
      /\ Append(s, x)[Len(s) + 1] = x
      /\ \A i \in 1..Len(s) : Append(s, x)[i] = s[i]
  BY DEF Log
<1>2. CASE z = x
  <2>1. Places(Append(s, x)) = Places(s) \cup {Len(s) + 1}
    BY <1>1, <1>2
  <2>2. Len(s) + 1 \notin Places(s)
    BY <1>1
  <2> HIDE DEF Places
  <2>3. IsFiniteSet(Places(s))
    BY CountFinite DEF Places
  <2>4. Cardinality(Places(s) \cup {Len(s) + 1}) = Cardinality(Places(s)) + 1
    BY <2>2, <2>3, FS_AddElement
  <2> QED
    BY <1>2, <2>1, <2>4 DEF Count, Places
<1>3. CASE z # x
  <2>1. Places(Append(s, x)) = Places(s)
    BY <1>1, <1>3
  <2>2. Count(Append(s, x), z) = Count(s, z)
    BY <2>1 DEF Count
  <2>3. Count(s, z) \in Nat
    BY CountFinite
  <2> HIDE DEF Places
  <2> QED
    BY <1>3, <2>2, <2>3
<1> QED
  BY <1>2, <1>3

LEMMA CountEmpty == \A x : Count(<<>>, x) = 0
<1>1. ASSUME NEW x PROVE {j \in DOMAIN <<>> : <<>>[j] = x} = {}
  OBVIOUS
<1> QED
  BY <1>1, FS_EmptySet DEF Count

LEMMA WrittenType ==
  ASSUME TypeOK, NEW y \in Appenders, NEW x \in Appenders
  PROVE  Written(x) \in Nat /\ Pending(y, x) \in Nat
BY RetryLimitAssumption DEF TypeOK, Written, Pending

(* An attempt is counted when it begins to be over, not before and not     *)
(* twice.                                                                  *)
LEMMA WrittenGrows ==
  ASSUME TypeOK, NEW x \in Appenders, Moves(x, call'[x]),
         \/ /\ call'[x].attempt = call[x].attempt
            /\ \/ call[x].pc \notin Landed \cup {"failed"} /\ call'[x].pc \in Writing
               \/ call[x].pc \in {"idle", "read"} /\ call'[x].pc = "read"
               \/ call[x].pc \in Landed \cup {"update"} /\ call'[x].pc \in Landed
               \/ call'[x].pc = "failed"
         \/ /\ call'[x].attempt = call[x].attempt + 1 /\ call'[x].pc = "read"
            /\ call[x].pc \in Running
  PROVE  \A z \in Appenders :
           /\ Written(z) <= Written(z)'
           /\ \A y \in Appenders :
                Written(z) + Pending(y, z) <= Written(z)' + Pending(y, z)'
<1>1. /\ call[x].attempt \in Nat /\ call[x].attempt <= RetryLimit
      /\ RetryLimit \in Nat
  BY RetryLimitAssumption DEF TypeOK
<1>2. /\ Written(x) <= Written(x)'
      /\ Written(x) + Pending(x, x) <= Written(x)' + Pending(x, x)'
  BY <1>1 DEF Written, Pending, Landed, Writing, Running
<1>3. \A z \in Appenders : z # x => Written(z)' = Written(z)
  BY DEF Moves, Others, Written
<1>4. \A y, z \in Appenders : y # x \/ y # z => Pending(y, z)' = Pending(y, z)
  BY DEF Moves, Others, Pending
<1>5. \A y, z \in Appenders : /\ Written(z) \in Nat
                              /\ Pending(y, z) \in Nat
  BY WrittenType
<1>6. Written(x)' \in Int
  BY <1>1 DEF Written
<1> QED
  BY <1>2, <1>3, <1>4, <1>5, <1>6

(* What is written no more than it may be stays so: the log it is in, or   *)
(* the log it is about to be in, is the only one that changes.             *)
LEMMA CountStep ==
  ASSUME TypeOK, TypeOK', CountInv, Next
  PROVE  CountInv'
<1> DEFINE Grows == \A z \in Appenders :
                      /\ Written(z) <= Written(z)'
                      /\ \A y \in Appenders :
                           Written(z) + Pending(y, z) <= Written(z)' + Pending(y, z)'
<1>0. \A y, z \in Appenders :
        /\ Written(z) \in Nat /\ Written(z)' \in Nat
        /\ Pending(y, z) \in Nat /\ Pending(y, z)' \in Nat
        /\ Count(call[y].updated, z) \in Nat
        /\ \A i \in DOMAIN versions : Count(versions[i], z) \in Nat
  <2>1. ASSUME NEW y \in Appenders, NEW z \in Appenders
        PROVE  /\ Written(z) \in Nat /\ Written(z)' \in Nat
               /\ Pending(y, z) \in Nat /\ Pending(y, z)' \in Nat
    BY RetryLimitAssumption DEF TypeOK, Written, Pending
  <2>2. ASSUME NEW s \in Log, NEW z PROVE Count(s, z) \in Nat
    BY CountFinite
  <2>3. \A y \in Appenders : call[y].updated \in Log
    BY DEF TypeOK
  <2> QED
    BY <2>1, <2>2, <2>3, CurrentType
<1>1. CASE /\ UNCHANGED <<call, unread>>
           /\ versions' = Append(versions, Current)
  <2>1. \A i \in DOMAIN versions' : \E k \in DOMAIN versions : versions'[i] = versions[k]
    BY <1>1, CurrentType, AppendedVersion DEF Current, TypeOK
  <2> QED
    BY <1>1, <2>1 DEF CountInv, Written, Pending
<1>2. ASSUME NEW x \in Appenders, UNCHANGED versions, Moves(x, call'[x]),
             call'[x].updated = call[x].updated, Grows
      PROVE  CountInv'
  <2>1. \A y \in Appenders : call'[y].updated = call[y].updated
    BY <1>2 DEF Moves, Others
  <2>2. ASSUME NEW z \in Appenders, NEW i \in DOMAIN versions
        PROVE  Count(versions[i], z) <= Written(z)'
    BY <1>0, <1>2, <2>2 DEF CountInv
  <2>3. ASSUME NEW z \in Appenders, NEW y \in Appenders
        PROVE  Count(call[y].updated, z) <= Written(z)' + Pending(y, z)'
    <3> HIDE DEF Count, Written, Pending
    <3>1. Count(call[y].updated, z) <= Written(z) + Pending(y, z)
      BY DEF CountInv
    <3>2. Written(z) + Pending(y, z) <= Written(z)' + Pending(y, z)'
      BY <1>2
    <3> QED
      BY <1>0, <3>1, <3>2
  <2> QED
    BY <1>2, <2>1, <2>2, <2>3 DEF CountInv, Count
<1>3. ASSUME NEW x \in Appenders, Begin(x) PROVE CountInv'
  <2>1. /\ UNCHANGED versions
        /\ Moves(x, call'[x])
        /\ call[x].pc = "idle" /\ call'[x].pc = "read"
        /\ call'[x].attempt = call[x].attempt
        /\ call'[x].updated = call[x].updated
    BY <1>3, GotoMoves DEF Begin, CallPCs
  <2>2. Grows
    BY <2>1, WrittenGrows
  <2> QED
    BY <1>2, <2>1, <2>2
<1>4. ASSUME NEW x \in Appenders, ReadLog(x) PROVE CountInv'
  <2>1. PICK existing \in Log :
          /\ existing = <<>> \/ \E i \in DOMAIN versions : existing = versions[i]
          /\ Moves(x, call'[x])
          /\ call[x].pc = "read" /\ call'[x].pc = "ref"
          /\ call'[x].attempt = call[x].attempt
          /\ call'[x].updated = Append(existing, x)
          /\ UNCHANGED <<versions, others>>
    BY <1>4, ReadMoves
  <2>2. Grows
    BY <2>1, WrittenGrows DEF Writing, Landed
  <2>3. ASSUME NEW z \in Appenders PROVE Count(existing, z) <= Written(z)
    <3>1. CASE existing = <<>>
      <4>1. Count(existing, z) = 0
        BY <3>1, CountEmpty
      <4> QED
        BY <1>0, <4>1
    <3>2. CASE \E i \in DOMAIN versions : existing = versions[i]
      <4> HIDE DEF Count, Written
      <4> QED
        BY <3>2 DEF CountInv
    <3> QED
      BY <2>1, <3>1, <3>2
  <2>4. ASSUME NEW z \in Appenders
        PROVE  Count(call'[x].updated, z) <= Written(z)' + Pending(x, z)'
    <3>1. Pending(x, z)' = IF z = x THEN 1 ELSE 0
      BY <2>1 DEF Pending, Writing
    <3>2. Count(call'[x].updated, z) = Count(existing, z) + Pending(x, z)'
      BY <2>1, <3>1, CountAppend
    <3>3. Written(z) <= Written(z)'
      BY <2>2
    <3>4. Count(existing, z) \in Nat
      BY CountFinite
    <3> HIDE DEF Grows
    <3> QED
      BY <1>0, <2>3, <3>2, <3>3, <3>4
  <2>5. ASSUME NEW z \in Appenders, NEW y \in Others(x)
        PROVE  Count(call'[y].updated, z) <= Written(z)' + Pending(y, z)'
    <3>1. y \in Appenders /\ call'[y] = call[y]
      BY <2>1 DEF Moves, Others
    <3>2. Count(call[y].updated, z) <= Written(z) + Pending(y, z)
      BY <3>1 DEF CountInv
    <3>3. Written(z) + Pending(y, z) <= Written(z)' + Pending(y, z)'
      BY <2>2, <3>1
    <3> HIDE DEF Grows
    <3> QED
      BY <1>0, <3>1, <3>2, <3>3
  <2>6. ASSUME NEW z \in Appenders, NEW i \in DOMAIN versions
        PROVE  Count(versions[i], z) <= Written(z)'
    <3>1. Count(versions[i], z) <= Written(z) /\ Written(z) <= Written(z)'
      BY <2>2, <2>6 DEF CountInv
    <3> HIDE DEF Grows
    <3> QED
      BY <1>0, <2>6, <3>1
  <2> QED
    BY <2>1, <2>4, <2>5, <2>6 DEF CountInv, Others, Count
<1>5. ASSUME NEW x \in Appenders, Proceeds(x), UNCHANGED versions
      PROVE  CountInv'
  <2>1. Grows
    BY <1>5, WrittenGrows DEF Proceeds, Writing, Landed, Running
  <2> QED
    BY <1>2, <1>5, <2>1 DEF Proceeds
<1>6. ASSUME NEW x \in Appenders, UpdateRef(x) PROVE CountInv'
  <2>1. CASE UNCHANGED versions /\ Proceeds(x)
    BY <1>5, <2>1
  <2>2. CASE ~(UNCHANGED versions /\ Proceeds(x))
    <3>1. /\ versions' = Append(versions, call[x].updated)
          /\ call[x].pc = "update"
          /\ Moves(x, call'[x])
          /\ call'[x].updated = call[x].updated
          /\ \/ /\ call'[x].attempt = call[x].attempt
                /\ call'[x].pc \in {"verify", "failed"}
             \/ /\ call'[x].attempt = call[x].attempt + 1
                /\ call'[x].pc = "read"
      BY <1>6, <2>2, UpdateProceeds
    <3>2. Grows
      BY <3>1, WrittenGrows DEF Writing, Landed, Running
    <3>3. call[x].updated \in Log
      BY DEF TypeOK
    <3>4. ASSUME NEW z \in Appenders, NEW y \in Appenders
          PROVE  Count(call'[y].updated, z) <= Written(z)' + Pending(y, z)'
      <4>1. call'[y].updated = call[y].updated
        BY <3>1 DEF Moves, Others
      <4>2. Count(call[y].updated, z) <= Written(z) + Pending(y, z)
        BY DEF CountInv
      <4>3. Written(z) + Pending(y, z) <= Written(z)' + Pending(y, z)'
        BY <3>2
      <4> HIDE DEF Grows
      <4> QED
        BY <1>0, <4>1, <4>2, <4>3
    <3>5. ASSUME NEW z \in Appenders
          PROVE  /\ Count(call[x].updated, z) <= Written(z)'
                 /\ \A i \in DOMAIN versions : Count(versions[i], z) <= Written(z)'
      <4>1. Pending(x, z)' = 0
        BY <3>1 DEF Pending, Writing
      <4>2. Count(call[x].updated, z) <= Written(z)'
        <5>1. Count(call[x].updated, z) <= Written(z) + Pending(x, z)
          BY DEF CountInv
        <5>2. Written(z) + Pending(x, z) <= Written(z)' + Pending(x, z)'
          BY <3>2
        <5> HIDE DEF Grows
        <5> QED
          BY <1>0, <4>1, <5>1, <5>2
      <4>3. ASSUME NEW i \in DOMAIN versions
            PROVE  Count(versions[i], z) <= Written(z)'
        <5>1. Count(versions[i], z) <= Written(z) /\ Written(z) <= Written(z)'
          BY <3>2, <4>3 DEF CountInv
        <5> HIDE DEF Grows
        <5> QED
          BY <1>0, <4>3, <5>1
      <4> QED
        BY <4>2, <4>3
    <3>6. ASSUME NEW z \in Appenders, NEW i \in DOMAIN versions'
          PROVE  Count(versions'[i], z) <= Written(z)'
      <4>1. \/ i \in DOMAIN versions /\ versions'[i] = versions[i]
            \/ versions'[i] = call[x].updated
        BY <3>1, <3>3, <3>6, AppendedVersion
      <4> QED
        BY <3>5, <4>1
    <3> QED
      BY <3>4, <3>6 DEF CountInv, Count
  <2> QED
    BY <2>1, <2>2
<1> QED
  BY <1>1, <1>3, <1>4, <1>5, <1>6, StepCases

-----------------------------------------------------------------------------
(* What is never lost *)

LEMMA KeptStep ==
  ASSUME TypeOK, KeptInv, Next
  PROVE  KeptInv'
<1>0. /\ Len(versions) \in Nat
      /\ \A y \in Appenders : call[y].pc = "update" => call[y].base <= Len(versions)
  BY CurrentType DEF KeptInv
<1>1. ASSUME NEW z \in Appenders \ unread, Committed(z)
      PROVE  /\ Contains(Current, z)
             /\ \A y \in Appenders : MayLand(y) => Contains(call[y].updated, z)
  BY <1>1 DEF KeptInv
<1>2. CASE /\ UNCHANGED <<call, unread>>
           /\ versions' = Append(versions, Current)
  <2>1. /\ Current' = Current /\ Len(versions') = Len(versions) + 1
        /\ \A z : Committed(z)' => Committed(z)
    <3>1. /\ Current' = Current /\ Len(versions') = Len(versions) + 1
          /\ \A i \in DOMAIN versions' : \E j \in DOMAIN versions : versions'[i] = versions[j]
      BY <1>0, <1>2, CurrentType, AppendedVersion DEF TypeOK, Current
    <3> QED
      BY <3>1 DEF Committed
  <2>0. call' = call /\ \A y \in Appenders : call[y].base \in Nat
    BY <1>2 DEF TypeOK
  <2>2. ASSUME NEW y \in Appenders, MayLand(y)' PROVE MayLand(y)
    BY <1>0, <2>0, <2>1, <2>2 DEF MayLand
  <2>3. \A y \in Appenders : call'[y].pc = "update" => call'[y].base <= Len(versions')
    <3>1. ASSUME NEW b \in Nat, b <= Len(versions) PROVE b <= Len(versions')
      BY <1>0, <2>1, <3>1
    <3> QED
      BY <1>0, <2>0, <3>1
  <2>4. ASSUME NEW z \in Appenders \ unread', Committed(z)'
        PROVE  /\ Contains(Current', z)
               /\ \A y \in Appenders : MayLand(y)' => Contains(call'[y].updated, z)
    <3>1. z \in Appenders \ unread /\ Committed(z)
      BY <1>2, <2>1, <2>4
    <3>2. ASSUME NEW y \in Appenders, MayLand(y)' PROVE Contains(call'[y].updated, z)
      BY <1>1, <2>0, <2>2, <3>1, <3>2
    <3> QED
      BY <1>1, <2>1, <3>1, <3>2
  <2> QED
    BY <2>3, <2>4 DEF KeptInv
<1>3. ASSUME NEW x \in Appenders, Moves(x, call'[x]), UNCHANGED versions,
             unread \subseteq unread',
             call'[x].pc = "update" => call'[x].base <= Len(versions),
             \A z \in Appenders \ unread' :
               Committed(z) /\ MayLand(x)' => Contains(call'[x].updated, z)
      PROVE  KeptInv'
  <2>1. Current' = Current /\ \A z : Committed(z)' = Committed(z)
    BY <1>3 DEF Current, Committed
  <2>2. \A y \in Others(x) : call'[y] = call[y] /\ MayLand(y)' = MayLand(y)
    BY <1>3 DEF Moves, MayLand
  <2>3. \A y \in Appenders : call'[y].pc = "update" => call'[y].base <= Len(versions')
    BY <1>0, <1>3, <2>2 DEF Others
  <2>4. ASSUME NEW z \in Appenders \ unread', Committed(z)'
        PROVE  /\ Contains(Current', z)
               /\ \A y \in Appenders : MayLand(y)' => Contains(call'[y].updated, z)
    <3>1. z \in Appenders \ unread /\ Committed(z)
      BY <1>3, <2>1, <2>4
    <3> QED
      BY <1>1, <1>3, <2>1, <2>2, <2>4, <3>1 DEF Others
  <2> QED
    BY <2>3, <2>4 DEF KeptInv
<1>4. ASSUME NEW x \in Appenders, Begin(x) PROVE KeptInv'
  <2>1. /\ Moves(x, call'[x]) /\ call'[x].pc = "read" /\ UNCHANGED <<versions, unread>>
    BY <1>4, GotoMoves DEF Begin, CallPCs
  <2> QED
    BY <1>3, <2>1 DEF MayLand
<1>5. ASSUME NEW x \in Appenders, ReadLog(x) PROVE KeptInv'
  <2>1. PICK existing \in Log :
          /\ Moves(x, call'[x])
          /\ call'[x].pc = "ref"
          /\ call'[x].updated = Append(existing, x)
          /\ unread' = unread \cup Missing(Current, existing)
          /\ UNCHANGED versions
    BY <1>5, ReadMoves
  <2>2. ASSUME NEW z \in Appenders \ unread', Committed(z)
        PROVE  Contains(call'[x].updated, z)
    <3>1. Contains(Current, z)
      BY <1>1, <2>1, <2>2
    <3>2. Contains(existing, z)
      BY <2>1, <2>2, <3>1 DEF Missing
    <3> QED
      BY <2>1, <3>2, AppendedEntry
  <2> QED
    BY <1>3, <2>1, <2>2
<1>6. ASSUME NEW x \in Appenders, Proceeds(x), UNCHANGED <<versions, unread>>
      PROVE  KeptInv'
  <2>1. /\ Moves(x, call'[x])
        /\ call'[x].updated = call[x].updated
        /\ MayLand(x)' => MayLand(x)
        /\ call'[x].pc = "update" => call'[x].base <= Len(versions)
    BY <1>0, <1>6 DEF Proceeds, MayLand, Landed
  <2> QED
    BY <1>1, <1>3, <1>6, <2>1
<1>7. ASSUME NEW x \in Appenders, UpdateRef(x) PROVE KeptInv'
  <2>1. CASE Proceeds(x) /\ UNCHANGED <<versions, unread>>
    BY <1>6, <2>1
  <2>2. CASE ~(Proceeds(x) /\ UNCHANGED <<versions, unread>>)
    <3>1. /\ call[x].pc = "update" /\ call[x].base = Len(versions)
          /\ versions' = Append(versions, call[x].updated)
          /\ unread' = unread \cup ReadTooEarly(x)
          /\ Moves(x, call'[x])
          /\ call'[x].pc \in {"verify", "failed", "read"}
      BY <1>7, <2>2, UpdateProceeds
    <3>2. call[x].updated \in Log
      BY DEF TypeOK
    <3>3. /\ Current' = call[x].updated /\ Len(versions') = Len(versions) + 1
          /\ \A z : Committed(z)' => Committed(z) \/ Contains(call[x].updated, z)
      <4>1. /\ Current' = call[x].updated /\ Len(versions') = Len(versions) + 1
            /\ \A i \in DOMAIN versions' : \/ i \in DOMAIN versions /\ versions'[i] = versions[i]
                                           \/ versions'[i] = call[x].updated
        BY <1>0, <3>1, <3>2, AppendedVersion DEF TypeOK
      <4> QED
        BY <4>1 DEF Committed
    <3>4. \A y \in Others(x) : /\ call'[y] = call[y] /\ call[y].base \in Nat
                               /\ MayLand(y)' => call[y].pc = "ref"
      BY <1>0, <3>1, <3>3 DEF Moves, MayLand, TypeOK, Others
    <3>5. \A y \in Appenders : call'[y].pc = "update" => call'[y].base <= Len(versions')
      BY <1>0, <3>1, <3>3, <3>4 DEF Others
    <3>6. ASSUME NEW z \in Appenders \ unread', Committed(z)'
          PROVE  /\ Contains(Current', z)
                 /\ \A y \in Appenders : MayLand(y)' => Contains(call'[y].updated, z)
      <4>1. Contains(call[x].updated, z)
        BY <1>1, <3>1, <3>3, <3>6 DEF MayLand
      <4>2. ASSUME NEW y \in Others(x), call[y].pc = "ref"
            PROVE  Contains(call[y].updated, z)
        BY <3>1, <3>6, <4>1, <4>2 DEF ReadTooEarly, Missing
      <4>3. ~MayLand(x)'
        BY <3>1 DEF MayLand
      <4> QED
        BY <3>3, <3>4, <4>1, <4>2, <4>3 DEF Others
    <3> QED
      BY <3>5, <3>6 DEF KeptInv
  <2> QED
    BY <2>1, <2>2
<1> QED
  BY <1>2, <1>4, <1>5, <1>6, <1>7, StepCases

-----------------------------------------------------------------------------
(* Theorems *)

LEMMA StutterLog ==
  ASSUME LogInv, UNCHANGED vars
  PROVE  LogInv'
BY DEF LogInv, vars, TypeOK, CommittedInv, Committed, CountInv, Count, Written,
   Pending, KeptInv, MayLand, Current

(* The invariant the theorems below follow from. *)
THEOREM LogInvariant == Spec => []LogInv
<1>1. ASSUME LogInv, Next PROVE LogInv'
  <2>1. TypeOK'
    BY <1>1, TypeStep DEF LogInv
  <2> QED
    BY <1>1, <2>1, CommittedStep, CountStep, KeptStep DEF LogInv
<1>2. LogInv /\ [Next]_vars => LogInv'
  BY <1>1, StutterLog
<1> QED
  BY <1>2, InitLog, PTL DEF Spec

(* The state of append_build_log's calls has its types. *)
THEOREM TypeCorrect == Spec => []TypeOK
<1>1. LogInv => TypeOK
  BY DEF LogInv
<1> QED
  BY <1>1, LogInvariant, PTL

(* append_build_log answers success for a call only when a commit of it    *)
(* landed on the branch, whichever of the two ways of verifying said so.   *)
THEOREM SuccessIsCommitted == Spec => []SuccessWasCommitted
<1>1. LogInv => SuccessWasCommitted
  BY DEF LogInv, CommittedInv, Committed, Landed, SuccessWasCommitted
<1> QED
  BY <1>1, LogInvariant, PTL

(* The retries of a call write its entry no more often than it may try.    *)
THEOREM EntriesStayBounded == Spec => []EntriesBounded
<1>1. ASSUME LogInv PROVE EntriesBounded
  <2>1. \A x \in Appenders : Written(x) <= RetryLimit + 1
    BY <1>1, RetryLimitAssumption DEF LogInv, TypeOK, Written
  <2>2. ASSUME NEW x \in Appenders, NEW i \in DOMAIN versions
        PROVE  Count(versions[i], x) <= RetryLimit + 1
    <3>1. Count(versions[i], x) <= Written(x)
      BY <1>1 DEF LogInv, CountInv
    <3>2. Count(versions[i], x) \in Nat /\ Written(x) \in Nat
      BY <1>1, <2>2, CountFinite, CurrentType, WrittenType DEF LogInv
    <3> QED
      BY <2>1, <3>1, <3>2, RetryLimitAssumption
  <2> QED
    BY <2>2 DEF EntriesBounded, Count
<1> QED
  BY <1>1, LogInvariant, PTL

(* However many calls interleave, what append_build_log has put into the    *)
(* file is lost only by a call that did not find it in what it read.       *)
THEOREM EntriesStay == Spec => []LostOnlyUnread
<1>1. LogInv => LostOnlyUnread
  BY DEF LogInv, KeptInv, Committed, LostOnlyUnread
<1> QED
  BY <1>1, LogInvariant, PTL
=============================================================================
