----------------------- MODULE GitHubConnectionProofs -----------------------
(***************************************************************************)
(* Theorems about GitHubConnection, for any connections, callers, codes and*)
(* tokens of the environment.                                              *)
(***************************************************************************)
EXTENDS GitHubConnection, TLAPS

(* What GitHub knows of codes, and which sign-in a connection is of, only  *)
(* ever gets more definite; so these are stated for any cs and op in the   *)
(* place of codes and opened, and a step may compare the two states.       *)
Issued(k, c, cs) == cs[k].conn = c /\ cs[k].state # "unissued"

Granted(token, c, cs, op) ==
  IF token \in Codes THEN cs[token].conn = c /\ cs[token].state = "spent"
                     ELSE op[c] = "env"

RecordOK(r, c, cs, op) ==
  /\ r.code # None => Issued(r.code, c, cs)
  /\ r.status = "ready" => r.code # None
  /\ r.token # None => Granted(r.token, c, cs, op)
  /\ r.status = "exchanged" /\ ~r.oauth => op[c] = "env"

CallerOK(y, cs, op) ==
  /\ y.pc \in InFlight => y.conn \in Connections /\ y.service \in Services
  /\ y.pc \in {"code", "user"} => /\ y.record.code \in Codes
                                  /\ RecordOK(y.record, y.conn, cs, op)
  /\ y.pc = "user" => y.token \in Codes
  /\ y.token # None => /\ y.conn \in Connections
                       /\ Granted(y.token, y.conn, cs, op)

StoresOK ==
  \A s \in Stores, c \in Connections :
    RecordOK(stores[s][c], c, codes, opened)

CallersOK == \A x \in Callers : CallerOK(caller[x], codes, opened)

CodesOK ==
  \A k \in Codes : codes[k].state # "unissued" => codes[k].conn \in Connections

TokenInv == TypeOK /\ CodesOK /\ StoresOK /\ CallersOK

Grows(cs, op, cs2, op2) ==
  /\ \A k \in Codes : cs[k].state # "unissued" =>
       /\ cs2[k].conn = cs[k].conn
       /\ cs2[k].state # "unissued"
       /\ cs[k].state = "spent" => cs2[k].state = "spent"
  /\ \A c \in Connections : op[c] # "unused" => op2[c] = op[c]

CodeTable == [Codes -> [conn : Connections \cup {None},
                        state : {"unissued", "live", "spent", "expired"}]]

CallerRecords == [pc : InFlight \cup Ended \cup {"idle"},
                  conn : Connections \cup {None},
                  service : Services \cup {None},
                  record : Records,
                  token : Tokens \cup {None}]

-----------------------------------------------------------------------------
(* Every step only adds to what is known. *)

LEMMA StepGrows ==
  ASSUME TypeOK, [Next]_vars
  PROVE  Grows(codes, opened, codes', opened')
<1>1. CASE UNCHANGED vars
  BY <1>1 DEF Grows, vars
<1>2. ASSUME NEW c \in Connections,
             CreatePendingConnection(c) \/ UseEnvToken(c) \/ Disconnect(c)
      PROVE  Grows(codes, opened, codes', opened')
  <2>1. codes' = codes
    BY <1>2 DEF CreatePendingConnection, UseEnvToken, Disconnect
  <2>2. \/ opened' = opened
        \/ /\ opened[c] = "unused"
           /\ \E by \in {"oauth", "env"} : opened' = [opened EXCEPT ![c] = by]
    BY <1>2 DEF CreatePendingConnection, UseEnvToken, Disconnect
  <2> QED
    BY <2>1, <2>2 DEF TypeOK, Grows
<1>3. ASSUME NEW c \in Connections, NEW k \in Codes, Approve(c, k)
      PROVE  Grows(codes, opened, codes', opened')
  BY <1>3 DEF TypeOK, Grows, Approve
<1>4. ASSUME NEW c \in Connections, NEW x \in Callers, Launch(x, c)
      PROVE  Grows(codes, opened, codes', opened')
  BY <1>4 DEF Grows, Launch
<1>5. ASSUME NEW k \in Codes, Expire(k) \/ CompleteCallback(k)
      PROVE  Grows(codes, opened, codes', opened')
  <2>1. CASE Expire(k)
    BY <2>1 DEF TypeOK, Grows, Expire
  <2>2. CASE CompleteCallback(k)
    BY <2>2 DEF Grows, CompleteCallback
  <2> QED
    BY <1>5, <2>1, <2>2
<1>6. ASSUME NEW x \in Callers, Exchange(x)
      PROVE  Grows(codes, opened, codes', opened')
  <2>1. CASE ReadConnection(x) \/ FetchUser(x)
    BY <2>1 DEF Grows, ReadConnection, FetchUser
  <2>2. CASE ExchangeCode(x)
    <3> DEFINE k == caller[x].record.code
    <3>1. opened' = opened
      BY <2>2 DEF ExchangeCode
    <3>2. \/ codes' = codes
          \/ /\ codes[k].state = "live"
             /\ codes' = [codes EXCEPT ![k].state = "spent"]
      BY <2>2 DEF ExchangeCode
    <3> QED
      BY <3>1, <3>2 DEF TypeOK, Grows
  <2> QED
    BY <1>6, <2>1, <2>2 DEF Exchange
<1>7. CASE Restart
  BY <1>7 DEF Grows, Restart
<1> QED
  BY <1>1, <1>2, <1>3, <1>4, <1>5, <1>6, <1>7 DEF Next

LEMMA GrantedStays ==
  ASSUME NEW cs, NEW op, NEW cs2, NEW op2, Grows(cs, op, cs2, op2),
         NEW c \in Connections, NEW token, Granted(token, c, cs, op)
  PROVE  Granted(token, c, cs2, op2)
BY DEF Grows, Granted

LEMMA RecordStaysOK ==
  ASSUME NEW cs, NEW op, NEW cs2, NEW op2, Grows(cs, op, cs2, op2),
         NEW c \in Connections, NEW r \in Records, RecordOK(r, c, cs, op)
  PROVE  RecordOK(r, c, cs2, op2)
<1>1. r.code # None => Issued(r.code, c, cs2)
  BY DEF RecordOK, Issued, Grows, Records
<1>2. r.token # None => Granted(r.token, c, cs2, op2)
  BY GrantedStays DEF RecordOK
<1>3. r.status = "exchanged" /\ ~r.oauth => op2[c] = "env"
  BY DEF RecordOK, Grows
<1> QED
  BY <1>1, <1>2, <1>3 DEF RecordOK

LEMMA CallerStaysOK ==
  ASSUME NEW cs, NEW op, NEW cs2, NEW op2, Grows(cs, op, cs2, op2),
         NEW y \in CallerRecords, CallerOK(y, cs, op)
  PROVE  CallerOK(y, cs2, op2)
<1>1. y.pc \in {"code", "user"} => RecordOK(y.record, y.conn, cs2, op2)
  BY RecordStaysOK DEF CallerOK, CallerRecords, InFlight
<1>2. y.token # None => Granted(y.token, y.conn, cs2, op2)
  BY GrantedStays DEF CallerOK
<1> QED
  BY <1>1, <1>2 DEF CallerOK

-----------------------------------------------------------------------------
(* Writing a record, and moving a caller, keep the invariant. *)

StoreTable == [Stores -> [Connections -> Records]]

Invariant ==
  /\ stores \in StoreTable
  /\ caller \in [Callers -> CallerRecords]
  /\ mishaps \subseteq {"crash", "store", "repeat"}
  /\ StoresOK
  /\ CallersOK

Knowledge == Grows(codes, opened, codes', opened')

LEMMA OldRecordsStayOK ==
  ASSUME TokenInv, Knowledge, NEW s \in Stores, NEW c \in Connections
  PROVE  RecordOK(stores[s][c], c, codes', opened')
<1>1. stores[s][c] \in Records /\ RecordOK(stores[s][c], c, codes, opened)
  BY DEF TokenInv, TypeOK, StoresOK
<1> QED
  BY <1>1, RecordStaysOK DEF Knowledge

LEMMA OldCallersStayOK ==
  ASSUME TokenInv, Knowledge, NEW x \in Callers
  PROVE  CallerOK(caller[x], codes', opened')
<1>1. caller[x] \in CallerRecords /\ CallerOK(caller[x], codes, opened)
  BY DEF TokenInv, TypeOK, CallersOK, CallerRecords
<1> QED
  BY <1>1, CallerStaysOK DEF Knowledge

LEMMA KeepOK ==
  ASSUME TokenInv, Knowledge, NEW s \in Stores, NEW c \in Connections,
         NEW r \in Records, RecordOK(r, c, codes', opened'), Keep(s, c, r)
  PROVE  stores' \in StoreTable /\ StoresOK'
<1>1. stores' \in StoreTable
  BY DEF TokenInv, TypeOK, StoreTable, Keep
<1>2. ASSUME NEW s2 \in Stores, NEW c2 \in Connections
      PROVE  RecordOK(stores'[s2][c2], c2, codes', opened')
  <2>1. CASE s2 = s /\ c2 = c
    BY <2>1 DEF TokenInv, TypeOK, Keep
  <2>2. CASE ~(s2 = s /\ c2 = c)
    <3>1. stores'[s2][c2] = stores[s2][c2]
      BY <2>2 DEF TokenInv, TypeOK, Keep
    <3> QED
      BY <3>1, OldRecordsStayOK
  <2> QED
    BY <2>1, <2>2
<1> QED
  BY <1>1, <1>2 DEF StoresOK

LEMMA SameStoresOK ==
  ASSUME TokenInv, Knowledge, UNCHANGED stores
  PROVE  stores' \in StoreTable /\ StoresOK'
BY OldRecordsStayOK DEF TokenInv, TypeOK, StoreTable, StoresOK

LEMMA SameCallersOK ==
  ASSUME TokenInv, Knowledge, UNCHANGED caller
  PROVE  caller' \in [Callers -> CallerRecords] /\ CallersOK'
BY OldCallersStayOK DEF TokenInv, TypeOK, CallersOK, CallerRecords

LEMMA UpdateOK ==
  ASSUME NEW cs, NEW op, NEW s \in Stores, NEW c \in Connections,
         stores[s][c] \in Records, RecordOK(stores[s][c], c, cs, op),
         NEW r \in Records, RecordOK(r, c, cs, op), NEW done \in Update(s, c, r)
  PROVE  /\ done[1] \in Records
         /\ RecordOK(done[1], c, cs, op)
         /\ done[2] \in {"ok", "missing", "error"}
<1>1. /\ done[1] \in {r, stores[s][c]}
      /\ done[2] \in {"ok", "missing", "error"}
  BY DEF Update
<1> QED
  BY <1>1

LEMMA BecomesOK ==
  ASSUME TokenInv, Knowledge, NEW x \in Callers,
         caller[x].pc \in InFlight,
         NEW pc \in InFlight \cup Ended, NEW r \in Records,
         NEW token \in Tokens \cup {None},
         Becomes(x, pc, r, token),
         pc \in {"code", "user"} =>
           /\ r.code \in Codes
           /\ RecordOK(r, caller[x].conn, codes', opened'),
         pc = "user" => token \in Codes,
         token # None => Granted(token, caller[x].conn, codes', opened')
  PROVE  caller' \in [Callers -> CallerRecords] /\ CallersOK'
<1>0. caller \in [Callers -> CallerRecords]
  BY DEF TokenInv, TypeOK, CallerRecords
<1> DEFINE y == [caller[x] EXCEPT !.pc = pc, !.record = r, !.token = token]
<1>1. caller' = [caller EXCEPT ![x] = y]
  BY <1>0 DEF Becomes, CallerRecords
<1>2. y \in CallerRecords
  BY <1>0 DEF CallerRecords
<1>3. /\ y.pc = pc /\ y.record = r /\ y.token = token
      /\ y.conn = caller[x].conn /\ y.service = caller[x].service
  BY <1>0 DEF CallerRecords
<1>4. caller[x].conn \in Connections /\ caller[x].service \in Services
  BY DEF TokenInv, CallersOK, CallerOK
<1>5. CallerOK(y, codes', opened')
  BY <1>3, <1>4 DEF CallerOK
<1> HIDE DEF y
<1>6. ASSUME NEW u \in Callers PROVE CallerOK(caller'[u], codes', opened')
  BY <1>0, <1>1, <1>5, OldCallersStayOK
<1> QED
  BY <1>0, <1>1, <1>2, <1>6 DEF CallersOK

LEMMA EndRefusedOK ==
  ASSUME TokenInv, Knowledge, NEW x \in Callers, caller[x].pc \in InFlight,
         NEW s \in Stores, NEW c \in Connections,
         NEW r \in Records, RecordOK(r, c, codes', opened'),
         EndRefused(x, s, c, r)
  PROVE  Invariant'
<1>1. PICK done \in Update(s, c, r) :
        /\ Keep(s, c, done[1])
        /\ Becomes(x, IF done[2] = "error" THEN "raised" ELSE "refused",
                   Absent, None)
        /\ Mishap(done[2] = "error", "store")
  BY DEF EndRefused
<1>2. done[1] \in Records /\ RecordOK(done[1], c, codes', opened')
  <2>1. stores[s][c] \in Records
    BY DEF TokenInv, TypeOK
  <2> QED
    BY <2>1, OldRecordsStayOK, UpdateOK
<1>3. stores' \in StoreTable /\ StoresOK'
  BY <1>1, <1>2, KeepOK
<1>4. Absent \in Records
  BY DEF Absent, Records
<1>5. caller' \in [Callers -> CallerRecords] /\ CallersOK'
  BY <1>1, <1>4, BecomesOK DEF Ended, InFlight
<1>6. mishaps' \subseteq {"crash", "store", "repeat"}
  BY <1>1 DEF Mishap, TokenInv, TypeOK
<1> QED
  BY <1>3, <1>5, <1>6 DEF Invariant

LEMMA EndAuthorizedOK ==
  ASSUME TokenInv, Knowledge, NEW x \in Callers, caller[x].pc \in InFlight,
         NEW s \in Stores, NEW c \in Connections, c = caller[x].conn,
         NEW r \in Records, RecordOK(r, c, codes', opened'), r.token # None,
         EndAuthorized(x, s, c, r)
  PROVE  Invariant'
<1>1. PICK done \in Update(s, c, r) :
        /\ Keep(s, c, done[1])
        /\ CASE done[2] = "ok"      -> Becomes(x, "authorized", Absent, r.token)
             [] done[2] = "missing" -> Becomes(x, "refused", Absent, None)
             [] done[2] = "error"   -> Becomes(x, "raised", Absent, None)
        /\ Mishap(done[2] = "error", "store")
  BY DEF EndAuthorized
<1>2. /\ done[1] \in Records /\ RecordOK(done[1], c, codes', opened')
      /\ done[2] \in {"ok", "missing", "error"}
  <2>1. stores[s][c] \in Records
    BY DEF TokenInv, TypeOK
  <2> QED
    BY <2>1, OldRecordsStayOK, UpdateOK
<1>3. stores' \in StoreTable /\ StoresOK'
  BY <1>1, <1>2, KeepOK
<1>4. PICK pc \in {"authorized", "refused", "raised"},
           token \in {r.token, None} : Becomes(x, pc, Absent, token)
  BY <1>1, <1>2
<1>5. /\ Absent \in Records
      /\ token \in Tokens \cup {None}
      /\ token # None => Granted(token, c, codes', opened')
  BY <1>4 DEF Absent, Records, RecordOK
<1>6. caller' \in [Callers -> CallerRecords] /\ CallersOK'
  BY <1>4, <1>5, BecomesOK DEF Ended, InFlight
<1>7. mishaps' \subseteq {"crash", "store", "repeat"}
  BY <1>1 DEF Mishap, TokenInv, TypeOK
<1> QED
  BY <1>3, <1>6, <1>7 DEF Invariant

-----------------------------------------------------------------------------
(* The actions *)

LEMMA InitOK == Init => TokenInv
<1> SUFFICES ASSUME Init PROVE TokenInv
  OBVIOUS
<1>1. BuiltStores(0) \subseteq Stores
  BY MaxMemoryAssumption DEF BuiltStores, Stores, Database
<1>2. TypeOK
  BY <1>1 DEF Init, TypeOK, Services, Records, Absent, Idle, InFlight, Ended
<1>3. StoresOK
  BY DEF Init, StoresOK, RecordOK, Absent
<1>4. CallersOK
  BY DEF Init, CallersOK, CallerOK, Idle, InFlight
<1>5. CodesOK
  BY DEF Init, CodesOK
<1> QED
  BY <1>2, <1>3, <1>4, <1>5 DEF TokenInv

LEMMA BuiltStoresType ==
  ASSUME built \in Stores, NEW s \in BuiltStores(built)
  PROVE  s \in Stores
BY MaxMemoryAssumption DEF BuiltStores, Stores, Database

(* Records that the sign-in and the disconnect write *)

LEMMA SignInOK ==
  ASSUME TokenInv, Knowledge, NEW c \in Connections,
         CreatePendingConnection(c) \/ UseEnvToken(c) \/ Disconnect(c)
  PROVE  Invariant'
<1>1. caller' = caller /\ mishaps' = mishaps
  BY DEF CreatePendingConnection, UseEnvToken, Disconnect
<1>2. service.store \in Stores
  BY DEF TokenInv, TypeOK, Services
<1>3. stores' \in StoreTable /\ StoresOK'
  <2>1. CASE CreatePendingConnection(c)
    <3>1. Pending \in Records /\ RecordOK(Pending, c, codes', opened')
      BY DEF Pending, Absent, Records, RecordOK
    <3> QED
      BY <1>2, <2>1, <3>1, KeepOK DEF CreatePendingConnection
  <2>2. CASE Disconnect(c)
    <3>1. Absent \in Records /\ RecordOK(Absent, c, codes', opened')
      BY DEF Absent, Records, RecordOK
    <3> QED
      BY <1>2, <2>2, <3>1, KeepOK DEF Disconnect
  <2>3. CASE UseEnvToken(c)
    <3>1. PICK s \in BuiltStores(built), e \in EnvTokens :
            \/ opened' = [opened EXCEPT ![c] = "env"] /\ Keep(s, c, EnvRecord(e))
            \/ UNCHANGED stores
      BY <2>3 DEF UseEnvToken
    <3>2. CASE UNCHANGED stores
      BY <3>2, SameStoresOK
    <3>3. CASE opened' = [opened EXCEPT ![c] = "env"] /\ Keep(s, c, EnvRecord(e))
      <4>1. opened'[c] = "env"
        BY <3>3 DEF TokenInv, TypeOK
      <4>2. e \notin Codes
        BY CodesAssumption
      <4>3. EnvRecord(e) \in Records /\ RecordOK(EnvRecord(e), c, codes', opened')
        BY <4>1, <4>2 DEF EnvRecord, Records, Tokens, RecordOK, Granted
      <4>4. s \in Stores
        BY BuiltStoresType DEF TokenInv, TypeOK
      <4> QED
        BY <3>3, <4>3, <4>4, KeepOK
    <3> QED
      BY <3>1, <3>2, <3>3
  <2> QED
    BY <2>1, <2>2, <2>3
<1> QED
  BY <1>1, <1>3, SameCallersOK DEF Invariant, TokenInv, TypeOK

LEMMA CallbackOK ==
  ASSUME TokenInv, Knowledge, NEW k \in Codes, CompleteCallback(k)
  PROVE  Invariant'
<1> DEFINE s == service.store
           c == codes[k].conn
           new == Callback(stores[s][c], k)
<1>1. /\ s \in Stores /\ c \in Connections
      /\ codes[k].state # "unissued"
      /\ caller' = caller /\ codes' = codes
  BY DEF CompleteCallback, TokenInv, TypeOK, CodesOK, Services
<1>2. PICK done \in Update(s, c, new) :
        Keep(s, c, done[1]) /\ Mishap(codes[k].state = "spent", "repeat")
  BY DEF CompleteCallback
<1> HIDE DEF s, c
<1>3. stores[s][c] \in Records /\ RecordOK(stores[s][c], c, codes', opened')
  BY <1>1, OldRecordsStayOK DEF TokenInv, TypeOK
<1>4. new \in Records /\ RecordOK(new, c, codes', opened')
  <2>1. /\ new.code = k /\ new.status = "ready" /\ new \in Records
        /\ new.token = stores[s][c].token
    BY <1>3 DEF Callback, Records
  <2>2. k # None
    BY NoneAssumption
  <2>3. Issued(k, c, codes')
    BY <1>1 DEF Issued, c
  <2> QED
    BY <1>3, <2>1, <2>2, <2>3 DEF RecordOK
<1>5. done[1] \in Records /\ RecordOK(done[1], c, codes', opened')
  BY <1>1, <1>3, <1>4, UpdateOK
<1>6. stores' \in StoreTable /\ StoresOK'
  BY <1>1, <1>2, <1>5, KeepOK
<1> QED
  BY <1>1, <1>2, <1>6, SameCallersOK DEF Invariant, Mishap, TokenInv, TypeOK

(* The exchange *)

LEMMA InFlightOK ==
  ASSUME TokenInv, NEW x \in Callers, caller[x].pc \in InFlight
  PROVE  caller[x].conn \in Connections /\ caller[x].service \in Services
BY DEF TokenInv, CallersOK, CallerOK

LEMMA FailOK ==
  ASSUME TokenInv, Knowledge, NEW x \in Callers,
         caller[x].pc \in {"code", "user"}, Fail(x)
  PROVE  Invariant'
<1> DEFINE r == caller[x].record
           c == caller[x].conn
           s == caller[x].service.store
<1>1. caller[x].pc \in InFlight
  BY DEF InFlight
<1>2. c \in Connections /\ s \in Stores
  BY <1>1, InFlightOK DEF Services
<1>3. r \in Records /\ RecordOK(r, c, codes', opened')
  BY OldCallersStayOK DEF CallerOK, TokenInv, TypeOK
<1>4. EndRefused(x, s, c, MarkedFailed(r))
  BY DEF Fail
<1> HIDE DEF r, c, s
<1>5. MarkedFailed(r) \in Records /\ RecordOK(MarkedFailed(r), c, codes', opened')
  BY <1>3 DEF MarkedFailed, Records, RecordOK
<1> QED
  BY <1>1, <1>2, <1>4, <1>5, EndRefusedOK

LEMMA ReadConnectionOK ==
  ASSUME TokenInv, Knowledge, NEW x \in Callers, ReadConnection(x)
  PROVE  Invariant'
<1> DEFINE c == caller[x].conn
           s == caller[x].service.store
           e == caller[x].service.env
           r == stores[s][c]
<1>1. caller[x].pc \in InFlight
  BY DEF ReadConnection, InFlight
<1>2. c \in Connections /\ s \in Stores /\ e \in EnvTokens
  BY <1>1, InFlightOK DEF Services
<1>3. r \in Records /\ RecordOK(r, c, codes', opened')
  BY <1>2, OldRecordsStayOK DEF TokenInv, TypeOK
<1>4. Absent \in Records /\ None \in Tokens \cup {None}
  BY DEF Absent, Records
<1>5. \/ /\ \E pc \in {"raised", "refused"} : Becomes(x, pc, Absent, None)
         /\ stores' = stores
         /\ mishaps' = mishaps \/ Mishap(TRUE, "store")
      \/ r.status = "exchanged" /\ r.token # None
         /\ EndAuthorized(x, s, c, Refreshed(r, e))
      \/ /\ r.status = "ready" /\ r.code # None
         /\ Becomes(x, "code", r, None)
         /\ stores' = stores /\ mishaps' = mishaps
      \/ EndRefused(x, s, c, MarkedFailed(r))
  BY DEF ReadConnection
<1> HIDE DEF c, s, e, r
<1>6. CASE /\ \E pc \in {"raised", "refused"} : Becomes(x, pc, Absent, None)
           /\ stores' = stores
           /\ mishaps' = mishaps \/ Mishap(TRUE, "store")
  <2>1. caller' \in [Callers -> CallerRecords] /\ CallersOK'
    BY <1>1, <1>4, <1>6, BecomesOK DEF Ended, InFlight
  <2> QED
    BY <1>6, <2>1, SameStoresOK DEF Invariant, Mishap, TokenInv, TypeOK
<1>7. CASE /\ r.status = "exchanged" /\ r.token # None
           /\ EndAuthorized(x, s, c, Refreshed(r, e))
  <2> DEFINE new == Refreshed(r, e)
  <2>1. e \notin Codes /\ e # None
    BY <1>2, CodesAssumption, NoneAssumption
  <2>2. new \in Records /\ new.token # None
    BY <1>2, <1>3, <1>7, <2>1 DEF Refreshed, Records, Tokens
  <2>3. RecordOK(new, c, codes', opened')
    <3>1. CASE ~r.oauth /\ r.code = None
      <4>1. opened'[c] = "env"
        BY <1>3, <1>7, <3>1 DEF RecordOK
      <4>2. /\ new.token = e /\ new.code = None
            /\ new.status = "exchanged"
        BY <1>3, <1>7, <3>1 DEF Refreshed, Records
      <4> QED
        BY <2>1, <4>1, <4>2 DEF RecordOK, Granted
    <3>2. CASE ~(~r.oauth /\ r.code = None)
      BY <1>3, <3>2 DEF Refreshed
    <3> QED
      BY <3>1, <3>2
  <2> HIDE DEF new
  <2>4. EndAuthorized(x, s, c, new) /\ c = caller[x].conn
    BY <1>7 DEF new, c
  <2> QED
    BY <1>1, <1>2, <2>2, <2>3, <2>4, EndAuthorizedOK
<1>8. CASE /\ r.status = "ready" /\ r.code # None
           /\ Becomes(x, "code", r, None)
           /\ stores' = stores /\ mishaps' = mishaps
  <2>1. r.code \in Codes /\ RecordOK(r, caller[x].conn, codes', opened')
    BY <1>3, <1>8 DEF Records, c
  <2>2. caller' \in [Callers -> CallerRecords] /\ CallersOK'
    BY <1>1, <1>3, <1>4, <1>8, <2>1, BecomesOK DEF Ended, InFlight
  <2> QED
    BY <1>8, <2>2, SameStoresOK DEF Invariant, TokenInv, TypeOK
<1>9. CASE EndRefused(x, s, c, MarkedFailed(r))
  <2>1. MarkedFailed(r) \in Records /\ RecordOK(MarkedFailed(r), c, codes', opened')
    BY <1>3 DEF MarkedFailed, Records, RecordOK
  <2> QED
    BY <1>1, <1>2, <1>9, <2>1, EndRefusedOK
<1> QED
  BY <1>5, <1>6, <1>7, <1>8, <1>9

LEMMA ExchangeCodeOK ==
  ASSUME TokenInv, Knowledge, NEW x \in Callers, ExchangeCode(x)
  PROVE  Invariant'
<1> DEFINE r == caller[x].record
           k == r.code
<1>1. caller[x].pc = "code" /\ caller[x].pc \in InFlight
  BY DEF ExchangeCode, InFlight
<1>2. /\ r \in Records /\ k \in Codes
      /\ RecordOK(r, caller[x].conn, codes', opened')
  BY <1>1, OldCallersStayOK DEF CallerOK, TokenInv, TypeOK
<1>3. CASE Fail(x)
  BY <1>1, <1>3, FailOK
<1>4. CASE /\ codes' = [codes EXCEPT ![k].state = "spent"]
           /\ Becomes(x, "user", r, k)
           /\ UNCHANGED <<stores, mishaps>>
  <2>1. codes'[k].state = "spent" /\ codes'[k].conn = caller[x].conn
    <3>1. codes'[k].state = "spent" /\ codes'[k].conn = codes[k].conn
      BY <1>2, <1>4 DEF TokenInv, TypeOK
    <3>2. RecordOK(r, caller[x].conn, codes, opened)
      BY <1>1 DEF TokenInv, CallersOK, CallerOK
    <3> QED
      BY <1>2, <3>1, <3>2, NoneAssumption DEF RecordOK, Issued
  <2>2. Granted(k, caller[x].conn, codes', opened') /\ k \in Tokens \cup {None}
    BY <1>2, <2>1 DEF Granted, Tokens
  <2>3. caller' \in [Callers -> CallerRecords] /\ CallersOK'
    BY <1>1, <1>2, <1>4, <2>2, BecomesOK DEF InFlight
  <2> QED
    BY <1>4, <2>3, SameStoresOK DEF Invariant, TokenInv, TypeOK
<1> QED
  BY <1>3, <1>4 DEF ExchangeCode

LEMMA FetchUserOK ==
  ASSUME TokenInv, Knowledge, NEW x \in Callers, FetchUser(x)
  PROVE  Invariant'
<1> DEFINE r == caller[x].record
           c == caller[x].conn
           s == caller[x].service.store
           new == Exchanged(r, caller[x].token)
<1>1. caller[x].pc = "user" /\ caller[x].pc \in InFlight
  BY DEF FetchUser, InFlight
<1>2. c \in Connections /\ s \in Stores
  BY <1>1, InFlightOK DEF Services
<1>3. CASE Fail(x)
  BY <1>1, <1>3, FailOK
<1>4. CASE EndAuthorized(x, s, c, new)
  <2>1. /\ caller[x].token \in Codes /\ caller[x].token # None
        /\ Granted(caller[x].token, c, codes', opened')
    BY <1>1, OldCallersStayOK, NoneAssumption DEF CallerOK
  <2>2. new \in Records /\ new.token # None
    BY <2>1 DEF Exchanged, Records, Tokens
  <2>3. RecordOK(new, c, codes', opened')
    BY <2>1 DEF Exchanged, RecordOK
  <2> QED
    BY <1>1, <1>2, <1>4, <2>2, <2>3, EndAuthorizedOK
<1> QED
  BY <1>3, <1>4 DEF FetchUser

LEMMA LaunchOK ==
  ASSUME TokenInv, Knowledge, NEW x \in Callers, NEW c \in Connections,
         Launch(x, c)
  PROVE  Invariant'
<1> DEFINE y == [Idle EXCEPT !.pc = "launched", !.conn = c, !.service = service]
<1>1. caller' = [caller EXCEPT ![x] = y] /\ mishaps' = mishaps /\ stores' = stores
  BY DEF Launch
<1>2. y \in CallerRecords
  BY DEF TokenInv, TypeOK, CallerRecords, Idle, Absent, Records, InFlight
<1>3. CallerOK(y, codes', opened')
  BY DEF TokenInv, TypeOK, CallerOK, Idle
<1> HIDE DEF y
<1>4. caller \in [Callers -> CallerRecords]
  BY DEF TokenInv, TypeOK, CallerRecords
<1>5. caller' \in [Callers -> CallerRecords] /\ CallersOK'
  BY <1>1, <1>2, <1>3, <1>4, OldCallersStayOK DEF CallersOK
<1> QED
  BY <1>1, <1>5, SameStoresOK DEF Invariant, TokenInv, TypeOK

LEMMA RestartOK ==
  ASSUME TokenInv, Knowledge, Restart
  PROVE  Invariant'
<1>1. Absent \in Records
  BY DEF Absent, Records
<1>2. /\ stores' \in StoreTable
      /\ \A s \in Stores, c \in Connections :
           stores'[s][c] \in {stores[s][c], Absent}
  BY <1>1 DEF Restart, TokenInv, TypeOK, StoreTable
<1>3. \A c \in Connections : RecordOK(Absent, c, codes', opened')
  BY DEF RecordOK, Absent
<1>4. StoresOK'
  BY <1>2, <1>3, OldRecordsStayOK DEF StoresOK
<1> DEFINE y == [Idle EXCEPT !.pc = "lost"]
<1>5. y \in CallerRecords /\ CallerOK(y, codes', opened')
  BY <1>1 DEF CallerRecords, CallerOK, Idle, InFlight, Ended
<1>6. caller \in [Callers -> CallerRecords]
  BY DEF TokenInv, TypeOK, CallerRecords
<1>7. caller' = [x \in Callers |-> IF caller[x].pc \in InFlight THEN y
                                                            ELSE caller[x]]
  BY DEF Restart
<1> HIDE DEF y
<1>8. caller' \in [Callers -> CallerRecords] /\ CallersOK'
  BY <1>5, <1>6, <1>7, OldCallersStayOK DEF CallersOK
<1>9. mishaps' \subseteq {"crash", "store", "repeat"}
  BY DEF Restart, Mishap, TokenInv, TypeOK
<1> QED
  BY <1>2, <1>4, <1>8, <1>9 DEF Invariant

LEMMA NextOK ==
  ASSUME TokenInv, [Next]_vars
  PROVE  Invariant'
<1>0. Knowledge
  BY StepGrows DEF TokenInv, Knowledge
<1>1. CASE stores' = stores /\ caller' = caller /\ mishaps' = mishaps
  BY <1>0, <1>1, SameStoresOK, SameCallersOK DEF Invariant, TokenInv, TypeOK
<1>2. ASSUME NEW c \in Connections,
             CreatePendingConnection(c) \/ UseEnvToken(c) \/ Disconnect(c)
      PROVE  Invariant'
  BY <1>0, <1>2, SignInOK
<1>3. ASSUME NEW c \in Connections, NEW x \in Callers, Launch(x, c)
      PROVE  Invariant'
  BY <1>0, <1>3, LaunchOK
<1>4. ASSUME NEW k \in Codes, CompleteCallback(k) PROVE Invariant'
  BY <1>0, <1>4, CallbackOK
<1>5. ASSUME NEW x \in Callers, Exchange(x) PROVE Invariant'
  BY <1>0, <1>5, ReadConnectionOK, ExchangeCodeOK, FetchUserOK DEF Exchange
<1>6. CASE Restart
  BY <1>0, <1>6, RestartOK
<1>7. ASSUME NEW c \in Connections, NEW k \in Codes, Approve(c, k) \/ Expire(k)
      PROVE  Invariant'
  BY <1>1, <1>7 DEF Approve, Expire
<1>8. ASSUME NEW k \in Codes, Expire(k) PROVE Invariant'
  BY <1>1, <1>8 DEF Expire
<1>9. CASE UNCHANGED vars
  BY <1>1, <1>9 DEF vars
<1> QED
  BY <1>2, <1>3, <1>4, <1>5, <1>6, <1>7, <1>8, <1>9 DEF Next

(* The variables that are not written with a record *)
Surroundings ==
  /\ configured \in BOOLEAN
  /\ service \in Services
  /\ built \in Stores
  /\ opened \in [Connections -> {"unused", "oauth", "env"}]
  /\ codes \in CodeTable
  /\ CodesOK

LEMMA CodeChangeOK ==
  ASSUME Surroundings, NEW k \in Codes,
         NEW state \in {"live", "spent", "expired"},
         codes[k].state # "unissued",
         codes' = [codes EXCEPT ![k].state = state]
  PROVE  codes' \in CodeTable /\ CodesOK'
BY DEF Surroundings, CodeTable, CodesOK

LEMMA SurroundingsOK ==
  ASSUME TokenInv, [Next]_vars
  PROVE  Surroundings'
<1>0. Surroundings
  BY DEF TokenInv, TypeOK, Surroundings, CodeTable
<1>1. CASE UNCHANGED <<configured, service, built, opened, codes>>
  BY <1>0, <1>1 DEF Surroundings, CodesOK
<1>2. ASSUME NEW c \in Connections, UseEnvToken(c) PROVE Surroundings'
  <2>1. /\ configured' = configured /\ codes' = codes
        /\ opened' = opened \/ opened' = [opened EXCEPT ![c] = "env"]
    BY <1>2 DEF UseEnvToken
  <2>2. service' \in Services /\ built' \in Stores
    BY <1>0, <1>2, BuiltStoresType DEF UseEnvToken, Services, Surroundings
  <2> QED
    BY <1>0, <2>1, <2>2 DEF Surroundings, CodesOK
<1>3. CASE Restart
  <2>1. service' \in Services /\ built' \in Stores
    BY <1>0, <1>3, BuiltStoresType DEF Restart, Services, Surroundings
  <2> QED
    BY <1>0, <1>3, <2>1 DEF Restart, Surroundings, CodesOK
<1>4. ASSUME NEW c \in Connections, CreatePendingConnection(c)
      PROVE  Surroundings'
  BY <1>0, <1>4 DEF CreatePendingConnection, Surroundings, CodesOK
<1>5. ASSUME NEW c \in Connections, NEW k \in Codes, Approve(c, k)
      PROVE  Surroundings'
  BY <1>0, <1>5 DEF Approve, Surroundings, CodeTable, CodesOK
<1>6. ASSUME NEW k \in Codes, Expire(k) PROVE Surroundings'
  <2>1. codes' \in CodeTable /\ CodesOK'
    BY <1>0, <1>6, CodeChangeOK DEF Expire
  <2> QED
    BY <1>0, <1>6, <2>1 DEF Expire, Surroundings
<1>7. ASSUME NEW x \in Callers, Exchange(x) PROVE Surroundings'
  <2>1. CASE ReadConnection(x) \/ FetchUser(x)
    BY <1>1, <2>1 DEF ReadConnection, FetchUser
  <2>2. CASE ExchangeCode(x)
    <3> DEFINE k == caller[x].record.code
    <3>1. k \in Codes
      BY <2>2 DEF ExchangeCode, TokenInv, CallersOK, CallerOK
    <3>2. UNCHANGED <<configured, service, built, opened>>
      BY <2>2 DEF ExchangeCode
    <3>3. \/ codes' = codes
          \/ /\ codes[k].state = "live"
             /\ codes' = [codes EXCEPT ![k].state = "spent"]
      BY <2>2 DEF ExchangeCode
    <3> HIDE DEF k
    <3>4. codes' \in CodeTable /\ CodesOK'
      BY <1>0, <3>1, <3>3, CodeChangeOK DEF Surroundings, CodesOK
    <3> QED
      BY <1>0, <3>2, <3>4 DEF Surroundings
  <2> QED
    BY <1>7, <2>1, <2>2 DEF Exchange
<1>8. ASSUME NEW c \in Connections, Disconnect(c) PROVE Surroundings'
  BY <1>1, <1>8 DEF Disconnect
<1>9. ASSUME NEW c \in Connections, NEW x \in Callers, Launch(x, c)
      PROVE  Surroundings'
  BY <1>1, <1>9 DEF Launch
<1>10. ASSUME NEW k \in Codes, CompleteCallback(k) PROVE Surroundings'
  BY <1>1, <1>10 DEF CompleteCallback
<1>11. CASE UNCHANGED vars
  BY <1>1, <1>11 DEF vars
<1> QED
  BY <1>2, <1>3, <1>4, <1>5, <1>6, <1>7, <1>8, <1>9, <1>10, <1>11 DEF Next

-----------------------------------------------------------------------------
LEMMA TokenStep == TokenInv /\ [Next]_vars => TokenInv'
<1> SUFFICES ASSUME TokenInv, [Next]_vars PROVE TokenInv'
  OBVIOUS
<1>1. Invariant' /\ Surroundings'
  BY NextOK, SurroundingsOK
<1> QED
  BY <1>1 DEF Invariant, Surroundings, StoreTable, CallerRecords, CodeTable,
              TokenInv, TypeOK

(* Whatever is in flight, every record and every caller holds codes and    *)
(* tokens of its own connection only.  The invariant has to say so of the  *)
(* record a caller read before its awaits, which it writes back after.     *)
THEOREM TokenInvariant == Spec => []TokenInv
<1>1. Init => TokenInv
  BY InitOK
<1>2. TokenInv /\ [Next]_vars => TokenInv'
  BY TokenStep
<1> QED
  BY <1>1, <1>2, PTL DEF Spec

(* Every variable keeps its type; a record never gets a status its schema  *)
(* does not know.                                                          *)
THEOREM ConnectionTypes == Spec => []TypeOK
<1>1. TokenInv => TypeOK
  BY DEF TokenInv
<1> QED
  BY <1>1, TokenInvariant, PTL

(* A token is only ever found at the connection it was granted for, in any *)
(* store and in the hands of any task or upload.                           *)
THEOREM TokensStay == Spec => []TokensStayWithTheirConnection
<1>1. TokenInv => TokensStayWithTheirConnection
  BY DEF TokenInv, StoresOK, CallersOK, RecordOK, CallerOK, Granted,
         TokensStayWithTheirConnection, GrantedFor
<1> QED
  BY <1>1, TokenInvariant, PTL

-----------------------------------------------------------------------------
(* Deleted connections *)

LEMMA UpdateOfDeleted ==
  ASSUME TypeOK, NEW s \in Stores, NEW c \in Connections, NEW r,
         NEW done \in Update(s, c, r), Keep(s, c, done[1]),
         NEW s2 \in Stores, NEW c2 \in Connections, ~Holds(s2, c2)
  PROVE  ~Holds(s2, c2)'
<1>1. CASE s2 = s /\ c2 = c
  <2>1. done[1] = stores[s][c]
    BY <1>1 DEF Update
  <2> QED
    BY <1>1, <2>1 DEF TypeOK, Keep, Holds
<1>2. CASE ~(s2 = s /\ c2 = c)
  BY <1>2 DEF TypeOK, Keep, Holds
<1> QED
  BY <1>1, <1>2

LEMMA EndOfDeleted ==
  ASSUME TypeOK, NEW x \in Callers, NEW s \in Stores, NEW c \in Connections,
         NEW r, EndRefused(x, s, c, r) \/ EndAuthorized(x, s, c, r),
         NEW s2 \in Stores, NEW c2 \in Connections, ~Holds(s2, c2)
  PROVE  ~Holds(s2, c2)'
<1>1. PICK done \in Update(s, c, r) : Keep(s, c, done[1])
  BY DEF EndRefused, EndAuthorized
<1> QED
  BY <1>1, UpdateOfDeleted

LEMMA ExchangeOfDeleted ==
  ASSUME TokenInv, NEW x \in Callers, Exchange(x),
         NEW s2 \in Stores, NEW c2 \in Connections, ~Holds(s2, c2)
  PROVE  ~Holds(s2, c2)'
<1> DEFINE c == caller[x].conn
           s == caller[x].service.store
<1>1. c \in Connections /\ s \in Stores /\ TypeOK
  <2>1. caller[x].pc \in InFlight
    BY DEF Exchange, ReadConnection, ExchangeCode, FetchUser, InFlight
  <2> QED
    BY <2>1, InFlightOK DEF Services, TokenInv
<1>2. \/ stores' = stores
      \/ \E r : EndRefused(x, s, c, r) \/ EndAuthorized(x, s, c, r)
  <2>1. CASE ReadConnection(x)
    BY <2>1 DEF ReadConnection
  <2>2. CASE ExchangeCode(x)
    BY <2>2 DEF ExchangeCode, Fail
  <2>3. CASE FetchUser(x)
    BY <2>3 DEF FetchUser, Fail
  <2> QED
    BY <2>1, <2>2, <2>3 DEF Exchange
<1> HIDE DEF c, s
<1>3. CASE stores' = stores
  BY <1>3 DEF Holds
<1>4. ASSUME NEW r, EndRefused(x, s, c, r) \/ EndAuthorized(x, s, c, r)
      PROVE  ~Holds(s2, c2)'
  BY <1>1, <1>4, EndOfDeleted
<1> QED
  BY <1>2, <1>3, <1>4

(* Only a sign-in, under an id of its own, puts a connection where none is,*)
(* however stale the record is that an exchange writes.                    *)
LEMMA StaysDeleted ==
  ASSUME TokenInv, [Next]_vars, NEW s2 \in Stores, NEW c2 \in Connections,
         ~Holds(s2, c2), ~CreatePendingConnection(c2), ~UseEnvToken(c2)
  PROVE  ~Holds(s2, c2)'
<1>0. TypeOK
  BY DEF TokenInv
<1>1. CASE stores' = stores
  BY <1>1 DEF Holds
<1>2. ASSUME NEW c \in Connections,
             CreatePendingConnection(c) \/ UseEnvToken(c)
      PROVE  ~Holds(s2, c2)'
  <2>1. c # c2
    BY <1>2
  <2>2. stores' = stores \/ \E s, r : Keep(s, c, r)
    BY <1>2 DEF CreatePendingConnection, UseEnvToken
  <2> QED
    BY <1>0, <1>1, <2>1, <2>2 DEF TypeOK, Keep, Holds
<1>3. ASSUME NEW c \in Connections, Disconnect(c) PROVE ~Holds(s2, c2)'
  BY <1>0, <1>3 DEF Disconnect, TypeOK, Keep, Holds, Absent
<1>4. ASSUME NEW k \in Codes, CompleteCallback(k) PROVE ~Holds(s2, c2)'
  <2> DEFINE s == service.store
             c == codes[k].conn
  <2>1. s \in Stores /\ c \in Connections
    BY <1>4 DEF CompleteCallback, TokenInv, TypeOK, CodesOK, Services
  <2>2. PICK done \in Update(s, c, Callback(stores[s][c], k)) :
          Keep(s, c, done[1])
    BY <1>4 DEF CompleteCallback
  <2> HIDE DEF s, c
  <2> QED
    BY <1>0, <2>1, <2>2, UpdateOfDeleted
<1>5. ASSUME NEW x \in Callers, Exchange(x) PROVE ~Holds(s2, c2)'
  BY <1>5, ExchangeOfDeleted
<1>6. CASE Restart
  BY <1>0, <1>6 DEF Restart, TypeOK, Holds, Absent
<1>7. ASSUME NEW c \in Connections, NEW k \in Codes, Approve(c, k)
      PROVE  ~Holds(s2, c2)'
  BY <1>1, <1>7 DEF Approve
<1>8. ASSUME NEW k \in Codes, Expire(k) PROVE ~Holds(s2, c2)'
  BY <1>1, <1>8 DEF Expire
<1>9. ASSUME NEW c \in Connections, NEW x \in Callers, Launch(x, c)
      PROVE  ~Holds(s2, c2)'
  BY <1>1, <1>9 DEF Launch
<1>10. CASE UNCHANGED vars
  BY <1>1, <1>10 DEF vars
<1> QED
  BY <1>2, <1>3, <1>4, <1>5, <1>6, <1>7, <1>8, <1>9, <1>10 DEF Next

(* No step brings a deleted connection back, however stale the record is   *)
(* that an exchange writes.                                                *)
THEOREM DeletedForGood == Spec => DeletedStaysDeleted
<1>1. ASSUME TokenInv, [Next]_vars, NEW s2 \in Stores, NEW c2 \in Connections,
             opened[c2] # "unused", ~Holds(s2, c2)
      PROVE  ~Holds(s2, c2)'
  <2>1. ~CreatePendingConnection(c2) /\ ~UseEnvToken(c2)
    BY <1>1 DEF CreatePendingConnection, UseEnvToken
  <2> QED
    BY <1>1, <2>1, StaysDeleted
<1>2. TokenInv /\ [Next]_vars =>
        [\A s \in Stores, c \in Connections :
           opened[c] # "unused" /\ ~Holds(s, c) => ~Holds(s, c)']_vars
  BY <1>1
<1> QED
  BY <1>2, TokenInvariant, PTL DEF Spec, DeletedStaysDeleted

-----------------------------------------------------------------------------
(* Authorized callers *)

Connected(x) ==
  LET r == stores'[caller[x].service.store][caller[x].conn]
  IN  r.status = "exchanged" /\ r.token = caller'[x].token

LEMMA EndAuthorizedConnected ==
  ASSUME TypeOK, NEW x \in Callers, NEW s \in Stores, NEW c \in Connections,
         s = caller[x].service.store, c = caller[x].conn, s # Database,
         NEW r \in Records, r.status = "exchanged",
         EndAuthorized(x, s, c, r), caller'[x].pc = "authorized"
  PROVE  Connected(x)
<1>0. caller \in [Callers -> CallerRecords]
  BY DEF TypeOK, CallerRecords
<1>1. PICK done \in Update(s, c, r) :
        /\ Keep(s, c, done[1])
        /\ CASE done[2] = "ok"      -> Becomes(x, "authorized", Absent, r.token)
             [] done[2] = "missing" -> Becomes(x, "refused", Absent, None)
             [] done[2] = "error"   -> Becomes(x, "raised", Absent, None)
  BY DEF EndAuthorized
<1>2. \/ Holds(s, c) /\ done[1] = r /\ done[2] = "ok"
      \/ done[2] = "missing"
  BY DEF Update
<1>3. done[2] # "missing"
  <2>1. SUFFICES ASSUME done[2] = "missing" PROVE FALSE
    OBVIOUS
  <2>2. Becomes(x, "refused", Absent, None)
    BY <1>1, <2>1
  <2>3. caller'[x].pc = "refused"
    BY <1>0, <2>2 DEF Becomes, CallerRecords
  <2> QED
    BY <2>3
<1>4. Keep(s, c, r) /\ Becomes(x, "authorized", Absent, r.token)
  BY <1>1, <1>2, <1>3
<1>5. stores'[s][c] = r
  BY <1>4 DEF Keep, TypeOK
<1>6. caller'[x].token = r.token
  BY <1>0, <1>4 DEF Becomes, CallerRecords
<1> QED
  BY <1>5, <1>6 DEF Connected

LEMMA ExchangeConnected ==
  ASSUME TokenInv, NEW x \in Callers, Exchange(x),
         caller[x].service.store # Database, caller'[x].pc = "authorized"
  PROVE  Connected(x)
<1> DEFINE c == caller[x].conn
           s == caller[x].service.store
           e == caller[x].service.env
<1>1. c \in Connections /\ s \in Stores /\ e \in EnvTokens /\ TypeOK
  <2>1. caller[x].pc \in InFlight
    BY DEF Exchange, ReadConnection, ExchangeCode, FetchUser, InFlight
  <2> QED
    BY <2>1, InFlightOK DEF Services, TokenInv
<1>2. ASSUME NEW pc, NEW r, NEW token, Becomes(x, pc, r, token)
      PROVE  pc = "authorized"
  BY <1>1, <1>2 DEF TypeOK, Becomes
<1>3. ASSUME NEW r, EndRefused(x, s, c, r) PROVE FALSE
  <2>1. PICK pc \in {"raised", "refused"} : Becomes(x, pc, Absent, None)
    BY <1>3 DEF EndRefused
  <2> QED
    BY <1>2, <2>1
<1>4. ~Fail(x)
  BY <1>3 DEF Fail
<1>5. ASSUME NEW r \in Records, r.status = "exchanged", EndAuthorized(x, s, c, r)
      PROVE  Connected(x)
  BY <1>1, <1>5, EndAuthorizedConnected
<1>6. CASE ReadConnection(x)
  <2> DEFINE r == stores[s][c]
  <2>1. r \in Records
    BY <1>1 DEF TypeOK
  <2>2. r.status = "exchanged" /\ EndAuthorized(x, s, c, Refreshed(r, e))
    BY <1>2, <1>3, <1>6 DEF ReadConnection
  <2>3. Refreshed(r, e) \in Records /\ Refreshed(r, e).status = "exchanged"
    BY <1>1, <2>1, <2>2 DEF Refreshed, Records, Tokens
  <2> QED
    BY <1>5, <2>2, <2>3
<1>7. CASE ExchangeCode(x)
  BY <1>2, <1>4, <1>7 DEF ExchangeCode
<1>8. CASE FetchUser(x)
  <2> DEFINE new == Exchanged(caller[x].record, caller[x].token)
  <2>1. EndAuthorized(x, s, c, new)
    BY <1>4, <1>8 DEF FetchUser
  <2>2. new \in Records /\ new.status = "exchanged"
    BY <1>1 DEF Exchanged, Records, TypeOK
  <2> QED
    BY <1>5, <2>1, <2>2
<1> QED
  BY <1>6, <1>7, <1>8 DEF Exchange

LEMMA ExchangeBecomes ==
  ASSUME NEW y \in Callers, Exchange(y)
  PROVE  \E pc, r, token : Becomes(y, pc, r, token)
<1>1. ASSUME NEW z \in {y}, NEW t, NEW c, NEW r,
             EndRefused(z, t, c, r) \/ EndAuthorized(z, t, c, r)
      PROVE  \E pc, u, token : Becomes(y, pc, u, token)
  <2>1. CASE EndRefused(z, t, c, r)
    BY <2>1 DEF EndRefused
  <2>2. CASE EndAuthorized(z, t, c, r)
    <3>1. PICK done \in Update(t, c, r) :
            CASE done[2] = "ok"      -> Becomes(z, "authorized", Absent, r.token)
              [] done[2] = "missing" -> Becomes(z, "refused", Absent, None)
              [] done[2] = "error"   -> Becomes(z, "raised", Absent, None)
      BY <2>2 DEF EndAuthorized
    <3>2. done[2] \in {"ok", "missing", "error"}
      BY DEF Update
    <3> QED
      BY <3>1, <3>2
  <2> QED
    BY <1>1, <2>1, <2>2
<1>2. CASE ReadConnection(y)
  BY <1>1, <1>2 DEF ReadConnection
<1>3. CASE ExchangeCode(y)
  BY <1>1, <1>3 DEF ExchangeCode, Fail
<1>4. CASE FetchUser(y)
  BY <1>1, <1>4 DEF FetchUser, Fail
<1> QED
  BY <1>2, <1>3, <1>4 DEF Exchange

(* With the in-memory store, a caller that is given a token leaves it in   *)
(* its connection, which was not disconnected while GitHub was asked.      *)
THEOREM AuthorizedConnected == Spec => AuthorizedOnlyWhileConnected
<1>1. ASSUME TokenInv, [Next]_vars, NEW x \in Callers,
             caller[x].pc # "authorized", caller'[x].pc = "authorized",
             caller[x].service.store # Database
      PROVE  Connected(x)
  <2>0. caller \in [Callers -> CallerRecords]
    BY <1>1 DEF TokenInv, TypeOK, CallerRecords
  <2>1. CASE caller' = caller
    BY <1>1, <2>1
  <2>2. ASSUME NEW y \in Callers, Exchange(y) PROVE Connected(x)
    <3>1. \A u \in Callers \ {y} : caller'[u] = caller[u]
      <4>1. \E pc, r, token : Becomes(y, pc, r, token)
        BY <2>2, ExchangeBecomes
      <4> QED
        BY <2>0, <4>1 DEF Becomes
    <3>2. y = x
      BY <1>1, <3>1
    <3> QED
      BY <1>1, <2>2, <3>2, ExchangeConnected
  <2>3. ASSUME NEW c \in Connections, NEW y \in Callers, Launch(y, c)
        PROVE  Connected(x)
    BY <1>1, <2>0, <2>3 DEF Launch, Idle, CallerRecords
  <2>4. CASE Restart
    BY <1>1, <2>0, <2>4 DEF Restart, Idle
  <2>5. ASSUME NEW c \in Connections, NEW k \in Codes,
               \/ CreatePendingConnection(c) \/ UseEnvToken(c) \/ Disconnect(c)
               \/ Approve(c, k)
        PROVE  Connected(x)
    BY <2>1, <2>5 DEF CreatePendingConnection, UseEnvToken, Disconnect, Approve
  <2>6. ASSUME NEW k \in Codes, Expire(k) \/ CompleteCallback(k)
        PROVE  Connected(x)
    BY <2>1, <2>6 DEF Expire, CompleteCallback
  <2>7. ASSUME NEW c \in Connections,
               CreatePendingConnection(c) \/ UseEnvToken(c) \/ Disconnect(c)
        PROVE  Connected(x)
    BY <2>1, <2>7 DEF CreatePendingConnection, UseEnvToken, Disconnect
  <2>8. CASE UNCHANGED vars
    BY <2>1, <2>8 DEF vars
  <2> QED
    BY <1>1, <2>2, <2>3, <2>4, <2>5, <2>6, <2>7, <2>8 DEF Next
<1>2. TokenInv /\ [Next]_vars =>
        [\A x \in Callers :
           /\ caller[x].pc # "authorized"
           /\ caller'[x].pc = "authorized"
           /\ caller[x].service.store # Database
           => LET r == stores'[caller[x].service.store][caller[x].conn]
              IN  r.status = "exchanged" /\ r.token = caller'[x].token]_vars
  BY <1>1 DEF Connected
<1> QED
  BY <1>2, TokenInvariant, PTL DEF Spec, AuthorizedOnlyWhileConnected

-----------------------------------------------------------------------------
(* Codes that are offered again *)

(* A connection is kept in one store, and a caller that has read it works  *)
(* with that one; nothing is kept under an id that was not handed out.     *)
HomeInv ==
  /\ \A s \in Stores, c \in Connections : Holds(s, c) => opened[c] # "unused"
  /\ \A s, s2 \in Stores, c \in Connections : Holds(s, c) /\ Holds(s2, c) => s = s2
  /\ \A x \in Callers : caller[x].pc \in InFlight => opened[caller[x].conn] # "unused"
  /\ \A x \in Callers, s \in Stores :
       caller[x].pc \in {"code", "user"} /\ Holds(s, caller[x].conn) =>
         s = caller[x].service.store

OfferInv == TokenInv /\ HomeInv /\ SpentCodeIsNotOffered

(* What a step makes of a caller. *)
LEMMA CallerMoves ==
  ASSUME TokenInv, [Next]_vars, NEW x \in Callers
  PROVE  \/ caller'[x] = caller[x]
         \/ caller'[x].pc \in Ended
         \/ /\ caller'[x].pc = "launched" /\ opened[caller'[x].conn] # "unused"
         \/ /\ caller'[x].conn = caller[x].conn /\ caller'[x].service = caller[x].service
            /\ \/ /\ caller[x].pc = "launched" /\ caller'[x].pc = "code"
                  /\ Holds(caller[x].service.store, caller[x].conn)
               \/ caller[x].pc = "code" /\ caller'[x].pc = "user"
<1>0. caller \in [Callers -> CallerRecords]
  BY DEF TokenInv, TypeOK, CallerRecords
<1>1. CASE caller' = caller
  BY <1>1
<1>2. ASSUME NEW y \in Callers, Exchange(y), y # x PROVE caller'[x] = caller[x]
  <2>1. \E pc, r, token : Becomes(y, pc, r, token)
    BY <1>2, ExchangeBecomes
  <2> QED
    BY <1>0, <1>2, <2>1 DEF Becomes
<1>3. ASSUME NEW pc, NEW r, NEW token, Becomes(x, pc, r, token)
      PROVE  /\ caller'[x].pc = pc
             /\ caller'[x].conn = caller[x].conn /\ caller'[x].service = caller[x].service
  BY <1>0, <1>3 DEF Becomes, CallerRecords
<1>4. ASSUME NEW s, NEW c, NEW r, EndRefused(x, s, c, r) \/ EndAuthorized(x, s, c, r)
      PROVE  caller'[x].pc \in Ended
  <2>1. CASE EndRefused(x, s, c, r)
    <3>1. PICK pc \in {"raised", "refused"} : Becomes(x, pc, Absent, None)
      BY <2>1 DEF EndRefused
    <3> QED
      BY <1>3, <3>1 DEF Ended
  <2>2. CASE EndAuthorized(x, s, c, r)
    <3>1. PICK done \in Update(s, c, r) :
            CASE done[2] = "ok"      -> Becomes(x, "authorized", Absent, r.token)
              [] done[2] = "missing" -> Becomes(x, "refused", Absent, None)
              [] done[2] = "error"   -> Becomes(x, "raised", Absent, None)
      BY <2>2 DEF EndAuthorized
    <3>2. done[2] \in {"ok", "missing", "error"}
      BY DEF Update
    <3>3. PICK pc \in {"authorized", "refused", "raised"}, token \in {r.token, None} :
            Becomes(x, pc, Absent, token)
      BY <3>1, <3>2
    <3> QED
      BY <1>3, <3>3 DEF Ended
  <2> QED
    BY <1>4, <2>1, <2>2
<1>5. CASE ReadConnection(x)
  <2>1. CASE \E pc \in {"raised", "refused"} : Becomes(x, pc, Absent, None)
    BY <1>3, <2>1 DEF Ended
  <2>2. CASE /\ stores[caller[x].service.store][caller[x].conn].status = "ready"
             /\ Becomes(x, "code", stores[caller[x].service.store][caller[x].conn], None)
    BY <1>3, <1>5, <2>2 DEF ReadConnection, Holds
  <2> QED
    BY <1>4, <1>5, <2>1, <2>2 DEF ReadConnection
<1>6. CASE ExchangeCode(x)
  BY <1>3, <1>4, <1>6 DEF ExchangeCode, Fail
<1>7. CASE FetchUser(x)
  BY <1>4, <1>7 DEF FetchUser, Fail
<1>8. ASSUME NEW c \in Connections, NEW y \in Callers, Launch(y, c)
      PROVE  \/ caller'[x] = caller[x]
             \/ caller'[x].pc = "launched" /\ opened[caller'[x].conn] # "unused"
  BY <1>0, <1>8 DEF Launch, Idle
<1>9. CASE Restart
  BY <1>0, <1>9 DEF Restart, Idle, Ended
<1>10. ASSUME NEW c \in Connections,
              CreatePendingConnection(c) \/ UseEnvToken(c) \/ Disconnect(c)
       PROVE  caller' = caller
  BY <1>10 DEF CreatePendingConnection, UseEnvToken, Disconnect
<1>11. ASSUME NEW c \in Connections, NEW k \in Codes, Approve(c, k) PROVE caller' = caller
  BY <1>11 DEF Approve
<1>12. ASSUME NEW k \in Codes, Expire(k) \/ CompleteCallback(k) PROVE caller' = caller
  BY <1>12 DEF Expire, CompleteCallback
<1>13. ASSUME UNCHANGED vars PROVE caller' = caller
  BY <1>13 DEF vars
<1> QED
  BY <1>1, <1>2, <1>5, <1>6, <1>7, <1>8, <1>9, <1>10, <1>11, <1>12, <1>13 DEF Next, Exchange

LEMMA HomeStep ==
  ASSUME TokenInv, HomeInv, [Next]_vars
  PROVE  HomeInv'
<1>0. TypeOK /\ Grows(codes, opened, codes', opened')
  BY StepGrows DEF TokenInv
<1>1. ASSUME NEW c \in Connections, CreatePendingConnection(c) \/ UseEnvToken(c)
      PROVE  \E home \in Stores :
               \A s \in Stores : Holds(s, c)' => s = home /\ opened'[c] # "unused"
  <2>1. \A s \in Stores : ~Holds(s, c)
    BY <1>1 DEF HomeInv, CreatePendingConnection, UseEnvToken
  <2>2. service.store \in Stores
    BY <1>0 DEF TypeOK, Services
  <2>3. \/ UNCHANGED stores
        \/ /\ opened'[c] # "unused"
           /\ \E home \in Stores : \E r : Keep(home, c, r)
    <3>1. CASE CreatePendingConnection(c)
      BY <1>0, <2>2, <3>1 DEF CreatePendingConnection, TypeOK
    <3>2. CASE UseEnvToken(c)
      <4>1. PICK s \in BuiltStores(built), e \in EnvTokens :
              \/ opened' = [opened EXCEPT ![c] = "env"] /\ Keep(s, c, EnvRecord(e))
              \/ UNCHANGED stores
        BY <3>2 DEF UseEnvToken
      <4>2. s \in Stores
        BY <1>0, BuiltStoresType DEF TypeOK
      <4> QED
        BY <1>0, <4>1, <4>2 DEF TypeOK
    <3> QED
      BY <1>1, <3>1, <3>2
  <2>4. CASE UNCHANGED stores
    BY <2>1, <2>2, <2>4 DEF Holds
  <2>5. ASSUME opened'[c] # "unused", NEW home \in Stores, NEW r, Keep(home, c, r)
        PROVE  \A s \in Stores : Holds(s, c)' => s = home /\ opened'[c] # "unused"
    BY <1>0, <2>1, <2>5 DEF TypeOK, Keep, Holds
  <2> QED
    BY <2>3, <2>4, <2>5
<1>2. ASSUME NEW c \in Connections, ~CreatePendingConnection(c), ~UseEnvToken(c),
             NEW s \in Stores, Holds(s, c)'
      PROVE  Holds(s, c) /\ opened'[c] = opened[c]
  <2>1. Holds(s, c)
    BY <1>2, StaysDeleted
  <2> QED
    BY <1>0, <2>1 DEF HomeInv, Grows
<1>3. \A s \in Stores, c \in Connections : Holds(s, c)' => opened'[c] # "unused"
  BY <1>1, <1>2 DEF HomeInv
<1>4. \A s, s2 \in Stores, c \in Connections : Holds(s, c)' /\ Holds(s2, c)' => s = s2
  <2> TAKE s, s2 \in Stores, c \in Connections
  <2>1. CASE CreatePendingConnection(c) \/ UseEnvToken(c)
    BY <1>1, <2>1
  <2>2. CASE ~CreatePendingConnection(c) /\ ~UseEnvToken(c)
    BY <1>2, <2>2 DEF HomeInv
  <2> QED
    BY <2>1, <2>2
<1>5. ASSUME NEW x \in Callers, caller[x].pc \in InFlight, NEW c \in Connections,
             c = caller[x].conn
      PROVE  /\ opened'[c] # "unused"
             /\ \A s \in Stores : Holds(s, c)' => Holds(s, c)
  <2>1. opened[c] # "unused"
    BY <1>5 DEF HomeInv
  <2>2. ~CreatePendingConnection(c) /\ ~UseEnvToken(c)
    BY <2>1 DEF CreatePendingConnection, UseEnvToken
  <2>3. \A s \in Stores : Holds(s, c)' => Holds(s, c)
    BY <1>2, <2>2
  <2>4. opened'[c] # "unused"
    BY <1>0, <2>1 DEF Grows
  <2> QED
    BY <2>3, <2>4
<1>6. ASSUME NEW x \in Callers, caller'[x].pc \in InFlight
      PROVE  /\ opened'[caller'[x].conn] # "unused"
             /\ \A s \in Stores :
                  caller'[x].pc \in {"code", "user"}
                    /\ stores'[s][caller'[x].conn].status # "absent" =>
                  s = caller'[x].service.store
  <2>1. PICK c \in Connections : c = caller'[x].conn
    <3>1. TokenInv'
      BY TokenStep
    <3> QED
      BY <1>6, <3>1 DEF TokenInv, CallersOK, CallerOK
  <2>2. CASE caller'[x].pc = "launched" /\ opened[c] # "unused"
    BY <1>0, <2>1, <2>2 DEF Grows
  <2>3. CASE /\ caller[x].pc \in InFlight /\ caller[x].conn = c
             /\ caller'[x].service = caller[x].service
             /\ \A s \in Stores :
                  caller'[x].pc \in {"code", "user"} /\ Holds(s, c) =>
                    s = caller[x].service.store
    <3>1. opened'[c] # "unused" /\ \A s \in Stores : Holds(s, c)' => Holds(s, c)
      BY <1>5, <2>3
    <3>2. \A s \in Stores : caller'[x].pc \in {"code", "user"} /\ Holds(s, c)' =>
                              s = caller'[x].service.store
      BY <2>3, <3>1
    <3> QED
      BY <2>1, <3>1, <3>2 DEF Holds
  <2>4. CASE caller'[x] = caller[x]
    BY <1>6, <2>1, <2>3, <2>4 DEF HomeInv
  <2>5. CASE /\ caller'[x].conn = caller[x].conn /\ caller'[x].service = caller[x].service
             /\ caller[x].pc = "launched" /\ caller'[x].pc = "code"
             /\ Holds(caller[x].service.store, caller[x].conn)
    <3>1. caller[x].pc \in InFlight /\ caller[x].service.store \in Stores
      BY <2>5, InFlightOK DEF InFlight, Services
    <3>2. \A s \in Stores : Holds(s, c) => s = caller[x].service.store
      BY <2>1, <2>5, <3>1 DEF HomeInv
    <3> QED
      BY <2>1, <2>3, <2>5, <3>1, <3>2
  <2>6. CASE /\ caller'[x].conn = caller[x].conn /\ caller'[x].service = caller[x].service
             /\ caller[x].pc = "code" /\ caller'[x].pc = "user"
    <3>1. caller[x].pc \in InFlight
      BY <2>6 DEF InFlight
    <3>2. \A s \in Stores : Holds(s, c) => s = caller[x].service.store
      BY <2>1, <2>6 DEF HomeInv
    <3> QED
      BY <2>1, <2>3, <2>6, <3>1, <3>2
  <2>7. caller'[x].pc \notin Ended
    BY <1>6 DEF Ended, InFlight
  <2> QED
    BY <2>1, <2>2, <2>4, <2>5, <2>6, <2>7, CallerMoves
<1>7. \A x \in Callers : caller'[x].pc \in InFlight => opened'[caller'[x].conn] # "unused"
  BY <1>6
<1>8. \A x \in Callers, s \in Stores :
        caller'[x].pc \in {"code", "user"}
          /\ stores'[s][caller'[x].conn].status # "absent" =>
        s = caller'[x].service.store
  BY <1>6 DEF InFlight
<1> QED
  BY <1>3, <1>4, <1>7, <1>8 DEF HomeInv, Holds

(* An end of an exchange that no store disturbs leaves the connection      *)
(* other than ready, and no other one changed.                             *)
LEMMA EndLeaves ==
  ASSUME TypeOK, NEW x \in Callers, NEW s \in Stores, NEW c \in Connections, NEW r,
         r.status # "ready", EndRefused(x, s, c, r) \/ EndAuthorized(x, s, c, r),
         mishaps' = {}
  PROVE  /\ stores'[s][c].status # "ready"
         /\ \A s2 \in Stores, c2 \in Connections :
              ~(s2 = s /\ c2 = c) => stores'[s2][c2] = stores[s2][c2]
<1>1. PICK done \in Update(s, c, r) :
        Keep(s, c, done[1]) /\ Mishap(done[2] = "error", "store")
  BY DEF EndRefused, EndAuthorized
<1>2. done[2] # "error"
  BY <1>1 DEF Mishap
<1>3. done[1] = IF Holds(s, c) THEN r ELSE stores[s][c]
  BY <1>2 DEF Update
<1>4. done[1].status # "ready"
  BY <1>3 DEF Holds
<1> QED
  BY <1>1, <1>4 DEF Keep, TypeOK

Offered(s, c) == stores[s][c].status = "ready" /\ codes[stores[s][c].code].state = "spent"

Redeems(x, s, c) ==
  /\ caller[x].pc = "user" /\ caller[x].conn = c /\ caller[x].service.store = s
  /\ caller[x].token = stores[s][c].code

(* A step of a caller: if a code is offered that was redeemed, either it   *)
(* was before, to the same connection, or this caller redeemed it now.     *)
LEMMA ExchangeOffers ==
  ASSUME OfferInv, mishaps = {}, mishaps' = {}, NEW x \in Callers, Exchange(x),
         NEW s2 \in Stores, NEW c2 \in Connections, Offered(s2, c2)'
  PROVE  \E u \in Callers : Redeems(u, s2, c2)'
<1> DEFINE s == caller[x].service.store
           c == caller[x].conn
           e == caller[x].service.env
           k == caller[x].record.code
<1>0. TokenInv /\ TypeOK /\ HomeInv /\ caller \in [Callers -> CallerRecords]
  BY DEF OfferInv, TokenInv, TypeOK, CallerRecords
<1>1. caller[x].pc \in InFlight /\ s \in Stores /\ c \in Connections
  <2>1. caller[x].pc \in InFlight
    BY DEF Exchange, ReadConnection, ExchangeCode, FetchUser, InFlight
  <2> QED
    BY <1>0, <2>1, InFlightOK DEF Services
<1>2. PICK pc, r, token : Becomes(x, pc, r, token)
  BY ExchangeBecomes
<1>3. /\ \A u \in Callers \ {x} : caller'[u] = caller[u]
      /\ caller'[x].pc = pc /\ caller'[x].token = token
      /\ caller'[x].conn = c /\ caller'[x].service.store = s
  BY <1>0, <1>2 DEF Becomes, CallerRecords
<1>4. /\ stores'[s2][c2] \in Records
      /\ stores[s2][c2] \in Records /\ RecordOK(stores[s2][c2], c2, codes, opened)
  <2>1. TokenInv'
    BY <1>0, TokenStep DEF Next
  <2> QED
    BY <1>0, <2>1 DEF TokenInv, TypeOK, StoresOK
<1>5. ASSUME stores'[s2][c2] = stores[s2][c2], Offered(s2, c2),
             caller[x].pc # "user" \/ ~(s2 = s /\ c2 = c)
      PROVE  \E u \in Callers : Redeems(u, s2, c2)'
  <2>1. PICK u \in Callers : Redeems(u, s2, c2)
    BY <1>5 DEF OfferInv, SpentCodeIsNotOffered, Offered, Redeems
  <2>2. u # x
    BY <1>5, <2>1 DEF Redeems
  <2> QED
    BY <1>3, <1>5, <2>1, <2>2 DEF Redeems
<1>6. ASSUME NEW w, w.status # "ready",
             EndRefused(x, s, c, w) \/ EndAuthorized(x, s, c, w)
      PROVE  stores'[s2][c2] = stores[s2][c2] /\ ~(s2 = s /\ c2 = c)
  BY <1>0, <1>1, <1>6, EndLeaves DEF Offered
<1>7. CASE ReadConnection(x)
  <2>1. caller[x].pc = "launched" /\ codes' = codes
    BY <1>7 DEF ReadConnection
  <2>2. stores'[s2][c2] = stores[s2][c2]
    <3> DEFINE v == stores[s][c]
    <3>1. \/ stores' = stores
          \/ v.status = "exchanged" /\ EndAuthorized(x, s, c, Refreshed(v, e))
          \/ EndRefused(x, s, c, MarkedFailed(v))
      BY <1>7 DEF ReadConnection
    <3>2. v \in Records
      BY <1>0, <1>1 DEF TypeOK
    <3> HIDE DEF v, s, c
    <3>3. v.status = "exchanged" => Refreshed(v, e).status # "ready"
      BY <3>2 DEF Refreshed, Records
    <3>4. MarkedFailed(v).status # "ready"
      BY <3>2 DEF MarkedFailed, Records
    <3> QED
      BY <1>6, <3>1, <3>3, <3>4
  <2>3. Offered(s2, c2)
    BY <2>1, <2>2 DEF Offered
  <2> QED
    BY <1>5, <2>1, <2>2, <2>3
<1>8. CASE ExchangeCode(x)
  <2>1. caller[x].pc = "code" /\ k \in Codes /\ RecordOK(caller[x].record, c, codes, opened)
    BY <1>0, <1>8 DEF ExchangeCode, TokenInv, CallersOK, CallerOK
  <2>2. MarkedFailed(caller[x].record).status # "ready"
    <3>1. caller[x].record \in Records
      BY <1>0 DEF CallerRecords
    <3> QED
      BY <3>1 DEF MarkedFailed, Records
  <2>3. Fail(x) => stores'[s2][c2] = stores[s2][c2] /\ ~(s2 = s /\ c2 = c)
    BY <1>6, <2>2 DEF Fail
  <2>4. stores'[s2][c2] = stores[s2][c2]
    BY <1>8, <2>3 DEF ExchangeCode
  <2>5. CASE Offered(s2, c2)
    BY <1>5, <2>1, <2>4, <2>5
  <2>6. CASE ~Offered(s2, c2)
    <3>1. /\ codes' = [codes EXCEPT ![k].state = "spent"]
          /\ stores[s2][c2].status = "ready" /\ stores[s2][c2].code = k
      <4>1. stores[s2][c2].status = "ready" /\ stores[s2][c2].code \in Codes
        BY <1>4, <2>4 DEF Offered, RecordOK, Records
      <4>2. codes' # codes
        BY <2>4, <2>6 DEF Offered
      <4>3. codes' = [codes EXCEPT ![k].state = "spent"]
        BY <1>8, <4>2 DEF ExchangeCode
      <4>4. codes'[stores[s2][c2].code].state = "spent"
        BY <2>4 DEF Offered
      <4>5. codes[stores[s2][c2].code].state # "spent"
        BY <2>6, <4>1 DEF Offered
      <4> HIDE DEF k
      <4>6. stores[s2][c2].code = k
        BY <1>0, <4>1, <4>3, <4>4, <4>5 DEF TypeOK
      <4> QED
        BY <4>1, <4>3, <4>6
    <3>2. c2 = c
      <4>1. k # None
        BY <2>1, NoneAssumption
      <4> QED
        BY <1>4, <2>1, <3>1, <4>1 DEF RecordOK, Issued
    <3>3. s2 = s
      <4>1. Holds(s2, c2)
        BY <3>1 DEF Holds
      <4> QED
        BY <1>0, <2>1, <3>2, <4>1 DEF HomeInv
    <3>4. Becomes(x, "user", caller[x].record, k)
      BY <1>8, <2>3, <3>2, <3>3 DEF ExchangeCode, Fail
    <3>5. caller'[x].pc = "user" /\ caller'[x].token = k
      BY <1>0, <3>4 DEF Becomes, CallerRecords
    <3>6. Redeems(x, s2, c2)'
      BY <1>3, <2>4, <3>1, <3>2, <3>3, <3>5 DEF Redeems
    <3> QED
      BY <3>6
  <2> QED
    BY <2>5, <2>6
<1>9. CASE FetchUser(x)
  <2>1. codes' = codes /\ caller[x].record \in Records
    BY <1>0, <1>9 DEF FetchUser, CallerRecords
  <2>2. MarkedFailed(caller[x].record).status # "ready"
    BY <2>1 DEF MarkedFailed, Records
  <2>3. Exchanged(caller[x].record, caller[x].token).status # "ready"
    BY DEF Exchanged
  <2>4. stores'[s2][c2] = stores[s2][c2] /\ ~(s2 = s /\ c2 = c)
    BY <1>6, <1>9, <2>2, <2>3 DEF FetchUser, Fail
  <2>5. Offered(s2, c2)
    BY <2>1, <2>4 DEF Offered
  <2> QED
    BY <1>5, <2>4, <2>5
<1> QED
  BY <1>7, <1>8, <1>9 DEF Exchange

LEMMA OfferStep ==
  ASSUME OfferInv, [Next]_vars
  PROVE  SpentCodeIsNotOffered'
<1> SUFFICES ASSUME mishaps' = {}, NEW s2 \in Stores, NEW c2 \in Connections, Offered(s2, c2)'
             PROVE  \E u \in Callers : Redeems(u, s2, c2)'
  BY DEF SpentCodeIsNotOffered, Offered, Redeems
<1>0. TokenInv /\ TypeOK /\ HomeInv /\ caller \in [Callers -> CallerRecords]
  BY DEF OfferInv, TokenInv, TypeOK, CallerRecords
<1>1. stores[s2][c2] \in Records /\ RecordOK(stores[s2][c2], c2, codes, opened)
  BY <1>0 DEF TokenInv, TypeOK, StoresOK
<1>2. ASSUME mishaps = {}, Offered(s2, c2) PROVE \E u \in Callers : Redeems(u, s2, c2)
  BY <1>2 DEF OfferInv, SpentCodeIsNotOffered, Offered, Redeems
<1>3. ASSUME mishaps = {}, stores'[s2][c2] = stores[s2][c2],
             caller' = caller \/ \E x \in Callers, c \in Connections : Launch(x, c),
             \A k \in Codes : codes'[k].state = "spent" => codes[k].state = "spent"
      PROVE  \E u \in Callers : Redeems(u, s2, c2)'
  <2>1. stores[s2][c2].code \in Codes
    BY <1>1, <1>3 DEF Offered, RecordOK, Records
  <2>2. Offered(s2, c2)
    BY <1>3, <2>1 DEF Offered
  <2>3. PICK u \in Callers : Redeems(u, s2, c2)
    BY <1>2, <1>3, <2>2
  <2>4. caller'[u] = caller[u]
    BY <1>0, <1>3, <2>3 DEF Launch, Redeems
  <2> QED
    BY <1>3, <2>3, <2>4 DEF Redeems
<1>4. ASSUME NEW c \in Connections,
             CreatePendingConnection(c) \/ UseEnvToken(c) \/ Disconnect(c)
      PROVE  \E u \in Callers : Redeems(u, s2, c2)'
  <2>1. mishaps' = mishaps /\ caller' = caller /\ codes' = codes
    BY <1>4 DEF CreatePendingConnection, UseEnvToken, Disconnect
  <2>2. \/ stores' = stores
        \/ \E s, r : r.status # "ready" /\ Keep(s, c, r)
    <3>1. Pending.status # "ready" /\ Absent.status # "ready"
      BY DEF Pending, Absent
    <3>2. \A t : EnvRecord(t).status # "ready"
      BY DEF EnvRecord
    <3> QED
      BY <1>4, <3>1, <3>2 DEF CreatePendingConnection, UseEnvToken, Disconnect
  <2>3. stores'[s2][c2] = stores[s2][c2]
    <3>1. ASSUME NEW s, NEW r, r.status # "ready", Keep(s, c, r)
          PROVE  stores'[s2][c2] = stores[s2][c2]
      BY <1>0, <3>1 DEF TypeOK, Keep, Offered
    <3> QED
      BY <2>2, <3>1
  <2> QED
    BY <1>3, <2>1, <2>3
<1>5. ASSUME NEW c \in Connections, NEW k \in Codes, Approve(c, k) \/ Expire(k)
      PROVE  \E u \in Callers : Redeems(u, s2, c2)'
  <2>1. mishaps' = mishaps /\ caller' = caller /\ stores' = stores
    BY <1>5 DEF Approve, Expire
  <2>2. \A k2 \in Codes : codes'[k2].state = "spent" => codes[k2].state = "spent"
    BY <1>0, <1>5 DEF Approve, Expire, TypeOK
  <2> QED
    BY <1>3, <2>1, <2>2
<1>6. ASSUME NEW k \in Codes, CompleteCallback(k)
      PROVE  \E u \in Callers : Redeems(u, s2, c2)'
  <2> DEFINE s == service.store
             c == codes[k].conn
             new == Callback(stores[s][c], k)
  <2>1. /\ s \in Stores /\ c \in Connections
        /\ caller' = caller /\ codes' = codes
    BY <1>0, <1>6 DEF CompleteCallback, TokenInv, TypeOK, CodesOK, Services
  <2>2. PICK done \in Update(s, c, new) :
          Keep(s, c, done[1]) /\ Mishap(codes[k].state = "spent", "repeat")
    BY <1>6 DEF CompleteCallback
  <2>3. codes[k].state # "spent" /\ mishaps = {}
    BY <2>2 DEF Mishap
  <2>4. stores[s][c] \in Records
    BY <1>0, <2>1 DEF TypeOK
  <2>5. new.code = k
    BY <2>4 DEF Callback, Records
  <2>6. done[1] \in {new, stores[s][c]}
    BY DEF Update
  <2> HIDE DEF s, c, new
  <2>7. ~(s2 = s /\ c2 = c /\ done[1] = new)
    BY <1>0, <2>1, <2>2, <2>3, <2>5 DEF Keep, TypeOK, Offered
  <2>8. stores'[s2][c2] = stores[s2][c2]
    BY <1>0, <2>1, <2>2, <2>6, <2>7 DEF Keep, TypeOK
  <2> QED
    BY <1>3, <2>1, <2>3, <2>8
<1>7. ASSUME NEW c \in Connections, NEW x \in Callers, Launch(x, c)
      PROVE  \E u \in Callers : Redeems(u, s2, c2)'
  <2>1. mishaps' = mishaps /\ stores' = stores /\ codes' = codes
    BY <1>7 DEF Launch
  <2> QED
    BY <1>3, <1>7, <2>1
<1>8. ASSUME NEW x \in Callers, Exchange(x)
      PROVE  \E u \in Callers : Redeems(u, s2, c2)'
  <2>1. mishaps = {}
    <3>1. mishaps' = mishaps \/ \E b, m : Mishap(b, m)
      BY <1>8 DEF Exchange, ReadConnection, ExchangeCode, FetchUser, Fail,
                  EndRefused, EndAuthorized
    <3> QED
      BY <3>1 DEF Mishap
  <2> QED
    BY <1>8, <2>1, ExchangeOffers
<1>9. CASE Restart
  <2>1. mishaps = {} /\ \A x \in Callers : caller[x].pc \notin InFlight
    BY <1>9 DEF Restart, Mishap
  <2>2. stores'[s2][c2] = stores[s2][c2] /\ codes' = codes
    BY <1>0, <1>9 DEF Restart, TypeOK, Offered, Absent
  <2>3. Offered(s2, c2)
    BY <2>2 DEF Offered
  <2> QED
    BY <1>2, <2>1, <2>3 DEF Redeems, InFlight
<1>10. CASE UNCHANGED vars
  BY <1>3, <1>10 DEF vars
<1> QED
  BY <1>4, <1>5, <1>6, <1>7, <1>8, <1>9, <1>10 DEF Next

LEMMA OfferInit == Init => HomeInv /\ SpentCodeIsNotOffered
<1> SUFFICES ASSUME Init PROVE HomeInv /\ SpentCodeIsNotOffered
  OBVIOUS
<1>1. \A s \in Stores, c \in Connections : stores[s][c].status = "absent"
  BY DEF Init, Absent
<1>2. \A x \in Callers : caller[x].pc = "idle"
  BY DEF Init, Idle
<1> QED
  BY <1>1, <1>2 DEF HomeInv, Holds, SpentCodeIsNotOffered, InFlight

(* Every end of exchange_for_workflow takes the connection out of "ready": *)
(* as long as no process dies, no store fails and no callback is delivered *)
(* again, a connection offers no code that GitHub has redeemed, but to the *)
(* caller that redeemed it.                                                *)
THEOREM SpentNotOffered == Spec => []SpentCodeIsNotOffered
<1>1. Init => OfferInv
  BY InitOK, OfferInit DEF OfferInv
<1>2. OfferInv /\ [Next]_vars => OfferInv'
  BY TokenStep, HomeStep, OfferStep DEF OfferInv
<1>3. OfferInv => SpentCodeIsNotOffered
  BY DEF OfferInv
<1> QED
  BY <1>1, <1>2, <1>3, PTL DEF Spec
=============================================================================
