-------------------------- MODULE GitHubConnection --------------------------
(***************************************************************************)
(* The GitHub connections of agent/github_oauth.py: the sign-in that       *)
(* creates one, the callback that brings its single-use code, the exchange *)
(* of the code by the task or upload that is launched with it, and the     *)
(* disconnect; with the database and the in-memory store they may be kept  *)
(* in, and the reload of the settings that replaces the store.             *)
(*                                                                         *)
(* Handlers run on one event loop, so what happens between two awaits is   *)
(* one action.  exchange_for_workflow awaits GitHub twice, with the record *)
(* it read at its start in hand, and writes that record back.              *)
(*                                                                         *)
(* A token is named after the code GitHub granted it for, or it is the one *)
(* of the environment.  Left out: encryption (the key stays the same),     *)
(* settings that are incomplete, scopes, logins, dates and the id of the   *)
(* linked task, which decide nothing.                                      *)
(*                                                                         *)
(* UpdateAsUpsert, UpdateNeverMinding, Unmarked, MarkedRejected and        *)
(* RefreshedAlways are the definitions after them with a plausible bug;    *)
(* README.md names the property each breaks.                               *)
(***************************************************************************)
EXTENDS Naturals

CONSTANTS
  Connections,  \* connection ids; one is used by one sign-in only
  Callers,      \* executions of exchange_for_workflow, by tasks and uploads
  Codes,        \* the codes GitHub may issue
  EnvTokens,    \* the tokens the operator may put into the environment
  MaxMemory,    \* bound: how many in-memory stores are ever built
  None

ASSUME NoneAssumption == None \notin Codes \cup EnvTokens \cup Connections

ASSUME CodesAssumption == Codes \cap EnvTokens = {}

ASSUME MaxMemoryAssumption == MaxMemory \in Nat

VARIABLES
  configured,  \* whether a database is configured
  service,     \* the app's service: its store, and the token of its settings
  built,       \* the number of in-memory stores built so far
  stores,      \* stores[s][c]: the record of connection c in store s
  opened,      \* the connection ids handed out, and by which sign-in
  codes,       \* GitHub: whom a code was issued for, and what became of it
  caller,      \* caller[x]: where x is in exchange_for_workflow
  mishaps      \* history: what has gone wrong so far

vars == <<configured, service, built, stores, opened, codes, caller, mishaps>>

-----------------------------------------------------------------------------
Database == 0
Stores == 0..MaxMemory

Tokens == Codes \cup EnvTokens

(* GitHubConnectionRecord; oauth: github_user_id is known. *)
Records ==
  [status : {"absent", "pending", "ready", "exchanged", "failed"},
   code : Codes \cup {None}, token : Tokens \cup {None}, oauth : BOOLEAN]

Absent == [status |-> "absent", code |-> None, token |-> None, oauth |-> FALSE]
Pending == [Absent EXCEPT !.status = "pending"]

(* The record of create_env_token_connection. *)
EnvRecord(token) ==
  [status |-> "exchanged", code |-> None, token |-> token, oauth |-> FALSE]

Services == [store : Stores, env : EnvTokens]

Idle == [pc |-> "idle", conn |-> None, service |-> None, record |-> Absent,
         token |-> None]

InFlight == {"launched", "code", "user"}
Ended == {"authorized", "refused", "raised", "lost"}

TypeOK ==
  /\ configured \in BOOLEAN
  /\ service \in Services
  /\ built \in Stores
  /\ stores \in [Stores -> [Connections -> Records]]
  /\ opened \in [Connections -> {"unused", "oauth", "env"}]
  /\ codes \in [Codes -> [conn : Connections \cup {None},
                          state : {"unissued", "live", "spent", "expired"}]]
  /\ caller \in [Callers -> [pc : InFlight \cup Ended \cup {"idle"},
                             conn : Connections \cup {None},
                             service : Services \cup {None},
                             record : Records,
                             token : Tokens \cup {None}]]
  /\ mishaps \subseteq {"crash", "store", "repeat"}

(* build_github_connection_store: the database, or an empty store in memory*)
(* when none is configured or it does not answer.                          *)
BuiltStores(n) == (IF configured THEN {Database} ELSE {}) \cup
                  (IF n < MaxMemory THEN {n + 1} ELSE {})

Init ==
  /\ configured \in BOOLEAN
  /\ service \in [store : BuiltStores(0), env : EnvTokens]
  /\ built = service.store
  /\ stores = [s \in Stores |-> [c \in Connections |-> Absent]]
  /\ opened = [c \in Connections |-> "unused"]
  /\ codes = [k \in Codes |-> [conn |-> None, state |-> "unissued"]]
  /\ caller = [x \in Callers |-> Idle]
  /\ mishaps = {}

-----------------------------------------------------------------------------
(* The stores *)

Holds(s, c) == stores[s][c].status # "absent"

UpdateAsUpsert(s, c, record) ==
  IF s = Database
  THEN {<<record, "ok">>, <<record, "error">>, <<stores[s][c], "error">>}
  ELSE {<<record, "ok">>}

UpdateNeverMinding(s, c, record) ==
  {<<IF Holds(s, c) THEN record ELSE stores[s][c], "ok">>}

(* What update(record) leaves in store s, and how it answers.  An update of*)
(* a row that is gone changes nothing, and only the in-memory store minds. *)
(* A call to the database may fail, before or after it took effect.        *)
Update(s, c, record) ==
  LET now   == stores[s][c]
      after == IF Holds(s, c) THEN record ELSE now
  IN  IF s = Database
      THEN {<<after, "ok">>, <<after, "error">>, <<now, "error">>}
      ELSE {<<after, IF Holds(s, c) THEN "ok" ELSE "missing">>}

Keep(s, c, record) == stores' = [stores EXCEPT ![s][c] = record]

Mishap(happened, what) ==
  mishaps' = mishaps \cup (IF happened THEN {what} ELSE {})

-----------------------------------------------------------------------------
(* Sign-in *)

(* create_pending_connection, under a fresh id.  When the insert fails the *)
(* id is never handed out.                                                 *)
CreatePendingConnection(c) ==
  /\ opened[c] = "unused"
  /\ opened' = [opened EXCEPT ![c] = "oauth"]
  /\ Keep(service.store, c, Pending)
  /\ UNCHANGED <<configured, service, built, codes, caller, mishaps>>

(* GitHub: the user approves the sign-in of c, once more when the browser  *)
(* goes back to the page of GitHub.                                        *)
Approve(c, k) ==
  /\ opened[c] = "oauth"
  /\ codes[k].state = "unissued"
  /\ codes' = [codes EXCEPT ![k] = [conn |-> c, state |-> "live"]]
  /\ UNCHANGED <<configured, service, built, stores, opened, caller, mishaps>>

Expire(k) ==
  /\ codes[k].state = "live"
  /\ codes' = [codes EXCEPT ![k].state = "expired"]
  /\ UNCHANGED <<configured, service, built, stores, opened, caller, mishaps>>

Callback(record, k) == [record EXCEPT !.code = k, !.status = "ready"]

(* The redirect GitHub answered with reaches the server: complete_callback.*)
(* The browser may deliver it late, not at all or again.                   *)
CompleteCallback(k) ==
  LET s == service.store
      c == codes[k].conn
  IN  /\ codes[k].state # "unissued"
      /\ Holds(s, c)
      /\ \E done \in Update(s, c, Callback(stores[s][c], k)) :
           /\ Keep(s, c, done[1])
           /\ Mishap(codes[k].state = "spent", "repeat")
      /\ UNCHANGED <<configured, service, built, opened, codes, caller>>

(* POST /use-env-token reloads the settings, which builds a new store and  *)
(* service, and then stores a connection with the token of the environment;*)
(* GitHub may refuse that token.                                           *)
UseEnvToken(c) ==
  /\ opened[c] = "unused"
  /\ \E s \in BuiltStores(built), e \in EnvTokens :
       /\ service' = [store |-> s, env |-> e]
       /\ built' = IF s = Database THEN built ELSE s
       /\ \/ /\ opened' = [opened EXCEPT ![c] = "env"]
             /\ Keep(s, c, EnvRecord(e))
          \/ UNCHANGED <<opened, stores>>
  /\ UNCHANGED <<configured, codes, caller, mishaps>>

(* The page forgets its connection whatever the answer; a call that fails  *)
(* before it took effect changes nothing.                                  *)
Disconnect(c) ==
  /\ Holds(service.store, c)
  /\ Keep(service.store, c, Absent)
  /\ UNCHANGED <<configured, service, built, opened, codes, caller, mishaps>>

-----------------------------------------------------------------------------
(* exchange_for_workflow *)

(* A task is accepted with a connection id, or an upload arrives with one; *)
(* it works with the service of that moment.                               *)
Launch(x, c) ==
  /\ caller[x].pc = "idle"
  /\ opened[c] # "unused"
  /\ caller' = [caller EXCEPT ![x] = [Idle EXCEPT !.pc = "launched",
                                                  !.conn = c,
                                                  !.service = service]]
  /\ UNCHANGED <<configured, service, built, stores, opened, codes, mishaps>>

Becomes(x, pc, record, token) ==
  caller' = [caller EXCEPT ![x].pc = pc, ![x].record = record,
                           ![x].token = token]

(* Write a record and end: refused, or raised when the store raised. *)
EndRefused(x, s, c, record) ==
  \E done \in Update(s, c, record) :
    /\ Keep(s, c, done[1])
    /\ Becomes(x, IF done[2] = "error" THEN "raised" ELSE "refused",
               Absent, None)
    /\ Mishap(done[2] = "error", "store")

(* Write a record and go on with a token: the in-memory store refuses to   *)
(* update a connection that was deleted.                                   *)
EndAuthorized(x, s, c, record) ==
  \E done \in Update(s, c, record) :
    /\ Keep(s, c, done[1])
    /\ CASE done[2] = "ok"      -> Becomes(x, "authorized", Absent, record.token)
         [] done[2] = "missing" -> Becomes(x, "refused", Absent, None)
         [] done[2] = "error"   -> Becomes(x, "raised", Absent, None)
    /\ Mishap(done[2] = "error", "store")

Unmarked(record) == record

MarkedRejected(record) == [record EXCEPT !.status = "rejected"]

MarkedFailed(record) == [record EXCEPT !.status = "failed"]

RefreshedAlways(record, env) == [record EXCEPT !.token = env]

(* _refresh_env_token_from_settings *)
Refreshed(record, env) ==
  IF ~record.oauth /\ record.code = None
  THEN [record EXCEPT !.token = env] ELSE record

(* Up to the first await.  An exchanged connection is used as it is; its   *)
(* record is written back, linked to the task.                             *)
ReadConnection(x) ==
  LET c == caller[x].conn
      s == caller[x].service.store
      r == stores[s][c]
  IN  /\ caller[x].pc = "launched"
      /\ \/ /\ s = Database
            /\ Becomes(x, "raised", Absent, None)
            /\ Mishap(TRUE, "store")
            /\ UNCHANGED stores
         \/ /\ r.status = "absent"
            /\ Becomes(x, "refused", Absent, None)
            /\ UNCHANGED <<stores, mishaps>>
         \/ /\ r.status = "exchanged" /\ r.token # None
            /\ EndAuthorized(x, s, c, Refreshed(r, caller[x].service.env))
         \/ /\ r.status = "ready" /\ r.code # None
            /\ Becomes(x, "code", r, None)
            /\ UNCHANGED <<stores, mishaps>>
         \/ /\ r.status \in {"pending", "failed"}
            /\ EndRefused(x, s, c, MarkedFailed(r))
      /\ UNCHANGED <<configured, service, built, opened, codes>>

(* A call fails or is refused: the record that was read is written back,   *)
(* marked failed.                                                          *)
Fail(x) ==
  LET r == caller[x].record
  IN  EndRefused(x, caller[x].service.store, caller[x].conn, MarkedFailed(r))

(* _exchange_code: GitHub grants a token for a live code, once. The request*)
(* or its answer may be lost.                                              *)
ExchangeCode(x) ==
  LET k == caller[x].record.code
  IN  /\ caller[x].pc = "code"
      /\ \/ /\ codes[k].state = "live"
            /\ codes' = [codes EXCEPT ![k].state = "spent"]
            /\ \/ /\ Becomes(x, "user", caller[x].record, k)
                  /\ UNCHANGED <<stores, mishaps>>
               \/ Fail(x)
         \/ Fail(x) /\ UNCHANGED codes
      /\ UNCHANGED <<configured, service, built, opened>>

Exchanged(record, token) ==
  [status |-> "exchanged", code |-> None, token |-> token, oauth |-> TRUE]

(* _fetch_user, and what follows it up to the return. *)
FetchUser(x) ==
  LET r == caller[x].record
  IN  /\ caller[x].pc = "user"
      /\ \/ EndAuthorized(x, caller[x].service.store, caller[x].conn,
                          Exchanged(r, caller[x].token))
         \/ Fail(x)
      /\ UNCHANGED <<configured, service, built, opened, codes>>

-----------------------------------------------------------------------------
(* The process dies and is started again; what was in flight is gone. *)
Restart ==
  /\ \E s \in BuiltStores(built), e \in EnvTokens :
       /\ service' = [store |-> s, env |-> e]
       /\ built' = IF s = Database THEN built ELSE s
  /\ stores' = [s \in Stores |-> IF s = Database THEN stores[s]
                                 ELSE [c \in Connections |-> Absent]]
  /\ caller' = [x \in Callers |-> IF caller[x].pc \in InFlight
                                  THEN [Idle EXCEPT !.pc = "lost"]
                                  ELSE caller[x]]
  /\ Mishap(\E x \in Callers : caller[x].pc \in InFlight, "crash")
  /\ UNCHANGED <<configured, opened, codes>>

-----------------------------------------------------------------------------
Exchange(x) == ReadConnection(x) \/ ExchangeCode(x) \/ FetchUser(x)

Next ==
  \/ \E c \in Connections :
       \/ CreatePendingConnection(c)
       \/ UseEnvToken(c)
       \/ Disconnect(c)
       \/ \E k \in Codes : Approve(c, k)
       \/ \E x \in Callers : Launch(x, c)
  \/ \E k \in Codes : Expire(k) \/ CompleteCallback(k)
  \/ \E x \in Callers : Exchange(x)
  \/ Restart

Spec == Init /\ [][Next]_vars

-----------------------------------------------------------------------------
(* What must hold *)

(* A token is only ever found at the connection it was granted for: the one*)
(* whose sign-in brought the code, or one made of the environment's token, *)
(* whatever is in flight while connections come and go and settings change.*)
GrantedFor(token, c) ==
  IF token \in Codes
  THEN codes[token].conn = c /\ codes[token].state = "spent"
  ELSE opened[c] = "env"

TokensStayWithTheirConnection ==
  /\ \A s \in Stores, c \in Connections :
       stores[s][c].token # None => GrantedFor(stores[s][c].token, c)
  /\ \A x \in Callers :
       caller[x].token # None => GrantedFor(caller[x].token, caller[x].conn)

(* A connection that is ready offers a code that GitHub has not redeemed,  *)
(* unless a caller is still at it: every end of an exchange takes the      *)
(* connection out of "ready".  Excepted are a process that dies or a store *)
(* that fails in between, and a callback delivered again later.            *)
SpentCodeIsNotOffered ==
  mishaps = {} =>
    \A s \in Stores, c \in Connections :
      LET r == stores[s][c]
      IN  r.status = "ready" /\ codes[r.code].state = "spent" =>
            \E x \in Callers : /\ caller[x].pc = "user"
                               /\ caller[x].conn = c
                               /\ caller[x].service.store = s
                               /\ caller[x].token = r.code

(* A connection that was deleted stays so, also when an exchange that had  *)
(* read it before writes it back.                                          *)
DeletedStaysDeleted ==
  [][\A s \in Stores, c \in Connections :
       opened[c] # "unused" /\ ~Holds(s, c) => ~Holds(s, c)']_vars

(* With the in-memory store a caller goes on with a token only if it leaves*)
(* that token in the connection: not when it was disconnected meanwhile.   *)
AuthorizedOnlyWhileConnected ==
  [][\A x \in Callers :
       /\ caller[x].pc # "authorized"
       /\ caller'[x].pc = "authorized"
       /\ caller[x].service.store # Database
       => LET r == stores'[caller[x].service.store][caller[x].conn]
          IN  r.status = "exchanged" /\ r.token = caller'[x].token]_vars

-----------------------------------------------------------------------------
(* What the repository says of the program, and the program does not do *)

(* tests/test_github_oauth.py:190-193: after a successful exchange the     *)
(* connection is exchanged and keeps the token, until it is disconnected.  *)
ExchangedTokenIsKept ==
  \A x \in Callers :
    LET s == caller[x].service.store
        c == caller[x].conn
    IN  caller[x].pc = "authorized" /\ Holds(s, c) =>
          stores[s][c].token # None
=============================================================================
