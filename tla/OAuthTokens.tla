---------------------------- MODULE OAuthTokens ----------------------------
(* The OpenAI logins of the terminal UI and the tokens they leave in the vault
   (argos-tui/src/services.rs): the device login, which polls until the user
   has approved it elsewhere; the Codex login, which waits for the browser on a
   fixed port; and the requests that take a bearer from the vault and refresh
   it when it is about to expire.  Requests and logins are tasks of one program
   or of several, and share the vault, the port and the authorization server
   with no lock. *)
EXTENDS Integers, FiniteSets

CONSTANTS
  Requests,    \* prompts, model fetches, health checks
  Logins,
  Rotates,     \* TRUE: the server gives a new refresh token with every refresh
  SKEW,        \* OAUTH_REFRESH_SKEW_SECONDS
  TIMEOUT,     \* OAUTH_POLL_TIMEOUT_SECONDS, and the wait for the browser
  Interval,    \* seconds between two polls
  Life,        \* seconds an access token is good for
  MaxDelay,    \* bound: how long an answer of the token endpoint travels
  MaxTime      \* bound: the seconds that are looked at

ASSUME TimeAssumption ==
  /\ {SKEW, TIMEOUT, Interval, Life, MaxDelay, MaxTime} \subseteq Nat
  /\ Interval > 0 /\ MaxDelay <= SKEW /\ MaxDelay < Life
ASSUME LoginAssumption == "nobody" \notin Logins /\ Rotates \in BOOLEAN

VARIABLES
  now,
  vault,     \* per reference, the token stored: at most one
  api_key,   \* the login whose API key is at CODEX_API_KEY_REF
  grant,     \* the server: per login, the generation of its live refresh token
  approved,  \* the users: per login, when it was approved
  req, login,
  last,      \* history: per reference, the login that stored its token last
  mishaps    \* history: per reference, what came between server and vault

server == <<grant, approved>>
history == <<last, mishaps>>
tokenVars == <<now, vault, api_key, server, req, login, history>>

Refs == {"openai", "codex"}
Never == 0 - 1

(* A token: whose login it comes from, the generation of its refresh token, when
   the client takes it to expire, and when it does. *)
Token == [login : Logins, gen : Nat, expires : Nat, real : Nat]
(* left: the seconds a bearer was still good for when it was handed out. *)
Request == [pc : {"idle", "key", "token", "refresh", "answered", "bearer", "failed"}, ref : Refs,
            token : SUBSET Token, bearer : {"nobody"} \cup Logins, left : Int]
NoRequest == [pc |-> "idle", ref |-> "openai", token |-> {}, bearer |-> "nobody", left |-> 0]
Login == [pc : {"idle", "loop", "sleep", "slow", "wait", "exchange", "answered", "key", "key.", "done", "keyed", "timed out", "failed"},
          ref : Refs, token : SUBSET Token, deadline : Nat, wake : Nat]
NoLogin == [pc |-> "idle", ref |-> "openai", token |-> {}, deadline |-> 0, wake |-> 0]

TokensInit ==
  /\ now = 0 /\ vault = [ref \in Refs |-> {}] /\ api_key = "nobody"
  /\ grant = [l \in Logins |-> 0] /\ approved = [l \in Logins |-> Never]
  /\ req = [r \in Requests |-> NoRequest] /\ login = [l \in Logins |-> NoLogin]
  /\ last = [ref \in Refs |-> "nobody"] /\ mishaps = [ref \in Refs |-> {}]

-----------------------------------------------------------------------------
(* Tokens: token_from_response sets the expiry when the answer is read; a
   server that keeps its refresh tokens sends none with a refresh, and the old
   one is kept. *)
issued(l, g) == [login |-> l, gen |-> g, expires |-> 0, real |-> now + Life]
token_from_response(t) == [t EXCEPT !.expires = now + Life]
(* Defect: a token is refreshed only once it has expired. *)
token_has_expired(t) == t.expires <= now
oauth_token_needs_refresh(t) == t.expires <= now + SKEW

RefreshingOther(ref, l) ==
  \E r \in Requests : req[r].ref = ref /\ req[r].pc \in {"refresh", "answered"} /\ \A t \in req[r].token : t.login # l

-----------------------------------------------------------------------------
(* A request: provider_bearer_token, or the same match in fetch_models. *)
REnd(r) == req' = [req EXCEPT ![r] = [NoRequest EXCEPT !.pc = "failed"]]
Hand(r, l, left) == req' = [req EXCEPT ![r] = [NoRequest EXCEPT !.pc = "bearer", !.bearer = l, !.left = left]]

Ask(r, ref) ==
  /\ req[r].pc = "idle"
  /\ req' = [req EXCEPT ![r].pc = IF ref = "codex" THEN "key" ELSE "token", ![r].ref = ref]
  /\ UNCHANGED <<now, vault, api_key, server, login, history>>

(* Codex: the API key comes first; the token, if the key is not there or the
   vault fails. *)
ReadKey(r) ==
  /\ req[r].pc = "key"
  /\ \/ api_key # "nobody" /\ Hand(r, api_key, Life)
     \/ req' = [req EXCEPT ![r].pc = "token"]
  /\ UNCHANGED <<now, vault, api_key, server, login, history>>

retrieve_openai_oauth_bearer(r) ==
  /\ req[r].pc = "token"
  /\ \/ vault[req[r].ref] = {} /\ REnd(r)
     \/ \E t \in vault[req[r].ref] :
          IF oauth_token_needs_refresh(t) THEN req' = [req EXCEPT ![r].pc = "refresh", ![r].token = {t}]
                                          ELSE Hand(r, t.login, t.real - now)
  /\ UNCHANGED <<now, vault, api_key, server, login, history>>

(* The server: a live refresh token is answered, and is live no more if the
   server rotates them; another is refused. *)
Refresh(r) ==
  /\ req[r].pc = "refresh"
  /\ \E t \in req[r].token :
       IF grant[t.login] = t.gen
       THEN LET g == IF Rotates THEN t.gen + 1 ELSE t.gen IN
            /\ grant' = [grant EXCEPT ![t.login] = g]
            /\ req' = [req EXCEPT ![r].pc = "answered", ![r].token = {issued(t.login, g)}]
       ELSE REnd(r) /\ UNCHANGED grant
  /\ UNCHANGED <<now, vault, api_key, approved, login, history>>

(* Defect: the refreshed token is used and not stored. *)
UseRefreshed(r) ==
  /\ req[r].pc = "answered"
  /\ \E t \in req[r].token : Hand(r, t.login, t.real - now)
  /\ UNCHANGED <<now, vault, api_key, server, login, history>>
StoreRefreshed(r) ==
  /\ req[r].pc = "answered"
  /\ \E t \in req[r].token :
       /\ vault' = [vault EXCEPT ![req[r].ref] = {token_from_response(t)}]
       /\ Hand(r, t.login, t.real - now)
  /\ UNCHANGED <<now, api_key, server, login, history>>

(* The answer is lost or cannot be read, the vault refuses the token, or the
   program ends first. *)
DropRefreshed(r) ==
  /\ req[r].pc = "answered" /\ REnd(r)
  /\ mishaps' = [mishaps EXCEPT ![req[r].ref] = @ \cup {"dropped"}]
  /\ UNCHANGED <<now, vault, api_key, server, login, last>>

-----------------------------------------------------------------------------
(* A login. *)
Over == {"done", "keyed", "timed out", "failed"}
LGo(l, pc) == login' = [login EXCEPT ![l].pc = pc, ![l].wake = 0, ![l].token = {}]
LoginAt(l, ref, pc) == login[l].ref = ref /\ login[l].pc = pc
Running == {l \in Logins : login[l].pc \notin {"idle"} \cup Over}
EndsInView == now + TIMEOUT + Interval <= MaxTime

(* start_openai_oauth_login: the user has a code to type in. *)
StartDevice(l) ==
  /\ login[l].pc = "idle" /\ EndsInView
  /\ login' = [login EXCEPT ![l].pc = "loop", ![l].deadline = now + TIMEOUT]
  /\ UNCHANGED <<now, vault, api_key, server, req, history>>

Approve(l) ==
  /\ login[l].ref = "openai" /\ login[l].pc \in {"loop", "sleep", "slow"} /\ approved[l] = Never /\ now < login[l].deadline
  /\ approved' = [approved EXCEPT ![l] = now]
  /\ UNCHANGED <<now, vault, api_key, grant, req, login, history>>

Sleep(l, pc) == login' = [login EXCEPT ![l].pc = pc, ![l].wake = now + Interval]

(* Defect: no poll is begun if being told to slow down would end it too late. *)
PollLoopShort(l) ==
  /\ login[l].pc = "loop"
  /\ IF now + 2 * Interval < login[l].deadline THEN Sleep(l, "sleep") ELSE LGo(l, "timed out")
  /\ UNCHANGED <<now, vault, api_key, server, req, history>>
PollLoop(l) ==
  /\ login[l].pc = "loop"
  /\ IF now < login[l].deadline THEN Sleep(l, "sleep") ELSE LGo(l, "timed out")
  /\ UNCHANGED <<now, vault, api_key, server, req, history>>

poll_device_authorization(l) ==
  /\ login[l].pc = "sleep" /\ now >= login[l].wake
  /\ IF approved[l] # Never THEN LGo(l, "exchange") ELSE LGo(l, "loop") \/ Sleep(l, "slow")
  /\ UNCHANGED <<now, vault, api_key, server, req, history>>

EndSlowDown(l) ==
  /\ login[l].pc = "slow" /\ now >= login[l].wake /\ LGo(l, "loop")
  /\ UNCHANGED <<now, vault, api_key, server, req, history>>

(* Defect: the port is free again once the browser has come back. *)
PortWaitedAt == \E l \in Logins : LoginAt(l, "codex", "wait")
(* start_codex_login holds the port from bind to its end. *)
PortTaken == \E l \in Logins : login[l].ref = "codex" /\ l \in Running
StartCodex(l) ==
  /\ login[l].pc = "idle" /\ EndsInView
  /\ login' = [login EXCEPT ![l] = [NoLogin EXCEPT !.pc = IF PortTaken THEN "failed" ELSE "wait", !.ref = "codex",
                                                     !.deadline = IF PortTaken THEN 0 ELSE now + TIMEOUT]]
  /\ UNCHANGED <<now, vault, api_key, server, req, history>>

(* The browser comes back from the page that login k opened, to whichever login
   listens by then; the state it brings is that of k. *)
Callback(k) ==
  /\ login[k].ref = "codex" /\ login[k].deadline > 0 /\ approved[k] = Never
  /\ approved' = [approved EXCEPT ![k] = 0]
  /\ \/ \E l \in Logins : LoginAt(l, "codex", "wait") /\ LGo(l, IF l = k THEN "exchange" ELSE "failed")
     \/ (\A l \in Logins : ~LoginAt(l, "codex", "wait")) /\ UNCHANGED login
  /\ UNCHANGED <<now, vault, api_key, grant, req, history>>

TimeOut(l) ==
  /\ login[l].pc = "wait" /\ now >= login[l].deadline /\ LGo(l, "timed out")
  /\ UNCHANGED <<now, vault, api_key, server, req, history>>

Exchange(l) ==
  /\ login[l].pc = "exchange"
  /\ grant' = [grant EXCEPT ![l] = 1]
  /\ login' = [login EXCEPT ![l].pc = "answered", ![l].token = {issued(l, 1)}]
  /\ UNCHANGED <<now, vault, api_key, approved, req, history>>

(* The token of a login goes where its kind keeps it. *)
StoreToken(l) ==
  LET ref == login[l].ref IN
  /\ login[l].pc = "answered"
  /\ vault' = [vault EXCEPT ![ref] = {token_from_response(t) : t \in login[l].token}]
  /\ last' = [last EXCEPT ![ref] = l]
  /\ mishaps' = IF RefreshingOther(ref, l) THEN [mishaps EXCEPT ![ref] = @ \cup {"overtaken"}] ELSE mishaps
  /\ LGo(l, IF ref = "codex" THEN "key" ELSE "done")
  /\ UNCHANGED <<now, api_key, server, req>>

(* Codex: the id token is exchanged for an API key; if the account has none to
   give, the login is done without. *)
ExchangeKey(l) ==
  /\ login[l].pc = "key" /\ (LGo(l, "key.") \/ LGo(l, "done"))
  /\ UNCHANGED <<now, vault, api_key, server, req, history>>
StoreKey(l) ==
  /\ login[l].pc = "key." /\ api_key' = l /\ LGo(l, "keyed")
  /\ UNCHANGED <<now, vault, server, req, history>>

(* Every call may fail, the user may refuse, somebody else may knock at the
   port, and the program may end. *)
Fail(l) ==
  /\ l \in Running \ {x \in Logins : login[x].pc = "loop"} /\ LGo(l, "failed")
  /\ UNCHANGED <<now, vault, api_key, server, req, history>>
FailRequest(r) ==
  /\ req[r].pc \in {"token", "refresh"} /\ REnd(r)
  /\ UNCHANGED <<now, vault, api_key, server, login, history>>

-----------------------------------------------------------------------------
(* Time passes while nothing is due: no sleeper oversleeps, a poll takes no
   time, and no answer travels longer than MaxDelay. *)
Travels(tokens) == \A t \in tokens : now < t.real - Life + MaxDelay
Tick ==
  /\ now < MaxTime /\ now' = now + 1
  /\ \A l \in Logins : login[l].pc # "loop" /\ (login[l].pc \in {"sleep", "slow"} => now < login[l].wake)
  /\ \A l \in Logins : login[l].pc = "answered" => Travels(login[l].token)
  /\ \A r \in Requests : req[r].pc = "answered" => Travels(req[r].token)
  /\ UNCHANGED <<vault, api_key, server, req, login, history>>

RequestStep(r) == ReadKey(r) \/ retrieve_openai_oauth_bearer(r) \/ Refresh(r) \/ StoreRefreshed(r)
LoginStep(l) ==
  \/ PollLoop(l) \/ poll_device_authorization(l) \/ EndSlowDown(l) \/ TimeOut(l)
  \/ Exchange(l) \/ StoreToken(l) \/ ExchangeKey(l) \/ StoreKey(l)
TokensNext ==
  \/ Tick
  \/ \E r \in Requests : (\E ref \in Refs : Ask(r, ref)) \/ RequestStep(r) \/ DropRefreshed(r) \/ FailRequest(r)
  \/ \E l \in Logins : StartDevice(l) \/ StartCodex(l) \/ Approve(l) \/ Callback(l) \/ LoginStep(l) \/ Fail(l)

TokensSpec == TokensInit /\ [][TokensNext]_tokenVars

-----------------------------------------------------------------------------
(* Requests that refresh one token at once cost each other an error, never the
   token (services.rs:845): what the vault holds can be refreshed, even if the
   server takes each refresh token once, unless an answer never reached the
   vault or is still on its way. *)
StoredTokenIsLive ==
  \A ref \in Refs : \A t \in vault[ref] :
    \/ t.gen = grant[t.login]
    \/ Rotates /\ ("dropped" \in mishaps[ref] \/ \E r \in Requests : req[r].ref = ref /\ req[r].pc = "answered")

(* A login is not undone (services.rs:739 and 1265): the vault holds the token
   of the login that stored last, unless an older token was being refreshed as
   it did: that answer is stored over it. *)
VaultHoldsTheLastLogin ==
  \A ref \in Refs : "overtaken" \in mishaps[ref] \/ {t.login : t \in vault[ref]} = {last[ref]} \ {"nobody"}

(* Logins to Codex do not mix (services.rs:1151): when the one that stored its
   token last also got an API key, the key that requests prefer is its own. *)
KeyAndTokenAgree == \A l \in Logins : last["codex"] = l /\ login[l].pc = "keyed" => api_key = l

(* What the vault holds for an account is of one login. *)
AccountsKeepApart == VaultHoldsTheLastLogin /\ KeyAndTokenAgree

(* A token that is handed out is good then, though its expiry is counted from
   the arrival of the answer and not from its dispatch (services.rs:841, 901). *)
BearerIsGood == \A r \in Requests : req[r].pc = "bearer" => req[r].left > 0

(* An approval in time is not missed (services.rs:728): a device login that
   timed out was approved, if ever, in the last interval before its deadline,
   however often it was told to slow down. *)
ApprovalIsSeen ==
  \A l \in Logins : LoginAt(l, "openai", "timed out") /\ approved[l] # Never => approved[l] + Interval >= login[l].deadline
=============================================================================
