------------------------------- MODULE CftBridge -------------------------------
(***************************************************************************)
(* deploy/cft-bridge/bridge.py: one logged-in browser that answers HTTP    *)
(* for the account at Crypto Fund Trader, and its clients, the transport   *)
(* and the adapter of the backend.  Calls are serialised by a lock; a dead *)
(* page or an expired token costs a new login and a second attempt.        *)
(***************************************************************************)
EXTENDS Naturals, FiniteSets

CONSTANTS
  Callers,     \* HTTP requests that may be in the bridge at one time
  MaxBridgeCalls, MaxExpiries   \* bounds

ASSUME BridgeAssumption == IsFiniteSet(Callers) /\ {MaxBridgeCalls, MaxExpiries} \subseteq Nat

VARIABLES
  trading,   \* BRIDGE_ALLOW_TRADING
  token,     \* the session's: "none", "live", or "expired" (still held)
  page,      \* whether the browser's page is alive
  bridgeLock,    \* caller that holds CFTSession._lock, or Nobody
  call,      \* per caller: [at, kind, refreshed, reached]
  adapter,   \* CFTBridgeAdapter.connected and what connect() waits for
  made, expiries,
  landed     \* history: write calls that reached the venue while trading was off

bridgeVars == <<trading, token, page, bridgeLock, call, adapter, made, expiries, landed>>

Nobody == "nobody"
\* What a request asks: GET of data, POST of quotes, POST of an order, GET of an
\* order path, the operator's /reconnect.
BridgeRequests == {"read", "quotes", "order", "order_get", "reconnect"}
NoBridgeCall == [at |-> "idle", kind |-> "none", refreshed |-> 0, reached |-> 0]
Stages == {"idle", "waiting", "ensure", "fetch", "retry", "failed", "answered", "blocked"}

BridgeTypeOK ==
  /\ token \in {"none", "live", "expired"} /\ page \in BOOLEAN /\ trading \in BOOLEAN
  /\ bridgeLock \in Callers \union {Nobody}
  /\ \A c \in Callers : /\ call[c].at \in Stages /\ call[c].kind \in BridgeRequests \union {"none"}
                        /\ call[c].refreshed \in 0..2 /\ call[c].reached \in 0..3
  /\ adapter \in {"down", "asking", "reading", "connected"}

BridgeInit ==
  /\ trading \in BOOLEAN
  /\ token = "none" /\ page = FALSE /\ bridgeLock = Nobody
  /\ call = [c \in Callers |-> NoBridgeCall] /\ adapter = "down"
  /\ made = 0 /\ expiries = 0 /\ landed = FALSE

MovesMoney(kind) == kind \in {"order", "order_get"}

\* is_write_request: any method but GET, and any method on an order path.
IsWriteRequest(kind) == kind \in {"order", "order_get", "quotes"}

Turn(c, at) == call' = [call EXCEPT ![c].at = at]

\* handle_call and handle_reconnect: an unauthorised or malformed request is
\* turned away unseen, a write is refused before it reaches the browser.
Arrive(c, kind) ==
  /\ call[c].at = "idle" /\ made < MaxBridgeCalls
  /\ made' = made + 1
  /\ call' = [call EXCEPT ![c] = [NoBridgeCall EXCEPT !.kind = kind,
       !.at = IF IsWriteRequest(kind) /\ ~trading THEN "blocked" ELSE "waiting"]]
  /\ UNCHANGED <<trading, token, page, bridgeLock, adapter, expiries, landed>>

TakeLock(c) ==
  /\ call[c].at = "waiting" /\ bridgeLock = Nobody
  /\ bridgeLock' = c
  /\ Turn(c, "ensure")
  /\ UNCHANGED <<trading, token, page, adapter, made, expiries, landed>>

\* Mutant: a failed login leaves the lock where it is.
KeepLock(c) == UNCHANGED bridgeLock

\* async with self._lock: left on every path.
FreeLock(c) == bridgeLock' = Nobody

\* _ensure: nothing to do with a token of bearable age, else tear down and log
\* in; SESSION_MAX_AGE_S may have passed.  Forced for /reconnect.
Ensure(c) ==
  /\ call[c].at = "ensure"
  /\ \/ /\ token # "none" /\ call[c].kind # "reconnect"
        /\ Turn(c, "fetch") /\ UNCHANGED <<token, page, bridgeLock>>
     \/ /\ token' = "live" /\ page' = TRUE                        \* _login
        /\ IF call[c].kind = "reconnect" THEN Turn(c, "answered") /\ FreeLock(c)
           ELSE Turn(c, "fetch") /\ UNCHANGED bridgeLock
     \/ /\ token' = "none" /\ page' = FALSE                       \* _login raises
        /\ Turn(c, "failed") /\ FreeLock(c)
  /\ UNCHANGED <<trading, adapter, made, expiries, landed>>

\* _fetch answers: the request reached the venue.
FetchAnswers(c) ==
  /\ call[c].at = "fetch" /\ page /\ token = "live"
  /\ call' = [call EXCEPT ![c].reached = @ + 1, ![c].at = "answered"]
  /\ landed' = (landed \/ (MovesMoney(call[c].kind) /\ ~trading))
  /\ FreeLock(c)
  /\ UNCHANGED <<trading, token, page, adapter, made, expiries>>

\* 401 or 403: one forced login and one more attempt, whose answer stands.
FetchUnauthorised(c) ==
  /\ call[c].at = "fetch" /\ page /\ token = "expired"
  /\ IF call[c].refreshed < 2 THEN Turn(c, "retry") /\ UNCHANGED bridgeLock
     ELSE Turn(c, "answered") /\ FreeLock(c)
  /\ UNCHANGED <<trading, token, page, adapter, made, expiries, landed>>

\* The page dies under the request, before it left or after: once, the session
\* is established anew and the request made again; then the caller gets a 502.
FetchRaises(c) ==
  /\ call[c].at = "fetch"
  /\ \E left \in {FALSE} \union (IF page /\ token = "live" THEN {TRUE} ELSE {}) :
       LET r == call[c].reached + (IF left THEN 1 ELSE 0)
           at == IF call[c].refreshed = 0 THEN "retry" ELSE "failed"
       IN  /\ call' = [call EXCEPT ![c].reached = r, ![c].at = at]
           /\ landed' = (landed \/ (left /\ MovesMoney(call[c].kind) /\ ~trading))
           /\ IF at = "failed" THEN FreeLock(c) ELSE UNCHANGED bridgeLock
  /\ page' = FALSE
  /\ UNCHANGED <<trading, token, adapter, made, expiries>>

\* _ensure(force=True), then the request again.
Relogin(c) ==
  /\ call[c].at = "retry"
  /\ \/ /\ token' = "live" /\ page' = TRUE /\ UNCHANGED bridgeLock
        /\ call' = [call EXCEPT ![c].at = "fetch", ![c].refreshed = @ + 1]
     \/ /\ token' = "none" /\ page' = FALSE /\ Turn(c, "failed") /\ FreeLock(c)
  /\ UNCHANGED <<trading, adapter, made, expiries, landed>>

\* The response is read by the transport, or nobody waits for it any more.
Leave(c) ==
  /\ call[c].at \in {"failed", "answered", "blocked"}
  /\ call' = [call EXCEPT ![c] = NoBridgeCall]
  /\ UNCHANGED <<trading, token, page, bridgeLock, adapter, made, expiries, landed>>

\* The venue ends the session, or the browser crashes.
SessionExpires ==
  /\ expiries < MaxExpiries /\ expiries' = expiries + 1
  /\ \/ token = "live" /\ token' = "expired" /\ UNCHANGED page
     \/ page /\ page' = FALSE /\ UNCHANGED token
  /\ UNCHANGED <<trading, bridgeLock, call, adapter, made, landed>>

\* CFTBridgeAdapter.connect: adopt the session, or have one made, then read the
\* balance; any failure leaves the adapter down.
AdapterConnects ==
  /\ \/ adapter = "down" /\ adapter' = (IF token = "none" THEN "asking" ELSE "reading")
     \/ adapter = "asking" /\ adapter' = (IF token = "none" THEN "down" ELSE "reading")
     \/ adapter = "reading" /\ adapter' = (IF token = "live" /\ page THEN "connected" ELSE "down")
  /\ UNCHANGED <<trading, token, page, bridgeLock, call, made, expiries, landed>>

AdapterDisconnects ==
  /\ adapter = "connected" /\ adapter' = "down"
  /\ UNCHANGED <<trading, token, page, bridgeLock, call, made, expiries, landed>>

Work(c) == TakeLock(c) \/ Ensure(c) \/ FetchAnswers(c) \/ FetchUnauthorised(c) \/ FetchRaises(c)
           \/ Relogin(c) \/ Leave(c)
BridgeNext ==
  \/ SessionExpires \/ AdapterConnects \/ AdapterDisconnects
  \/ \E c \in Callers : Work(c) \/ \E kind \in BridgeRequests : Arrive(c, kind)

BridgeSpec == BridgeInit /\ [][BridgeNext]_bridgeVars
\* Every await of the bridge has a timeout or an end: what is in it goes on.
BridgeFairness == WF_bridgeVars(\E c \in Callers : Work(c))

BridgeFairSpec == BridgeSpec /\ BridgeFairness

(***************************************************************************)
(* Properties.                                                             *)
(***************************************************************************)
\* Nothing that moves money reaches the venue unless this process allows it,
\* whatever its clients believe and whatever method they use.
NoWriteUnlessAllowed == ~landed

\* Once no more requests come each of them has been answered: no failed login or dead page keeps the
\* lock from the calls behind it, and no retry goes on for ever.
CallsEnd == <>[](\A c \in Callers : call[c].at = "idle")

===============================================================================
