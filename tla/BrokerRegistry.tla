--------------------------- MODULE BrokerRegistry ---------------------------
(***************************************************************************)
(* BrokerManager's registry of adapters (services/broker/manager.py) and   *)
(* the rows of broker_connections it is kept in line with: the load at     *)
(* start-up, the requests that connect, disconnect and reconnect an        *)
(* account, and the job that every minute tries what is wanted and is not  *)
(* there, backing off, and drops what is there and is not wanted.          *)
(*                                                                         *)
(* `connected` of a row is what the user wants; an adapter in the registry *)
(* is what there is.  A request writes its row in a transaction of its own:*)
(* between the flush and the commit others read the old row and cannot     *)
(* write it.  Every await is a boundary between two actions.               *)
(***************************************************************************)
EXTENDS Naturals, FiniteSets

CONSTANTS
    Connections,   \* ids of broker_connections
    Requests,      \* requests served at the same time
    NoRequest,     \* nobody holds the write lock of a row
    MaxRequests,   \* bound: requests begun
    MaxBoots,      \* bound: starts of the process after the first
    MaxBackoff     \* the exponent at which the back-off stops growing (5 in the code)

\* The power is a natural because the exponent is; the proofs take it from here.
ASSUME RegistryAssumption ==
    /\ MaxRequests \in Nat /\ MaxBoots \in Nat /\ MaxBackoff \in Nat
    /\ 2^MaxBackoff \in Nat \ {0}
    /\ NoRequest \notin Requests /\ Connections # {}

VARIABLES
    wish,      \* the column `connected`, committed
    creds,     \* which credentials the row holds (encrypted_creds); 0: there is no row
    holder,    \* the request whose uncommitted UPDATE locks the row
    registry,  \* BrokerManager._adapters: the credentials each adapter was built with; 0: none
    failures,  \* BrokerManager._reconnect_failures, as far as the back-off tells them apart
    ticks,     \* BrokerManager._reconnect_ticks, modulo the longest back-off
    request,   \* each request: where it is, its connection, what it read, what it will store
    job,       \* reconcile_connections: where it is and what it read
    begun, boots   \* requests begun and restarts (bounded)

rowVars == <<wish, creds, holder>>
backoffVars == <<failures, ticks>>
registryVars == <<rowVars, registry, backoffVars, request, job, begun, boots>>

None == 0
Versions == 0..MaxRequests + 1
Idle == [at |-> "idle", on |-> CHOOSE c \in Connections : TRUE, seen |-> FALSE, with |-> None]
NoWish == [c \in Connections |-> None]
Resting == [at |-> "idle", wanted |-> NoWish, doomed |-> {}, todo |-> {}]
Booting == [Resting EXCEPT !.at = "loading"]

RegistryTypeOK ==
    /\ wish \in [Connections -> BOOLEAN] /\ creds \in [Connections -> Versions]
    /\ holder \in [Connections -> Requests \cup {NoRequest}]
    /\ registry \in [Connections -> Versions]
    /\ failures \in [Connections -> 0..MaxBackoff] /\ ticks \in 0..2^MaxBackoff - 1
    /\ request \in [Requests -> [at : {"idle", "connect", "reconnect", "disconnect", "building",
                                       "rebuilding", "ending", "connected", "reconnected"},
                                 on : Connections, seen : BOOLEAN, with : Versions]]
    /\ job \in [at : {"loading", "idle", "read", "visiting", "connecting"},
                wanted : [Connections -> Versions],
                doomed : SUBSET Connections, todo : SUBSET Connections]
    /\ begun \in 0..MaxRequests /\ boots \in 0..MaxBoots

RegistryInit ==
    /\ creds \in [Connections -> 0..1]
    /\ wish \in {w \in [Connections -> BOOLEAN] : \A c \in Connections : w[c] => creds[c] # None}
    /\ holder = [c \in Connections |-> NoRequest]
    /\ registry = NoWish /\ failures = [c \in Connections |-> 0] /\ ticks = 0
    /\ request = [r \in Requests |-> Idle]
    /\ job = Booting
    /\ begun = 0 /\ boots = 0

-----------------------------------------------------------------------------
(* The start of the process.  Nothing is served until load_from_db is done. *)

\* A row whose adapter does not come up keeps its wish: the job tries it again.
Load(up) ==
    /\ job.at = "loading"
    /\ registry' = [c \in Connections |-> IF c \in up THEN creds[c] ELSE None]
    /\ job' = Resting
    /\ UNCHANGED <<rowVars, backoffVars, request, begun, boots>>

\* The process dies: what was not committed is lost, and the new one loads the rows.
Reboot ==
    /\ boots < MaxBoots /\ job.at # "loading"
    /\ boots' = boots + 1
    /\ registry' = NoWish
    /\ failures' = [c \in Connections |-> 0] /\ ticks' = 0
    /\ holder' = [c \in Connections |-> NoRequest]
    /\ request' = [r \in Requests |-> Idle]
    /\ job' = Booting
    /\ UNCHANGED <<wish, creds, begun>>

-----------------------------------------------------------------------------
(* Requests.  `seen` is the column the request loaded: a row is written only *)
(* where its value differs from the one loaded.                             *)

Free(c, r) == holder[c] \in {r, NoRequest}

\* What an UPDATE that sets `connected` to the value w leaves in the row.
Written(r, w) == IF request[r].seen = w THEN wish[request[r].on] ELSE w

Serve(r, what, c) ==
    /\ job.at # "loading" /\ begun < MaxRequests /\ request[r].at = "idle"
    /\ begun' = begun + 1
    /\ request' = [request EXCEPT ![r] = [at |-> what, on |-> c, seen |-> wish[c],
                                          with |-> IF what = "connect" THEN begun + 2
                                                                       ELSE creds[c]]]
    /\ UNCHANGED <<rowVars, registry, backoffVars, job, boots>>

\* connect_broker: a row that another request is still creating has an id nobody else knows.
AskConnect(r, c) ==
    /\ \A q \in Requests : request[q].on = c /\ request[q].at # "idle" => creds[c] # None
    /\ Serve(r, "connect", c)

AskReconnect(r, c) == creds[c] # None /\ Serve(r, "reconnect", c)

AskDisconnect(r, c) == creds[c] # None /\ Serve(r, "disconnect", c)

Pop(c) == registry' = [registry EXCEPT ![c] = None]

At(r, where) == request' = [request EXCEPT ![r].at = where]

\* The UPDATE (connected = False) is flushed and the adapter that was there is taken out.
BeginConnect(r) ==
    LET c == request[r].on IN
    /\ request[r].at = "connect" /\ holder[c] = NoRequest
    /\ holder' = [holder EXCEPT ![c] = r]
    /\ Pop(c) /\ At(r, "building")
    /\ UNCHANGED <<wish, creds, backoffVars, job, begun, boots>>

BeginReconnect(r) ==
    /\ request[r].at = "reconnect"
    /\ Pop(request[r].on) /\ At(r, "rebuilding")
    /\ UNCHANGED <<rowVars, backoffVars, job, begun, boots>>

BeginDisconnect(r) ==
    /\ request[r].at = "disconnect"
    /\ Pop(request[r].on) /\ At(r, "ending")
    /\ UNCHANGED <<rowVars, backoffVars, job, begun, boots>>

Release(r) == [c \in Connections |-> IF holder[c] = r THEN NoRequest ELSE holder[c]]

Finish(r) == request' = [request EXCEPT ![r] = Idle]

\* _make_adapter refuses the request (a broker, an environment or a credential it has not): the
\* session rolls back, and the adapter that was there is gone.
Refuse(r) ==
    /\ request[r].at \in {"building", "rebuilding"}
    /\ holder' = Release(r) /\ Finish(r)
    /\ UNCHANGED <<wish, creds, registry, backoffVars, job, begun, boots>>

\* adapter.connect() answered; the commit makes the row the one the adapter was built from.
CommitConnect(r) ==
    LET c == request[r].on IN
    /\ request[r].at = "building"
    /\ wish' = [wish EXCEPT ![c] = TRUE]
    /\ creds' = [creds EXCEPT ![c] = request[r].with]
    /\ holder' = Release(r) /\ At(r, "connected")
    /\ UNCHANGED <<registry, backoffVars, job, begun, boots>>

FailConnect(r) ==
    LET c == request[r].on IN
    /\ request[r].at = "building"
    /\ wish' = [wish EXCEPT ![c] = Written(r, FALSE)]
    /\ creds' = [creds EXCEPT ![c] = request[r].with]
    /\ holder' = Release(r) /\ Finish(r)
    /\ UNCHANGED <<registry, backoffVars, job, begun, boots>>

CommitReconnect(r) ==
    LET c == request[r].on IN
    /\ request[r].at = "rebuilding" /\ Free(c, r)
    /\ wish' = [wish EXCEPT ![c] = Written(r, TRUE)]
    /\ At(r, "reconnected")
    /\ UNCHANGED <<creds, holder, registry, backoffVars, job, begun, boots>>

\* The venue does not answer: the row is written as if the user had asked for that.
FailReconnect(r) ==
    LET c == request[r].on IN
    /\ request[r].at = "rebuilding" /\ Free(c, r)
    /\ wish' = [wish EXCEPT ![c] = Written(r, FALSE)]
    /\ Finish(r)
    /\ UNCHANGED <<creds, holder, registry, backoffVars, job, begun, boots>>

\* The row was committed; the adapter is stored when the request goes on.
Store(r) ==
    /\ request[r].at \in {"connected", "reconnected"}
    /\ registry' = [registry EXCEPT ![request[r].on] = request[r].with]
    /\ Finish(r)
    /\ UNCHANGED <<rowVars, backoffVars, job, begun, boots>>

CommitDisconnect(r) ==
    LET c == request[r].on IN
    /\ request[r].at = "ending" /\ Free(c, r)
    /\ wish' = [wish EXCEPT ![c] = Written(r, FALSE)]
    /\ Finish(r)
    /\ UNCHANGED <<creds, holder, registry, backoffVars, job, begun, boots>>

-----------------------------------------------------------------------------
(* reconcile_connections.  One run at a time (the scheduler's rule). *)

ReadRows ==
    /\ job.at = "idle"
    /\ job' = [Resting EXCEPT !.at = "read",
                  !.wanted = [c \in Connections |-> IF wish[c] THEN creds[c] ELSE None]]
    /\ UNCHANGED <<rowVars, registry, backoffVars, request, begun, boots>>

Wanted == {c \in Connections : job.wanted[c] # None}

\* Mutant: a job that trusts that a disconnect took its adapter along.
UnwantedNever == {}

Unwanted == {c \in Connections : registry[c] # None /\ c \notin Wanted}

\* The keys to drop are listed once; each disconnect of an adapter is awaited.
ListUnwanted ==
    /\ job.at = "read"
    /\ job' = [job EXCEPT !.at = "visiting", !.doomed = Unwanted, !.todo = Wanted]
    /\ UNCHANGED <<rowVars, registry, backoffVars, request, begun, boots>>

Drop(c) ==
    /\ job.at = "visiting" /\ c \in job.doomed
    /\ Pop(c)
    /\ job' = [job EXCEPT !.doomed = @ \ {c}]
    /\ UNCHANGED <<rowVars, backoffVars, request, begun, boots>>

BacksOff(c) == failures[c] > 0 /\ ticks % 2^failures[c] # 0

Passed(c) == registry[c] # None \/ BacksOff(c)

\* Connections that need nothing are passed without an await.
TryConnect(c, passed) ==
    /\ job.at = "visiting" /\ job.doomed = {}
    /\ c \in job.todo \ passed /\ ~Passed(c)
    /\ passed \subseteq {d \in job.todo : Passed(d)}
    /\ job' = [job EXCEPT !.at = "connecting", !.todo = job.todo \ passed, !.doomed = {c}]
    /\ UNCHANGED <<rowVars, registry, backoffVars, request, begun, boots>>

Connected(c) ==
    /\ job.at = "connecting" /\ c \in job.doomed
    /\ registry' = [registry EXCEPT ![c] = job.wanted[c]]
    /\ failures' = [failures EXCEPT ![c] = 0]
    /\ job' = [job EXCEPT !.at = "visiting", !.todo = @ \ {c}, !.doomed = {}]
    /\ UNCHANGED <<rowVars, ticks, request, begun, boots>>

Unreachable(c) ==
    /\ job.at = "connecting" /\ c \in job.doomed
    /\ failures' = [failures EXCEPT ![c] = IF @ < MaxBackoff THEN @ + 1 ELSE @]
    /\ job' = [job EXCEPT !.at = "visiting", !.todo = @ \ {c}, !.doomed = {}]
    /\ UNCHANGED <<rowVars, registry, ticks, request, begun, boots>>

EndJob ==
    /\ job.at = "visiting" /\ job.doomed = {} /\ \A c \in job.todo : Passed(c)
    /\ ticks' = (ticks + 1) % 2^MaxBackoff
    /\ job' = Resting
    /\ UNCHANGED <<rowVars, registry, failures, request, begun, boots>>

-----------------------------------------------------------------------------
RequestStep(r) ==
    \/ BeginConnect(r) \/ BeginReconnect(r) \/ BeginDisconnect(r) \/ Refuse(r)
    \/ CommitConnect(r) \/ FailConnect(r) \/ CommitReconnect(r) \/ FailReconnect(r)
    \/ Store(r) \/ CommitDisconnect(r)

JobStep ==
    \/ ReadRows \/ ListUnwanted \/ EndJob
    \/ \E c \in Connections : Drop(c) \/ Connected(c) \/ Unreachable(c)
    \/ \E c \in Connections, passed \in SUBSET Connections : TryConnect(c, passed)

LoadSome == \E up \in SUBSET {c \in Connections : wish[c]} : Load(up)

RegistryNext ==
    \/ LoadSome
    \/ Reboot
    \/ \E r \in Requests, c \in Connections :
           AskConnect(r, c) \/ AskReconnect(r, c) \/ AskDisconnect(r, c)
    \/ \E r \in Requests : RequestStep(r)
    \/ JobStep

RegistrySpec == RegistryInit /\ [][RegistryNext]_registryVars

\* The job goes on, a request in progress goes on, and a venue that is tried again and again answers.
RegistryFairness ==
    /\ WF_registryVars(LoadSome \/ JobStep)
    /\ WF_registryVars(\E r \in Requests : RequestStep(r))
    /\ \A c \in Connections : SF_registryVars(Connected(c))

RegistryFairSpec == RegistrySpec /\ RegistryFairness

-----------------------------------------------------------------------------
\* Once no request changes what is wanted, the registry comes to hold an adapter for each connection
\* that is wanted and for no other, and keeps to that: whatever failed, raced or was stored late.
RegistryFollowsWishes ==
    <>[](\A c \in Connections : (registry[c] # None) <=> wish[c])

\* What the user wants is changed by a request alone: neither a start that finds the venue down nor the
\* job, however often it fails, gives a connection up.
OnlyRequestsChangeWishes ==
    [][\A c \in Connections : wish'[c] # wish[c] => \E r \in Requests : request'[r] # request[r]]_registryVars

\* A connection that was wanted and stops being so was disconnected, or was set up anew, by the user.
WishesSurviveFailures ==
    [][\A c \in Connections : wish[c] /\ ~wish'[c] =>
          \E r \in Requests : request[r].at \in {"ending", "building"} /\ request'[r] # request[r]]_registryVars
=============================================================================
