------------------------------- MODULE WsChannel -------------------------------
(***************************************************************************)
(* The stream to the browser: services/ws/manager.py with its tickets, the *)
(* endpoint /ws, and the client frontend/src/services/ws.ts of one page.   *)
(* Three messages stand for the vocabulary: a price tick, an event that    *)
(* must not be lost, and the full list of positions, which is the book     *)
(* (1: a position is open, 0: none) and is always authoritative.           *)
(***************************************************************************)
EXTENDS Naturals, Sequences, FiniteSets

CONSTANTS
  Sockets,     \* sockets the page may make, in order: 1..n
  MaxQueue,    \* MAX_QUEUE_SIZE
  MaxMoves,    \* bound on the changes of the book
  MaxDrops,    \* bound on connections lost and tickets refused
  MaxMounts,   \* how often the page's root mounts (React's strict mode: twice)
  MaxEvents    \* bound on the events and on the ticks that pass the rate limit

ASSUME WsAssumption ==
  /\ Sockets \in SUBSET Nat /\ IsFiniteSet(Sockets) /\ MaxQueue \in Nat \ {0}
  /\ {MaxMoves, MaxDrops, MaxMounts, MaxEvents} \subseteq Nat

VARIABLES
  \* server
  peer,       \* per socket: "new", "listed", "deaf" (its sends failed), "gone"
  queue,      \* WSConnection.queue
  pinging,    \* _ping_task is alive
  book, moves, events,
  gotEvents,  \* history: per socket, events enqueued and not yet delivered or lost
  \* page
  mounted, intentional, fetching, timer, socket, live, rest, panel, drops, mounts

wsServerVars == <<peer, queue, pinging, book, moves, events, gotEvents>>
wsPageVars == <<mounted, intentional, fetching, timer, socket, live, rest, panel, drops, mounts>>
wsVars == <<wsServerVars, wsPageVars>>

NoSocket == 0
BookValues == {0, 1}  \* a list of positions: none, or one
NoAnswer == 2
PriceTick == 3
AlertEvent == 4
PageSockets == {"unused", "dialling", "open", "closed"}

WsTypeOK ==
  /\ peer \in [Sockets -> {"new", "listed", "deaf", "gone"}]
  /\ \A s \in Sockets : Len(queue[s]) <= MaxQueue
  /\ pinging \in BOOLEAN /\ book \in BookValues /\ panel \in BookValues
  /\ moves \in 0..MaxMoves /\ events \in 0..MaxEvents /\ drops \in 0..MaxDrops
  /\ gotEvents \in [Sockets -> 0..MaxEvents]
  /\ mounted \in BOOLEAN /\ intentional \in BOOLEAN /\ timer \in BOOLEAN
  /\ fetching \in 0..Cardinality(Sockets)
  /\ socket \in Sockets \union {NoSocket}
  /\ live \in [Sockets -> PageSockets]
  /\ rest \in [asked : BOOLEAN, answer : BookValues \union {NoAnswer}]

WsInit ==
  /\ peer = [s \in Sockets |-> "new"] /\ queue = [s \in Sockets |-> <<>>]
  /\ pinging = FALSE /\ book = 0 /\ moves = 0 /\ events = 0
  /\ gotEvents = [s \in Sockets |-> 0]
  /\ mounted = FALSE /\ intentional = FALSE /\ fetching = 0 /\ timer = FALSE
  /\ socket = NoSocket /\ live = [s \in Sockets |-> "unused"]
  /\ rest = [asked |-> FALSE, answer |-> NoAnswer] /\ panel = 0 /\ drops = 0 /\ mounts = 0

OpenSockets == {s \in Sockets : live[s] = "open"}
Listed == {s \in Sockets : peer[s] # "new" /\ peer[s] # "gone"}

(***************************************************************************)
(* Server: broadcast.                                                      *)
(***************************************************************************)
\* Mutant: the queue has no bound.
NeverFull(s) == FALSE

QueueFull(s) == Len(queue[s]) = MaxQueue
Hears(s) == peer[s] = "listed"

\* A message that is no price: a full queue loses the client, not the message.
Publish(m) ==
  /\ queue' = [s \in Sockets |-> IF Hears(s) /\ ~QueueFull(s) THEN Append(queue[s], m) ELSE queue[s]]
  /\ peer' = [s \in Sockets |-> IF Hears(s) /\ QueueFull(s) THEN "deaf" ELSE peer[s]]

\* _push_state at the end of every pass of the loop.
PushBook == Publish(book) /\ UNCHANGED <<pinging, book, moves, events, gotEvents, wsPageVars>>

PushEvent ==
  /\ events < MaxEvents /\ events' = events + 1
  /\ Publish(AlertEvent)
  /\ gotEvents' = [s \in Sockets |-> IF Hears(s) /\ ~QueueFull(s) THEN gotEvents[s] + 1 ELSE gotEvents[s]]
  /\ UNCHANGED <<pinging, book, moves, wsPageVars>>

\* A tick that passes the rate limit; on a full queue the head makes room.
PushTick ==
  /\ events < MaxEvents /\ events' = events + 1
  /\ queue' = [s \in Sockets |->
       IF ~Hears(s) THEN queue[s]
       ELSE Append(IF QueueFull(s) THEN Tail(queue[s]) ELSE queue[s], PriceTick)]
  /\ UNCHANGED <<peer, pinging, book, moves, gotEvents, wsPageVars>>

BookMoves == /\ moves < MaxMoves /\ moves' = moves + 1 /\ book' = 1 - book
             /\ UNCHANGED <<peer, queue, pinging, events, gotEvents, wsPageVars>>

\* disconnect: out of the list, and the heartbeat stops with the last one.
Unlist(s) ==
  /\ peer' = [peer EXCEPT ![s] = "gone"] /\ queue' = [queue EXCEPT ![s] = <<>>]
  /\ pinging' = (pinging /\ Listed \ {s} # {})

(***************************************************************************)
(* Page: connecting.                                                       *)
(***************************************************************************)
Mount ==
  /\ ~mounted /\ mounts < MaxMounts /\ mounts' = mounts + 1
  /\ mounted' = TRUE
  /\ \/ socket \in OpenSockets /\ UNCHANGED <<intentional, fetching>>
     \/ socket \notin OpenSockets /\ fetching < Cardinality(Sockets)
        /\ intentional' = FALSE /\ fetching' = fetching + 1
  /\ UNCHANGED <<wsServerVars, timer, socket, live, rest, panel, drops>>

Unmount ==
  /\ mounted /\ mounted' = FALSE /\ intentional' = TRUE /\ timer' = FALSE
  /\ socket' = NoSocket
  /\ live' = IF socket = NoSocket THEN live ELSE [live EXCEPT ![socket] = "closed"]
  /\ UNCHANGED <<wsServerVars, fetching, rest, panel, drops, mounts>>

\* Mutant: a ticket that could not be fetched ends the attempt.
GiveUp == timer' = timer

ScheduleReconnect == timer' = ~intentional

RetryTimer ==
  /\ timer /\ timer' = FALSE /\ fetching < Cardinality(Sockets) /\ fetching' = fetching + 1
  /\ UNCHANGED <<wsServerVars, mounted, intentional, socket, live, rest, panel, drops, mounts>>

TicketFails ==
  /\ fetching > 0 /\ drops < MaxDrops /\ drops' = drops + 1 /\ fetching' = fetching - 1
  /\ ScheduleReconnect
  /\ UNCHANGED <<wsServerVars, mounted, intentional, socket, live, rest, panel, mounts>>

\* The socket is made whatever happened while the ticket was awaited.
Dial(s) ==
  /\ fetching > 0 /\ fetching' = fetching - 1
  /\ live[s] = "unused" /\ \A t \in Sockets : t < s => live[t] # "unused"
  /\ live' = [live EXCEPT ![s] = "dialling"] /\ socket' = s
  /\ UNCHANGED <<wsServerVars, mounted, intentional, timer, rest, panel, drops, mounts>>

\* The ticket is consumed, the connection listed; the page asks for its lists.
Accept(s) ==
  /\ live[s] = "dialling"
  /\ live' = [live EXCEPT ![s] = "open"]
  /\ peer' = [peer EXCEPT ![s] = "listed"] /\ pinging' = TRUE
  /\ rest' = [asked |-> TRUE, answer |-> NoAnswer]
  /\ UNCHANGED <<queue, book, moves, events, gotEvents, mounted, intentional, fetching,
                 timer, socket, panel, drops, mounts>>

\* The network, the server or an expired ticket ends a socket: onclose.
Lose(s) ==
  /\ live[s] \in {"dialling", "open"} /\ drops < MaxDrops /\ drops' = drops + 1
  /\ live' = [live EXCEPT ![s] = "closed"]
  /\ ScheduleReconnect
  /\ UNCHANGED <<wsServerVars, mounted, intentional, fetching, socket, rest, panel, mounts>>

\* The endpoint learns that the socket is closed; its finally calls disconnect.
EndpointEnds(s) ==
  /\ live[s] = "closed" /\ s \in Listed
  /\ Unlist(s)
  /\ UNCHANGED <<book, moves, events, gotEvents, wsPageVars>>

\* A client that was too slow is closed with code 1008 and unlisted.
CloseSlow(s) ==
  /\ peer[s] = "deaf" /\ live[s] = "open"
  /\ Unlist(s)
  /\ live' = [live EXCEPT ![s] = "closed"] /\ ScheduleReconnect
  /\ UNCHANGED <<book, moves, events, gotEvents, mounted, intentional, fetching, socket,
                 rest, panel, drops, mounts>>

(***************************************************************************)
(* Page: what it shows.                                                    *)
(***************************************************************************)

\* positions.update: an authoritative list replaces the panel, empty or not.
Shown(m) == m

\* _send_loop and _handleMessage.
Deliver(s) ==
  /\ peer[s] = "listed" /\ live[s] = "open" /\ queue[s] # <<>>
  /\ queue' = [queue EXCEPT ![s] = Tail(@)]
  /\ panel' = IF Head(queue[s]) \in BookValues THEN Shown(Head(queue[s])) ELSE panel
  /\ gotEvents' = IF Head(queue[s]) = AlertEvent THEN [gotEvents EXCEPT ![s] = @ - 1] ELSE gotEvents
  /\ UNCHANGED <<peer, pinging, book, moves, events, mounted, intentional, fetching, timer,
                 socket, live, rest, drops, mounts>>

RestReads == /\ rest.asked /\ rest' = [asked |-> FALSE, answer |-> book]
             /\ UNCHANGED <<wsServerVars, mounted, intentional, fetching, timer, socket, live,
                            panel, drops, mounts>>

\* The answer to the page's own question; an empty one is ignored.
RestAnswers ==
  /\ rest.answer # NoAnswer /\ rest' = [asked |-> FALSE, answer |-> NoAnswer]
  /\ panel' = IF rest.answer = 0 THEN panel ELSE rest.answer
  /\ UNCHANGED <<wsServerVars, mounted, intentional, fetching, timer, socket, live, drops, mounts>>

WsNext ==
  \/ PushBook \/ PushEvent \/ PushTick \/ BookMoves
  \/ Mount \/ Unmount \/ RetryTimer \/ TicketFails \/ RestReads \/ RestAnswers
  \/ \E s \in Sockets :
       Dial(s) \/ Accept(s) \/ Lose(s) \/ EndpointEnds(s) \/ CloseSlow(s) \/ Deliver(s)

WsSpec == WsInit /\ [][WsNext]_wsVars

\* The page's and the server's own steps, of which a connection has a bounded number.
Housekeeping ==
  \/ RetryTimer \/ RestReads \/ RestAnswers
  \/ \E s \in Sockets : Dial(s) \/ Accept(s) \/ EndpointEnds(s) \/ CloseSlow(s)

\* The event loop and the browser run what they have queued, and the loop
\* pushes its state on every pass; nothing obliges a user or the network.
WsFairness ==
  /\ WF_wsVars(PushBook) /\ WF_wsVars(Housekeeping)
  /\ SF_wsVars(\E s \in Sockets : Deliver(s))

WsFairSpec == WsSpec /\ WsFairness

(***************************************************************************)
(* Properties.                                                             *)
(***************************************************************************)
\* Whoever is listed is pinged: the heartbeat that ends with the last
\* connection is alive again for the next one.
ListedIsPinged == Listed # {} => pinging

\* A mounted page that still has a socket to spend shows in the end what the
\* book holds, an emptied book included, whatever was lost on the way.
PanelFollowsBook ==
  <>[](mounted /\ (\E s \in Sockets : live[s] = "unused") => panel = book)

\* Events are queued without drop while the client is connected.
QueuedEvents(s) == Cardinality({i \in DOMAIN queue[s] : queue[s][i] = AlertEvent})
EventsNotDropped == \A s \in Sockets : Hears(s) => gotEvents[s] = QueuedEvents(s)

\* A page has one open socket at most.
OneSocket == Cardinality(OpenSockets) <= 1
===============================================================================
