---------------------------- MODULE AccountSweep ----------------------------
(***************************************************************************)
(* What an account of the other brokers says when its positions are to be  *)
(* closed: close_all_positions of MetaTrader 5, Crypto Fund Trader and     *)
(* OANDA under the manager's sweep, and DELETE /positions/{id}, which asks *)
(* every account and then tries every account.  A position may be opened,  *)
(* closed by hand or stopped out, and a venue may stop answering, at every *)
(* await.  The adapters keeps still under a loop over it (KillSwitch lets  *)
(* it move).                                                               *)
(***************************************************************************)
EXTENDS Integers, Sequences, SequencesExt

CONSTANTS
    Orders,         \* the orders in which the accounts may have been connected
    Kind,           \* "mt5", "cft", "observed" (Crypto Fund Trader, observe-only) or "oanda"
    Home,           \* the account that holds a position; a venue lists its positions in order
    Nameless,       \* positions the venue lists without an id
    Sideless,       \* positions the venue lists without a side that can be read
    Behind,         \* a short, to the long of its instrument: OANDA lists both in one row
    Late,           \* positions opened later
    MaxPulls, MaxAsks, MaxFalls     \* bounds

Positions == DOMAIN Home
Providers == DOMAIN Kind

ASSUME SweepAssumption ==
    /\ Positions \subseteq Nat \ {0} /\ Late \subseteq Positions /\ Home \in [Positions -> Providers]
    /\ \A a \in Providers : Kind[a] \in {"mt5", "cft", "observed", "oanda"}
    /\ \A order \in Orders :   \* an account is connected once
          order \in Seq(Providers) /\ \A i, j \in DOMAIN order : order[i] = order[j] => i = j

VARIABLES
    adapters,   \* BrokerManager._adapters, in the order of the connections
    answering,  \* the accounts whose venue answers
    falls,      \* how often a venue stopped answering or an account was disconnected
    open,       \* the positions open at their venues
    late,       \* the positions not opened yet
    sweep,      \* the pull: its stage, the account it is at, that account's rows, the close on the wire
    results,    \* the rows and the accounts' errors it returns so far
    published,  \* last_close_all_report of each adapter
    pulls, asks,
    deletion,    \* DELETE /positions/{id}
    \* History.
    whole,      \* positions open since the pull began, in accounts connected then
    sent,       \* positions the pull sent a close for
    accepted,   \* positions a close of which the venue accepted
    blind,      \* accounts that answered the pull's listing without seeing their book
    kept,       \* whether the deletion's position was open since the deletion came
    unseen      \* whether an account answered the deletion's listing without seeing its book

sweepVars == <<adapters, answering, falls, open, late, sweep, results, published, pulls, asks, deletion,
               whole, sent, accepted, blind, kept, unseen>>
venueVars == <<adapters, answering, falls, open, late>>
pullVars == <<sweep, results, published, pulls, whole, sent, blind>>
requestVars == <<asks, deletion, kept, unseen>>

NoRows == <<>>

\* Rows over older ones.
Over(rows, older) ==
    [p \in DOMAIN rows \union DOMAIN older |-> IF p \in DOMAIN rows THEN rows[p] ELSE older[p]]

OpenAt(a) == {p \in open : Home[p] = a}
Refuses(a) == Kind[a] \in {"observed", "oanda"}
Sweeping == sweep.stage \in {"link", "list", "close"}
Asking == deletion.stage \in {"asking", "closing"}

SweepInit ==
    /\ adapters \in Orders /\ answering = Providers /\ falls = 0
    /\ open = Positions \ Late /\ late = Late
    /\ sweep = [stage |-> "idle", at |-> 0, rows |-> NoRows, wire |-> 0]
    /\ results = [rows |-> NoRows, errors |-> {}]
    /\ published = [a \in Providers |-> NoRows]
    /\ deletion = [stage |-> "idle", pos |-> 0, at |-> 0, listed |-> FALSE, unasked |-> FALSE, told |-> 0]
    /\ \/ pulls = 0 /\ asks = MaxAsks       \* pulls or requests: neither reads what the other writes
       \/ pulls = MaxPulls /\ asks = 0
    /\ whole = {} /\ sent = {} /\ accepted = {} /\ blind = {} /\ kept = FALSE /\ unseen = FALSE

----------------------------------------------------------------------------
(* The venues, at any time. *)

\* By hand, by its stop, or by a close whose answer was lost.
Closes(p) ==
    /\ p \in open
    /\ open' = open \ {p} /\ whole' = whole \ {p} /\ kept' = (kept /\ deletion.pos # p)
    /\ UNCHANGED <<adapters, answering, falls, late, sweep, results, published, pulls, asks, deletion,
                   sent, accepted, blind, unseen>>

Opens(p) ==
    /\ p \in late
    /\ late' = late \ {p} /\ open' = open \union {p}
    /\ UNCHANGED <<adapters, answering, falls, accepted, pullVars, requestVars>>

Falls(a) ==
    /\ a \in answering /\ falls < MaxFalls
    /\ answering' = answering \ {a} /\ falls' = falls + 1
    /\ UNCHANGED <<adapters, open, late, accepted, pullVars, requestVars>>

Returns(a) ==
    /\ a \notin answering
    /\ answering' = answering \union {a}
    /\ UNCHANGED <<adapters, falls, open, late, accepted, pullVars, requestVars>>

\* disconnect() and the manager's pop.
Disconnect(a) ==
    /\ ~Sweeping /\ ~Asking /\ falls < MaxFalls
    /\ \E i \in DOMAIN adapters : adapters[i] = a /\ adapters' = RemoveAt(adapters, i)
    /\ falls' = falls + 1
    /\ UNCHANGED <<answering, open, late, accepted, pullVars, requestVars>>

\* connect(): it raises unless the venue answers; a new adapter has published nothing.
Connect(a) ==
    /\ ~Sweeping /\ ~Asking
    /\ \A i \in DOMAIN adapters : adapters[i] # a
    /\ a \in answering
    /\ adapters' = Append(adapters, a)
    /\ published' = [published EXCEPT ![a] = NoRows]
    /\ UNCHANGED <<answering, falls, open, late, accepted, sweep, results, pulls, whole, sent, blind, requestVars>>

----------------------------------------------------------------------------
(* The sweep of the accounts. *)

\* On to the next account that awaits: those that refuse before any call raise at once.
GoOn(i, told) ==
    LET end == Len(adapters) + 1
        stop == Min({j \in i..(end - 1) : ~Refuses(adapters[j])} \union {end})
    IN  /\ results' = [told EXCEPT !.errors = @ \union {adapters[j] : j \in i..(stop - 1)}]
        /\ sweep' = [stage |-> IF stop = end THEN "ended" ELSE IF Kind[adapters[stop]] = "mt5" THEN "link" ELSE "list",
                     at |-> stop, rows |-> NoRows, wire |-> 0]

Pull ==
    /\ ~Sweeping /\ pulls < MaxPulls
    /\ pulls' = pulls + 1
    /\ whole' = {p \in open : \E i \in DOMAIN adapters : adapters[i] = Home[p]}
    /\ sent' = {} /\ blind' = {}
    /\ GoOn(1, [rows |-> NoRows, errors |-> {}])
    /\ UNCHANGED <<venueVars, published, accepted, requestVars>>

\* The account could not be read: it raises with no rows, and the manager writes one error.
Unreadable ==
    /\ sweep.stage \in {"link", "list"} /\ adapters[sweep.at] \notin answering
    /\ GoOn(sweep.at + 1, [results EXCEPT !.errors = @ \union {adapters[sweep.at]}])
    /\ UNCHANGED <<venueVars, published, pulls, whole, sent, blind, accepted, requestVars>>

\* MetaTrader 5: the account is reloaded, and one of its connections reaches the broker.
LinkSeen ==
    /\ sweep.stage = "link" /\ adapters[sweep.at] \in answering
    /\ sweep' = [sweep EXCEPT !.stage = "list"]
    /\ UNCHANGED <<venueVars, results, published, pulls, whole, sent, blind, accepted, requestVars>>

\* Mutant: the row of a close is written only when the close has answered.
FailedOnceAnswered(rows, next) ==
    [p \in DOMAIN rows |-> IF p \in Nameless /\ (next = 0 \/ p < next) THEN "FAILED" ELSE rows[p]]

\* The loop over the rows, up to the next close: a row without an id is failed, and the
\* row of the close is failed before the close is awaited.
Failed(rows, next) ==
    [p \in DOMAIN rows |->
        IF p = next \/ (p \in Nameless /\ (next = 0 \/ p < next)) THEN "FAILED" ELSE rows[p]]

Attempt(rows) ==
    LET a == adapters[sweep.at]
        named == {p \in DOMAIN rows \ Nameless : rows[p] = "NOT_ATTEMPTED"}
        next == IF named = {} THEN 0 ELSE Min(named)
        reached == Failed(rows, next)
    IN  /\ published' = [published EXCEPT ![a] = reached]
        /\ IF named = {}
           THEN /\ GoOn(sweep.at + 1, [results EXCEPT !.rows = Over(reached, @)])
                /\ UNCHANGED sent
           ELSE /\ sweep' = [sweep EXCEPT !.stage = "close", !.rows = reached, !.wire = next]
                /\ sent' = sent \union {next}
                /\ UNCHANGED results

\* The listing: every row is NOT_ATTEMPTED and published before the loop.  MetaTrader 5 shows
\* an empty book once its link is down, and Crypto Fund Trader's answers without a list read as one.
BookListed ==
    /\ sweep.stage = "list"
    /\ LET a == adapters[sweep.at]
       IN  \/ /\ a \in answering
              /\ Attempt([p \in OpenAt(a) |-> "NOT_ATTEMPTED"])
              /\ UNCHANGED blind
           \/ /\ (Kind[a] = "mt5" /\ a \notin answering) \/ (Kind[a] = "cft" /\ a \in answering)
              /\ Attempt(NoRows)
              /\ blind' = blind \union {a}
    /\ UNCHANGED <<venueVars, pulls, whole, accepted, requestVars>>

\* _classify_close: only these codes are read as a close.  PLACED is one, and the SDK returns
\* it for a deletion the venue has yet to carry out; Crypto Fund Trader's 2xx carries no code.
Succeeded == {"DONE", "PLACED", "2xx"}
Codes(a, p) ==
    IF Kind[a] = "cft" THEN {"2xx"}
    ELSE {"PLACED", "DONE_PARTIAL", "NO_CHANGES", "other", "none"} \union (IF p \in open THEN {} ELSE {"DONE"})

\* The close of the row on the wire is answered.
Answered(code) ==
    /\ sweep.stage = "close"
    /\ LET a == adapters[sweep.at]
           p == sweep.wire
       IN  /\ a \in answering /\ code \in Codes(a, p)
           /\ Attempt([sweep.rows EXCEPT ![p] = IF code \in Succeeded THEN "CLOSED" ELSE "FAILED"])
           /\ accepted' = IF code \in Succeeded THEN accepted \union {p} ELSE accepted
    /\ UNCHANGED <<venueVars, pulls, whole, blind, requestVars>>

\* It raises, or its answer is lost: the row stays failed and the loop goes on.
Raised ==
    /\ sweep.stage = "close"
    /\ Attempt(sweep.rows)
    /\ UNCHANGED <<venueVars, pulls, whole, blind, accepted, requestVars>>

\* A cancellation at an await: what is known travels on it.  While an account is listed it
\* has no rows of this pull.
Cancelled ==
    /\ Sweeping
    /\ results' = [results EXCEPT !.rows = Over(sweep.rows, @)]
    /\ sweep' = [sweep EXCEPT !.stage = "cut", !.rows = NoRows, !.wire = 0]
    /\ UNCHANGED <<venueVars, published, pulls, whole, sent, blind, accepted, requestVars>>

\* What a second caller is told meanwhile (close_all_rows_so_far).
RowsSoFar == Over(IF Sweeping THEN published[adapters[sweep.at]] ELSE NoRows, results.rows)

----------------------------------------------------------------------------
(* DELETE /positions/{id}. *)

AskClose(p) ==
    /\ ~Asking /\ asks < MaxAsks /\ adapters # <<>>
    /\ asks' = asks + 1
    /\ deletion' = [stage |-> "asking", pos |-> p, at |-> 1, listed |-> FALSE, unasked |-> FALSE, told |-> 0]
    /\ kept' = (p \in open /\ \E i \in DOMAIN adapters : adapters[i] = Home[p]) /\ unseen' = FALSE
    /\ UNCHANGED <<venueVars, pullVars, accepted>>

Tell(status) == deletion' = [deletion EXCEPT !.stage = "told", !.told = status]

\* Mutant: an account that could not be asked counts as one that does not hold the position.
ResolveAnyway(listed, unasked) ==
    IF deletion.at < Len(adapters)
    THEN deletion' = [deletion EXCEPT !.at = @ + 1, !.listed = listed, !.unasked = unasked]
    ELSE IF listed THEN deletion' = [deletion EXCEPT !.stage = "closing", !.at = 1, !.listed = TRUE, !.unasked = unasked]
    ELSE Tell(404)

\* The last account has answered the listing.  An account that could not be asked makes it a 502.
Resolve(listed, unasked) ==
    IF deletion.at < Len(adapters)
    THEN deletion' = [deletion EXCEPT !.at = @ + 1, !.listed = listed, !.unasked = unasked]
    ELSE IF listed THEN deletion' = [deletion EXCEPT !.stage = "closing", !.at = 1, !.listed = TRUE, !.unasked = unasked]
    ELSE Tell(IF unasked THEN 502 ELSE 404)

\* What get_positions shows.  OANDA's row of an instrument is read as its long side when it has one.
ShownOn(a) ==
    {p \in OpenAt(a) : ~(Kind[a] = "oanda" /\ p \in DOMAIN Behind /\ Behind[p] \in open)}

\* A position whose side cannot be read makes the whole listing raise.
Readable(a) == a \in answering /\ OpenAt(a) \intersect Sideless = {}

\* An account lists its positions, raises, or answers without seeing its book.
Asked ==
    /\ deletion.stage = "asking"
    /\ LET a == adapters[deletion.at]
       IN  \/ /\ Readable(a)
              /\ Resolve(deletion.listed \/ deletion.pos \in ShownOn(a), deletion.unasked)
              /\ unseen' = (unseen \/ deletion.pos \in OpenAt(a) \ ShownOn(a))
           \/ /\ ~Readable(a)
              /\ Resolve(deletion.listed, TRUE)
              /\ UNCHANGED unseen
           \/ /\ (Kind[a] = "mt5" /\ a \notin answering) \/ (Kind[a] \in {"cft", "observed"} /\ a \in answering)
              /\ Resolve(deletion.listed, deletion.unasked)
              /\ unseen' = TRUE
    /\ UNCHANGED <<venueVars, pullVars, accepted, asks, kept>>

\* Every account in turn is told to close the id, whoever listed it.  What is not a
\* BrokerError ends the deletion: MetaTrader 5 implements no close, and a lost call raises httpx's own.
Tried ==
    /\ deletion.stage = "closing"
    /\ LET a == adapters[deletion.at]
           held == deletion.pos \in OpenAt(a)
       IN  \/ /\ Kind[a] = "mt5" \/ (Kind[a] = "cft" /\ a \notin answering)
              /\ Tell(500) /\ UNCHANGED accepted
           \/ /\ Kind[a] = "cft" /\ a \in answering /\ held
              /\ Tell(204) /\ accepted' = accepted \union {deletion.pos}
           \/ /\ Refuses(a) \/ (Kind[a] = "cft" /\ a \in answering)
              /\ IF deletion.at < Len(adapters) THEN deletion' = [deletion EXCEPT !.at = @ + 1] ELSE Tell(502)
              /\ UNCHANGED accepted
    /\ UNCHANGED <<venueVars, pullVars, asks, kept, unseen>>

SweepNext ==
    \/ \E p \in Positions : Closes(p) \/ Opens(p) \/ AskClose(p)
    \/ \E a \in Providers : Falls(a) \/ Returns(a) \/ Connect(a) \/ Disconnect(a)
    \/ Pull \/ Unreadable \/ LinkSeen \/ BookListed \/ Raised \/ Cancelled \/ Asked \/ Tried
    \/ \E code \in {"DONE", "PLACED", "DONE_PARTIAL", "NO_CHANGES", "other", "none", "2xx"} : Answered(code)

SweepSpec == SweepInit /\ [][SweepNext]_sweepVars

----------------------------------------------------------------------------
Dispositions == {"CLOSED", "FAILED", "NOT_ATTEMPTED"}

AccountTypeOK ==
    /\ answering \subseteq Providers /\ open \subseteq Positions /\ late \subseteq Positions
    /\ sweep.stage \in {"idle", "link", "list", "close", "ended", "cut"}
    /\ \A p \in DOMAIN results.rows : p \in Positions /\ results.rows[p] \in Dispositions
    /\ results.errors \subseteq Providers
    /\ deletion.told \in {0, 204, 404, 500, 502}

\* The rows of a pull of the other brokers (mt5.py, cryptofundtrader.py close_all_positions):
\* a position that stayed open through a whole pull is reported, or its account is as one
\* nobody could read; and NOT_ATTEMPTED is written of none a close was sent for, wherever the
\* pull was cut.  At every moment a second caller is told of every close that was sent, and
\* CLOSED of no position whose venue accepted no close.  The exception is
\* an account that answers its listing without seeing its book (mt5.py:529-532,
\* cryptofundtrader.py:250-255).
SweepTellsTruth ==
    /\ sent \subseteq DOMAIN RowsSoFar
    /\ \A p \in DOMAIN RowsSoFar : RowsSoFar[p] = "CLOSED" => p \in accepted
    /\ sweep.stage \in {"ended", "cut"} =>
        /\ \A p \in DOMAIN results.rows :
              results.rows[p] = "NOT_ATTEMPTED" => p \notin sent /\ sweep.stage = "cut"
        /\ sweep.stage = "ended" =>
              \A p \in whole : p \in DOMAIN results.rows \/ Home[p] \in results.errors \union blind

\* What DELETE /positions/{id} answers: closed only when a venue accepted the close, and
\* "not found" never of a position that was open all along at a connected account, unless
\* its account answered without seeing its book.
ManualCloseTellsTruth ==
    deletion.stage = "told" =>
        /\ deletion.told = 204 => deletion.pos \in accepted
        /\ deletion.told = 404 => ~kept \/ unseen

\* Of the accounts other than Alpaca's, what the kill switch's rows say and what a
\* manual close answers are what the venues did.
AccountsTellTheTruth == SweepTellsTruth /\ ManualCloseTellsTruth
=============================================================================
