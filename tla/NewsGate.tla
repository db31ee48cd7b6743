------------------------------ MODULE NewsGate ------------------------------
(***************************************************************************)
(* The news context that the live loop records beside every decision: the  *)
(* day's calendar from the provider or from an hour's cache                *)
(* (services/calendar/finnhub.py), the events that count (GATE-015), and   *)
(* the windows before and after them (GATE-012, GATE-013).                 *)
(* The provider and Redis may fail at every call.                          *)
(***************************************************************************)
EXTENDS Integers, FiniteSets, FiniteSetsExt

CONSTANTS
  Calendars,       \* what the provider may hold: sets of events
                   \*   [at, posted, currency, type, impact, forced]
  DayLength, MaxNow,   \* bound on the clock: the last minute of the last day
  NyLag,           \* how far New York's clock is behind the server's
  CacheTtl,        \* _CACHE_TTL_SECONDS
  PreEvent, PostEvent, M15Grid \* PRE_EVENT_BLACKOUT_MINUTES, POST_EVENT_COOLDOWN_MINUTES, M15_MINUTES

ASSUME NewsAssumption ==
  /\ {DayLength, CacheTtl, PreEvent, PostEvent, M15Grid} \subseteq Nat \ {0}
  /\ {MaxNow, NyLag} \subseteq Nat
  /\ \A c \in Calendars : \A e \in c : e.at \in Nat

VARIABLES
  now,         \* the server's clock
  calendar,    \* the provider's events
  hasKey,      \* FINNHUB_API_KEY is configured
  cache,       \* Redis: the day's key, its events, when it expires
  context      \* the last NewsContext that was recorded

newsVars == <<now, calendar, hasKey, cache, context>>

Empty == [day |-> -1, events |-> {}, read |-> 0, answered |-> FALSE]
NoVerdict == [at |-> -1, available |-> FALSE, block |-> "none", redFolder |-> FALSE, from |-> Empty]

Day(t) == t \div DayLength
NyDay(t) == (t + DayLength - NyLag) \div DayLength

-----------------------------------------------------------------------------
(* The events that count. *)

\* DeclaredMapping.classify, on the value that _resolve_impact keeps.
ImpactClass(e) ==
  CASE e.impact = "high" -> "RED_FOLDER"
    [] e.impact \in {"medium", "low"} -> "NOT_RED_FOLDER"
    [] OTHER -> "UNKNOWN"    \* absent, or a value nobody declared

\* A forced name takes a type that is included, whatever the patterns said.
Taxonomy(e) == IF e.forced THEN "INCLUDED" ELSE e.type

\* blocks_under_ruling: what nobody can read blocks.
Blocks(e) ==
  /\ Taxonomy(e) \in {"INCLUDED", "UNCLASSIFIED"}
  /\ e.forced \/ ImpactClass(e) \in {"RED_FOLDER", "UNKNOWN"}

Scoped(events) == {e \in events : e.currency = "USD"}

-----------------------------------------------------------------------------
(* The windows. *)

InPreWindow(e, t) == e.at - PreEvent <= t /\ t < e.at

\* The scheduled close of a fifteen-minute candle: the loop supplies no observed ones.
FirstM15Close(t) == Min({m \in t..(t + M15Grid) : m % M15Grid = 0})

FirstPermitted(e) == FirstM15Close(e.at + PostEvent)

InPostWindow(e, t) == e.at <= t /\ t < FirstPermitted(e)

Verdict(t, answer) ==
  LET blocking == {e \in Scoped(answer.events) : Blocks(e)}
  IN  [at |-> t, available |-> TRUE, from |-> answer,
       redFolder |-> \E e \in blocking : NyDay(e.at) = NyDay(t),
       block |-> IF \E e \in blocking : InPreWindow(e, t) THEN "NEWS_PRE_WINDOW"
                 ELSE IF \E e \in blocking : InPostWindow(e, t) THEN "NEWS_POST_WINDOW"
                 ELSE "none"]

-----------------------------------------------------------------------------
(* The calendar service. *)

\* The provider is asked for one date, and answers what is posted by then; every
\* failure, and a missing key, come back as an empty list.  "answered" is not in
\* the code: whether the provider said it.
Fetched(day, answers) ==
  [day |-> day, read |-> now, answered |-> answers,
   events |-> {e \in calendar : answers /\ Day(e.at) = day /\ e.posted <= now
                                /\ e.currency # "unlisted"}]

\* Mutant: the key of the cache does not name the day.
AnyDayCached(day) == cache # Empty /\ now < cache.read + CacheTtl

\* The key is of the day, and Redis drops it after the TTL.
Cached(day) == cache.day = day /\ now < cache.read + CacheTtl

\* _news_context: the key is asked for first; then the cache, then the provider.
TakeVerdict ==
  \E redis, answers \in BOOLEAN :
    LET hit    == redis /\ Cached(Day(now))
        answer == IF hit THEN cache ELSE Fetched(Day(now), answers)
    IN  /\ context' = IF hasKey THEN Verdict(now, answer) ELSE [NoVerdict EXCEPT !.at = now]
        /\ cache' = IF hasKey /\ redis /\ ~hit THEN answer ELSE cache
        /\ UNCHANGED <<now, calendar, hasKey>>

\* The scheduler's refresh deletes the key and writes whatever came back, an
\* empty list included; Redis may fail before either.
RefreshCalendar ==
  \E answers \in BOOLEAN :
    /\ cache' \in {Fetched(Day(now), answers /\ hasKey), Empty, cache}
    /\ UNCHANGED <<now, calendar, hasKey, context>>

NewsMinute == /\ now < MaxNow
              /\ now' = now + 1
              /\ UNCHANGED <<calendar, hasKey, cache, context>>

NewsInit == /\ now = 0 /\ calendar \in Calendars /\ hasKey \in BOOLEAN
            /\ cache = Empty /\ context = NoVerdict
NewsNext == TakeVerdict \/ RefreshCalendar \/ NewsMinute
NewsSpec == NewsInit /\ [][NewsNext]_newsVars

NewsTypeOK ==
  /\ now \in 0..MaxNow /\ hasKey \in BOOLEAN
  /\ cache.events \subseteq calendar /\ context.from.events \subseteq calendar
  /\ context.block \in {"none", "NEWS_PRE_WINDOW", "NEWS_POST_WINDOW"}

-----------------------------------------------------------------------------
(* Properties. *)

\* "No blackout" is said only outside the windows of every event of the date
\* that counts and was posted when the provider was last heard, through the
\* hour's cache, a change of day and a Redis that comes and goes.  Except when
\* the provider failed: its empty answer is taken for a quiet day, for an hour.
QuietOnlyWhenQuiet ==
  context.available /\ context.block = "none" /\ context.from.answered =>
    \A e \in calendar :
      (e.currency = "USD" /\ Blocks(e) /\ Day(e.at) = Day(context.at) /\ e.posted <= context.from.read)
        => context.at \notin (e.at - PreEvent)..(e.at + PostEvent - 1)
=============================================================================
