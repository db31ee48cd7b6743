------------------------------- MODULE MCDesk -------------------------------
(***************************************************************************)
(* The machines around the live loop that share no state: the broker       *)
(* registry, the engine's runs, the account monitor, the browser bridge,   *)
(* the stream to the page, the news gate, the scan of the closed bars, the *)
(* closing of the other brokers' accounts and the entry order. A behaviour *)
(* is one of theirs; the others rest in an initial state, so the state     *)
(* graph is the sum of the nine.                                           *)
(***************************************************************************)
EXTENDS BrokerRegistry, RunLifecycle, BrokerMonitor, CftBridge, WsChannel, NewsGate, BarScan, AccountSweep,
        EntryOrder

\* Two days of eight minutes: an event of each class, a name that is forced in, a
\* currency out of scope, an event posted late, one the provider never lists.
Event(at, posted, currency, type, impact, forced) ==
    [at |-> at, posted |-> posted, currency |-> currency, type |-> type, impact |-> impact, forced |-> forced]
MCCalendars ==
    {{}, {Event(5, 0, "USD", "INCLUDED", "high", FALSE), Event(11, 2, "USD", "UNCLASSIFIED", "tier-1", FALSE)},
     {Event(6, 4, "USD", "INCLUDED", "low", FALSE), Event(3, 0, "USD", "EXCLUDED", "medium", TRUE),
      Event(9, 0, "EUR", "INCLUDED", "high", FALSE)},
     {Event(2, 0, "unlisted", "INCLUDED", "high", FALSE), Event(10, 0, "USD", "EXCLUDED", "high", FALSE),
      Event(12, 0, "USD", "INCLUDED", "absent", FALSE)}}

MCUnserved == {{}, {2}}

\* Three accounts: of MetaTrader 5's positions one has no id and one no side; Crypto Fund
\* Trader's is opened late; OANDA's are the two sides of one instrument.
MCKind == [m |-> "mt5", c |-> "cft", o |-> "oanda"]
MCHome == <<"m", "m", "c", "o", "o">>
MCBehind == (5 :> 4)
MCOrders == {<<"m", "o", "c">>, <<"c", "o", "m">>}

\* A near stop, a far one, a farther one and a short; the mark at each side of the entry,
\* too old, far off, or absent; the quote in time, too old, or from the future.
Sig(dir, entry, stop) == [dir |-> dir, entry |-> entry, stop |-> stop]
MCSignals == {Sig("LONG", 20, 16), Sig("LONG", 22, 12), Sig("LONG", 24, 4), Sig("SHORT", 20, 24)}
PriceRead(price, age) == [price |-> price, age |-> age]
MCMarkReads == {PriceRead(-1, 0), PriceRead(19, 0), PriceRead(21, 1), PriceRead(20, 2), PriceRead(27, 1)}
MCQuoteReads == {PriceRead(-1, 0), PriceRead(21, 2), PriceRead(19, 3), PriceRead(19, -1)}
MCOtherTrades == {-4, 1}

VARIABLE machine    \* whose behaviour it is

deskVars == <<machine, registryVars, lifecycleVars, monitorVars, bridgeVars, wsVars, newsVars, scanVars, sweepVars,
              orderVars>>

DeskInit ==
    /\ machine \in {"registry", "runs", "monitor", "bridge", "stream", "news", "scan", "accounts", "order"}
    /\ RegistryInit /\ LifecycleInit /\ MonitorInit /\ BridgeInit /\ WsInit
    /\ NewsInit /\ ScanInit /\ SweepInit /\ OrderInit
    /\ machine # "registry" => \A c \in Connections : creds[c] = None
    /\ machine # "bridge" => trading = FALSE
    /\ machine # "news" => calendar = {} /\ hasKey
    /\ machine # "scan" => lacking = {}
    /\ machine # "accounts" => pulls = 0 /\ adapters = <<"m", "o", "c">>
    /\ machine # "order" => bound = "alpaca"

DeskNext ==
    /\ UNCHANGED machine
    /\ \/ /\ machine = "registry" /\ RegistryNext
          /\ UNCHANGED <<lifecycleVars, monitorVars, bridgeVars, wsVars, newsVars, scanVars, sweepVars, orderVars>>
       \/ /\ machine = "runs" /\ LifecycleNext
          /\ UNCHANGED <<registryVars, monitorVars, bridgeVars, wsVars, newsVars, scanVars, sweepVars, orderVars>>
       \/ /\ machine = "monitor" /\ MonitorNext
          /\ UNCHANGED <<registryVars, lifecycleVars, bridgeVars, wsVars, newsVars, scanVars, sweepVars, orderVars>>
       \/ /\ machine = "bridge" /\ BridgeNext
          /\ UNCHANGED <<registryVars, lifecycleVars, monitorVars, wsVars, newsVars, scanVars, sweepVars, orderVars>>
       \/ /\ machine = "stream" /\ WsNext
          /\ UNCHANGED <<registryVars, lifecycleVars, monitorVars, bridgeVars, newsVars, scanVars, sweepVars, orderVars>>
       \/ /\ machine = "news" /\ NewsNext
          /\ UNCHANGED <<registryVars, lifecycleVars, monitorVars, bridgeVars, wsVars, scanVars, sweepVars, orderVars>>
       \/ /\ machine = "scan" /\ ScanNext
          /\ UNCHANGED <<registryVars, lifecycleVars, monitorVars, bridgeVars, wsVars, newsVars, sweepVars, orderVars>>
       \/ /\ machine = "accounts" /\ SweepNext
          /\ UNCHANGED <<registryVars, lifecycleVars, monitorVars, bridgeVars, wsVars, newsVars, scanVars, orderVars>>
       \/ /\ machine = "order" /\ OrderNext
          /\ UNCHANGED <<registryVars, lifecycleVars, monitorVars, bridgeVars, wsVars, newsVars, scanVars, sweepVars>>

\* The fairness of each machine.  Of those that rest only the registry has an action enabled.
DeskSpec ==
    /\ DeskInit /\ [][DeskNext]_deskVars
    /\ WF_registryVars(machine = "registry" /\ (LoadSome \/ JobStep))
    /\ WF_registryVars(\E r \in Requests : RequestStep(r))
    /\ \A c \in Connections : SF_registryVars(Connected(c))
    /\ BridgeFairness /\ WsFairness

DeskTypeOK ==
    RegistryTypeOK /\ LifecycleTypeOK /\ MonitorTypeOK /\ BridgeTypeOK /\ WsTypeOK /\ NewsTypeOK /\ ScanTypeOK
    /\ AccountTypeOK /\ OrderTypeOK
=============================================================================
