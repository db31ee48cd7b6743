------------------------------- MODULE IctZones -------------------------------
(***************************************************************************)
(* The zones of services/ict/detector.py: at every close of a bar the last *)
(* Window bars are read back, the ACTIVE rows the price is inside are      *)
(* marked mitigated, old ones expired, and every detection of the window   *)
(* that has no ACTIVE row of its own is inserted.  A zone is the bar that  *)
(* formed it; its geometry is only whether the price closes inside it.     *)
(* The pipeline's lock makes one close one step.                           *)
(***************************************************************************)
EXTENDS Integers, FiniteSets

CONSTANTS
  Window,      \* bars read back from the candles table (500)
  MinCandles,  \* _MIN_CANDLES
  ExpiryBars,  \* _EXPIRY_CANDLES (200)
  MaxBars      \* bound on the bars that close

ASSUME IctAssumption ==
  /\ Window \in Nat \ {0} /\ ExpiryBars < Window
  /\ {MinCandles, ExpiryBars, MaxBars} \subseteq Nat

VARIABLES
  bars,      \* bars in the candles table so far
  patterns,  \* those of them that formed a zone
  zones      \* rows of ict_detections: [bar, index, status, made]

ictVars == <<bars, patterns, zones>>

IctStatuses == {"ACTIVE", "MITIGATED", "EXPIRED"}

IctTypeOK ==
  /\ bars \in 0..MaxBars
  /\ patterns \subseteq 1..MaxBars
  /\ zones \subseteq [bar : 1..MaxBars, index : 0..(Window - 1), made : 1..MaxBars,
                      status : IctStatuses]

IctInit == bars = 0 /\ patterns = {} /\ zones = {}

\* candle_index: the position of bar b in the window that ends with the last bar.
FirstInWindow(last) == IF last > Window THEN last - Window + 1 ELSE 1
CandleIndex(b, last) == b - FirstInWindow(last)

Marked(rows, hit, status) == {[z EXCEPT !.status = status] : z \in hit} \union (rows \ hit)

\* _mark_mitigated.
Mitigate(rows, touched) ==
  Marked(rows, {z \in rows : z.status = "ACTIVE" /\ z.bar \in touched}, "MITIGATED")

\* _expire_old: compares the index stored when the zone was found.
ExpireOld(rows, last) ==
  LET threshold == CandleIndex(last, last) - ExpiryBars
  IN  Marked(rows, {z \in rows : /\ CandleIndex(last, last) > ExpiryBars
                                 /\ z.status = "ACTIVE" /\ z.index <= threshold}, "EXPIRED")

\* Mutant: the same zone at another place of the window is another detection.
DuplicateAt(rows, b, last) ==
  \E z \in rows : z.bar = b /\ z.index = CandleIndex(b, last) /\ z.status = "ACTIVE"

\* _is_duplicate: an ACTIVE row of the same kind, direction and prices.
IsDuplicate(rows, b, last) == \E z \in rows : z.bar = b /\ z.status = "ACTIVE"

\* Every detection in the window that no ACTIVE row stands for becomes one;
\* an insert that fails is rolled back and logged.
Detect(rows, formed, last) ==
  {[bar |-> b, index |-> CandleIndex(b, last), made |-> last, status |-> "ACTIVE"] :
     b \in {p \in formed : p >= FirstInWindow(last) /\ ~IsDuplicate(rows, p, last)}}

\* on_candle_close_callback and detect_all.  With the bar a pattern may have
\* formed, and the price closes inside some of the older zones.
CloseOfBar ==
  /\ bars < MaxBars
  /\ bars' = bars + 1
  /\ \E formed \in {patterns, patterns \union {bars'}}, touched \in SUBSET patterns :
       /\ patterns' = formed
       /\ \/ bars' < MinCandles /\ UNCHANGED zones
          \/ bars' >= MinCandles
             /\ LET left == ExpireOld(Mitigate(zones, touched), bars')
                IN  \E persisted \in SUBSET Detect(left, formed, bars') :
                      zones' = left \union persisted

IctNext == CloseOfBar
IctSpec == IctInit /\ [][IctNext]_ictVars

(***************************************************************************)
(* Properties.                                                             *)
(***************************************************************************)
\* No zone has two ACTIVE rows: a second would count twice in the consensus
\* and make scalar_one_or_none of _is_duplicate raise for ever after.
OneActiveRow ==
  \A y, z \in zones : y.status = "ACTIVE" /\ z.status = "ACTIVE" /\ y.bar = z.bar => y = z

===============================================================================
