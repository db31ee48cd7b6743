---------------------------- MODULE MCExitModel ----------------------------
(* Paths over two longs and two shorts; of one of each the target is the 2R level. *)
EXTENDS ExitModel

MCTrades ==
    {[way |-> 1, entry |-> 3, stop |-> 2, target |-> 6], [way |-> 1, entry |-> 3, stop |-> 2, target |-> 5],
     [way |-> -1, entry |-> 4, stop |-> 5, target |-> 1], [way |-> -1, entry |-> 4, stop |-> 5, target |-> 2],
     [way |-> 1, entry |-> 3, stop |-> 2, target |-> 4]}
=============================================================================
