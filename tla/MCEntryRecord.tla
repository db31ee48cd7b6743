---------------------------- MODULE MCEntryRecord ----------------------------
(* EntryRecord with the constants the configurations give it. *)
EXTENDS EntryRecord

CONSTANTS BTC, ETH
=============================================================================
