-------------------------- MODULE MCAlpacaAccount --------------------------
(* AlpacaAccount with an entry and an engine close on one of two symbols. *)
EXTENDS AlpacaAccount, TLC

CONSTANTS e1, c1, s1, s2

EntryAndClose == (e1 :> s1) @@ (c1 :> s1)
=============================================================================
