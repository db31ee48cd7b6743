--------------------------- MODULE MCVenueEvents ---------------------------
(* VenueEvents with small quantities: three units opened, one foreign. *)
EXTENDS VenueEvents, TLC
=============================================================================
