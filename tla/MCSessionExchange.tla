-------------------------- MODULE MCSessionExchange --------------------------
(* SessionExchange for TLC.  Two requests of an interview not begun are a  *)
(* start and what follows or doubles it; of one begun, a double tap, or a  *)
(* retry and the answer it repeats.                                        *)
EXTENDS SessionExchange, TLC
=============================================================================
