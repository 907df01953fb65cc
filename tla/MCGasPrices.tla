---------------------------- MODULE MCGasPrices ----------------------------
(* An instance of GasPrices for TLC: one thread serves requests beside the *)
(* scheduler's, and a month has two days.                                  *)
EXTENDS GasPrices

Threads == {"page"}
=============================================================================
