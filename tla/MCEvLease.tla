----------------------------- MODULE MCEvLease -----------------------------
(* EvLease for TLC: small clocks that wrap many times. *)
EXTENDS EvLease
=============================================================================
