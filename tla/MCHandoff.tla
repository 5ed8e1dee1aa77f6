------------------------------ MODULE MCHandoff ------------------------------
(* A small instance of Handoff for TLC: the constants come from the cfg.   *)
EXTENDS Handoff
=============================================================================
