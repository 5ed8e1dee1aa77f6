--------------------------- MODULE MCConfigWatcher ---------------------------
(* Small instances of ConfigWatcher for TLC.                               *)
EXTENDS ConfigWatcher, TLC

CONSTANTS v1, v2, v3

(* Two texts of one length, which only their mtimes tell apart, and one    *)
(* that is longer.                                                         *)
MCSize == v1 :> 1 @@ v2 :> 1 @@ v3 :> 2 @@ Empty :> 0 @@ Broken :> 1
=============================================================================
