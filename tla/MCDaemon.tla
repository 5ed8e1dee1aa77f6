------------------------------ MODULE MCDaemon ------------------------------
(* Small instances of Daemon for TLC: the constants come from the cfgs.    *)
EXTENDS Daemon, TLC

Symmetry == Permutations(Workspace) \cup Permutations(Source)
=============================================================================
