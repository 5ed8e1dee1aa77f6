--------------------------- MODULE MCSidebarWriter ---------------------------
(* Small instances of SidebarWriter for TLC.                               *)
EXTENDS SidebarWriter, TLC

Symmetry == Permutations(Install)
=============================================================================
