--------------------------- MODULE MCSingletonLock ---------------------------
(* Small instances of SingletonLock for TLC.                               *)
EXTENDS SingletonLock, TLC

Symmetry == Permutations(Process) \cup Permutations(Path)
=============================================================================
