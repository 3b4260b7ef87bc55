---------------------------- MODULE MCNativeProxy ----------------------------
(* Small instances of NativeProxy for TLC.                                 *)
EXTENDS NativeProxy, TLC

Symmetry == Permutations(Runner) \cup Permutations(Caller) \cup Permutations(Fd)
=============================================================================
