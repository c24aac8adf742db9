------------------------------ MODULE MCSyncMap ------------------------------
(***************************************************************************)
(* A small instance of SyncMap, in which goroutines are interchangeable    *)
(* and so are keys.                                                        *)
(***************************************************************************)
EXTENDS SyncMap, TLC

Symmetry == Permutations(Keys) \cup Permutations(Processes)
=============================================================================
