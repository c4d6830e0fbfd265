---------------------------- MODULE MCMemoryStore ----------------------------
(* Small instances of MemoryStore: two subjects, one intent each.          *)
EXTENDS MemoryStore, TLC

CONSTANTS i1, i2, i3, k1, k2, alice, bob, aConsole, bExec, vm1

MCSubjectOf == aConsole :> alice @@ bExec :> bob
MCConsoleOf == aConsole :> vm1 @@ bExec :> None

Symmetry == Permutations(Ids) \cup Permutations(Keys)
=============================================================================
