---------------------------- MODULE MCRedisStore ----------------------------
(* Small instances of RedisStore: two callers, two subjects.               *)
EXTENDS RedisStore, TLC

CONSTANTS i1, i2, i3, k1, k2, alice, bob, aConsole, bExec, vm1, c1, c2

MCSubjectOf == aConsole :> alice @@ bExec :> bob
MCConsoleOf == aConsole :> vm1 @@ bExec :> None

\* One subject and no replays, for the run with skewed clocks.
MCOneSubject == aConsole :> alice
MCNoConsole  == aConsole :> None

Symmetry == Permutations(Ids) \cup Permutations(Keys) \cup Permutations(Callers)
=============================================================================
