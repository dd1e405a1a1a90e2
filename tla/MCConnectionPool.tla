-------------------------- MODULE MCConnectionPool --------------------------
(* Small instances of the connection pool for TLC.                          *)
EXTENDS ConnectionPoolRefinement, TLC

Symmetry == Permutations(Callers) \cup Permutations(StandIns)
            \cup Permutations(Conns \ StandIns)
=============================================================================
