---------------------------- MODULE MCAsyncClient ----------------------------
(* Small instances of the asynchronous client for TLC.                      *)
EXTENDS AsyncClient, TLC

\* The connections are interchangeable, and so are the callers.
Symmetry == Permutations(Callers) \cup Permutations(Conns)
=============================================================================
