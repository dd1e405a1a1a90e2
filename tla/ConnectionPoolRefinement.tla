---------------------- MODULE ConnectionPoolRefinement ----------------------
(***************************************************************************)
(* The pool implements PoolPromise.  A caller is out while it is not inside *)
(* acquire() and owns no connection; the grant ends when release() has the  *)
(* lock, since from then on the connection may be handed to somebody else.  *)
(***************************************************************************)
EXTENDS ConnectionPool

StageOf(p) ==
    IF Holds(p) THEN "using"
    ELSE IF pc[p] \in {"ready", "failed", "retire"} THEN "out" ELSE "waiting"

GrantOf(p) == IF Holds(p) THEN conn[p] ELSE NoConn

Promise == INSTANCE PoolPromise WITH
    stage <- [p \in Callers |-> StageOf(p)],
    grant <- [p \in Callers |-> GrantOf(p)],
    shut  <- closed

\* Every behaviour of the pool is one PoolPromise allows: grants are exclusive
\* and nobody is let in once close() has begun.
KeepsPromise == Promise!Spec
=============================================================================
