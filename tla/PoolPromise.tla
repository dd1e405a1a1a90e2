----------------------------- MODULE PoolPromise -----------------------------
(***************************************************************************)
(* What a pool of connections promises its users, whatever it does inside:  *)
(* a caller enters, waits, is granted a connection no other caller uses,    *)
(* and leaves; once the pool is shut nobody new enters.                     *)
(***************************************************************************)
CONSTANTS Callers, Conns, NoConn

VARIABLES
    stage,    \* stage[p]: "out", "waiting" or "using"
    grant,    \* grant[p]: the connection granted to p
    shut      \* the pool admits nobody any more

vars == <<stage, grant, shut>>

Init ==
    /\ stage = [p \in Callers |-> "out"]
    /\ grant = [p \in Callers |-> NoConn]
    /\ shut = FALSE

Enter(p) ==
    /\ stage[p] = "out" /\ ~shut
    /\ stage' = [stage EXCEPT ![p] = "waiting"]
    /\ UNCHANGED <<grant, shut>>

Grant(p) ==
    /\ stage[p] = "waiting"
    /\ \E c \in Conns :
        /\ \A q \in Callers : grant[q] # c
        /\ grant' = [grant EXCEPT ![p] = c]
    /\ stage' = [stage EXCEPT ![p] = "using"]
    /\ UNCHANGED shut

\* The caller gives up waiting, or gives its connection back.
Leave(p) ==
    /\ stage[p] # "out"
    /\ stage' = [stage EXCEPT ![p] = "out"]
    /\ grant' = [grant EXCEPT ![p] = NoConn]
    /\ UNCHANGED shut

Shut ==
    /\ shut' = TRUE
    /\ UNCHANGED <<stage, grant>>

Next == Shut \/ \E p \in Callers : Enter(p) \/ Grant(p) \/ Leave(p)

Spec == Init /\ [][Next]_vars
=============================================================================
