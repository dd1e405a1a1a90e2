----------------------------- MODULE MCAsyncParts -----------------------------
(***************************************************************************)
(* The asynchronous client with its cache and with a cancellation, and     *)
(* without either: a behaviour is of the one or of the other, and part     *)
(* says of which.                                                          *)
(***************************************************************************)
EXTENDS AsyncClient

VARIABLE part

Uncached == INSTANCE AsyncClient WITH UseCache <- FALSE, MaxCancels <- 0

PartsInit == Init /\ part \in {"cached", "uncached"}

PartsNext ==
    /\ UNCHANGED part
    /\ \/ part = "cached" /\ Next
       \/ part = "uncached" /\ Uncached!Next

\* The fairness of ServedSpec; release() is what differs with and without the cache.
PartsSpec ==
    /\ PartsInit /\ [][PartsNext]_<<part, vars>>
    /\ \A p \in Callers :
        /\ WF_vars(Enter(p)) /\ SF_vars(Send(p)) /\ WF_vars(Read(p)) /\ WF_vars(ReadFails(p))
        /\ WF_vars(Release(p) \/ Uncached!Release(p)) /\ WF_vars(Abort(p)) /\ WF_vars(Store(p))
    /\ \A c \in Conns : WF_vars(Serve(c))

\* Without the cache, and if nobody is cancelled, a call that began after a write had
\* succeeded sees that write: AsyncClient!SeesCompletedWrites.
UncachedSeesWrites == part = "uncached" => SeesCompletedWrites
===============================================================================
