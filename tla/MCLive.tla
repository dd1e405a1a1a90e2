-------------------------------- MODULE MCLive --------------------------------
(***************************************************************************)
(* What must come about in the library and the server, under the fairness  *)
(* of each module: circuits close, requests are served, calls end.  The    *)
(* components share no state here, each is a small instance of its own;    *)
(* part says which of them a behaviour is about.                           *)
(***************************************************************************)
EXTENDS CircuitBreaker, PriorityScheduler, McpServer

VARIABLE part

LiveInit ==
    /\ part \in {"breaker", "scheduler", "mcp"}
    /\ CircuitInit /\ Init /\ McpInit

OfBreaker   == part = "breaker" /\ CircuitNext /\ UNCHANGED <<vars, mcpVars>>
OfScheduler == part = "scheduler" /\ ServeNext /\ UNCHANGED <<circuitVars, mcpVars>>
OfMcp       == part = "mcp" /\ McpNext /\ UNCHANGED <<circuitVars, vars>>

LiveNext == (OfBreaker \/ OfScheduler \/ OfMcp) /\ UNCHANGED part

\* The fairness of CircuitBreaker!FairCircuitSpec,
BreakerFairness ==
    /\ WF_circuitVars(part = "breaker" /\ Cool)
    /\ \A p \in Callers : /\ WF_circuitVars(part = "breaker" /\ Admit(p))
                          /\ SF_circuitVars(part = "breaker" /\ Succeed(p))

\* of PriorityScheduler!FairServeSpec,
SchedulerFairness ==
    /\ WF_vars(part = "scheduler" /\ Start)
    /\ \A r \in Requests : /\ SF_vars(part = "scheduler" /\ Put(r))
                           /\ WF_vars(part = "scheduler" /\ Receive(r))
    /\ \A w \in Workers : /\ WF_vars(part = "scheduler" /\ Take(w))
                          /\ WF_vars(part = "scheduler" /\ Finish(w))
                          /\ WF_vars(part = "scheduler" /\ Resume(w))

\* and of McpServer!McpSpec.
McpFairness == WF_mcpVars(part = "mcp" /\ Server)

\* The properties of each module hold for the other parts as these do not move.
LiveSpec ==
    /\ LiveInit /\ [][LiveNext]_<<part, circuitVars, vars, mcpVars>>
    /\ BreakerFairness /\ SchedulerFairness /\ McpFairness
===============================================================================
