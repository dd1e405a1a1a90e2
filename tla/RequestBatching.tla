--------------------------- MODULE RequestBatching ---------------------------
(***************************************************************************)
(* lib/request_batching.py: RequestBatcher.execute in its three modes.  A    *)
(* batch runs in waves: all of it at once (parallel), one request after the  *)
(* other (sequential), or whatever has its dependencies behind it            *)
(* (adaptive).  A wave is a gather: it waits for every call it started.      *)
(***************************************************************************)
EXTENDS Integers

CONSTANTS
    NumRequests,   \* the length of the batch
    Ids            \* request ids

ASSUME BatchAssumption == NumRequests \in Nat \ {0}

Rows == 1..NumRequests   \* the requests, by their place in the list

VARIABLES
    mode,        \* the batcher's BatchMode
    id,          \* id[r]: request_id
    dependsOn,   \* dependsOn[r]: depends_on
    pc,          \* where execute() is
    pending,     \* requests not started
    wave,        \* requests of the gather that execute() awaits
    running,     \* those of them whose executor has not returned
    completed,   \* ids behind the batch
    outcome,     \* outcome[r]: what became of request r
    answers      \* answers[r]: the response returned in place r

batch == <<mode, id, dependsOn>>
batcherVars == <<batch, pc, pending, wave, running, completed, outcome, answers>>

Modes == {"parallel", "sequential", "adaptive"}
Outcomes == {"success", "error", "cancelled"}
Statuses == Outcomes \cup {"none", "unresolved"}
Returned == {"done", "raised", "cancelled"}

BatcherInit ==
    /\ mode \in Modes
    /\ id \in [Rows -> Ids]
    /\ dependsOn \in [Rows -> SUBSET Ids]
    /\ pc = "new" /\ pending = {} /\ wave = {} /\ running = {} /\ completed = {}
    /\ outcome = [r \in Rows |-> "none"]
    /\ answers = [r \in Rows |-> [id |-> id[r], status |-> "none"]]

-----------------------------------------------------------------------------
(* The dictionary {request_id: request} keeps the last request of an id.    *)

Kept == {r \in Rows : \A s \in Rows : id[s] = id[r] => s <= r}

\* [mutant: an id counts as completed as soon as it is not pending]
SatisfiedEarly(r) ==
    \A d \in dependsOn[r] :
        d \in completed \/ (\E s \in Kept : id[s] = d /\ s < r)
Satisfied(r) == dependsOn[r] \subseteq completed

\* The requests the next gather starts; in a sequence, the next one.
Ready ==
    {r \in pending :
        /\ mode = "sequential" => \A s \in pending : r <= s
        /\ mode = "adaptive" => Satisfied(r)}

\* [mutant: places are filled in the order of the list, duplicates or not]
SourceInPlace(r) == r
\* The request whose response is returned in place r.
Source(r) ==
    IF mode = "adaptive" THEN CHOOSE s \in Kept : id[s] = id[r] ELSE r

-----------------------------------------------------------------------------
(* The batches that create_* build, and what is made of their responses.    *)

\* One request for each region or each file: independent, and numbered.
MultiBatch ==
    /\ mode = "parallel"
    /\ \A r, s \in Rows : id[r] = id[s] => r = s
    /\ \A r \in Rows : dependsOn[r] = {}

\* One step after the other, each said to depend on the one before it.
Pipeline ==
    /\ mode = "sequential"
    /\ \A r, s \in Rows : id[r] = id[s] => r = s
    /\ \A r \in Rows : dependsOn[r] = {id[s] : s \in {q \in Rows : q + 1 = r}}

\* batch_multi_read: a request that failed reads as no bytes.
Chunks == [r \in Rows |-> IF answers[r].status = "success" THEN "data" ELSE "empty"]

-----------------------------------------------------------------------------
Execute ==
    /\ pc = "new"
    /\ pc' = "planning"
    /\ pending' = IF mode = "adaptive" THEN Kept ELSE Rows
    /\ UNCHANGED <<batch, wave, running, completed, outcome, answers>>

StartWave ==
    /\ pc = "planning" /\ Ready # {}
    /\ wave' = Ready /\ running' = Ready
    /\ pending' = pending \ Ready
    /\ pc' = "waiting"
    /\ UNCHANGED <<batch, completed, outcome, answers>>

\* The executor returns, raises (an error response) or is cancelled itself.
End(r) ==
    /\ r \in running
    /\ running' = running \ {r}
    /\ \E o \in Outcomes : outcome' = [outcome EXCEPT ![r] = o]
    /\ UNCHANGED <<batch, pc, pending, wave, completed, answers>>

\* [mutant: only what succeeded is behind the batch, as a condition for all]
WaveDoneStrict ==
    /\ pc = "waiting" /\ running = {}
    /\ completed' = completed \cup {id[r] : r \in {s \in wave : outcome[s] = "success"}}
    /\ pc' = IF mode = "sequential" /\ \E r \in wave : outcome[r] = "cancelled"
             THEN "raised" ELSE "planning"
    /\ wave' = {}
    /\ UNCHANGED <<batch, pending, running, outcome, answers>>

\* A failed request is behind the batch like one that succeeded.  In a
\* sequence a CancelledError is no Exception and ends execute() at once.
WaveDone ==
    /\ pc = "waiting" /\ running = {}
    /\ completed' = completed \cup {id[r] : r \in wave}
    /\ pc' = IF mode = "sequential" /\ \E r \in wave : outcome[r] = "cancelled"
             THEN "raised" ELSE "planning"
    /\ wave' = {}
    /\ UNCHANGED <<batch, pending, running, outcome, answers>>

\* [mutant: a cycle is waited for]
LeaveUnresolvedSpins == pc = "planning" /\ pending # {} /\ Ready = {} /\ UNCHANGED batcherVars

\* No request is ready: a cycle, or an id that is not in the batch.
LeaveUnresolved ==
    /\ pc = "planning" /\ pending # {} /\ Ready = {}
    /\ outcome' = [r \in Rows |-> IF r \in pending THEN "unresolved" ELSE outcome[r]]
    /\ pending' = {}
    /\ UNCHANGED <<batch, pc, wave, running, completed, answers>>

\* The responses in the order of the requests.  A CancelledError that gather
\* returned passes for a response, and counting the successes raises.
Respond ==
    /\ pc = "planning" /\ pending = {}
    /\ IF \E r \in Rows : outcome[Source(r)] = "cancelled"
       THEN pc' = "raised" /\ UNCHANGED answers
       ELSE /\ pc' = "done"
            /\ answers' = [r \in Rows |-> [id     |-> id[Source(r)],
                                           status |-> outcome[Source(r)]]]
    /\ UNCHANGED <<batch, pending, wave, running, completed, outcome>>

\* The task that awaits execute() is cancelled, and gather cancels its calls.
Cancel ==
    /\ pc = "waiting"
    /\ pc' = "cancelled" /\ wave' = {} /\ running' = {}
    /\ outcome' = [r \in Rows |-> IF r \in running THEN "cancelled" ELSE outcome[r]]
    /\ UNCHANGED <<batch, pending, completed, answers>>

-----------------------------------------------------------------------------
BatcherNext ==
    \/ Execute \/ StartWave \/ WaveDone \/ LeaveUnresolved \/ Respond \/ Cancel
    \/ \E r \in Rows : End(r)

BatcherSpec == BatcherInit /\ [][BatcherNext]_batcherVars

\* execute() runs on, and the calls of the executor come to an end.
FairBatcherSpec ==
    /\ BatcherSpec
    /\ WF_batcherVars(Execute \/ StartWave \/ WaveDone \/ LeaveUnresolved \/ Respond)
    /\ \A r \in Rows : WF_batcherVars(End(r))

-----------------------------------------------------------------------------
BatcherTypeOK ==
    /\ mode \in Modes /\ id \in [Rows -> Ids] /\ dependsOn \in [Rows -> SUBSET Ids]
    /\ pc \in {"new", "planning", "waiting"} \cup Returned
    /\ pending \in SUBSET Rows /\ wave \in SUBSET Rows /\ running \in SUBSET wave
    /\ completed \in SUBSET Ids
    /\ outcome \in [Rows -> Statuses]
    /\ answers \in [Rows -> [id : Ids, status : Statuses]]

Ended(r) == outcome[r] \in Outcomes
Begun(r) == r \in running \/ Ended(r)

\* What must have ended when r begins.
Before(r) ==
    CASE mode = "parallel"   -> {}
      [] mode = "sequential" -> {s \in Rows : s < r}
      [] mode = "adaptive"   -> {s \in Kept : id[s] \in dependsOn[r]}

\* No request begins before those it has to wait for have ended, and none that
\* depends on an id missing from the batch begins at all.
OrderKept ==
    \A r \in Rows : Begun(r) =>
        /\ \A s \in Before(r) : Ended(s)
        /\ mode = "adaptive" => dependsOn[r] \subseteq {id[s] : s \in Kept}

\* Ids that can be completed at all: the least set closed under "all my
\* dependencies are in it".
Closed(S) == \A r \in Kept : dependsOn[r] \subseteq S => id[r] \in S
Resolvable == {i \in Ids : \A S \in SUBSET Ids : Closed(S) => i \in S}

\* Exactly the requests that hang on a cycle or on a missing id are answered
\* "Unresolved dependency"; every other one was executed.
UnresolvedExactly ==
    pc = "done" /\ mode = "adaptive" =>
        \A r \in Rows : answers[r].status = "unresolved" <=> id[r] \notin Resolvable

\* The responses come in the order of the requests, each under the id of its
\* request and with the outcome of a request of that id.
Aligned ==
    pc = "done" =>
        \A r \in Rows :
            /\ answers[r].id = id[r]
            /\ answers[r].status # "none"
            /\ \E s \in Rows : id[s] = id[r] /\ answers[r].status = outcome[s]

\* One failure does not break the batch: execute() raises only if the call of
\* an executor was cancelled.
Isolated == pc = "raised" => \E r \in Rows : outcome[r] = "cancelled"

\* In the batches the helpers build every place has the outcome of its own
\* request, none is unresolved (a pipeline runs on after a step that failed),
\* and batch_multi_read has data exactly for the regions that could be read.
OwnAnswers ==
    pc = "done" /\ (MultiBatch \/ Pipeline) =>
        \A r \in Rows :
            /\ answers[r].status = outcome[r] /\ outcome[r] # "unresolved"
            /\ Chunks[r] = "data" <=> outcome[r] = "success"

\* Whoever asks gets the answer to what was asked: each response in its place,
\* whatever happened to the others.
AnswersInPlace == Aligned /\ Isolated /\ OwnAnswers

\* execute() returns, cycles or not, once the calls it started have ended.
BatchEnds == <>(pc \in Returned)
=============================================================================
