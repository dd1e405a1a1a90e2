---------------------------- MODULE PluginBatchDiff ----------------------------
(***************************************************************************)
(* The endpoint batch/diff (plugin/source/plugin_mcp.cpp): one analysis    *)
(* after another runs as a task of ImHex that writes into local variables  *)
(* of the handler's loop, which waits for it by polling, for thirty        *)
(* seconds at most.  A task that is given up goes on and still writes.     *)
(***************************************************************************)
EXTENDS PluginBytes

CONSTANTS
    Data,        \* [id -> bytes] of the providers that may be open
    Reference,   \* reference_id
    Targets,     \* the lists of target_ids a client may send
    MaxDiffSize, \* 100 MB
    MaxPolls,    \* 300 polls of 100 ms
    MaxRegions,  \* max_diff_regions
    NoTree

\* A request that asks for no regions learns nothing of the files.
ASSUME DiffAssumption ==
    /\ MaxPolls \in Nat /\ MaxRegions \in Nat \ {0}
    /\ \A i \in DOMAIN Data : Data[i] \in Seq(Nat)

VARIABLES
    diffOpen, \* the providers that are open
    stage,    \* "idle", "next", "wait" or "done"
    known,    \* the handler's copy of getProviders()
    todo,     \* the targets that are left
    target,   \* the one being compared
    slot,     \* the loop's locals: [tree, completed, failed]
    polls,    \* polls of the current wait
    jobs,     \* the targets whose analysis has not ended
    late,     \* whether an analysis was ever given up
    diffs,    \* [target, tree, similarity] in order
    best,     \* <<most_similar, highest_similarity>>
    worst,    \* <<least_similar, lowest_similarity>>
    answer    \* "none", "ok", "error" or "undefined"

diffVars == <<diffOpen, stage, known, todo, target, slot, polls, jobs, late, diffs, best, worst, answer>>
loopVars == <<known, todo, diffs, best, worst, answer>>

FreshSlot == [tree |-> NoTree, completed |-> FALSE, failed |-> FALSE]

DiffInit ==
    /\ diffOpen = DOMAIN Data
    /\ stage = "idle" /\ known = {} /\ todo = <<>> /\ target = Reference
    /\ slot = FreshSlot /\ polls = 0 /\ jobs = {} /\ late = FALSE
    /\ diffs = <<>> /\ best = <<0, 0>> /\ worst = <<0, 100>>
    /\ answer = "none"

\* The tree an analysis of the reference and i gives.
TreeOf(i) == DiffAnalyze(Data[Reference], Data[i], MaxRegions)

Extent(i) == Max({Len(Data[Reference]), Len(Data[i])})
Similarity(tree, i) ==
    LET matched(b) == \E k \in DOMAIN tree :
                         tree[k].type = "match" /\ b \in tree[k].from..tree[k].to
    IN IF Extent(i) = 0 THEN 0
       ELSE (100 * Cardinality({b \in 0..(Extent(i) - 1) : matched(b)})) \div Extent(i)

Request(ids) ==
    /\ stage = "idle"
    /\ known' = diffOpen
    /\ todo' = ids
    /\ IF ids = <<>> \/ Reference \notin diffOpen \/ Len(Data[Reference]) > MaxDiffSize
       THEN stage' = "done" /\ answer' = "error"
       ELSE stage' = "next" /\ UNCHANGED answer
    /\ UNCHANGED <<diffOpen, target, slot, polls, jobs, late, diffs, best, worst>>

\* Mutant: the locals keep what the last comparison left in them.
NextTargetKeepsSlot ==
    /\ stage = "next" /\ todo # <<>>
    /\ todo' = Tail(todo)
    /\ IF Head(todo) \notin known
       THEN UNCHANGED <<stage, target, jobs>>
       ELSE /\ target' = Head(todo) /\ jobs' = jobs \cup {Head(todo)} /\ stage' = "wait"
    /\ polls' = 0
    /\ UNCHANGED <<diffOpen, known, slot, answer, late, diffs, best, worst>>

\* The next target: unknown and oversized ones are passed over, and asking a
\* provider that was closed since the list was copied for its id is undefined.
NextTarget ==
    /\ stage = "next" /\ todo # <<>>
    /\ todo' = Tail(todo)
    /\ LET i == Head(todo)
       IN IF ~(known \subseteq diffOpen)
          THEN stage' = "done" /\ answer' = "undefined" /\ UNCHANGED <<target, slot, polls, jobs>>
          ELSE IF i \notin known \/ Len(Data[i]) > MaxDiffSize
          THEN UNCHANGED <<stage, answer, target, slot, polls, jobs>>
          ELSE /\ target' = i /\ slot' = FreshSlot /\ polls' = 0
               /\ jobs' = jobs \cup {i}
               /\ stage' = "wait"
               /\ UNCHANGED answer
    /\ UNCHANGED <<diffOpen, known, late, diffs, best, worst>>

\* An analysis ends and writes its result where the handler's locals are now, or,
\* if it was given up, may hit nothing the handler still uses.
EndJob(i, outcome) ==
    /\ i \in jobs
    /\ jobs' = jobs \ {i}
    /\ \/ slot' = outcome
       \/ (i # target \/ stage # "wait") /\ UNCHANGED slot
    /\ UNCHANGED <<diffOpen, stage, target, polls, late, loopVars>>

Analysed(i) == EndJob(i, [tree |-> <<i, TreeOf(i)>>, completed |-> TRUE, failed |-> FALSE])
Failed(i) == EndJob(i, [slot EXCEPT !.completed = TRUE, !.failed = TRUE])

Poll ==
    /\ stage = "wait" /\ ~slot.completed /\ polls < MaxPolls
    /\ polls' = polls + 1
    /\ UNCHANGED <<diffOpen, stage, target, slot, jobs, late, loopVars>>

GiveUp ==
    /\ stage = "wait" /\ ~slot.completed /\ polls = MaxPolls
    /\ stage' = "next" /\ late' = TRUE
    /\ UNCHANGED <<diffOpen, target, slot, polls, jobs, loopVars>>

Skip ==
    /\ stage = "wait" /\ slot.completed /\ slot.failed
    /\ stage' = "next"
    /\ UNCHANGED <<diffOpen, target, slot, polls, jobs, late, loopVars>>

\* Mutant: the comparison is the wrong way round.
WorseSwapped(s) == s > worst[2]

Better(s) == s > best[2]
Worse(s) == s < worst[2]

Record ==
    /\ stage = "wait" /\ slot.completed /\ ~slot.failed
    /\ LET s == Similarity(slot.tree[2], target)
       IN IF ~({Reference, target} \subseteq diffOpen)
          THEN stage' = "done" /\ answer' = "undefined" /\ UNCHANGED <<diffs, best, worst>>
          ELSE /\ diffs' = Append(diffs, [target |-> target, of |-> slot.tree[1], similarity |-> s])
               /\ best' = IF Better(s) THEN <<target, s>> ELSE best
               /\ worst' = IF Worse(s) THEN <<target, s>> ELSE worst
               /\ stage' = "next"
               /\ UNCHANGED answer
    /\ UNCHANGED <<diffOpen, known, todo, target, slot, polls, jobs, late>>

EndDiff ==
    /\ stage = "next" /\ todo = <<>>
    /\ stage' = "done" /\ answer' = "ok"
    /\ UNCHANGED <<diffOpen, known, todo, target, slot, polls, jobs, late, diffs, best, worst>>

\* The main thread closes a provider.
Close(i) ==
    /\ i \in diffOpen
    /\ diffOpen' = diffOpen \ {i}
    /\ UNCHANGED <<stage, target, slot, polls, jobs, late, loopVars>>

DiffNext ==
    \/ \E ids \in Targets : Request(ids)
    \/ NextTarget \/ Poll \/ GiveUp \/ Skip \/ Record \/ EndDiff
    \/ \E i \in DOMAIN Data : Analysed(i) \/ Failed(i) \/ Close(i)

DiffSpec == DiffInit /\ [][DiffNext]_diffVars

---------------------------------------------------------------------------
(* Properties. *)

DiffTypeOK ==
    /\ diffOpen \subseteq DOMAIN Data /\ jobs \subseteq DOMAIN Data
    /\ stage \in {"idle", "next", "wait", "done"}
    /\ answer \in {"none", "ok", "error", "undefined"}
    /\ polls \in 0..MaxPolls

\* Until an analysis has been given up, every difference is reported for the file
\* it was computed from: the result slot belongs to the wait that reads it.
\* (The type invariant is part of it, not a property of its own.)
DiffsOwn == DiffTypeOK /\ (~late => \A k \in DOMAIN diffs : diffs[k].of = diffs[k].target)

\* No similarity that is reported lies outside the bounds of the summary, and a file
\* the summary names has the similarity it gives.
SummaryBounds ==
    /\ \A k \in DOMAIN diffs : /\ diffs[k].similarity <= best[2]
                               /\ diffs[k].similarity >= worst[2]
    /\ \A b \in {best, worst} : b[1] # 0 =>
          \E k \in DOMAIN diffs : diffs[k].target = b[1] /\ diffs[k].similarity = b[2]

\* The summary is about the differences reported, and without a given up analysis
\* a similarity of 100 means that the file equals the reference.
SummaryRight ==
    /\ SummaryBounds
    /\ ~late => \A k \in DOMAIN diffs :
          diffs[k].similarity = 100 <=>
              Data[diffs[k].target] = Data[Reference] /\ Data[Reference] # <<>>

==============================================================================
