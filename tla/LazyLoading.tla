----------------------------- MODULE LazyLoading -----------------------------
(***************************************************************************)
(* lib/lazy.py: one lazily loaded cell and the threads that get and reset  *)
(* it.  Every class tests without the lock, takes it, tests again, loads   *)
(* and stores; they differ in what is tested, in how a reset works and in  *)
(* what is stored.  A step is one read or write of an attribute.           *)
(***************************************************************************)
EXTENDS Integers, Sequences

CONSTANTS
    Getters,     \* threads that get, over and over
    Resetter,    \* the thread that resets
    MaxLoads,    \* bound on the calls of the factory
    MaxResets    \* bound on the resets

\* The threads are distinct, and none is the mark of a free lock.
ASSUME GettersAssumption == Resetter \notin Getters /\ "free" \notin Getters \cup {Resetter}

VARIABLES
    kind,      \* the class of the cell
    flag,      \* _initialized, _executed
    cell,      \* _value, _result, _metadata, _providers, the entry of a cache: a load's number
    lock,      \* the thread in the lock, or "free"
    at,        \* at[p]: what p does next
    began,     \* began[p]: the resets that were over when p's get began
    result,    \* result[p]: what p's last get came to
    loads,     \* loads[n]: what load n gave, and the resets over when it began
    resets     \* resets that are over

lazyVars == <<kind, flag, cell, lock, at, began, result, loads, resets>>

Empty == 0      \* None, or no such key or attribute
Broken == -1    \* AssertionError, None or KeyError
Module == -2    \* the module, where one of its attributes was asked for
Raised == -3    \* what the factory raised
Null == -4      \* None from the factory itself

Flagged == {"LazyValue", "DeferredOperation"}
Locked == Flagged \cup {"LazyProvider", "LazyProviderList"}
Forever == {"LazyProperty", "once", "lazy_import"}
Kinds == Locked \cup Forever \cup {"memoize"}

\* Where a None of the factory looks as if nothing had been loaded; the list of
\* providers is never None, and the other classes test for an attribute, a key or
\* a list, so that a None is a value to them.
Blanks == Flagged \cup {"LazyProvider", "lazy_import"}

LazyInit ==
    /\ kind \in Kinds
    /\ flag = FALSE /\ cell = Empty /\ lock = "free"
    /\ at = [p \in Getters \cup {Resetter} |-> "idle"]
    /\ began = [p \in Getters |-> 0] /\ result = [p \in Getters |-> Empty]
    /\ loads = <<>> /\ resets = 0

Loaded == IF kind \in Flagged THEN flag ELSE cell # Empty

Goto(p, step) == at' = [at EXCEPT ![p] = step]
EndGet(p, r) == Goto(p, "idle") /\ result' = [result EXCEPT ![p] = r]

BeginGet(p) ==
    /\ at[p] = "idle"
    /\ Goto(p, "test")
    /\ began' = [began EXCEPT ![p] = resets]
    /\ result' = [result EXCEPT ![p] = Empty]
    /\ UNCHANGED <<kind, flag, cell, lock, loads, resets>>

Test(p) ==
    /\ at[p] = "test"
    /\ Goto(p, IF Loaded THEN "read" ELSE "lock")
    /\ UNCHANGED <<kind, flag, cell, lock, began, result, loads, resets>>

\* What was tested is read again, by the assert and for the caller.
Read(p) ==
    /\ at[p] = "read"
    /\ EndGet(p, IF cell = Empty THEN Broken ELSE cell)
    /\ UNCHANGED <<kind, flag, cell, lock, began, loads, resets>>

\* [mutant: whoever gets the lock loads, without a second test]
TestLockedNever(p) ==
    /\ at[p] = "lock" /\ lock = "free" /\ Len(loads) < MaxLoads
    /\ Goto(p, "load") /\ lock' = p /\ loads' = Append(loads, [since |-> resets, gave |-> "nothing"])
    /\ UNCHANGED <<kind, flag, cell, began, result, resets>>

\* Inside the lock: a cell loaded meanwhile is returned, else the factory runs.
TestLocked(p) ==
    /\ at[p] = "lock" /\ lock = "free"
    /\ lock' = p
    /\ IF Loaded THEN Goto(p, "reread") /\ UNCHANGED loads
       ELSE /\ Len(loads) < MaxLoads
            /\ Goto(p, "load") /\ loads' = Append(loads, [since |-> resets, gave |-> "nothing"])
    /\ UNCHANGED <<kind, flag, cell, began, result, resets>>

ReadLocked(p) ==
    /\ at[p] = "reread"
    /\ lock' = "free"
    /\ EndGet(p, IF cell = Empty THEN Broken ELSE cell)
    /\ UNCHANGED <<kind, flag, cell, began, loads, resets>>

\* The factory returns something, or None, or raises; lazy_import has the module.
Load(p) ==
    /\ at[p] = "load"
    /\ \/ /\ cell' = IF kind = "lazy_import" THEN Module ELSE Len(loads)
          /\ Goto(p, "finish") /\ UNCHANGED <<lock, result>>
       \/ /\ kind \in Blanks \ {"lazy_import"}
          /\ cell' = Empty /\ Goto(p, "blank") /\ UNCHANGED <<lock, result>>
       \/ EndGet(p, Raised) /\ lock' = "free" /\ UNCHANGED cell
    /\ UNCHANGED <<kind, flag, began, loads, resets>>

Gives(what) == loads' = [loads EXCEPT ![Len(loads)].gave = what]

FinishLoad(p) ==
    /\ at[p] = "finish"
    /\ flag' = (kind \in Flagged)
    /\ cell' = IF kind = "lazy_import" THEN Len(loads) ELSE cell
    /\ lock' = "free"
    /\ EndGet(p, Len(loads)) /\ Gives("value")
    /\ UNCHANGED <<kind, began, resets>>

\* None is stored and flagged like any other value, and returned.
FinishNone(p) ==
    /\ at[p] = "blank" \/ (at[p] = "finish" /\ kind = "lazy_import")
    /\ flag' = (kind \in Flagged)
    /\ cell' = Empty
    /\ lock' = "free"
    /\ EndGet(p, Null) /\ Gives("none")
    /\ UNCHANGED <<kind, began, resets>>

\* The module lacks the attribute: getattr raises, and the module stays.
LacksAttribute(p) ==
    /\ at[p] = "finish" /\ kind = "lazy_import"
    /\ EndGet(p, Raised) /\ lock' = "free"
    /\ UNCHANGED <<kind, flag, cell, began, loads, resets>>

\* reset and invalidate; cache_clear is no method and takes no lock.
BeginReset ==
    /\ at[Resetter] = "idle" /\ resets < MaxResets /\ kind \notin Forever
    /\ cell' = Empty
    /\ IF kind = "memoize" THEN resets' = resets + 1 /\ UNCHANGED <<lock, at>>
       ELSE lock = "free" /\ lock' = Resetter /\ Goto(Resetter, "clear") /\ UNCHANGED resets
    /\ UNCHANGED <<kind, flag, began, result, loads>>

EndReset ==
    /\ at[Resetter] = "clear"
    /\ flag' = FALSE /\ lock' = "free" /\ resets' = resets + 1
    /\ Goto(Resetter, "idle")
    /\ UNCHANGED <<kind, cell, began, result, loads>>

LazyNext ==
    \/ \E p \in Getters : BeginGet(p) \/ Test(p) \/ Read(p) \/ TestLocked(p) \/ ReadLocked(p)
                          \/ Load(p) \/ FinishLoad(p) \/ FinishNone(p) \/ LacksAttribute(p)
    \/ BeginReset \/ EndReset

LazySpec == LazyInit /\ [][LazyNext]_lazyVars

-----------------------------------------------------------------------------
(* Properties. *)

\* A load after which there is nothing to load until the next reset.
Settles(n) == loads[n].gave = "value" \/ (loads[n].gave = "none" /\ kind \in Flagged)

\* Since the last reset the factory gave a None that a later get stumbles over.
Nulled == kind # "LazyProvider" /\ \E n \in DOMAIN loads : loads[n].gave = "none" /\ loads[n].since = resets

\* Double-checked locking works.  Between two resets the factory succeeds at most
\* once, unless it gives None to a class that takes that for nothing; a get returns
\* what was loaded after every reset that was over when it began, except by memoize,
\* whose cache_clear a running load outlives; it finds nothing, which fails the
\* assertion of LazyValue and DeferredOperation, only if a reset ran meanwhile or the
\* factory itself gave None; and a module for an attribute only in lazy_import.
LazyRight ==
    /\ \A m, n \in DOMAIN loads : m < n /\ Settles(m) => loads[m].since < loads[n].since
    /\ \A p \in Getters :
        /\ result[p] > 0 /\ kind # "memoize" => loads[result[p]].since >= began[p]
        /\ result[p] = Broken => at[Resetter] = "clear" \/ resets > began[p] \/ Nulled
        /\ result[p] = Null => kind \in Blanks
        /\ result[p] = Module => kind = "lazy_import"
=============================================================================
