----------------------------- MODULE MCImHexPlugin -----------------------------
(***************************************************************************)
(* An instance of ImHexPlugin, in which one connection asks everything and *)
(* one disturbs, one of PluginBatchDiff and one of RequestBatching: a      *)
(* behaviour is of the endpoint batch/diff, of all the others, or of a     *)
(* batch of the client.  They share no state.                              *)
(***************************************************************************)
EXTENDS ImHexPlugin, PluginBatchDiff, RequestBatching

CONSTANTS asker, other

VARIABLE part     \* what runs: "endpoints", "batch/diff" or "batcher"

MCData == 1 :> <<1, 0, 1>> @@ 2 :> <<1, 1, 1>> @@ 3 :> <<1, 0, 1>> @@ 4 :> <<1, 1, 1, 1, 1>>
MCTargets == {<<>>, <<2>>, <<2, 3>>, <<3, 4, 2>>, <<3, 9, 2>>}

\* Every list of requests; outside the adaptive mode nothing but the shape of a
\* pipeline reads what a request depends on.
Lists ==
    mode # "adaptive" =>
        dependsOn = [r \in Rows |-> IF mode = "parallel" \/ r = 1 THEN {} ELSE {id[r - 1]}]

OneList == mode = "parallel" /\ \A r, s \in Rows : id[r] = id[s]

PartsInit ==
    /\ part \in {"endpoints", "batch/diff", "batcher"}
    /\ Init /\ DiffInit
    /\ BatcherInit /\ Lists
    /\ part # "batcher" => OneList /\ id[1] = CHOOSE i \in Ids : TRUE

PartsNext ==
    /\ part' = part
    /\ \/ part = "endpoints" /\ Next /\ UNCHANGED <<diffVars, batcherVars>>
       \/ part = "batch/diff" /\ DiffNext /\ UNCHANGED <<vars, batcherVars>>
       \/ part = "batcher" /\ BatcherNext /\ UNCHANGED <<vars, diffVars>>

PartsSpec == PartsInit /\ [][PartsNext]_<<part, vars, diffVars, batcherVars>>

\* The fairness of RequestBatching!FairBatcherSpec: what BatchEnds says is of the
\* behaviours in which the batcher is what runs, no other one lets it run on.
FairPartsSpec ==
    /\ PartsSpec
    /\ WF_batcherVars(Execute \/ StartWave \/ WaveDone \/ LeaveUnresolved \/ Respond)
    /\ \A r \in Rows : WF_batcherVars(End(r))

MCLower == [a \in {"md5", "MD5", "unknown"} |-> IF a = "MD5" THEN "md5" ELSE a]

MCConns == {asker, other}
MCFiles == "a" :> <<1, 1, 0, 1, 2>> @@ "b" :> <<1, 0>>
MCMagics == {[at |-> 0, bytes |-> <<1, 1>>], [at |-> 2, bytes |-> <<0, 1>>]}

Ranges == {<<1, 3>>, <<4, 4>>, <<1, 31>>, <<5, 1>>}
Pats == {<<1>>, <<1, 1>>, <<0, 1>>, <<1, 0, 1>>}
Over(ep) == {[ep |-> ep, off |-> x[1], len |-> x[2]] : x \in Ranges}
Chosen(ep) == {[ep |-> ep, id |-> i, off |-> x[1], len |-> x[2]] : i \in {0, 2}, x \in {<<0, 5>>}}

Reads ==
    Over("data/read") \cup Over("data/export")
    \cup {[ep |-> "data/inspect", off |-> o] : o \in {0, 3, 5}}
    \cup {[ep |-> "hash/calculate", algo |-> a, off |-> x[1], len |-> x[2]] :
            a \in {"md5"}, x \in {<<1, 31>>, <<4, 4>>, <<2, Absent>>, <<6, Absent>>, <<18, 3>>, <<9, 3>>}}
    \cup {[ep |-> "hash/calculate", algo |-> "MD5", off |-> 0, len |-> 1]}
    \cup {[ep |-> "hash/calculate", algo |-> "unknown", off |-> 0, len |-> 1]}
    \cup {[ep |-> "data/read_chunked", off |-> 1, len |-> n, chunk |-> 2, idx |-> k, enc |-> "hex"] :
            n \in {3}, k \in 0..2}
    \cup {[ep |-> "data/read_chunked", off |-> 1, len |-> 3, chunk |-> 18, idx |-> 1, enc |-> "hex"]}
    \cup {[ep |-> "disasm/disassemble", off |-> 1, len |-> 4, arch |-> a, max |-> 3] :
            a \in {"x86", "unknown"}}

Searches ==
    {[ep |-> "search/find", type |-> "hex", odd |-> FALSE, pattern |-> p] : p \in Pats}
    \cup {[ep |-> "search/find", type |-> "hex", odd |-> TRUE, pattern |-> <<>>]}
    \cup {[ep |-> "search/multi", odd |-> FALSE, patterns |-> <<<<1>>, <<0, 1>>>>]}
    \cup {[ep |-> "batch/search", odd |-> FALSE, all |-> TRUE, ids |-> <<>>, pattern |-> p, max |-> 3] :
            p \in {q \in Pats : Len(q) < 3}}

Analyses ==
    Chosen("data/entropy") \cup Chosen("data/statistics") \cup Chosen("data/magic")
    \cup {[ep |-> "data/strings", id |-> 0, off |-> x[1], len |-> x[2], min |-> m, max |-> 3,
            type |-> IF m = 1 THEN "all" ELSE "ascii"] : x \in {<<0, 4>>, <<1, 0>>, <<17, 16>>}, m \in {1, 2}}
    \cup {r @@ [arch |-> "x86", max |-> 2] : r \in Chosen("data/disassemble")}
    \cup {[ep |-> e, id1 |-> 1, id2 |-> 2, max |-> 3] : e \in OfPair}
    \cup {[ep |-> "batch/hash", all |-> FALSE, ids |-> <<2, 1>>, algo |-> a, off |-> o, len |-> n] :
            a \in {"md5", "MD5"}, o \in {Absent, 1}, n \in {Absent, 3}}

Others ==
    {[ep |-> "bookmark/add"], [ep |-> "bookmark/remove", id |-> 1], [ep |-> "file/list"],
     [ep |-> "list/providers"], [ep |-> "provider/info"],
     [ep |-> "data/decode", odd |-> FALSE, enc |-> "hex", bytes |-> <<1>>],
     [ep |-> "search/export", unwritable |-> FALSE, matches |-> <<0>>]}

Disturbances ==
    {[ep |-> "file/open", path |-> p] : p \in {"a", "b"}}
    \cup {[ep |-> "file/close", id |-> i] : i \in {1, 2}}
    \cup {[ep |-> "file/switch", id |-> i] : i \in {1, 2}}
    \cup {[ep |-> "data/write", off |-> o, odd |-> FALSE, bytes |-> <<0, 1>>] : o \in {1}}

MCRequests ==
    asker :> Reads \cup Searches \cup Analyses \cup Others
             \cup {[ep |-> "file/open", path |-> p] : p \in {"a", "missing"}}
             \cup {[ep |-> "data/write", off |-> 4, odd |-> FALSE, bytes |-> <<0, 1>>]}
    @@ other :> Disturbances
==============================================================================
