----------------------------- MODULE ServerProofs -----------------------------
(***************************************************************************)
(* The server, its connections to ImHex and the plugin that answers them,  *)
(* for any number of calls, connections and files.  The server: whether    *)
(* the handler of a command ran shows on its connection, which is asked at *)
(* most once, and the text of a call is read off it.  The plugin: a path   *)
(* is asked for, about to be opened or open, once; and an answer is what   *)
(* the code computes from the bytes its handler held, so what is true of   *)
(* the operators on bytes is true of the answers.  The endpoint            *)
(* batch/diff: until an analysis is given up, the only one that runs is    *)
(* the one the handler waits for.                                          *)
(***************************************************************************)
EXTENDS McpServer, ImHexPlugin, PluginBatchDiff, ListProofs

-----------------------------------------------------------------------------
(* McpServer                                                               *)


Stages == {"none", "open", "asked", "ran", "answered", "stalled", "closed"}
Connections == [st : Stages, parts : Int, result : {"none", "ok", "failed"}]
Commands == 1..calls

ServerTypes ==
    /\ calls \in Nat
    /\ wire \in Seq(Connections) /\ Len(wire) = calls
    /\ ran \in Seq(Nat) /\ Len(ran) = calls
    /\ got \in {"nothing", "part", "all"}

\* A handler ran if and only if there is a result, and there is one after, and none
\* before, it has run; a connection that is closed does not tell.
RanOnce ==
    \A n \in Commands :
        /\ ran[n] = IF wire[n].result = "none" THEN 0 ELSE 1
        /\ wire[n].st \in {"none", "open", "asked"} => wire[n].result = "none"
        /\ wire[n].st \in {"ran", "answered", "stalled"} => wire[n].result # "none"

\* Where the call is, and what it has seen of its own connection.
CurrentCall ==
    /\ phase # "idle" => calls # 0
    /\ phase = "connect" => wire[calls].st = "none"
    /\ phase \in {"send", "recv", "parse"} => socket = calls
    /\ calls # 0 /\ got = "all" => wire[calls].result # "none"
    /\ phase = "connect" => got = "nothing"

\* What the text says.
Says ==
    phase = "text" =>
        /\ text = "success" => wire[calls].result = "ok"
        /\ text \in {"unknown_tool", "file_not_found"} => wire[calls].st = "none"
        /\ text = "unexpected_error" =>
              IF tool = "imhex_open_file" THEN wire[calls].st = "none"
              ELSE wire[calls].result = "ok"
        /\ got = "all" /\ text = "imhex_error" => wire[calls].result = "failed"

McpInv == ServerTypes /\ RanOnce /\ CurrentCall /\ Says

-----------------------------------------------------------------------------
LEMMA McpStarts == McpInit => McpInv
<1> SUFFICES ASSUME McpInit PROVE McpInv
  OBVIOUS
<1>1. /\ calls = 0 /\ wire = <<>> /\ ran = <<>> /\ phase = "idle" /\ got = "nothing"
  BY DEF McpInit
<1>2. ServerTypes
  BY <1>1 DEF ServerTypes
<1>3. RanOnce /\ CurrentCall /\ Says
  BY <1>1 DEF RanOnce, CurrentCall, Says, Commands
<1> QED
  BY <1>2, <1>3 DEF McpInv

\* One connection changes, the others and their commands do not.
LEMMA WireAt ==
    ASSUME ServerTypes, NEW n \in Commands, NEW c \in Connections
    PROVE  /\ [wire EXCEPT ![n] = c] \in Seq(Connections)
           /\ Len([wire EXCEPT ![n] = c]) = calls
           /\ \A k \in Commands : [wire EXCEPT ![n] = c][k] = IF k = n THEN c ELSE wire[k]
  BY ExceptSeq DEF ServerTypes, Commands

LEMMA WireTyped == ASSUME ServerTypes, NEW n \in Commands PROVE wire[n] \in Connections
  BY ElementOfSeq DEF ServerTypes, Commands

LEMMA CallToolKeeps == ASSUME McpInv, NEW t, CallTool(t) PROVE McpInv'
<1> USE DEF McpInv, Disconnect, ConnectionError
<1> DEFINE fresh == [st |-> "none", parts |-> 0, result |-> "none"]
<1>1. /\ calls' = calls + 1 /\ wire' = Append(wire, fresh) /\ ran' = Append(ran, 0)
      /\ calls \in Nat /\ wire \in Seq(Connections) /\ ran \in Seq(Nat) /\ fresh \in Connections
      /\ Len(wire) = calls /\ Len(ran) = calls
  BY DEF CallTool, ServerTypes, Connections, Stages
<1> HIDE DEF fresh
<1>2. /\ wire' \in Seq(Connections) /\ Len(wire') = calls' /\ wire'[calls'] = fresh
      /\ \A n \in 1..calls : wire'[n] = wire[n]
  BY <1>1, AppendProperties
<1>3. /\ ran' \in Seq(Nat) /\ Len(ran') = calls' /\ ran'[calls'] = 0
      /\ \A n \in 1..calls : ran'[n] = ran[n]
  BY <1>1, AppendProperties
<1>4. ServerTypes'
  BY <1>1, <1>2, <1>3 DEF ServerTypes, CallTool
<1>5. fresh.st = "none" /\ fresh.result = "none"
  BY DEF fresh
<1>6. RanOnce'
  <2>1. \A n \in Commands' : n \in Commands \/ n = calls'
    BY <1>1 DEF Commands
  <2> QED
    BY <1>2, <1>3, <1>5, <2>1 DEF RanOnce, Commands
<1>7. calls' # 0 /\ got' = "nothing" /\ phase' \in {"connect", "text"}
  BY <1>1 DEF CallTool
<1>8. CurrentCall'
  BY <1>2, <1>5, <1>7 DEF CurrentCall
<1>9. Says'
  BY <1>2, <1>5, <1>7 DEF Says, CallTool
<1> QED
  BY <1>4, <1>6, <1>8, <1>9

\* What a step does to one connection and its command is told by the record it leaves
\* there; the text of the call stays true, or is new.
LEMMA WireMoves ==
    ASSUME McpInv, NEW n \in Commands, NEW c \in Connections,
           wire' = [wire EXCEPT ![n] = c], calls' = calls, got' \in {"nothing", "part", "all"}, ran' \in Seq(Nat), Len(ran') = calls,
           \A k \in Commands : k # n => ran'[k] = ran[k],
           ran'[n] = IF c.result = "none" THEN 0 ELSE 1,
           c.st \in {"none", "open", "asked"} => c.result = "none",
           c.st \in {"ran", "answered", "stalled"} => c.result # "none"
    PROVE  /\ ServerTypes' /\ RanOnce'
           /\ \A k \in Commands : wire'[k] = IF k = n THEN c ELSE wire[k]
<1> USE DEF McpInv
<1>1. /\ wire' \in Seq(Connections) /\ Len(wire') = calls
      /\ \A k \in Commands : wire'[k] = IF k = n THEN c ELSE wire[k]
  BY WireAt
<1>2. ServerTypes' /\ Commands' = Commands
  BY <1>1 DEF ServerTypes, Commands
<1>3. RanOnce'
  BY <1>1, <1>2 DEF RanOnce
<1> QED
  BY <1>1, <1>2, <1>3

LEMMA ConnectKeeps == ASSUME McpInv, Connect PROVE McpInv'
<1> USE DEF McpInv, Disconnect
<1>1. /\ phase = "connect" /\ calls \in Commands /\ wire[calls].st = "none" /\ got = "nothing"
      /\ UNCHANGED <<calls, got, ran>>
  BY DEF Connect, CurrentCall, ServerTypes, Commands
<1>2. CASE /\ socket' = calls /\ phase' = "send" /\ wire' = [wire EXCEPT ![calls].st = "open"]
  <2> DEFINE c == [wire[calls] EXCEPT !.st = "open"]
  <2>1. wire' = [wire EXCEPT ![calls] = c]
    BY <1>2
  <2>2. wire[calls] \in Connections /\ ran[calls] = IF wire[calls].result = "none" THEN 0 ELSE 1
    BY <1>1, WireTyped DEF RanOnce
  <2>3. c \in Connections /\ c.st = "open" /\ c.result = "none" /\ wire[calls].result = "none"
    BY <1>1, <2>2 DEF Connections, Stages, RanOnce
  <2> HIDE DEF c
  <2>4. /\ ServerTypes' /\ RanOnce'
        /\ \A k \in Commands : wire'[k] = IF k = calls THEN c ELSE wire[k]
    BY <1>1, <2>1, <2>2, <2>3, WireMoves DEF ServerTypes
  <2>5. CurrentCall' /\ Says'
    BY <1>1, <1>2, <2>3, <2>4 DEF CurrentCall, Says
  <2> QED
    BY <2>4, <2>5
<1>3. CASE UNCHANGED wire /\ \/ UNCHANGED phase
                             \/ phase' = "text" /\ text' = "connection_error"
  BY <1>1, <1>3 DEF ServerTypes, RanOnce, CurrentCall, Says, Commands
<1> QED
  BY <1>2, <1>3 DEF Connect

\* A connection error says nothing of what became of the command.
LEMMA ConnectionErrorKeeps ==
    ASSUME McpInv, phase # "idle", ConnectionError, UNCHANGED <<calls, wire, got, ran>> PROVE McpInv'
  BY DEF McpInv, ConnectionError, ServerTypes, RanOnce, CurrentCall, Says, Commands

LEMMA SendAllKeeps == ASSUME McpInv, SendAll PROVE McpInv'
<1> USE DEF McpInv, Disconnect
<1>1. /\ phase = "send" /\ calls \in Commands /\ socket = calls /\ UNCHANGED <<calls, got, ran>>
  BY DEF SendAll, CurrentCall, ServerTypes, Commands
<1>2. CASE ConnectionError /\ UNCHANGED wire
  BY <1>1, <1>2, ConnectionErrorKeeps
<1>3. CASE /\ wire[socket].st = "open" /\ wire' = [wire EXCEPT ![socket].st = "asked"]
           /\ \/ phase' = "recv" /\ UNCHANGED <<text, socket>>
              \/ ConnectionError
  <2> DEFINE c == [wire[calls] EXCEPT !.st = "asked"]
  <2>1. wire' = [wire EXCEPT ![calls] = c]
    BY <1>1, <1>3
  <2>2. wire[calls] \in Connections /\ ran[calls] = IF wire[calls].result = "none" THEN 0 ELSE 1
    BY <1>1, WireTyped DEF RanOnce
  <2>3. c \in Connections /\ c.st = "asked" /\ c.result = "none" /\ wire[calls].result = "none"
    BY <1>1, <1>3, <2>2 DEF Connections, Stages, RanOnce
  <2> HIDE DEF c
  <2>4. /\ ServerTypes' /\ RanOnce'
        /\ \A k \in Commands : wire'[k] = IF k = calls THEN c ELSE wire[k]
    BY <1>1, <2>1, <2>2, <2>3, WireMoves DEF ServerTypes
  <2>5. CurrentCall' /\ Says'
    BY <1>1, <1>3, <2>3, <2>4 DEF CurrentCall, Says, ConnectionError
  <2> QED
    BY <2>4, <2>5
<1> QED
  BY <1>2, <1>3 DEF SendAll

LEMMA RecvKeeps == ASSUME McpInv, Recv PROVE McpInv'
<1> USE DEF McpInv
<1>1. /\ phase = "recv" /\ calls \in Commands /\ socket = calls
      /\ UNCHANGED <<calls, socket, ran, text>>
  BY DEF Recv, CurrentCall, ServerTypes, Commands
<1>2. CASE phase' = "parse" /\ UNCHANGED <<wire, got>>
  BY <1>1, <1>2 DEF ServerTypes, RanOnce, CurrentCall, Says, Commands
<1>3. CASE /\ wire[socket].parts > 0 /\ wire' = [wire EXCEPT ![socket].parts = @ - 1]
           /\ IF wire[socket].parts = 1 /\ wire[socket].st = "answered"
              THEN got' = "all" /\ phase' = "parse"
              ELSE got' = "part" /\ UNCHANGED phase
  <2> DEFINE c == [wire[calls] EXCEPT !.parts = wire[calls].parts - 1]
  <2>1. wire' = [wire EXCEPT ![calls] = c]
    BY <1>1, <1>3
  <2>2. wire[calls] \in Connections /\ ran[calls] = IF wire[calls].result = "none" THEN 0 ELSE 1
    BY <1>1, WireTyped DEF RanOnce
  <2>3. c \in Connections /\ c.st = wire[calls].st /\ c.result = wire[calls].result
    BY <2>2 DEF Connections
  <2> HIDE DEF c
  <2>4. /\ c.st \in {"none", "open", "asked"} => c.result = "none"
        /\ c.st \in {"ran", "answered", "stalled"} => c.result # "none"
    BY <1>1, <2>3 DEF RanOnce
  <2>5. /\ ServerTypes' /\ RanOnce'
        /\ \A k \in Commands : wire'[k] = IF k = calls THEN c ELSE wire[k]
    <3>1. got' \in {"nothing", "part", "all"}
      BY <1>3
    <3> QED
      BY <1>1, <2>1, <2>2, <2>3, <2>4, <3>1, WireMoves DEF ServerTypes
  <2>6. CurrentCall' /\ Says'
    BY <1>1, <1>3, <2>3, <2>4, <2>5 DEF CurrentCall, Says
  <2> QED
    BY <2>5, <2>6
<1> QED
  BY <1>2, <1>3 DEF Recv

LEMMA RecvTimeoutKeeps == ASSUME McpInv, RecvTimeout PROVE McpInv'
<1> USE DEF McpInv
<1>1. CASE got = "nothing"
  BY <1>1, ConnectionErrorKeeps DEF RecvTimeout
<1>2. CASE got # "nothing"
  BY <1>2 DEF RecvTimeout, ServerTypes, RanOnce, CurrentCall, Says, Commands
<1> QED
  BY <1>1, <1>2

LEMMA ParseKeeps == ASSUME McpInv, Parse PROVE McpInv'
<1> USE DEF McpInv
<1>1. /\ phase = "parse" /\ calls \in Commands /\ socket = calls /\ phase' = "text"
      /\ UNCHANGED <<tool, calls, wire, got, ran>>
  BY DEF Parse, CurrentCall, ServerTypes, Commands
<1>2. wire[calls].result \in {"none", "ok", "failed"}
  BY <1>1, WireTyped DEF Connections
<1>3. /\ text' = "success" => got = "all" /\ wire[calls].result = "ok"
      /\ text' \notin {"unknown_tool", "file_not_found"}
      /\ text' = "unexpected_error" =>
            tool # "imhex_open_file" /\ got = "all" /\ wire[calls].result = "ok"
      /\ got = "all" /\ text' = "imhex_error" => wire[calls].result # "ok"
  <2>1. CASE got = "nothing"
    BY <1>1, <2>1 DEF Parse
  <2>2. CASE got = "part"
    BY <1>1, <2>2 DEF Parse
  <2>3. CASE got = "all"
    BY <1>1, <2>3 DEF Parse, Reading, Misreading
  <2> QED
    BY <2>1, <2>2, <2>3 DEF ServerTypes
<1> QED
  BY <1>1, <1>2, <1>3 DEF ServerTypes, RanOnce, CurrentCall, Says, Commands

LEMMA ReturnKeeps == ASSUME McpInv, Return PROVE McpInv'
  BY DEF McpInv, Return, ServerTypes, RanOnce, CurrentCall, Says, Commands

-----------------------------------------------------------------------------
(* ImHex: a connection may go on while the call is elsewhere. *)

\* A connection gets no further than the current call knows it to be, and keeps the
\* result it has.
LEMMA PeerMoves ==
    ASSUME McpInv, NEW n \in Commands, NEW c \in Connections,
           UNCHANGED <<tool, calls, phase, attempt, socket, got, text>>,
           wire' = [wire EXCEPT ![n] = c], ran' \in Seq(Nat), Len(ran') = calls,
           \A k \in Commands : k # n => ran'[k] = ran[k],
           ran'[n] = IF c.result = "none" THEN 0 ELSE 1,
           c.st \in {"none", "open", "asked"} => c.result = "none",
           c.st \in {"ran", "answered", "stalled"} => c.result # "none",
           wire[n].st # "none", wire[n].result # "none" => c.result = wire[n].result
    PROVE  McpInv'
<1> USE DEF McpInv
<1>1. /\ ServerTypes' /\ RanOnce'
      /\ \A k \in Commands : wire'[k] = IF k = n THEN c ELSE wire[k]
  BY WireMoves DEF ServerTypes
<1>2. calls # 0 => calls \in Commands
  BY DEF ServerTypes, Commands
<1>3. CurrentCall'
  BY <1>1, <1>2 DEF CurrentCall
<1>4. Says'
  BY <1>1, <1>2 DEF CurrentCall, Says
<1> QED
  BY <1>1, <1>3, <1>4

LEMMA HandleKeeps == ASSUME McpInv, NEW n \in Commands, Handle(n) PROVE McpInv'
<1> USE DEF McpInv
<1>1. /\ wire[n].st = "asked" /\ ran' = [ran EXCEPT ![n] = ran[n] + 1]
      /\ UNCHANGED <<tool, calls, phase, attempt, socket, got, text>>
  BY DEF Handle
<1>2. PICK result \in {"ok", "failed"} :
         wire' = [wire EXCEPT ![n] = [wire[n] EXCEPT !.st = "ran", !.result = result]]
  BY DEF Handle
<1> DEFINE c == [wire[n] EXCEPT !.st = "ran", !.result = result]
<1>3. wire[n] \in Connections /\ wire[n].result = "none" /\ ran[n] = 0
  BY <1>1, WireTyped DEF RanOnce
<1>4. wire' = [wire EXCEPT ![n] = c]
  BY <1>2
<1>5. c \in Connections /\ c.st = "ran" /\ c.result = result
  BY <1>3 DEF Connections, Stages
<1> HIDE DEF c
<1>6. /\ ran' \in Seq(Nat) /\ Len(ran') = calls
      /\ \A k \in Commands : ran'[k] = IF k = n THEN 1 ELSE ran[k]
  <2>1. ran' = [ran EXCEPT ![n] = 1] /\ ran \in Seq(Nat) /\ n \in 1..Len(ran) /\ 1 \in Nat
    BY <1>1, <1>3 DEF ServerTypes, Commands
  <2> QED
    BY <2>1, ExceptSeq DEF ServerTypes, Commands
<1> QED
  BY <1>1, <1>3, <1>4, <1>5, <1>6, PeerMoves

LEMMA AnswerKeeps == ASSUME McpInv, NEW n \in Commands, Answer(n) PROVE McpInv'
<1> USE DEF McpInv
<1>1. /\ wire[n].st = "ran" /\ UNCHANGED <<tool, calls, phase, attempt, socket, got, ran, text>>
  BY DEF Answer
<1>2. PICK st \in {"answered", "stalled"}, k \in 1..MaxParts :
         wire' = [wire EXCEPT ![n] = [wire[n] EXCEPT !.st = st, !.parts = k]]
  BY DEF Answer
<1> DEFINE c == [wire[n] EXCEPT !.st = st, !.parts = k]
<1>3. wire[n] \in Connections /\ wire[n].result # "none"
  BY <1>1, WireTyped DEF RanOnce
<1>4. wire' = [wire EXCEPT ![n] = c]
  BY <1>2
<1>5. c \in Connections /\ c.st = st /\ c.result = wire[n].result
  <2>1. k \in Int
    BY McpAssumption
  <2> QED
    BY <1>3, <2>1 DEF Connections, Stages
<1> HIDE DEF c
<1>6. ran[n] = IF c.result = "none" THEN 0 ELSE 1
  BY <1>5 DEF RanOnce
<1> QED
  BY <1>1, <1>3, <1>4, <1>5, <1>6, PeerMoves DEF ServerTypes

LEMMA BreakKeeps == ASSUME McpInv, NEW n \in Commands, Break(n) PROVE McpInv'
<1> USE DEF McpInv
<1>1. /\ Ended(wire[n].st) # wire[n].st /\ wire' = [wire EXCEPT ![n].st = Ended(wire[n].st)]
      /\ UNCHANGED <<tool, calls, phase, attempt, socket, got, ran, text>>
  BY DEF Break
<1>2. wire[n].st # "none" /\ Ended(wire[n].st) = "closed"
  BY <1>1 DEF Ended
<1> DEFINE c == [wire[n] EXCEPT !.st = "closed"]
<1>3. wire[n] \in Connections
  BY WireTyped
<1>4. wire' = [wire EXCEPT ![n] = c]
  BY <1>1, <1>2
<1>5. c \in Connections /\ c.st = "closed" /\ c.result = wire[n].result
  BY <1>3 DEF Connections, Stages
<1> HIDE DEF c
<1>6. ran[n] = IF c.result = "none" THEN 0 ELSE 1
  BY <1>5 DEF RanOnce
<1> QED
  BY <1>1, <1>2, <1>3, <1>4, <1>5, <1>6, PeerMoves DEF ServerTypes

\* ImHex stops, and all of its connections with it.
LEMMA StartOrStopKeeps == ASSUME McpInv, StartOrStop PROVE McpInv'
<1> USE DEF McpInv
<1>1. UNCHANGED <<tool, calls, phase, attempt, socket, got, ran, text>>
  BY DEF StartOrStop
<1>2. CASE UNCHANGED wire
  BY <1>1, <1>2 DEF ServerTypes, RanOnce, CurrentCall, Says, Commands
<1>3. CASE wire' = [n \in DOMAIN wire |-> [wire[n] EXCEPT !.st = Ended(wire[n].st)]]
  <2>1. DOMAIN wire = Commands /\ calls \in Nat
    BY LenProperties DEF ServerTypes, Commands
  <2>2. \A n \in Commands : /\ wire'[n] \in Connections /\ wire'[n].result = wire[n].result
                            /\ wire'[n].st = Ended(wire[n].st)
    BY <1>3, <2>1, WireTyped DEF Connections, Stages, Ended
  <2>3. wire' = [n \in Commands |-> wire'[n]]
    BY <1>3, <2>1
  <2>4. wire' \in Seq(Connections) /\ Len(wire') = calls
    BY <2>1, <2>2, <2>3, SeqDef, LenProperties DEF Commands
  <2>5. ServerTypes' /\ Commands' = Commands
    BY <1>1, <2>4 DEF ServerTypes, Commands
  <2>6. RanOnce'
    BY <1>1, <2>2, <2>5 DEF RanOnce, Ended
  <2>7. calls # 0 => calls \in Commands
    BY <2>1 DEF Commands
  <2>8. CurrentCall' /\ Says'
    BY <1>1, <2>2, <2>7 DEF CurrentCall, Says, Ended
  <2> QED
    BY <2>5, <2>6, <2>8
<1> QED
  BY <1>2, <1>3 DEF StartOrStop

LEMMA McpSteps == McpInv /\ [McpNext]_mcpVars => McpInv'
<1> SUFFICES ASSUME McpInv, [McpNext]_mcpVars PROVE McpInv'
  OBVIOUS
<1>1. CASE UNCHANGED mcpVars
  BY <1>1 DEF mcpVars, McpInv, ServerTypes, RanOnce, CurrentCall, Says, Commands
<1>2. CASE \E t \in Used : CallTool(t)
  BY <1>2, CallToolKeeps
<1>3. CASE Server
  BY <1>3, ConnectKeeps, SendAllKeeps, RecvKeeps, RecvTimeoutKeeps, ParseKeeps, ReturnKeeps DEF Server
<1>4. CASE ImHex
  <2>1. DOMAIN wire = Commands
    BY LenProperties DEF McpInv, ServerTypes, Commands
  <2> QED
    BY <1>4, <2>1, HandleKeeps, AnswerKeeps, BreakKeeps, StartOrStopKeeps DEF ImHex
<1> QED
  BY <1>1, <1>2, <1>3, <1>4 DEF McpNext

\* The server's variables keep their types: a call that connects has an attempt
\* left, and the socket is the one of a command there has been.
THEOREM McpTypeCorrect == McpSpec => []McpTypeOK
<1>1. McpInit => McpInv /\ McpTypeOK
  <2>1. McpInit => McpInv
    BY McpStarts
  <2>2. McpInit => McpTypeOK
    BY McpAssumption DEF McpInit, McpTypeOK
  <2> QED
    BY <2>1, <2>2
<1>2. McpInv /\ McpTypeOK /\ [McpNext]_mcpVars => (McpInv /\ McpTypeOK)'
  <2> SUFFICES ASSUME McpInv, McpTypeOK, [McpNext]_mcpVars PROVE McpTypeOK'
    BY McpSteps
  <2>1. McpInv'
    BY McpSteps
  <2>2. /\ Len(wire') = calls' /\ Len(ran') = calls' /\ got' \in {"nothing", "part", "all"}
        /\ calls \in Nat /\ calls' \in Nat /\ MaxRetries \in Nat \ {0}
        /\ phase \in {"send", "recv", "parse"} => socket = calls
    BY <2>1, McpAssumption DEF McpInv, ServerTypes, CurrentCall
  <2> SUFFICES /\ phase' \in {"idle", "connect", "send", "recv", "parse", "text"}
               /\ attempt' \in 0..MaxRetries /\ (phase' = "connect" => attempt' < MaxRetries)
               /\ socket' \in 0..calls'
    BY <2>2 DEF McpTypeOK
  <2> USE <2>2 DEF McpTypeOK
  <2>3. CASE UNCHANGED mcpVars
    BY <2>3 DEF mcpVars
  <2>4. ASSUME NEW t \in Used, CallTool(t)
        PROVE  attempt' = 0 /\ socket' = 0 /\ phase' \in {"connect", "text"}
    BY <2>4 DEF CallTool, Disconnect
  <2>5. CASE Connect
    BY <2>5 DEF Connect, Disconnect
  <2>6. CASE SendAll
    BY <2>6 DEF SendAll, ConnectionError, Disconnect
  <2>7. CASE Recv
    BY <2>7 DEF Recv
  <2>8. CASE RecvTimeout
    BY <2>8 DEF RecvTimeout, ConnectionError, Disconnect
  <2>9. CASE Parse
    BY <2>9 DEF Parse
  <2>10. CASE Return
    BY <2>10 DEF Return
  <2>11. CASE ImHex
    BY <2>11 DEF ImHex, StartOrStop, Handle, Answer, Break
  <2> QED
    BY <2>3, <2>4, <2>5, <2>6, <2>7, <2>8, <2>9, <2>10, <2>11 DEF McpNext, Server
<1> QED
  BY <1>1, <1>2, PTL DEF McpSpec

\* The text of a tool call is true of its own command, and no command runs twice,
\* however often the server connects again, ImHex goes away or an answer stays out:
\* for any number of calls, retries and pieces of an answer.
THEOREM McpTextTrue == McpSpec => []TextTrue
<1>1. McpInit => McpInv
  BY McpStarts
<1>2. McpInv /\ [McpNext]_mcpVars => McpInv'
  BY McpSteps
<1>3. McpInv => TextTrue
  <2> SUFFICES ASSUME McpInv PROVE TextTrue
    OBVIOUS
  <2>1. DOMAIN ran = Commands /\ (calls # 0 => calls \in Commands)
    BY LenProperties DEF McpInv, ServerTypes, Commands
  <2>2. \A n \in DOMAIN ran : ran[n] <= 1
    BY <2>1 DEF McpInv, RanOnce
  <2> QED
    BY <2>1, <2>2 DEF McpInv, RanOnce, CurrentCall, Says, TextTrue
<1> QED
  BY <1>1, <1>2, <1>3, PTL DEF McpSpec


\* Only a handler gives a command its result.
LEMMA ResultStays ==
    ASSUME McpInv, NEW m \in Commands, NEW c, wire' = [wire EXCEPT ![m] = c],
           c.result = wire[m].result
    PROVE  \A n \in Commands : wire'[n].result = wire[n].result
BY DEF McpInv, ServerTypes, Commands

LEMMA ResultOf ==
    ASSUME McpInv, Server \/ StartOrStop \/ \E m \in Commands : Answer(m) \/ Break(m)
    PROVE  /\ UNCHANGED <<tool, given, calls>>
           /\ \A n \in Commands : wire'[n].result = wire[n].result
<1> USE DEF McpInv
<1>0. \A n \in Commands : wire[n] \in Connections
  BY WireTyped
<1>1. phase \in {"connect", "send", "recv"} => calls \in Commands
  BY DEF CurrentCall, ServerTypes, Commands
<1>2. phase \in {"send", "recv"} => socket = calls
  BY DEF CurrentCall
<1>3. CASE UNCHANGED wire /\ UNCHANGED <<tool, given, calls>>
  BY <1>3
<1>4. CASE Connect
  <2> DEFINE c == [wire[calls] EXCEPT !.st = "open"]
  <2>1. /\ UNCHANGED <<tool, given, calls>> /\ calls \in Commands
        /\ UNCHANGED wire \/ wire' = [wire EXCEPT ![calls] = c]
    BY <1>1, <1>4 DEF Connect
  <2>2. c.result = wire[calls].result
    BY <1>0, <2>1 DEF Connections
  <2> HIDE DEF c
  <2> QED BY <2>1, <2>2, ResultStays
<1>5. CASE SendAll
  <2> DEFINE c == [wire[calls] EXCEPT !.st = "asked"]
  <2>1. /\ UNCHANGED <<tool, given, calls>> /\ calls \in Commands
        /\ UNCHANGED wire \/ wire' = [wire EXCEPT ![calls] = c]
    BY <1>1, <1>2, <1>5 DEF SendAll
  <2>2. c.result = wire[calls].result
    BY <1>0, <2>1 DEF Connections
  <2> HIDE DEF c
  <2> QED BY <2>1, <2>2, ResultStays
<1>6. CASE Recv
  <2> DEFINE c == [wire[calls] EXCEPT !.parts = wire[calls].parts - 1]
  <2>1. /\ UNCHANGED <<tool, given, calls>> /\ calls \in Commands
        /\ UNCHANGED wire \/ wire' = [wire EXCEPT ![calls] = c]
    BY <1>1, <1>2, <1>6 DEF Recv
  <2>2. c.result = wire[calls].result
    BY <1>0, <2>1 DEF Connections
  <2> HIDE DEF c
  <2> QED BY <2>1, <2>2, ResultStays
<1>7. CASE RecvTimeout \/ Parse \/ Return
  BY <1>7, <1>3 DEF RecvTimeout, Parse, Return
<1>8. ASSUME NEW m \in Commands, Answer(m)
      PROVE  UNCHANGED <<tool, given, calls>> /\ \A n \in Commands : wire'[n].result = wire[n].result
  <2>1. PICK st \in {"answered", "stalled"}, k \in 1..MaxParts :
           wire' = [wire EXCEPT ![m] = [wire[m] EXCEPT !.st = st, !.parts = k]]
    BY <1>8 DEF Answer
  <2> DEFINE c == [wire[m] EXCEPT !.st = st, !.parts = k]
  <2>2. UNCHANGED <<tool, given, calls>> /\ wire' = [wire EXCEPT ![m] = c]
    BY <1>8, <2>1 DEF Answer
  <2>3. c.result = wire[m].result
    BY <1>0 DEF Connections
  <2> HIDE DEF c
  <2> QED BY <2>2, <2>3, ResultStays
<1>9. ASSUME NEW m \in Commands, Break(m)
      PROVE  UNCHANGED <<tool, given, calls>> /\ \A n \in Commands : wire'[n].result = wire[n].result
  <2> DEFINE c == [wire[m] EXCEPT !.st = Ended(wire[m].st)]
  <2>1. UNCHANGED <<tool, given, calls>> /\ wire' = [wire EXCEPT ![m] = c]
    BY <1>9 DEF Break
  <2>2. c.result = wire[m].result
    BY <1>0 DEF Connections
  <2> HIDE DEF c
  <2> QED BY <2>1, <2>2, ResultStays
<1>10. CASE StartOrStop
  <2>1. /\ UNCHANGED <<tool, given, calls>> /\ DOMAIN wire = Commands
        /\ UNCHANGED wire
           \/ wire' = [n \in DOMAIN wire |-> [wire[n] EXCEPT !.st = Ended(wire[n].st)]]
    BY <1>10 DEF StartOrStop, ServerTypes, Commands
  <2>2. \A n \in Commands : [wire[n] EXCEPT !.st = Ended(wire[n].st)].result = wire[n].result
    BY <1>0 DEF Connections
  <2> QED BY <2>1, <2>2
<1> QED BY <1>4, <1>5, <1>6, <1>7, <1>8, <1>9, <1>10 DEF Server

Served == calls # 0 /\ wire[calls].result = "ok" => Understood(tool, given)

LEMMA ServedSteps == McpInv /\ Served /\ [McpNext]_mcpVars => Served'
<1> SUFFICES ASSUME McpInv, Served, [McpNext]_mcpVars PROVE Served'
  OBVIOUS
<1> HIDE DEF Understood
<1>0. calls # 0 => calls \in Commands
  BY DEF McpInv, ServerTypes, Commands
<1>1. CASE UNCHANGED mcpVars
  BY <1>1 DEF mcpVars, Served, Understood, Sent
<1>2. ASSUME NEW t \in Used, CallTool(t) PROVE Served'
  <2>1. /\ ran' = Append(ran, 0) /\ calls' = calls + 1
        /\ calls \in Nat /\ ran \in Seq(Nat) /\ Len(ran) = calls
    BY <1>2 DEF CallTool, McpInv, ServerTypes
  <2>2. ran'[calls'] = 0 /\ calls' \in Commands'
    BY <2>1, AppendProperties DEF Commands
  <2>3. RanOnce'
    BY <1>2, CallToolKeeps DEF McpInv
  <2> QED BY <2>2, <2>3 DEF RanOnce, Served
<1>3. ASSUME NEW n \in Commands, Handle(n) PROVE Served'
  <2>1. UNCHANGED <<tool, given, calls>>
    BY <1>3 DEF Handle
  <2>2. PICK result \in (IF n = calls /\ Understood(tool, given) THEN {"ok", "failed"} ELSE {"failed"}) :
           wire' = [wire EXCEPT ![n] = [wire[n] EXCEPT !.st = "ran", !.result = result]]
    BY <1>3 DEF Handle
  <2> DEFINE c == [wire[n] EXCEPT !.st = "ran", !.result = result]
  <2>3. wire' = [wire EXCEPT ![n] = c] /\ c.result = result
    BY <2>2, WireTyped DEF McpInv, Connections
  <2>4. c.result = "ok" => Understood(tool, given)
    BY <2>2, <2>3
  <2> HIDE DEF c
  <2>5. DOMAIN wire = Commands
    BY DEF McpInv, ServerTypes, Commands
  <2>6. calls # 0 /\ wire'[calls].result = "ok" => Understood(tool, given)
    BY <1>0, <2>3, <2>4, <2>5 DEF Served
  <2> QED BY <2>1, <2>6 DEF Served, Understood, Sent
<1>4. ASSUME Server \/ StartOrStop \/ \E m \in Commands : Answer(m) \/ Break(m) PROVE Served'
  <2>1. /\ UNCHANGED <<tool, given, calls>>
        /\ \A n \in Commands : wire'[n].result = wire[n].result
    BY <1>4, ResultOf
  <2>2. calls # 0 /\ wire'[calls].result = "ok" => Understood(tool, given)
    BY <1>0, <2>1 DEF Served
  <2> QED BY <2>1, <2>2 DEF Served, Understood, Sent
<1>5. DOMAIN wire = Commands
  BY DEF McpInv, ServerTypes, Commands
<1> QED BY <1>1, <1>2, <1>3, <1>4, <1>5 DEF McpNext, ImHex

\* A tool call that reports success sent a command whose endpoint there is, with all
\* that the endpoint insists on: for any number of calls, retries and arguments.
THEOREM McpSuccessUnderstood ==
    McpSpec => [](phase = "text" /\ text = "success" => Understood(tool, given))
<1>1. McpInit => Served
  BY DEF McpInit, Served
<1>2. McpInv /\ Served => (phase = "text" /\ text = "success" => Understood(tool, given))
  BY DEF McpInv, Says, CurrentCall, Served
<1> QED
  BY <1>1, <1>2, McpStarts, McpSteps, ServedSteps, PTL DEF McpSpec

-----------------------------------------------------------------------------
(* PluginBytes: what is joined from pieces.                                 *)

\* p is a function on 1..m.
Places(p, m) == p = [k \in 1..m |-> p[k]]

\* What is given by its places is a sequence.
LEMMA SeqByPlaces ==
    ASSUME NEW S, NEW m \in Nat, NEW p, Places(p, m), \A k \in 1..m : p[k] \in S
    PROVE  p \in Seq(S) /\ Len(p) = m /\ DOMAIN p = 1..m
<1>1. p \in [1..m -> S]
  BY DEF Places
<1>2. p \in Seq(S)
  BY <1>1, SeqDef
<1>3. DOMAIN p = 1..m /\ DOMAIN p = 1..Len(p) /\ Len(p) \in Nat
  BY <1>1, <1>2, LenProperties
<1> QED BY <1>2, <1>3

JoinedTo(f, p, m) == f = [n \in 0..m |-> IF n = 0 THEN <<>> ELSE f[n - 1] \o p[n]]

LEMMA JoinedToExists ==
    ASSUME NEW p, NEW m \in Nat
    PROVE  \E f : JoinedTo(f, p, m)
<1> DEFINE T == {k \in Nat : \E f : JoinedTo(f, p, k)}
<1>1. 0 \in T
  <2>1. JoinedTo([n \in 0..0 |-> <<>>], p, 0)
    BY DEF JoinedTo
  <2>2. QED BY <2>1
<1>2. ASSUME NEW k \in Nat, k \in T PROVE k + 1 \in T
  <2>1. PICK f : JoinedTo(f, p, k)
    BY <1>2
  <2> DEFINE G(h, n) == IF n = 0 THEN <<>> ELSE h[n - 1] \o p[n]
             g == [n \in 0..(k + 1) |-> IF n = k + 1 THEN G(f, n) ELSE f[n]]
  <2>2. \A n \in 0..k : f[n] = G(f, n)
    BY <2>1 DEF JoinedTo
  <2>3. ASSUME NEW n \in 0..(k + 1) PROVE g[n] = G(g, n)
    <3>1. n = k + 1 \/ n \in 0..k
      OBVIOUS
    <3>2. n # 0 => n - 1 \in 0..k /\ n - 1 # k + 1
      BY <3>1
    <3>3. n # 0 => g[n - 1] = f[n - 1]
      BY <3>2
    <3>4. g[n] = G(f, n)
      BY <2>2, <3>1
    <3>5. QED BY <3>3, <3>4
  <2>4. g = [n \in 0..(k + 1) |-> G(g, n)]
    BY <2>3
  <2> HIDE DEF g
  <2>5. JoinedTo(g, p, k + 1)
    BY <2>4 DEF JoinedTo
  <2>6. QED BY <2>5
<1> HIDE DEF T
<1>3. m \in T
  BY <1>1, <1>2, NatSteps
<1>4. QED BY <1>3 DEF T

LEMMA JoinedIs ==
    ASSUME NEW p, NEW m \in Nat, Len(p) = m
    PROVE  \E f : JoinedTo(f, p, m) /\ Joined(p) = f[m]
<1>1. PICK f : JoinedTo(f, p, m)
  BY JoinedToExists
<1> QED BY <1>1, Zenon DEF Joined, JoinedTo

\* Whether x is in the piece k of p; and whether x comes from an earlier place of p
\* than y.
In(p, n, x) == \E k \in 1..n : \E a \in 1..Len(p[k]) : x = p[k][a]
Earlier(p, n, x, y) ==
    \E k, l \in 1..n : \E a \in 1..Len(p[k]), b \in 1..Len(p[l]) :
        x = p[k][a] /\ y = p[l][b] /\ (k < l \/ (k = l /\ a < b))

\* t has all of the first n pieces of p, and nothing else, in their order.
JoinOf(t, S, p, n) ==
    /\ t \in Seq(S)
    /\ \A i \in 1..Len(t) : In(p, n, t[i])
    /\ \A x : In(p, n, x) => \E i \in 1..Len(t) : t[i] = x
    /\ \A i, j \in 1..Len(t) : i < j => Earlier(p, n, t[i], t[j])

LEMMA JoinStep ==
    ASSUME NEW S, NEW p, NEW n \in Nat, NEW t, JoinOf(t, S, p, n), p[n + 1] \in Seq(S)
    PROVE  JoinOf(t \o p[n + 1], S, p, n + 1)
<1> DEFINE q == p[n + 1]
           u == t \o q
           lt == Len(t)
           lq == Len(q)
<1>1. /\ u \in Seq(S) /\ Len(u) = lt + lq /\ lt \in Nat /\ lq \in Nat
      /\ \A i \in 1..(lt + lq) : u[i] = IF i <= lt THEN t[i] ELSE q[i - lt]
  BY ConcatProperties, LenProperties DEF JoinOf
<1> HIDE DEF u, lt, lq
<1>2. \A i \in 1..(lt + lq) : (i \in 1..lt /\ u[i] = t[i]) \/ (i - lt \in 1..lq /\ u[i] = q[i - lt] /\ i > lt)
  BY <1>1
<1>3. 1..n \subseteq 1..(n + 1) /\ n + 1 \in 1..(n + 1) /\ \A k \in 1..n : k < n + 1
  OBVIOUS
<1>4. \A x : In(p, n + 1, x) <=> In(p, n, x) \/ \E a \in 1..lq : x = q[a]
  BY <1>3 DEF In, lq
<1>5. \A i \in 1..Len(u) : In(p, n + 1, u[i])
  BY <1>1, <1>2, <1>4 DEF JoinOf, lt
<1>6. ASSUME NEW x, In(p, n + 1, x) PROVE \E i \in 1..Len(u) : u[i] = x
  <2>1. CASE In(p, n, x)
    <3>1. PICK i \in 1..lt : t[i] = x
      BY <2>1 DEF JoinOf, lt
    <3>2. i \in 1..(lt + lq) /\ i <= lt
      BY <1>1
    <3> QED BY <1>1, <3>1, <3>2
  <2>2. CASE \E a \in 1..lq : x = q[a]
    <3>1. PICK a \in 1..lq : x = q[a]
      BY <2>2
    <3>2. lt + a \in 1..(lt + lq) /\ ~(lt + a <= lt) /\ (lt + a) - lt = a
      BY <1>1
    <3>3. u[lt + a] = q[a]
      BY <1>1, <3>2
    <3> QED BY <1>1, <3>1, <3>2, <3>3
  <2> QED BY <1>4, <1>6, <2>1, <2>2
<1>7. ASSUME NEW i \in 1..Len(u), NEW j \in 1..Len(u), i < j PROVE Earlier(p, n + 1, u[i], u[j])
  <2>0. i \in 1..(lt + lq) /\ j \in 1..(lt + lq)
    BY <1>1
  <2>1. CASE j \in 1..lt
    <3>1. i \in 1..lt /\ u[i] = t[i] /\ u[j] = t[j]
      BY <1>1, <1>7, <2>0, <2>1
    <3>2. Earlier(p, n, t[i], t[j])
      BY <1>7, <2>1, <3>1 DEF JoinOf, lt
    <3> QED BY <1>3, <3>1, <3>2 DEF Earlier
  <2>2. CASE j \notin 1..lt
    <3>1. j - lt \in 1..lq /\ u[j] = q[j - lt]
      BY <1>2, <2>0, <2>2
    <3>2. CASE i \in 1..lt
      <4>1. u[i] = t[i]
        BY <1>1, <2>0, <3>2
      <4>2. PICK k \in 1..n : \E a \in 1..Len(p[k]) : u[i] = p[k][a]
        BY <3>2, <4>1 DEF JoinOf, In, lt
      <4>3. k < n + 1 /\ k \in 1..(n + 1)
        BY <1>3
      <4> QED BY <1>3, <3>1, <4>2, <4>3 DEF Earlier, lq
    <3>3. CASE i \notin 1..lt
      <4>1. i - lt \in 1..lq /\ u[i] = q[i - lt]
        BY <1>2, <2>0, <3>3
      <4>2. i - lt < j - lt
        BY <1>1, <1>7
      <4> QED BY <1>3, <3>1, <4>1, <4>2 DEF Earlier, lq
    <3> QED BY <3>2, <3>3
  <2> QED BY <2>1, <2>2
<1> QED BY <1>1, <1>5, <1>6, <1>7 DEF JoinOf, u, lt

LEMMA JoinsUpTo ==
    ASSUME NEW S, NEW p, NEW m \in Nat, \A k \in 1..m : p[k] \in Seq(S),
           NEW f, JoinedTo(f, p, m)
    PROVE  JoinOf(f[m], S, p, m)
<1> DEFINE F(n) == IF n = 0 THEN <<>> ELSE f[n - 1] \o p[n]
<1>0. \A n \in 0..m : f[n] = F(n)
  BY DEF JoinedTo
<1>a. ASSUME NEW n \in Nat, n + 1 <= m PROVE f[n + 1] = f[n] \o p[n + 1] /\ p[n + 1] \in Seq(S)
  <2>1. n + 1 \in 0..m /\ n + 1 # 0 /\ (n + 1) - 1 = n /\ n + 1 \in 1..m
    BY <1>a
  <2> QED BY <1>0, <2>1
<1> DEFINE T == {n \in Nat : n <= m => JoinOf(f[n], S, p, n)}
<1>1. 0 \in T
  <2>1. f[0] = <<>>
    BY <1>0
  <2>2. <<>> \in Seq(S) /\ Len(<<>>) = 0
    BY EmptySeq
  <2>3. JoinOf(<<>>, S, p, 0)
    BY <2>2 DEF JoinOf, In
  <2> QED BY <2>1, <2>3
<1>2. ASSUME NEW n \in Nat, n \in T PROVE n + 1 \in T
  <2> SUFFICES ASSUME n + 1 <= m PROVE JoinOf(f[n + 1], S, p, n + 1)
    BY DEF T
  <2>1. JoinOf(f[n], S, p, n)
    BY <1>2
  <2> QED BY <1>a, <2>1, JoinStep
<1> HIDE DEF T
<1>3. m \in T
  BY <1>1, <1>2, NatSteps
<1> QED BY <1>3 DEF T

\* Joined has all that the pieces have, and nothing else, in their order.
LEMMA JoinedAll ==
    ASSUME NEW S, NEW m \in Nat, NEW p, \A k \in 1..m : p[k] \in Seq(S),
           Places(p, m)
    PROVE  JoinOf(Joined(p), S, p, m)
<1>1. Len(p) = m
  BY SeqByPlaces
<1>3. PICK g : JoinedTo(g, p, m) /\ Joined(p) = g[m]
  BY <1>1, JoinedIs
<1>4. JoinOf(g[m], S, p, m)
  BY <1>3, JoinsUpTo
<1> QED BY <1>3, <1>4

\* A piece for each of the places in P, v[i] for the place i.
ChosenPieces(p, P, v, m) ==
    Places(p, m) /\ \A i \in 1..m : p[i] = IF i \in P THEN <<v[i]>> ELSE <<>>

\* t has v[i] for the places i in P, in their order.
ChosenOf(t, S, P, v, m) ==
    /\ t \in Seq(S)
    /\ \A j \in 1..Len(t) : \E i \in 1..m : i \in P /\ t[j] = v[i]
    /\ \A i \in 1..m : i \in P => \E j \in 1..Len(t) : t[j] = v[i]
    /\ \A j, k \in 1..Len(t) : j < k =>
         \E a, b \in 1..m : a < b /\ t[j] = v[a] /\ t[k] = v[b]

\* What is joined are the pieces of those places.
LEMMA JoinedChosen ==
    ASSUME NEW S, NEW m \in Nat, NEW P, NEW v, \A i \in 1..m : v[i] \in S,
           NEW p, ChosenPieces(p, P, v, m)
    PROVE  ChosenOf(Joined(p), S, P, v, m)
<1>0. Places(p, m) /\ \A i \in 1..m : p[i] = IF i \in P THEN <<v[i]>> ELSE <<>>
  BY DEF ChosenPieces
<1>1. ASSUME NEW x \in S
      PROVE  <<x>> \in Seq(S) /\ Len(<<x>>) = 1 /\ <<x>>[1] = x
  OBVIOUS
<1>2. <<>> \in Seq(S) /\ Len(<<>>) = 0
  BY EmptySeq
<1>3. \A i \in 1..m : i \in P => p[i] = <<v[i]>> /\ Len(p[i]) = 1 /\ p[i][1] = v[i] /\ p[i] \in Seq(S)
  BY <1>0, <1>1
<1>4. \A i \in 1..m : i \notin P => p[i] = <<>> /\ Len(p[i]) = 0 /\ p[i] \in Seq(S)
  BY <1>0, <1>2
<1>6. \A i \in 1..m : p[i] \in Seq(S)
  BY <1>3, <1>4
<1> DEFINE t == Joined(p)
<1>7. JoinOf(t, S, p, m)
  BY <1>0, <1>6, JoinedAll
<1> HIDE DEF t
<1>8. ASSUME NEW i \in 1..m, NEW a \in 1..Len(p[i])
      PROVE  i \in P /\ a = 1 /\ p[i][a] = v[i]
  <2>1. Len(p[i]) # 0
    BY <1>8
  <2>2. i \in P
    BY <1>4, <2>1
  <2>3. Len(p[i]) = 1 /\ p[i][1] = v[i]
    BY <1>3, <2>2
  <2> QED BY <1>8, <2>2, <2>3
<1>9. \A i \in 1..m : i \in P => 1 \in 1..Len(p[i])
  BY <1>3
<1>10. t \in Seq(S)
  BY <1>7 DEF JoinOf
<1>11. ASSUME NEW j \in 1..Len(t) PROVE \E i \in 1..m : i \in P /\ t[j] = v[i]
  <2>1. PICK i \in 1..m : \E a \in 1..Len(p[i]) : t[j] = p[i][a]
    BY <1>7 DEF JoinOf, In
  <2> QED BY <1>8, <2>1
<1>12. ASSUME NEW i \in 1..m, i \in P PROVE \E j \in 1..Len(t) : t[j] = v[i]
  <2>1. v[i] = p[i][1]
    BY <1>3, <1>12
  <2>2. In(p, m, v[i])
    BY <1>9, <1>12, <2>1 DEF In
  <2> QED BY <1>7, <2>2 DEF JoinOf
<1>13. ASSUME NEW j \in 1..Len(t), NEW k \in 1..Len(t), j < k
       PROVE  \E a, b \in 1..m : a < b /\ t[j] = v[a] /\ t[k] = v[b]
  <2>1. Earlier(p, m, t[j], t[k])
    BY <1>7, <1>13 DEF JoinOf
  <2>2. PICK a \in 1..m, b \in 1..m : \E x \in 1..Len(p[a]), y \in 1..Len(p[b]) :
           t[j] = p[a][x] /\ t[k] = p[b][y] /\ (a < b \/ (a = b /\ x < y))
    BY <2>1 DEF Earlier
  <2>3. PICK x \in 1..Len(p[a]), y \in 1..Len(p[b]) :
           t[j] = p[a][x] /\ t[k] = p[b][y] /\ (a < b \/ (a = b /\ x < y))
    BY <2>2
  <2>4. x = 1 /\ y = 1 /\ p[a][x] = v[a] /\ p[b][y] = v[b]
    BY <1>8
  <2> QED BY <2>3, <2>4
<1> QED BY <1>10, <1>11, <1>12, <1>13 DEF ChosenOf, t

LEMMA EndOfRun ==
    ASSUME NEW f, NEW n \in Nat, Len(f) = n, NEW i \in 1..n
    PROVE  /\ EndOf(f, i) \in i..n
           /\ \A k \in i..EndOf(f, i) : f[k] = f[i]
           /\ EndOf(f, i) = n \/ f[EndOf(f, i) + 1] # f[i]
<1> DEFINE E == {j \in i..n : j = n \/ f[j + 1] # f[i]}
<1>1. E \subseteq Nat /\ n \in E
  OBVIOUS
<1>2. PICK j \in E : \A k \in E : j <= k
  <2> HIDE DEF E
  <2> QED BY <1>1, SmallestNat
<1>3. ASSUME NEW k \in i..j PROVE f[k] = f[i]
  <2>1. CASE k = i
    BY <2>1
  <2>2. CASE k # i
    <3>1. k - 1 \in i..n /\ ~(j <= k - 1) /\ (k - 1) + 1 = k
      BY <2>2
    <3>2. k - 1 \notin E
      BY <1>2, <3>1
    <3> QED BY <3>1, <3>2
  <2> QED BY <2>1, <2>2
<1>4. j \in i..Len(f) /\ (\A k \in i..j : f[k] = f[i]) /\ (j = Len(f) \/ f[j + 1] # f[i])
  BY <1>3
<1> HIDE DEF E
<1>5. /\ EndOf(f, i) \in i..Len(f)
      /\ \A k \in i..EndOf(f, i) : f[k] = f[i]
      /\ EndOf(f, i) = Len(f) \/ f[EndOf(f, i) + 1] # f[i]
  BY <1>4, Zenon DEF EndOf
<1> QED BY <1>5

\* t has the runs of f: a run is of one value, which is in W, and goes as far as there
\* is that value; and there is one for every place where a value of W begins.
RunsOf(t, f, n, W) ==
    /\ t \in Seq((1..n) \X (1..n))
    /\ \A j \in 1..Len(t) : \E i \in 1..n : \E e \in i..n :
         /\ t[j] = <<i, e>>
         /\ Begins(f, i) /\ f[i] \in W
         /\ \A k \in i..e : f[k] = f[i]
         /\ e = n \/ f[e + 1] # f[i]
    /\ \A i \in 1..n : Begins(f, i) /\ f[i] \in W => \E j \in 1..Len(t) : t[j] = <<i, EndOf(f, i)>>

LEMMA RunsAll ==
    ASSUME NEW f, NEW n \in Nat, Places(f, n), NEW W
    PROVE  RunsOf(Runs(f, W), f, n, W)
<1>1. Len(f) = n
  <2>1. \A k \in 1..n : f[k] \in {f[l] : l \in 1..n}
    OBVIOUS
  <2> QED BY <2>1, SeqByPlaces
<1> DEFINE P == {i \in 1..n : Begins(f, i) /\ f[i] \in W}
           v == [i \in 1..n |-> <<i, EndOf(f, i)>>]
           p == [i \in 1..n |-> IF i \in P THEN <<v[i]>> ELSE <<>>]
           S == (1..n) \X (1..n)
<1>2. \A i \in 1..n : EndOf(f, i) \in i..n
  BY <1>1, EndOfRun
<1>3. \A i \in 1..n : v[i] \in S
  BY <1>2
<1>4. Runs(f, W) = Joined(p)
  <2>1. p = [i \in 1..n |-> IF Begins(f, i) /\ f[i] \in W THEN <<<<i, EndOf(f, i)>>>> ELSE <<>>]
    OBVIOUS
  <2> QED BY <1>1, <2>1, Zenon DEF Runs
<1> DEFINE t == Runs(f, W)
<1>5. /\ t \in Seq(S)
      /\ \A j \in 1..Len(t) : \E i \in 1..n : i \in P /\ t[j] = v[i]
      /\ \A i \in 1..n : i \in P => \E j \in 1..Len(t) : t[j] = v[i]
  <2>1. Places(p, n)
    BY DEF Places
  <2>2. ChosenPieces(p, P, v, n)
    BY <2>1 DEF ChosenPieces
  <2>3. t = Joined(p)
    BY <1>4
  <2> HIDE DEF P, v, S, p, t
  <2>4. ChosenOf(Joined(p), S, P, v, n)
    BY <1>3, <2>2, JoinedChosen, Zenon
  <2>5. QED BY <2>3, <2>4 DEF ChosenOf
<1> HIDE DEF p, t
<1>6. ASSUME NEW j \in 1..Len(t)
      PROVE  \E i \in 1..n : \E e \in i..n :
                /\ t[j] = <<i, e>>
                /\ Begins(f, i) /\ f[i] \in W
                /\ \A k \in i..e : f[k] = f[i]
                /\ e = n \/ f[e + 1] # f[i]
  <2>1. PICK i \in 1..n : i \in P /\ t[j] = v[i]
    BY <1>5
  <2>2. t[j] = <<i, EndOf(f, i)>> /\ Begins(f, i) /\ f[i] \in W
    BY <2>1
  <2> DEFINE e == EndOf(f, i)
  <2>3. e \in i..n /\ (\A k \in i..e : f[k] = f[i]) /\ (e = n \/ f[e + 1] # f[i])
    BY <1>1, EndOfRun
  <2>4. t[j] = <<i, e>>
    BY <2>2
  <2> HIDE DEF e
  <2> QED BY <2>2, <2>3, <2>4
<1>7. ASSUME NEW i \in 1..n, Begins(f, i), f[i] \in W
      PROVE  \E j \in 1..Len(t) : t[j] = <<i, EndOf(f, i)>>
  <2>1. i \in P /\ v[i] = <<i, EndOf(f, i)>>
    BY <1>7
  <2> QED BY <1>5, <2>1
<1>8. t \in Seq((1..n) \X (1..n))
  BY <1>5
<1> QED BY <1>6, <1>7, <1>8, Zenon DEF RunsOf, t

-----------------------------------------------------------------------------
(* ImHexPlugin                                                              *)

Fields == {"st", "req", "held", "out", "seen", "reply"}

\* The providers of a path, the tasks to open it and the connections that ask to.
NamedIn(o, names, p) == {i \in ToSet(o) : names[i] = p}
OpensIn(ts, p) == {k \in DOMAIN ts : ts[k].op = "open" /\ ts[k].path = p}
AskingIn(cs, p) ==
    {c \in Conns : cs[c].req.ep = "file/open" /\ cs[c].req.path = p
                   /\ cs[c].st \in {"sent", "held"}}

\* A path is asked for, or about to be opened, or open, once; and who has found
\* that it is not open still finds it so.
Alone(o, names, ts, cs, p) ==
    /\ \A i, j \in NamedIn(o, names, p) : i = j
    /\ \A k, l \in OpensIn(ts, p) : k = l
    /\ \A c, d \in AskingIn(cs, p) : c = d
    /\ OpensIn(ts, p) # {} => AskingIn(cs, p) = {} /\ NamedIn(o, names, p) = {}
    /\ \A c \in AskingIn(cs, p) : cs[c].st = "held" => NamedIn(o, names, p) = {}

IdsTyped(o, names) ==
    /\ o \in Seq(Nat) /\ names \in Seq(DOMAIN Files)
    /\ \A i \in ToSet(o) : i \in 1..Len(names)
CallsTyped(cs) == DOMAIN cs = Conns /\ \A c \in Conns : DOMAIN cs[c] = Fields
Listable(ts) == \E S : ts \in Seq(S)

PluginInv ==
    /\ IdsTyped(open, path) /\ CallsTyped(call) /\ Listable(tasks)
    /\ \A p \in DOMAIN Files : Alone(open, path, tasks, call, p)

LEMMA PluginSets ==
    \A p : Named(p) = NamedIn(open, path, p) /\ OpensOf(p) = OpensIn(tasks, p) /\ Asking(p) = AskingIn(call, p)
BY DEF Named, NamedIn, Open, OpensOf, OpensIn, Asking, AskingIn, Req

\* Nothing of a path is new.
LEMMA AloneLess ==
    ASSUME NEW o, NEW names, NEW ts, NEW cs, NEW p, Alone(o, names, ts, cs, p),
           NEW o2, NEW names2, NEW ts2, NEW calls2,
           NamedIn(o2, names2, p) \subseteq NamedIn(o, names, p),
           OpensIn(ts2, p) = OpensIn(ts, p),
           AskingIn(calls2, p) \subseteq AskingIn(cs, p),
           \A c \in AskingIn(calls2, p) : calls2[c].st = "held" =>
               cs[c].st = "held" \/ NamedIn(o, names, p) = {}
    PROVE  Alone(o2, names2, ts2, calls2, p)
BY DEF Alone

LEMMA PluginStarts == Init => PluginInv
<1> SUFFICES ASSUME Init PROVE PluginInv
  OBVIOUS
<1>1. open = <<>> /\ path = <<>> /\ tasks = <<>> /\ call = [c \in Conns |-> NoCall]
  BY DEF Init
<1>2. <<>> \in Seq(Nat) /\ <<>> \in Seq(DOMAIN Files) /\ DOMAIN <<>> = {} /\ ToSet(<<>>) = {}
  BY EmptySeq DEF ToSet
<1>3. DOMAIN NoCall = Fields /\ NoCall.st = "idle"
  BY DEF NoCall, Fields
<1>4. IdsTyped(open, path) /\ Listable(tasks)
  BY <1>1, <1>2 DEF IdsTyped, Listable
<1>5. CallsTyped(call)
  BY <1>1, <1>3 DEF CallsTyped
<1>6. ASSUME NEW p PROVE Alone(open, path, tasks, call, p)
  <2>1. NamedIn(open, path, p) = {} /\ OpensIn(tasks, p) = {}
    BY <1>1, <1>2 DEF NamedIn, OpensIn
  <2>2. AskingIn(call, p) = {}
    BY <1>1, <1>3 DEF AskingIn
  <2>3. QED BY <2>1, <2>2 DEF Alone
<1>7. QED BY <1>4, <1>5, <1>6 DEF PluginInv

-----------------------------------------------------------------------------

\* What a step does to one call.
Changes(c, new) == call' = [call EXCEPT ![c] = new] /\ DOMAIN new = Fields

LEMMA ChangesTyped ==
    ASSUME CallsTyped(call), NEW c \in Conns, NEW new, Changes(c, new)
    PROVE  /\ CallsTyped(call') /\ call'[c] = new
           /\ \A d \in Conns \ {c} : call'[d] = call[d]
BY DEF Changes, CallsTyped

\* A step of a call that does not come to ask for a path, the providers as they are.
LEMMA CallKeeps ==
    ASSUME PluginInv, NEW c \in Conns, NEW new, Changes(c, new),
           \/ new.st \notin {"sent", "held"}
           \/ new.req.ep # "file/open"
           \/ new.req = Req(c) /\ call[c].st = new.st
           \/ new.req = Req(c) /\ call[c].st = "sent" /\ NamedIn(open, path, new.req.path) = {},
           UNCHANGED <<open, path, tasks>>
    PROVE  PluginInv'
<1>1. CallsTyped(call') /\ call'[c] = new /\ \A d \in Conns \ {c} : call'[d] = call[d]
  BY ChangesTyped DEF PluginInv
<1> DEFINE cs == call'
<1>2. \A d \in Conns : d # c => cs[d] = call[d]
  BY <1>1
<1>3. cs[c] = new
  BY <1>1
<1> HIDE DEF cs
<1>4. ASSUME NEW p \in DOMAIN Files PROVE Alone(open, path, tasks, cs, p)
  <2>1. Alone(open, path, tasks, call, p)
    BY DEF PluginInv
  <2>2. ASSUME NEW d \in AskingIn(cs, p)
        PROVE  /\ d \in AskingIn(call, p)
               /\ cs[d].st = "held" => call[d].st = "held" \/ NamedIn(open, path, p) = {}
    <3>1. d \in Conns /\ cs[d].req.ep = "file/open" /\ cs[d].req.path = p /\ cs[d].st \in {"sent", "held"}
      BY <2>2 DEF AskingIn
    <3>2. CASE d # c
      BY <1>2, <3>1, <3>2 DEF AskingIn
    <3>3. CASE d = c
      <4>1. new.req = call[c].req /\ (call[c].st = new.st \/ (call[c].st = "sent" /\ NamedIn(open, path, p) = {}))
        BY <1>3, <3>1, <3>3 DEF Req
      <4>2. QED BY <1>3, <3>1, <3>3, <4>1 DEF AskingIn
    <3>4. QED BY <3>2, <3>3
  <2>3. QED BY <2>1, <2>2, AloneLess
<1>5. \A p \in DOMAIN Files : Alone(open, path, tasks, cs, p)
  BY <1>4
<1>6. IdsTyped(open, path) /\ Listable(tasks)
  BY DEF PluginInv
<1>7. CallsTyped(cs)
  BY <1>1 DEF cs
<1>8. QED BY <1>5, <1>6, <1>7 DEF PluginInv, cs

LEMMA SendKeeps ==
    ASSUME Patient, PluginInv, NEW c \in Conns, NEW r, Send(c, r)
    PROVE  PluginInv'
<1> DEFINE new == [NoCall EXCEPT !.st = "sent", !.req = r]
<1>1. /\ call' = [call EXCEPT ![c] = new] /\ UNCHANGED <<open, path, tasks>> /\ call[c].st = "idle"
      /\ r.ep = "file/open" => OpensOf(r.path) = {} /\ Asking(r.path) = {}
  BY DEF Send, providerVars
<1>2. DOMAIN new = Fields /\ new.st = "sent" /\ new.req = r
  BY DEF NoCall, Fields
<1> HIDE DEF new
<1>3. Changes(c, new)
  BY <1>1, <1>2 DEF Changes
<1>4. CASE r.ep # "file/open"
  BY <1>1, <1>2, <1>3, <1>4, CallKeeps
<1>5. CASE r.ep = "file/open"
  <2>1. CallsTyped(call') /\ call'[c] = new /\ \A d \in Conns \ {c} : call'[d] = call[d]
    BY <1>3, ChangesTyped DEF PluginInv
  <2> DEFINE cs == call'
  <2>2. cs[c] = new /\ \A d \in Conns : d # c => cs[d] = call[d]
    BY <2>1
  <2>3. OpensIn(tasks, r.path) = {} /\ AskingIn(call, r.path) = {}
    BY <1>1, <1>5, PluginSets
  <2> HIDE DEF cs
  <2>4. ASSUME NEW p \in DOMAIN Files PROVE Alone(open, path, tasks, cs, p)
    <3>1. Alone(open, path, tasks, call, p)
      BY DEF PluginInv
    <3>2. CASE p # r.path
      <4>1. ASSUME NEW d \in AskingIn(cs, p) PROVE d \in AskingIn(call, p) /\ cs[d].st = call[d].st
        BY <1>2, <2>2, <3>2, <4>1 DEF AskingIn
      <4>2. QED BY <3>1, <4>1, AloneLess
    <3>3. CASE p = r.path
      <4>1. \A d \in AskingIn(cs, p) : d = c
        <5>1. SUFFICES ASSUME NEW d \in AskingIn(cs, p), d # c PROVE FALSE
          OBVIOUS
        <5>2. d \in AskingIn(call, p)
          BY <2>2, <5>1 DEF AskingIn
        <5>3. QED BY <2>3, <3>3, <5>2
      <4>2. cs[c].st # "held"
        BY <1>2, <2>2
      <4>3. QED BY <2>3, <3>1, <3>3, <4>1, <4>2 DEF Alone
    <3>4. QED BY <3>2, <3>3
  <2>5. IdsTyped(open, path) /\ Listable(tasks) /\ CallsTyped(cs)
    BY <2>1 DEF PluginInv, cs
  <2>6. QED BY <1>1, <2>4, <2>5 DEF PluginInv, cs
<1>6. QED BY <1>4, <1>5

\* An answer ends the request.
LEMMA ReplyKeeps ==
    ASSUME PluginInv, NEW c \in Conns, NEW a, Reply(c, a), UNCHANGED <<open, path, tasks>>
    PROVE  PluginInv'
<1> DEFINE new == [call[c] EXCEPT !.st = "done", !.reply = a]
<1>1. DOMAIN call[c] = Fields /\ DOMAIN call = Conns
  BY DEF PluginInv, CallsTyped
<1>2. DOMAIN new = Fields /\ new.st = "done"
  BY <1>1 DEF Fields
<1>3. call' = [call EXCEPT ![c] = new]
  BY DEF Reply
<1> HIDE DEF new
<1>4. Changes(c, new)
  BY <1>2, <1>3 DEF Changes
<1>5. QED BY <1>2, <1>4, CallKeeps

LEMMA FinishKeeps ==
    ASSUME PluginInv, NEW c \in Conns, NEW a, Finish(c, a), UNCHANGED <<open, path, tasks>>
    PROVE  PluginInv'
<1> DEFINE held == call[c].held
           seen == [k \in DOMAIN held |-> bytes[held[k]]]
           reply == IF ToSet(held) \subseteq Open THEN a ELSE Undefined
           new == [call[c] EXCEPT !.st = "done", !.seen = seen, !.reply = reply]
<1>1. DOMAIN call[c] = Fields
  BY DEF PluginInv, CallsTyped
<1>2. call' = [call EXCEPT ![c] = new]
  BY DEF Finish
<1> HIDE DEF seen, reply
<1>3. DOMAIN new = Fields /\ new.st = "done"
  BY <1>1 DEF Fields
<1> HIDE DEF new
<1>4. Changes(c, new)
  BY <1>2, <1>3 DEF Changes
<1>5. QED BY <1>3, <1>4, CallKeeps

\* What a handler looks up or computes on the way, with the request it has.
LEMMA HoldKeeps ==
    ASSUME PluginInv, NEW c \in Conns, Req(c).ep # "file/open", NEW new, call' = [call EXCEPT ![c] = new],
           DOMAIN new = DOMAIN call[c], new.req = Req(c), UNCHANGED <<open, path, tasks>>
    PROVE  PluginInv'
<1>1. DOMAIN new = Fields
  BY DEF PluginInv, CallsTyped
<1>2. Changes(c, new)
  BY <1>1 DEF Changes
<1>3. QED BY <1>2, CallKeeps

LEMMA LookKeeps ==
    ASSUME PluginInv, NEW c \in Conns, Look(c)
    PROVE  PluginInv'
<1> DEFINE held == Holds(Req(c))
           new == [call[c] EXCEPT !.st = "held", !.held = held]
<1>1. UNCHANGED <<open, path, tasks>> /\ Req(c).ep # "file/open"
  BY DEF Look, providerVars, OfCurrent, OfChosen, OfPair
<1>2. CASE Reply(c, Error)
  BY <1>1, <1>2, ReplyKeeps
<1>3. CASE call' = [call EXCEPT ![c].st = "held", ![c].held = held]
  <2>1. call' = [call EXCEPT ![c] = new]
    BY <1>3
  <2> HIDE DEF held
  <2>2. DOMAIN new = DOMAIN call[c] /\ new.req = Req(c)
    BY DEF Req
  <2> HIDE DEF new
  <2>3. QED BY <1>1, <2>1, <2>2, HoldKeeps
<1>4. QED BY <1>2, <1>3 DEF Look

LEMMA ManyKeeps ==
    ASSUME PluginInv, NEW c \in Conns, StartBatch(c) \/ BatchNext(c) \/ EndBatch(c)
    PROVE  PluginInv'
<1>1. UNCHANGED <<open, path, tasks>> /\ Req(c).ep # "file/open"
  BY DEF StartBatch, BatchNext, EndBatch, Held, providerVars, OfMany
<1>2. CASE \E a : Reply(c, a)
  BY <1>1, <1>2, ReplyKeeps
<1>3. CASE StartBatch(c) /\ ~\E a : Reply(c, a)
  <2> DEFINE h == IF Req(c).all THEN open ELSE Req(c).ids
             new == [call[c] EXCEPT !.st = "held", !.held = h]
  <2>1. call' = [call EXCEPT ![c] = new]
    BY <1>3 DEF StartBatch
  <2> HIDE DEF h
  <2>2. DOMAIN new = DOMAIN call[c] /\ new.req = Req(c)
    BY DEF Req
  <2> HIDE DEF new
  <2>3. QED BY <1>1, <2>1, <2>2, HoldKeeps
<1>4. CASE BatchNext(c)
  <2> DEFINE i == Head(call[c].held)
             result == IF i \in Open THEN <<BatchAnswer(Req(c), i)>>
                       ELSE IF Req(c).ep = "batch/hash" THEN <<NotFound(i)>> ELSE <<>>
             h == Tail(call[c].held)
             o == call[c].out \o result
             new == [call[c] EXCEPT !.held = h, !.out = o]
  <2>1. call' = [call EXCEPT ![c] = new]
    BY <1>4 DEF BatchNext
  <2> HIDE DEF h, o
  <2>2. DOMAIN new = DOMAIN call[c] /\ new.req = Req(c)
    BY DEF Req
  <2> HIDE DEF new
  <2>3. QED BY <1>1, <2>1, <2>2, HoldKeeps
<1>5. QED BY <1>2, <1>3, <1>4 DEF EndBatch

LEMMA CheckOpenKeeps ==
    ASSUME PluginInv, NEW c \in Conns, CheckOpen(c)
    PROVE  PluginInv'
<1> DEFINE new == [call[c] EXCEPT !.st = "held"]
<1>1. UNCHANGED <<open, path, tasks>> /\ call[c].st = "sent"
  BY DEF CheckOpen, providerVars
<1>2. CASE \E a : Reply(c, a)
  BY <1>1, <1>2, ReplyKeeps
<1>3. CASE Named(Req(c).path) = {} /\ call' = [call EXCEPT ![c].st = "held"]
  <2>1. call' = [call EXCEPT ![c] = new]
    BY <1>3
  <2>2. DOMAIN new = Fields /\ new.req = Req(c)
    BY DEF PluginInv, CallsTyped, Req, Fields
  <2>3. NamedIn(open, path, Req(c).path) = {}
    BY <1>3, PluginSets
  <2> HIDE DEF new
  <2>4. Changes(c, new)
    BY <2>1, <2>2 DEF Changes
  <2>5. QED BY <1>1, <2>2, <2>3, <2>4, CallKeeps
<1>4. QED BY <1>2, <1>3 DEF CheckOpen

\* One more task.
LEMMA TaskAdded ==
    ASSUME NEW ts, Listable(ts), NEW t
    PROVE  /\ Listable(Append(ts, t))
           /\ \A p : ~(t.op = "open" /\ t.path = p) => OpensIn(Append(ts, t), p) = OpensIn(ts, p)
           /\ \A p : OpensIn(ts, p) = {} => \A k, l \in OpensIn(Append(ts, t), p) : k = l
<1>1. PICK S : ts \in Seq(S)
  BY DEF Listable
<1> DEFINE R == S \cup {t}
           a == Append(ts, t)
           n == Len(ts) + 1
<1>2. ts \in Seq(R) /\ t \in R
  BY <1>1, SeqMonotonic
<1>3. /\ a \in Seq(R) /\ Len(a) = n /\ a[n] = t /\ \A k \in 1..Len(ts) : a[k] = ts[k]
      /\ DOMAIN a = 1..n /\ DOMAIN ts = 1..Len(ts) /\ n \notin DOMAIN ts /\ n \in DOMAIN a
  <2>1. a \in Seq(R) /\ Len(a) = Len(ts) + 1 /\ a[Len(ts) + 1] = t /\ \A k \in 1..Len(ts) : a[k] = ts[k]
    BY <1>2, AppendProperties
  <2>2. DOMAIN a = 1..Len(a) /\ DOMAIN ts = 1..Len(ts) /\ Len(ts) \in Nat
    BY <1>2, <2>1, LenProperties
  <2>3. QED BY <2>1, <2>2
<1> HIDE DEF a
<1>4. \A k \in DOMAIN a : k # n => k \in DOMAIN ts /\ a[k] = ts[k]
  <2> SUFFICES ASSUME NEW k \in DOMAIN a, k # n PROVE k \in DOMAIN ts /\ a[k] = ts[k]
    OBVIOUS
  <2>1. Len(ts) \in Nat
    BY <1>1, LenProperties
  <2>2. QED BY <1>3, <2>1
<1>5. DOMAIN ts \subseteq DOMAIN a /\ \A k \in DOMAIN ts : a[k] = ts[k]
  <2>1. Len(ts) \in Nat
    BY <1>1, LenProperties
  <2>2. QED BY <1>3, <2>1
<1> HIDE DEF n, R
<1>6. Listable(a)
  BY <1>3 DEF Listable
<1>7. ASSUME NEW p, ~(t.op = "open" /\ t.path = p) PROVE OpensIn(a, p) = OpensIn(ts, p)
  BY <1>3, <1>4, <1>5, <1>7 DEF OpensIn
<1>8. ASSUME NEW p, OpensIn(ts, p) = {} PROVE \A k \in OpensIn(a, p) : k = n
  BY <1>3, <1>4, <1>8 DEF OpensIn
<1>9. \A p : OpensIn(ts, p) = {} => \A k, l \in OpensIn(a, p) : k = l
  BY <1>8
<1>10. QED BY <1>6, <1>7, <1>9 DEF a

LEMMA RequestOpenKeeps ==
    ASSUME PluginInv, NEW c \in Conns, RequestOpen(c)
    PROVE  PluginInv'
<1> DEFINE q == Req(c).path
           a == Ok("requested")
           new == [call[c] EXCEPT !.st = "done", !.reply = a]
           t == [op |-> "open", path |-> q]
           ts == Append(tasks, t)
           cs == call'
<1>1. /\ call[c].st = "held" /\ Req(c).ep = "file/open" /\ tasks' = ts /\ UNCHANGED <<open, path>>
      /\ cs = [call EXCEPT ![c] = new]
  BY DEF RequestOpen, Held, Reply
<1>2. DOMAIN call[c] = Fields
  BY DEF PluginInv, CallsTyped
<1> HIDE DEF a
<1>3. DOMAIN new = Fields /\ new.st = "done"
  BY <1>2 DEF Fields
<1> HIDE DEF new
<1>4. Changes(c, new)
  BY <1>1, <1>3 DEF Changes
<1>5. CallsTyped(cs) /\ cs[c] = new /\ \A d \in Conns \ {c} : cs[d] = call[d]
  BY <1>4, ChangesTyped DEF PluginInv
<1> HIDE DEF cs
<1>6. t.op = "open" /\ t.path = q /\ Listable(tasks)
  BY DEF PluginInv
<1> HIDE DEF t
<1>7. /\ Listable(ts) /\ \A p : p # q => OpensIn(ts, p) = OpensIn(tasks, p)
      /\ \A p : OpensIn(tasks, p) = {} => \A k, l \in OpensIn(ts, p) : k = l
  BY <1>6, TaskAdded
<1> HIDE DEF ts
<1>8. ASSUME NEW p \in DOMAIN Files PROVE Alone(open, path, ts, cs, p)
  <2>1. Alone(open, path, tasks, call, p)
    BY DEF PluginInv
  <2>2. \A d \in AskingIn(cs, p) : d # c /\ d \in AskingIn(call, p) /\ cs[d].st = call[d].st
    BY <1>3, <1>5 DEF AskingIn
  <2>3. CASE p # q
    BY <1>7, <2>1, <2>2, <2>3, AloneLess
  <2>4. CASE p = q
    <3>1. c \in AskingIn(call, p)
      BY <1>1, <2>4 DEF AskingIn, Req
    <3>2. OpensIn(tasks, p) = {} /\ NamedIn(open, path, p) = {}
      BY <1>1, <2>1, <3>1 DEF Alone
    <3>3. AskingIn(cs, p) = {}
      BY <2>1, <2>2, <3>1 DEF Alone
    <3>4. \A k, l \in OpensIn(ts, p) : k = l
      BY <1>7, <3>2
    <3>5. QED BY <2>1, <3>2, <3>3, <3>4 DEF Alone
  <2>5. QED BY <2>3, <2>4
<1>9. IdsTyped(open, path)
  BY DEF PluginInv
<1>10. QED BY <1>1, <1>5, <1>7, <1>8, <1>9 DEF PluginInv, cs

LEMMA RequestCloseKeeps ==
    ASSUME PluginInv, NEW c \in Conns, RequestClose(c)
    PROVE  PluginInv'
<1> DEFINE a == Ok("async")
           new == [call[c] EXCEPT !.st = "done", !.reply = a]
           t == [op |-> "close", id |-> Req(c).id]
           ts == Append(tasks, t)
           cs == call'
<1>1. tasks' = ts /\ UNCHANGED <<open, path>> /\ cs = [call EXCEPT ![c] = new]
  BY DEF RequestClose, Reply
<1>2. DOMAIN call[c] = Fields
  BY DEF PluginInv, CallsTyped
<1> HIDE DEF a
<1>3. DOMAIN new = Fields /\ new.st = "done"
  BY <1>2 DEF Fields
<1> HIDE DEF new
<1>4. Changes(c, new)
  BY <1>1, <1>3 DEF Changes
<1>5. CallsTyped(cs) /\ cs[c] = new /\ \A d \in Conns \ {c} : cs[d] = call[d]
  BY <1>4, ChangesTyped DEF PluginInv
<1> HIDE DEF cs
<1>6. t.op # "open" /\ Listable(tasks)
  BY DEF PluginInv
<1> HIDE DEF t
<1>7. Listable(ts) /\ \A p : OpensIn(ts, p) = OpensIn(tasks, p)
  BY <1>6, TaskAdded
<1> HIDE DEF ts
<1>8. ASSUME NEW p \in DOMAIN Files PROVE Alone(open, path, ts, cs, p)
  <2>1. Alone(open, path, tasks, call, p)
    BY DEF PluginInv
  <2>2. \A d \in AskingIn(cs, p) : d # c /\ d \in AskingIn(call, p) /\ cs[d].st = call[d].st
    BY <1>3, <1>5 DEF AskingIn
  <2>3. QED BY <1>7, <2>1, <2>2, AloneLess
<1>9. IdsTyped(open, path)
  BY DEF PluginInv
<1>10. QED BY <1>1, <1>5, <1>7, <1>8, <1>9 DEF PluginInv, cs

\* One task less.
LEMMA TaskTaken ==
    ASSUME NEW ts, Listable(ts), ts # <<>>
    PROVE  /\ Listable(Tail(ts))
           /\ \A p : \A k \in OpensIn(Tail(ts), p) : k + 1 \in OpensIn(ts, p) /\ k \in Nat /\ k >= 1
           /\ \A p : Head(ts).op = "open" /\ Head(ts).path = p => 1 \in OpensIn(ts, p)
<1>1. PICK S : ts \in Seq(S)
  BY DEF Listable
<1>2. /\ Tail(ts) \in Seq(S) /\ Len(Tail(ts)) = Len(ts) - 1 /\ Head(ts) = ts[1]
      /\ \A i \in 1..Len(Tail(ts)) : Tail(ts)[i] = ts[i + 1]
  BY <1>1, HeadTailProperties
<1> DEFINE a == Tail(ts)
<1>3. /\ Len(ts) \in Nat /\ Len(ts) >= 1 /\ DOMAIN ts = 1..Len(ts) /\ DOMAIN a = 1..Len(a) /\ Len(a) = Len(ts) - 1
      /\ \A i \in 1..Len(a) : a[i] = ts[i + 1]
  BY <1>1, <1>2, EmptySeq, LenProperties
<1> HIDE DEF a
<1>4. \A i \in DOMAIN a : a[i] = ts[i + 1] /\ i + 1 \in DOMAIN ts /\ i \in Nat /\ i >= 1
  BY <1>3
<1>5. 1 \in DOMAIN ts
  BY <1>3
<1>6. ASSUME NEW p, NEW k \in OpensIn(a, p) PROVE k + 1 \in OpensIn(ts, p) /\ k \in Nat /\ k >= 1
  BY <1>4, <1>6 DEF OpensIn
<1>7. Listable(a)
  BY <1>2 DEF Listable, a
<1>8. \A p : Head(ts).op = "open" /\ Head(ts).path = p => 1 \in OpensIn(ts, p)
  BY <1>2, <1>5 DEF OpensIn
<1>9. QED BY <1>6, <1>7, <1>8 DEF a

LEMMA AloneTail ==
    ASSUME NEW o, NEW names, NEW ts, NEW cs, NEW p, Alone(o, names, ts, cs, p), Listable(ts), ts # <<>>,
           NEW o2, NamedIn(o2, names, p) \subseteq NamedIn(o, names, p)
    PROVE  Alone(o2, names, Tail(ts), cs, p)
<1> DEFINE a == Tail(ts)
<1>1. \A k \in OpensIn(a, p) : k + 1 \in OpensIn(ts, p) /\ k \in Nat
  BY TaskTaken
<1> HIDE DEF a
<1>2. ASSUME NEW k \in OpensIn(a, p), NEW l \in OpensIn(a, p) PROVE k = l
  <2>1. k + 1 = l + 1 /\ k \in Nat /\ l \in Nat
    BY <1>1, <1>2 DEF Alone
  <2>2. QED BY <2>1
<1>3. OpensIn(a, p) # {} => OpensIn(ts, p) # {}
  BY <1>1
<1>4. Alone(o2, names, a, cs, p)
  BY <1>2, <1>3 DEF Alone
<1>5. QED BY <1>4 DEF a

\* Whichever provider is removed, the others stay.
LEMMA RemovedOne ==
    ASSUME NEW s \in Seq(Nat), NEW i
    PROVE  RemoveFirst(s, i) \in Seq(Nat) /\ ToSet(RemoveFirst(s, i)) \subseteq ToSet(s)
<1>1. CASE ~\E k \in 1..Len(s) : s[k] = i
  <2>1. RemoveFirst(s, i) = s
    BY <1>1, Zenon DEF RemoveFirst
  <2>2. QED BY <2>1
<1>2. CASE \E k \in 1..Len(s) : s[k] = i
  <2> DEFINE I == {k \in 1..Len(s) : s[k] = i}
             n == Min(I)
  <2>1. RemoveFirst(s, i) = RemoveAt(s, n)
    BY <1>2, Zenon DEF RemoveFirst, SelectInSeq
  <2>2. Len(s) \in Nat /\ I \subseteq Nat /\ I # {}
    BY <1>2, LenProperties
  <2>3. PICK least \in I : \A y \in I : least <= y
    <3> HIDE DEF I
    <3>1. QED BY <2>2, SmallestNat
  <2>4. n \in I
    BY <2>3 DEF Min
  <2>5. n \in 1..Len(s)
    BY <2>4
  <2> HIDE DEF n
  <2> DEFINE a == SubSeq(s, 1, n - 1)
             b == SubSeq(s, n + 1, Len(s))
  <2>6. \A k \in 1..Len(s) : s[k] \in Nat
    BY ElementOfSeq
  <2>7. a \in Seq(Nat) /\ Len(a) = n - 1 /\ \A k \in 1..Len(a) : a[k] = s[k]
    <3>1. n - 1 \in Int /\ 1 \in Int /\ \A k \in 1..(n - 1) : s[k] \in Nat
      BY <2>2, <2>5, <2>6
    <3>2. a \in Seq(Nat) /\ Len(a) = (IF 1 <= n - 1 THEN (n - 1) - 1 + 1 ELSE 0)
            /\ \A k \in 1..((n - 1) - 1 + 1) : a[k] = s[1 + k - 1]
      BY <3>1, SubSeqProperties
    <3>3. Len(a) = n - 1
      BY <2>2, <2>5, <3>2
    <3>4. \A k \in 1..Len(a) : a[k] = s[k]
      BY <2>2, <2>5, <3>2, <3>3
    <3>5. QED BY <3>2, <3>3, <3>4
  <2>8. b \in Seq(Nat) /\ Len(b) = Len(s) - n /\ \A k \in 1..Len(b) : b[k] = s[n + k]
    <3>1. n + 1 \in Int /\ Len(s) \in Int /\ \A k \in (n + 1)..Len(s) : s[k] \in Nat
      BY <2>2, <2>5, <2>6
    <3>2. b \in Seq(Nat) /\ Len(b) = (IF n + 1 <= Len(s) THEN Len(s) - (n + 1) + 1 ELSE 0)
            /\ \A k \in 1..(Len(s) - (n + 1) + 1) : b[k] = s[(n + 1) + k - 1]
      BY <3>1, SubSeqProperties
    <3>3. Len(b) = Len(s) - n
      BY <2>2, <2>5, <3>2
    <3>4. \A k \in 1..Len(b) : b[k] = s[n + k]
      BY <2>2, <2>5, <3>2, <3>3
    <3>5. QED BY <3>2, <3>3, <3>4
  <2> DEFINE c == a \o b
  <2>9. c = RemoveFirst(s, i)
    BY <2>1 DEF RemoveAt
  <2> HIDE DEF a, b
  <2>10. c \in Seq(Nat) /\ Len(c) = Len(a) + Len(b)
           /\ \A k \in 1..(Len(a) + Len(b)) : c[k] = IF k <= Len(a) THEN a[k] ELSE b[k - Len(a)]
    BY <2>7, <2>8, ConcatProperties
  <2>11. ASSUME NEW x \in ToSet(c) PROVE x \in ToSet(s)
    <3>1. PICK k \in DOMAIN c : x = c[k]
      BY <2>11 DEF ToSet
    <3>2. DOMAIN c = 1..Len(c) /\ DOMAIN s = 1..Len(s)
      BY <2>10, LenProperties
    <3>3. k \in 1..(Len(a) + Len(b)) /\ Len(a) \in Nat /\ Len(b) \in Nat
      BY <2>2, <2>5, <2>7, <2>8, <2>10, <3>1, <3>2
    <3>4. \E j \in 1..Len(s) : c[k] = s[j]
      <4>1. CASE k <= Len(a)
        <5>1. k \in 1..Len(a) /\ k \in 1..Len(s)
          BY <2>2, <2>5, <2>7, <3>3, <4>1
        <5>2. c[k] = s[k]
          BY <2>7, <2>10, <3>3, <4>1, <5>1
        <5>3. QED BY <5>1, <5>2
      <4>2. CASE ~(k <= Len(a))
        <5> DEFINE la == Len(a)
                   lb == Len(b)
                   ls == Len(s)
        <5>1. k - la \in 1..lb /\ n + (k - la) \in 1..ls
          <6>1. la \in Nat /\ lb \in Nat /\ ls \in Nat /\ k \in 1..(la + lb) /\ ~(k <= la)
            BY <2>2, <3>3, <4>2
          <6>2. n \in 1..ls /\ lb = ls - n
            BY <2>5, <2>8
          <6> HIDE DEF la, lb, ls
          <6>3. QED BY <6>1, <6>2
        <5>2. c[k] = b[k - Len(a)]
          BY <2>10, <3>3, <4>2
        <5>3. QED BY <2>8, <5>1, <5>2
      <4>3. QED BY <4>1, <4>2
    <3>5. QED BY <3>1, <3>2, <3>4 DEF ToSet
  <2> HIDE DEF c
  <2>12. QED BY <2>9, <2>10, <2>11
<1>3. QED BY <1>1, <1>2

LEMMA RunCloseKeeps ==
    ASSUME PluginInv, RunClose
    PROVE  PluginInv'
<1>1. PICK i : tasks # <<>> /\ tasks' = Tail(tasks) /\ open' = RemoveFirst(open, i) /\ UNCHANGED <<path, call>>
  BY DEF RunClose
<1>2. IdsTyped(open, path) /\ CallsTyped(call) /\ Listable(tasks)
  BY DEF PluginInv
<1> DEFINE o == RemoveFirst(open, i)
           ts == Tail(tasks)
<1>3. o \in Seq(Nat) /\ ToSet(o) \subseteq ToSet(open)
  BY <1>2, RemovedOne DEF IdsTyped
<1> HIDE DEF o
<1>4. IdsTyped(o, path)
  BY <1>2, <1>3 DEF IdsTyped
<1>5. Listable(ts)
  BY <1>1, <1>2, TaskTaken
<1>6. ASSUME NEW p \in DOMAIN Files PROVE Alone(o, path, ts, call, p)
  <2>1. NamedIn(o, path, p) \subseteq NamedIn(open, path, p)
    BY <1>3 DEF NamedIn
  <2>2. Alone(open, path, tasks, call, p)
    BY DEF PluginInv
  <2>3. QED BY <1>1, <1>2, <2>1, <2>2, AloneTail
<1>7. open' = o /\ tasks' = ts /\ path' = path /\ call' = call
  BY <1>1 DEF o
<1> HIDE DEF ts
<1>8. QED BY <1>2, <1>4, <1>5, <1>6, <1>7 DEF PluginInv

LEMMA RunOpenKeeps ==
    ASSUME PluginInv, RunOpen
    PROVE  PluginInv'
<1> DEFINE q == Head(tasks).path
           i == Len(path) + 1
           ts == Tail(tasks)
           o == Append(open, i)
           names == Append(path, q)
<1>1. tasks # <<>> /\ Head(tasks).op = "open" /\ tasks' = ts /\ call' = call
  BY DEF RunOpen
<1>2. IdsTyped(open, path) /\ CallsTyped(call) /\ Listable(tasks) /\ Listable(ts)
  BY <1>1, TaskTaken DEF PluginInv
<1>3. \A p \in DOMAIN Files : Alone(open, path, tasks, call, p)
  BY DEF PluginInv
<1>4. CASE UNCHANGED <<open, path>>
  <2>1. \A p \in DOMAIN Files : Alone(open, path, ts, call, p)
    BY <1>1, <1>2, <1>3, AloneTail
  <2> HIDE DEF ts
  <2>2. QED BY <1>1, <1>2, <1>4, <2>1 DEF PluginInv
<1>5. CASE q \in DOMAIN Files /\ open' = o /\ path' = names
  <2>1. /\ open \in Seq(Nat) /\ path \in Seq(DOMAIN Files) /\ Len(path) \in Nat /\ i \in Nat
        /\ \A j \in ToSet(open) : j \in 1..Len(path)
    BY <1>2, LenProperties DEF IdsTyped
  <2>2. names \in Seq(DOMAIN Files) /\ Len(names) = i /\ names[i] = q /\ \A k \in 1..Len(path) : names[k] = path[k]
    BY <1>5, <2>1, AppendProperties
  <2>3. o \in Seq(Nat) /\ \A j \in ToSet(o) : j = i \/ j \in ToSet(open)
    <3>1. /\ o \in Seq(Nat) /\ Len(o) = Len(open) + 1 /\ o[Len(open) + 1] = i
          /\ \A k \in 1..Len(open) : o[k] = open[k]
      BY <2>1, AppendProperties
    <3>2. DOMAIN o = 1..Len(o) /\ DOMAIN open = 1..Len(open) /\ Len(open) \in Nat
      BY <2>1, <3>1, LenProperties
    <3> HIDE DEF o, i
    <3>3. ASSUME NEW j \in ToSet(o) PROVE j = i \/ j \in ToSet(open)
      <4>1. PICK k \in 1..Len(o) : j = o[k]
        BY <3>2, <3>3 DEF ToSet
      <4>2. CASE k = Len(open) + 1
        BY <3>1, <4>1, <4>2
      <4>3. CASE k # Len(open) + 1
        <5>1. k \in 1..Len(open)
          BY <3>1, <3>2, <4>1, <4>3
        <5>2. QED BY <3>1, <3>2, <4>1, <5>1 DEF ToSet
      <4>4. QED BY <4>2, <4>3
    <3>4. QED BY <3>1, <3>3
  <2> HIDE DEF o, names
  <2>4. IdsTyped(o, names)
    <3>1. ASSUME NEW j \in ToSet(o) PROVE j \in 1..Len(names)
      BY <2>1, <2>2, <2>3
    <3>2. QED BY <2>2, <2>3, <3>1 DEF IdsTyped
  <2>5. ASSUME NEW p \in DOMAIN Files PROVE Alone(o, names, ts, call, p)
    <3>1. Alone(open, path, tasks, call, p) /\ Alone(open, path, ts, call, p)
      BY <1>1, <1>2, <1>3, AloneTail
    <3>2. \A j \in NamedIn(o, names, p) : (j = i /\ p = q) \/ j \in NamedIn(open, path, p)
      <4>1. SUFFICES ASSUME NEW j \in NamedIn(o, names, p) PROVE (j = i /\ p = q) \/ j \in NamedIn(open, path, p)
        OBVIOUS
      <4>2. j \in ToSet(o) /\ names[j] = p
        BY <4>1 DEF NamedIn
      <4>3. CASE j = i
        BY <2>2, <4>2, <4>3
      <4>4. CASE j \in ToSet(open)
        <5>1. names[j] = path[j]
          BY <2>1, <2>2, <4>4
        <5>2. QED BY <4>2, <4>4, <5>1 DEF NamedIn
      <4>5. QED BY <2>3, <4>2, <4>3, <4>4
    <3>3. CASE p # q
      <4>1. NamedIn(o, names, p) \subseteq NamedIn(open, path, p)
        BY <3>2, <3>3
      <4>2. QED BY <3>1, <4>1, AloneLess
    <3>4. CASE p = q
      <4>1. 1 \in OpensIn(tasks, p)
        BY <1>1, <1>2, <3>4, TaskTaken
      <4>2. AskingIn(call, p) = {} /\ NamedIn(open, path, p) = {} /\ \A k \in OpensIn(tasks, p) : k = 1
        BY <3>1, <4>1 DEF Alone
      <4>3. OpensIn(ts, p) = {}
        <5>1. SUFFICES ASSUME NEW k \in OpensIn(ts, p) PROVE FALSE
          OBVIOUS
        <5>2. k + 1 \in OpensIn(tasks, p) /\ k \in Nat /\ k >= 1
          BY <1>1, <1>2, <5>1, TaskTaken
        <5>3. k + 1 = 1
          BY <4>2, <5>2
        <5>4. QED BY <5>2, <5>3
      <4>4. \A j \in NamedIn(o, names, p) : j = i
        BY <3>2, <4>2
      <4>5. \A j, k \in NamedIn(o, names, p) : j = k
        BY <4>4
      <4>6. QED BY <4>2, <4>3, <4>5 DEF Alone
    <3>5. QED BY <3>3, <3>4
  <2> HIDE DEF ts
  <2>6. QED BY <1>1, <1>2, <1>5, <2>4, <2>5 DEF PluginInv
<1>6. QED BY <1>4, <1>5 DEF RunOpen

LEMMA PluginSteps == ASSUME Patient PROVE PluginInv /\ [Next]_vars => PluginInv'
<1> SUFFICES ASSUME PluginInv, [Next]_vars PROVE PluginInv'
  OBVIOUS
<1>1. CASE UNCHANGED vars
  BY <1>1 DEF vars, PluginInv
<1>2. ASSUME NEW c \in Conns, Handler(c) PROVE PluginInv'
  <2>1. CASE Compute(c)
    BY <2>1, FinishKeeps DEF Compute, providerVars
  <2>2. CASE Write(c)
    BY <2>2, FinishKeeps DEF Write
  <2>3. CASE Switch(c)
    BY <2>3, FinishKeeps DEF Switch
  <2>4. CASE Tell(c)
    BY <2>4, ReplyKeeps DEF Tell, providerVars
  <2>5. QED
    BY <1>2, <2>1, <2>2, <2>3, <2>4, LookKeeps, CheckOpenKeeps, RequestOpenKeeps, RequestCloseKeeps,
       ManyKeeps, Zenon DEF Handler
<1>3. ASSUME NEW c \in Conns, Receive(c) PROVE PluginInv'
  <2>1. Changes(c, NoCall) /\ NoCall.st = "idle" /\ UNCHANGED <<open, path, tasks>>
    BY <1>3 DEF Receive, Changes, NoCall, Fields, providerVars
  <2>2. QED BY <2>1, CallKeeps
<1>4. QED
  BY <1>1, <1>2, <1>3, SendKeeps, RunOpenKeeps, RunCloseKeeps, Zenon DEF Next

\* No path has two providers, whatever the files, the connections and what they ask
\* for and close, if nobody asks to open a path while such a request is under way.
THEOREM PluginOneProvider == ASSUME Patient PROVE Spec => []OneProviderPerPath
<1>1. PluginInv => OneProviderPerPath
  <2> SUFFICES ASSUME PluginInv, NEW p \in DOMAIN Files PROVE Cardinality(Named(p)) <= 1
    BY DEF OneProviderPerPath
  <2>1. \A i, j \in Named(p) : i = j
    BY PluginSets DEF PluginInv, Alone
  <2> DEFINE N == Named(p)
  <2> HIDE DEF N
  <2>2. CASE N = {}
    BY <2>2, FS_EmptySet DEF N
  <2>3. CASE N # {}
    <3>1. PICK i \in N : TRUE
      BY <2>3
    <3>2. N = {i}
      BY <2>1, <3>1 DEF N
    <3>3. Cardinality(N) = 1
      BY <3>2, FS_Singleton
    <3>4. QED BY <3>3 DEF N
  <2>4. QED BY <2>2, <2>3
<1>2. PluginInv /\ [Next]_vars => PluginInv'
  BY PluginSteps
<1>3. QED BY <1>1, <1>2, PluginStarts, PTL DEF Spec

-----------------------------------------------------------------------------
(* PluginBytes: searching.                                                  *)

\* t has the places among the n from s on at which pat occurs, in order.
HitsOf(t, b, pat, s, n) ==
    /\ t \in Seq(Nat)
    /\ \A j \in 1..Len(t) : t[j] \in s..(s + n - 1) /\ Occurs(b, pat, t[j])
    /\ \A p \in s..(s + n - 1) : Occurs(b, pat, p) => \E j \in 1..Len(t) : t[j] = p
    /\ \A j, k \in 1..Len(t) : j < k => t[j] < t[k]

LEMMA HitsAre ==
    ASSUME NEW b, NEW pat, NEW s \in Nat, NEW n \in Int
    PROVE  HitsOf(Hits(b, pat, s, n), b, pat, s, n)
<1> DEFINE m == IF n < 0 THEN 0 ELSE n
           P == {i \in 1..m : Occurs(b, pat, s + i - 1)}
           v == [i \in 1..m |-> s + i - 1]
           p == [i \in 1..m |-> IF i \in P THEN <<v[i]>> ELSE <<>>]
           t == Joined(p)
<1>1. m \in Nat /\ 1..n = 1..m /\ s..(s + n - 1) = s..(s + m - 1)
  <2>1. CASE n < 0
    BY <2>1
  <2>2. CASE ~(n < 0)
    BY <2>2
  <2> QED BY <2>1, <2>2
<1> HIDE DEF m
<1>2. \A i \in 1..m : v[i] = s + i - 1 /\ v[i] \in Nat
  BY <1>1
<1>3. t = Hits(b, pat, s, n)
  <2>1. p = [i \in 1..n |-> IF Occurs(b, pat, s + i - 1) THEN <<s + i - 1>> ELSE <<>>]
    BY <1>1
  <2> QED BY <2>1, Zenon DEF Hits
<1>4. ChosenOf(t, Nat, P, v, m)
  <2>1. ChosenPieces(p, P, v, m)
    BY DEF ChosenPieces, Places
  <2>2. \A i \in 1..m : v[i] \in Nat
    BY <1>2
  <2> HIDE DEF P, v, p
  <2> QED BY <1>1, <2>1, <2>2, JoinedChosen, Zenon
<1> HIDE DEF t, p, v
<1>5. \A j \in 1..Len(t) : \E i \in 1..m : i \in P /\ t[j] = v[i]
  BY <1>4 DEF ChosenOf
<1>6. ASSUME NEW j \in 1..Len(t) PROVE t[j] \in s..(s + m - 1) /\ Occurs(b, pat, t[j])
  <2>1. PICK i \in 1..m : i \in P /\ t[j] = v[i]
    BY <1>5
  <2>2. t[j] = s + i - 1 /\ Occurs(b, pat, s + i - 1)
    BY <1>2, <2>1
  <2> QED BY <1>1, <2>2
<1>7. ASSUME NEW q \in s..(s + m - 1), Occurs(b, pat, q) PROVE \E j \in 1..Len(t) : t[j] = q
  <2>1. q - s + 1 \in 1..m /\ s + (q - s + 1) - 1 = q
    BY <1>1
  <2>2. q - s + 1 \in P /\ v[q - s + 1] = q
    BY <1>2, <1>7, <2>1
  <2> QED BY <1>4, <2>1, <2>2 DEF ChosenOf
<1>8. ASSUME NEW j \in 1..Len(t), NEW k \in 1..Len(t), j < k PROVE t[j] < t[k]
  <2>1. PICK x \in 1..m, y \in 1..m : x < y /\ t[j] = v[x] /\ t[k] = v[y]
    BY <1>4, <1>8 DEF ChosenOf
  <2> QED BY <1>1, <1>2, <2>1
<1>9. t \in Seq(Nat)
  BY <1>4 DEF ChosenOf
<1> QED BY <1>1, <1>3, <1>6, <1>7, <1>8, <1>9 DEF HitsOf

\* The last place of a chunk at which pat can begin.
LastIn(b, pat, start, window) == start + Rest(b, start, window) - Len(pat)

Chunks(starts, K) == Places(starts, K) /\ \A k \in 1..K : starts[k] \in Nat

\* v has places where pat occurs, and, if it is shorter than limit, each one that a
\* chunk has; and it has a place twice only where two chunks have it.
ScanOf(v, b, pat, starts, K, window, limit) ==
    /\ v \in Seq(Nat)
    /\ \A i \in 1..Len(v) : Occurs(b, pat, v[i])
    /\ Len(v) < limit => \A k \in 1..K : \A p \in starts[k]..LastIn(b, pat, starts[k], window) :
                            Occurs(b, pat, p) => \E i \in 1..Len(v) : v[i] = p
    /\ \A i, j \in 1..Len(v) : i < j /\ v[i] = v[j] =>
          \E k, l \in 1..K : k < l /\ v[i] <= LastIn(b, pat, starts[k], window) /\ starts[l] <= v[i]

LEMMA ScanFinds ==
    ASSUME NEW b \in Seq(Nat), NEW pat \in Seq(Nat), NEW K \in Nat, NEW starts, Chunks(starts, K),
           NEW window \in Nat, NEW limit \in Nat, Scan(b, pat, starts, window, limit).st = "ok"
    PROVE  ScanOf(Scan(b, pat, starts, window, limit).val, b, pat, starts, K, window, limit)
<1>1. Len(b) \in Nat /\ Len(pat) \in Nat
  BY LenProperties
<1>2. Len(starts) = K /\ \A k \in 1..K : starts[k] \in Nat
  BY SeqByPlaces DEF Chunks
<1> DEFINE count(k) == Rest(b, starts[k], window) - Len(pat) + 1
           p == [k \in 1..K |-> Hits(b, pat, starts[k], count(k))]
           found == HitsUpTo(b, pat, starts, window, K)
           last(k) == LastIn(b, pat, starts[k], window)
<1>3. \A k \in 1..K : count(k) \in Int /\ starts[k] + count(k) - 1 = last(k) /\ last(k) \in Int
  BY <1>1, <1>2 DEF Rest, Least, LastIn
<1>4. found = Joined(p)
  BY <1>2, Zenon DEF HitsUpTo
<1>5. \A k \in 1..K : HitsOf(p[k], b, pat, starts[k], count(k))
  <2> HIDE DEF count
  <2>1. \A k \in 1..K : p[k] = Hits(b, pat, starts[k], count(k))
    OBVIOUS
  <2> QED BY <1>2, <1>3, <2>1, HitsAre
<1>6. JoinOf(found, Nat, p, K)
  <2>1. Places(p, K)
    BY DEF Places
  <2> HIDE DEF p, found
  <2>2. \A k \in 1..K : p[k] \in Seq(Nat)
    BY <1>5 DEF HitsOf
  <2> QED BY <1>4, <2>1, <2>2, JoinedAll
<1> DEFINE n == Least(limit, Len(found))
           v == SubSeq(found, 1, n)
<1>7. Scan(b, pat, starts, window, limit).val = v
  BY <1>2 DEF Scan, Undefined, Ok
<1> HIDE DEF found, p, count, last
<1>8. found \in Seq(Nat) /\ Len(found) \in Nat
  BY <1>6, LenProperties DEF JoinOf
<1>9. n \in 0..Len(found) /\ (n < limit => n = Len(found))
  BY <1>8 DEF Least
<1> HIDE DEF n
<1>10. v \in Seq(Nat) /\ Len(v) = n /\ \A i \in 1..n : v[i] = found[i] /\ i \in 1..Len(found)
  <2>1. \A i \in 1..n : found[i] \in Nat /\ i \in 1..Len(found)
    BY <1>8, <1>9, ElementOfSeq
  <2>2. /\ v \in Seq(Nat) /\ Len(v) = (IF 1 <= n THEN n - 1 + 1 ELSE 0)
        /\ \A i \in 1..(n - 1 + 1) : v[i] = found[1 + i - 1]
    BY <1>9, <2>1, SubSeqProperties
  <2> QED BY <1>9, <2>1, <2>2
<1> HIDE DEF v
<1>11. ASSUME NEW i \in 1..Len(v)
       PROVE  Occurs(b, pat, v[i]) /\ \E k \in 1..K : v[i] \in starts[k]..last(k)
  <2>1. In(p, K, found[i])
    BY <1>6, <1>10 DEF JoinOf
  <2>2. PICK k \in 1..K : \E a \in 1..Len(p[k]) : found[i] = p[k][a]
    BY <2>1 DEF In
  <2>3. PICK a \in 1..Len(p[k]) : found[i] = p[k][a]
    BY <2>2
  <2>4. HitsOf(p[k], b, pat, starts[k], count(k)) /\ starts[k] + count(k) - 1 = last(k)
    BY <1>3, <1>5
  <2>5. p[k][a] \in starts[k]..last(k) /\ Occurs(b, pat, p[k][a])
    BY <2>4 DEF HitsOf
  <2> QED BY <1>10, <2>3, <2>5
<1>12. ASSUME Len(v) < limit, NEW k \in 1..K, NEW q \in starts[k]..last(k), Occurs(b, pat, q)
       PROVE  \E i \in 1..Len(v) : v[i] = q
  <2>1. \E a \in 1..Len(p[k]) : p[k][a] = q
    BY <1>3, <1>5, <1>12 DEF HitsOf
  <2>2. In(p, K, q)
    BY <2>1 DEF In
  <2>3. PICK i \in 1..Len(found) : found[i] = q
    BY <1>6, <2>2 DEF JoinOf
  <2>4. n = Len(found)
    BY <1>9, <1>10, <1>12
  <2> QED BY <1>10, <2>3, <2>4
<1>13. ASSUME NEW i \in 1..Len(v), NEW j \in 1..Len(v), i < j, v[i] = v[j]
       PROVE  \E k, l \in 1..K : k < l /\ v[i] <= last(k) /\ starts[l] <= v[i]
  <2>1. Earlier(p, K, v[i], v[j])
    BY <1>6, <1>10, <1>13 DEF JoinOf
  <2>2. PICK k \in 1..K, l \in 1..K : \E a \in 1..Len(p[k]), c \in 1..Len(p[l]) :
           v[i] = p[k][a] /\ v[j] = p[l][c] /\ (k < l \/ (k = l /\ a < c))
    BY <2>1 DEF Earlier
  <2>3. PICK a \in 1..Len(p[k]), c \in 1..Len(p[l]) :
           v[i] = p[k][a] /\ v[j] = p[l][c] /\ (k < l \/ (k = l /\ a < c))
    BY <2>2
  <2>4. HitsOf(p[k], b, pat, starts[k], count(k)) /\ HitsOf(p[l], b, pat, starts[l], count(l))
    BY <1>5
  <2>5. p[k][a] \in starts[k]..last(k) /\ p[l][c] \in starts[l]..last(l)
    BY <1>3, <2>4 DEF HitsOf
  <2>6. ~(k = l /\ a < c)
    <3>1. SUFFICES ASSUME k = l, a < c PROVE FALSE
      OBVIOUS
    <3>2. p[k][a] < p[k][c]
      BY <2>4, <3>1 DEF HitsOf
    <3>3. p[k][a] = p[k][c] /\ p[k][a] \in Int
      <4>1. p[k][a] = p[l][c] /\ p[l] = p[k]
        BY <1>13, <2>3, <3>1
      <4>2. starts[k] \in Int /\ last(k) \in Int
        BY <1>2, <1>3
      <4> QED BY <2>5, <4>1, <4>2
    <3> QED BY <3>2, <3>3
  <2>7. k < l
    BY <2>3, <2>6
  <2>8. v[i] <= last(k) /\ starts[l] <= v[i]
    <3>1. v[i] \in starts[k]..last(k) /\ v[i] \in starts[l]..last(l)
      BY <1>13, <2>3, <2>5
    <3>2. starts[k] \in Int /\ starts[l] \in Int /\ last(k) \in Int /\ last(l) \in Int
      BY <1>2, <1>3
    <3> QED BY <3>1, <3>2
  <2> QED BY <2>7, <2>8
<1> QED BY <1>7, <1>10, <1>11, <1>12, <1>13 DEF ScanOf, last

\* A quotient.
LEMMA Quotient ==
    ASSUME NEW x \in Nat, NEW e \in Nat, e # 0
    PROVE  x \div e \in Nat /\ e * (x \div e) <= x /\ x < e * (x \div e) + e
<1> DEFINE q == x \div e
           z == e * q
<1>1. q \in Int /\ z \in Int /\ z <= x /\ x < z + e
  OBVIOUS
<1>2. q >= 0
  <2>1. ASSUME q <= -1 PROVE FALSE
    <3>1. z <= e * (-1)
      BY <1>1, <2>1
    <3> HIDE DEF z
    <3> QED BY <1>1, <3>1
  <2> QED BY <1>1, <2>1
<1> QED BY <1>1, <1>2

\* Multiples, as far as the solver needs to be told.
LEMMA Multiples ==
    ASSUME NEW x \in Int, NEW y \in Int, NEW e \in Nat
    PROVE  /\ x * e \in Int /\ (x + 1) * e = x * e + e /\ (x - 1) * e = x * e - e
           /\ x <= y => x * e <= y * e
<1>1. x * e \in Int /\ (x + 1) * e = x * e + e /\ (x - 1) * e = x * e - e
  OBVIOUS
<1>2. x <= y => x * e <= y * e
  <2> SUFFICES ASSUME x <= y PROVE x * e <= y * e
    OBVIOUS
  <2>1. PICK d \in Nat : y = x + d
    <3>1. y - x \in Nat /\ y = x + (y - x)
      OBVIOUS
    <3> QED BY <3>1
  <2>2. y * e = x * e + d * e /\ d * e >= 0 /\ x * e \in Int /\ d * e \in Int
    BY <2>1
  <2> QED BY <2>2
<1> QED BY <1>1, <1>2

\* A number between two multiples.
LEMMA Remainder ==
    ASSUME NEW k \in Int, NEW e \in Nat, e # 0, NEW r \in 0..(e - 1)
    PROVE  (k * e + r) \div e = k /\ (k * e + r) % e = r
<1> DEFINE x == k * e + r
           q == x \div e
           z == q * e
           y == k * e
<1>1. x \in Int /\ q \in Int /\ z \in Int /\ z <= x /\ x < z + e /\ x % e = x - z /\ y \in Int /\ x = y + r
  OBVIOUS
<1>2. ~(q <= k - 1)
  <2>1. ASSUME q <= k - 1 PROVE FALSE
    <3>1. z <= (k - 1) * e /\ (k - 1) * e = y - e
      BY <1>1, <2>1, Multiples
    <3> HIDE DEF x, z, y
    <3> QED BY <1>1, <3>1
  <2> QED BY <2>1
<1>3. ~(k <= q - 1)
  <2>1. ASSUME k <= q - 1 PROVE FALSE
    <3>1. y <= (q - 1) * e /\ (q - 1) * e = z - e
      BY <1>1, <2>1, Multiples
    <3> HIDE DEF x, z, y
    <3> QED BY <1>1, <3>1
  <2> QED BY <2>1
<1>4. q = k
  <2> HIDE DEF q
  <2> QED BY <1>1, <1>2, <1>3
<1>5. z = y
  BY <1>4
<1>6. x % e = r
  <2> HIDE DEF x, y, z
  <2> QED BY <1>1, <1>5
<1> QED BY <1>4, <1>6

\* What a scan finds is complete if every place at which pat can begin is in a chunk.
LEMMA Covered ==
    ASSUME NEW b \in Seq(Nat), NEW pat \in Seq(Nat), NEW K \in Nat, NEW starts, Chunks(starts, K),
           NEW window \in Nat, NEW limit \in Nat, Scan(b, pat, starts, window, limit).st = "ok",
           b # <<>> => \A p \in 0..(Len(b) - Len(pat)) : \E k \in 1..K :
                          starts[k] <= p /\ p <= LastIn(b, pat, starts[k], window)
    PROVE  Complete(b, pat, Scan(b, pat, starts, window, limit).val, limit)
<1> DEFINE v == Scan(b, pat, starts, window, limit).val
<1>1. ScanOf(v, b, pat, starts, K, window, limit)
  BY ScanFinds
<1> HIDE DEF v
<1>2. Len(b) \in Nat /\ Len(pat) \in Nat
  BY LenProperties
<1>3. v \in Seq(Nat) /\ DOMAIN v = 1..Len(v)
  BY <1>1, LenProperties DEF ScanOf
<1>4. \A k \in 1..K : starts[k] \in Nat
  BY DEF Chunks
<1>5. ToSet(v) \subseteq Occurrences(b, pat)
  <2>1. ASSUME NEW i \in 1..Len(v) PROVE v[i] \in 0..Len(b) /\ Occurs(b, pat, v[i])
    <3>1. v[i] \in Nat /\ Occurs(b, pat, v[i])
      BY <1>1, <1>3, ElementOfSeq DEF ScanOf
    <3> QED BY <1>2, <3>1 DEF Occurs
  <2> QED BY <1>3, <2>1 DEF ToSet, Occurrences
<1>6. ASSUME Len(v) < limit, b # <<>>, NEW p \in Occurrences(b, pat) PROVE p \in ToSet(v)
  <2>1. p \in 0..(Len(b) - Len(pat)) /\ Occurs(b, pat, p)
    BY <1>2 DEF Occurrences, Occurs
  <2>2. PICK k \in 1..K : starts[k] <= p /\ p <= LastIn(b, pat, starts[k], window)
    BY <1>6, <2>1
  <2>3. p \in starts[k]..LastIn(b, pat, starts[k], window)
    BY <1>2, <1>4, <2>1, <2>2 DEF LastIn, Rest, Least
  <2>4. \E i \in 1..Len(v) : v[i] = p
    BY <1>1, <1>6, <2>1, <2>3 DEF ScanOf
  <2> QED BY <1>3, <2>4 DEF ToSet
<1> QED BY <1>5, <1>6 DEF Complete, v

\* The chunks of search/find lie next to each other, and each is read with as many
\* bytes more as the pattern has.
LEMMA SearchFindCovers ==
    ASSUME NEW b \in Seq(Nat), NEW pat \in Seq(Nat), SearchFind(b, pat).st = "ok"
    PROVE  /\ Complete(b, pat, SearchFind(b, pat).val, MatchLimit)
           /\ \A i, j \in DOMAIN SearchFind(b, pat).val :
                 i < j /\ SearchFind(b, pat).val[i] = SearchFind(b, pat).val[j]
                 => SearchFind(b, pat).val[i] % SearchChunk = 0
<1> DEFINE D == Len(b)
           m == Len(pat)
           S == SearchChunk
           K == (D + S - 1) \div S
           starts == [k \in 1..K |-> (k - 1) * S]
           v == SearchFind(b, pat).val
           last(k) == LastIn(b, pat, starts[k], S + m)
<1>1. D \in Nat /\ m \in Nat /\ S \in Nat /\ S # 0 /\ MatchLimit \in Nat /\ D + S - 1 \in Nat /\ S + m \in Nat
  BY LenProperties, ChunkAssumption
<1> HIDE DEF D, m, S
<1>2. K \in Nat /\ S * K <= D + S - 1 /\ D + S - 1 < S * K + S
  BY <1>1, Quotient
<1> HIDE DEF K
<1>3. /\ K * S \in Int /\ K * S = S * K
      /\ \A k \in 1..K : /\ (k - 1) * S \in Nat /\ (k - 1) * S <= K * S - S
                         /\ k * S = (k - 1) * S + S
  <2>1. ASSUME NEW k \in 1..K
        PROVE  (k - 1) * S \in Nat /\ (k - 1) * S <= K * S - S /\ k * S = (k - 1) * S + S
    <3>1. k - 1 \in Nat /\ K - 1 \in Int /\ k - 1 <= K - 1 /\ k \in Int /\ K \in Int
      BY <1>2
    <3>2. (k - 1) * S <= (K - 1) * S /\ (K - 1) * S = K * S - S /\ k * S = (k - 1) * S + S
      BY <1>1, <3>1, Multiples
    <3>3. (k - 1) * S \in Nat
      BY <1>1, <3>1
    <3> QED BY <3>2, <3>3
  <2> QED BY <1>1, <1>2, <2>1
<1>4. Chunks(starts, K)
  BY <1>3 DEF Chunks, Places
<1>5. /\ SearchFind(b, pat) = Scan(b, pat, starts, S + m, MatchLimit)
  BY Zenon DEF SearchFind, D, m, S, K
<1>6. \A k \in 1..K : starts[k] = (k - 1) * S
  OBVIOUS
<1> HIDE DEF starts
<1>7. \A k \in 1..K : last(k) = (k - 1) * S + Least(S + m, D - (k - 1) * S) - m
  BY <1>6 DEF LastIn, Rest, D, m
<1> HIDE DEF last
<1>8. ASSUME b # <<>>, NEW p \in 0..(D - m)
      PROVE  \E k \in 1..K : starts[k] <= p /\ p <= last(k)
  <2>1. D # 0
    BY <1>8, EmptySeq DEF D
  <2>2. K # 0
    <3>1. ASSUME K = 0 PROVE FALSE
      <4>1. S * K = 0
        BY <1>1, <3>1
      <4> QED BY <1>1, <1>2, <2>1, <4>1
    <3> QED BY <3>1
  <2> DEFINE q == p \div S
  <2>3. q \in Nat /\ S * q <= p /\ p < S * q + S /\ S * q = q * S /\ q * S \in Int
    <3>1. p \in Nat
      BY <1>1
    <3>2. q \in Nat /\ S * q <= p /\ p < S * q + S
      BY <1>1, <3>1, Quotient
    <3> QED BY <1>1, <3>2
  <2> HIDE DEF q
  <2>4. CASE q < K
    <3>1. q + 1 \in 1..K /\ (q + 1) - 1 = q
      BY <1>2, <2>3, <2>4
    <3> DEFINE z == q * S
    <3>2. last(q + 1) = z + Least(S + m, D - z) - m /\ starts[q + 1] = z
      BY <1>6, <1>7, <3>1
    <3>3. z \in Int /\ z <= p /\ p < z + S
      BY <2>3
    <3> HIDE DEF z
    <3>4. z <= p /\ p <= z + Least(S + m, D - z) - m
      BY <1>1, <1>8, <3>3 DEF Least
    <3> QED BY <3>1, <3>2, <3>4
  <2>5. CASE ~(q < K)
    <3> DEFINE z == (K - 1) * S
    <3>1. K \in 1..K /\ z = K * S - S /\ K * S \in Int
      BY <1>1, <1>2, <2>2, Multiples
    <3>2. K * S <= q * S
      BY <1>1, <1>2, <2>3, <2>5, Multiples
    <3>3. last(K) = z + Least(S + m, D - z) - m /\ starts[K] = z
      BY <1>6, <1>7, <3>1
    <3> HIDE DEF z
    <3>4. z \in Int /\ z <= p /\ D - z <= S
      <4> DEFINE ks == K * S
                 qs == q * S
      <4>1. ks \in Int /\ ks <= qs /\ z = ks - S /\ qs <= p /\ qs \in Int /\ D + S - 1 < ks + S
        BY <1>2, <1>3, <2>3, <3>1, <3>2
      <4> HIDE DEF ks, qs
      <4> QED BY <1>1, <1>8, <4>1
    <3>5. p <= z + Least(S + m, D - z) - m
      BY <1>1, <1>8, <3>4 DEF Least
    <3> QED BY <3>1, <3>3, <3>4, <3>5
  <2> QED BY <1>2, <2>3, <2>4, <2>5
<1>9. Complete(b, pat, v, MatchLimit)
  <2>1. b # <<>> => \A p \in 0..(Len(b) - Len(pat)) : \E k \in 1..K :
                       starts[k] <= p /\ p <= LastIn(b, pat, starts[k], S + m)
    BY <1>8 DEF last, D, m
  <2>2. Scan(b, pat, starts, S + m, MatchLimit).st = "ok"
    BY <1>5
  <2> QED BY <1>1, <1>2, <1>4, <1>5, <2>1, <2>2, Covered
<1>10. ScanOf(v, b, pat, starts, K, S + m, MatchLimit)
  BY <1>1, <1>2, <1>4, <1>5, ScanFinds
<1>11. ASSUME NEW i \in DOMAIN v, NEW j \in DOMAIN v, i < j, v[i] = v[j] PROVE v[i] % S = 0
  <2>1. v \in Seq(Nat) /\ DOMAIN v = 1..Len(v) /\ v[i] \in Nat
    <3>1. v \in Seq(Nat)
      BY <1>10 DEF ScanOf
    <3> QED BY <1>11, <3>1, LenProperties, ElementOfSeq
  <2>2. PICK k \in 1..K, l \in 1..K : k < l /\ v[i] <= last(k) /\ starts[l] <= v[i]
    BY <1>10, <1>11, <2>1 DEF ScanOf, last
  <2>3. k <= l - 1 /\ l - 1 \in Int /\ k \in Int
    BY <2>2
  <2>4. k * S <= (l - 1) * S /\ k * S \in Int /\ (l - 1) * S \in Int
    BY <1>1, <2>3, Multiples
  <2> DEFINE z == (k - 1) * S
  <2>5. z \in Int /\ k * S = z + S /\ last(k) = z + Least(S + m, D - z) - m
    BY <1>3, <1>7
  <2> HIDE DEF z
  <2>6. last(k) <= z + S
    BY <1>1, <2>5 DEF Least
  <2>7. last(k) \in Int
    BY <1>1, <2>5 DEF Least
  <2>8. v[i] = k * S
    <3> DEFINE ks == k * S
               ls == (l - 1) * S
    <3>1. ks <= ls /\ ks \in Int /\ ls \in Int /\ v[i] <= last(k) /\ last(k) <= ks /\ last(k) \in Int /\ ls <= v[i]
      BY <1>6, <2>2, <2>4, <2>5, <2>6, <2>7
    <3> HIDE DEF ks, ls
    <3>2. v[i] = ks
      BY <2>1, <3>1
    <3> QED BY <3>2 DEF ks
  <2>9. (k * S) % S = 0
    <3>1. 0 \in 0..(S - 1) /\ k * S + 0 = k * S
      BY <1>1, <2>4
    <3>2. (k * S + 0) % S = 0
      BY <1>1, <2>3, <3>1, Remainder
    <3> QED BY <3>1, <3>2
  <2> QED BY <2>8, <2>9
<1> QED BY <1>9, <1>11 DEF S

\* The chunks of batch/search overlap by the length of the pattern.
LEMMA BatchSearchCovers ==
    ASSUME NEW b \in Seq(Nat), NEW pat \in Seq(Nat), Len(pat) < BatchChunk, NEW limit \in Nat,
           BatchSearch(b, pat, limit).st = "ok"
    PROVE  Complete(b, pat, BatchSearch(b, pat, limit).val, limit)
<1> DEFINE D == Len(b)
           m == Len(pat)
           W == Least(D, BatchChunk)
           S == W - m
           K == IF b = <<>> THEN 0 ELSE IF D = W THEN 1 ELSE (D - W + S - 1) \div S + 1
           starts == [k \in 1..K |-> (k - 1) * S]
           last(k) == LastIn(b, pat, starts[k], W)
<1>1. D \in Nat /\ m \in Nat /\ W \in Nat /\ W <= D /\ (D # W => m < W)
  BY LenProperties, ChunkAssumption DEF Least
<1>2. BatchSearch(b, pat, limit) = Scan(b, pat, starts, W, limit)
  BY Zenon DEF BatchSearch
<1>3. b # <<>> => D # 0
  BY EmptySeq
<1> HIDE DEF D, m, W
<1>4. S \in Int
  BY <1>1
<1> HIDE DEF S
<1>5. ASSUME D # W, b # <<>>
      PROVE  S \in Nat /\ S # 0 /\ K \in Nat /\ K - 1 \in Nat /\ S * (K - 1) + W >= D /\ (K - 1) * S = S * (K - 1)
  <2>1. S \in Nat /\ S # 0 /\ D - W + S - 1 \in Nat
    BY <1>1, <1>5 DEF S
  <2> DEFINE q == (D - W + S - 1) \div S
  <2>2. q \in Nat /\ D - W + S - 1 < S * q + S
    BY <2>1, Quotient
  <2>3. K - 1 = q /\ K \in Nat
    BY <1>5, <2>2
  <2> HIDE DEF q, K
  <2>4. (K - 1) * S = S * (K - 1) /\ S * (K - 1) \in Int
    BY <2>1, <2>2, <2>3
  <2> DEFINE z == S * (K - 1)
  <2>5. D - W + S - 1 < z + S /\ z \in Int
    BY <2>2, <2>3, <2>4
  <2> HIDE DEF z
  <2>6. z + W >= D
    BY <1>1, <2>1, <2>5
  <2> QED BY <2>1, <2>2, <2>3, <2>4, <2>6 DEF z
<1>6. K \in Nat
  <2>1. b = <<>> \/ D = W => K \in Nat
    OBVIOUS
  <2> HIDE DEF K
  <2> QED BY <1>5, <2>1
<1>7. \A k \in 1..K : (k - 1) * S \in Nat
  <2>1. CASE b = <<>>
    BY <2>1
  <2>2. CASE b # <<>> /\ D = W
    <3>1. K = 1 /\ 0 * S = 0
      BY <1>4, <2>2
    <3> HIDE DEF K
    <3> QED BY <3>1
  <2>3. CASE b # <<>> /\ D # W
    <3>1. S \in Nat
      BY <1>5, <2>3
    <3> HIDE DEF K
    <3>2. \A k \in 1..K : k - 1 \in Nat
      BY <1>6
    <3> QED BY <3>1, <3>2
  <2> QED BY <2>1, <2>2, <2>3
<1>8. Chunks(starts, K) /\ \A k \in 1..K : starts[k] = (k - 1) * S
  BY <1>7 DEF Chunks, Places
<1> HIDE DEF starts
<1>9. \A k \in 1..K : last(k) = starts[k] + Least(W, D - starts[k]) - m
  BY DEF LastIn, Rest, D, m
<1> HIDE DEF last
<1>10. ASSUME b # <<>>, NEW p \in 0..(D - m)
       PROVE  \E k \in 1..K : starts[k] <= p /\ p <= last(k)
  <2>1. CASE D = W
    <3>1. K = 1 /\ (1 - 1) * S = 0
      BY <1>4, <1>10, <2>1
    <3>2. 1 \in 1..K /\ starts[1] = 0
      BY <1>8, <3>1
    <3>3. last(1) = D - m
      BY <1>1, <1>9, <2>1, <3>2 DEF Least
    <3> QED BY <1>1, <3>2, <3>3
  <2>2. CASE D # W
    <3>1. S \in Nat /\ S # 0 /\ K - 1 \in Nat /\ S * (K - 1) + W >= D /\ (K - 1) * S = S * (K - 1)
      BY <1>5, <1>10, <2>2
    <3> HIDE DEF K
    <3> DEFINE q == p \div S
    <3>2. q \in Nat /\ S * q <= p /\ p < S * q + S /\ S * q = q * S /\ q * S \in Int
      <4>1. p \in Nat
        BY <1>1
      <4>2. q \in Nat /\ S * q <= p /\ p < S * q + S
        BY <3>1, <4>1, Quotient
      <4> QED BY <3>1, <4>2
    <3> HIDE DEF q
    <3>3. CASE q < K
      <4>1. q + 1 \in 1..K /\ (q + 1) - 1 = q
        BY <1>6, <3>2, <3>3
      <4> DEFINE z == q * S
      <4>2. last(q + 1) = z + Least(W, D - z) - m /\ starts[q + 1] = z
        BY <1>8, <1>9, <4>1
      <4>3. z \in Int /\ z <= p /\ p < z + S
        BY <3>2
      <4> HIDE DEF z
      <4>4. p <= z + Least(W, D - z) - m
        BY <1>1, <1>10, <4>3 DEF Least, S
      <4> QED BY <4>1, <4>2, <4>3, <4>4
    <3>4. CASE ~(q < K)
      <4> DEFINE z == (K - 1) * S
      <4>1. K \in 1..K /\ K - 1 \in Int /\ K - 1 <= q
        BY <1>6, <3>1, <3>2, <3>4
      <4>2. z <= q * S /\ z \in Int
        <5>1. K - 1 \in Int /\ q \in Int /\ S \in Nat /\ K - 1 <= q
          BY <3>1, <3>2, <4>1
        <5> DEFINE x == K - 1
        <5> HIDE DEF x
        <5>2. x * S <= q * S /\ x * S \in Int
          BY <5>1, Multiples DEF x
        <5> QED BY <5>2 DEF x
      <4>3. last(K) = z + Least(W, D - z) - m /\ starts[K] = z
        BY <1>8, <1>9, <4>1
      <4>4. z + W >= D /\ z <= p
        <5> DEFINE qs == q * S
        <5>1. z + W >= D /\ z <= qs /\ qs <= p /\ qs \in Int
          BY <3>1, <3>2, <4>2
        <5> HIDE DEF z, qs
        <5> QED BY <4>2, <5>1
      <4> HIDE DEF z
      <4>5. p <= z + Least(W, D - z) - m
        BY <1>1, <1>10, <4>2, <4>4 DEF Least
      <4> QED BY <4>1, <4>3, <4>4, <4>5
    <3> QED BY <1>6, <3>2, <3>3, <3>4
  <2> QED BY <2>1, <2>2
<1> HIDE DEF K
<1>11. b # <<>> => \A p \in 0..(Len(b) - Len(pat)) : \E k \in 1..K :
                      starts[k] <= p /\ p <= LastIn(b, pat, starts[k], W)
  BY <1>10 DEF last, D, m
<1>12. Scan(b, pat, starts, W, limit).st = "ok"
  BY <1>2
<1> QED BY <1>1, <1>2, <1>6, <1>8, <1>11, <1>12, Covered

-----------------------------------------------------------------------------
(* PluginBytes: reading.                                                    *)

\* What a provider may hold.
Contents == {b \in Seq(Nat) : \E p \in DOMAIN Files : Len(b) = Len(Files[p])}
Numbers == 0..(Word - 1)

LEMMA ContentsFit ==
    ASSUME NEW b \in Contents
    PROVE  b \in Seq(Nat) /\ Len(b) \in Nat /\ Len(b) + MaxBuffer < Word /\ DOMAIN b = 1..Len(b)
BY PluginAssumption, LenProperties DEF Contents

LEMMA U64Is ==
    ASSUME NEW x \in Int
    PROVE  /\ x \in 0..(Word - 1) => U64(x) = x
           /\ x \in Word..(2 * Word - 1) => U64(x) = x - Word
           /\ x \in (-Word)..(-1) => U64(x) = x + Word
<1>0. Word \in Nat /\ Word # 0
  BY WordAssumption
<1>1. \A k \in Int, r \in 0..(Word - 1) : (k * Word + r) % Word = r
  BY <1>0, Remainder
<1>2. 0 * Word = 0 /\ 1 * Word = Word /\ (-1) * Word = -Word
  BY <1>0
<1>3. ASSUME x \in 0..(Word - 1) PROVE U64(x) = x
  <2>1. (0 * Word + x) % Word = x
    BY <1>1, <1>3
  <2> QED BY <1>2, <2>1 DEF U64
<1>4. ASSUME x \in Word..(2 * Word - 1) PROVE U64(x) = x - Word
  <2>1. x - Word \in 0..(Word - 1) /\ 1 * Word + (x - Word) = x
    BY <1>0, <1>2, <1>4
  <2>2. (1 * Word + (x - Word)) % Word = x - Word
    BY <1>1, <2>1
  <2> QED BY <2>1, <2>2 DEF U64
<1>5. ASSUME x \in (-Word)..(-1) PROVE U64(x) = x + Word
  <2>1. x + Word \in 0..(Word - 1) /\ (-1) * Word + (x + Word) = x
    BY <1>0, <1>2, <1>5
  <2>2. ((-1) * Word + (x + Word)) % Word = x + Word
    BY <1>1, <2>1
  <2> QED BY <2>1, <2>2 DEF U64
<1> QED BY <1>3, <1>4, <1>5

LEMMA IntIs ==
    ASSUME NEW x \in Nat
    PROVE  AsInt(x) \in Nat /\ (FitsInt(x) => AsInt(x) = x)
<1> DEFINE low == x % IntWord
<1>1. IntWord \in Nat /\ IntWord > 0 /\ Word \in Nat /\ IntWord <= Word
  BY WordAssumption
<1>2. low \in 0..(IntWord - 1)
  BY <1>1
<1>3. FitsInt(x) => low = x
  BY <1>1 DEF FitsInt
<1>4. AsInt(x) = IF 2 * low < IntWord THEN low ELSE Word - IntWord + low
  BY DEF AsInt
<1> HIDE DEF low
<1> QED BY <1>1, <1>2, <1>3, <1>4 DEF FitsInt

\* A read that stays in the file is a slice of it.
LEMMA ReadIsSlice ==
    ASSUME NEW b \in Seq(Nat), NEW from \in Nat, from <= Len(b), NEW n \in Nat
    PROVE  /\ Slice(b, from, n) = ReadAt(b, from, Least(n, Len(b) - from))
           /\ Slice(b, from, n) \in Seq(Nat) /\ Len(Slice(b, from, n)) = Least(n, Len(b) - from)
           /\ \A i \in 1..Least(n, Len(b) - from) : Slice(b, from, n)[i] = b[from + i]
<1> DEFINE k == Least(n, Len(b) - from)
           t == SubSeq(b, from + 1, from + k)
<1>1. Len(b) \in Nat /\ k \in Nat /\ from + k <= Len(b) /\ Least(from + n, Len(b)) = from + k
  BY LenProperties DEF Least
<1>2. Slice(b, from, n) = t
  BY <1>1 DEF Slice
<1> HIDE DEF k
<1>3. \A i \in 1..k : from + i \in 1..Len(b) /\ b[from + i] \in Nat
  <2>1. \A i \in 1..k : from + i \in 1..Len(b)
    BY <1>1
  <2> QED BY <2>1, ElementOfSeq
<1>4. t \in Seq(Nat) /\ Len(t) = k /\ \A i \in 1..k : t[i] = b[from + i]
  <2>1. \A j \in (from + 1)..(from + k) : b[j] \in Nat
    <3>1. \A j \in (from + 1)..(from + k) : j \in 1..Len(b)
      BY <1>1
    <3> QED BY <3>1, ElementOfSeq
  <2>2. /\ t \in Seq(Nat) /\ Len(t) = (IF from + 1 <= from + k THEN (from + k) - (from + 1) + 1 ELSE 0)
        /\ \A i \in 1..((from + k) - (from + 1) + 1) : t[i] = b[(from + 1) + i - 1]
    BY <1>1, <2>1, SubSeqProperties
  <2>3. (from + k) - (from + 1) + 1 = k /\ \A i \in Int : (from + 1) + i - 1 = from + i
    BY <1>1
  <2> QED BY <1>1, <2>2, <2>3
<1> HIDE DEF t
<1>5. t = [i \in 1..k |-> t[i]]
  BY <1>4, LenProperties
<1>6. ReadAt(b, from, k) = [i \in 1..k |-> b[from + i]]
  BY <1>3 DEF ReadAt
<1>7. t = ReadAt(b, from, k)
  BY <1>4, <1>5, <1>6
<1> QED BY <1>2, <1>4, <1>7 DEF k

\* The part of a range that lies in the file, or else more than any buffer has.
LEMMA ClampedIs ==
    ASSUME NEW b \in Contents, NEW off \in Numbers, off < Len(b), NEW len \in Numbers
    PROVE  Clamped(b, off, len) = Least(len, Len(b) - off) \/ Clamped(b, off, len) > MaxBuffer
<1> DEFINE D == Len(b)
<1>1. D \in Nat /\ D + MaxBuffer < Word /\ MaxBuffer \in Nat /\ Word \in Nat
  BY ContentsFit, WordAssumption
<1>2. off \in Int /\ len \in Int /\ off >= 0 /\ len >= 0 /\ off < Word /\ len < Word
  BY <1>1 DEF Numbers
<1>3. CASE off + len < Word
  <2>1. U64(off + len) = off + len
    BY <1>1, <1>2, <1>3, U64Is
  <2> QED BY <1>1, <1>2, <2>1 DEF Clamped, Least
<1>4. CASE ~(off + len < Word)
  <2>1. U64(off + len) = off + len - Word
    BY <1>1, <1>2, <1>4, U64Is
  <2> QED BY <1>1, <1>2, <1>4, <2>1 DEF Clamped
<1> QED BY <1>3, <1>4

LEMMA DataReadExact ==
    ASSUME NEW b \in Contents, NEW r, r.off \in Numbers, r.len \in Numbers, DataRead(b, r).st = "ok"
    PROVE  DataRead(b, r).val = Slice(b, r.off, r.len) /\ r.off < Len(b)
<1> DEFINE n == Clamped(b, r.off, r.len)
<1>1. Len(b) \in Nat /\ b \in Seq(Nat) /\ r.off \in Nat /\ r.len \in Nat
  BY ContentsFit, WordAssumption DEF Numbers
<1>2. ~(r.off >= Len(b)) /\ ~(n > MaxRead) /\ ~(n > MaxBuffer) /\ DataRead(b, r).val = ReadAt(b, r.off, n)
  BY DEF DataRead, WithBuffer, Ok, Error
<1>3. r.off < Len(b)
  BY <1>1, <1>2
<1>4. n = Least(r.len, Len(b) - r.off)
  BY <1>2, <1>3, ClampedIs
<1>5. r.off <= Len(b)
  BY <1>1, <1>3
<1>6. Slice(b, r.off, r.len) = ReadAt(b, r.off, Least(r.len, Len(b) - r.off))
  BY <1>1, <1>5, ReadIsSlice
<1> QED BY <1>2, <1>3, <1>4, <1>6

LEMMA HashExact ==
    ASSUME NEW b \in Contents, NEW r, r.off \in Numbers, r.len \in Numbers \cup {Absent},
           FitsInt(r.off), HashCalculate(b, r).st = "ok"
    PROVE  HashCalculate(b, r).val[2] = Slice(b, r.off, IF r.len = Absent THEN Len(b) ELSE r.len)
<1> DEFINE len == IF r.len = Absent THEN U64(Len(b) - r.off) ELSE r.len
           n == Clamped(b, r.off, len)
           asked == IF r.len = Absent THEN Len(b) ELSE r.len
<1>1. Len(b) \in Nat /\ b \in Seq(Nat) /\ r.off \in Nat /\ Len(b) < Word /\ Word \in Nat
  BY ContentsFit, WordAssumption DEF Numbers
<1>2. ~(r.off >= Len(b)) /\ ~(n > MaxBuffer)
      /\ HashCalculate(b, r).val = <<LowerCase[r.algo], ReadAt(b, r.off, n)>>
  <2>1. AsInt(r.off) = r.off
    BY <1>1, IntIs
  <2> QED BY <2>1 DEF HashCalculate, WithBuffer, Ok, Error
<1>3. r.off < Len(b)
  BY <1>1, <1>2
<1>4. len \in Numbers /\ asked \in Nat /\ Least(len, Len(b) - r.off) = Least(asked, Len(b) - r.off)
  <2>1. CASE r.len = Absent
    <3>1. U64(Len(b) - r.off) = Len(b) - r.off
      BY <1>1, <1>3, U64Is
    <3> QED BY <1>1, <1>3, <2>1, <3>1 DEF Numbers, Least
  <2>2. CASE r.len # Absent
    BY <1>1, <2>2 DEF Numbers
  <2> QED BY <2>1, <2>2
<1> HIDE DEF len, asked
<1>5. n = Least(asked, Len(b) - r.off)
  BY <1>2, <1>3, <1>4, ClampedIs
<1>6. Slice(b, r.off, asked) = ReadAt(b, r.off, n)
  <2>1. r.off <= Len(b)
    BY <1>1, <1>3
  <2>2. Slice(b, r.off, asked) = ReadAt(b, r.off, Least(asked, Len(b) - r.off))
    BY <1>1, <1>4, <2>1, ReadIsSlice
  <2> QED BY <1>5, <2>2
<1>7. HashCalculate(b, r).val[2] = ReadAt(b, r.off, n)
  <2> DEFINE x == ReadAt(b, r.off, n)
  <2> HIDE DEF x
  <2>1. HashCalculate(b, r).val = <<LowerCase[r.algo], x>>
    BY <1>2 DEF x
  <2> QED BY <2>1 DEF x
<1> QED BY <1>6, <1>7 DEF asked

\* batch/hash from the first byte on, and hash/calculate.
LEMMA BatchHashExact ==
    ASSUME NEW b \in Contents, b # <<>>, NEW r, r.off \in {Absent, 0}, r.len \in Numbers \cup {Absent},
           r.algo \in Algorithms, NEW q, q.off = 0, q.len = r.len, q.algo = r.algo
    PROVE  \/ BatchHash(b, r) = HashCalculate(b, q)
           \/ BatchHash(b, r) = Error /\ Least(Len(b), IF r.len = Absent THEN Len(b) ELSE r.len) > MaxScan
<1> DEFINE len == IF q.len = Absent THEN U64(Len(b) - q.off) ELSE q.len
           n == IF r.len = Absent THEN Len(b) ELSE Least(Len(b), r.len)
           asked == IF r.len = Absent THEN Len(b) ELSE r.len
<1>1. Len(b) \in Nat /\ b \in Seq(Nat) /\ Len(b) < Word /\ Word \in Nat /\ Len(b) # 0
  BY ContentsFit, WordAssumption, EmptySeq
<1>2. Least(Len(b), asked) = n /\ asked \in Nat /\ asked < Word
  BY <1>1 DEF Least, Numbers
<1>3. n \in Nat
  BY <1>1, <1>2 DEF Least
<1>4. len = asked
  <2>1. U64(Len(b) - q.off) = Len(b)
    BY <1>1, U64Is
  <2> QED BY <2>1
<1>5. Clamped(b, 0, len) = n
  <2>1. U64(0 + len) = len
    BY <1>1, <1>2, <1>4, U64Is
  <2> QED BY <1>1, <1>2, <1>4, <2>1 DEF Clamped, Least
<1>6. HashCalculate(b, q) = IF n > MaxBuffer THEN Error ELSE Ok(<<q.algo, ReadAt(b, 0, n)>>)
  <2>1. AsInt(0) = 0
    <3>1. FitsInt(0)
      BY WordAssumption DEF FitsInt
    <3> QED BY <3>1, IntIs
  <2>2. LowerCase[q.algo] = q.algo
    BY WordAssumption
  <2> QED BY <1>1, <1>5, <2>1, <2>2 DEF HashCalculate, WithBuffer
<1>7. BatchHash(b, r) = IF n > MaxScan THEN Error
                        ELSE IF n > MaxBuffer THEN Error ELSE Ok(<<r.algo, ReadAt(b, 0, n)>>)
  <2>1. (IF r.off = Absent THEN 0 ELSE r.off) = 0
    OBVIOUS
  <2> QED BY <2>1 DEF BatchHash, WithBuffer
<1> QED BY <1>2, <1>6, <1>7

\* The chunks of a range inside the file tile it.
LEMMA ChunkExact ==
    ASSUME NEW b \in Contents, NEW r, r.off \in Numbers, r.len \in Numbers, r.chunk \in Numbers,
           r.idx \in Numbers, FitsInt(r.idx), FitsInt(r.chunk), r.off + r.len <= Len(b),
           r.idx * r.chunk < r.len,
           ReadChunked(b, r).st = "ok"
    PROVE  LET v == ReadChunked(b, r).val
           IN /\ v.data = Slice(Slice(b, r.off, r.len), r.idx * r.chunk, r.chunk)
              /\ v.more <=> (r.idx + 1) * r.chunk < r.len
              /\ v.more => v.remaining = r.len - (r.idx + 1) * r.chunk
<1> DEFINE D == Len(b)
           off == r.off
           len == r.len
           c == r.chunk
           z == r.idx * c
           x == ReadAt(b, off + z, Least(c, len - z))
           q == U64(len + c - 1) \div c
           v == ReadChunked(b, r).val
<1>1. /\ D \in Nat /\ b \in Seq(Nat) /\ D + MaxBuffer < Word /\ MaxBuffer \in Nat /\ Word \in Nat
      /\ off \in Nat /\ len \in Nat /\ c \in Nat /\ r.idx \in Nat
      /\ off < Word /\ len < Word /\ c < Word /\ off + len <= D
  BY ContentsFit, WordAssumption DEF Numbers
<1>2. z \in Nat /\ z < len /\ (r.idx + 1) * c = z + c /\ (r.idx + 2) * c = z + c + c
  BY <1>1
<1> HIDE DEF D, z
<1>3. U64(off + U64(z)) = off + z /\ U64(len - z) = len - z
  <2>1. U64(z) = z /\ U64(len - z) = len - z
    BY <1>1, <1>2, U64Is
  <2>2. U64(off + z) = off + z
    BY <1>1, <1>2, U64Is
  <2> QED BY <2>1, <2>2
<1> HIDE DEF off, len, c
<1>4. /\ Least(c, len - z) # 0 /\ ~(Least(c, len - z) > MaxBuffer)
      /\ v = [data |-> x, total |-> q, more |-> r.idx + 1 < q,
              remaining |-> U64(len - (r.idx + 1) * c)]
  <2>1. AsInt(r.idx) = r.idx /\ AsInt(r.chunk) = r.chunk
    <3>1. r.idx \in Nat /\ r.chunk \in Nat
      BY <1>1 DEF c
    <3> QED BY <3>1, IntIs
  <2> QED BY <1>3, <2>1 DEF ReadChunked, WithBuffer, Ok, Error, off, len, c, z
<1> HIDE DEF q
<1>5. c # 0
  BY <1>1, <1>2, <1>4 DEF Least
<1>6. v.data = Slice(Slice(b, off, len), z, c)
  <2> DEFINE s == Slice(b, off, len)
             n == Least(c, len - z)
  <2>1. off <= D /\ Least(len, D - off) = len
    BY <1>1 DEF Least
  <2>2. s \in Seq(Nat) /\ Len(s) = len /\ \A i \in 1..len : s[i] = b[off + i]
    <3>1. off <= Len(b) /\ Least(len, Len(b) - off) = len
      BY <2>1 DEF D
    <3>2. Len(s) = Least(len, Len(b) - off) /\ s \in Seq(Nat)
          /\ \A i \in 1..Least(len, Len(b) - off) : s[i] = b[off + i]
      BY <1>1, <3>1, ReadIsSlice
    <3> QED BY <3>1, <3>2
  <2> HIDE DEF s
  <2>3. Slice(s, z, c) = ReadAt(s, z, n)
    <3>1. z <= Len(s)
      BY <1>1, <1>2, <2>2
    <3> QED BY <1>1, <1>2, <2>2, <3>1, ReadIsSlice
  <2>4. n \in Nat /\ n <= len - z
    BY <1>1, <1>2 DEF Least
  <2> HIDE DEF n
  <2>5. ASSUME NEW i \in 1..n
        PROVE  z + i <= Len(s) /\ off + z + i <= D /\ s[z + i] = b[off + z + i]
    <3>1. z + i \in 1..len /\ off + (z + i) = off + z + i /\ off + z + i <= D
      BY <1>1, <1>2, <2>4
    <3>2. s[z + i] = b[off + (z + i)]
      BY <2>2, <3>1
    <3> QED BY <2>2, <3>1, <3>2
  <2>6. ReadAt(s, z, n) = ReadAt(b, off + z, n)
    <3>1. ReadAt(s, z, n) = [i \in 1..n |-> s[z + i]]
      BY <2>5 DEF ReadAt
    <3>2. ReadAt(b, off + z, n) = [i \in 1..n |-> b[off + z + i]]
      BY <2>5 DEF ReadAt, D
    <3> QED BY <2>5, <3>1, <3>2
  <2>7. v.data = x
    BY <1>4
  <2> QED BY <2>3, <2>6, <2>7 DEF n, s
<1>7. (r.idx + 1 < q) <=> z + c < len
  <2>1. CASE len + c - 1 < Word
    <3> DEFINE qc == c * q
    <3>1. U64(len + c - 1) = len + c - 1 /\ len + c - 1 \in Nat
      BY <1>1, <1>5, <2>1, U64Is
    <3>2. q \in Nat /\ qc <= len + c - 1 /\ len + c - 1 < qc + c /\ q * c = qc /\ qc \in Int
      <4> DEFINE y == len + c - 1
      <4>1. y \in Nat /\ q = y \div c
        BY <3>1 DEF q
      <4> HIDE DEF y
      <4>2. q \in Nat /\ c * q <= y /\ y < c * q + c
        BY <1>1, <1>5, <4>1, Quotient
      <4>3. q * c = c * q /\ c * q \in Int
        BY <1>1, <4>2
      <4> QED BY <4>2, <4>3 DEF y
    <3> HIDE DEF qc
    <3>3. ASSUME r.idx + 1 < q PROVE z + c < len
      <4>1. r.idx + 2 \in Int /\ r.idx + 2 <= q
        BY <1>1, <3>2, <3>3
      <4>2. (r.idx + 2) * c <= q * c
        BY <1>1, <3>2, <4>1, Multiples
      <4> QED BY <1>1, <1>2, <3>2, <4>2
    <3>4. ASSUME ~(r.idx + 1 < q) PROVE ~(z + c < len)
      <4>1. r.idx + 1 \in Int /\ q <= r.idx + 1
        BY <1>1, <3>2, <3>4
      <4>2. q * c <= (r.idx + 1) * c
        BY <1>1, <3>2, <4>1, Multiples
      <4> QED BY <1>1, <1>2, <3>2, <4>2
    <3> QED BY <3>3, <3>4
  <2>2. CASE ~(len + c - 1 < Word)
    <3>1. U64(len + c - 1) = len + c - 1 - Word /\ len + c - 1 - Word \in Nat /\ len + c - 1 - Word < c
      BY <1>1, <2>2, U64Is
    <3>2. q = 0
      <4> DEFINE y == len + c - 1 - Word
      <4>1. y \in Nat /\ y < c /\ q = y \div c
        BY <3>1 DEF q
      <4> HIDE DEF y
      <4>2. 0 * c + y = y /\ y \in 0..(c - 1) /\ 0 \in Int
        BY <1>1, <4>1
      <4>3. (0 * c + y) \div c = 0
        BY <1>1, <1>5, <4>2, Remainder
      <4> QED BY <4>1, <4>2, <4>3
    <3>3. ~(z + c < len)
      BY <1>1, <1>2, <1>4, <2>2 DEF Least
    <3> QED BY <1>1, <3>2, <3>3
  <2> QED BY <2>1, <2>2
<1>8. z + c < len => U64(len - (z + c)) = len - (z + c)
  BY <1>1, <1>2, U64Is
<1>9. v.more = (r.idx + 1 < q) /\ v.remaining = U64(len - (z + c))
  BY <1>2, <1>4
<1> QED BY <1>2, <1>6, <1>7, <1>8, <1>9 DEF off, len, c, z

\* A string is printable throughout, and one of single bytes is not cut short but
\* by the end of the range.
StringRight(s, b, off, n) ==
    /\ \A i \in 1..s.len : (i - 1) % s.width = 0 => s.at + i \in 1..Len(b) /\ b[s.at + i] \in Printable
    /\ s.width = 1 =>
         ~(s.at + s.len + 1 \in 1..Len(b) /\ b[s.at + s.len + 1] \in Printable) \/ s.at + s.len = off + n

RightStrings(b, off, n) ==
    {s \in [at : Nat, len : Nat, width : {1, 2}] : StringRight(s, b, off, n)}

LEMMA StringsOfExact ==
    ASSUME NEW b \in Seq(Nat), NEW off \in Nat, NEW n \in Nat, NEW width \in {1, 2}, NEW min
    PROVE  StringsOf(ReadAt(b, off, n), off, width, min) \in Seq(RightStrings(b, off, n))
<1> DEFINE x == ReadAt(b, off, n)
           f == Chars(x, width)
           m == n \div width
           runs == Runs(f, {"text"})
           S == RightStrings(b, off, n)
<1>1. Len(b) \in Nat /\ x = [i \in 1..n |-> x[i]] /\ \A i \in 1..n : x[i] \in Nat
  BY LenProperties, ElementOfSeq DEF ReadAt
<1>2. Len(x) = n
  <2> HIDE DEF x
  <2> QED BY <1>1, SeqByPlaces DEF Places
<1>3. /\ m \in Nat /\ width \in Nat /\ width * m <= n
      /\ width = 1 => m = n
  BY Quotient
<1>4. \A i \in 1..n : x[i] \in Printable => off + i \in 1..Len(b) /\ b[off + i] \in Printable
  BY <1>1, ChunkAssumption DEF ReadAt
<1>5. \A i \in 1..n : off + i \in 1..Len(b) /\ b[off + i] \in Printable => x[i] \in Printable
  BY <1>1 DEF ReadAt
<1> HIDE DEF x, m
<1>6. /\ Places(f, m)
      /\ \A k \in 1..m : f[k] = "text" <=> x[(k - 1) * width + 1] \in Printable /\ (width = 2 => x[2 * k] = 0)
  BY <1>2 DEF Chars, Places, m
<1> HIDE DEF f
<1>7. RunsOf(runs, f, m, {"text"})
  BY <1>3, <1>6, RunsAll
<1> HIDE DEF runs
<1>8. Len(runs) \in Nat
  BY <1>7, LenProperties DEF RunsOf
<1> DEFINE String(s) == [at |-> off + (s[1] - 1) * width, len |-> (s[2] - s[1] + 1) * width, width |-> width]
           P == {k \in 1..Len(runs) : runs[k][2] - runs[k][1] + 1 >= min}
           v == [k \in 1..Len(runs) |-> String(runs[k])]
           p == [k \in 1..Len(runs) |-> IF k \in P THEN <<v[k]>> ELSE <<>>]
<1>9. ASSUME NEW k \in 1..Len(runs) PROVE v[k] \in S
  <2>1. PICK i \in 1..m : \E e \in i..m :
           /\ runs[k] = <<i, e>> /\ f[i] \in {"text"} /\ \A l \in i..e : f[l] = f[i]
           /\ e = m \/ f[e + 1] # f[i]
    BY <1>7, <1>9 DEF RunsOf
  <2>2. PICK e \in i..m :
           /\ runs[k] = <<i, e>> /\ f[i] \in {"text"} /\ \A l \in i..e : f[l] = f[i]
           /\ e = m \/ f[e + 1] # f[i]
    BY <2>1
  <2> DEFINE s == String(runs[k])
  <2>3. s = [at |-> off + (i - 1) * width, len |-> (e - i + 1) * width, width |-> width]
    BY <2>2
  <2> HIDE DEF s
  <2>4. /\ s \in [at : Nat, len : Nat, width : {1, 2}]
        /\ s.at = off + (i - 1) * width /\ s.len = (e - i + 1) * width /\ s.width = width
    <3>1. i - 1 \in Nat /\ e - i + 1 \in Nat
      BY <1>3
    <3>2. (i - 1) * width \in Nat /\ (e - i + 1) * width \in Nat
      BY <1>3, <3>1
    <3> QED BY <2>3, <3>2
  <2>5. \A l \in i..e : x[(l - 1) * width + 1] \in Printable
    <3> SUFFICES ASSUME NEW l \in i..e PROVE x[(l - 1) * width + 1] \in Printable
      OBVIOUS
    <3>1. l \in 1..m /\ f[l] = "text"
      BY <1>3, <2>2
    <3> QED BY <1>6, <3>1
  <2>6. CASE width = 1
    <3>1. ASSUME NEW j \in 1..s.len PROVE s.at + j \in 1..Len(b) /\ b[s.at + j] \in Printable
      <4>1. i + j - 1 \in i..e /\ s.at + j = off + (i + j - 1) /\ i + j - 1 \in 1..n
            /\ ((i + j - 1) - 1) * width + 1 = i + j - 1
        BY <1>3, <2>4, <2>6
      <4>2. x[i + j - 1] \in Printable
        BY <2>5, <4>1
      <4> QED BY <1>4, <4>1, <4>2
    <3>2. s.at + s.len = off + e
      BY <1>3, <2>4, <2>6
    <3>3. e # n => ~(off + e + 1 \in 1..Len(b) /\ b[off + e + 1] \in Printable)
      <4> SUFFICES ASSUME e # n PROVE ~(off + e + 1 \in 1..Len(b) /\ b[off + e + 1] \in Printable)
        OBVIOUS
      <4>1. e + 1 \in 1..m /\ e + 1 \in 1..n /\ ((e + 1) - 1) * width + 1 = e + 1 /\ off + (e + 1) = off + e + 1
        BY <1>3, <2>6
      <4>2. f[e + 1] # "text"
        BY <1>3, <2>2, <2>6
      <4>3. x[e + 1] \notin Printable
        BY <1>6, <2>6, <4>1, <4>2
      <4> QED BY <1>5, <4>1, <4>3
    <3>4. StringRight(s, b, off, n)
      BY <3>1, <3>2, <3>3 DEF StringRight
    <3> QED BY <2>4, <3>4 DEF RightStrings, s
  <2>7. CASE width = 2
    <3>1. ASSUME NEW j \in 1..s.len, (j - 1) % 2 = 0 PROVE s.at + j \in 1..Len(b) /\ b[s.at + j] \in Printable
      <4> DEFINE t == (j - 1) \div 2
      <4>1. j \in 1..((e - i + 1) * 2)
        BY <2>4, <2>7
      <4>2. j \in Int /\ j <= 2 * (e - i + 1)
        BY <1>3, <4>1
      <4>3. t \in Int /\ j = 2 * t + 1 /\ t >= 0
        BY <3>1, <4>2
      <4> HIDE DEF t
      <4>4. i + t \in i..e /\ s.at + j = off + (2 * (i + t) - 1) /\ 2 * (i + t) - 1 \in 1..n
            /\ ((i + t) - 1) * width + 1 = 2 * (i + t) - 1
        BY <1>3, <2>4, <2>7, <4>2, <4>3
      <4>5. x[2 * (i + t) - 1] \in Printable
        BY <2>5, <4>4
      <4> QED BY <1>4, <4>4, <4>5
    <3>2. StringRight(s, b, off, n)
      <4>1. s.width = 2
        BY <2>4, <2>7
      <4>2. \A j \in 1..s.len : (j - 1) % s.width = 0 => s.at + j \in 1..Len(b) /\ b[s.at + j] \in Printable
        BY <3>1, <4>1, Zenon
      <4>3. s.width # 1
        BY <4>1
      <4> QED BY <4>2, <4>3, Zenon DEF StringRight
    <3> QED BY <2>4, <3>2 DEF RightStrings, s
  <2> QED BY <2>6, <2>7
<1>10. ChosenOf(Joined(p), S, P, v, Len(runs))
  <2>1. ChosenPieces(p, P, v, Len(runs))
    BY DEF ChosenPieces, Places
  <2>2. \A k \in 1..Len(runs) : v[k] \in S
    BY <1>9
  <2> HIDE DEF P, v, p, S
  <2> QED BY <1>8, <2>1, <2>2, JoinedChosen, Zenon
<1>11. StringsOf(x, off, width, min) = Joined(p)
  <2>1. p = [k \in 1..Len(runs) |-> IF runs[k][2] - runs[k][1] + 1 >= min THEN <<String(runs[k])>> ELSE <<>>]
    OBVIOUS
  <2> HIDE DEF p
  <2> QED BY <2>1, Zenon DEF StringsOf, runs, f
<1> QED BY <1>10, <1>11 DEF ChosenOf, x

LEMMA DataStringsExact ==
    ASSUME NEW b \in Contents, NEW r, r.off \in Numbers, r.len \in Numbers, r.max \in Nat,
           FitsInt(r.off), FitsInt(r.len), DataStrings(b, r).st = "ok"
    PROVE  \A k \in DOMAIN DataStrings(b, r).val :
              LET s == DataStrings(b, r).val[k]
              IN /\ \A i \in 1..s.len : (i - 1) % s.width = 0 => s.at + i \in 1..Len(b) /\ b[s.at + i] \in Printable
                 /\ s.width = 1 =>
                       ~(s.at + s.len + 1 \in 1..Len(b) /\ b[s.at + s.len + 1] \in Printable)
                       \/ s.at + s.len = r.off + r.len
<1> DEFINE n == IF r.len = 0 THEN U64(Len(b) - r.off) ELSE r.len
           x == ReadAt(b, r.off, n)
           S == RightStrings(b, r.off, n)
           ascii == IF r.type \in {"ascii", "all"} THEN StringsOf(x, r.off, 1, r.min) ELSE <<>>
           wide == IF r.type \in {"utf16le", "all"} THEN StringsOf(x, r.off, 2, r.min) ELSE <<>>
           found == ascii \o wide
           l == Least(r.max, Len(found))
           v == SubSeq(found, 1, l)
<1>1. /\ b \in Seq(Nat) /\ Len(b) \in Nat /\ Len(b) < Word /\ Word \in Nat
      /\ r.off \in Nat /\ r.off < Word /\ r.len \in Nat
  BY ContentsFit, WordAssumption DEF Numbers
<1>2. n \in Nat /\ (r.len # 0 => n = r.len) /\ (r.len = 0 => r.off + n >= Len(b))
  <2>1. Len(b) >= r.off => U64(Len(b) - r.off) = Len(b) - r.off
    BY <1>1, U64Is
  <2>2. Len(b) < r.off => U64(Len(b) - r.off) = Len(b) - r.off + Word
    BY <1>1, U64Is
  <2> QED BY <1>1, <2>1, <2>2
<1>3. DataStrings(b, r).val = v
  <2>1. AsInt(r.off) = r.off /\ AsInt(r.len) = r.len
    BY <1>1, IntIs
  <2> QED BY <2>1 DEF DataStrings, WithBuffer, Ok, Error
<1> HIDE DEF n
<1>4. StringsOf(x, r.off, 1, r.min) \in Seq(S) /\ StringsOf(x, r.off, 2, r.min) \in Seq(S)
  BY <1>1, <1>2, StringsOfExact
<1> HIDE DEF x, S
<1>5. ascii \in Seq(S) /\ wide \in Seq(S)
  BY <1>4
<1> HIDE DEF ascii, wide
<1>6. found \in Seq(S) /\ Len(found) \in Nat
  BY <1>5, ConcatProperties, LenProperties
<1> HIDE DEF found
<1>7. l \in Nat /\ l <= Len(found)
  BY <1>6 DEF Least
<1> HIDE DEF l
<1>8. v \in Seq(S)
  <2>1. \A i \in 1..l : found[i] \in S
    BY <1>6, <1>7, ElementOfSeq
  <2> QED BY <1>7, <2>1, SubSeqProperties
<1> HIDE DEF v
<1>9. ASSUME NEW k \in DOMAIN v, NEW s, s = v[k]
      PROVE  /\ \A i \in 1..s.len : (i - 1) % s.width = 0 => s.at + i \in 1..Len(b) /\ b[s.at + i] \in Printable
             /\ s.width = 1 =>
                   ~(s.at + s.len + 1 \in 1..Len(b) /\ b[s.at + s.len + 1] \in Printable)
                   \/ s.at + s.len = r.off + r.len
  <2>1. s \in S
    BY <1>8, <1>9, LenProperties, ElementOfSeq
  <2>2. s.at \in Nat /\ s.len \in Nat /\ StringRight(s, b, r.off, n)
    BY <2>1 DEF S, RightStrings
  <2>3. s.at + s.len = r.off + n => s.at + s.len = r.off + r.len \/ ~(s.at + s.len + 1 \in 1..Len(b))
    BY <1>1, <1>2, <2>2
  <2> QED BY <2>2, <2>3, Zenon DEF StringRight
<1> QED BY <1>3, <1>9, Zenon

-----------------------------------------------------------------------------
(* ImHexPlugin: what the providers hold, and what is answered from it.      *)

\* The endpoints of the properties about bytes that compute one answer.
Straight == {"data/read", "hash/calculate", "data/read_chunked", "data/strings",
             "search/find", "search/multi"}

\* What a batch has of a provider: it is what the bytes it was computed from give.
OutRight(r, x) ==
    \/ x.answer = Error /\ x.seen = <<>>
    \/ /\ x.seen \in Contents
       /\ x.answer = IF r.ep = "batch/hash" THEN BatchHash(x.seen, r)
                     ELSE BatchSearch(x.seen, r.pattern, AsInt(r.max))

OutsRight(r, out) == Listable(out) /\ \A k \in DOMAIN out : OutRight(r, out[k])

\* So it is with an answer; and a handler that goes on has found its provider.
AnswerRight(k) ==
    k.req.ep \in Straight =>
        /\ k.st = "held" => 1 \in DOMAIN k.held
        /\ k.st = "done" /\ k.reply.st = "ok" => k.seen[1] \in Contents /\ k.reply = Computed(k.req, k.seen)

CallRight(k, c) ==
    /\ DOMAIN k = Fields
    /\ IF k.st = "idle" THEN k.req.ep = "none" ELSE k.req \in Requests[c]
    /\ AnswerRight(k)
    /\ OutsRight(k.req, k.out)

CallsRight(cs) == DOMAIN cs = Conns /\ \A c \in Conns : CallRight(cs[c], c)

BytesTyped(o, names, bs) ==
    /\ o \in Seq(Nat) /\ names \in Seq(DOMAIN Files) /\ bs \in Seq(Contents) /\ Len(bs) = Len(names)
    /\ \A i \in ToSet(o) : i \in 1..Len(bs)

ByteInv == BytesTyped(open, path, bytes) /\ CallsRight(call)

LEMMA NoOuts == \A r : OutsRight(r, <<>>)
<1>1. <<>> \in Seq(Nat) /\ DOMAIN <<>> = {}
  BY EmptySeq
<1>2. QED BY <1>1 DEF OutsRight, Listable

LEMMA NoCallRight == ASSUME NEW c PROVE CallRight(NoCall, c)
<1>1. DOMAIN NoCall = Fields /\ NoCall.st = "idle" /\ NoCall.req.ep = "none" /\ NoCall.out = <<>>
  BY DEF NoCall, Fields
<1>2. OutsRight(NoCall.req, NoCall.out)
  BY <1>1, NoOuts
<1>3. AnswerRight(NoCall)
  BY <1>1 DEF AnswerRight
<1>4. QED BY <1>1, <1>2, <1>3 DEF CallRight

LEMMA BytesStart == Init => ByteInv
<1> SUFFICES ASSUME Init PROVE ByteInv
  OBVIOUS
<1>1. open = <<>> /\ path = <<>> /\ bytes = <<>> /\ call = [c \in Conns |-> NoCall]
  BY DEF Init
<1>2. /\ <<>> \in Seq(Nat) /\ <<>> \in Seq(DOMAIN Files) /\ <<>> \in Seq(Contents)
      /\ DOMAIN <<>> = {} /\ ToSet(<<>>) = {}
  BY EmptySeq DEF ToSet
<1>3. BytesTyped(open, path, bytes)
  BY <1>1, <1>2 DEF BytesTyped
<1>4. CallsRight(call)
  BY <1>1, NoCallRight, Zenon DEF CallsRight
<1>5. QED BY <1>3, <1>4 DEF ByteInv

LEMMA ChangeRight ==
    ASSUME CallsRight(call), NEW c \in Conns, NEW new, call' = [call EXCEPT ![c] = new], CallRight(new, c)
    PROVE  CallsRight(call')
<1>1. DOMAIN call = Conns /\ \A d \in Conns : CallRight(call[d], d)
  BY DEF CallsRight
<1>2. call'[c] = new /\ DOMAIN call' = Conns /\ \A d \in Conns : d # c => call'[d] = call[d]
  BY <1>1
<1>3. ASSUME NEW d \in Conns PROVE CallRight(call'[d], d)
  <2>1. CASE d = c
    BY <1>2, <2>1
  <2>2. CASE d # c
    BY <1>1, <1>2, <2>2
  <2>3. QED BY <2>1, <2>2
<1>4. QED BY <1>2, <1>3 DEF CallsRight

\* A call that goes on, with the request it has.
LEMMA OnRight ==
    ASSUME CallsRight(call), NEW c \in Conns, call[c].st # "idle", NEW new,
           call' = [call EXCEPT ![c] = new], DOMAIN new = DOMAIN call[c], new.req = Req(c),
           new.st # "idle", AnswerRight(new), OutsRight(Req(c), new.out)
    PROVE  CallsRight(call')
<1>1. DOMAIN call[c] = Fields /\ Req(c) \in Requests[c]
  BY DEF CallsRight, CallRight, Req
<1>2. CallRight(new, c)
  BY <1>1 DEF CallRight
<1>3. QED BY <1>2, ChangeRight

LEMMA ReplyRight ==
    ASSUME CallsRight(call), NEW c \in Conns, call[c].st # "idle", NEW a, Reply(c, a),
           Req(c).ep \notin Straight \/ a.st # "ok"
    PROVE  CallsRight(call')
<1> DEFINE new == [call[c] EXCEPT !.st = "done", !.reply = a]
<1>1. DOMAIN call[c] = Fields /\ OutsRight(Req(c), call[c].out)
  BY DEF CallsRight, CallRight, Req
<1>2. call' = [call EXCEPT ![c] = new]
  BY DEF Reply
<1>3. /\ DOMAIN new = DOMAIN call[c] /\ new.req = Req(c) /\ new.st = "done" /\ new.reply = a
      /\ new.out = call[c].out
  BY <1>1 DEF Req, Fields
<1> HIDE DEF new
<1>4. AnswerRight(new)
  BY <1>3 DEF AnswerRight
<1>5. new.st # "idle" /\ OutsRight(Req(c), new.out)
  BY <1>1, <1>3
<1>6. QED BY <1>2, <1>3, <1>4, <1>5, OnRight

LEMMA FinishRight ==
    ASSUME ByteInv, NEW c \in Conns, call[c].st = "held", NEW a, Finish(c, a),
           Req(c).ep \in Straight =>
               a = Computed(Req(c), [k \in DOMAIN call[c].held |-> bytes[call[c].held[k]]])
    PROVE  CallsRight(call')
<1> DEFINE held == call[c].held
           seen == [k \in DOMAIN held |-> bytes[held[k]]]
           reply == IF ToSet(held) \subseteq Open THEN a ELSE Undefined
           new == [call[c] EXCEPT !.st = "done", !.seen = seen, !.reply = reply]
<1>1. DOMAIN call[c] = Fields /\ OutsRight(Req(c), call[c].out) /\ AnswerRight(call[c]) /\ CallsRight(call)
  BY DEF ByteInv, CallsRight, CallRight, Req
<1>2. call' = [call EXCEPT ![c] = new]
  BY DEF Finish
<1>3. ASSUME Req(c).ep \in Straight, reply.st = "ok"
      PROVE  seen[1] \in Contents /\ reply = Computed(Req(c), seen)
  <2>1. ToSet(held) \subseteq Open /\ reply = a
    BY <1>3 DEF Undefined
  <2>2. 1 \in DOMAIN held
    BY <1>1, <1>3 DEF AnswerRight, Req
  <2>3. held[1] \in Open
    BY <2>1, <2>2 DEF ToSet
  <2>4. bytes \in Seq(Contents) /\ held[1] \in 1..Len(bytes)
    BY <2>3 DEF ByteInv, BytesTyped, Open
  <2>5. bytes[held[1]] \in Contents
    BY <2>4, ElementOfSeq
  <2>6. QED BY <1>3, <2>1, <2>2, <2>5
<1> HIDE DEF seen, reply
<1>4. /\ DOMAIN new = DOMAIN call[c] /\ new.req = Req(c) /\ new.st = "done" /\ new.reply = reply
      /\ new.seen = seen /\ new.out = call[c].out
  BY <1>1 DEF Req, Fields
<1> HIDE DEF new
<1>5. AnswerRight(new)
  BY <1>3, <1>4 DEF AnswerRight
<1>6. new.st # "idle" /\ OutsRight(Req(c), new.out) /\ call[c].st # "idle"
  BY <1>1, <1>4
<1>7. QED BY <1>1, <1>2, <1>4, <1>5, <1>6, OnRight

\* A handler that has what it uses.
LEMMA HoldRight ==
    ASSUME CallsRight(call), NEW c \in Conns, call[c].st # "idle", NEW h, NEW o,
           call' = [call EXCEPT ![c] = [call[c] EXCEPT !.st = "held", !.held = h, !.out = o]],
           Req(c).ep \in Straight => 1 \in DOMAIN h, OutsRight(Req(c), o)
    PROVE  CallsRight(call')
<1> DEFINE new == [call[c] EXCEPT !.st = "held", !.held = h, !.out = o]
<1>1. DOMAIN call[c] = Fields
  BY DEF CallsRight, CallRight
<1>2. DOMAIN new = DOMAIN call[c] /\ new.req = Req(c) /\ new.st = "held" /\ new.held = h /\ new.out = o
  BY <1>1 DEF Req, Fields
<1>3. call' = [call EXCEPT ![c] = new]
  OBVIOUS
<1> HIDE DEF new
<1>4. AnswerRight(new)
  BY <1>2 DEF AnswerRight
<1>5. new.st # "idle" /\ OutsRight(Req(c), new.out)
  BY <1>2
<1>6. QED BY <1>2, <1>3, <1>4, <1>5, OnRight

\* The out of a record, where a step leaves it.
LEMMA SameOut ==
    ASSUME NEW k, DOMAIN k = Fields, NEW s, NEW h
    PROVE  /\ [k EXCEPT !.st = s, !.held = h] = [k EXCEPT !.st = s, !.held = h, !.out = k.out]
           /\ [k EXCEPT !.st = s] = [k EXCEPT !.st = s, !.held = k.held, !.out = k.out]
BY DEF Fields

LEMMA LookRight == ASSUME CallsRight(call), NEW c \in Conns, Look(c) PROVE CallsRight(call')
<1> DEFINE held == Holds(Req(c))
<1>1. call[c].st = "sent" /\ DOMAIN call[c] = Fields /\ OutsRight(Req(c), call[c].out)
  BY DEF Look, CallsRight, CallRight, Req
<1>2. CASE Reply(c, Error)
  BY <1>1, <1>2, ReplyRight DEF Error
<1>3. CASE held # <<>> /\ call' = [call EXCEPT ![c].st = "held", ![c].held = held]
  <2>1. Req(c).ep \in Straight => 1 \in DOMAIN held
    <3>1. SUFFICES ASSUME Req(c).ep \in Straight PROVE 1 \in DOMAIN held
      OBVIOUS
    <3>2. Req(c).ep \in OfCurrent \cup OfChosen
      BY <3>1 DEF Straight, OfCurrent, OfChosen
    <3>3. held = Current \/ held = Found(Req(c).id)
      BY <3>2 DEF Holds
    <3>4. QED BY <1>3, <3>3 DEF Current, Found
  <2> HIDE DEF held
  <2>2. call' = [call EXCEPT ![c] = [call[c] EXCEPT !.st = "held", !.held = held]]
    BY <1>3
  <2>3. call' = [call EXCEPT ![c] = [call[c] EXCEPT !.st = "held", !.held = held, !.out = call[c].out]]
    BY <1>1, <2>2, SameOut
  <2>4. QED BY <1>1, <2>1, <2>3, HoldRight
<1>4. QED BY <1>2, <1>3 DEF Look

LEMMA ManyRight ==
    ASSUME ByteInv, NEW c \in Conns, StartBatch(c) \/ BatchNext(c) \/ EndBatch(c)
    PROVE  CallsRight(call')
<1>1. /\ Req(c).ep \notin Straight /\ call[c].st # "idle" /\ CallsRight(call)
      /\ DOMAIN call[c] = Fields /\ OutsRight(Req(c), call[c].out)
  BY DEF StartBatch, BatchNext, EndBatch, Held, OfMany, Straight, ByteInv, CallsRight, CallRight, Req
<1>2. CASE \E a : Reply(c, a)
  BY <1>1, <1>2, ReplyRight
<1>3. CASE StartBatch(c) /\ ~\E a : Reply(c, a)
  <2> DEFINE h == IF Req(c).all THEN open ELSE Req(c).ids
  <2>1. call' = [call EXCEPT ![c] = [call[c] EXCEPT !.st = "held", !.held = h]]
    BY <1>3 DEF StartBatch
  <2> HIDE DEF h
  <2>2. call' = [call EXCEPT ![c] = [call[c] EXCEPT !.st = "held", !.held = h, !.out = call[c].out]]
    BY <1>1, <2>1, SameOut
  <2>3. QED BY <1>1, <2>2, HoldRight
<1>4. CASE BatchNext(c)
  <2> DEFINE i == Head(call[c].held)
             result == IF i \in Open THEN <<BatchAnswer(Req(c), i)>>
                       ELSE IF Req(c).ep = "batch/hash" THEN <<NotFound(i)>> ELSE <<>>
             h == Tail(call[c].held)
             o == call[c].out \o result
  <2>1. call' = [call EXCEPT ![c] = [call[c] EXCEPT !.held = h, !.out = o]] /\ call[c].st = "held"
    BY <1>4 DEF BatchNext, Held
  <2>2. \A k \in DOMAIN result : OutRight(Req(c), result[k])
    <3>1. CASE i \in Open
      <4>1. bytes \in Seq(Contents) /\ i \in 1..Len(bytes)
        BY <3>1 DEF ByteInv, BytesTyped, Open
      <4>2. bytes[i] \in Contents
        BY <4>1, ElementOfSeq
      <4> DEFINE x == BatchAnswer(Req(c), i)
      <4>3. OutRight(Req(c), x)
        BY <4>2 DEF OutRight, BatchAnswer
      <4>4. result = <<x>>
        BY <3>1
      <4> HIDE DEF x, result
      <4>5. QED BY <4>3, <4>4
    <3>2. CASE i \notin Open
      <4> DEFINE x == NotFound(i)
      <4>1. OutRight(Req(c), x)
        BY DEF OutRight, NotFound
      <4>2. result = <<x>> \/ result = <<>>
        BY <3>2
      <4> HIDE DEF x, result
      <4>3. QED BY <4>1, <4>2
    <3>3. QED BY <3>1, <3>2
  <2>3. \E x : result = <<x>> \/ result = <<>>
    OBVIOUS
  <2> HIDE DEF result, h
  <2>4. OutsRight(Req(c), o)
    <3>1. PICK S : call[c].out \in Seq(S)
      BY <1>1 DEF OutsRight, Listable
    <3>2. PICK x : result = <<x>> \/ result = <<>>
      BY <2>3
    <3> DEFINE T == S \cup {x}
               out == call[c].out
    <3>3. out \in Seq(T) /\ result \in Seq(T)
      <4>1. out \in Seq(T)
        BY <3>1, SeqMonotonic
      <4>2. <<x>> \in Seq(T) /\ <<>> \in Seq(T)
        OBVIOUS
      <4>3. QED BY <3>2, <4>1, <4>2
    <3> HIDE DEF T
    <3>4. /\ o \in Seq(T) /\ Len(o) = Len(out) + Len(result)
          /\ \A k \in 1..(Len(out) + Len(result)) : o[k] = IF k <= Len(out) THEN out[k] ELSE result[k - Len(out)]
      BY <3>3, ConcatProperties
    <3>5. /\ DOMAIN o = 1..Len(o) /\ DOMAIN out = 1..Len(out) /\ DOMAIN result = 1..Len(result)
          /\ Len(out) \in Nat /\ Len(result) \in Nat
      BY <3>3, <3>4, LenProperties
    <3>6. \A k \in DOMAIN out : OutRight(Req(c), out[k])
      BY <1>1 DEF OutsRight
    <3> HIDE DEF o, out
    <3>7. ASSUME NEW k \in DOMAIN o PROVE OutRight(Req(c), o[k])
      <4>1. CASE k <= Len(out)
        <5>1. k \in DOMAIN out /\ o[k] = out[k]
          BY <3>4, <3>5, <4>1
        <5>2. QED BY <3>6, <5>1
      <4>2. CASE ~(k <= Len(out))
        <5>1. k - Len(out) \in DOMAIN result /\ o[k] = result[k - Len(out)]
          BY <3>4, <3>5, <4>2
        <5>2. QED BY <2>2, <5>1
      <4>3. QED BY <4>1, <4>2
    <3>8. QED BY <3>4, <3>7 DEF OutsRight, Listable
  <2> HIDE DEF o
  <2>5. [call[c] EXCEPT !.held = h, !.out = o] = [call[c] EXCEPT !.st = "held", !.held = h, !.out = o]
    BY <1>1, <2>1 DEF Fields
  <2>6. QED BY <1>1, <2>1, <2>4, <2>5, HoldRight
<1>5. QED BY <1>2, <1>3, <1>4 DEF EndBatch

\* A request that goes on with what it held.
LEMMA CheckOpenRight == ASSUME CallsRight(call), NEW c \in Conns, CheckOpen(c) PROVE CallsRight(call')
<1>1. /\ Req(c).ep \notin Straight /\ call[c].st = "sent"
      /\ DOMAIN call[c] = Fields /\ OutsRight(Req(c), call[c].out)
  BY DEF CheckOpen, Straight, CallsRight, CallRight, Req
<1>2. CASE \E a : Reply(c, a)
  BY <1>1, <1>2, ReplyRight
<1>3. CASE call' = [call EXCEPT ![c].st = "held"]
  <2>1. call' = [call EXCEPT ![c] = [call[c] EXCEPT !.st = "held"]]
    BY <1>3
  <2>2. call' = [call EXCEPT ![c] = [call[c] EXCEPT !.st = "held", !.held = call[c].held, !.out = call[c].out]]
    BY <1>1, <2>1, SameOut
  <2>3. QED BY <1>1, <2>2, HoldRight
<1>4. QED BY <1>2, <1>3 DEF CheckOpen

LEMMA SendRight ==
    ASSUME CallsRight(call), NEW c \in Conns, NEW r \in Requests[c], Send(c, r)
    PROVE  CallsRight(call')
<1> DEFINE new == [NoCall EXCEPT !.st = "sent", !.req = r]
<1>1. call' = [call EXCEPT ![c] = new]
  BY DEF Send
<1>2. DOMAIN new = Fields /\ new.st = "sent" /\ new.req = r /\ new.out = <<>>
  BY DEF NoCall, Fields
<1> HIDE DEF new
<1>3. AnswerRight(new)
  BY <1>2 DEF AnswerRight
<1>4. OutsRight(new.req, new.out)
  BY <1>2, NoOuts
<1>5. CallRight(new, c)
  BY <1>2, <1>3, <1>4 DEF CallRight
<1>6. QED BY <1>1, <1>5, ChangeRight

-----------------------------------------------------------------------------
\* Writing does not change how many bytes there are.
LEMMA WrittenTyped ==
    ASSUME NEW b \in Contents, NEW r, r.off \in Numbers, r.bytes \in Seq(Nat)
    PROVE  Written(b, r) \in Contents
<1>1. b \in Seq(Nat) /\ DOMAIN b = 1..Len(b) /\ Len(b) \in Nat
  BY ContentsFit
<1>2. \A i \in 1..Len(b) : b[i] \in Nat
  BY <1>1, ElementOfSeq
<1>3. \A j \in DOMAIN r.bytes : r.bytes[j] \in Nat
  BY ElementOfSeq, LenProperties
<1> DEFINE w == Written(b, r)
<1>4. DOMAIN w = 1..Len(b) /\ \A i \in 1..Len(b) : w[i] \in Nat
  BY <1>1, <1>2, <1>3 DEF Written
<1>5. w = [i \in DOMAIN w |-> w[i]]
  BY DEF Written
<1> HIDE DEF w
<1>6. w \in Seq(Nat) /\ Len(w) = Len(b)
  BY <1>1, <1>4, <1>5, SeqByPlaces DEF Places
<1>7. QED BY <1>6 DEF Contents, w

LEMMA WriteTyped == ASSUME ByteInv, NEW c \in Conns, Write(c) PROVE BytesTyped(open, path, bytes')
<1> DEFINE i == call[c].held[1]
           r == Req(c)
<1>1. BytesTyped(open, path, bytes)
  BY DEF ByteInv
<1>2. CASE bytes' = bytes
  BY <1>1, <1>2
<1>3. CASE i \in Open /\ bytes' = [bytes EXCEPT ![i] = Written(@, r)]
  <2>1. r \in Requests[c] /\ r.ep = "data/write"
    BY DEF Write, Held, ByteInv, CallsRight, CallRight, Req
  <2>2. r.off \in Numbers /\ r.bytes \in Seq(Nat)
    BY <2>1, AskedAssumption DEF Numbers
  <2>3. bytes \in Seq(Contents) /\ i \in 1..Len(bytes)
    BY <1>1, <1>3 DEF BytesTyped, Open
  <2> HIDE DEF i, r
  <2>4. Written(bytes[i], r) \in Contents
    BY <2>2, <2>3, ElementOfSeq, WrittenTyped
  <2> DEFINE w == Written(bytes[i], r)
             bs == [bytes EXCEPT ![i] = w]
  <2> HIDE DEF w
  <2>5. bs \in Seq(Contents) /\ Len(bs) = Len(bytes)
    BY <2>3, <2>4, ExceptSeq DEF w
  <2>6. bytes' = bs
    BY <1>3 DEF w
  <2> HIDE DEF bs
  <2>7. QED BY <1>1, <2>5, <2>6 DEF BytesTyped
<1>4. QED BY <1>2, <1>3 DEF Write

LEMMA RunCloseTyped ==
    ASSUME BytesTyped(open, path, bytes), RunClose
    PROVE  BytesTyped(open', path', bytes')
<1>1. PICK i : open' = RemoveFirst(open, i) /\ UNCHANGED <<path, bytes>>
  BY DEF RunClose
<1> DEFINE o == RemoveFirst(open, i)
<1>2. o \in Seq(Nat) /\ ToSet(o) \subseteq ToSet(open)
  BY RemovedOne DEF BytesTyped
<1> HIDE DEF o
<1>3. open' = o
  BY <1>1 DEF o
<1>4. QED BY <1>1, <1>2, <1>3 DEF BytesTyped

LEMMA RunOpenTyped ==
    ASSUME BytesTyped(open, path, bytes), RunOpen
    PROVE  BytesTyped(open', path', bytes')
<1> DEFINE q == Head(tasks).path
           i == Len(path) + 1
           o == Append(open, i)
           names == Append(path, q)
           bs == Append(bytes, Files[q])
<1>1. CASE UNCHANGED <<open, path, bytes>>
  BY <1>1
<1>2. CASE q \in DOMAIN Files /\ open' = o /\ path' = names /\ bytes' = bs
  <2>1. /\ open \in Seq(Nat) /\ path \in Seq(DOMAIN Files) /\ bytes \in Seq(Contents)
        /\ Len(path) \in Nat /\ i \in Nat /\ Len(bytes) = Len(path)
        /\ \A j \in ToSet(open) : j \in 1..Len(bytes)
    BY LenProperties DEF BytesTyped
  <2>2. Files[q] \in Contents
    BY <1>2, PluginAssumption DEF Contents
  <2>3. names \in Seq(DOMAIN Files) /\ Len(names) = i
    BY <1>2, <2>1, AppendProperties
  <2>4. bs \in Seq(Contents) /\ Len(bs) = i
    BY <2>1, <2>2, AppendProperties
  <2>5. o \in Seq(Nat) /\ \A j \in ToSet(o) : j = i \/ j \in ToSet(open)
    <3>1. /\ o \in Seq(Nat) /\ Len(o) = Len(open) + 1 /\ o[Len(open) + 1] = i
          /\ \A k \in 1..Len(open) : o[k] = open[k]
      BY <2>1, AppendProperties
    <3>2. DOMAIN o = 1..Len(o) /\ DOMAIN open = 1..Len(open) /\ Len(open) \in Nat
      BY <2>1, <3>1, LenProperties
    <3> HIDE DEF o, i
    <3>3. ASSUME NEW j \in ToSet(o) PROVE j = i \/ j \in ToSet(open)
      <4>1. PICK k \in 1..Len(o) : j = o[k]
        BY <3>2, <3>3 DEF ToSet
      <4>2. CASE k = Len(open) + 1
        BY <3>1, <4>1, <4>2
      <4>3. CASE k # Len(open) + 1
        <5>1. k \in 1..Len(open)
          BY <3>1, <3>2, <4>1, <4>3
        <5>2. QED BY <3>1, <3>2, <4>1, <5>1 DEF ToSet
      <4>4. QED BY <4>2, <4>3
    <3>4. QED BY <3>1, <3>3
  <2>6. ASSUME NEW j \in ToSet(o) PROVE j \in 1..Len(bs)
    <3> HIDE DEF o, bs
    <3>1. QED BY <2>1, <2>4, <2>5, <2>6
  <2> HIDE DEF o, names, bs
  <2>7. QED BY <1>2, <2>3, <2>4, <2>5, <2>6 DEF BytesTyped
<1>3. QED BY <1>1, <1>2 DEF RunOpen

LEMMA ByteSteps == ByteInv /\ [Next]_vars => ByteInv'
<1> SUFFICES ASSUME ByteInv, [Next]_vars PROVE ByteInv'
  OBVIOUS
<1>1. CASE UNCHANGED vars
  BY <1>1 DEF vars, ByteInv
<1>2. BytesTyped(open, path, bytes) /\ CallsRight(call)
  BY DEF ByteInv
<1>3. ASSUME NEW c \in Conns, Handler(c) PROVE ByteInv'
  <2>1. CASE Write(c)
    <3>1. BytesTyped(open, path, bytes') /\ UNCHANGED <<open, path>>
      BY <2>1, WriteTyped DEF Write
    <3>2. call[c].st = "held" /\ Req(c).ep \notin Straight /\ \E a : Finish(c, a)
      BY <2>1 DEF Write, Held, Straight
    <3>3. CallsRight(call')
      BY <3>2, FinishRight
    <3>4. QED BY <3>1, <3>3 DEF ByteInv
  <2>2. CASE ~Write(c)
    <3>1. UNCHANGED <<open, path, bytes>>
      BY <1>3, <2>2 DEF Handler, Look, Compute, Switch, CheckOpen, RequestOpen, RequestClose,
                        StartBatch, BatchNext, EndBatch, Tell, providerVars
    <3>2. ASSUME Compute(c) PROVE CallsRight(call')
      BY <3>2, FinishRight DEF Compute, Held
    <3>3. ASSUME Switch(c) PROVE CallsRight(call')
      <4>1. call[c].st = "held" /\ Req(c).ep \notin Straight /\ \E a : Finish(c, a)
        BY <3>3 DEF Switch, Held, Straight
      <4>2. QED BY <4>1, FinishRight
    <3>4. ASSUME RequestOpen(c) \/ RequestClose(c) \/ Tell(c) PROVE CallsRight(call')
      <4>1. call[c].st # "idle" /\ Req(c).ep \notin Straight /\ \E a : Reply(c, a)
        BY <3>4 DEF RequestOpen, RequestClose, Tell, Held, Straight
      <4>2. QED BY <1>2, <4>1, ReplyRight
    <3>5. CallsRight(call')
      BY <1>2, <1>3, <2>2, <3>2, <3>3, <3>4, LookRight, CheckOpenRight, ManyRight, Zenon DEF Handler
    <3>6. QED BY <1>2, <3>1, <3>5 DEF ByteInv
  <2>3. QED BY <2>1, <2>2
<1>4. ASSUME NEW c \in Conns, Receive(c) PROVE ByteInv'
  <2>1. call' = [call EXCEPT ![c] = NoCall] /\ UNCHANGED <<open, path, bytes>>
    BY <1>4 DEF Receive, providerVars
  <2>2. QED BY <1>2, <2>1, NoCallRight, ChangeRight DEF ByteInv
<1>5. ASSUME NEW c \in Conns, NEW r \in Requests[c], Send(c, r) PROVE ByteInv'
  <2>1. UNCHANGED <<open, path, bytes>>
    BY <1>5 DEF Send, providerVars
  <2>2. QED BY <1>2, <1>5, <2>1, SendRight DEF ByteInv
<1>6. CASE RunOpen
  BY <1>2, <1>6, RunOpenTyped DEF RunOpen, ByteInv
<1>7. CASE RunClose
  BY <1>2, <1>7, RunCloseTyped DEF RunClose, ByteInv
<1>8. QED
  BY <1>1, <1>3, <1>4, <1>5, <1>6, <1>7, Zenon DEF Next

\* What a call that has been told something says about it.
LEMMA ToldIs ==
    ASSUME ByteInv, NEW c \in Conns, Req(c).ep \in Straight, Told(c, Req(c).ep)
    PROVE  /\ Req(c) \in Requests[c] /\ call[c].seen[1] \in Contents
           /\ call[c].reply = Computed(Req(c), call[c].seen) /\ call[c].reply.st = "ok"
<1>1. call[c].st = "done" /\ call[c].reply.st = "ok"
  BY DEF Told
<1>2. CallRight(call[c], c)
  BY DEF ByteInv, CallsRight
<1>3. QED BY <1>1, <1>2 DEF CallRight, AnswerRight, Req

LEMMA OutIs ==
    ASSUME ByteInv, NEW c \in Conns, Req(c).ep \in OfMany, NEW k \in DOMAIN call[c].out
    PROVE  Req(c) \in Requests[c] /\ OutRight(Req(c), call[c].out[k])
<1>1. CallRight(call[c], c)
  BY DEF ByteInv, CallsRight
<1>2. Req(c).ep # "none"
  BY DEF OfMany
<1>3. QED BY <1>1, <1>2 DEF CallRight, OutsRight, Req

\* A search ends well unless it leaves its buffer.
LEMMA SearchEnds ==
    ASSUME NEW b, NEW pat, SearchFind(b, pat).st # "undefined"
    PROVE  SearchFind(b, pat).st = "ok"
BY DEF SearchFind, Scan, Ok, Undefined

LEMMA FindRight ==
    ASSUME ByteInv, NEW c \in Conns, Told(c, "search/find")
    PROVE  /\ Complete(call[c].seen[1], Req(c).pattern, call[c].reply.val, MatchLimit)
           /\ \A i, j \in DOMAIN call[c].reply.val :
                  i < j /\ call[c].reply.val[i] = call[c].reply.val[j]
                  => call[c].reply.val[i] % SearchChunk = 0
<1> DEFINE r == Req(c)
           b == call[c].seen[1]
           reply == call[c].reply
           pat == r.pattern
<1>1. r.ep = "search/find" /\ r.ep \in Straight /\ Told(c, r.ep)
  BY DEF Told, Straight
<1>2. r \in Requests[c] /\ b \in Contents /\ reply = Computed(r, call[c].seen) /\ reply.st = "ok"
  BY <1>1, ToldIs
<1>3. pat \in Seq(Nat)
  BY <1>1, <1>2, AskedAssumption
<1>4. reply = Searched(b, r)
  BY <1>1, <1>2 DEF Computed
<1>5. reply = SearchFind(b, pat)
  BY <1>2, <1>4 DEF Searched, Error
<1>6. b \in Seq(Nat)
  BY <1>2, ContentsFit
<1> HIDE DEF r, b, reply, pat
<1>7. /\ Complete(b, pat, reply.val, MatchLimit)
      /\ \A i, j \in DOMAIN reply.val : i < j /\ reply.val[i] = reply.val[j] => reply.val[i] % SearchChunk = 0
  BY <1>2, <1>3, <1>5, <1>6, SearchFindCovers
<1>8. QED BY <1>7 DEF r, b, reply, pat

LEMMA MultiRight ==
    ASSUME ByteInv, NEW c \in Conns, Told(c, "search/multi"), NEW k \in DOMAIN call[c].reply.val
    PROVE  Complete(call[c].seen[1], Req(c).patterns[k], call[c].reply.val[k], MatchLimit)
<1> DEFINE r == Req(c)
           b == call[c].seen[1]
           reply == call[c].reply
           results == [j \in DOMAIN r.patterns |-> SearchFind(b, r.patterns[j])]
           vals == [j \in DOMAIN results |-> results[j].val]
<1>1. r.ep = "search/multi" /\ r.ep \in Straight /\ Told(c, r.ep)
  BY DEF Told, Straight
<1>2. r \in Requests[c] /\ b \in Contents /\ reply = Computed(r, call[c].seen) /\ reply.st = "ok"
  BY <1>1, ToldIs
<1>3. reply = SearchedAll(b, r)
  BY <1>1, <1>2 DEF Computed
<1> HIDE DEF r, b, reply
<1>4. reply = IF r.odd THEN Error
              ELSE IF \E j \in DOMAIN results : results[j].st = "undefined" THEN Undefined ELSE Ok(vals)
  BY <1>3, Zenon DEF SearchedAll
<1> HIDE DEF results, vals
<1>5. reply = Ok(vals) /\ ~\E j \in DOMAIN results : results[j].st = "undefined"
  BY <1>2, <1>4 DEF Error, Undefined
<1>6. reply.val = vals
  BY <1>5 DEF Ok
<1>7. k \in DOMAIN r.patterns /\ reply.val[k] = SearchFind(b, r.patterns[k]).val
      /\ SearchFind(b, r.patterns[k]).st # "undefined"
  <2>1. k \in DOMAIN vals
    BY <1>6 DEF reply
  <2>2. QED BY <1>5, <1>6, <2>1 DEF vals, results
<1>8. r.patterns[k] \in Seq(Nat)
  BY <1>1, <1>2, <1>7, AskedAssumption
<1>9. b \in Seq(Nat)
  BY <1>2, ContentsFit
<1>10. Complete(b, r.patterns[k], reply.val[k], MatchLimit)
  BY <1>7, <1>8, <1>9, SearchEnds, SearchFindCovers
<1>11. QED BY <1>10 DEF r, b, reply

LEMMA ManySearchRight ==
    ASSUME ByteInv, NEW c \in Conns, Req(c).ep = "batch/search", NEW k \in DOMAIN call[c].out,
           FitsInt(Req(c).max), call[c].out[k].answer.st = "ok"
    PROVE  Complete(call[c].out[k].seen, Req(c).pattern, call[c].out[k].answer.val, Req(c).max)
<1> DEFINE r == Req(c)
           x == call[c].out[k]
<1>1. r \in Requests[c] /\ OutRight(r, x)
  BY OutIs DEF OfMany
<1>2. x.seen \in Contents /\ x.answer = BatchSearch(x.seen, r.pattern, AsInt(r.max))
  BY <1>1 DEF OutRight, Error
<1>3. r.pattern \in Seq(Nat) /\ Len(r.pattern) < BatchChunk /\ r.max \in Nat /\ AsInt(r.max) = r.max
  <2>1. r.pattern \in Seq(Nat) /\ Len(r.pattern) < BatchChunk /\ r.max \in Nat
    BY <1>1, AskedAssumption, WordAssumption
  <2> QED BY <2>1, IntIs
<1>4. x.seen \in Seq(Nat) /\ x.answer.st = "ok"
  BY <1>2, ContentsFit
<1> HIDE DEF r, x
<1>5. Complete(x.seen, r.pattern, x.answer.val, r.max)
  BY <1>2, <1>3, <1>4, BatchSearchCovers
<1>6. QED BY <1>5 DEF r, x

\* No search misses an occurrence that lies across the boundary of two chunks or reports
\* one that is not there, whatever the files hold and however long the chunks are.
THEOREM PluginSearchesComplete == Spec => []SearchesComplete
<1>1. ByteInv => SearchesComplete
  BY FindRight, MultiRight, ManySearchRight, Zenon DEF SearchesComplete
<1>2. QED BY <1>1, BytesStart, ByteSteps, PTL DEF Spec

-----------------------------------------------------------------------------

LEMMA ReadsRight == ASSUME ByteInv, NEW c \in Conns PROVE ReadRight(c)
<1> DEFINE r == Req(c)
           b == call[c].seen[1]
           v == call[c].reply.val
           reply == call[c].reply
<1>1. ASSUME r.ep \in Straight, Told(c, r.ep)
      PROVE  r \in Requests[c] /\ b \in Contents /\ reply = Computed(r, call[c].seen) /\ reply.st = "ok"
  BY <1>1, ToldIs
<1>2. ASSUME Told(c, "data/read") PROVE v = Slice(b, r.off, r.len) /\ r.off < Len(b)
  <2>1. r.ep = "data/read" /\ r.ep \in Straight
    BY <1>2 DEF Told, Straight
  <2>2. r \in Requests[c] /\ b \in Contents /\ reply = DataRead(b, r) /\ reply.st = "ok"
    BY <1>1, <1>2, <2>1 DEF Computed
  <2>3. r.off \in Numbers /\ r.len \in Numbers
    BY <2>1, <2>2, AskedAssumption DEF Numbers
  <2> HIDE DEF r, b
  <2>4. DataRead(b, r).val = Slice(b, r.off, r.len) /\ r.off < Len(b)
    BY <2>2, <2>3, DataReadExact
  <2>5. QED BY <2>2, <2>4
<1>3. ASSUME Told(c, "hash/calculate"), FitsInt(r.off)
      PROVE  v[2] = Slice(b, r.off, IF r.len = Absent THEN Len(b) ELSE r.len)
  <2>1. r.ep = "hash/calculate" /\ r.ep \in Straight
    BY <1>3 DEF Told, Straight
  <2>2. r \in Requests[c] /\ b \in Contents /\ reply = HashCalculate(b, r) /\ reply.st = "ok"
    BY <1>1, <1>3, <2>1 DEF Computed
  <2>3. r.off \in Numbers /\ r.len \in Numbers \cup {Absent}
    BY <2>1, <2>2, AskedAssumption DEF Numbers
  <2> HIDE DEF r, b
  <2>4. HashCalculate(b, r).val[2] = Slice(b, r.off, IF r.len = Absent THEN Len(b) ELSE r.len)
    BY <1>3, <2>2, <2>3, HashExact
  <2>5. QED BY <2>2, <2>4
<1>4. ASSUME Told(c, "data/read_chunked"), FitsInt(r.idx), FitsInt(r.chunk), r.off + r.len <= Len(b), r.idx * r.chunk < r.len
      PROVE  /\ v.data = Slice(Slice(b, r.off, r.len), r.idx * r.chunk, r.chunk)
             /\ v.more <=> (r.idx + 1) * r.chunk < r.len
             /\ v.more => v.remaining = r.len - (r.idx + 1) * r.chunk
  <2>1. r.ep = "data/read_chunked" /\ r.ep \in Straight
    BY <1>4 DEF Told, Straight
  <2>2. r \in Requests[c] /\ b \in Contents /\ reply = ReadChunked(b, r) /\ reply.st = "ok"
    BY <1>1, <1>4, <2>1 DEF Computed
  <2>3. r.off \in Numbers /\ r.len \in Numbers /\ r.chunk \in Numbers /\ r.idx \in Numbers
    BY <2>1, <2>2, AskedAssumption DEF Numbers
  <2>4. v = ReadChunked(b, r).val
    BY <2>2
  <2> HIDE DEF r, b, v
  <2>5. /\ v.data = Slice(Slice(b, r.off, r.len), r.idx * r.chunk, r.chunk)
        /\ v.more <=> (r.idx + 1) * r.chunk < r.len
        /\ v.more => v.remaining = r.len - (r.idx + 1) * r.chunk
    BY <1>4, <2>2, <2>3, <2>4, ChunkExact, Zenon
  <2>6. QED BY <2>5
<1>5. QED BY <1>2, <1>3, <1>4, Zenon DEF ReadRight

LEMMA BatchHashesRight == ASSUME ByteInv, NEW c \in Conns PROVE BatchHashRight(c)
<1> DEFINE r == Req(c)
           q == [r EXCEPT !.off = 0]
<1>1. ASSUME NEW k \in DOMAIN call[c].out, r.ep = "batch/hash", r.off \in {Absent, 0}, r.algo \in Algorithms
      PROVE  LET x == call[c].out[k]
                 asked == IF r.len = Absent THEN Len(x.seen) ELSE r.len
             IN \/ x.answer = HashCalculate(x.seen, q)
                \/ x.answer = Error /\ Least(Len(x.seen), asked) > MaxScan
                \/ x.seen = <<>>
  <2> DEFINE x == call[c].out[k]
             b == x.seen
  <2>1. r \in Requests[c] /\ OutRight(r, x)
    BY <1>1, OutIs DEF OfMany
  <2>2. r.len \in Numbers \cup {Absent} /\ {"off", "len", "algo"} \subseteq DOMAIN r
    BY <1>1, <2>1, AskedAssumption DEF Numbers
  <2>3. q.off = 0 /\ q.len = r.len /\ q.algo = r.algo
    BY <2>2
  <2>4. b = <<>> \/ (b \in Contents /\ b # <<>> /\ x.answer = BatchHash(b, r))
    BY <1>1, <2>1 DEF OutRight
  <2> HIDE DEF r, q, b
  <2>5. ASSUME b \in Contents, b # <<>>
        PROVE  \/ BatchHash(b, r) = HashCalculate(b, q)
               \/ BatchHash(b, r) = Error /\ Least(Len(b), IF r.len = Absent THEN Len(b) ELSE r.len) > MaxScan
    BY <1>1, <2>2, <2>3, <2>5, BatchHashExact
  <2> HIDE DEF x
  <2>6. \/ x.answer = HashCalculate(b, q)
        \/ x.answer = Error /\ Least(Len(b), IF r.len = Absent THEN Len(b) ELSE r.len) > MaxScan
        \/ b = <<>>
    BY <2>4, <2>5, Zenon
  <2>7. QED BY <2>6, Zenon DEF b, x
<1>2. QED BY <1>1, Zenon DEF BatchHashRight

LEMMA StringsAreRight == ASSUME ByteInv, NEW c \in Conns PROVE StringsRight(c)
<1> DEFINE r == Req(c)
           b == call[c].seen[1]
           v == call[c].reply.val
           At(i) == i \in DOMAIN b /\ b[i] \in Printable
<1>1. ASSUME Told(c, "data/strings"), FitsInt(r.off), FitsInt(r.len), NEW k \in DOMAIN v
      PROVE  /\ \A i \in 1..v[k].len : (i - 1) % v[k].width = 0 => At(v[k].at + i)
             /\ v[k].width = 1 => ~At(v[k].at + v[k].len + 1) \/ v[k].at + v[k].len = r.off + r.len
  <2>1. r.ep = "data/strings" /\ r.ep \in Straight /\ Told(c, r.ep)
    BY <1>1 DEF Told, Straight
  <2>2. r \in Requests[c] /\ b \in Contents /\ v = DataStrings(b, r).val /\ DataStrings(b, r).st = "ok"
    BY <2>1, ToldIs DEF Computed
  <2>3. r.off \in Numbers /\ r.len \in Numbers /\ r.max \in Nat
    BY <2>1, <2>2, AskedAssumption, WordAssumption DEF Numbers
  <2>4. DOMAIN b = 1..Len(b)
    BY <2>2, ContentsFit
  <2> HIDE DEF r, b
  <2>5. k \in DOMAIN DataStrings(b, r).val
    BY <1>1, <2>2
  <2> DEFINE s == DataStrings(b, r).val[k]
  <2>6. /\ \A i \in 1..s.len : (i - 1) % s.width = 0 => s.at + i \in 1..Len(b) /\ b[s.at + i] \in Printable
        /\ s.width = 1 =>
              ~(s.at + s.len + 1 \in 1..Len(b) /\ b[s.at + s.len + 1] \in Printable)
              \/ s.at + s.len = r.off + r.len
    BY <1>1, <2>2, <2>3, <2>5, DataStringsExact, Zenon
  <2>7. v[k] = s
    BY <2>2
  <2> HIDE DEF s, v
  <2>8. QED BY <2>4, <2>6, <2>7
<1>2. QED BY <1>1, Zenon DEF StringsRight

\* A read, a hash, a chunk, a string says of a file what its bytes are, whatever the
\* files, the limits and the numbers a client sends, those that wrap included.
THEOREM PluginAnswersExact == Spec => []AnswersExact
<1>1. ByteInv => AnswersExact
  BY ReadsRight, BatchHashesRight, StringsAreRight DEF AnswersExact
<1>2. QED BY <1>1, BytesStart, ByteSteps, PTL DEF Spec

-----------------------------------------------------------------------------
(* PluginBatchDiff                                                         *)

\* The only analysis that runs is that of the target the handler waits for, and a
\* result in the slot is that target's.
OnlyTarget(js, st, tgt, sl) ==
    /\ st # "wait" => js = {}
    /\ st = "wait" /\ ~sl.completed => js = {tgt}
    /\ st = "wait" /\ sl.completed => js = {}
    /\ st = "wait" /\ sl.completed /\ ~sl.failed => sl.tree[1] = tgt /\ sl.tree[2] = TreeOf(tgt)

SlotTyped(sl) ==
    /\ DOMAIN sl = {"tree", "completed", "failed"}
    /\ sl.completed \in BOOLEAN /\ sl.failed \in BOOLEAN

LoopTyped(st, tgt, kn) ==
    /\ kn \subseteq DOMAIN Data
    /\ st = "wait" => tgt \in DOMAIN Data
    /\ st \in {"next", "wait"} => Reference \in DOMAIN Data

\* A difference is reported for the file it was computed from, with its similarity.
Truthful(d) ==
    /\ d.of = d.target /\ {d.target, Reference} \subseteq DOMAIN Data
    /\ d.similarity = Similarity(TreeOf(d.target), d.target)

DiffInv ==
    /\ DiffTypeOK /\ SlotTyped(slot) /\ LoopTyped(stage, target, known) /\ Listable(diffs)
    /\ ~late => OnlyTarget(jobs, stage, target, slot)
    /\ ~late => \A k \in DOMAIN diffs : Truthful(diffs[k])

LEMMA DiffStarts == DiffInit => DiffInv
<1> SUFFICES ASSUME DiffInit PROVE DiffInv
  OBVIOUS
<1> USE DEF DiffInit
<1>1. DiffTypeOK
  BY DiffAssumption DEF DiffTypeOK
<1>2. SlotTyped(slot)
  BY DEF SlotTyped, FreshSlot
<1>3. Listable(diffs) /\ \A k \in DOMAIN diffs : Truthful(diffs[k])
  <2>1. diffs \in Seq({})
    OBVIOUS
  <2> QED BY <2>1 DEF Listable
<1>4. LoopTyped(stage, target, known) /\ OnlyTarget(jobs, stage, target, slot)
  BY DEF LoopTyped, OnlyTarget
<1> QED BY <1>1, <1>2, <1>3, <1>4 DEF DiffInv

LEMMA RequestDiff ==
    ASSUME DiffInv, NEW ids \in Targets, Request(ids)
    PROVE  DiffInv'
<1>1. DiffTypeOK' /\ LoopTyped(stage', target', known')
  BY DEF DiffInv, DiffTypeOK, LoopTyped, Request
<1>2. /\ UNCHANGED <<slot, diffs, late, jobs, target>>
      /\ stage = "idle" /\ stage' # "wait"
  BY DEF Request
<1>3. ~late' => OnlyTarget(jobs', stage', target', slot')
  BY <1>2 DEF DiffInv, OnlyTarget
<1> QED BY <1>1, <1>2, <1>3 DEF DiffInv

LEMMA NextTargetDiff ==
    ASSUME DiffInv, NextTarget
    PROVE  DiffInv'
<1> DEFINE i == Head(todo)
<1>0. UNCHANGED <<diffOpen, known, late, diffs, best, worst>> /\ stage = "next"
  BY DEF NextTarget
<1>1. CASE stage' = "done" /\ answer' = "undefined" /\ UNCHANGED <<target, slot, polls, jobs>>
  <2>1. DiffTypeOK' /\ LoopTyped(stage', target', known')
    BY <1>0, <1>1 DEF DiffInv, DiffTypeOK, LoopTyped
  <2>2. ~late' => OnlyTarget(jobs', stage', target', slot')
    BY <1>0, <1>1 DEF DiffInv, OnlyTarget
  <2> QED BY <1>0, <1>1, <2>1, <2>2 DEF DiffInv
<1>2. CASE UNCHANGED <<stage, answer, target, slot, polls, jobs>>
  BY <1>0, <1>2 DEF DiffInv, DiffTypeOK
<1>3. CASE /\ i \in known
           /\ target' = i /\ slot' = FreshSlot /\ polls' = 0
           /\ jobs' = jobs \cup {i} /\ stage' = "wait" /\ UNCHANGED answer
  <2> HIDE DEF i
  <2>1. i \in DOMAIN Data
    BY <1>3 DEF DiffInv, LoopTyped
  <2>2. DiffTypeOK'
    BY <1>0, <1>3, <2>1, DiffAssumption DEF DiffInv, DiffTypeOK
  <2>3. LoopTyped(stage', target', known')
    BY <1>0, <1>3, <2>1 DEF DiffInv, LoopTyped
  <2>4. SlotTyped(slot') /\ ~slot'.completed
    BY <1>3 DEF SlotTyped, FreshSlot
  <2>5. ~late' => OnlyTarget(jobs', stage', target', slot')
    BY <1>0, <1>3, <2>4 DEF DiffInv, OnlyTarget
  <2> QED BY <1>0, <2>2, <2>3, <2>4, <2>5 DEF DiffInv
<1> QED BY <1>1, <1>2, <1>3 DEF NextTarget

\* What an analysis that ends may leave.
LEMMA EndJobDiff ==
    ASSUME DiffInv, NEW i, NEW outcome, EndJob(i, outcome), SlotTyped(outcome), outcome.completed,
           ~outcome.failed => outcome.tree[1] = i /\ outcome.tree[2] = TreeOf(i)
    PROVE  DiffInv'
<1>1. /\ i \in jobs /\ jobs' = jobs \ {i}
      /\ UNCHANGED <<diffOpen, stage, target, polls, late, known, todo, diffs, best, worst, answer>>
      /\ slot' = outcome \/ ((i # target \/ stage # "wait") /\ UNCHANGED slot)
  BY DEF EndJob, loopVars
<1>2. DiffTypeOK' /\ LoopTyped(stage', target', known')
  BY <1>1 DEF DiffInv, DiffTypeOK
<1>3. SlotTyped(slot')
  BY <1>1 DEF DiffInv
<1>4. ASSUME ~late PROVE OnlyTarget(jobs', stage', target', slot')
  <2>1. OnlyTarget(jobs, stage, target, slot)
    BY <1>4 DEF DiffInv
  <2>2. stage = "wait" /\ ~slot.completed /\ i = target /\ jobs = {target}
    BY <1>1, <2>1 DEF OnlyTarget, DiffInv, SlotTyped
  <2>3. slot' = outcome /\ jobs' = {} /\ stage' = stage /\ target' = i
    BY <1>1, <2>2
  <2> QED BY <2>3 DEF OnlyTarget
<1> QED BY <1>1, <1>2, <1>3, <1>4 DEF DiffInv

LEMMA AnalysedDiff ==
    ASSUME DiffInv, NEW i \in DOMAIN Data, Analysed(i) \/ Failed(i)
    PROVE  DiffInv'
<1>1. CASE Analysed(i)
  <2> DEFINE tree == <<i, TreeOf(i)>>
             s == [tree |-> tree, completed |-> TRUE, failed |-> FALSE]
  <2>1. EndJob(i, s) /\ tree[1] = i /\ tree[2] = TreeOf(i)
    BY <1>1 DEF Analysed
  <2> HIDE DEF tree
  <2>2. SlotTyped(s) /\ s.completed /\ s.tree[1] = i /\ s.tree[2] = TreeOf(i)
    BY <2>1 DEF SlotTyped
  <2> HIDE DEF s
  <2> QED BY <2>1, <2>2, EndJobDiff
<1>2. CASE Failed(i)
  <2> DEFINE s == [slot EXCEPT !.completed = TRUE, !.failed = TRUE]
  <2>1. EndJob(i, s)
    BY <1>2 DEF Failed
  <2>2. SlotTyped(s) /\ s.completed /\ s.failed
    BY DEF DiffInv, SlotTyped
  <2> HIDE DEF s
  <2> QED BY <2>1, <2>2, EndJobDiff
<1> QED BY <1>1, <1>2

\* What ends a wait without a result leaves no analysis, unless it gives one up.
LEMMA LeaveDiff ==
    ASSUME DiffInv, Poll \/ GiveUp \/ Skip \/ EndDiff
    PROVE  DiffInv'
<1>1. /\ UNCHANGED <<diffOpen, known, target, slot, jobs, diffs>>
      /\ stage' \in {stage, "next", "done"}
      /\ stage' = "next" => stage = "wait"
      /\ stage' # stage => stage' # "wait"
  BY DEF Poll, GiveUp, Skip, EndDiff, loopVars
<1>2. DiffTypeOK'
  <2>1. polls' \in 0..MaxPolls /\ answer' \in {answer, "ok"}
    BY DiffAssumption DEF DiffInv, DiffTypeOK, Poll, GiveUp, Skip, EndDiff, loopVars
  <2> QED BY <1>1, <2>1 DEF DiffInv, DiffTypeOK
<1>3. LoopTyped(stage', target', known')
  BY <1>1 DEF DiffInv, LoopTyped
<1>4. ~late' => ~late /\ OnlyTarget(jobs', stage', target', slot')
  BY <1>1 DEF DiffInv, OnlyTarget, Poll, GiveUp, Skip, EndDiff, loopVars
<1> QED BY <1>1, <1>2, <1>3, <1>4 DEF DiffInv

LEMMA RecordDiff ==
    ASSUME DiffInv, Record
    PROVE  DiffInv'
<1> DEFINE s == Similarity(slot.tree[2], target)
           d == [target |-> target, of |-> slot.tree[1], similarity |-> s]
<1>1. /\ UNCHANGED <<diffOpen, known, todo, target, slot, polls, jobs, late>>
      /\ stage = "wait" /\ slot.completed /\ ~slot.failed
      /\ \/ stage' = "done" /\ answer' = "undefined" /\ UNCHANGED diffs
         \/ stage' = "next" /\ UNCHANGED answer /\ diffs' = Append(diffs, d)
  BY DEF Record
<1>2. d.target = target /\ d.of = slot.tree[1] /\ d.similarity = s
  OBVIOUS
<1> HIDE DEF d
<1>3. DiffTypeOK' /\ LoopTyped(stage', target', known') /\ SlotTyped(slot')
  BY <1>1 DEF DiffInv, DiffTypeOK, LoopTyped
<1>4. ~late' => OnlyTarget(jobs', stage', target', slot')
  BY <1>1 DEF DiffInv, OnlyTarget
<1>5. Listable(diffs') /\ (~late' => \A k \in DOMAIN diffs' : Truthful(diffs'[k]))
  <2>1. ~late => Truthful(d)
    BY <1>1, <1>2 DEF DiffInv, OnlyTarget, LoopTyped, Truthful
  <2>2. CASE diffs' = diffs
    BY <1>1, <2>2 DEF DiffInv
  <2>3. CASE diffs' = Append(diffs, d)
    <3>1. PICK S : diffs \in Seq(S)
      BY DEF DiffInv, Listable
    <3>2. diffs \in Seq(S \cup {d}) /\ d \in S \cup {d}
      BY <3>1
    <3>3. /\ Append(diffs, d) \in Seq(S \cup {d})
          /\ \A k \in DOMAIN Append(diffs, d) :
                \/ Append(diffs, d)[k] = d
                \/ k \in DOMAIN diffs /\ Append(diffs, d)[k] = diffs[k]
      BY <3>2, AppendProperties
    <3> QED BY <1>1, <2>1, <2>3, <3>3 DEF DiffInv, Listable
  <2> QED BY <1>1, <2>2, <2>3
<1> QED BY <1>3, <1>4, <1>5 DEF DiffInv

LEMMA CloseDiff ==
    ASSUME DiffInv, NEW i, Close(i)
    PROVE  DiffInv'
BY DEF DiffInv, DiffTypeOK, Close, loopVars

LEMMA DiffSteps == DiffInv /\ [DiffNext]_diffVars => DiffInv'
<1> SUFFICES ASSUME DiffInv, [DiffNext]_diffVars PROVE DiffInv'
  OBVIOUS
<1>1. CASE UNCHANGED diffVars
  BY <1>1 DEF DiffInv, DiffTypeOK, diffVars
<1>2. ASSUME DiffNext PROVE DiffInv'
  <2>1. \/ \E ids \in Targets : Request(ids)
        \/ NextTarget \/ (Poll \/ GiveUp \/ Skip \/ EndDiff) \/ Record
        \/ \E i \in DOMAIN Data : \/ Analysed(i) \/ Failed(i)
                                 \/ Close(i)
    BY <1>2, Zenon DEF DiffNext
  <2> QED BY <2>1, RequestDiff, NextTargetDiff, LeaveDiff, RecordDiff, AnalysedDiff, CloseDiff
<1> QED BY <1>1, <1>2

\* batch/diff: as long as no analysis has been given up, each difference is reported
\* for the file it was computed from, whatever providers are open, close or fail.
THEOREM DiffsReportedOwn == DiffSpec => []DiffsOwn
<1>1. DiffInv => DiffsOwn
  BY DEF DiffInv, DiffsOwn, Truthful
<1> QED BY <1>1, DiffStarts, DiffSteps, PTL DEF DiffSpec

LEMMA ExtentIs ==
    ASSUME NEW i \in DOMAIN Data, Reference \in DOMAIN Data
    PROVE  /\ Len(Data[Reference]) \in Nat /\ Len(Data[i]) \in Nat
           /\ Extent(i) = IF Len(Data[Reference]) > Len(Data[i]) THEN Len(Data[Reference]) ELSE Len(Data[i])
<1> DEFINE a == Len(Data[Reference])
           b == Len(Data[i])
<1>1. a \in Nat /\ b \in Nat
  BY DiffAssumption
<1> HIDE DEF a, b
<1>2. \E x \in {a, b} : \A y \in {a, b} : x >= y
  BY <1>1
<1>3. Max({a, b}) \in {a, b} /\ \A y \in {a, b} : Max({a, b}) >= y
  BY <1>2 DEF Max
<1>4. Max({a, b}) = IF a > b THEN a ELSE b
  BY <1>1, <1>3
<1> QED BY <1>1, <1>4 DEF Extent, a, b

\* A hundred percent of a number are the whole number.
LEMMA WholePercent ==
    ASSUME NEW c \in Nat, NEW e \in Nat, e # 0
    PROVE  /\ (100 * c) \div e = 100 => c >= e
           /\ c = e => (100 * c) \div e = 100
<1>1. ASSUME NEW x \in Nat PROVE (x \div e) \in Int /\ e * (x \div e) <= x /\ x < e * (x \div e) + e
  OBVIOUS
<1>2. 100 * c \in Nat
  OBVIOUS
<1> DEFINE q == (100 * c) \div e
<1>3. q \in Int /\ e * q <= 100 * c /\ 100 * c < e * q + e
  BY <1>1, <1>2
<1> HIDE DEF q
<1> DEFINE z == e * q
<1>a. z \in Int /\ z <= 100 * c /\ 100 * c < z + e
  BY <1>3
<1>4. ASSUME q = 100 PROVE c >= e
  <2>1. e * q = 100 * e
    BY <1>4
  <2> QED BY <1>3, <2>1
<1>5. ASSUME c = e PROVE q = 100
  <2>1. z <= 100 * e /\ 100 * e < z + e
    <3> HIDE DEF z
    <3> QED BY <1>a, <1>5
  <2>2. q <= 100
    <3>1. ASSUME q >= 101 PROVE FALSE
      <4>1. z >= e * 101
        BY <1>3, <3>1
      <4> HIDE DEF z
      <4> QED BY <1>a, <2>1, <4>1
    <3> QED BY <1>3, <3>1
  <2>3. q >= 100
    <3>1. ASSUME q <= 99 PROVE FALSE
      <4>1. z <= e * 99
        BY <1>3, <3>1
      <4> HIDE DEF z
      <4> QED BY <1>a, <2>1, <4>1
    <3> QED BY <1>3, <3>1
  <2> QED BY <1>3, <2>2, <2>3
<1> QED BY <1>4, <1>5 DEF q

Regions == {"match", "mismatch", "insertion", "deletion"}

\* Two files are wholly alike only if they are the same and not empty.
LEMMA SimilarityExact ==
    ASSUME NEW i \in DOMAIN Data, Reference \in DOMAIN Data
    PROVE  Similarity(TreeOf(i), i) = 100 <=> Data[i] = Data[Reference] /\ Data[Reference] # <<>>
<1> DEFINE A == Data[Reference]
           B == Data[i]
           a == Len(A)
           b == Len(B)
           n == IF a > b THEN a ELSE b
           K == [p \in 1..n |-> Kind(A, B, p)]
           runs == Runs(K, Regions)
           tree == TreeOf(i)
           alike(x) == \E k \in DOMAIN tree : tree[k].type = "match" /\ x \in tree[k].from..tree[k].to
           M == {x \in 0..(n - 1) : alike(x)}
<1>1. A \in Seq(Nat) /\ B \in Seq(Nat) /\ a \in Nat /\ b \in Nat /\ n \in Nat /\ n >= a /\ n >= b
  BY DiffAssumption
<1>2. Extent(i) = n
  BY ExtentIs
<1>3. Similarity(tree, i) = IF n = 0 THEN 0 ELSE (100 * Cardinality(M)) \div n
  BY <1>2 DEF Similarity
<1>4. /\ \A p \in 1..n : K[p] = Kind(A, B, p) /\ K[p] \in Regions
      /\ Places(K, n)
  BY DEF Kind, Regions, Places
<1>5. DOMAIN K = 1..n /\ Len(K) = n
  BY <1>1, <1>4, SeqByPlaces
<1>6. /\ RunsOf(runs, K, n, Regions)
      /\ \A p \in 1..n : K[p] \in Regions
  <2> HIDE DEF n, K
  <2> QED BY <1>1, <1>4, RunsAll
<1>7. Len(runs) \in Nat
  BY <1>6, LenProperties DEF RunsOf
<1>8. tree = [k \in 1..Least(MaxRegions, Len(runs)) |->
                 [from |-> runs[k][1] - 1, to |-> runs[k][2] - 1, type |-> Kind(A, B, runs[k][1])]]
  BY DEF TreeOf, DiffAnalyze, Regions
<1> HIDE DEF tree, runs
<1>9. /\ \A k \in DOMAIN tree : /\ k \in 1..Len(runs) /\ tree[k].from = runs[k][1] - 1
                                /\ tree[k].to = runs[k][2] - 1 /\ tree[k].type = Kind(A, B, runs[k][1])
      /\ 1 \in 1..Len(runs) => 1 \in DOMAIN tree
  <2>1. Least(MaxRegions, Len(runs)) \in Nat /\ Least(MaxRegions, Len(runs)) <= Len(runs)
        /\ (Len(runs) >= 1 => Least(MaxRegions, Len(runs)) >= 1)
    BY <1>7, DiffAssumption DEF Least
  <2> DEFINE l == Least(MaxRegions, Len(runs))
  <2> HIDE DEF l
  <2>2. l \in Nat /\ l <= Len(runs) /\ (Len(runs) >= 1 => l >= 1)
    BY <2>1 DEF l
  <2>3. DOMAIN tree = 1..l
    BY <1>8 DEF l
  <2>4. \A k \in 1..l : k \in 1..Len(runs)
    BY <1>7, <2>2
  <2>5. \A k \in 1..l : /\ tree[k].from = runs[k][1] - 1
                        /\ tree[k].to = runs[k][2] - 1 /\ tree[k].type = Kind(A, B, runs[k][1])
    BY <1>8 DEF l
  <2>6. 1 \in 1..Len(runs) => 1 \in 1..l
    BY <1>7, <2>2
  <2> HIDE DEF A, B
  <2> QED BY <2>3, <2>4, <2>5, <2>6
\* What is counted as alike is alike.
<1>10. ASSUME NEW x \in M PROVE K[x + 1] = "match"
  <2>1. PICK k \in DOMAIN tree : tree[k].type = "match" /\ x \in tree[k].from..tree[k].to
    OBVIOUS
  <2>2. k \in 1..Len(runs) /\ tree[k].from = runs[k][1] - 1
        /\ tree[k].to = runs[k][2] - 1 /\ tree[k].type = Kind(A, B, runs[k][1])
    BY <1>9
  <2>3. PICK f \in 1..n : \E e \in f..n : runs[k] = <<f, e>> /\ \A l \in f..e : K[l] = K[f]
    BY <1>6, <2>2 DEF RunsOf
  <2>4. PICK e \in f..n : runs[k] = <<f, e>> /\ \A l \in f..e : K[l] = K[f]
    BY <2>3
  <2>5. runs[k][1] = f /\ runs[k][2] = e
    BY <2>4
  <2>6. K[f] = "match"
    BY <1>4, <2>1, <2>2, <2>5
  <2>7. x + 1 \in f..e
    BY <2>1, <2>2, <2>5
  <2> QED BY <2>4, <2>6, <2>7
<1>11. IsFiniteSet(0..(n - 1)) /\ Cardinality(0..(n - 1)) = n
  <2> HIDE DEF n
  <2>1. 0 \in Int /\ n - 1 \in Int /\ (IF 0 > n - 1 THEN 0 ELSE (n - 1) - 0 + 1) = n
    BY <1>1
  <2> QED BY <2>1, FS_Interval
<1>12. /\ Cardinality(M) \in Nat /\ Cardinality(M) <= n
       /\ Cardinality(M) = n => M = 0..(n - 1)
  <2>1. M \in SUBSET (0..(n - 1))
    OBVIOUS
  <2> HIDE DEF M, n
  <2>2. IsFiniteSet(M) /\ Cardinality(M) <= n /\ (Cardinality(M) = n => M = 0..(n - 1))
    BY <1>11, <2>1, FS_Subset
  <2> QED BY <2>2, FS_CardinalityType
<1>13. ASSUME Similarity(tree, i) = 100 PROVE B = A /\ A # <<>>
  <2>1. n # 0 /\ (100 * Cardinality(M)) \div n = 100
    BY <1>3, <1>13
  <2>2. Cardinality(M) >= n
    <3> HIDE DEF M, n
    <3> QED BY <1>1, <1>12, <2>1, WholePercent
  <2>3. M = 0..(n - 1)
    <3> HIDE DEF M, n
    <3> QED BY <1>1, <1>12, <2>2
  <2>4. ASSUME NEW p \in 1..n PROVE p <= a /\ p <= b /\ A[p] = B[p]
    <3>1. p - 1 \in 0..(n - 1) /\ (p - 1) + 1 = p
      BY <1>1
    <3>2. K[p] = "match"
      BY <1>10, <2>3, <3>1
    <3>3. Kind(A, B, p) = "match"
      BY <1>4, <3>2
    <3> QED BY <1>1, <3>3 DEF Kind
  <2>5. a = n /\ b = n
    <3>1. n \in 1..n
      BY <1>1, <2>1
    <3> QED BY <1>1, <2>4, <3>1
  <2>6. A = B
    <3>1. A = [p \in 1..n |-> A[p]] /\ B = [p \in 1..n |-> B[p]]
      BY <1>1, <2>5, LenProperties
    <3> QED BY <2>4, <3>1
  <2>7. A # <<>>
    BY <2>1, <2>5, EmptySeq
  <2> QED BY <2>6, <2>7
<1>14. ASSUME B = A, A # <<>> PROVE Similarity(tree, i) = 100
  <2>1. a = n /\ b = n /\ n # 0
    BY <1>1, <1>14, EmptySeq
  <2>2. \A p \in 1..n : K[p] = "match"
    BY <1>1, <1>4, <1>14, <2>1 DEF Kind
  <2>3. 1 \in 1..n /\ Begins(K, 1)
    BY <1>1, <2>1 DEF Begins
  <2>4. 1 \in 1..Len(runs)
    <3> HIDE DEF n, K
    <3>1. PICK j \in 1..Len(runs) : runs[j] = <<1, EndOf(K, 1)>>
      BY <1>6, <2>3 DEF RunsOf
    <3> QED BY <1>7, <3>1
  <2>5. PICK f \in 1..n : \E e \in f..n : runs[1] = <<f, e>> /\ Begins(K, f) /\ (e = n \/ K[e + 1] # K[f])
    <3> HIDE DEF n, K
    <3> QED BY <1>6, <2>4 DEF RunsOf
  <2>6. PICK e \in f..n : runs[1] = <<f, e>> /\ (e = n \/ K[e + 1] # K[f])
    BY <2>5
  <2>7. f = 1
    <3>1. f = 1 \/ K[f - 1] # K[f]
      BY <2>5 DEF Begins
    <3>2. f = 1 \/ f - 1 \in 1..n
      BY <1>1
    <3> QED BY <2>2, <3>1, <3>2
  <2>8. e = n
    <3>1. e = n \/ e + 1 \in 1..n
      BY <1>1
    <3> QED BY <2>2, <2>6, <3>1
  <2>9. 1 \in DOMAIN tree /\ tree[1].from = 0 /\ tree[1].to = n - 1 /\ tree[1].type = "match"
    <3>1. runs[1][1] = 1 /\ runs[1][2] = n
      BY <2>6, <2>7, <2>8
    <3>2. Kind(A, B, 1) = "match"
      BY <1>4, <2>2, <2>3
    <3> QED BY <1>9, <2>4, <3>1, <3>2
  <2>10. M = 0..(n - 1)
    BY <2>9
  <2>11. Cardinality(M) = n
    BY <1>11, <2>10
  <2>12. (100 * Cardinality(M)) \div n = 100
    <3> HIDE DEF M, n
    <3> QED BY <1>1, <1>12, <2>1, <2>11, WholePercent
  <2> QED BY <1>3, <2>1, <2>12
<1> QED BY <1>13, <1>14 DEF tree

\* The similarity of two files is a number.
LEMMA SimilarityIsInt ==
    ASSUME NEW tree, NEW i \in DOMAIN Data, Reference \in DOMAIN Data
    PROVE  Similarity(tree, i) \in Int
<1> DEFINE M(e) == {b \in 0..(e - 1) : \E k \in DOMAIN tree :
                      tree[k].type = "match" /\ b \in tree[k].from..tree[k].to}
           e == Extent(i)
<1>2. e \in Nat
  BY ExtentIs
<1>3. Similarity(tree, i) = IF e = 0 THEN 0 ELSE (100 * Cardinality(M(e))) \div e
  BY DEF Similarity
<1> HIDE DEF e
<1>4. Cardinality(M(e)) \in Nat
  <2>1. IsFiniteSet(0..(e - 1))
    BY <1>2, FS_Interval
  <2>2. IsFiniteSet(M(e))
    BY <2>1, FS_Subset
  <2> QED BY <2>2, FS_CardinalityType
<1> DEFINE c == Cardinality(M(e))
<1>5. c \in Nat
  BY <1>4
<1> HIDE DEF c, M
<1>6. e # 0 => (100 * c) \div e \in Int
  BY <1>2, <1>5
<1> QED BY <1>3, <1>6 DEF c

Comparable(ds, bst, wst) ==
    bst[2] \in Int /\ wst[2] \in Int /\ \A k \in DOMAIN ds : ds[k].similarity \in Int

Bounded(ds, bst, wst) ==
    /\ \A k \in DOMAIN ds : ds[k].similarity <= bst[2] /\ ds[k].similarity >= wst[2]
    /\ bst[1] # 0 => \E k \in DOMAIN ds : ds[k].target = bst[1] /\ ds[k].similarity = bst[2]
    /\ wst[1] # 0 => \E k \in DOMAIN ds : ds[k].target = wst[1] /\ ds[k].similarity = wst[2]

Higher(bst, t, s) == IF s > bst[2] THEN <<t, s>> ELSE bst
Lower(wst, t, s) == IF s < wst[2] THEN <<t, s>> ELSE wst
Difference(t, o, s) == [target |-> t, of |-> o, similarity |-> s]

\* One more difference is taken into both bounds.
LEMMA BoundedMore ==
    ASSUME NEW ds, Listable(ds), NEW bst, NEW wst, Comparable(ds, bst, wst), Bounded(ds, bst, wst),
           NEW t, NEW o, NEW s \in Int
    PROVE  /\ Comparable(Append(ds, Difference(t, o, s)), Higher(bst, t, s), Lower(wst, t, s))
           /\ Bounded(Append(ds, Difference(t, o, s)), Higher(bst, t, s), Lower(wst, t, s))
<1> DEFINE d == Difference(t, o, s)
           more == Append(ds, d)
           bst2 == Higher(bst, t, s)
           wst2 == Lower(wst, t, s)
           n == Len(more)
<1>1. d.target = t /\ d.similarity = s /\ more = Append(ds, d)
  BY DEF Difference
<1> HIDE DEF d
<1>2. PICK S : ds \in Seq(S)
  BY DEF Listable
<1>3. ds \in Seq(S \cup {d}) /\ d \in S \cup {d}
  BY <1>2
<1>4. /\ n \in DOMAIN more /\ more[n] = d
      /\ \A k \in DOMAIN ds : k \in DOMAIN more /\ more[k] = ds[k]
      /\ \A k \in DOMAIN more : k = n \/ k \in DOMAIN ds
  BY <1>1, <1>3, AppendProperties
<1> HIDE DEF n
<1> DEFINE u == <<t, s>>
<1>0. u[1] = t /\ u[2] = s /\ bst2 = (IF s > bst[2] THEN u ELSE bst) /\ wst2 = (IF s < wst[2] THEN u ELSE wst)
  BY DEF Higher, Lower
<1> HIDE DEF u, more, bst2, wst2
<1>5. /\ bst2[2] \in Int /\ bst2[2] >= bst[2] /\ bst2[2] >= s
      /\ bst2 = bst \/ (bst2[1] = t /\ bst2[2] = s)
  BY <1>0 DEF Comparable
<1>6. /\ wst2[2] \in Int /\ wst2[2] <= wst[2] /\ wst2[2] <= s
      /\ wst2 = wst \/ (wst2[1] = t /\ wst2[2] = s)
  BY <1>0 DEF Comparable
<1>7. Comparable(more, bst2, wst2)
  BY <1>1, <1>4, <1>5, <1>6 DEF Comparable
<1>8. ASSUME NEW k \in DOMAIN more
      PROVE  more[k].similarity <= bst2[2] /\ more[k].similarity >= wst2[2]
  <2>1. CASE k = n
    BY <1>1, <1>4, <1>5, <1>6, <2>1
  <2>2. CASE k \in DOMAIN ds
    <3>1. /\ more[k].similarity = ds[k].similarity /\ ds[k].similarity \in Int
          /\ ds[k].similarity <= bst[2] /\ ds[k].similarity >= wst[2]
          /\ bst[2] \in Int /\ wst[2] \in Int
      BY <1>4, <2>2 DEF Comparable, Bounded
    <3> QED BY <1>5, <1>6, <3>1
  <2> QED BY <1>4, <2>1, <2>2
<1>9. bst2[1] # 0 => \E k \in DOMAIN more : more[k].target = bst2[1] /\ more[k].similarity = bst2[2]
  <2>1. CASE bst2 = bst
    BY <1>4, <2>1 DEF Bounded
  <2>2. CASE bst2[1] = t /\ bst2[2] = s
    BY <1>1, <1>4, <2>2
  <2> QED BY <1>5, <2>1, <2>2
<1>10. wst2[1] # 0 => \E k \in DOMAIN more : more[k].target = wst2[1] /\ more[k].similarity = wst2[2]
  <2>1. CASE wst2 = wst
    BY <1>4, <2>1 DEF Bounded
  <2>2. CASE wst2[1] = t /\ wst2[2] = s
    BY <1>1, <1>4, <2>2
  <2> QED BY <1>6, <2>1, <2>2
<1> QED BY <1>7, <1>8, <1>9, <1>10 DEF Bounded, more, bst2, wst2, d

SummaryInv == DiffInv /\ Comparable(diffs, best, worst) /\ Bounded(diffs, best, worst)

LEMMA SummaryStarts == DiffInit => SummaryInv
<1> SUFFICES ASSUME DiffInit PROVE SummaryInv
  OBVIOUS
<1>1. diffs = <<>> /\ best = <<0, 0>> /\ worst = <<0, 100>>
  BY DEF DiffInit
<1> QED BY <1>1, DiffStarts DEF SummaryInv, Comparable, Bounded

LEMMA SummarySteps == SummaryInv /\ [DiffNext]_diffVars => SummaryInv'
<1> SUFFICES ASSUME SummaryInv, [DiffNext]_diffVars PROVE SummaryInv'
  OBVIOUS
<1>1. DiffInv'
  BY DiffSteps DEF SummaryInv
<1>2. UNCHANGED <<diffs, best, worst>> => SummaryInv'
  BY <1>1 DEF SummaryInv
<1>3. ASSUME Record PROVE SummaryInv'
  <2> DEFINE s == Similarity(slot.tree[2], target)
             more == Append(diffs, Difference(target, slot.tree[1], s))
             b == Higher(best, target, s)
             w == Lower(worst, target, s)
  <2>1. stage = "wait" /\ (UNCHANGED <<diffs, best, worst>> \/ (diffs' = more /\ best' = b /\ worst' = w))
    BY <1>3 DEF Record, Better, Worse, Higher, Lower, Difference
  <2>2. s \in Int
    BY <2>1, SimilarityIsInt DEF SummaryInv, DiffInv, LoopTyped
  <2> HIDE DEF s
  <2>3. Comparable(more, b, w) /\ Bounded(more, b, w)
    <3>1. Listable(diffs) /\ Comparable(diffs, best, worst) /\ Bounded(diffs, best, worst)
      BY DEF SummaryInv, DiffInv
    <3> QED BY <2>2, <3>1, BoundedMore
  <2> QED BY <1>1, <1>2, <2>1, <2>3 DEF SummaryInv
<1>4. CASE UNCHANGED diffVars
  BY <1>2, <1>4 DEF diffVars
<1>5. ASSUME DiffNext PROVE Record \/ UNCHANGED <<diffs, best, worst>>
  BY <1>5, Zenon DEF DiffNext, Request, NextTarget, Poll, GiveUp, Skip, EndDiff, Analysed, Failed, EndJob, Close,
     loopVars
<1> QED BY <1>2, <1>3, <1>4, <1>5

\* batch/diff: no similarity that is reported lies outside the summary's bounds, and
\* the most and the least similar file have the similarity it gives, even after
\* an analysis was given up. As long as none has been, a similarity of 100 is
\* reported for the files that equal the reference, unless that is empty, and for no
\* other, whatever the files hold and however many regions are asked for.
THEOREM DiffSummaryRight == DiffSpec => []SummaryRight
<1>1. ASSUME DiffInv, ~late, NEW k \in DOMAIN diffs
      PROVE  diffs[k].similarity = 100 <=>
                Data[diffs[k].target] = Data[Reference] /\ Data[Reference] # <<>>
  <2>1. Truthful(diffs[k])
    BY <1>1 DEF DiffInv
  <2> QED BY <2>1, SimilarityExact DEF Truthful
<1>2. SummaryInv => SummaryRight
  BY <1>1 DEF SummaryInv, Bounded, SummaryBounds, SummaryRight
<1> QED BY <1>2, SummaryStarts, SummarySteps, PTL DEF DiffSpec

=============================================================================
