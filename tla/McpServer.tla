------------------------------- MODULE McpServer -------------------------------
(***************************************************************************)
(* The MCP server (mcp-server/server.py).  A tool call sends one command   *)
(* to ImHex over a connection of its own and blocks the event loop until   *)
(* it has a text, so calls come one after the other.  ImHex may go away,   *)
(* be slow, or close the connection at any point.  What the handlers of    *)
(* the plugin do is ImHexPlugin; here a handler runs once per request and  *)
(* succeeds, fails, or does not know the endpoint or a parameter.          *)
(***************************************************************************)
EXTENDS Integers, Sequences, FiniteSets

CONSTANTS
    Used,        \* the tools a client calls
    MaxRetries,  \* max_retries of the connection
    MaxParts,    \* bound on the pieces one response arrives in
    MaxCalls     \* bound on the calls

ASSUME McpAssumption == MaxRetries \in Nat \ {0} /\ MaxParts \in Nat /\ MaxCalls \in Nat

VARIABLES
    listening,       \* whether ImHex accepts connections
    tool,     \* the tool of the current call
    given,    \* the arguments it was given
    calls,    \* the calls so far: the number of the current one
    phase,    \* "idle", "connect", "send", "recv", "parse" or "text"
    attempt,  \* connection attempts of this command
    socket,   \* the number of the command whose connection self.socket is, or 0
    wire,     \* command -> its connection: [st, parts, result]
    got,      \* what was received: "nothing", "part" or "all"
    ran,      \* command -> how often its handler ran
    text      \* the text of the last call

mcpVars == <<listening, tool, given, calls, phase, attempt, socket, wire, got, ran, text>>

---------------------------------------------------------------------------
(* What list_tools announces: a tool, the arguments it requires and those    *)
(* it offers.  Two tools are announced twice.                               *)

Schema(name, requires, offers) == [tool |-> name, requires |-> requires, offers |-> offers]

FileSchemas == {
    Schema("imhex_get_capabilities", {}, {}),
    Schema("imhex_set_pattern_code", {"code"}, {}),
    Schema("imhex_open_file", {"path"}, {}),
    Schema("imhex_list_files", {}, {}),
    Schema("imhex_switch_file", {"provider_id"}, {}),
    Schema("imhex_close_file", {"provider_id"}, {}),
    Schema("imhex_compare_files", {"provider_id_1", "provider_id_2"}, {})}

ByteSchemas == {
    Schema("imhex_read_hex", {"offset", "length"}, {}),
    Schema("imhex_write_hex", {"offset", "data"}, {}),
    Schema("imhex_search", {"pattern", "type"}, {"offset", "limit"}),
    Schema("imhex_multi_search", {"patterns"}, {"limit"})}

DataSchemas == {
    Schema("imhex_hash", {"algorithm"}, {"offset", "length"}),
    Schema("imhex_bookmark_add", {"offset", "size", "name"}, {"color"}),
    Schema("imhex_remove_bookmark", {"id"}, {}),
    Schema("imhex_inspect_data", {"offset"}, {}),
    Schema("imhex_provider_info", {}, {})}

ExportSchemas == {
    Schema("imhex_export_data", {"offset", "length", "output_path"}, {"format"}),
    Schema("imhex_export_search_results", {"matches", "output_path"}, {"format", "context_bytes"}),
    Schema("imhex_batch_open_directory", {"directory"}, {"pattern", "recursive", "max_files", "filters"})}

BatchSchemas == {
    Schema("imhex_batch_search", {"patterns"}, {"provider_ids", "max_matches_per_file"}),
    Schema("imhex_batch_hash", {"algorithms"}, {"provider_ids"}),
    Schema("imhex_batch_diff", {"reference_id", "target_ids"}, {"algorithm", "max_diff_regions"})}

Region == {"provider_id", "offset", "size"}

RegionSchemas == {
    Schema("imhex_batch_hash", {"provider_ids", "algorithm"}, {"offset", "size"}),
    Schema("imhex_batch_search", {"provider_ids", "pattern"}, {"max_matches"}),
    Schema("imhex_data_entropy", {}, Region),
    Schema("imhex_data_statistics", {}, Region \cup {"include_distribution"})}

ContentSchemas == {
    Schema("imhex_data_strings", {}, Region \cup {"min_length", "type", "max_strings"}),
    Schema("imhex_data_magic", {}, Region),
    Schema("imhex_data_disassemble", {}, Region \cup {"architecture", "base_address"})}

Schemas == FileSchemas \cup ByteSchemas \cup DataSchemas \cup ExportSchemas
           \cup BatchSchemas \cup RegionSchemas \cup ContentSchemas
SchemasOf(t) == {s \in Schemas : s.tool = t}

\* What clients give: what a schema requires, with or without what it offers, or nothing.
Arguments(t) == {{}} \cup UNION {{s.requires, s.requires \cup s.offers} : s \in SchemasOf(t)}

---------------------------------------------------------------------------
(* The branches of call_tool, in their order: the endpoint asked, the      *)
(* parameters copied from arguments (null if not given), those filled in   *)
(* when they are not given, and those sent only when they are.             *)

Branch(ep, copies, fills, maybe) ==
    [ep |-> ep, copies |-> copies, fills |-> fills, maybe |-> maybe]

FileTools ==
    [imhex_get_capabilities |-> Branch("imhex/capabilities", {}, {}, {}),
     imhex_set_pattern_code |-> Branch("pattern_editor/set_code", {"code"}, {}, {}),
     imhex_open_file |-> Branch("file/open", {"path"}, {}, {}),
     imhex_list_files |-> Branch("file/list", {}, {}, {}),
     imhex_switch_file |-> Branch("file/switch", {"provider_id"}, {}, {}),
     imhex_close_file |-> Branch("file/close", {"provider_id"}, {}, {}),
     imhex_compare_files |-> Branch("file/compare", {"provider_id_1", "provider_id_2"}, {}, {})]

ByteTools ==
    [imhex_read_hex |-> Branch("data/read", {"offset", "length"}, {}, {}),
     imhex_write_hex |-> Branch("data/write", {"offset", "data"}, {}, {}),
     imhex_search |-> Branch("search/find", {"pattern", "type"}, {}, {"offset", "limit"}),
     imhex_multi_search |-> Branch("search/multi", {}, {"patterns", "limit"}, {})]

DataTools ==
    [imhex_hash |-> Branch("hash/calculate", {"algorithm"}, {"offset"}, {"length"}),
     imhex_bookmark_add |-> Branch("bookmark/add", {"offset", "size", "name"}, {"color"}, {}),
     imhex_remove_bookmark |-> Branch("bookmark/remove", {"id"}, {}, {}),
     imhex_inspect_data |-> Branch("data/inspect", {"offset"}, {}, {})]

ExportTools ==
    [imhex_provider_info |-> Branch("provider/info", {}, {}, {}),
     imhex_export_data |-> Branch("data/export", {"offset", "length", "output_path"},
           {"format"}, {}),
     imhex_export_search_results |-> Branch("search/export", {"output_path"},
           {"matches", "format", "context_bytes"}, {})]

BatchTools ==
    [imhex_batch_open_directory |-> Branch("batch/open_directory", {"directory"},
           {"pattern", "recursive", "max_files", "filters"}, {}),
     imhex_batch_search |-> Branch("batch/search", {},
           {"patterns", "max_matches_per_file"}, {"provider_ids"}),
     imhex_batch_hash |-> Branch("batch/hash", {}, {"algorithms"}, {"provider_ids"})]

DiffTools ==
    [imhex_batch_diff |-> Branch("batch/diff", {"reference_id", "target_ids"},
           {"algorithm", "max_diff_regions"}, {})]

SecondTools ==
    [imhex_batch_hash |-> Branch("batch/hash", {"provider_ids"},
           {"algorithm", "offset"}, {"size"}),
     imhex_batch_search |-> Branch("batch/search", {"provider_ids", "pattern"},
           {"max_matches"}, {})]

AnalysisTools ==
    [imhex_data_entropy |-> Branch("data/entropy", {}, Region, {}),
     imhex_data_statistics |-> Branch("data/statistics",
           {}, Region \cup {"include_distribution"}, {})]

ContentTools ==
    [imhex_data_strings |-> Branch("data/strings",
           {}, Region \cup {"min_length", "type", "max_strings"}, {}),
     imhex_data_magic |-> Branch("data/magic", {}, Region, {}),
     imhex_data_disassemble |-> Branch("data/disassemble",
           {}, Region \cup {"architecture", "base_address"}, {})]

\* The first branch for a name is the one that is taken.
f ++ g == [t \in DOMAIN f \cup DOMAIN g |-> IF t \in DOMAIN f THEN f[t] ELSE g[t]]

Tools == FileTools ++ ByteTools ++ DataTools ++ ExportTools ++ BatchTools
         ++ DiffTools ++ SecondTools ++ AnalysisTools ++ ContentTools
ToolNames == DOMAIN Tools

\* The parameters of the command that are not null.
Sent(t, g) == LET b == Tools[t] IN (g \cap (b.copies \cup b.maybe)) \cup b.fills

---------------------------------------------------------------------------
(* The endpoints, with the parameters they insist on. *)

Endpoint(ep, needs) == [ep |-> ep, needs |-> needs]

Endpoints == {
    Endpoint("imhex/capabilities", {}),
    Endpoint("pattern_editor/set_code", {"code"}),
    Endpoint("file/open", {"path"}),
    Endpoint("file/list", {}),
    Endpoint("file/switch", {"provider_id"}),
    Endpoint("file/close", {"provider_id"}),
    Endpoint("file/compare", {"provider_id_1", "provider_id_2"}),
    Endpoint("search/find", {"pattern", "type"}),
    Endpoint("search/multi", {"patterns"}),
    Endpoint("data/read", {"offset", "length"}),
    Endpoint("data/write", {"offset", "data"}),
    Endpoint("hash/calculate", {"algorithm"}),
    Endpoint("bookmark/add", {"offset", "size", "name"}),
    Endpoint("bookmark/remove", {"id"}),
    Endpoint("data/inspect", {"offset"}),
    Endpoint("provider/info", {}),
    Endpoint("data/export", {"offset", "length", "output_path"}),
    Endpoint("search/export", {"matches", "output_path"}),
    Endpoint("batch/search", {"pattern"}),
    Endpoint("batch/hash", {}),
    Endpoint("batch/diff", {"reference_id"}),
    Endpoint("data/entropy", {}),
    Endpoint("data/statistics", {}),
    Endpoint("data/strings", {}),
    Endpoint("data/magic", {}),
    Endpoint("data/disassemble", {})}

EndpointOf(t) == {e \in Endpoints : e.ep = Tools[t].ep}

\* Whether the plugin can serve tool t called with g.
Understood(t, g) == \E e \in EndpointOf(t) : e.needs \subseteq Sent(t, g)

\* The tools that may not be able to read an answer that went well: what is a share of
\* no bytes is null, where a number is formatted, and a distribution is a list, where
\* a dictionary is sorted.
Misreading == {"imhex_compare_files", "imhex_data_statistics"}

---------------------------------------------------------------------------
(* The server. *)

McpInit ==
    /\ listening = TRUE
    /\ tool = "none" /\ given = {} /\ calls = 0 /\ phase = "idle" /\ attempt = 0 /\ socket = 0
    /\ wire = <<>> /\ got = "nothing" /\ ran = <<>> /\ text = "none"

Disconnect == socket' = 0

\* A call opens a fresh connection, whatever became of the last one; a file that
\* is not there and a tool that is not known end it at once.
CallTool(t) ==
    /\ phase = "idle" /\ calls < MaxCalls
    /\ calls' = calls + 1 /\ tool' = t /\ given' \in Arguments(t)
    /\ wire' = Append(wire, [st |-> "none", parts |-> 0, result |-> "none"])
    /\ ran' = Append(ran, 0)
    /\ attempt' = 0 /\ got' = "nothing" /\ Disconnect
    /\ \/ /\ t \in ToolNames /\ phase' = "connect" /\ text' = "none"
          /\ t = "imhex_open_file" => "path" \in given'
       \/ t \notin ToolNames \cup {"none"} /\ phase' = "text" /\ text' = "unknown_tool"
       \/ /\ t = "imhex_open_file" /\ phase' = "text"
          /\ text' = IF "path" \in given' THEN "file_not_found" ELSE "unexpected_error"
    /\ UNCHANGED listening

Connect ==
    /\ phase = "connect"
    /\ attempt' = attempt + 1
    /\ \/ /\ listening
          /\ socket' = calls
          /\ wire' = [wire EXCEPT ![calls].st = "open"]
          /\ phase' = "send"
          /\ UNCHANGED text
       \/ /\ Disconnect
          /\ IF attempt + 1 < MaxRetries THEN UNCHANGED <<phase, text>>
             ELSE phase' = "text" /\ text' = "connection_error"
          /\ UNCHANGED wire
    /\ UNCHANGED <<listening, tool, given, calls, got, ran>>

ConnectionError == phase' = "text" /\ text' = "connection_error" /\ Disconnect

\* [mutant: a request that could not be sent is sent once more]
SendAllAgain ==
    /\ phase = "send"
    /\ \/ /\ wire[socket].st = "open"
          /\ wire' = [wire EXCEPT ![socket].st = "asked"]
          /\ UNCHANGED <<text, socket>>
          /\ phase' = "recv" \/ (attempt < MaxRetries /\ phase' = "connect")
       \/ ConnectionError /\ UNCHANGED wire
    /\ UNCHANGED <<listening, tool, given, calls, attempt, got, ran>>

\* sendall: also when it fails, the whole request may have arrived.
SendAll ==
    /\ phase = "send"
    /\ \/ /\ wire[socket].st = "open"
          /\ wire' = [wire EXCEPT ![socket].st = "asked"]
          /\ \/ phase' = "recv" /\ UNCHANGED <<text, socket>>
             \/ ConnectionError
       \/ ConnectionError /\ UNCHANGED wire
    /\ UNCHANGED <<listening, tool, given, calls, attempt, got, ran>>

\* recv returns a piece, or b"" when ImHex has closed, or times out.
Recv ==
    /\ phase = "recv"
    /\ \/ /\ wire[socket].parts > 0
          /\ wire' = [wire EXCEPT ![socket].parts = @ - 1]
          /\ IF wire[socket].parts = 1 /\ wire[socket].st = "answered"
             THEN got' = "all" /\ phase' = "parse"
             ELSE got' = "part" /\ UNCHANGED phase
       \/ /\ wire[socket].parts = 0 /\ wire[socket].st \in {"answered", "closed"}
          /\ phase' = "parse" /\ UNCHANGED <<wire, got>>
    /\ UNCHANGED <<listening, tool, given, calls, attempt, socket, ran, text>>

\* [mutant: only a recv that got nothing times out]
RecvTimeoutFirst ==
    /\ phase = "recv" /\ got = "nothing"
    /\ ConnectionError
    /\ UNCHANGED <<listening, tool, given, calls, attempt, wire, got, ran>>

\* With a part of the response it goes on to parse that, else it gives up.
RecvTimeout ==
    /\ phase = "recv"
    /\ IF got = "nothing" THEN ConnectionError
       ELSE phase' = "parse" /\ UNCHANGED <<text, socket>>
    /\ UNCHANGED <<listening, tool, given, calls, attempt, wire, got, ran>>

\* What becomes of a whole answer.
Reading ==
    IF wire[socket].result # "ok" THEN {"imhex_error"}
    ELSE {"success"} \cup {t \in {"unexpected_error"} : tool \in Misreading}

\* An answer with an error leaves the connection as it is, every other one ends it.
Parse ==
    /\ phase = "parse"
    /\ phase' = "text"
    /\ text' \in CASE got = "nothing" -> {"connection_error"}
                   [] got = "part" -> {"imhex_error"}
                   [] got = "all" -> Reading
    /\ socket' = IF got = "all" /\ wire[socket].result # "ok" THEN socket ELSE 0
    /\ UNCHANGED <<listening, tool, given, calls, attempt, wire, got, ran>>

\* The text goes back to the client.
Return ==
    /\ phase = "text"
    /\ phase' = "idle"
    /\ UNCHANGED <<listening, tool, given, calls, attempt, socket, wire, got, ran, text>>

---------------------------------------------------------------------------
(* ImHex, from outside. *)

Handle(n) ==
    /\ listening /\ wire[n].st = "asked"
    /\ ran' = [ran EXCEPT ![n] = @ + 1]
    /\ \E result \in (IF n = calls /\ Understood(tool, given) THEN {"ok", "failed"} ELSE {"failed"}) :
          wire' = [wire EXCEPT ![n] = [@ EXCEPT !.st = "ran", !.result = result]]
    /\ UNCHANGED <<listening, tool, given, calls, phase, attempt, socket, got, text>>

\* The response arrives in pieces, the last of which ends it, or its end stays out.
Answer(n) ==
    /\ wire[n].st = "ran"
    /\ \E st \in {"answered", "stalled"}, k \in 1..MaxParts :
          wire' = [wire EXCEPT ![n] = [@ EXCEPT !.st = st, !.parts = k]]
    /\ UNCHANGED <<listening, tool, given, calls, phase, attempt, socket, got, ran, text>>

\* The connection ends.
Ended(st) == IF st \in {"open", "asked", "ran", "stalled"} THEN "closed" ELSE st
Break(n) ==
    /\ wire[n].st # Ended(wire[n].st)
    /\ wire' = [wire EXCEPT ![n].st = Ended(@)]
    /\ UNCHANGED <<listening, tool, given, calls, phase, attempt, socket, got, ran, text>>

StartOrStop ==
    /\ listening' = ~listening
    /\ wire' = IF listening THEN [n \in DOMAIN wire |-> [wire[n] EXCEPT !.st = Ended(@)]] ELSE wire
    /\ UNCHANGED <<tool, given, calls, phase, attempt, socket, got, ran, text>>

Server == Connect \/ SendAll \/ Recv \/ RecvTimeout \/ Parse \/ Return
ImHex == StartOrStop \/ \E n \in DOMAIN wire : Handle(n) \/ Answer(n) \/ Break(n)

McpNext == (\E t \in Used : CallTool(t)) \/ Server \/ ImHex

\* The server runs: its calls return or time out.
McpSpec == McpInit /\ [][McpNext]_mcpVars /\ WF_mcpVars(Server)

---------------------------------------------------------------------------
(* Properties. *)

\* The values the variables take: a call has an attempt left while it connects, and
\* self.socket belongs to a command there has been.
McpTypeOK ==
    /\ phase \in {"idle", "connect", "send", "recv", "parse", "text"}
    /\ attempt \in 0..MaxRetries /\ (phase = "connect" => attempt < MaxRetries)
    /\ socket \in 0..calls
    /\ Len(wire) = calls /\ Len(ran) = calls
    /\ got \in {"nothing", "part", "all"}

\* A command runs at most once although connecting is retried, so a write or an
\* open is never repeated; and the text of a call is true of its own command: a
\* success means that it ran and went well, and a missing file or an unknown tool
\* that nothing was sent.  An unexpected error is either: an open without a path, of
\* which nothing was sent, or a command that ran and went well and whose answer could
\* not be read.  Of a connection error one cannot tell.
TextTrue ==
    /\ \A n \in DOMAIN ran : ran[n] <= 1
    /\ phase = "text" =>
        /\ text = "success" => ran[calls] = 1 /\ wire[calls].result = "ok"
        /\ text \in {"unknown_tool", "file_not_found"} => ran[calls] = 0
        /\ text = "unexpected_error" =>
              IF tool = "imhex_open_file" THEN ran[calls] = 0
              ELSE ran[calls] = 1 /\ wire[calls].result = "ok"
        /\ got = "all" /\ text = "imhex_error" => wire[calls].result = "failed"

\* Every call ends with a text, however ImHex behaves.
CallReturns == [](phase # "idle" => <>(phase = "idle"))

==============================================================================
