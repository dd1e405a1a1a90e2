# TLA+ models of imhexMCP

imhexMCP lets programs and language models drive the ImHex hex editor: a plugin
inside ImHex answers one JSON line per request on a TCP port, and a Python
library and an MCP server send those lines. This directory holds TLA+
specifications of the system from both ends of that line: the plugin with its
threads and its arithmetic on bytes, the MCP server, and the parts of the library
in which tasks or threads meet (pools, caches, breakers, queues, batches,
streams); TLC configurations that check them on small instances; and TLAPS
proofs of what matters most for every value of the constants.

- [Inventory](#inventory): the parts of the system and what makes them correct
- [Modules](#modules): which module models which code, and how
- [Runs](#runs): what each configuration checks, its bounds and its fairness
- [Proofs](#proofs): what is proved, from what, along which argument
- [Disagreements](#disagreements-between-the-code-and-its-words): code against docs
- [Limits](#limits): what is only model-checked and what is not modelled
- [Plan](#plan): what comes next

Commands, from this directory: `tlc -config pool.cfg MCConnectionPool` checks a
run (the module of each run is in `PROJECT.json`), `tlapm ConnectionPoolProofs.tla`
checks the proofs of a module.

## Inventory

How the parts interact: a program calls an endpoint wrapper of a client; the
client looks into its cache, takes a connection from a pool (or a thread, or a
fresh socket), writes a line, reads a line, gives the connection back and stores
the answer. `AdvancedRequestManager`, the batchers and the streaming helpers sit
on top and call the client; health, metrics and profiling observe it. The MCP
server has a client of its own, one socket and one command at a time. In the
plugin every connection has a thread, which runs the handler of its request and
looks up the providers (open files) it needs; only ImHex's main thread opens and
closes providers, and does so after the reply was sent.

| Component | State it keeps | Operations | What is hard, and what makes it correct |
|---|---|---|---|
| Async connection pool, `lib/connection_pool.py` | deque of idle connections, set in use, semaphore, lock, flags, gauges, health-check task | initialize, acquire, release, health check, close, `async with` | tasks interleave at every `await`, with and without the lock; peers close; callers are cancelled. A connection has one user, permits balance, gauges are exact, a closed pool drains, waiters are served |
| Async client, `lib/async_client.py` | cache, pool or executor and semaphore, retry loop | send_request, send_batch, stream_read, some 20 endpoint wrappers, `async with` | answers carry no request id, so pairing rests on what the pool hands out. Each call gets its own answer, reads see completed writes, calls end |
| Circuit breaker, `lib/advanced_features.py` | state, two counters, time of the last failure | call | the call itself runs outside the lock: results arrive in any later state. No transition is overdue, only legal moves, recovery |
| Priority queue and scheduler, `lib/advanced_features.py` | heap, active requests, futures, workers | submit, get_next, process_request, start, stop | callers are cancelled before the result, workers die, start and stop overlap. Counts are exact, nobody is lost, everybody is served |
| AdvancedRequestManager, `lib/advanced_features.py` | a scheduler and a breaker | start, stop, execute | the composition of the two above |
| Request batcher, `lib/request_batching.py` | the list of requests; during a batch: pending, completed, responses | add, clear, execute in three modes | waves of concurrent calls along dependencies with cycles, missing and duplicate ids, failures. Order kept, answers complete and in place, the batch ends |
| Response caches, `lib/cache.py` | ordered map, memory account, statistics | get, set, invalidate, clear, cleanup | limits and eviction, expiry, invalidation, a value larger than the cache |
| Cached client, `lib/cached_client.py` | a response cache, invalidation table | send_request | an answer stored after the invalidation that should have removed it |
| Tiered cache, `lib/advanced_cache.py` | two tiers, access pattern, prefetch tasks | get, put, promote, prefetch, warm, clear | tiers that disagree, prefetches against clear, a drifting size account |
| Socket batching, `lib/batching.py` | a socket per batch, map of ids | sequential, concurrent and pipelined execution | pairing of responses with requests, framing of a byte stream |
| Clients with a connection per request: executor transport of `lib/async_client.py`, `mcp-server/enhanced_client.py`, `lib/cached_client.py`, `lib/streaming.py`, `lib/lazy.py`, command line client | a socket per attempt, threads of an executor | send_request, retry, adapter of the MCP server | a retry repeats what may have been executed; a thread outlives the task that was cancelled; a loop that reads past the end. A command runs as often as its client tried, an answer is that of the last attempt |
| Sync error handling, `lib/error_handling.py` | breaker without a lock, threaded pool | call, get_connection, close_all, retry | threads; a lock held while waiting; counts that go negative |
| Rate limiting, `lib/security.py` | token buckets | acquire, check_rate_limit, cleanup | global and client buckets changed at different awaits |
| Lazy loading, `lib/lazy.py` | value and flag per object | get, execute, reset, invalidate | double-checked locking against reset, and a factory that gives `None`. A value is loaded once between two resets, a loaded cell does not fail |
| Health monitor, `lib/health_monitor.py` | counters, checks, one lock | record_*, run checks, reports | a lock that is not reentrant and a report that asks for it twice. One monitor, counters that agree, checks of what was counted, a report that returns (it does not) |
| Plugin, `plugin/source/plugin_mcp.cpp` | ImHex's providers and the current one; tasks for the main thread | 29 endpoints on files, bytes, searches, analyses, batches | a provider may be closed or another one become current between lookup and use; opening is checked now and done later; 64-bit sums wrap, some numbers are read as an `int`; chunk boundaries; analyses that are given up go on. Answers say what is in the bytes |
| MCP server, `mcp-server/server.py` | one socket | connect with retries, send_command, some 30 tools | a command must be sent once though connecting is retried; an answer may be late, cut or missing; an answer that came may not be readable; what is announced, sent and understood is written in three places. The text is true of the command, every call ends |
| Streaming helpers, `lib/streaming.py` | a generator's offset | stream_read, stream_search, stream_hash, stream_entropy | chunks and overlaps at the end of a file that changes. Chunks tile the file, nothing is missed |
| Compression, metrics, configuration, logging, profiling | counters, settings | pure I/O, conversions and reports | little that interleaves |

`PROJECT.json` lists the same parts with their status, and under `hazards` every
place where this code can go wrong in a way a test would hardly reach, with the
properties that would notice.

## Modules

| Module | What it is |
|---|---|
| `ConnectionPool` | the pool of `lib/connection_pool.py`, step by step |
| `PoolPromise` | what a pool promises its callers; used by the client and refined by the pool |
| `ConnectionPoolRefinement` | the mapping of the pool to its promise (`KeepsPromise`) |
| `AsyncClient` | `send_request` over `PoolPromise`, a wire to ImHex and the cache |
| `CircuitBreaker` | `CircuitBreaker.call` of `lib/advanced_features.py` |
| `PriorityScheduler` | `PriorityQueue` and `PriorityScheduler` |
| `RequestBatching` | `RequestBatcher.execute` |
| `PluginBytes` | what the endpoints of the plugin compute on the bytes of a provider, as operators |
| `ImHexPlugin` | the handlers of the plugin on their threads, and the main thread; `EXTENDS PluginBytes` |
| `PluginBatchDiff` | the endpoint `batch/diff` and the analyses it waits for; `EXTENDS PluginBytes` |
| `McpServer` | the tools of the MCP server, their schemas and their one connection to ImHex |
| `DirectRequests` | the clients that open a connection for every request, retrying or not, in threads or not |
| `KeyedLists` | lists with keys and weights: what is left without some keys, the sum of the weights; recursive functions, so that they can be proved about |
| `ResponseCache` | the operations of both caches of `lib/cache.py`, and of a plain dictionary, as operators on a cache |
| `CachedClient` | the three clients that use them; `EXTENDS ResponseCache` |
| `TieredCache` | `MultiTierCache` and its two `CacheTier`s |
| `SocketBatching` | the three strategies of `BatchImHexClient` |
| `Streaming` | the generators of `StreamingClient` |
| `ThreadedPool`, `ThreadedBreaker` | pool and breaker of `lib/error_handling.py`, under threads |
| `RateLimiter` | `SecurityManager.check_request` |
| `LazyLoading` | the lazily loaded cells of `lib/lazy.py` |
| `HealthMonitor` | the monitor of `lib/health_monitor.py` under several threads |
| `MCConnectionPool`, `MCAsyncClient`, `MCPriorityScheduler` | instances for TLC |
| `MCAsyncParts` | the asynchronous client with its cache and a cancellation, and without either, side by side |
| `MCImHexPlugin` | plugin, `batch/diff` and `RequestBatching` side by side |
| `MCLive` | breaker, scheduler and MCP server side by side, each with its fairness |
| `MCLibrary` | eleven parts of the library side by side |
| `ListProofs` | the lemmas on `KeyedLists` that the proofs about caches, tiers and summaries share |
| `ConnectionPoolProofs`, `AsyncClientProofs` | theorems about pool and client |
| `AdvancedFeaturesProofs` | theorems about `CircuitBreaker` and `PriorityScheduler` |
| `BatchingProofs` | theorems about `RequestBatching`, `SocketBatching` and `Streaming` |
| `CachingProofs` | theorems about `ResponseCache` and `CachedClient`, `TieredCache`, `LazyLoading` |
| `ResilienceProofs` | theorems about `ThreadedBreaker`, `ThreadedPool`, `RateLimiter`, `DirectRequests` and `HealthMonitor` |
| `ServerProofs` | theorems about `McpServer`, `ImHexPlugin` and `PluginBatchDiff` |

`MCLive`, `MCLibrary` and `MCImHexPlugin` (and `MCAsyncParts`, whose second half is the client again
with other constants, by `INSTANCE`) compose parts that share nothing, by `EXTENDS`,
so that what they check is the very definition a theorem is about: the variable `part`
says which one a behaviour is about and the others keep their initial state, so
that one run checks many small instances and their state spaces add up instead of
multiplying. Everything that does share state is composed for real: pool and
client through `PoolPromise`, caches and clients, handlers and main thread.

The models of asynchronous code share one reading of asyncio: tasks run on one event loop, so an
action is what a task does between two suspension points, and whatever is read
before an `await` may be stale after it. An `await` that cannot suspend (a free
lock, a gather of finished tasks) is still a boundary between actions: the model
then has more interleavings than the program, never fewer. Code that runs on threads
(`LazyLoading`, `ThreadedPool`, `ThreadedBreaker`, `HealthMonitor`, the synchronous
client of `CachedClient`) is cut finer, at every read or write of something shared that a
lock does not cover. Definitions that
carry the comment `[mutant: ...]` or `Mutant:` are deliberately wrong variants of the one
below them; no specification uses them. Each shows that the property named
with it in `PROJECT.json` notices such a bug.

### ConnectionPool

`pc[t]` says where a task is suspended: `wantPermit` and `wantLock` at the
semaphore and the lock of `acquire`, `search`, `discard` and `create` inside
the lock, `using` between acquire and release, `wantRelease` and `retire` in
`release`, `init` in `initialize`, `wantDrain` and `drain` in `close`. `mon[t]`
is the health check that the initializer `t` started: as two first acquires can
both run `initialize`, there may be two, and `_health_check_task`
(`healthTask`) names only the last. `CancelCaller` is `CancelledError` at any
suspension point: `async with` frees the lock, and no handler gives a permit back.

A real `PooledConnection` is a dataclass with equality and without hash, so
`_in_use.add` raises `TypeError`, and `_is_healthy` is false on every asyncio
transport. The unit tests use mocks which have neither problem. A connection is
therefore either a stand-in (`StandIns`) or a real one, and the `pool` run
mixes both: behaviours with one kind only are among those it explores.

The owner of the pool enters it with `async with` or just uses it and closes it,
chosen in `Init`; `EnteredSpec` keeps the first case.

### PoolPromise and the refinement

A caller enters, waits, is granted a connection nobody else holds, and leaves;
a pool that is shut lets nobody enter. `ConnectionPoolRefinement` maps `pc` to
the stages and `conn` to the grant. The client is specified over
`PoolPromise`, so that its results hold for any pool that keeps it, the one of
`lib/connection_pool.py` (with connections that can be hashed) included.

### AsyncClient

`toServer[c]` and `toClient[c]` are the lines on a connection; `version` counts
the writes ImHex executed, `acked` the latest that a caller knows of, `floor[p]`
what was known when p's call began. `Serve` and `PeerClose` are ImHex, `Forget`
is the cache's expiry and eviction, `Close`, `CloseHeld` and `Retire` together
the pool's `close`, which reaches the connections one at a time. `Cancel`
is the cancellation of a call wherever it waits; after it `Abort` is the
`finally` that releases the connection with `healthy` as it was.

### CircuitBreaker

`Admit`, `Succeed`, `Fail` and `Cancel` are the locked parts of `call`; between
them the coroutine runs outside the lock. `Check` is `_check_state_transition`
on the counters just updated. `_success_count` grows without bound while the circuit
is closed and is capped at its threshold, above which nothing reads it. `up`
and `sound` describe the service: once `up`, calls that begin succeed.

### PriorityScheduler

`caller[r]` is where submit and the wait for the future are, `future[r]` the
future, `active` the dictionary `_active_requests`, `worker[w]` and `current[w]`
the worker tasks, `listed` the list `_workers`, `stops` the calls of `stop()`
that gather workers. Requests of one priority are equal to the heap, so any of
them may be taken first. Ageing is left out as the code applies it where it has
no effect (see below).

### RequestBatching

A batch is any list of `NumRequests` requests with any ids and any
dependencies, chosen in `Init`. `Ready` is what the next gather starts in each
mode; `StartWave` and `WaveDone` are the gather, `End` an executor that
returns, raises or is cancelled by itself, `Cancel` the cancellation of the task
that awaits `execute`. `Kept` and `Source` model the dictionaries keyed by id,
in which the last request of an id replaces the others. `MultiBatch`, `Pipeline` and
`Chunks` are the batches that `create_multi_read_batch`, `create_multi_file_batch`,
`create_analysis_pipeline` and `batch_multi_read` build: their ids are distinct, so that
every request gets its own answer (`OwnAnswers`). `LeaveUnresolved` is the break out of the loop
when nothing is ready, `Respond` the return of `execute`.

### ImHexPlugin, PluginBytes, PluginBatchDiff

`open`, `path`, `bytes` and `current` are ImHex's providers; `tasks` is what
`TaskManager::doLater` was given. A handler runs in two steps, `Look` (find the
providers) and then `Compute`, `Write` or `Switch`, so that the main thread
(`RunOpen`, `RunClose`) or another connection may come between them; what the use
of a provider closed in between gives is the answer `Undefined`. `batch/hash`
and `batch/search` look each provider up when its turn comes (`BatchNext`).
`PluginBytes` has one operator per endpoint from bytes and request to answer;
sums of offsets and lengths are taken modulo `Word`; where the code reads a number with
`data.value(key, 0)`, which is an `int`, `AsInt` is what is left of it: the low 32 bits
(`IntWord`), and a negative number extended to 64. Others are read as they are, with
`get<u64>()`. `LowerCase` is the lower case of an algorithm's name, which `hash/calculate`
takes and `batch/hash` does not. The limits of the code (10
MB, 100 MB, chunks of 1 MB) are constants, and a vector that cannot be
allocated makes the handler answer an error. A hash is the algorithm with the
bytes it was given. What a loop gathers is the concatenation of what each of its
turns adds (`Joined`): the hits of a search chunk by chunk (`HitsUpTo`), the strings and the
regions of a diff as the maximal runs of a sequence (`Runs`). `AskedAssumption` types what the
requests carry.

`PluginBatchDiff` is one call of `batch/diff`. The analysis runs as a task of ImHex
that writes into the local variables of the handler's loop, which polls for it.
A task that is given up writes all the same: `late` says that this
happened. The diff is an edit script over the bytes, its similarity an integer.

### McpServer

`Schemas` is what `list_tools` announces: tool, required and offered arguments. `Tools`
is what `call_tool` makes of a tool (endpoint and the parameters it insists on or passes
on, `Sent`), `Endpoints` what the handlers of the plugin insist on (`data.at`); a command
is `Understood` if the endpoint exists and gets what it needs by name. These tables are
constants of the module, read from the three places of the code. The values of arguments are
not in them: what the schemas say of those, against what the plugin makes of them, is listed
below.

One command at a time: `CallTool` chooses a tool and its arguments (`given`), `Connect`
retries, `SendAll` hands the line to the kernel whole or in part, `Recv`, `RecvTimeout`
and `Parse` are the loop that reads to the newline. `Reading` is what the branch of the tool makes of a
whole answer: it may fail on one that went well (`Misreading`), and the text is then an unexpected
error although the command ran. `wire[n]` is what ImHex got of
command `n`, `ran[n]` how often its handler ran. `McpInit` is the server after a start
that succeeded: `main` exits otherwise, and asks for the capabilities over a connection
that is closed again.

### DirectRequests

`sender` says which client a behaviour is about: the retrying ones (`CachedImHexClient`,
`StreamingClient`, `LazyClient`), the enhanced one, the command line or the executor transport;
`adapted` whether the MCP server uses it through its adapter. `asker[c]` is where the caller of `c`
is, `job[c]` where the code that sends is, which for the executor is a thread that goes on when
its caller has been cancelled. `conns[c]` are the connections of `c`, one for each attempt:
`Execute`, `Respond` and `Hangup` are ImHex, which may execute an attempt that was given up.
`SocketError` is where the clients differ most: an exception that reaches `retry_with_backoff`
leads to another attempt, one that was wrapped before does not. `sendall` may fail after the
request has arrived, and succeed on a connection that ImHex has closed.

### HealthMonitor

`monLock` is the lock of the monitor, `spot[w]` where thread `w` is. `metrics` are the
counters, `checks` the last stored checks, `found[w]` those that `w` has made and not yet
stored. `HoldAndAsk` is a report: it holds the lock and asks for the status, which takes
it. `overtaken` marks checks that a reset ran over between their making and their storing.

### ResponseCache and CachedClient

A cache is its entries from the least to the most recently used, with a memory
account. `SetSync`, `SetAsync` and `SetPlain` differ in when they make room.
The three clients take the same steps, `Ask`, `Serve`, `InvalidateNext`, `Store`, with
the other callers in between. `truth[e]` counts the changes of what endpoint `e`
answers, `known[e]` those that a request that has returned made, and `late` marks
an answer that was under way while its entry was invalidated.

### TieredCache, SocketBatching, Streaming

`TieredCache`: no lock is held over an `await`, so only the loader takes time: a
load in `inFlight` is a get, a warming or a prefetch before its `put`.
`lost` is the bytes taken off twice.

`SocketBatching`: an answer is a line of two pieces, `Recv(n)` returns the next `n`
pieces whatever they are, and `Parsed` is `json.loads` of what was read up to a
chunk that held a newline: the two pieces of one line, or a failure.

`Streaming`: the file changes between two requests (`Overwrite`), answers may be
short or fail; `whole` says that none of this happened.

### LazyLoading, ThreadedPool, ThreadedBreaker, RateLimiter

`LazyLoading` is one cell of any of eight classes (`kind`): they differ in what
they test without the lock, in how a reset works and in what is stored when.
`loads[n]` records what load `n` gave (a value, `None`, or nothing, as it raised) and how many resets
were over when it began. `Blanks` are the classes for which a `None` of the factory looks as if
nothing had been loaded, or fails an assertion. `ThreadedBreaker` executes one attribute access at a time, as the class has
no lock; `failed` counts the failures reported, `raced` says that a reset
and the report of a failure overlapped: one thread was between two assignments of the one
(`Resetting`) while another was between two of the other. `ThreadedPool` holds its lock while
it waits for a socket; `peer[s]` is what a peek at a socket finds: nothing (`quiet`, which raises), bytes,
a closed or a reset connection.
`RateLimiter` is one action per check, as no step of a check suspends; tokens are
counted in parts so that a client's share is an integer.

## Runs

| Run | Specification and bounds | What it shows | States |
|---|---|---|---|
| `pool` | 2 callers, owner, 3 stand-ins and 1 real connection, min 2, max 2, 1 removal, 1 cancellation | exclusive use, semaphore account, gauges, drained stays empty, refinement of `PoolPromise` | 2.6 M |
| `pool_live` | `EnteredSpec`: 2 callers, 3 stand-ins, min 1, max 1 | waiters are served, a closed pool ends without open sockets | 7.7 k |
| `pool_real_acquire` | real connections only | violation: `acquire` never delivers one | - |
| `async` | 2 callers, 2 connections, a read and a write, 3 calls; cache on and 1 cancellation, or cache off and none | own answers and a keyed cache until a call is cancelled; unclaimed answers never outnumber cancelled calls; without the cache calls see completed writes (`UncachedSeesWrites`); calls end | 694 k |
| `async_cancel` | cache off, 1 cancellation | violation: the next caller gets the cancelled call's answer | - |
| `async_cached_write` | cache on | violation: writes answered from the cache, stale reads | - |
| `scheduler_starve` | callers come back, 1 worker | violation: a low priority starves | - |
| `pool_reuse` | the threaded pool: 2 threads, 3 sockets, limit 2 | violation: a live connection is closed with room for it | - |
| `health_report` | `FairHealthSpec`: 2 threads, 2 events | violation: a report never returns | - |
| `imhex` | 2 files of 5 and 2 bytes, one connection that asks every endpoint with ranges inside, across and behind the end, sums that wrap and numbers that an `int` does not hold, one that opens, closes, switches and writes; `batch/diff` over lists of up to 3 targets; the batcher: 3 requests, 3 ids, every choice of ids, dependencies and mode | answers say what is in the bytes, searches miss nothing, one provider per path for a patient client, differences belong to their file, summaries are right; order of the waves, exactly the unresolvable unresolved, answers in their places and from the right requests, failures isolated, the batch ends | 2.0 M |
| `live` | breaker: 3 callers, thresholds 2 and 2; scheduler: 3 callers that submit once, 2 workers, queue of 1; server: 5 tools, 2 attempts, answers in 2 parts, 2 calls | no overdue transition, legal moves, recovery; everybody is served; every tool call ends, with a text that is true | 58 k |
| `library` | scheduler with 3 requests that come back, 2 workers of 4 identities, queue of 2, 2 starts, 1 cancelled caller, 1 cancelled coroutine; 3 clients of the limiter in 3 ticks; 3 threads on a pool of 2; 2 users of the unlocked breaker and a reset; 2 getters and 2 resets of a lazy cell of each class; 2 askers, 3 requests, 2 entries, memory 3, 1 tick for the caches; 3 requests of any ids on a socket; files of 4 bytes in chunks of 2, overlaps 0 to 2; 4 calls on the tiers; 2 calls of 2 attempts, 1 permit, 1 thread on connections of their own; 2 threads and 2 events on a health monitor | one property for each (two for caches and scheduler), named under `MCLibrary` | 1.2 M |

### Why the bounds are enough for the interesting cases

- pool: two callers use two permits, so that both hold a connection at once and,
  when a cancellation lost a permit, one waits for the other; both may run
  `initialize`, and two health checks and the closing owner overlap with them.
  Three stand-ins leave one for the health check to create. One removal suffices
  for a surplus permit, one cancellation for a lost one. In `pool_live` the only
  permit makes the second caller wait.
- async: two callers on two connections can swap, follow each other on one
  connection, and interleave a write with a read; three calls let a third
  one find what the first two left. The retry loop has two turns.
- breaker: three callers let two failures open the circuit while a third call,
  admitted before, is still out and reports into every later state.
- scheduler: with a queue of two, the third request waits for room; four worker
  identities are two generations of two workers, which is what two starts create.
- batch (in `imhex`): three requests have cycles of one, two and three, chains, joins,
  duplicates of every pattern, and dependencies on a missing id.
- imhex: a word of 32 and files of 5 bytes let a sum wrap back into the file, an `int` word of 16 lets a
  number be cut off to one inside the file or be extended to one behind every file; chunks of 3
  put patterns of 2 and 3 bytes across a boundary; limits of 4 to 10 bytes are
  exceeded by requests, the one of `batch/hash` by a whole file, and never by what the code
  assumes below them. Two ids ever
  opened let a provider be closed and the other one become current under a handler.
- server: two attempts to connect, an answer in two parts, and a second call that
  finds the socket the first one left; an open (path missing, or not there), a write, a search
  the plugin does not understand, a tool whose answer may not be readable, and one that is not known.
  The number of parts an answer comes in (`MaxParts`) is finite for every run and proof: a peer that
  sends bytes without ever ending the line keeps the loop of `send_command` going for ever, as the time limit is
  one of each `recv`. That ImHex ends a line or stops sending is what `CallReturns` rests on.
- caches: two entries and three keys evict; answers of sizes 1 and 2 in a memory of 3
  make a `set` evict none, one or both; two askers let an answer be under way over an
  invalidation; one tick lets an entry expire.
- sockets: three requests leave one behind a shifted answer and one behind that.
- tiers: four calls fill a tier, promote, prefetch, clear, and get again; two entries of weights 1 and 2
  in a tier of 2 bytes and 2 entries let the bytes, or the number, evict.
- direct requests: two calls for one permit and one thread let a cancelled caller's thread run
  while the next caller is let in; two attempts let the first one be executed after it was
  given up.
- health monitor: two threads race for the singleton, for a reset against a check, and one waits
  for the other's report.
- threads: three threads at a limit of two, so that one waits with the lock while another
  counts off; two increments race with a reset.

All counters that are only bounds are named in the constants: `MaxRemoved`,
`MaxCancels`, `MaxRequests`, `MaxStarts`, `MaxRaises`, `MaxIds`, `MaxTasks`, `MaxParts`,
`MaxCalls`, `MaxFailures`, `MaxLoads`, `MaxResets`, `MaxTime`, `MaxChecks`, `MaxAsked`,
`MaxNow`, `MaxRounds`, `MaxEvents`. (`MaxRetries`, `MaxAttempts`, `MaxConcurrent`, `MaxThreads`, `MaxTries`, `MaxPolls` and the sizes are the code's own.)

Deadlock is not checked (`CHECK_DEADLOCK FALSE`) where the system may stop: a
permit lost to a cancelled caller can leave a pool with nothing to do (`pool`),
the bounds on calls end `async`, `async_cancel`,
`async_cached_write`, `imhex`, `live` and `library`, a batch that returned is
over, and threads that wait for a report end `health_report`. `pool_live`, `pool_real_acquire` and `scheduler_starve` check it.

### Fairness

- `asyncio.Lock` and `asyncio.Semaphore` wake waiters in the order they came, so
  a task that finds them free again and again gets them: strong fairness on
  the steps that take the lock or a permit (`EnterLock`, `Release`, `MonScan`,
  `DrainStart`, `TakePermit`), on `Send` (it stands for both) and on `Put`
  (`asyncio.Queue` wakes putters in order too).
- A task that can run is run by the event loop: weak fairness on the other steps
  of callers, workers and health checks.
- What the environment has to do is stated with each specification:
  `EnteredSpec` lets a caller release what it holds (a request is
  answered or fails); `ServedSpec` lets ImHex answer a line or close the
  connection, which the code needs because a pooled read has no timeout;
  `FairCircuitSpec` lets callers keep calling, time pass, and not every
  call be cancelled or fail once the service is up; `FairServeSpec` and
  `RequestBatching!FairBatcherSpec` let coroutines and executor calls end.
- `McpServer` assumes of ImHex only that an answer has finitely many parts: its sockets have a
  timeout, so that weak fairness of the server's own steps (`Server`) is enough.
- `FairHealthSpec` gives the lock to who waits for it in `get_overall_status` if it is free again and
  again; `health_report` shows that a report is not helped by it.
- In `MCLive`, `MCImHexPlugin` and `MCAsyncParts` each part has the fairness of its module, over its own variables and
  under the condition that the behaviour is about it.
- Nobody is obliged to begin a call, to close a pool, to cancel, or to stop.

## Proofs

Everything below is proved for any number of callers, threads, connections, requests,
entries and bytes, and any limits. The only assumptions are the `ASSUME` of each
module: the typing of the constants, limits that are natural numbers, distinguished values
outside the sets (`PoolAssumption`, `ClientAssumption`, `BreakerAssumption`,
`SchedulerAssumption`, `BatchAssumption`, `SocketAssumption`, `StreamAssumption`,
`RequestAssumption`, `CacheLimits`, `TierAssumption`, `GettersAssumption`,
`UsersAssumption`, `ThreadedPoolAssumption`, `DirectAssumption`, `WatchersAssumption`, `McpAssumption`, `PluginAssumption`,
`AskedAssumption`, `ChunkAssumption`, `DiffAssumption`). Some of them say more:

- `RateAssumption`, that a bucket which may be forgotten is full (`MaxAge * Rate >= Burst`; the
  code's default of 300 s, `security.py:243`, against bursts of some tens);
- `WordAssumption` and `PluginAssumption`, that a file and the largest buffer together fit into
  a 64-bit word, so that a range whose end wraps asks for more than can be allocated;
- `ChunkAssumption`, that the byte 0 a buffer is filled with is not printable (the code takes 32 to 126);
- `AskedAssumption`, that numbers in requests are unsigned 64-bit (the lengths of strings an `int`), and that the pattern of
  `batch/search` is shorter than a chunk of 10 MB, without which the step between chunks would
  not be positive;
- `DiffAssumption`, that a diff is asked for at least one region.

TLC evaluates all of them in the runs.

Every proof has the same shape: an inductive invariant made of named parts, a lemma per
action that the action keeps it, a lemma that a step does, and the theorem, where the
temporal step is the only one. The table says what had to be added to the
property to make it inductive, which is where the reason for the property lies.

| Theorem | Statement | Argument |
|---|---|---|
| `PoolTypeCorrect` | `Spec => []TypeOK` | inductive as it stands, one lemma per group of actions |
| `PoolExclusive` | `Spec => []ExclusiveUse` | `release` appends the caller's connection to the idle queue, which is harmless only because `_in_use` and the idle queue are disjoint (`Apart`) and a retired or cancelled holder has let go |
| `PoolPermits` | `Spec => []PermitsBounded` | the number of permit holders changes by one exactly when the semaphore does, except on cancellation and in the health check |
| `PoolGaugesExact` | `Spec => []GaugesExact` | the gauges are written in other steps than the queue. One task is inside the lock and one cleans up (`OneInside`), the owner closes once (`Watched`), and each gauge equals its set up to the tasks that are between the two writes |
| `PoolDrainedStaysEmpty` | `Spec => []DrainedStaysEmpty` | no open socket is without a task that will deal with it (`NoneForgotten`), and when `close()` has returned nobody inside was let in later (`Drained`) |
| `PoolKeepsPromise` | `Spec => KeepsPromise` | every pool step is a step of `PoolPromise` or leaves its variables alone, using exclusive use for `Grant` |
| `ClientOwnAnswer` | `Spec => [](OwnAnswer /\ CacheKeyed)` | while no call was cancelled (`OwnInv`), a granted connection carries nothing, then its reader's line, then the answer to it (`Wire`); what a caller holds in `reply` is for its request; the cache is keyed |
| `ClientWire` | until a call is cancelled the wire is clean | part of the same invariant |
| `ClientTypeCorrect`, `ClientHolds` | `Spec => []TypeOK`, and a connection is in one call's hands, whatever is cancelled | attempts are bounded by what the loop has left (`Tries`), `acked` by what the answers under way have seen (`Seen`); who holds a connection is a matter of `pc` (`Holds`), and what is about to be cached is an answer (`Answered`) |
| `ClientStraysFromCancels` | `Spec => []StraysFromCancels` | on that invariant: a connection outside `open` carries nothing (`Closed`), and the set `StrayAnswers`, one element for each unclaimed answer, is finite and shrinks in every step but the cancellation of a reader, which adds one element |
| `ClientSeesCompletedWrites` | without the cache and until a call is cancelled: `SeesCompletedWrites` (which `async` checks as `UncachedSeesWrites`) | what a caller knew when it began is at most what has been acknowledged, and that at most what was executed (`Clock`); an answer under way (`OnTheWay`) or received (`Returned`) is at least as recent as its reader's beginning. `UseCache = FALSE` is needed: with the cache the run `async_cached_write` refutes it |
| `BreakerNothingOverdue`, `BreakerLegalMoves` | `CircuitSpec => []NothingOverdue`, `CircuitSpec => LegalMoves` | every path through `Check` settles counters that moved by at most one since it ran last |
| `SchedulerActiveExact` | `Spec => []ActiveExact` | while `put` waits for room its request is neither queued nor run (`PutsFresh`), and a worker has a request exactly while it is in `run` (`RunTypes`) |
| `SchedulerServiceKept` | `Spec => []ServiceKept`, which is `WorkersKept /\ NothingLost` | before the first start nobody works (`Unstarted`); while undisturbed the workers are those of the last start (`Steady`); whoever waits has its request queued, run or settled (`Awaited`) |
| `BatchOrderKept` | `BatcherSpec => []OrderKept` | the ids called completed are exactly those of requests that ended in earlier waves (`Behind`), requests are sorted into pending, wave and done (`Sorted`), and an id has one kept request (`KeptUnique`) |
| `BatchUnresolvedExactly` | `BatcherSpec => []UnresolvedExactly` | what starts is in the least closed set of ids; when nothing is ready the completed ids are closed, so that what is left is not (`Known`). The last place of an id and the first pending place exist because the places before one are well-founded |
| `BatchAnswersInPlace` | `BatcherSpec => []AnswersInPlace` | the responses repeat the ids in order and carry the outcome of the kept request of their id (`Source`); in the batches of the helpers ids are distinct, so that this is the request itself (`OwnAnswersFollow`), and a `raised` batch has a cancelled request |
| `BatchRepliesPaired` | `BatchSpec => []RepliesPaired` | the pieces on the socket are numbered without a gap (`Numbered`), so a response that parses is the next whole answer, and it is that of its request exactly while no piece was used up for a failed one (`Paired`) |
| `StreamsExact` | `StreamSpec => []StreamExact` | what has been yielded is the file up to the offset (`ReadSound`, `HashSound`); every occurrence before the offset was reported by the chunk that holds all of it (`SearchSound`), as the overlap keeps all but one byte of a pattern; requests are counted against the bytes still to come |
| `CachesExact` | `CacheSpec => []CacheExact` | by lemmas on each cache operation: `Get`, `Evict`, the three `Set`s, `Invalidate`, cleanup keep a list without two entries of a key whose weights sum to the account (`Sound`, `Fits`) |
| `CacheHitsFresh` | `CacheSpec => []HitsFresh` | an entry older than what is known to have changed lies behind an invalidation that is still to run or was stored by an answer that was under way (`After`); who is between serving and returning has cleared what it has passed (`Cleared`) in the order of the table (`InOrder`) |
| `TiersKeptExact` | `TierSpec => []TiersExact` | each tier is keyed and its account is its weight less what was taken off twice (`AllGood`); a load that began before the last `clear` is one whose place in the table was taken (`JobsRight`) |
| `LazyLoadsOnce` | `LazySpec => []LazyRight` | the lock is held exactly in the locked part (`Lock`), loads begin in order and one that gave a value since the last reset is still in the cell (`Order`), the cell holds a load of the current period (`Cell`), and who has passed the unlocked test finds the cell full unless a reset came or the factory gave `None` (`Passed`) |
| `BreakerCanRecover` | `BreakerSpec => []OpenCanRecover` | the count never exceeds the failures reported less those not yet counted, nor does what a thread has read and is about to write back (`Counts`); without an overlap of a reset with the report of a failure there is a time whenever the circuit is open or about to be opened, also after a reset (`Timed`) |
| `PoolCountsSockets` | `PoolSpec => []PoolCounted` | the counter is the queue and the sockets owned by threads (`Counted`), who creates has counted before (`Held`), and a socket is in one place (`Placed`) |
| `RateLimitsExact` | `RateSpec => []RateExact` | the level of a bucket is the greatest of a set of terms, one for each check of the log and one for the time since (`Level`); the log is ordered, and a forgotten bucket would be full (`Kept`) |
| `McpTypeCorrect` | `McpSpec => []McpTypeOK` | with the invariant of `McpTextTrue`, from which a sending or reading call has the socket of its own command |
| `McpTextTrue` | `McpSpec => []TextTrue` | a handler has run exactly if there is a result on its connection (`RanOnce`), a call that read a whole answer has one (`CurrentCall`), and the text says what the connection shows (`Says`); an unexpected error of a command comes from an answer that went well and could not be read |
| `McpSuccessUnderstood` | a call that succeeded had a known endpoint and all it needs | the result of a connection was decided when its handler ran, for the tool and the arguments that are still the current ones (`Served`); `TextTrue`'s invariant gives that a success was read off it |
| `DirectRepeatsExplained` | `DirectSpec => []RepeatsExplained` | per call (`CallOK`): where the sender is says in which state its last connection may be, and a command was executed on exactly the attempts whose connection got past `asked`; the tasks in the semaphore and the running threads are counted (`Bounds`) |
| `HealthMonitorStands` | `HealthSpec => []HealthStands` | totals and times move together (`Balanced`); the checks somebody holds were made of counters that have only grown since, unless a reset overtook them (`MadeOf`) |
| `PluginOneProvider` | `Patient => (Spec => []OneProviderPerPath)` | a path is asked for, about to be opened, or open, once, and who has found that it is not open still finds it so (`Alone`). `Patient` is needed: without it the plugin does open a path twice |
| `DiffsReportedOwn` | `DiffSpec => []DiffsOwn` | until an analysis is given up the only one that runs is that of the target the handler waits for, and a result in the slot is that target's (`OnlyTarget`) |
| `PluginSearchesComplete` | `Spec => []SearchesComplete` | about the operators: a scan is complete if every place at which the pattern can begin lies in a chunk (`Covered`), which the overlap gives for `search/find` (`SearchFindCovers`) and `batch/search` (`BatchSearchCovers`). About the states: an answer is what the code computes from the bytes its handler held (`AnswerRight`, `OutRight`), and a provider holds as many bytes as its file (`Contents`) |
| `PluginAnswersExact` | `Spec => []AnswersExact` | by the same invariant `ByteInv`: a length cut to the file is the part of the range inside it, or more than a buffer (`ClampedIs`), whence `DataReadExact`, `HashExact` and `BatchHashExact`; `ChunkExact` by the sums modulo `Word` that a range inside the file leaves alone; `DataStringsExact` since the strings are the maximal printable runs (`RunsAll`) |
| `DiffSummaryRight` | `DiffSpec => []SummaryRight` | the similarities of the summary by a scan of the results kept so far; and a similarity of 100 means equal files (`SimilarityExact`): the regions of the diff are the maximal runs of one kind, which cover both files, so that the matching ones add up to everything only if there are no others |

### What the proofs changed

- `ClientSeesCompletedWrites` and `CacheHitsFresh` failed at first for good reasons. The first
  needs the cache off; the second showed that the model let a caller know of a change
  made by a request that had not returned: `known[e]` is now raised to what the request itself
  made (`made`), not to what somebody else has changed since.
- `StraysFromCancels` summed over the open connections with a fold. It counts a set of pairs
  now, `StrayAnswers`, for which the facts about finite sets suffice.
- The operators of `PluginBytes` filtered and sorted, of which the provers know nothing. They are
  concatenations of pieces now, for which one fact serves all: whatever every piece has, the whole
  has, and each piece in its place (`JoinedAll`, `JoinedChosen`). The runs of a sequence are given
  by where they begin, not by a fold over it.
- `SearchesComplete` said at first that a search of an empty file finds the empty pattern, which no
  loop looks for, and `AnswersExact` that `batch/hash` agrees with `hash/calculate` on more than
  100 MB, which it refuses (`MaxScan`): the proof attempts showed both, the run had been too small for them.
  Its limit is smaller now, and both are stated. A diff that keeps no region finds any
  two files alike: hence the condition on `MaxRegions`.
- Sums and deletions in lists were folds; they are recursive functions now (`KeyedLists`), and the
  facts about them are by least counterexample over a set: the natural numbers, or the sequences,
  for which a fact holds contain the first and with each its successors
  (`NatSteps`, `SeqSteps` in `ListProofs`). This replaces induction theorems that
  take an operator.

### What is only model-checked

- Everything under fairness (`WaiterServed`, `ClosedPoolDrains`, `RequestEnds`, `Recovers`,
  `AllServed`, `BatchEnds`, `CallReturns`): `ENABLED` and leads-to under fairness are beyond the
  provers.

Every invariant and every action property that a passing run checks is a theorem (`UncachedSeesWrites`
as `ClientSeesCompletedWrites`). The runs that must fail have none.

## Disagreements between the code and its words

Six are runs that must fail (`findings` in `PROJECT.json`):

- `pool_real_acquire`: "Returns: A healthy connection ready to use"
  (`lib/connection_pool.py:202`); with real connections `acquire` raises.
- `async_cancel`: "Returns: Response dictionary" (`lib/async_client.py:126-135`);
  a cancelled call's connection is released as healthy with its answer to come.
- `async_cached_write`: "Send async request to ImHex MCP." (`:126`), "Open
  file." (`:567`); successful answers of every endpoint are cached.
- `scheduler_starve`: "preventing low-priority tasks from starving"
  (`lib/advanced_features.py:72-73`); ageing acts when it no longer matters.
- `pool_reuse`: "Connection is still good, return to pool" (`lib/error_handling.py:511`) and
  "Second connection should reuse the first" (`lib/test_error_handling.py:560`, with a mock whose
  `recv` returns `b""`); a live connection with nothing to read makes the peek raise and is closed, and
  the one that returns `b""`, which ImHex has closed, is pooled.
- `health_report`: "Get complete health report." (`lib/health_monitor.py:328`) and "Print metrics
  summary." (`:421`); both ask for the status inside the lock that it takes (`:330`, `:479`, `:255`), so that no
  report returns and every other thread waits for the lock from then on.

Others were seen in the models and are part of them, without a run of their own:

- The permit of a caller cancelled between `connection_pool.py:214` and the end of
  `release` is lost (the lower bound of `PermitsBounded`).
- The health check gives back a permit nobody took (`:368`), so the pool may
  grow past `max_size` (its upper bound).
- A caller let in before `close()` may open a connection after it; it is closed
  when it is released (`ClosedPoolDrains`), not by `close()` (`:396`).
- The retry loop of the client never retries, as errors reach it wrapped in
  `ImHexMCPError` (`async_client.py:178` against `:259`).
- A pooled read has no time limit (`async_client.py:240`).
- `stop()` leaves the futures of queued requests pending
  (`advanced_features.py:195-209`), a coroutine that raises `CancelledError` ends
  its worker (`:226`), and a `start()` during `stop()` loses its workers
  (`:209`): hence the condition `Undisturbed` of `ServiceKept`.
- Calls admitted before an outage count in the half-open circuit, so that it can close
  without a probe (`:380`).
- `cache_clear` of `memoize` does not wait for a load under way, which stores its
  result after it (`LazyRight` excepts `memoize`); the other classes
  hold, but a `get` that a `reset` overtakes finds `None` and fails its assertion
  (`lazy.py:107`). So does every `get` after the first of a `LazyValue` or `DeferredOperation` whose factory
  returned `None` (`:107`, `:112`, `:441`), and a `LazyProvider` or `lazy_import` with a `None` loads again each
  time: the condition `Nulled` and the word "value" in `LazyRight`.
- `close_all` sets the count to zero with sockets in use, which are then counted off below
  zero (`:535`): hence `~drained` in `PoolCounted`. A `reset()` that clears the
  time between the two assignments of a failure leaves the circuit open without one, and every call is
  rejected until the next reset (`:363-377`): hence `raced` in `OpenCanRecover`, which a reset alone does not raise.
- `invalidate(endpoint)` removes the answer to the request without parameters and no
  other (`cache.py:244-291`); an answer under way is stored after the invalidation
  (`cached_client.py:178`): both conditions of `HitsFresh`. The dictionary of
  `AsyncEnhancedImHexClient` has no time to live, and `clear_cache` clears another
  cache (`async_client.py:847`).
- `AsyncResponseCache.set` never returns for an answer larger than its memory
  (`cache.py:665`; `Endless`), and evicts also for a key it is about to replace.
- A tier takes the size of an entry off twice when it evicts the entry it replaces
  (`advanced_cache.py:165`), and outgrows its limit; a prefetch whose place in the
  table was taken by another survives `clear()` (`:541`).
- A pipelined batch takes whatever `recv` returns for one response: two lines in one
  chunk fail it, and every later response is that of another request
  (`batching.py:273`); a sequential one is shifted the same way by a timeout.
- `stream_search` never ends when the overlap is not smaller than the chunk
  (`streaming.py:229`), `stream_read` when ImHex answers with no bytes; a failed chunk
  ends or is passed over without a sign (`:145`, `:208`).
- A request refused for its client has used a token of everybody (`security.py:226`).
- The plugin's guard against opening a file twice (`plugin_mcp.cpp:187`) looks now and opens
  later: it holds for a client that waits for its request to be carried out
  (`Patient`). A handler may use a provider that was closed since it looked (`Undefined`).
- `search/find` may report an occurrence at the beginning of a chunk twice
  (`SearchesComplete` allows it there only). `batch/hash` and the entropy and statistics
  endpoints do not cut a range to the file and count the zeros behind its end.
- Most endpoints read offsets and sizes with `data.value("offset", 0)`, which is an `int`
  (`plugin_mcp.cpp:508`, `:1246`, `:1769`, `:1848`, `:1950`, `:2101`, `:2218`): from 2 GB on another part of the file is read, or
  none, so that a hash, an entropy or a chunk is answered for bytes nobody asked for. `AnswersExact` is
  restricted to numbers an `int` holds there (`FitsInt`). `hash/calculate` takes the name of an
  algorithm in any case, `batch/hash` only in lower case.
- A comparison of `batch/diff` that was given up writes its result into the
  next file's (`plugin_mcp.cpp:1417`): hence `~late` in `DiffsOwn` and `SummaryRight`.
- Tools and library methods that the plugin cannot understand: `imhex_batch_open_directory`
  (no such endpoint), `imhex_batch_search` ("patterns" for "pattern"), and in the
  library `file/info`, `data/search`, `data/hash`, "size" for "length". The branches of
  `call_tool` for `imhex_batch_hash` and `imhex_batch_search` at `server.py:1925-2028` are
  never reached, as the same names are handled before; the plugin heeds neither the algorithms
  of `imhex_batch_hash` nor the page of a search (`server.py:725-735`).
- Values that are announced and not served: `imhex_search` offers the type "regex" (`server.py:712`, `:722`), which
  `search/find` refuses (`plugin_mcp.cpp:590`); the batch tools say that no `provider_ids` means all open
  files (`server.py:1003`, `:1035`), for which the plugin processes none.
- `imhex_data_statistics` with `include_distribution` gets a list (`plugin_mcp.cpp:1924-1934`) of which it asks the
  items of a dictionary (`server.py:2140`), and percentages of no bytes, which are null, are formatted as
  numbers: the command ran and the text says "Unexpected error" (`TextTrue`).
- `list_tools` raises `NameError`, because of a `false` at `server.py:1216`: no client is told a schema.
- The clients under `retry_with_backoff` may execute a command once for each attempt
  (`error_handling.py:239`), as a timeout is a socket error; and they, like the enhanced client, read on for ever when
  ImHex closes the connection before the end of the line (`cached_client.py:132`). The enhanced
  client wraps its errors, so that its decorator never retries. A thread of the executor transport goes on
  after its task was cancelled. All of this is in `RepeatsExplained`.
- A pipeline of `create_analysis_pipeline` is sequential, a mode which ignores `depends_on`: its steps
  run on after one has failed. `batch_multi_read` answers a chunk that failed with no bytes.
- A cancelled executor call makes a parallel or adaptive batch raise
  `AttributeError` and lose the other responses (`request_batching.py:230`,
  `:335`): the condition of `AnswersInPlace`.

## Limits

- Data is abstract: requests are model values, an answer is the request it answers
  and the version of ImHex it saw; JSON, base64 and compression are left out.
  `PluginBytes` alone computes on bytes, as that is what its endpoints do.
- Time is a choice: ages, timeouts and expiry happen or do not (`RateLimiter` and
  `CachedClient` count ticks).
- `AsyncClient` assumes a pool that keeps `PoolPromise`. With the pool's real
  connections no call would succeed at all (`pool_real_acquire`).
- To the library ImHex is one line, one answer, in order, and a connection that may
  close at any moment; `ImHexPlugin` models the other side, and nothing
  composes the two, as they share only that line.
- What the handlers call of ImHex itself (providers, task manager, disassembler, magic
  database, network interface) is modelled from how the plugin uses it.
- Statistics for reporting (`total_*`, `reuse_rate`, timings) are left out, the
  gauges of the pool are in.
- A gather that is cancelled is modelled as cancelling all its running calls at
  once; a call that swallows the cancellation is left out.

### Not modelled

Components with status `not_modelled` in `PROJECT.json`, each with its reason there:

- the endpoint wrappers of the asynchronous client: no state beyond what is modelled;
- ImHex patches (diffs against sources that are not here),
  compression, metrics, configuration, logging, profiling, examples: pure I/O,
  conversions, settings and reports.

Of the components that are modelled in part: `memoize_with_ttl` and `LazyClient` (cells
like the others and a time), `wait_for_tokens` (`acquire` in a loop), the delays of the
retry decorator and `HealthCheck`, `StreamProcessor` (a fold), path and payload validation
(predicates on strings), `send_batch` (a gather of calls), the cache of the enhanced client
(that of `cached_client.py`), the commands of the command line.
Two defects that one call shows are not in the models either:
`MultiTierCache.put` leaves an older value in the other tier (`advanced_cache.py:457`;
the tiers here hold keys and sizes, not values), and `clear_cache` above.

## Plan

Done, in the order of importance: the connection shared by concurrent calls (pool,
promise, client), breaker, scheduler and batcher; then the plugin, the MCP server, the
caches and their clients, batches and streams on sockets, the threaded classes, the
limiter and the lazy cells; then the proofs, one component after the other, so that
every safety property of the library is a theorem; then the clients with a connection per
request and the health monitor, with their theorems.

What would add most next:

1. Values in `TieredCache`, with the freshness of a get after a put.
2. `AdvancedRequestManager`: scheduler and breaker in one behaviour.
3. An abstract cache, a map with expiry, that `ResponseCache` implements.
4. A diffing algorithm that does not compare position by position, and what `SummaryRight`
   becomes with it.

The number of runs is kept small on purpose: each question a run asks should be a
different one, and parts that share nothing share a run.
