# Verification of osrm-backend with live traffic

TLA+ models of this repository's fork of osrm-backend, model-checked with TLC on
small instances and, where said so, proved with TLAPS for every value of the
constants. Paths are relative to the repository root. `PROJECT.json` maps
definitions to the lines they model; a small helper inside the lines of a mapped
definition has no entry of its own.

## 1. The system

OSRM prepares a road graph offline (extract, then contract, or partition and
customize), loads it into shared memory (`osrm-datastore`) or into the server
process, and answers HTTP requests from it (`osrm-routed`). This fork adds live
traffic: clients send GPS samples over UDP, the server averages them per road,
and the averages scale the weights of road segments.

| Part | Code | Modules |
|---|---|---|
| Live data store, UDP receiver | `live_data_store.hpp`, `traffic_updater.hpp`, `traffic_protobuf.hpp` | `TrafficReceiver`, `TrafficUpdater` |
| Aggregation, `/traffic` and route requests | `traffic_aggregator.hpp`, `geospatial_query.hpp` | `TrafficWeights`, `LiveTraffic` |
| Weights of a route under live traffic | `routing_base.hpp`, `assemble_leg.hpp` | `RouteWeights` |
| Shared memory, `osrm-datastore`, data watchdog | `src/storage`, `data_watchdog.hpp` | `Storage`, `DataWatchdog`, `HotSwap` |
| HTTP server | `src/server` | `HttpConnection`, `HttpExchange` |
| Contractor, CH search, heap | `src/contractor`, `routing_base_ch.hpp`, `query_heap.hpp` | `QueryHeap`, `ContractionHierarchy` |
| Partitioner, customizer, MLD search | `src/partitioner`, `include/customizer`, `routing_base_mld.hpp` | `CellMetric`, `MultiLevelDijkstra` |
| Extractor | `src/extractor` | `OsmImport`, `EdgeExpansion`, `Extraction` |
| Updater | `src/updater`, `opening_hours.cpp`, `packed_vector.hpp` | `Updater` (run inside `Extraction`) |
| Engine services | `static_rtree.hpp`, `src/engine/routing_algorithms`, `src/engine/plugins` | `Snapping`, `ViaRoute`, `AlternativesCH`, `AlternativesMLD`, `MapMatching`, `Trip` |
| Guidance | `src/guidance`, `src/engine/guidance` | `TurnInstruction`, `IntersectionAnalysis`, `TurnAnalysis`, `StepPostProcessing` |

`Algorithms` holds sorting and loops that several modules share. `MC*` modules
hold the values of the constants; modules with theorems are listed in section 5.

What is hard here: aggregation runs in every request thread and re-enters itself
through snapping; a request reads the store several times while others publish;
`stop()` closes a descriptor a thread is about to use; datasets are replaced
under running servers by processes that may be killed; a connection reads, writes
and waits for a timer at once; the offline tools fill shared arrays from many
threads. `PROJECT.json` lists these hazards line by line.

## 2. How the models correspond to the code

**Concurrent parts** have one action per step between two accesses of shared
state. A member function of the store holds its mutex throughout and is one step.
In `TrafficUpdater` owner and receive thread interleave at every access of
`running_` and `sockfd_`; `OtherOpen` is another thread that is given a
descriptor. In `LiveTraffic` a thread has a stack of frames, because grouping a
sample snaps it and snapping aggregates again. `accepted`, `averaged` and a
sample's `id` are history. `RouteWeights` makes every read of a live record a
step, rounds as the code does (`std::round`, truncation at the split point) and
keeps doubles as exact fractions. `Storage` and `DataWatchdog` keep the register,
the keys, the names the kernel knows, the mutex with its waiting clients, and one
step per system call or lock scope; a kill may come between any two.
`HttpConnection` has the handlers asio calls, the operations that are outstanding,
and a client that cuts the text of its requests into pieces; the parser is the
code's state machine over classes of characters.

**Offline tools.** `ContractionHierarchy` contracts with two threads whose steps
interleave inside a round, then answers routes and a table by the search. The
other tools go through their stages; where the code runs a stage in parallel
(parsing of buffers, turn generation, cells of a level, segment updates on packed
words), workers interleave.

**Sequential algorithms** (engine services, guidance) are operators from an input
to an answer. Their runs take one job of one service after another from a fixed
list and check the answer against a reference definition.

## 3. Runs

All runs pass. States are distinct states.

| Run | States | Instance | Shows |
|---|---|---|---|
| `traffic_concurrent` | 1,085,583 | 2 threads, 2 roads, 2 users, 2 datagrams, `/traffic` | a sample has one owner; records are means of accepted samples on their road, one per user; only stale records are removed; nothing stale by the aggregation's clock is published |
| `traffic_one_worker` | 372,854 | 1 thread, both services, every way a packet is rejected | an answer reflects all samples accepted before the request; aggregations nest at most one deeper than the samples accepted since it began |
| `updater_lifecycle` | 11,436 | 2 descriptors, 2 starts, 1 foreign open, 2 datagrams | `stop()` closes only its own socket and returns; foreign reads happen only inside it; every datagram is counted |
| `route_weights` | 290,833 | roads of 2 and 1 segments, 5 speeds, 1 publication | while no record changes, order is kept, the parts of a split road make up the road, and the weight a leg reports is the live weight of what is driven; what the search compares is another one (section 4) |
| `hot_swap_kills` | 666,701 | 2 datastores, 2 servers, 3 runs that may fail or abort, 4 keys, 1 kill, time-outs | registered blocks exist, a facade never mixes datasets, free keys are unused, and between runs the reserved keys are the registered ones and those of runs that were cut short |
| `hot_swap` | 90,897 | 1 datastore, 2 servers, 3 runs that may fail or abort, fair | runs end, servers follow, destructors return |
| `http` | 57,248 | 8 requests, pieces of 4 symbols, buffer of 9, 1 further request per connection | one operation at a time, the announced limit kept, the connection is released, and it implements `HttpExchange`: replies in order, each the one its request calls for |
| `hierarchy` | 37,511 | 6 graphs, 2 threads; direct requests, later legs that force loops, upper bounds | every round keeps all distances and makes progress; routes and tables unpack to paths and are shortest if below the bound, unless classes are excluded or a loop is needed because the target lies before the source on one segment (then never shorter than the shortest) |
| `mld` | 24,190 | 3 networks, 3 levels, 2 workers, filters; requests as in `hierarchy` | cuts are minimal, cells nest, cell metrics are exact, routes and tables are shortest, with and without excluded nodes and forced loops |
| `extraction` | 22,579 | small OSM files, 2 tokens in the pipeline, updates | import in file order; restrictions, conditions and overrides hold exactly where the file says; compression loses nothing; an update does what its files and the time say, also after a failed attempt |
| `engine` | 246,389 | jobs of six services, 1 publication between two snaps | nearest segments of one component with the live weights of their moment, connected routes through waypoints that are least for the loops the search finds, whole and different alternatives, likeliest matches, trips that keep their ends |
| `guidance` | 208,057 | intersections and legs | every road gets one fitting instruction; steps are joined and trimmed without losing a location, a second or a maneuver, nor more than a metre at either end |

Where a property of a run is a conjunction (`ContractionSound`, `SnappingExact`
and so on), its conjuncts have names and comments of their own in the modules.

**Bounds.** Two threads and two datagrams let an older batch be overtaken by a
newer one; a second road makes one activation publish in two steps. A tick of
600 ms against a limit of 1000 ms lets samples of age 500 ms become stale between
two clock reads. Two descriptors let the number of the closed socket be given away
while the other is in use. Three runs of the datastore replace both regions twice,
once with keys that were released before; four keys are just enough for one run
next to the current data, so the next run feels a single leak. One publication
per route request reaches each gap between two reads, and one between two snaps
lets two phantom nodes of one road differ. The longest request does
not fit the buffer of 9, so it takes several reads, cut by the client and by the
buffer. The graphs have one-way streets, loops, parallel edges and components
that do not reach each other; words of 8 bits with values of 5 bits make packed
values cross words. `WORD_BITS`, `MaxClassIndex`, `Grain`, `INVALID_EDGE_WEIGHT`
and the like stand for the code's larger constants.

**Deadlock** is not checked where the bounds end the behaviour (offline runs,
http) and in the hot swap runs, where besides a process killed with the monitor's
mutex stops everybody: the code has no recovery but `--remove-locks`.

**Fairness.** `LiveTraffic` has none and claims no progress: two datagrams end the
stream of samples in the model, the code's does not end. `TrafficUpdater`: weak fairness
of the receive thread and of `stop()`, which rests on the one-second
`SO_RCVTIMEO` of the blocking receive; none for datagrams. `HotSwap`: weak
fairness of every process step and of the end of a request; none for starting
runs, servers, requests or destructors. `HttpConnection`: weak fairness of
completions, handlers and the timer, which the io_context runs; none for what the
client sends. That a write completes assumes a client that reads, or whose
connection breaks: the code has no time-out for writes, and a client that stays
and does not read keeps its connection. Nothing needs strong fairness: a watcher takes the mutex a bounded number
of times per notification.

## 4. Where the code differs from what is written about it

Each is what the model does, so the properties are stated around it.

*Live traffic.* The guide says that routing uses live weights
(`LIVE_DATA_GUIDE.md:11` "Routes avoid congested segments", `:28`, `:268` "Query
Routes (uses live weights)"). The search scales only the parts of the roads at
source and target (`geospatial_query.hpp:318-324`); for every road between it
compares the static weights of the graph, and only the annotation of the path it
has chosen is live (`routing_base.hpp:188`). So a congested road in the middle of
a route is reported slower and not avoided, and the compared and the reported
weight differ: `Search` and `AnnotateSource` in `RouteWeights`.
Snapping a sample aggregates again when others have arrived meanwhile
(`geospatial_query.hpp:313`), one level deeper each time, so under a steady stream
nothing ends a request or bounds its stack; `NestingBounded` says how deep it gets
for the samples that came. Stale records are swept only when samples are pending
(`traffic_aggregator.hpp:69`), so a quiet network keeps answering them, against
`LIVE_DATA_GUIDE.md:285`. A batch replaces the mean of the batch before
(`:134`, guide `:37`), and of two aggregations the one with the older samples may
publish last. With two request threads an answer may miss samples another thread
is grouping (guide `:300`); `Threads = {t1, t2}` in `OneWorker.cfg` shows it.
Time stamps in the future and a speed that is not a number are accepted.
Records that change during a route request may give a leg a negative weight,
against the assertion in `assemble_steps.hpp:274` and the comment in
`routing_base_ch.hpp:128`.

*Hot swap.* `--max-wait` gives up, keeps its keys reserved and reports success
(`storage.cpp:100`; help text `store.cpp:125`). A run that fails on a file or for
want of memory is caught by `main` (`store.cpp:284-296`) and leaves its blocks and
keys behind. A `util::exception` (no free key, no dataset to update, a missing
file, a wrong checksum: `shared_datatype.hpp:278`, `storage.cpp:240`, `:341`,
`:562`, `:593`) is not caught; the handler of SIGABRT then removes the monitor
(`store.cpp:227`), so servers that run keep their data and hear of no later run.

*HTTP.* A second request in the same read is discarded, and the rest of a
malformed one is parsed as a new request. `Connection: close` on a kept connection
does not close it, the timer does. Part of a further request cancels the timer.
An accept error ends accepting. `HttpExchange` is stated for clients that send a
request after the reply to the one before.

*Search.* On a contraction hierarchy a route that excludes classes
(`docs/http.md:39`) may be longer than the shortest one without them, and loops
at a node, forced ones included, are found only where the contractor adds them
(`routing_base_ch.hpp:126-150`). The T-test of
`alternative_path_ch.cpp:549` is always true; `alternative_path_mld.cpp:949`
compares seconds with deciseconds.

*Matching, trips.* Tidied and collapsed points count differently in the answer
from `docs/http.md:459-460` (`match_api.hpp:209`, `map_matching.cpp:386`). An
empty table gives an error without a code.

*Guidance.* `IsLinkRoad` (`mergable_road_detector.cpp:588`) and the test at
`sliproad_handler.cpp:343` practically never hold; `turn_handler.cpp:818` compares
an enumeration with 180 degrees; `name_announcements.hpp:26` does not clear its
table; `route_step.hpp:169` swaps the parts of a merge; `post_processing.cpp:295`
drops the weight and length of a trimmed segment.

*Updater.* `csv_file_parser.hpp` speaks of a stable sort and uses an unstable one:
which of two equal keys inside one file wins is open. `packed_vector.hpp` forbids
reading while others write, and `updater.cpp` does it (own bits only, hence
harmless). A malformed turn file fails after the segments are rewritten; repeating
the run with the same speeds repairs it, with others it does not. A time span over
the turn of a year, and the first and last day of an inverse date range, are
answered differently from the tag (`opening_hours.hpp:174`).

## 5. Proofs

Eight modules hold theorems; constants are arbitrary up to the named assumptions
of the modules.

**`TrafficUpdaterProofs`**, for all descriptors, datagrams and starts:
`TypeCorrect`, `StopIsClean`, `StopClosesOwnSocket`, `ForeignReadWindow`,
`DatagramAccounting`. The invariant ties the owner's position in `stop()` to the
descriptor table (`OwnerInv`: the only UDP socket is `sockfd`, while running or
about to be closed) and to the receive thread (`ThreadInv`: the descriptor it has
loaded is `sockfd` until that is closed). The properties alone do not say which
descriptor the thread is about to use.

**`LiveTrafficProofs`**, for all threads, roads, users, packets and any depth of
nesting: `TypeCorrect`, `SampleOwnership`, `OneWorkerReflectsSamples` (for one
thread; false for two), `SweepsRemoveOnlyStale`, `PublishesFresh`. The invariant:
every sample pending or in a frame has an id that was accepted, so a newly
accepted sample is in no frame; a frame's clock value is not ahead of the clock,
and what it has grouped passed the age test against that value; once a request
has taken the pending samples, those that wait were accepted after it began.

**`LiveTrafficEvidence`** adds `RecordsTakenFromSamples`: every published record
averages accepted samples on its road, at most one per user, counts them and
carries their newest time stamp. `EvidenceInv` says that pending samples and
frames hold accepted samples only, and that a frame files each under its user and
its road. This is `PublishedFromEvidence` up to the sum of the speeds. It also has
`NestingIsBounded`. `NestingInv` strengthens the bound on the depth: the frames
above the first and the samples that wait are together no more than the samples
accepted since the request began, as every frame above the first took at least one
of these.

**`HotSwapInvariant`, `HotSwapRuns`, `HotSwapProofs`**, for any number of
processes, keys, runs, starts and kills: `TypesKept`, `RegisteredExist`,
`FacadesMatch`, `RunsExclude`, `FreeKeysSafe`, `NothingLeaks`. The invariant
`IInv`: who holds the file lock and the mutex by the progress of each process
(`LockInv`); a key names only a block created under it (`NameInv`); what is
registered exists (`RegionInv`); outside the scope of a run with the mutex the two
registered blocks belong together (`PairInv`); what a run has created and has
still to remove, and what a client has mapped, by their progress (`StoreInv`,
`ClientInv`). Its core is `Current(b)`: the key of a block in use is reserved and
no later block was created under it. The first module proves the steps that leave
blocks and register alone, of clients and of runs, the second the steps of a run
that create, register and remove, the third the theorems. `NothingLeaks` needs
besides that every reserved key is registered, owed by the run in progress, or one
that a run owed when it was cut short (`Accounted`); kills, failures, aborts and
time-outs are all allowed.

**`HttpProofs`**, for every limit, buffer size, set of requests and way to cut
them: `NeverReadAndWrite`, `MaxKept`, `Patience`, from an invariant over the
outstanding operations (`ChainInv`), the replies the client may still expect
(`BudgetInv`) and the timer, which is armed only after a reply (`PatienceInv`).
They hold whatever the parser makes of the bytes. The second half is about the
parser: its results form a run over the symbols, which exists and is unique, so
parsing can be taken up where an earlier read left it (`ReachesConcat`), and the
text of a request is understood at its last symbol and never earlier.

**`HttpRefinement`**: `RepliesInOrder`, the safety part of `ImplementsExchange`:
every step of the connection is a step of `HttpExchange` or a stutter. `TextInv`
says that what is buffered, on the wire and not sent yet is together the rest of
the text of the one request in progress, and that the parser's state is the one
its beginning leads to.

**Model-checked only.** Liveness (`StopReturns`, `RunsEnd`,
`ServersFollow`, `DestructorReturns`, `ConnectionEnds`, and the fairness that
`HttpExchange` asks for): the prover has no rules for fairness. The sum in
`PublishedFromEvidence`, and what recursive definitions compute in the offline
tools, the engine services and guidance: induction over data is out of its reach.
`RouteWeights` rests on rounding of products of variables, non-linear arithmetic
the solvers do not decide.

## 6. Not modelled

Protobuf bytes, JSON, flatbuffers, tiles, file formats and the Lua profiles, whose
results are inputs; the URL grammars; turn lanes' matching; the bounding box and
colours of `/traffic`; half-closed connections and the pool of worker threads; the
ring limit of the semaphore queue, `--remove-locks`, `--spring-clean`; signed
overflow of time stamps. `LiveWeightedDataFacade` is never created. Coordinates
are small integers or model values; angles whole degrees; speeds of the updater
whole km/h. The contractor's float priorities, which it compares up to an epsilon,
are exact fractions. Turn penalties are assumed to fit the short they are stored
in. Steps keep the bearings they had before the ends of a leg are trimmed. After an
abort of `osrm-datastore` the model ends with the monitor that was removed; runs on
a new one are not followed. File writes are atomic. The services of the engine take
the result of a search between two different nodes as a least path, which
`hierarchy` and `mld` check; a loop from a node to itself is an input of
`ViaRoute`: the least one, a longer one or none, as the search may find.
