------------------------------ MODULE Extraction ------------------------------
(* osrm-extract (src/extractor/extractor.cpp): the import pipeline, the      *)
(* preparation of the containers, the compression of the node-based graph    *)
(* and its expansion to the edge-based graph by a second pipeline; then the  *)
(* updates that osrm-contract or osrm-customize make to what it wrote.       *)
(*                                                                           *)
(* An input is [buffers, profile, listed, excludable, updates]: the buffers  *)
(* of the OSM file, the profile's settings, the class names it lists, the    *)
(* combinations it lets a request exclude and the updates made one by one.   *)
EXTENDS OsmImport, EdgeExpansion, Updater

CONSTANTS Inputs, MaxTokens, Grain, SmallComponent, WalkLength

VARIABLES input, phase, pipe, containers, classes, data, compressed, cursor, expansion, result

extractVars == <<input, phase, pipe, containers, classes, data, compressed, cursor, expansion, result>>
vars == <<extractVars, updateVars>>

\* The profile's penalties fit the sixteen bits they are stored in: the
\* conversion throws for one that does not, which ends the extraction.
ASSUME PenaltiesFit ==
  \A signal, uturn \in BOOLEAN :
     LET penalty == ProcessTurn(signal, uturn) IN InShort(penalty.weight) /\ InShort(penalty.duration)

Nothing == [none |-> TRUE]

\* A pipeline: items are taken and put out in order, and worked on in any
\* order by as many workers as there are tokens.
EmptyPipe == [next |-> 1, worked |-> << >>, out |-> 0]

CanTake(size) == pipe.next <= size /\ pipe.next - 1 - pipe.out < MaxTokens

Worked(k, value) ==
  [pipe EXCEPT !.worked = [i \in DOMAIN @ \cup {k} |-> IF i = k THEN value ELSE @[i]]]

Waiting == {k \in 1..(pipe.next - 1) : k > pipe.out /\ k \notin DOMAIN pipe.worked}

Ready(k) == k = pipe.out + 1 /\ k \in DOMAIN pipe.worked

PutOut(k) ==
  [pipe EXCEPT !.out = @ + 1, !.worked = [i \in (DOMAIN @) \ {k} |-> @[i]]]

Init ==
  /\ input \in Inputs
  /\ phase = "import" /\ pipe = EmptyPipe /\ containers = EmptyContainers
  /\ classes = Nothing /\ data = Nothing /\ compressed = Nothing /\ cursor = 0
  /\ expansion = Nothing /\ result = Nothing
  /\ files = Nothing /\ update = Nothing

-----------------------------------------------------------------------------
(* ParseOSMData.                                                             *)
ReadBuffer ==
  /\ phase = "import" /\ CanTake(Len(input.buffers))
  /\ pipe' = [pipe EXCEPT !.next = @ + 1]
  /\ UNCHANGED <<input, phase, containers, classes, data, compressed, cursor, expansion, result, updateVars>>

TransformBuffer(k) ==
  /\ phase = "import" /\ k \in Waiting
  /\ pipe' = Worked(k, ProcessElements(input.buffers[k], input.profile))
  /\ UNCHANGED <<input, phase, containers, classes, data, compressed, cursor, expansion, result, updateVars>>

Store(k) ==
  /\ phase = "import" /\ Ready(k)
  /\ containers' = StoreBuffer(containers, pipe.worked[k], input.profile)
  /\ pipe' = PutOut(k)
  /\ phase' = IF containers'.error THEN "failed" ELSE phase
  /\ UNCHANGED <<input, classes, data, compressed, cursor, expansion, result, updateVars>>

\* The containers are prepared and the classes named; no edges, or a class
\* too many, ends the extraction.
Prepare ==
  /\ phase = "import" /\ pipe.out = Len(input.buffers)
  /\ LET named == SetClassNames(containers, input.listed)
         excludable == SetExcludableClasses(named, input.excludable)
     IN IF containers.edges = << >> \/ named.error \/ excludable.error
        THEN /\ phase' = "failed"
             /\ UNCHANGED <<classes, data>>
        ELSE /\ phase' = "compress"
             /\ data' = Value(PrepareData(containers))
             /\ classes' = [names |-> named.classes, excludable |-> excludable.excludable]
  /\ pipe' = EmptyPipe
  /\ UNCHANGED <<input, containers, compressed, cursor, expansion, result, updateVars>>

-----------------------------------------------------------------------------
(* NodeBasedGraphFactory.                                                    *)
BuildCompressedOutputGraph ==
  /\ phase = "compress" /\ cursor = 0
  /\ IF data.edges = << >>
     THEN phase' = "failed" /\ UNCHANGED <<compressed, cursor>>
     ELSE /\ compressed' = [graph |-> NodeBasedDynamicGraphFromEdges(Len(data.used), data.edges),
                            geometry |-> << >>, restrictions |-> data.restrictions,
                            maneuvers |-> data.maneuvers]
          /\ cursor' = 1
          /\ UNCHANGED phase
  /\ UNCHANGED <<input, pipe, containers, classes, data, expansion, result, updateVars>>

Compress ==
  /\ phase = "compress" /\ cursor \in 1..Len(data.used)
  /\ compressed' = Value(CompressAt(compressed, data, cursor))
  /\ cursor' = cursor + 1
  /\ UNCHANGED <<input, phase, pipe, containers, classes, data, expansion, result, updateVars>>

\* The rest of the factory, the filters of the turn paths and the nodes of
\* the edge-based graph.
GenerateNodes ==
  /\ phase = "compress" /\ cursor = Len(data.used) + 1
  /\ LET full == Value(AddUncompressedEdges(compressed))
         annotated == Value(CompressAnnotationData(full.graph, data.annotations))
         restrictions == Value(removeInvalidTurnPaths(full.restrictions, full.graph))
         x == [graph |-> annotated.graph, geometry |-> full.geometry, signals |-> data.signals,
               barriers |-> data.barriers, annotations |-> annotated.annotations,
               restrictions |-> restrictions, rg |-> constructRestrictionGraph(restrictions),
               maneuvers |-> removeInvalidTurnPaths(full.maneuvers, full.graph),
               used |-> data.used, lanes |-> containers.lanes]
         labels == Value(LabelEdgeBasedNodes(x.graph))
     IN /\ expansion' = [x |-> x, labels |-> labels,
                         total |-> LabelCount(labels) + NumberOfDuplicatedNodes(x.rg),
                         nodes |-> Value(GenerateEdgeExpandedNodes(x, labels)),
                         lists |-> CompressGeometry(full), buffer |-> NoBuffer]
        /\ compressed' = full
  /\ phase' = "expand"
  /\ UNCHANGED <<input, pipe, containers, classes, data, cursor, result, updateVars>>

-----------------------------------------------------------------------------
(* The pipeline over the intersections, Grain of them at a time.             *)
Ranges == (Len(data.used) + Grain - 1) \div Grain

RangeOf(k) == SelectSeq([i \in 1..Grain |-> (k - 1) * Grain + i], LAMBDA v : v <= Len(data.used))

GenerateRange ==
  /\ phase = "expand" /\ CanTake(Ranges)
  /\ pipe' = [pipe EXCEPT !.next = @ + 1]
  /\ UNCHANGED <<input, phase, containers, classes, data, compressed, cursor, expansion, result, updateVars>>

ProcessRange(k) ==
  /\ phase = "expand" /\ k \in Waiting
  /\ pipe' = Worked(k, InTurn(LAMBDA b, v : MergeBuffers(b,
                         ProcessIntersection(expansion.x, expansion.labels, expansion.total, v)),
                              NoBuffer, RangeOf(k)))
  /\ UNCHANGED <<input, phase, containers, classes, data, compressed, cursor, expansion, result, updateVars>>

OutputRange(k) ==
  /\ phase = "expand" /\ Ready(k)
  /\ expansion' = [expansion EXCEPT !.buffer = MergeBuffers(@, pipe.worked[k])]
  /\ pipe' = PutOut(k)
  /\ UNCHANGED <<input, phase, containers, classes, data, compressed, cursor, result, updateVars>>

\* FindComponents: the strongly connected components once the directions of
\* every road are joined.
FindComponents(total, edges, segments) ==
  LET joined(a) == {e.target : e \in {f \in {edges[i] : i \in DOMAIN edges} : f.source = a}} \cup
                   {s.reverse : s \in {t \in {segments[i] : i \in DOMAIN segments} : t.forward = a}} \cup
                   {s.forward : s \in {t \in {segments[i] : i \in DOMAIN segments} : t.reverse = a}}
      row(a) == Ordered({b - 1 : b \in joined(a) \ {NoNode}}, LAMBDA p, q : p < q)
      found == Value(RunTarjan([a \in 0..(total - 1) |-> row(a + 1)]))
  IN [a \in 1..total |-> [id |-> 1 + found.component[a - 1],
                          tiny |-> found.sizes[found.component[a - 1] + 1] < SmallComponent]]

\* What is written and an update reads.
Written(edges, conditionals) ==
  LET node(a) == expansion.nodes.nodes[a]
      of(a) == expansion.lists.of[node(a).edge]
  IN [ids |-> data.used, segment_data |-> ToSegmentData(expansion.lists.lists),
      geometry |-> [a \in DOMAIN expansion.nodes.nodes |-> [id |-> of(a)[1], forward |-> of(a)[2]]],
      nodes |-> [a \in DOMAIN expansion.nodes.nodes |->
                   [oneway |-> node(a).oneway, weight |-> node(a).weight, duration |-> node(a).duration]],
      edges |-> [k \in DOMAIN edges |->
                   [source |-> edges[k].source, target |-> edges[k].target, weight |-> edges[k].weight,
                    duration |-> edges[k].duration, turn_id |-> edges[k].turn_id]],
      penalties |-> [k \in DOMAIN edges |-> edges[k].penalty],
      turn_index |-> [k \in DOMAIN edges |-> edges[k].index],
      conditionals |-> conditionals, names |-> <<"lua profile">>]

\* The rest of the run: nothing to snap to is an error.
Finish ==
  /\ phase = "expand" /\ pipe.out = Ranges
  /\ LET edges == Value(EdgeBasedEdges(expansion.buffer))
         segments == expansion.nodes.segments
     IN IF \A i \in DOMAIN segments : ~segments[i].startpoint
        THEN phase' = "failed" /\ UNCHANGED <<result, files>>
        ELSE /\ phase' = "done"
             /\ result' = [edges |-> edges,
                           conditionals |-> IndexConditionals(edges, expansion.buffer.conditionals),
                           overrides |-> StorageManeuverOverrides(expansion.x, expansion.buffer.turns),
                           components |-> FindComponents(expansion.total, edges, segments)]
             /\ files' = IF input.updates = << >> THEN files ELSE Value(Written(edges, result'.conditionals))
  /\ UNCHANGED <<input, pipe, containers, classes, data, compressed, cursor, expansion, update>>

\* The update reads what was written and nothing else.
StartUpdate ==
  /\ input.updates # << >>
  /\ \/ phase = "done"
     \/ phase = "update" /\ Ended(update.pc)
  /\ update' = UpdateBegins(Head(input.updates), IF phase = "done" THEN files ELSE update.original)
  /\ input' = [input EXCEPT !.updates = Tail(@)]
  /\ phase' = "update" /\ containers' = EmptyContainers /\ classes' = Nothing /\ data' = Nothing
  /\ compressed' = Nothing /\ expansion' = Nothing /\ result' = Nothing /\ pipe' = EmptyPipe
  /\ cursor' = 0
  /\ UNCHANGED files

Update == phase = "update" /\ UpdateStep /\ UNCHANGED extractVars

Next ==
  \/ ReadBuffer
  \/ \E k \in Waiting : TransformBuffer(k)
  \/ \E k \in DOMAIN pipe.worked : Store(k)
  \/ Prepare \/ BuildCompressedOutputGraph \/ Compress \/ GenerateNodes
  \/ GenerateRange
  \/ \E k \in Waiting : ProcessRange(k)
  \/ \E k \in DOMAIN pipe.worked : OutputRange(k)
  \/ Finish \/ StartUpdate \/ Update

Spec == Init /\ [][Next]_vars

-----------------------------------------------------------------------------
(* Properties.                                                               *)
\* What is stored has the shape the later phases read: offsets delimit the
\* nodes of the ways, every node and edge points into its list, and the
\* pipelines hold only what was taken and not yet put out.
TypeOK ==
  /\ phase \in {"import", "compress", "expand", "done", "failed", "update"}
  /\ Len(containers.offsets) = Len(containers.ways) + 1
  /\ \A i \in DOMAIN containers.ways : containers.offsets[i] <= containers.offsets[i + 1]
  /\ \A i \in DOMAIN containers.edges : containers.edges[i].annotation \in DOMAIN containers.annotations
  /\ DOMAIN pipe.worked \subseteq (pipe.out + 1)..(pipe.next - 1)
  /\ pipe.next - 1 - pipe.out \in 0..MaxTokens
  /\ phase \in {"compress", "expand", "done"} =>
       \A i \in DOMAIN data.edges :
          /\ data.edges[i].source \in DOMAIN data.used /\ data.edges[i].target \in DOMAIN data.used
          /\ data.edges[i].forward

\* The ways of the file that the profile can use, in the order of the file.
UsableWays ==
  LET all == FlattenSeq(input.buffers)
  IN SelectSeq(SelectSeq(all, LAMBDA o : o.type = "way"), LAMBDA w : ~Unusable(w, input.profile))

\* ExtractorCallbacks::ProcessWay appends a way's nodes, its id and the end of
\* its nodes; the offsets computed from them later are right only if the
\* parallel transformer's results are stored in the order of the file.
WaysInFileOrder ==
  /\ Len(containers.ways) <= Len(UsableWays)
  /\ \A i \in DOMAIN containers.ways :
        containers.ways[i] = UsableWays[i].id /\ Nodes(containers, i) = UsableWays[i].nodes

\* PrepareEdges removes parallel edges: of all segments between two used nodes
\* that may be travelled from one to the other exactly one open edge is left,
\* and it is as cheap as the cheapest of them.
Travels(e, a, b) == (e.osm_source = a /\ e.osm_target = b /\ e.forward)
                    \/ (e.osm_source = b /\ e.osm_target = a /\ e.backward)

OpenFrom(e, u, v) == (e.source = u /\ e.target = v /\ e.forward)
                     \/ (e.source = v /\ e.target = u /\ e.backward)

CheapestSurvive ==
  (phase = "compress" /\ cursor = 0) =>
    \A u \in DOMAIN data.used : \A v \in DOMAIN data.used \ {u} :
      LET asked == {containers.edges[i] : i \in
                      {j \in DOMAIN containers.edges :
                         Travels(containers.edges[j], data.used[u], data.used[v])}}
          left == {i \in DOMAIN data.edges : OpenFrom(data.edges[i], u, v)}
          cost(e) == LET d == Distance(e.osm_source, e.osm_target)
                     IN <<AtLeastOne(Measure(e.weight_data, d, WeightMultiplier)), AtLeastOne(Measure(e.duration_data, d, 10))>>
      IN IF asked = {} THEN left = {}
         ELSE /\ Cardinality(left) = 1
              /\ \A i \in left : \A e \in asked :
                   \/ data.edges[i].weight < cost(e)[1]
                   \/ data.edges[i].weight = cost(e)[1] /\ data.edges[i].duration <= cost(e)[2]

\* The relations that the parser accepts, by what they name.
Accepted == containers.restrictions

NextTo(way, a, b) == \E i \in 1..(Len(way) - 1) : {way[i], way[i + 1]} = {a, b}

\* PrepareRestrictions: the path of a resolved restriction leaves the from way,
\* follows the via ways from end to end and enters the to way, and a
\* restriction all of whose ways meet is resolved.
PathsFollowWays ==
  (phase = "compress" /\ cursor = 0) =>
    LET ways == IdentifyRestrictionWays(containers)
        meet(r) == OsmPath(r, ways) # << >>
        osm(p) == [i \in DOMAIN p |-> data.used[p[i]]]
        follows(p, r) ==
          LET via == IF "node" \in DOMAIN r.via THEN << >> ELSE r.via.ways
              inner == {<<p[i], p[i + 1]>> : i \in 2..(Len(p) - 2)}
          IN /\ NextTo(ways[r.from], p[1], p[2])
             /\ NextTo(ways[r.to], p[Len(p) - 1], p[Len(p)])
             /\ via = << >> => Len(p) = 3 /\ p[2] = r.via.node
             /\ \A leg \in inner : \E k \in DOMAIN via : NextTo(ways[via[k]], leg[1], leg[2])
             /\ \A k \in DOMAIN via : \A i \in 1..(Len(ways[via[k]]) - 1) :
                  \E leg \in inner : {leg[1], leg[2]} = {ways[via[k]][i], ways[via[k]][i + 1]}
    IN /\ Len(data.restrictions) = Cardinality({i \in DOMAIN Accepted : meet(Accepted[i])})
       /\ \A i \in DOMAIN data.restrictions : \E j \in DOMAIN Accepted :
             /\ data.restrictions[i].condition = Accepted[j].condition
             /\ data.restrictions[i].only = Accepted[j].only
             /\ follows(osm(data.restrictions[i].path), Accepted[j])

\* The node-based graph before the compression.
Uncompressed == NodeBasedDynamicGraphFromEdges(Len(data.used), data.edges)

\* GraphCompressor: a compressed edge weighs what its segments weigh and, for
\* every signal for both directions that it passes, the penalty; its geometry
\* adds up to it, and the geometries of the two directions mirror each other.
CompressionExact ==
  (phase = "compress" /\ cursor > 1) =>
    LET g == compressed.graph
        original == Value(Uncompressed)
        bucket(e) == AddUncompressedEdge(compressed.geometry, e, g.target[e], g.data[e])[e]
        total(b, field) == FoldLeft(LAMBDA n, entry : n + entry[field], 0, b)
        before(u, b, i) == IF i = 1 THEN u ELSE b[i - 1].node
        segment(u, b, i) == original.data[FindEdge(original, before(u, b, i), b[i].node)]
        fits(u, b, i) == IF before(u, b, i) # b[i].node
                         THEN /\ b[i].weight = segment(u, b, i).weight
                              /\ b[i].duration = segment(u, b, i).duration
                         ELSE b[i].node \in data.signals.both => b[i].weight = SignalPenalty
        passed(b) == {b[i].node : i \in 1..(Len(b) - 1)} \cap data.signals.both
        paid(b) == {b[i].node : i \in {j \in 2..Len(b) : b[j].node = b[j - 1].node}}
        mirror(u, b, r) == /\ Len(b) = Len(r) /\ r[Len(r)].node = u
                           /\ \A i \in 1..(Len(b) - 1) : b[i].node = r[Len(r) - i].node
    IN \A u \in DOMAIN g.rows : \A e \in Adjacent(g, u) :
         /\ total(bucket(e), "weight") = g.data[e].weight
         /\ total(bucket(e), "duration") = g.data[e].duration
         /\ \A i \in DOMAIN bucket(e) : fits(u, bucket(e), i)
         /\ passed(bucket(e)) \subseteq paid(bucket(e))
         /\ mirror(u, bucket(e), bucket(FindEdge(g, g.target[e], u)))

-----------------------------------------------------------------------------
(* Walks of the compressed graph, as sequences of its nodes.                 *)
OpenEdge(x, u, v) == LET e == FindEdge(x.graph, u, v) IN e # SpecialEdge /\ ~x.graph.data[e].reversed

\* The restrictions whose path the last turn of a walk breaks.
Broken(x, w) ==
  LET n == Len(w)
      at(r) == LET k == Len(r.path) - 1
               IN k < n /\ SubSeq(w, n - k, n - 1) = SubSeq(r.path, 1, k) /\ IsTurnRestricted(r, w[n])
  IN {r \in {x.restrictions[i] : i \in DOMAIN x.restrictions} : at(r)}

\* Whether the last turn of a walk is one the intersection offers.
Offered(x, w) ==
  LET n == Len(w)
      from == [node |-> w[n - 2], edge |-> FindEdge(x.graph, w[n - 2], w[n - 1])]
      to == FindEdge(x.graph, w[n - 1], w[n])
  IN IF w[n - 2] = w[n] THEN UturnAllowed(x, from, w[n - 1])
     ELSE w[n - 1] \notin x.barriers /\ ~AgainstRoundabout(x, from, w[n - 1], to)

\* The turns out of every edge-based node by the node they lead to.
TurnsTo(x) ==
  LET out(a, v) == {k \in DOMAIN result.edges :
                      /\ result.edges[k].source = a
                      /\ x.graph.target[expansion.nodes.nodes[result.edges[k].target].edge] = v}
  IN Value([a \in 1..expansion.total |-> [v \in DOMAIN x.used |-> out(a, v)]])

\* The walks that can be followed in the edge-based graph from the node of
\* their first edge, with the node they end on and the turns they took.
Followed(x) ==
  LET turns == TurnsTo(x)
      first == {e \in DOMAIN expansion.labels : expansion.labels[e] # NoNode}
      on(f) == {[walk |-> Append(f.walk, x.graph.target[expansion.nodes.nodes[result.edges[k].target].edge]),
                 node |-> result.edges[k].target, turns |-> turns[result.edges[k].target], last |-> k] :
                  k \in UNION {f.turns[v] : v \in DOMAIN x.used}}
      of[n \in 2..WalkLength] ==
        IF n = 2 THEN {[walk |-> <<Source(x.graph, e), x.graph.target[e]>>, node |-> expansion.labels[e],
                        turns |-> turns[expansion.labels[e]], last |-> 0] : e \in first}
        ELSE UNION {on(f) : f \in of[n - 1]}
  IN UNION {of[n] : n \in 2..WalkLength}

\* The expansion with its copies of via edges enforces the turn restrictions
\* exactly: a walk from an open road can be followed by one turn more in the
\* edge-based graph if and only if the intersection offers the turn and it
\* completes no unconditional restriction, however the restrictions overlap.
RestrictionsExact ==
  phase = "done" =>
    LET x == expansion.x
        legal(w) == Offered(x, w) /\ \A r \in Broken(x, w) : ~IsUnconditional(r)
    IN \A f \in Followed(x) : \A v \in DOMAIN x.used :
         OpenEdge(x, f.walk[Len(f.walk)], v) =>
           Cardinality(f.turns[v]) = IF legal(Append(f.walk, v)) THEN 1 ELSE 0

\* A turn carries the conditions of exactly those conditional restrictions
\* that a walk ending with it breaks.
ConditionsExact ==
  phase = "done" =>
    LET x == expansion.x
        attached == Value([k \in DOMAIN result.edges |->
                      {c.condition : c \in {d \in {result.conditionals[i] : i \in DOMAIN result.conditionals} :
                                               d.turn = k}}])
    IN \A f \in {g \in Followed(x) : g.last # 0} :
         attached[f.last] = {r.condition : r \in Broken(x, f.walk)}

\* A maneuver override is stored once for every way to follow its turns in the
\* edge-based graph, copies of via edges included, and for nothing else.
OverridesComplete ==
  phase = "done" =>
    LET x == expansion.x
        edge(a) == expansion.nodes.nodes[a].edge
        linked(a, b) == \E k \in DOMAIN result.edges :
                           result.edges[k].source = a /\ result.edges[k].target = b
        along(m) ==
          LET ids(i) == {a \in 1..expansion.total :
                           edge(a) = FindEdge(x.graph, m.path[i], m.path[i + 1])}
              of[i \in 1..(Len(m.path) - 1)] ==
                IF i = 1 THEN {<<a>> : a \in ids(1)}
                ELSE {Append(p[1], p[2]) : p \in {q \in of[i - 1] \X ids(i) : linked(q[1][i - 1], q[2])}}
          IN of[Len(m.path) - 1]
        stored(m) == {o.nodes : o \in {p \in {result.overrides[i] : i \in DOMAIN result.overrides} :
                                         p.type = m.type /\ p.instruction = m.instruction}}
    IN \A i \in DOMAIN x.maneuvers : stored(x.maneuvers[i]) = along(x.maneuvers[i])

\* The penalty arrays written beside the graph stay aligned with its edges:
\* an edge weighs its source and the penalty at its turn id, and the index
\* names the last segment before the turn and the first one after it.
TurnsAligned ==
  phase = "done" =>
    LET x == expansion.x
        node(a) == expansion.nodes.nodes[a]
        original == Value(Uncompressed)
    IN \A k \in DOMAIN result.edges :
         LET e == result.edges[k]
         IN /\ e.turn_id = k
            /\ e.weight = node(e.source).weight + e.penalty.weight
            /\ e.duration = node(e.source).duration + e.penalty.duration
            /\ FindEdge(original, e.index[1], e.index[2]) # SpecialEdge
            /\ FindEdge(original, e.index[2], e.index[3]) # SpecialEdge
            /\ e.index[2] = x.graph.target[node(e.source).edge]
            /\ e.index[2] = Source(x.graph, node(e.target).edge)

\* Copies keep the one-way mark of the road they copy, and every open edge can
\* be snapped to through the segments of each of its nodes.
CopiesAlike ==
  phase \in {"expand", "done"} =>
    LET nodes == expansion.nodes.nodes
        pieces(a) == {<<s.u, s.v>> : s \in {t \in {expansion.nodes.segments[i] :
                                                    i \in DOMAIN expansion.nodes.segments} : t.forward = a}}
                     \cup {<<s.v, s.u>> : s \in {t \in {expansion.nodes.segments[i] :
                                                    i \in DOMAIN expansion.nodes.segments} : t.reverse = a}}
    IN \A a \in DOMAIN nodes : \A b \in DOMAIN nodes :
         nodes[a].edge = nodes[b].edge =>
           nodes[a].oneway = nodes[b].oneway /\ pieces(a) = pieces(b) /\ pieces(a) # {}

\* Two nodes share a component exactly when each can be reached from the
\* other, turning around allowed.
ComponentsStrong ==
  phase = "done" =>
    LET ids == 1..expansion.total
        next(a) == {e.target : e \in {f \in {result.edges[i] : i \in DOMAIN result.edges} : f.source = a}}
                   \cup UNION {{s.forward, s.reverse} \ {NoNode} :
                          s \in {t \in {expansion.nodes.segments[i] : i \in DOMAIN expansion.nodes.segments} :
                                   a \in {t.forward, t.reverse}}}
        reached == InTurn(LAMBDA r, n : Value([a \in ids |-> UNION {r[b] : b \in r[a]}]),
                          Value([a \in ids |-> {a} \cup next(a)]), <<1, 2, 3, 4, 5>>)
    IN \A a \in ids : \A b \in ids :
         (result.components[a].id = result.components[b].id) <=> (b \in reached[a] /\ a \in reached[b])

\* The import keeps the order of the file through the parallel pipeline, the cheapest
\* of parallel segments, and the ways of every restriction.
ImportExact == TypeOK /\ WaysInFileOrder /\ CheapestSurvive /\ PathsFollowWays

\* The edge-based graph written by parallel workers: compressed edges add up, turns,
\* conditions and overrides are exactly where the file has them, arrays are aligned,
\* copies alike, components strong.
ExpansionExact ==
  /\ CompressionExact
  /\ RestrictionsExact
  /\ ConditionsExact
  /\ OverridesComplete
  /\ TurnsAligned
  /\ CopiesAlike
  /\ ComponentsStrong
=============================================================================
