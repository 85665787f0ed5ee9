------------------------- MODULE MultiLevelDijkstra -------------------------
(***************************************************************************)
(* osrm-partition, osrm-customize and the queries on the level overlay:    *)
(* the recursive bisection of the road graph, the renumbering of its nodes *)
(* by the cells it makes, the metric of the cells, and the searches.       *)
(***************************************************************************)
EXTENDS CellMetric

-----------------------------------------------------------------------------
(***************************************************************************)
(* partitioner::DinicMaxFlow: a minimum cut of an undirected graph between *)
(* a set of source nodes and a set of sink nodes, every edge having        *)
(* capacity one. Phases of a breadth-first level graph and of depth-first  *)
(* searches from the sinks down to the sources.                            *)
(*                                                                         *)
(* A view is a function from 0..n-1 to nodes with a sequence of edges (the *)
(* targets); a flow is a set of pairs <<from, to>>. The sinks are augmented*)
(* in ascending order where the code iterates an unordered set: the value  *)
(* of the flow and the cut are the same for every order.                   *)
(***************************************************************************)
INVALID_LEVEL == 1000

\* makeHasNeighborNotInCheck: the nodes of a set with a neighbour outside.
BorderNodes(view, set) == {n \in set : \E t \in ToSet(view[n].edges) : t \notin set}

\* The breadth-first levels from the border of the sources. A sink is not
\* relaxed, an edge with flow is not followed, and sources next to the border
\* count as visited.
ComputeLevelGraph(view, border_sources, sources, sinks, flow) ==
  LET neighbours == UNION {ToSet(view[s].edges) : s \in border_sources}
      wave[k \in 0..Cardinality(DOMAIN view)] ==
        IF k = 0 THEN [n \in DOMAIN view |->
                         IF n \in border_sources \cup (neighbours \cap sources) THEN 0
                         ELSE INVALID_LEVEL]
        ELSE LET levels == wave[k - 1]
                 front == IF k = 1 THEN border_sources ELSE {n \in DOMAIN view : levels[n] = k - 1}
                 reached == UNION {{t \in ToSet(view[n].edges) : <<n, t>> \notin flow} :
                                     n \in front \ sinks}
             IN [n \in DOMAIN view |-> IF n \in reached /\ levels[n] > k THEN k ELSE levels[n]]
  IN wave[Cardinality(DOMAIN view)]

\* A depth-first search down the level graph; a node without a way down loses
\* its level. s.next counts the edges already looked at along s.path.
RECURSIVE Descend(_, _, _, _)
Descend(view, sources, flow, s) ==
  IF s.path = << >> \/ Last(s.path) \in sources THEN s
  ELSE LET at == Last(s.path)
           i  == Last(s.next) + 1
       IN IF i > Len(view[at].edges)
          THEN Descend(view, sources, flow,
                 [levels |-> [s.levels EXCEPT ![at] = INVALID_LEVEL],
                  path |-> Front(s.path), next |-> Front(s.next)])
          ELSE LET target == view[at].edges[i]
                   looked == Append(Front(s.next), i)
               IN IF <<target, at>> \notin flow /\ s.levels[target] + 1 = s.levels[at]
                  THEN Descend(view, sources, flow,
                         [levels |-> s.levels, path |-> Append(s.path, target),
                          next |-> Append(looked, 0)])
                  ELSE Descend(view, sources, flow, [s EXCEPT !.next = looked])

GetAugmentingPath(view, sources, flow, levels, sink) ==
  Descend(view, sources, flow, [levels |-> levels, path |-> <<sink>>, next |-> <<0>>])

\* Flow along a path: flow of the opposite direction goes first.
augment_flow(flow, path) ==
  FoldLeft(LAMBDA f, i : LET from == path[i]
                             to == path[i + 1]
                         IN IF <<to, from>> \in f THEN f \ {<<to, from>>} ELSE f \cup {<<from, to>>},
           flow, [i \in 1..(Len(path) - 1) |-> i])

\* All paths from the sinks that are left. s is the flow, its levels and value.
RECURSIVE BlockingFlow(_, _, _, _)
BlockingFlow(view, sources, sinks, s) ==
  IF sinks = {} THEN s
  ELSE LET sink == Min(sinks)
           found == GetAugmentingPath(view, sources, s.flow, s.levels, sink)
       IN IF s.levels[sink] = INVALID_LEVEL THEN BlockingFlow(view, sources, sinks \ {sink}, s)
          ELSE IF found.path = << >>
          THEN BlockingFlow(view, sources, sinks \ {sink}, [s EXCEPT !.levels = found.levels])
          ELSE BlockingFlow(view, sources, sinks,
                 [flow |-> augment_flow(s.flow, Reverse(found.path)),
                  levels |-> found.levels, value |-> s.value + 1])

\* The cut of the last level graph: what was reached is on the source side.
MakeCut(view, sources, levels, value) ==
  LET reached == {n \in DOMAIN view : levels[n] # INVALID_LEVEL} \cup sources
  IN [num_nodes_source |-> Cardinality(reached), num_edges |-> value, flags |-> reached]

RECURSIVE Phases(_, _, _, _, _)
Phases_LastCounts(view, sources, sinks, flow, value) ==
  LET levels == ComputeLevelGraph(view, BorderNodes(view, sources), sources, sinks, flow)
      reachable == {n \in BorderNodes(view, sinks) : levels[n] # INVALID_LEVEL}
      s == BlockingFlow(view, sources, BorderNodes(view, sinks),
                        [flow |-> flow, levels |-> levels, value |-> 0])
  IN IF reachable = {} THEN MakeCut(view, sources, levels, value)
     ELSE Phases(view, sources, sinks, s.flow, s.value)

Phases(view, sources, sinks, flow, value) ==
  LET levels == ComputeLevelGraph(view, BorderNodes(view, sources), sources, sinks, flow)
      reachable == {n \in BorderNodes(view, sinks) : levels[n] # INVALID_LEVEL}
      s == BlockingFlow(view, sources, BorderNodes(view, sinks),
                        [flow |-> flow, levels |-> levels, value |-> value])
  IN IF reachable = {} THEN MakeCut(view, sources, levels, value)
     ELSE Phases(view, sources, sinks, s.flow, s.value)

DinicMaxFlow(view, sources, sinks) == Phases(view, sources, sinks, {}, 0)

-----------------------------------------------------------------------------
(***************************************************************************)
(* partitioner::RecursiveBisection: the compressed node-based graph is cut *)
(* in two, again and again, until the parts are small. The nodes of a part *)
(* are a range of the graph's node array (a view), its edges lead to       *)
(* places counted from the start of the view. Parts are cut by tasks that  *)
(* run in parallel; the cuts for the slopes of one part are computed in    *)
(* parallel too, and a mutex guards the best of them.                      *)
(*                                                                         *)
(* A bisection id is the set of its one bits. Coordinates are small        *)
(* integers and fractions are multiplied out.                              *)
(***************************************************************************)

CONSTANTS
  BISECTION_BITS,        \* bits of a BisectionID, 32 in the code
  Balance,               \* the balance factor of a cut, <<numerator, denominator>>
  BoundaryFactor,        \* the share of the nodes that are sources, <<numerator, denominator>>
  num_optimizing_cuts,
  small_component_size,
  bisection_cell_size    \* max_cell_sizes.front()

ASSUME BisectionConfig ==
  /\ BISECTION_BITS \in Nat \ {0} /\ num_optimizing_cuts \in Nat \ {0}
  /\ small_component_size \in Nat \ {0} /\ bisection_cell_size \in Nat \ {0, 1}
  /\ 2 * BoundaryFactor[1] <= BoundaryFactor[2]

VARIABLES
  bisection_graph,  \* 0..n-1 -> [original_id, lon, lat, edges]
  bisection_ids,    \* by original id
  tasks             \* views not cut yet: [begin, end, depth, rounds, best]

bisectionVars == <<bisection_graph, bisection_ids, tasks>>


NoCut == [num_edges |-> -1]

Span(begin, end) == begin..(end - 1)

\* BisectionGraphView.
View(graph, begin, end) == [i \in Span(0, end - begin) |-> graph[begin + i]]

TreeNode(begin, end, depth) ==
  [begin |-> begin, end |-> end, depth |-> depth, rounds |-> Span(0, num_optimizing_cuts), best |-> NoCut]
-----------------------------------------------------------------------------
\* makeBisectionGraph: edges are grouped by source.
makeBisectionGraph(coordinates, edges) ==
  [n \in DOMAIN coordinates |->
     [original_id |-> n, lon |-> coordinates[n][1], lat |-> coordinates[n][2],
      edges |-> [i \in DOMAIN SelectSeq(edges, LAMBDA e : e[1] = n) |->
                   SelectSeq(edges, LAMBDA e : e[1] = n)[i][2]]]]

OneBits(k, shift) == {b + shift : b \in {c \in 0..30 : (k \div 2^c) % 2 = 1}}

\* The number of bits ceil(log2(k)).
BitsFor(k) == CHOOSE b \in 0..30 : 2^b >= k /\ \A c \in 0..30 : 2^c >= k => b <= c

\* PrePartitionWithSCC: the nodes sorted by component, all small components
\* last and as one; yields the graph, the first parts of the ids, the views and
\* the number of bits the components take.
PrePartitionWithSCC(graph) ==
  LET scc == RunTarjan([n \in DOMAIN graph |-> graph[n].edges])
      small == Len(scc.sizes)
      transform_id(n) == IF scc.sizes[scc.component[n] + 1] <= small_component_size
                         THEN small ELSE scc.component[n]
      ordering == StableSort([i \in 1..Cardinality(DOMAIN graph) |-> i - 1],
                             LAMBDA a, b : transform_id(a) < transform_id(b))
      ids == {transform_id(n) : n \in DOMAIN graph}
      number(id) == Cardinality({other \in ids : other < id})
      \* a node's place in the view of its component
      mapping == [n \in DOMAIN graph |->
                    Cardinality({m \in DOMAIN graph : m < n /\ transform_id(m) = transform_id(n)})]
      views == {[begin |-> Cardinality({n \in DOMAIN graph : transform_id(n) < id}),
                 end   |-> Cardinality({n \in DOMAIN graph : transform_id(n) <= id})] :
                  id \in ids \ {small}}
      scc_levels == BitsFor(Cardinality(views) + 1)
  IN [graph |-> [i \in DOMAIN graph |->
                   [graph[ordering[i + 1]] EXCEPT !.edges = [k \in DOMAIN @ |-> mapping[@[k]]]]],
      ids |-> [n \in DOMAIN graph |-> OneBits(number(transform_id(n)), BISECTION_BITS - scc_levels)],
      views |-> views, scc_levels |-> scc_levels]

-----------------------------------------------------------------------------
Abs(x) == IF x < 0 THEN -x ELSE x

\* slope * lon + (1 - |slope|) * lat, times the number of slopes.
project(node, round) ==
  LET slope == 2 * round - num_optimizing_cuts
  IN slope * node.lon + (num_optimizing_cuts - Abs(slope)) * node.lat

\* The spatial orders reorderFirstLast may leave: which of equal nodes are
\* among the first or the last is not determined.
SpatialOrders(view, round) ==
  LET n == (BoundaryFactor[1] * Cardinality(DOMAIN view)) \div BoundaryFactor[2]
      p(i) == project(view[i], round)
      first == {s \in kSubset(n, DOMAIN view) : \A i \in s, j \in DOMAIN view \ s : p(i) <= p(j)}
      last(rest) == {s \in kSubset(n, rest) : \A i \in s, j \in rest \ s : p(i) >= p(j)}
  IN {o \in [sources : first, sinks : UNION {last(DOMAIN view \ s) : s \in first}] :
        o.sinks \in last(DOMAIN view \ o.sources)}

\* get_balance as a fraction.
get_balance(size, num_nodes_source) ==
  LET bigger == Max({num_nodes_source, size - num_nodes_source})
      allowed == Balance[1] * (size \div 2)
  IN IF bigger * Balance[2] > allowed THEN <<bigger * Balance[2], allowed>> ELSE <<1, 1>>

balance_delta(size, num_nodes_source) == Abs((size \div 2) - num_nodes_source)

\* Whether a cut replaces the best one. The best balance is kept as an integer.
Better(size, cut, best) ==
  LET b == get_balance(size, cut.num_nodes_source)
  IN \/ best = NoCut
     \/ cut.num_edges * b[1] < best.num_edges * best.balance * b[2]
     \/ /\ cut.num_edges = best.num_edges
        /\ balance_delta(size, cut.num_nodes_source) < balance_delta(size, best.num_nodes_source)

\* A round of bestMinCut: the cut for one slope, and the critical section that
\* keeps it if it is the best so far.
CutRound(task, round) ==
  /\ round \in task.rounds
  /\ LET view == View(bisection_graph, task.begin, task.end)
         size == task.end - task.begin
     IN \E o \in SpatialOrders(view, round) :
          LET cut == DinicMaxFlow(view, o.sources, o.sinks)
              b == get_balance(size, cut.num_nodes_source)
              kept == [num_edges |-> cut.num_edges, num_nodes_source |-> cut.num_nodes_source,
                       flags |-> cut.flags, balance |-> b[1] \div b[2]]
          IN tasks' = (tasks \ {task}) \cup
               {[task EXCEPT !.rounds = @ \ {round},
                             !.best = IF Better(size, cut, @) THEN kept ELSE @]}
  /\ UNCHANGED <<bisection_graph, bisection_ids>>

\* ApplyBisection: the nodes of the source side move behind the others, edges
\* between the sides go, and the edges left lead to the new places.
ApplyBisection(graph, task) ==
  LET view == View(graph, task.begin, task.end)
      side(i) == i \in task.best.flags
      ordering == StableSort([i \in 1..Cardinality(DOMAIN view) |-> i - 1],
                             LAMBDA a, b : ~side(a) /\ side(b))
      mapping == [i \in DOMAIN view |->
                    Cardinality({j \in DOMAIN view : j < i /\ side(j) = side(i)})]
      kept(i) == SelectSeq(view[i].edges, LAMBDA t : side(t) = side(i))
  IN [n \in DOMAIN graph |->
        IF n \notin Span(task.begin, task.end) THEN graph[n]
        ELSE LET i == ordering[n - task.begin + 1]
             IN [view[i] EXCEPT !.edges = [k \in DOMAIN kept(i) |-> mapping[kept(i)[k]]]]]

terminal(node) ==
  \/ node.end - node.begin < bisection_cell_size
  \/ node.depth >= BISECTION_BITS

\* The best cut is applied and the two sides are handed to the feeder.
Bisect(task) ==
  /\ task.rounds = {}
  /\ LET flag == BISECTION_BITS - task.depth - 1
         right == {bisection_graph[task.begin + i].original_id : i \in task.best.flags}
         center == task.end - Cardinality(right)
         sides == {TreeNode(task.begin, center, task.depth + 1),
                   TreeNode(center, task.end, task.depth + 1)}
     IN /\ bisection_ids' = [n \in DOMAIN bisection_ids |->
                               IF n \in right THEN bisection_ids[n] \cup {flag} ELSE bisection_ids[n]]
        /\ bisection_graph' = ApplyBisection(bisection_graph, task)
        /\ tasks' = (tasks \ {task}) \cup {node \in sides : ~terminal(node)}

BisectionStep ==
  \E task \in tasks : Bisect(task) \/ \E round \in task.rounds : CutRound(task, round)

-----------------------------------------------------------------------------
(***************************************************************************)
(* Queries on the multi-level overlay: mld::search, bidirectional, which   *)
(* crosses cells far from both ends by their clique arcs and then unpacks  *)
(* the arcs of its path by searches inside the cells; and the one-to-many  *)
(* and many-to-many searches of the table service.                         *)
(*                                                                         *)
(* An end of a query is a sequence of places <<node, offset>>. A query     *)
(* works on data that does not change and on heaps of its thread, so it is *)
(* one step; the heaps keep their index from query to query. The data of a *)
(* heap node is its parent and whether a clique arc led to it. Durations   *)
(* and distances are taken to follow the weights and are left out.         *)
(***************************************************************************)
VARIABLES
  node_weights,     \* of the renumbered nodes
  allowed,          \* the renumbered filters
  query_heaps,      \* forward, reverse and many_to_many
  answer            \* the last query and what it returned

searchVars == <<node_weights, allowed, query_heaps, answer>>

NoAnswer == [kind |-> "none"]

SPECIAL_NODEID == -1

Unrestricted == -1

\* How a search chooses levels: by the ends of its query, or, when it unpacks an
\* arc, a level inside a parent cell. Besides, the nodes where it takes no path of a
\* single node (force_loop_*_nodes) and the weight it looks below.
ByEnds(sources, targets, filter, forced, bound) ==
  [level |-> Unrestricted, parent |-> Unrestricted, filter |-> filter, forced |-> forced, bound |-> bound,
   sources |-> {sources[i][1] : i \in DOMAIN sources}, targets |-> {targets[i][1] : i \in DOMAIN targets}]

InCell(level, parent, args) ==
  [level |-> level, parent |-> parent, filter |-> args.filter, forced |-> args.forced,
   bound |-> INVALID_EDGE_WEIGHT, sources |-> {}, targets |-> {}]

getNodeQueryLevel(node, args) ==
  IF args.level # Unrestricted THEN args.level
  ELSE Lowest({GetQueryLevel(mlp, s, t, node) : s \in args.sources, t \in args.targets})

checkParentCellRestriction(level, to, args) ==
  args.parent = Unrestricted \/ GetCell(mlp, level + 1, to) = args.parent

Follows(e, forward) == IF forward THEN e.forward ELSE e.backward

\* The queries do not use the weight of an entry but that of the node it leaves
\* and of its turn.
TurnWeight(node, e, forward, penalties) ==
  node_weights[IF forward THEN node ELSE e.target] + penalties[e.turn_id]

\* What a relaxation does in the heap; the many-to-many heap breaks ties of equal
\* weights by the parent.
RelaxTo(heap, to, weight, data, ties) ==
  IF /\ ties /\ Heap!WasInserted(heap, to)
     /\ weight = Heap!GetKey(heap, to) /\ data.parent < Heap!GetData(heap, to).parent
  THEN Heap!DecreaseKey(heap, to, weight, data)
  ELSE Heap!Relax(heap, to, weight, data)

relaxShortcuts(heap, entry, level, forward, args, ties) ==
  LET cell == storage[level][GetCell(mlp, level, entry.node)]
      weights == IF forward THEN GetOutWeight(metrics[args.filter], cell, entry.node)
                 ELSE GetInWeight(metrics[args.filter], cell, entry.node)
      ends == IF forward THEN cell.destinations ELSE cell.sources
  IN InTurn(LAMBDA h, i :
                IF weights[i] = INVALID_EDGE_WEIGHT \/ ends[i] = entry.node THEN h
                ELSE RelaxTo(h, ends[i], entry.weight + weights[i],
                             [parent |-> entry.node, from_clique_arc |-> TRUE], ties),
              heap, [i \in DOMAIN weights |-> i])

relaxBorderEdges(heap, entry, level, forward, args, penalties, ties) ==
  InTurn(LAMBDA h, e :
             IF /\ Follows(e, forward) /\ allowed[args.filter][e.target]
                /\ checkParentCellRestriction(level, e.target, args)
             THEN RelaxTo(h, e.target, entry.weight + TurnWeight(entry.node, e, forward, penalties),
                          [parent |-> entry.node, from_clique_arc |-> FALSE], ties)
             ELSE h,
           heap, GetBorderEdgeRange(level, entry.node))

relaxOutgoingEdges(heap, entry, level, forward, args, penalties, ties) ==
  relaxBorderEdges(IF level >= 1 /\ ~entry.data.from_clique_arc
                   THEN relaxShortcuts(heap, entry, level, forward, args, ties) ELSE heap,
                   entry, level, forward, args, penalties, ties)
-----------------------------------------------------------------------------
\* A loop is forced at the end it was asked for, not at a node on the way.
force_loop(entry, args) == entry.node \in args.forced /\ entry.data.parent = entry.node

\* A step of a search: s has both heaps, the middle node and the best weight.
routingStep(s, forward, args, penalties) ==
  LET own == IF forward THEN s.forward ELSE s.reverse
      other == IF forward THEN s.reverse ELSE s.forward
      entry == own.inserted[Heap!Top(own)]
      path == entry.weight + Heap!GetKey(other, entry.node)
      met == /\ Heap!WasInserted(other, entry.node) /\ ~force_loop(entry, args)
             /\ path >= 0 /\ path < s.weight
      relaxed == relaxOutgoingEdges(Heap!DeleteMin(own), entry, getNodeQueryLevel(entry.node, args),
                                    forward, args, penalties, FALSE)
  IN [forward |-> IF forward THEN relaxed ELSE s.forward,
      reverse |-> IF forward THEN s.reverse ELSE relaxed,
      middle  |-> IF met THEN entry.node ELSE s.middle,
      weight  |-> IF met THEN path ELSE s.weight,
      forward_min |-> IF forward /\ ~Heap!Empty(relaxed) THEN Heap!MinKey(relaxed) ELSE s.forward_min,
      reverse_min |-> IF ~forward /\ ~Heap!Empty(relaxed) THEN Heap!MinKey(relaxed) ELSE s.reverse_min]

RECURSIVE SearchLoop(_, _, _)
SearchLoop(s, args, penalties) ==
  IF \/ Heap!Size(s.forward) + Heap!Size(s.reverse) = 0
     \/ s.forward_min + s.reverse_min >= s.weight
  THEN s
  ELSE LET a == IF Heap!Empty(s.forward) THEN s ELSE routingStep(s, TRUE, args, penalties)
           b == IF Heap!Empty(a.reverse) THEN a ELSE routingStep(a, FALSE, args, penalties)
       IN SearchLoop(b, args, penalties)

\* retrievePackedPathFromSingleHeap: the edges from a node up to the root.
RECURSIVE PackedEdges(_, _, _)
PackedEdges(heap, node, forward) ==
  LET data == Heap!GetData(heap, node)
      edge == IF forward THEN [from |-> data.parent, to |-> node, overlay |-> data.from_clique_arc]
              ELSE [from |-> node, to |-> data.parent, overlay |-> data.from_clique_arc]
  IN IF data.parent = node THEN << >> ELSE <<edge>> \o PackedEdges(heap, data.parent, forward)

retrievePackedPathFromHeap(forward, reverse, middle) ==
  Reverse(PackedEdges(forward, middle, TRUE)) \o PackedEdges(reverse, middle, FALSE)

NoPath(forward, reverse) ==
  [weight |-> INVALID_EDGE_WEIGHT, nodes |-> << >>, turns |-> << >>, forward |-> forward, reverse |-> reverse]

\* FindEdge: the first entry at a node that leads to another one, in whichever
\* direction.
FindEdge(from, to) == ebg[from][Lowest({i \in DOMAIN ebg[from] : ebg[from][i].target = to})]

Root(heap, node) == Heap!Insert(Heap!Clear(heap), node, 0, [parent |-> node, from_clique_arc |-> FALSE])

\* search, and the searches inside cells that unpack its overlay edges with the
\* same heaps.
RECURSIVE search(_, _, _, _)
RECURSIVE UnpackPath(_, _, _, _)
UnpackPath(u, packed, args, penalties) ==
  IF packed = << >> THEN u
  ELSE LET e == Head(packed)
           level == getNodeQueryLevel(e.from, args)
           sub == search(Root(u.forward, e.from), Root(u.reverse, e.to),
                         InCell(level - 1, GetCell(mlp, level, e.from), args), penalties)
           next == IF e.overlay
                   THEN [sub EXCEPT !.weight = u.weight, !.nodes = u.nodes \o Tail(@), !.turns = u.turns \o @]
                   ELSE [u EXCEPT !.nodes = Append(@, e.to), !.turns = Append(@, FindEdge(e.from, e.to).turn_id)]
       IN UnpackPath(next, Tail(packed), args, penalties)

Found(s, packed, args, penalties) ==
  UnpackPath([weight |-> s.weight, nodes |-> <<IF packed = << >> THEN s.middle ELSE packed[1].from>>,
              turns |-> << >>, forward |-> s.forward, reverse |-> s.reverse], packed, args, penalties)

search(forward, reverse, args, penalties) ==
  IF Heap!Empty(forward) \/ Heap!Empty(reverse) THEN NoPath(forward, reverse)
  ELSE
  LET s == SearchLoop([forward |-> forward, reverse |-> reverse, middle |-> SPECIAL_NODEID,
                       weight |-> args.bound, forward_min |-> Heap!MinKey(forward),
                       reverse_min |-> Heap!MinKey(reverse)], args, penalties)
  IN IF s.weight >= args.bound \/ s.middle = SPECIAL_NODEID THEN NoPath(s.forward, s.reverse)
     ELSE Found(s, retrievePackedPathFromHeap(s.forward, s.reverse, s.middle), args, penalties)

\* insertSourceInHeap and insertTargetInHeap.
InsertPlaces(heap, places, sign) ==
  InTurn(LAMBDA h, p : Heap!Insert(h, p[1], sign * p[2], [parent |-> p[1], from_clique_arc |-> FALSE]),
           heap, places)

\* The nodes of sources that lie behind a target on the same segment
\* (getForwardLoopNodes, getBackwardLoopNodes).
LoopNodes(source, target) ==
  {source[i][1] : i \in {k \in DOMAIN source : \E j \in DOMAIN target :
                           source[k][1] = target[j][1] /\ source[k][2] > target[j][2]}}

\* A leg is how a route is asked for: [total, forces, bound]. A direct search
\* (directShortestPathSearch) forces no loop; a leg of a route through waypoints
\* starts with the total weight of the legs before it and forces loops
\* (searchWithUTurn); map matching gives a bound (getNetworkDistance).
Route(source, target, filter, leg, penalties) ==
  \E r \in {search(InsertPlaces(Heap!Clear(query_heaps.forward),
                                [i \in DOMAIN source |-> <<source[i][1], source[i][2] - leg.total>>], -1),
                   InsertPlaces(Heap!Clear(query_heaps.reverse), target, 1),
                   ByEnds(source, target, filter, IF leg.forces THEN LoopNodes(source, target) ELSE {},
                          leg.bound),
                   penalties)} :
    /\ answer' = [kind |-> "route", source |-> source, target |-> target, filter |-> filter, leg |-> leg,
                  weight |-> r.weight, nodes |-> r.nodes, turns |-> r.turns]
    /\ query_heaps' = [query_heaps EXCEPT !.forward = r.forward, !.reverse = r.reverse]
    /\ UNCHANGED <<metricVars, node_weights, allowed>>
-----------------------------------------------------------------------------
(***************************************************************************)
(* oneToManySearch, in both directions. s has the heap, the table and the  *)
(* index of the places still looked for.                                   *)
(***************************************************************************)
LevelTo(node, ends) == Lowest({GetHighestDifferentLevel(mlp, n, node) : n \in ends})

\* A place of the index is used once, by a path that does not go backwards.
update_values(s, node, weight) ==
  LET found == {x \in s.index : x.node = node /\ weight + x.weight >= 0}
  IN [s EXCEPT !.index = @ \ found,
               !.table = [i \in DOMAIN @ |->
                 Lowest({@[i]} \cup {weight + x.weight : x \in {y \in found : y.column = i}})]]

\* A source that is also a target is left, and may be reached again.
insert_node(s, p, sign, forward, args, penalties) ==
  LET entry == [node |-> p[1], weight |-> sign * p[2]]
      root == [parent |-> p[1], from_clique_arc |-> FALSE]
  IN IF \E x \in s.index : x.node = p[1]
     THEN [update_values(s, p[1], entry.weight) EXCEPT !.heap =
             relaxBorderEdges(@, entry, 0, forward, args, penalties, TRUE)]
     ELSE [s EXCEPT !.heap = Heap!Insert(@, p[1], entry.weight, root)]

RECURSIVE OneToManyLoop(_, _, _, _, _)
OneToManyLoop(s, ends, forward, args, penalties) ==
  IF Heap!Empty(s.heap) \/ s.index = {} THEN s
  ELSE LET entry == s.heap.inserted[Heap!Top(s.heap)]
           updated == update_values(s, entry.node, entry.weight)
           relaxed == relaxOutgoingEdges(Heap!DeleteMin(s.heap), entry, LevelTo(entry.node, ends),
                                         forward, args, penalties, TRUE)
       IN OneToManyLoop([updated EXCEPT !.heap = relaxed], ends, forward, args, penalties)

oneToManySearch(heap, source, targets, forward, filter, penalties) ==
  LET sign == IF forward THEN 1 ELSE -1
      args == ByEnds(<< >>, << >>, filter, {}, INVALID_EDGE_WEIGHT)
      places == UNION {{<<j, i>> : i \in DOMAIN targets[j]} : j \in DOMAIN targets}
      index == {[node |-> targets[x[1]][x[2]][1], column |-> x[1], weight |-> sign * targets[x[1]][x[2]][2]] :
                  x \in places}
      ends == {source[i][1] : i \in DOMAIN source} \cup {targets[x[1]][x[2]][1] : x \in places}
      start == InTurn(LAMBDA s, p : insert_node(s, p, -sign, forward, args, penalties),
                        [heap |-> Heap!Clear(heap), index |-> index,
                         table |-> [j \in DOMAIN targets |-> INVALID_EDGE_WEIGHT]], source)
  IN OneToManyLoop(start, ends, forward, args, penalties)
-----------------------------------------------------------------------------
(***************************************************************************)
(* manyToManySearch. Backward searches fill the buckets and stop at the    *)
(* highest level, forward searches read them.                              *)
(***************************************************************************)
RECURSIVE BackwardLoop(_, _, _, _, _, _)
BackwardLoop(s, column, ends, forward, args, penalties) ==
  IF Heap!Empty(s.heap) THEN s
  ELSE LET entry == s.heap.inserted[Heap!Top(s.heap)]
           level == LevelTo(entry.node, ends)
           taken == Heap!DeleteMin(s.heap)
           next == [s EXCEPT
             !.buckets = @ \cup {[node |-> entry.node, column |-> column, weight |-> entry.weight]},
             !.heap = IF level >= GetNumberOfLevels(mlp) - 1 THEN taken
                      ELSE relaxOutgoingEdges(taken, entry, level, ~forward, args, penalties, TRUE)]
       IN BackwardLoop(next, column, ends, forward, args, penalties)

RECURSIVE ForwardLoop(_, _, _, _, _, _)
ForwardLoop(s, row, ends, forward, args, penalties) ==
  IF Heap!Empty(s.heap) THEN s
  ELSE LET entry == s.heap.inserted[Heap!Top(s.heap)]
           over(j) == {w \in {entry.weight + b.weight :
                         b \in {c \in s.buckets : c.node = entry.node /\ c.column = j}} : w >= 0}
           next == [s EXCEPT
             !.table[row] = [j \in DOMAIN @ |-> Lowest({@[j]} \cup over(j))],
             !.heap = relaxOutgoingEdges(Heap!DeleteMin(@), entry, LevelTo(entry.node, ends),
                                         forward, args, penalties, TRUE)]
       IN ForwardLoop(next, row, ends, forward, args, penalties)

NodesOfPlaces(places) == {places[i][1] : i \in DOMAIN places}

manyToManySearch(heap, sources, targets, forward, filter, penalties) ==
  LET sign == IF forward THEN 1 ELSE -1
      args == ByEnds(<< >>, << >>, filter, {}, INVALID_EDGE_WEIGHT)
      column(s, j) == BackwardLoop([s EXCEPT !.heap = InsertPlaces(Heap!Clear(@), targets[j], sign)],
                                   j, NodesOfPlaces(targets[j]), forward, args, penalties)
      row(s, i) == ForwardLoop([s EXCEPT !.heap = InsertPlaces(Heap!Clear(@), sources[i], -sign)],
                               i, NodesOfPlaces(sources[i]), forward, args, penalties)
      start == [heap |-> heap, buckets |-> {},
                table |-> [i \in DOMAIN sources |-> [j \in DOMAIN targets |-> INVALID_EDGE_WEIGHT]]]
  IN InTurn(row, InTurn(column, start, [j \in DOMAIN targets |-> j]), [i \in DOMAIN sources |-> i])

Transposed(t, rows, columns) == [i \in 1..rows |-> [j \in 1..columns |-> t[j][i]]]

\* The dispatcher: one source, one target, and the rest by the smaller side.
AsRow(s) == [table |-> <<s.table>>, heap |-> s.heap]
AsColumn(s) == [table |-> [i \in DOMAIN s.table |-> <<s.table[i]>>], heap |-> s.heap]
AsTransposed(s, m, n) == [table |-> Transposed(s.table, m, n), heap |-> s.heap]

TableSearch(heap, sources, targets, filter, penalties) ==
  IF Len(sources) = 1 THEN AsRow(oneToManySearch(heap, sources[1], targets, TRUE, filter, penalties))
  ELSE IF Len(targets) = 1 THEN AsColumn(oneToManySearch(heap, targets[1], sources, FALSE, filter, penalties))
  ELSE IF Len(targets) < Len(sources)
  THEN AsTransposed(manyToManySearch(heap, targets, sources, FALSE, filter, penalties), Len(sources), Len(targets))
  ELSE manyToManySearch(heap, sources, targets, TRUE, filter, penalties)

Table(sources, targets, filter, penalties) ==
  \E r \in {TableSearch(query_heaps.many_to_many, sources, targets, filter, penalties)} :
    /\ answer' = [kind |-> "table", sources |-> sources, targets |-> targets, filter |-> filter,
                  table |-> r.table]
    /\ query_heaps' = [query_heaps EXCEPT !.many_to_many = r.heap]
    /\ UNCHANGED <<metricVars, node_weights, allowed>>

-----------------------------------------------------------------------------
(***************************************************************************)
(* The multi-level Dijkstra pipeline as a whole: osrm-partition cuts the   *)
(* node-based graph and numbers the nodes of the edge-based graph anew,    *)
(* osrm-customize computes the metrics, and a thread of the server answers *)
(* routes and tables. The answers are compared with shortest paths of the  *)
(* graph that was read.                                                    *)
(***************************************************************************)

CONSTANTS
  Inputs,          \* street networks
  max_cell_sizes,  \* of the levels, the smallest first
  Places(_),       \* the ends a route on a network may have
  Legs,            \* the ways a route is asked for
  Tables(_),       \* the pairs of lists of ends a table may be asked for
  Overlays,        \* sizes of the first dataset of a thread, which its heaps keep
  MaxQueries

ASSUME CellSizes == max_cell_sizes[1] = bisection_cell_size

VARIABLES
  input, phase, permutation,
  ebg_file,        \* the edges osrm-partition writes back
  queries

pipelineVars == <<input, phase, permutation, ebg_file, queries>>

vars == <<bisectionVars, metricVars, searchVars, pipelineVars>>

NodeCount(i) == Cardinality(DOMAIN i.node_weights)

Nodes == DOMAIN input.node_weights

\* The cut of the node-based graph begins with the first step of the behaviour.
Init ==
  /\ input \in Inputs
  /\ LET p == PrePartitionWithSCC(makeBisectionGraph(input.coordinates, input.streets))
     IN /\ bisection_graph = p.graph
        /\ bisection_ids = p.ids
        /\ tasks = {TreeNode(v.begin, v.end, p.scc_levels) : v \in p.views}
  /\ phase = "bisect"
  /\ mlp = << >> /\ ebg = << >> /\ edge_offsets = << >> /\ storage = << >> /\ metrics = << >>
  /\ custom = << >> /\ heaps = << >>
  /\ permutation = << >> /\ ebg_file = << >>
  /\ node_weights = << >> /\ allowed = << >>
  /\ query_heaps = << >> /\ answer = NoAnswer /\ queries = 0

Cut == phase = "bisect" /\ BisectionStep /\ UNCHANGED <<metricVars, searchVars, pipelineVars>>

\* The bisection id of an edge-based node is that of the junction it starts at.
EdgeBasedIds ==
  [n \in Nodes |->
     LET entry == CHOOSE e \in ToSet(input.mapping) : n \in {e.forward, e.backward}
     IN bisection_ids[IF n = entry.forward THEN entry.u ELSE entry.v]]

\* Partitioner::Run after the cuts.
Partition ==
  /\ phase = "bisect" /\ tasks = {}
  /\ LET graph == LoadEdgeBasedGraph(NodeCount(input), input.edges)
         parts == bisectionToPartition(EdgeBasedIds, BISECTION_BITS, max_cell_sizes)
         fixed == removeUnconnectedBoundaryNodes(graph, parts.partitions)
     IN /\ permutation' = makePermutation(graph, fixed)
        /\ LET renumbered == RenumberGraph(graph, permutation')
           IN /\ mlp' = MakeMultiLevelPartition([l \in DOMAIN fixed |-> Permute(fixed[l], permutation')],
                                                parts.num_cells)
              /\ storage' = MakeCellStorage(mlp', renumbered)
              /\ ebg_file' = graphToEdges(renumbered)
  /\ node_weights' = Permute(input.node_weights, permutation')
  /\ allowed' = [f \in DOMAIN input.filters |-> Permute(input.filters[f], permutation')]
  /\ phase' = "partitioned"
  /\ UNCHANGED <<bisectionVars, ebg, edge_offsets, metrics, custom, heaps, query_heaps, answer, input, queries>>

\* Customizer::Run reads the edges and orders them by level.
Customize ==
  /\ phase = "partitioned"
  /\ ebg' \in EdgeOrders(mlp, LoadEdgeBasedGraph(NodeCount(input), ebg_file))
  /\ edge_offsets' = EdgeOffsets(mlp, ebg')
  /\ custom' = [filter |-> 1, level |-> 1, todo |-> DOMAIN storage[1]]
  /\ metrics' = [f \in DOMAIN allowed |-> MakeMetric(storage)]
  /\ heaps' = [w \in Workers |-> Heap!NewHeap(NodeCount(input), NodeCount(input))]
  /\ phase' = "customize"
  /\ UNCHANGED <<bisectionVars, mlp, storage, searchVars, input, permutation, ebg_file, queries>>

CustomizeStep ==
  /\ phase = "customize"
  /\ NextLevel \/ NextFilter \/ \E w \in Workers, id \in custom.todo : CustomizeCell(w, id, allowed)
  /\ UNCHANGED <<bisectionVars, searchVars, pipelineVars>>

\* The server has loaded the dataset. Its thread has heaps of an earlier one.
Serve ==
  /\ phase = "customize" /\ Customized
  /\ phase' = "serve"
  /\ heaps' = << >>
  /\ \E overlay \in Overlays :
       query_heaps' = [forward |-> Heap!NewHeap(NodeCount(input), overlay),
                       reverse |-> Heap!NewHeap(NodeCount(input), overlay),
                       many_to_many |-> Heap!NewHeap(NodeCount(input), overlay)]
  /\ UNCHANGED <<bisectionVars, mlp, ebg, edge_offsets, storage, metrics, custom, node_weights, allowed, answer,
                 input, permutation, ebg_file, queries>>

\* The places of a query as the nodes are numbered now.
Renumbered(places) == [i \in DOMAIN places |-> <<permutation[places[i][1]], places[i][2]>>]

Permitted(places, filter) == \A i \in DOMAIN places : input.filters[filter][places[i][1]]

Ask ==
  /\ phase = "serve" /\ queries < MaxQueries
  /\ \E filter \in DOMAIN input.filters :
       \/ \E p, q \in Places(input) :
            /\ Permitted(p, filter) /\ Permitted(q, filter)
            /\ \E leg \in Legs : Route(Renumbered(p), Renumbered(q), filter, leg, input.penalties)
       \/ \E t \in Tables(input) :
            /\ \A i \in DOMAIN t[1] : Permitted(t[1][i], filter)
            /\ \A i \in DOMAIN t[2] : Permitted(t[2][i], filter)
            /\ Table([i \in DOMAIN t[1] |-> Renumbered(t[1][i])], [i \in DOMAIN t[2] |-> Renumbered(t[2][i])],
                     filter, input.penalties)
  /\ queries' = queries + 1
  /\ UNCHANGED <<bisectionVars, input, phase, permutation, ebg_file>>

Next == Cut \/ Partition \/ Customize \/ CustomizeStep \/ Serve \/ Ask

Spec == Init /\ [][Next]_vars
-----------------------------------------------------------------------------
\* Reference: the shortest weights between nodes of a graph given by the weights
\* of its edges, over some nodes; d[u, u] is the shortest way around.
Plus(a, b) == IF a = INVALID_EDGE_WEIGHT \/ b = INVALID_EDGE_WEIGHT THEN INVALID_EDGE_WEIGHT ELSE a + b

Distances(nodes, Weight(_, _)) ==
  LET top == Max(nodes)
      over[k \in 0..(top + 1)] ==
        IF k = 0 THEN Value([p \in nodes \X nodes |-> Weight(p[1], p[2])])
        ELSE IF k - 1 \notin nodes THEN over[k - 1]
        ELSE LET d == over[k - 1]
             IN Value([p \in nodes \X nodes |-> Lowest({d[p], Plus(d[p[1], k - 1], d[k - 1, p[2]])})])
  IN over[top + 1]

TurnsFrom(u, v) == {e \in ToSet(input.edges) : e.source = u /\ e.target = v /\ u # v}

EdgeWeight(u, v) == Lowest({INVALID_EDGE_WEIGHT} \cup {e.weight : e \in TurnsFrom(u, v)})

OldId(n) == CHOOSE m \in Nodes : permutation[m] = n

DistancesFor(filter) == Distances({n \in Nodes : input.filters[filter][n]}, EdgeWeight)

\* The weight of the best route between two ends, given the distances.
BestWeight(d, source, target) ==
  LET way(p, q) == IF p[1] = q[1] /\ q[2] >= p[2] THEN q[2] - p[2]
                   ELSE Plus(d[OldId(p[1]), OldId(q[1])], q[2] - p[2])
  IN Lowest({way(source[i], target[j]) : i \in DOMAIN source, j \in DOMAIN target})
-----------------------------------------------------------------------------
\* The views of tasks that run in parallel are apart and no edge leaves its view
\* (RecursiveBisectionState::ApplyBisection renumbers edges in place).
TypeOK ==
  /\ phase \in {"bisect", "partitioned", "customize", "serve"}
  /\ \A t \in tasks : t.begin < t.end /\ t.depth <= BISECTION_BITS /\ t.rounds \subseteq 0..(num_optimizing_cuts - 1)
  /\ queries \in 0..MaxQueries

ViewsClosed ==
  \A t \in tasks :
    /\ \A u \in tasks : u # t => Span(t.begin, t.end) \cap Span(u.begin, u.end) = {}
    /\ \A n \in Span(t.begin, t.end) :
         /\ \A k \in DOMAIN bisection_graph[n].edges :
              bisection_graph[n].edges[k] \in 0..(t.end - t.begin - 1)
         /\ LET heads == [k \in DOMAIN bisection_graph[n].edges |->
                             bisection_graph[t.begin + bisection_graph[n].edges[k]].original_id]
            IN \A k \in DOMAIN heads : <<bisection_graph[n].original_id, heads[k]>> \in ToSet(input.streets)

\* The cut a task keeps is a minimum cut between its sources and sinks: it counts
\* the neighbours it parts (streets between two junctions count once), and no
\* other way to part the nodes crosses fewer (DinicMaxFlow).
Crossing(view, side) ==
  Cardinality({<<i, j>> \in side \X (DOMAIN view \ side) : j \in ToSet(view[i].edges)})

CutIsMinimal ==
  \A t \in tasks : t.best # NoCut =>
    LET view == View(bisection_graph, t.begin, t.end)
    IN /\ t.best.num_nodes_source = Cardinality(t.best.flags)
       /\ t.best.num_edges = Crossing(view, t.best.flags)
       /\ \E r \in 0..(num_optimizing_cuts - 1) : \E o \in SpatialOrders(view, r) :
            \A side \in {s \in SUBSET DOMAIN view : o.sources \subseteq s /\ o.sinks \cap s = {}} :
              t.best.num_edges <= Crossing(view, side)

\* Nodes in one cell are in one cell on every higher level, the children of a
\* cell are exactly the cells inside it, and the highest level on which two nodes
\* differ is read off their packed ids (MultiLevelPartition).
PartitionNested ==
  phase = "partitioned" =>
    LET levels == 1..(GetNumberOfLevels(mlp) - 1)
        new == {permutation[n] : n \in Nodes}
    IN /\ \A a, b \in new : GetHighestDifferentLevel(mlp, a, b) =
            Max({0} \cup {l \in levels : GetCell(mlp, l, a) # GetCell(mlp, l, b)})
       /\ \A l \in levels : /\ {GetCell(mlp, l, n) : n \in new} = CellsOf(l)
                            /\ l > 1 => \A n \in new :
                                 GetCell(mlp, l - 1, n) \in BeginChildren(mlp, l, GetCell(mlp, l, n))
                                                            ..(EndChildren(mlp, l, GetCell(mlp, l, n)) - 1)

\* A node without edges inside its cell has all its edges in no cell of its
\* parent (removeUnconnectedBoundaryNodes leaves no node it could move).
BordersConnected ==
  phase = "partitioned" =>
    \A l \in 1..(GetNumberOfLevels(mlp) - 1) : \A n \in {permutation[m] : m \in Nodes} :
      LET same(k, m) == GetCell(mlp, k, n) = GetCell(mlp, k, m)
          ends == {e.target : e \in {f \in ToSet(ebg_file) : f.source = n}} \cup
                  {e.source : e \in {f \in ToSet(ebg_file) : f.target = n}}
      IN ends # {} /\ (\A m \in ends : ~same(l, m)) =>
           l < GetNumberOfLevels(mlp) - 1 /\ \A m \in ends : ~same(l + 1, m)

\* When the cells of a level are customised, the weights of all cells up to it are
\* those of the shortest paths inside them over the nodes the filter allows; a
\* node it excludes has none (CellCustomizer). Checked at the end of each level.
Done(level, cell, filter) ==
  \/ filter < custom.filter
  \/ filter = custom.filter /\ (level < custom.level \/ (level = custom.level /\ cell \notin custom.todo))

MetricExact ==
  phase = "customize" /\ custom.todo = {} =>
    \A f \in DOMAIN metrics : \A l \in DOMAIN storage : \A c \in DOMAIN storage[l] :
      LET cell == storage[l][c]
          inside == {n \in DOMAIN ebg : GetCell(mlp, l, n) = c /\ allowed[f][n]}
          weight(u, v) == Lowest({INVALID_EDGE_WEIGHT} \cup
                            {e.weight : e \in {x \in ToSet(ebg[u]) : x.target = v /\ x.forward}})
          d == Distances(inside, weight)
          best(u, v) == IF u \notin inside \/ v \notin inside THEN INVALID_EDGE_WEIGHT
                        ELSE IF u = v THEN 0 ELSE d[u, v]
      IN Done(l, c, f) =>
           \A i \in DOMAIN cell.sources : GetOutWeight(metrics[f], cell, cell.sources[i]) =
             [j \in DOMAIN cell.destinations |-> best(cell.sources[i], cell.destinations[j])]

\* A route has the weight of the shortest path, on top of the weight the route had
\* before, when that is below the bound: also under a filter, and for a target before
\* its source, to which the search finds the shortest way around (mld::search).
RouteShortest ==
  answer.kind = "route" =>
    LET best == Plus(answer.leg.total, BestWeight(DistancesFor(answer.filter), answer.source, answer.target))
    IN answer.weight = IF best < answer.leg.bound THEN best ELSE INVALID_EDGE_WEIGHT

\* The nodes of the unpacked path are joined by turns of the graph that was read,
\* over allowed nodes, and have the weight that is reported.
UnpackedIsRoute ==
  answer.kind = "route" /\ answer.nodes # << >> =>
    LET old == [i \in DOMAIN answer.nodes |-> OldId(answer.nodes[i])]
        total == FoldLeft(Plus, 0, [i \in 1..(Len(old) - 1) |-> EdgeWeight(old[i], old[i + 1])])
    IN /\ \A i \in DOMAIN old : input.filters[answer.filter][old[i]]
       /\ \E i \in DOMAIN answer.source, j \in DOMAIN answer.target :
            /\ answer.source[i][1] = answer.nodes[1]
            /\ answer.target[j][1] = answer.nodes[Len(old)]
            /\ answer.weight = Plus(total, answer.leg.total + answer.target[j][2] - answer.source[i][2])

\* A table has the weights of the routes (manyToManySearch).
TableShortest ==
  answer.kind = "table" =>
    LET d == DistancesFor(answer.filter)
    IN \A i \in DOMAIN answer.sources, j \in DOMAIN answer.targets :
         answer.table[i][j] = BestWeight(d, answer.sources[i], answer.targets[j])

\* The partition, from the first cut to the numbering of the cells: minimum cuts of
\* separate views, cells that nest, and border nodes that are connected to their cell.
PartitionSound ==
  /\ TypeOK
  /\ ViewsClosed
  /\ CutIsMinimal
  /\ PartitionNested
  /\ BordersConnected

\* The metrics of the cells are exact distances, and routes and tables found over them
\* are what a search on the graph that was read would find.
OverlayExact == MetricExact /\ RouteShortest /\ UnpackedIsRoute /\ TableShortest
=============================================================================
