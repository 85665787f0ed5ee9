-------------------------- MODULE AlternativesMLD --------------------------
(* The alternative routes of the multi-level overlay                       *)
(* (engine/routing_algorithms/alternative_path_mld.cpp): both searches     *)
(* overlap past the shortest path, the nodes where they meet are           *)
(* candidates to route via, and the candidates go through filters by       *)
(* stretch, local optimality and sharing, packed first and then unpacked.  *)
(* A graph is a record:                                                    *)
(*   base     the edges <<from, to, weight>>                               *)
(*   cell     node -> its cell on the one level above the base graph       *)
(*   arcs     the clique arcs of the cells, <<from, to, weight>>           *)
(*   inside   <<from, to>> -> the nodes of the path of a clique arc        *)
(*   duration node -> its duration                                         *)
(*   best     <<s, t>> -> weight of a shortest path                        *)
(* A unit of weight takes the query's unit of deciseconds, the weight     *)
(* multiplier being ten, and every node is a single segment.               *)
EXTENDS Integers, Sequences, SequencesExt, FiniteSetsExt, Algorithms
CONSTANTS Nodes, Graph, Queries, None
VARIABLE job

Heap == INSTANCE QueryHeap
INVALID == 10000

\* parametersFromRequest, the shares in per cent, by the distance in kilometres.
parametersFromRequest(distance) ==
  CASE distance < 10  -> [unpack |-> 10, cells |-> 100, optimal |-> 20, same |-> 50]
    [] distance \in 10..19 -> [unpack |-> 8, cells |-> 100, optimal |-> 20, same |-> 60]
    [] distance \in 20..49 -> [unpack |-> 6, cells |-> 95, optimal |-> 10, same |-> 65]
    [] distance \in 50..99 -> [unpack |-> 4, cells |-> 95, optimal |-> 10, same |-> 70]
    [] OTHER -> [unpack |-> 2, cells |-> 95, optimal |-> 10, same |-> 75]
OverlapFactor == 133

\* In per cent: a whole for short trips, a fifth for long ones, a hyperbola between.
getLongerByFactorBasedOnDuration(duration) ==
  LET y == duration + 2079
  IN IF duration < 300 THEN 100 ELSE IF duration > 36000 THEN 20
     ELSE 19 + (135118 \div y) + (((2454378 \div y) * 100000) \div y) \div y

-----------------------------------------------------------------------------
(* The search.                                                             *)

\* A node far from both ends is left by the arcs of its cell and over its border.
QueryCells(q) == {Graph.cell[p[1]] : p \in ToSet(q.sources) \cup ToSet(q.targets)}
level(q, node) == IF Graph.cell[node] \in QueryCells(q) THEN 0 ELSE 1

InsertPlaces(heap, places, sign) ==
  FoldLeft(LAMBDA h, p : Heap!Insert(h, p[1], sign * p[2], [parent |-> p[1], from_clique_arc |-> FALSE]), heap, places)

\* Edges as <<next node, weight, is an arc>>, in the order of the next nodes.
EdgesFrom(q, entry, forward) ==
  LET near(e) == IF forward THEN e[1] ELSE e[2]
      far(e) == IF forward THEN e[2] ELSE e[1]
      high == level(q, entry.node) = 1
      arcs == IF high /\ ~entry.data.from_clique_arc
              THEN {<<far(e), e[3], TRUE>> : e \in {f \in Graph.arcs : near(f) = entry.node}} ELSE {}
      border == {<<far(e), e[3], FALSE>> :
                   e \in {f \in Graph.base : near(f) = entry.node /\ (high => Graph.cell[f[1]] # Graph.cell[f[2]])}}
      code(x) == x[1] + (IF x[3] THEN 0 ELSE 1000)
  IN Ordered(arcs \cup border, LAMBDA x, y : code(x) < code(y))

\* [heap, via, weight] after one step; via = None when no better way over the node.
routingStep(q, own, other, bound, forward) ==
  LET entry == own.inserted[Heap!Top(own)]
      path == entry.weight + Heap!GetKey(other, entry.node)
      met == Heap!WasInserted(other, entry.node) /\ path >= 0 /\ path < bound
  IN [heap |-> FoldLeft(LAMBDA h, e : Heap!Relax(h, e[1], entry.weight + e[2],
                                                  [parent |-> entry.node, from_clique_arc |-> e[3]]),
                        Heap!DeleteMin(own), EdgesFrom(q, entry, forward)),
      via |-> IF met THEN entry.node ELSE None,
      weight |-> IF met THEN path ELSE bound]

MinKeyOr(heap, key) == IF Heap!Empty(heap) THEN key ELSE Heap!MinKey(heap)
Candidate(s) == IF s.via = None THEN <<>> ELSE <<[node |-> s.via, weight |-> s.weight]>>
Skip(heap, bound) == [heap |-> heap, via |-> None, weight |-> bound]

overlap_weight(j) == IF j.shortest = INVALID THEN j.overlap ELSE (j.shortest * OverlapFactor) \div 100

\* One turn of the loop of makeCandidateVias: a step forward and a step in reverse.
Searching == job.phase = "search" /\ Heap!Size(job.fheap) + Heap!Size(job.rheap) > 0
makeCandidateVias ==
  /\ Searching /\ job.fmin + job.rmin < overlap_weight(job)
  /\ LET f == IF Heap!Empty(job.fheap) THEN Skip(job.fheap, overlap_weight(job))
              ELSE routingStep(job.query, job.fheap, job.rheap, overlap_weight(job), TRUE)
         r == IF Heap!Empty(job.rheap) THEN Skip(job.rheap, f.weight)
              ELSE routingStep(job.query, job.rheap, f.heap, f.weight, FALSE)
     IN job' = [job EXCEPT !.fheap = f.heap, !.rheap = r.heap,
                  !.fmin = MinKeyOr(f.heap, @), !.rmin = MinKeyOr(r.heap, @),
                  !.vias = @ \o Candidate(f) \o Candidate(r),
                  !.overlap = r.weight, !.shortest = Min({@, f.weight, r.weight})]

NoShortestPath ==
  /\ job.phase = "search" /\ ~(Searching /\ job.fmin + job.rmin < overlap_weight(job))
  /\ job.vias = <<>>
  /\ job' = [job EXCEPT !.phase = "done"]

-----------------------------------------------------------------------------
(* Filters on via nodes.                                                   *)

Lightest(vias) == CHOOSE v \in ToSet(vias) :
                    \E i \in DOMAIN vias : vias[i] = v /\ \A k \in DOMAIN vias :
                      vias[i].weight < vias[k].weight \/ (vias[i].weight = vias[k].weight /\ i <= k)

\* std::sort by node and std::unique: of a node met twice either weight stays.
filterViaCandidatesByUniqueNodeIds(vias) ==
  LET weights(n) == {v.weight : v \in {x \in ToSet(vias) : x.node = n}}
      nodes == {v.node : v \in ToSet(vias)}
  IN {{[node |-> n, weight |-> pick[n]] : n \in nodes} :
        pick \in {f \in [nodes -> {v.weight : v \in ToSet(vias)}] : \A n \in nodes : f[n] \in weights(n)}}

filterViaCandidatesByStretch(vias, weight, longer_by) ==
  {v \in vias : v.weight * 100 <= (100 + longer_by) * weight}

Parents(heap, node, forward) ==
  LET up[k \in 0..Cardinality(Nodes)] ==
        IF k = 0 THEN [at |-> node, edges |-> <<>>]
        ELSE LET u == up[k - 1]
                 data == Heap!GetData(heap, u.at)
                 edge == IF forward THEN [from |-> data.parent, to |-> u.at, overlay |-> data.from_clique_arc]
                         ELSE [from |-> u.at, to |-> data.parent, overlay |-> data.from_clique_arc]
             IN IF data.parent = u.at THEN u ELSE [at |-> data.parent, edges |-> Append(u.edges, edge)]
  IN up[Cardinality(Nodes)].edges
retrievePackedPathFromHeap(j, node) ==
  Reverse(Parents(j.fheap, node, TRUE)) \o Parents(j.rheap, node, FALSE)
Packed(j, via) == [via |-> via, path |-> retrievePackedPathFromHeap(j, via.node)]

PathNodes(path) == {path[1].from} \cup {path[i].to : i \in DOMAIN path}
filterViaCandidatesByViaNotOnPath(path, vias) ==
  IF path = <<>> THEN vias ELSE SelectSeq(vias, LAMBDA v : v.node \notin PathNodes(path))

LighterVia(v, w) == v.weight < w.weight

\* The first of the ranked candidates is taken to be the shortest path's.
SelectVias ==
  /\ job.phase = "search" /\ ~(Searching /\ job.fmin + job.rmin < overlap_weight(job))
  /\ job.vias # <<>>
  /\ LET best == Lightest(job.vias)
         longer_by == getLongerByFactorBasedOnDuration((best.weight * job.query.unit) \div 10)
     IN \E unique \in filterViaCandidatesByUniqueNodeIds(job.vias) :
          LET kept == filterViaCandidatesByStretch(unique, best.weight, longer_by)
              ranked == StableSort(Ordered(kept, LAMBDA v, w : v.node < w.node), LighterVia)
              shortest == Packed(job, best)
              others == filterViaCandidatesByViaNotOnPath(shortest.path, SubSeq(ranked, 2, Len(ranked)))
          IN job' = [job EXCEPT !.phase = "packed", !.ranked = ranked,
                       !.paths = <<shortest>> \o [i \in DOMAIN others |-> Packed(job, others[i])]]

-----------------------------------------------------------------------------
(* Filters on packed paths.                                                *)

has_plateaux_at_node(node, fst, snd) ==
  LET parent == Heap!GetData(fst, node).parent
  IN Heap!WasInserted(snd, parent) /\ Heap!GetData(snd, parent).parent = node
plateaux_end(node, fst, snd) ==
  LET at[k \in 0..Cardinality(Nodes)] ==
        IF k = 0 THEN node
        ELSE LET n == at[k - 1]
             IN IF n # Heap!GetData(fst, n).parent /\ has_plateaux_at_node(n, fst, snd)
                THEN Heap!GetData(fst, n).parent ELSE n
  IN at[Cardinality(Nodes)]
Mismatch(p, q) == Min({i \in DOMAIN p : i > Len(q) \/ p[i] # q[i]})

is_locally_optimal(j, packed, shortest) ==
  LET via == packed.via.node
      first == plateaux_end(via, j.fheap, j.rheap)
      last == plateaux_end(via, j.rheap, j.fheap)
      plateaux_length == Heap!GetKey(j.fheap, last) - Heap!GetKey(j.fheap, first)
      a == packed.path[Mismatch(packed.path, shortest)].from
      b == Reverse(packed.path)[Mismatch(Reverse(packed.path), Reverse(shortest))].to
      detour_length == Heap!GetKey(j.fheap, via) - Heap!GetKey(j.fheap, a)
                       + Heap!GetKey(j.rheap, via) - Heap!GetKey(j.rheap, b)
  IN packed.path = <<>> \/ plateaux_length * 100 >= j.parameters.optimal * detour_length

filterPackedPathsByLocalOptimality(j) ==
  IF j.paths[1].path = <<>> THEN Tail(j.paths)
  ELSE SelectSeq(Tail(j.paths), LAMBDA p : is_locally_optimal(j, p, j.paths[1].path))

CellsOf(path) == {Graph.cell[n] : n \in PathNodes(path)}
\* One alternative after the other: [kept, cells].
filterPackedPathsByCellSharing(shortest, paths, cells_at_most) ==
  LET different(p, cells) == Cardinality({i \in DOMAIN p : Graph.cell[p[i].from] \notin cells
                                                            /\ Graph.cell[p[i].to] \notin cells})
      over(p, cells) == 100 * (Len(p) + 1 - different(p, cells)) > cells_at_most * (Len(p) + 1)
      step(s, p) == IF p.path = <<>> THEN [s EXCEPT !.kept = Append(@, p)]
                    ELSE IF over(p.path, s.cells) THEN s
                    ELSE [kept |-> Append(s.kept, p), cells |-> s.cells \cup CellsOf(p.path)]
  IN IF cells_at_most >= 100 \/ paths = <<>> \/ shortest = <<>> THEN paths
     ELSE FoldLeft(step, [kept |-> <<>>, cells |-> CellsOf(shortest)], paths).kept

unpackPackedPath(packed) ==
  IF packed.path = <<>> THEN <<packed.via.node>>
  ELSE <<packed.path[1].from>> \o FlattenSeq([i \in DOMAIN packed.path |->
         LET e == packed.path[i] IN IF e.overlay THEN Tail(Graph.inside[<<e.from, e.to>>]) ELSE <<e.to>>])

UnpackPaths ==
  /\ job.phase = "packed"
  /\ LET alternatives == filterPackedPathsByCellSharing(job.paths[1].path, filterPackedPathsByLocalOptimality(job),
                                                        job.parameters.cells)
         count == Min({job.parameters.unpack * job.query.alternatives, Len(alternatives)})
         paths == <<job.paths[1]>> \o SubSeq(alternatives, 1, count)
     IN job' = [job EXCEPT !.phase = "unpacked",
                  !.paths = [i \in DOMAIN paths |-> [weight |-> paths[i].via.weight,
                                                     nodes |-> unpackPackedPath(paths[i])]]]

-----------------------------------------------------------------------------
(* Filters on unpacked paths.                                              *)

DurationOf(nodes) == FoldLeft(LAMBDA x, n : x + Graph.duration[n], 0, nodes)
Seen(nodes, seen) == SelectSeq(nodes, LAMBDA n : n \in seen)

\* An alternative may repeat nodes of the paths kept so far for a share of its duration;
\* the kept ones are ordered by that share.
filterUnpackedPathsBySharing(paths, same) ==
  LET step(s, p) ==
        LET shared == DurationOf(Seen(p.nodes, s.nodes))
            total == DurationOf(p.nodes)
        IN IF Len(p.nodes) = 1 THEN [s EXCEPT !.kept = Append(@, [path |-> p, shared |-> 0, total |-> 1])]
           ELSE IF shared * 100 > same * total THEN s
           ELSE [kept |-> Append(s.kept, [path |-> p, shared |-> shared, total |-> total]),
                 nodes |-> s.nodes \cup ToSet(p.nodes)]
      kept == FoldLeft(step, [kept |-> <<>>, nodes |-> ToSet(paths[1].nodes)], Tail(paths)).kept
      sorted == StableSort(kept, LAMBDA x, y : x.shared * y.total < y.shared * x.total)
  IN IF Len(paths) < 2 \/ Len(paths[1].nodes) = 1 THEN paths
     ELSE <<paths[1]>> \o [i \in DOMAIN sorted |-> sorted[i].path]

Unpacked_All ==
  /\ job.phase = "unpacked"
  /\ job' = [job EXCEPT !.phase = "routes", !.paths = filterUnpackedPathsBySharing(@, job.parameters.same)]
Unpacked ==
  /\ job.phase = "unpacked"
  /\ LET differing == filterUnpackedPathsBySharing(job.paths, job.parameters.same)
     IN job' = [job EXCEPT !.phase = "routes",
                  !.paths = SubSeq(differing, 1, Min({job.query.alternatives + 1, Len(differing)}))]

\* Weights from place to place.
BaseWeight(u, v) == (CHOOSE e \in Graph.base : e[1] = u /\ e[2] = v)[3]
WalkWeight(p) == FoldLeft(LAMBDA x, i : x + BaseWeight(p[i], p[i + 1]), 0, [i \in 1..(Len(p) - 1) |-> i])
OffsetOf(places, node) == (CHOOSE p \in ToSet(places) : p[1] = node)[2]
RouteWeight(q, p) == WalkWeight(p) + OffsetOf(q.targets, Last(p)) - OffsetOf(q.sources, p[1])
\* The duration of an annotated route, in deciseconds: without the part of the target's
\* segment, and never below zero on the first one.
duration(q, p) ==
  IF Len(p) = 1 THEN 0
  ELSE q.unit * (WalkWeight(Tail(p)) + Max({BaseWeight(p[1], p[2]) - OffsetOf(q.sources, p[1]), 0}))

filterAnnotatedRoutesByStretch(q, routes) ==
  LET first == duration(q, routes[1].nodes)
      limit == 100 + getLongerByFactorBasedOnDuration(first)
  IN <<routes[1]>> \o SelectSeq(Tail(routes), LAMBDA r : duration(q, r.nodes) * 100 <= limit * first)

Routes ==
  /\ job.phase = "routes"
  /\ job' = [job EXCEPT !.phase = "done", !.routes = filterAnnotatedRoutesByStretch(job.query, job.paths)]

Init ==
  \E q \in Queries :
    LET fheap == InsertPlaces(Heap!NewHeap(Cardinality(Nodes), 0), q.sources, -1)
        rheap == InsertPlaces(Heap!NewHeap(Cardinality(Nodes), 0), q.targets, 1)
        empty == Heap!Empty(fheap) \/ Heap!Empty(rheap)
    IN job = [service |-> "alternativesMLD", query |-> q, phase |-> "search",
              parameters |-> parametersFromRequest(q.distance),
              fheap |-> IF empty THEN Heap!DeleteAll(fheap) ELSE fheap,
              rheap |-> IF empty THEN Heap!DeleteAll(rheap) ELSE rheap,
              fmin |-> IF empty THEN 0 ELSE Heap!MinKey(fheap), rmin |-> IF empty THEN 0 ELSE Heap!MinKey(rheap),
              overlap |-> INVALID, shortest |-> INVALID, vias |-> <<>>, ranked |-> <<>>, paths |-> <<>>,
              routes |-> <<>>]

Next == makeCandidateVias \/ NoShortestPath \/ SelectVias \/ UnpackPaths \/ Unpacked \/ Routes

Spec == Init /\ [][Next]_job

-----------------------------------------------------------------------------
(* Properties *)

Done == job.service = "alternativesMLD" /\ job.phase = "done"
IsWalk(p) == \A i \in 1..(Len(p) - 1) : \E e \in Graph.base : e[1] = p[i] /\ e[2] = p[i + 1]
Around(node) == Min({INVALID} \cup {e[3] + Graph.best[<<e[2], node>>] : e \in {f \in Graph.base : f[1] = node}})
LeastWeight(q) ==
  LET ends == {<<s, t>> : s \in ToSet(q.sources), t \in ToSet(q.targets)}
      drive(e) == IF e[1][1] = e[2][1] /\ e[2][2] < e[1][2] THEN Around(e[1][1])
                  ELSE Graph.best[<<e[1][1], e[2][1]>>]
  IN Min({INVALID} \cup {drive(e) + e[2][2] - e[1][2] : e \in {x \in ends : drive(x) < INVALID}})

\* The first route is a least one, with overlay arcs unpacked, and there is one whenever
\* the ends are connected; the overlapping searches do not stop before (makeCandidateVias).
MLDPrimaryLeast ==
  Done => IF job.routes = <<>> THEN LeastWeight(job.query) = INVALID
          ELSE /\ IsWalk(job.routes[1].nodes) /\ job.routes[1].weight = LeastWeight(job.query)
               /\ RouteWeight(job.query, job.routes[1].nodes) = LeastWeight(job.query)

\* Every alternative is a road between the ends, its duration within the factor for the
\* seconds the first takes (getLongerByFactorBasedOnDuration), and there are no more of
\* them than asked for.  The code passes deciseconds and so is stricter.
MLDAlternativesSound ==
  Done /\ job.routes # <<>> =>
    /\ Len(job.routes) <= job.query.alternatives + 1
    /\ \A i \in 2..Len(job.routes) :
         LET p == job.routes[i].nodes
             first == duration(job.query, job.routes[1].nodes)
         IN /\ IsWalk(p) /\ p[1] \in {s[1] : s \in ToSet(job.query.sources)}
            /\ Last(p) \in {t[1] : t \in ToSet(job.query.targets)}
            /\ duration(job.query, p) * 100
                 <= first * (100 + getLongerByFactorBasedOnDuration(first \div 10))

\* Of any two routes, one spends at most the allowed share of its duration on nodes of
\* the other, in whatever order they end up (filterUnpackedPathsBySharing sorts after
\* it has compared).
MLDAlternativesDiffer ==
  Done => \A i, k \in DOMAIN job.routes : i < k =>
    LET p == job.routes[i].nodes
        q == job.routes[k].nodes
        differs(x, y) == DurationOf(Seen(x, ToSet(y))) * 100 <= job.parameters.same * DurationOf(x)
    IN p # q /\ (differs(q, p) \/ (i > 1 /\ differs(p, q)))

\* The candidate dropped as the shortest path's (candidate_vias_first + 1) is there and
\* lies on that path, so that no way to an alternative is dropped with it.
ShortestViaFirst ==
  job.service = "alternativesMLD" /\ job.phase = "packed" =>
    LET path == job.paths[1].path
    IN /\ job.ranked # <<>>
       /\ job.ranked[1].node \in (IF path = <<>> THEN {job.paths[1].via.node} ELSE PathNodes(path))

\* The first route is least, and the others are whole routes that differ from each other.
MLDAlternatives ==
  /\ MLDPrimaryLeast
  /\ MLDAlternativesSound
  /\ MLDAlternativesDiffer
  /\ ShortestViaFirst
=============================================================================
