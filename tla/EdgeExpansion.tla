--------------------------- MODULE EdgeExpansion ----------------------------
(* The graph of turn restrictions (src/extractor/restriction_graph.cpp) and  *)
(* the two maps that answer from it (way_restriction_map.cpp,                *)
(* node_restriction_map.hpp).                                                *)
(*                                                                           *)
(* A restriction is [path, only, condition]: path is <<from, via ..., to>>   *)
(* in node-based nodes, and has three elements when the via is a node.  A    *)
(* graph is [nodes, start, via]: a node holds the sequences of its edges and *)
(* restrictions (the ranges of the shared vectors), start and via map a      *)
(* node-based edge to its start node and to its via nodes.                   *)
EXTENDS Integers, Sequences, FiniteSets, Algorithms, SequencesExt

From(r) == r.path[1]

To(r) == r.path[Len(r.path)]

Vias(r) == SubSeq(r.path, 2, Len(r.path) - 1)

IsUnconditional(r) == r.condition = "none"

IsTurnRestricted(r, to) == IF r.only THEN To(r) # to ELSE To(r) = to

EmptyRestrictionGraph == [nodes |-> << >>, start |-> << >>, via |-> {}]

-----------------------------------------------------------------------------
GetEdges(rg, id) == rg.nodes[id].edges

GetRestrictions(rg, id) == rg.nodes[id].restrictions

insertEdge(rg, id, edge) == [rg EXCEPT !.nodes[id].edges = Append(@, edge)]

insertRestriction(rg, id, r) == [rg EXCEPT !.nodes[id].restrictions = Append(@, r)]

NewNode == [edges |-> << >>, restrictions |-> << >>]

getOrInsertStartNode(rg, from, to) ==
  IF <<from, to>> \in DOMAIN rg.start THEN rg
  ELSE [rg EXCEPT !.nodes = Append(@, NewNode),
                  !.start = [e \in DOMAIN @ \cup {<<from, to>>} |->
                               IF e = <<from, to>> THEN Len(rg.nodes) + 1 ELSE @[e]]]

insertViaNode(rg, from, to) ==
  [rg EXCEPT !.nodes = Append(@, NewNode),
             !.via = @ \cup {[edge |-> <<from, to>>, id |-> Len(rg.nodes) + 1]}]

\* The first edge of a node that leads to a node-based node, if there is one.
EdgesTo(edges, to) == {i \in DOMAIN edges : edges[i].to = to}

FirstEdgeTo(edges, to) ==
  edges[CHOOSE i \in EdgesTo(edges, to) : \A j \in EdgesTo(edges, to) : i <= j]

-----------------------------------------------------------------------------
(* pathBuilder: the prefix tree of the restriction paths.                    *)
PathNext(b, leg) ==
  LET edges == GetEdges(b.rg, b.cur)
      fresh == Len(b.rg.nodes) + 1
  IN IF EdgesTo(edges, leg[2]) # {}
     THEN [b EXCEPT !.cur = FirstEdgeTo(edges, leg[2]).target]
     ELSE [b EXCEPT !.rg = insertEdge(insertViaNode(b.rg, leg[1], leg[2]), b.cur,
                                      [to |-> leg[2], target |-> fresh, transfer |-> FALSE]),
                    !.cur = fresh]

\* The legs of the via path of a restriction, none when the via is a node.
ViaLegs(r) == [i \in 1..(Len(Vias(r)) - 1) |-> <<Vias(r)[i], Vias(r)[i + 1]>>]

Started(rg, r) ==
  LET started == getOrInsertStartNode(rg, From(r), Vias(r)[1])
  IN [rg |-> started, cur |-> started.start[<<From(r), Vias(r)[1]>>], suffixes |-> << >>]

pathBuilder(rg, r) ==
  LET walked == InTurn(PathNext, Started(rg, r), ViaLegs(r))
  IN insertRestriction(walked.rg, walked.cur, r)

-----------------------------------------------------------------------------
(* transferBuilder: edges between overlapping restriction paths.             *)
next_suffixes(b, leg) ==
  LET along(i) == {e \in {GetEdges(b.rg, b.suffixes[i])[j] :
                            j \in DOMAIN GetEdges(b.rg, b.suffixes[i])} :
                     e.to = leg[2] /\ ~e.transfer}
      kept == SelectSeq([i \in DOMAIN b.suffixes |->
                           IF along(i) = {} THEN 0 ELSE (CHOOSE e \in along(i) : TRUE).target],
                        LAMBDA id : id # 0)
  IN IF leg \in DOMAIN b.rg.start THEN Append(kept, b.rg.start[leg]) ELSE kept

\* Whether a turn off the current node may move to a suffix path: no
\* unconditional restriction forbids it and no edge leads there yet.
CanTransfer(rg, cur, to) ==
  /\ \A i \in DOMAIN GetRestrictions(rg, cur) :
        LET r == GetRestrictions(rg, cur)[i]
        IN ~(IsTurnRestricted(r, to) /\ IsUnconditional(r))
  /\ EdgesTo(GetEdges(rg, cur), to) = {}

add_suffix_transfer(b, suffix) ==
  InTurn(LAMBDA c, e : IF e.transfer \/ ~CanTransfer(c.rg, c.cur, e.to) THEN c
                       ELSE [c EXCEPT !.rg = insertEdge(@, c.cur,
                               [to |-> e.to, target |-> e.target, transfer |-> TRUE])],
         b, GetEdges(b.rg, suffix))

\* The restrictions of the suffix paths are not repeated on the longer path.
CopyRestrictions_None(b, suffix) == b

\* The restrictions of a suffix path also hold at the end of the longer path.
CopyRestrictions(b, suffix) ==
  InTurn(LAMBDA c, r : [c EXCEPT !.rg = insertRestriction(@, c.cur, r)],
         b, GetRestrictions(b.rg, suffix))

TransferNext(b, leg) ==
  LET moved == [b EXCEPT !.cur = FirstEdgeTo(GetEdges(b.rg, b.cur), leg[2]).target]
      suffixed == [moved EXCEPT !.suffixes = next_suffixes(b, leg)]
      linked == InTurn(add_suffix_transfer, suffixed, suffixed.suffixes)
  IN InTurn(CopyRestrictions, linked, suffixed.suffixes)

transferBuilder(rg, r) == InTurn(TransferNext, Started(rg, r), ViaLegs(r)).rg

-----------------------------------------------------------------------------
\* The via nodes come first; std::partition may leave each part in any
\* order, and the order is only a naming of the duplicated nodes.
Reordered(rg) ==
  LET vias == {v.id : v \in rg.via}
      place == [i \in DOMAIN rg.nodes |->
                  IF i \in vias THEN Cardinality({v \in vias : v <= i})
                  ELSE Cardinality(vias) + Cardinality({j \in DOMAIN rg.nodes \ vias : j <= i})]
      at(k) == CHOOSE i \in DOMAIN rg.nodes : place[i] = k
      moved(n) == [n EXCEPT !.edges = [j \in DOMAIN @ |-> [@[j] EXCEPT !.target = place[@]]]]
  IN [nodes |-> [k \in DOMAIN rg.nodes |-> moved(rg.nodes[at(k)])],
      start |-> [e \in DOMAIN rg.start |-> place[rg.start[e]]],
      via |-> {[v EXCEPT !.id = place[@]] : v \in rg.via}]

constructRestrictionGraph(restrictions) ==
  LET paths == InTurn(pathBuilder, EmptyRestrictionGraph, restrictions)
  IN Value(Reordered(InTurn(transferBuilder, paths, restrictions)))

-----------------------------------------------------------------------------
(* WayRestrictionMap and NodeRestrictionMap.                                 *)
NumberOfDuplicatedNodes(rg) == Cardinality(rg.via)

DuplicatedNodeIDs(rg, from, to) == {v.id : v \in {w \in rg.via : w.edge = <<from, to>>}}

DuplicatedViaEdges(rg) ==
  [k \in 1..NumberOfDuplicatedNodes(rg) |-> (CHOOSE v \in rg.via : v.id = k).edge]

\* The restrictions of a duplicated node that a turn breaks.
WayRestrictions(rg, duplicated, to) ==
  SelectSeq(GetRestrictions(rg, duplicated), LAMBDA r : IsTurnRestricted(r, to))

\* Where an edge of the restriction graph leads a turn, edge-based nodes being
\* 1 .. total with the duplicated nodes last.
Remapped(rg, edges, node, to, total) ==
  IF EdgesTo(edges, to) = {} THEN node
  ELSE total - NumberOfDuplicatedNodes(rg) + FirstEdgeTo(edges, to).target

RemapIfRestrictionStart(rg, node, from, via, to, total) ==
  IF <<from, via>> \in DOMAIN rg.start
  THEN Remapped(rg, GetEdges(rg, rg.start[<<from, via>>]), node, to, total) ELSE node

RemapIfRestrictionVia(rg, node, via_node, to, total) ==
  Remapped(rg, GetEdges(rg, via_node + NumberOfDuplicatedNodes(rg) - total), node, to, total)

NodeRestrictions(rg, from, via) ==
  IF <<from, via>> \in DOMAIN rg.start THEN GetRestrictions(rg, rg.start[<<from, via>>]) ELSE << >>

-----------------------------------------------------------------------------
(* The node-based graph and its compression: node_based_graph.hpp,           *)
(* graph_compressor.cpp, turn_path_compressor.cpp, turn_path_filter.cpp,     *)
(* compressed_edge_container.cpp and node_based_graph_factory.cpp.           *)
(*                                                                           *)
(* A graph is [rows, target, data]: rows[v] is the sequence of the ids of    *)
(* the edges that leave v, an id being the slot the edge was built in.  A    *)
(* geometry maps an edge id to its bucket, a sequence of [node, weight,      *)
(* duration] from the first node after the source to the target.             *)

CONSTANTS SignalPenalty, UturnPenalty    \* what the profile asks for a turn

\* The turn function of the profile; penalties are in the units of weights and
\* in deciseconds.
ProcessTurn(signal, uturn) ==
  LET asked == (IF signal THEN SignalPenalty ELSE 0) + (IF uturn THEN UturnPenalty ELSE 0)
  IN [weight |-> asked, duration |-> 2 * asked]

SpecialEdge == 0

\* directedEdgesFromCompressed: both directions of every edge, unless the
\* other direction has an edge of its own.
directedEdgesFromCompressed(edges) ==
  LET data(e, reversed) == [weight |-> e.weight, duration |-> e.duration,
                            distance |-> e.distance, reversed |-> reversed,
                            flags |-> <<e.forward, e.backward, e.split, e.class>>,
                            annotation |-> e.annotation]
      both(e) == <<[source |-> e.source, target |-> e.target, data |-> data(e, FALSE)]>> \o
                 IF e.split THEN << >>
                 ELSE <<[source |-> e.target, target |-> e.source, data |-> data(e, ~e.backward)]>>
  IN FlattenSeq([i \in DOMAIN edges |-> both(edges[i])])

NodeBasedDynamicGraphFromEdges(nodes, edges) ==
  LET sorted == Value(StableSort(directedEdgesFromCompressed(edges), LAMBDA a, b :
                        a.source < b.source \/ (a.source = b.source /\ a.target < b.target)))
  IN Value([rows |-> [v \in 1..nodes |->
                        SelectSeq([i \in DOMAIN sorted |-> i], LAMBDA i : sorted[i].source = v)],
            target |-> [i \in DOMAIN sorted |-> sorted[i].target],
            data |-> [i \in DOMAIN sorted |-> sorted[i].data]])

Adjacent(g, v) == {g.rows[v][i] : i \in DOMAIN g.rows[v]}

\* The first edge of a node's row that leads to another.
FindEdge(g, from, to) ==
  LET found == SelectSeq(g.rows[from], LAMBDA e : g.target[e] = to)
  IN IF found = << >> THEN SpecialEdge ELSE Head(found)

-----------------------------------------------------------------------------
(* CompressedEdgeContainer.                                                  *)
WithBucket(geometry, e, bucket) ==
  [x \in DOMAIN geometry \cup {e} |-> IF x = e THEN bucket ELSE geometry[x]]

NoPenalty == [weight |-> -1, duration |-> -1]

\* The two edges as a pair of buckets; p is the penalty of the node between.
CompressEdge(geometry, e1, e2, via, target, d1, d2, p) ==
  LET first == IF e1 \in DOMAIN geometry THEN geometry[e1]
               ELSE <<[node |-> via, weight |-> d1.weight, duration |-> d1.duration]>>
      penalty == IF p = NoPenalty THEN << >>
                 ELSE <<[node |-> via, weight |-> p.weight, duration |-> p.duration]>>
      second == IF e2 \in DOMAIN geometry THEN geometry[e2]
                ELSE <<[node |-> target, weight |-> d2.weight, duration |-> d2.duration]>>
      joined == WithBucket(geometry, e1, first \o penalty \o second)
  IN [e \in (DOMAIN joined) \ {e2} |-> joined[e]]

AddUncompressedEdge(geometry, e, target, d) ==
  IF e \in DOMAIN geometry THEN geometry
  ELSE WithBucket(geometry, e, <<[node |-> target, weight |-> d.weight, duration |-> d.duration]>>)

IsTrivial(geometry, e) == Len(geometry[e]) = 1

GetFirstEdgeTargetID(geometry, e) == geometry[e][1].node

GetLastEdgeSourceID(geometry, e) == geometry[e][Len(geometry[e]) - 1].node

\* The buckets of two opposite edges as one list of nodes with the values
\* towards and from each.
ZipEdges(geometry, f, r) ==
  LET forward == geometry[f]
      reverse == geometry[r]
      n == Len(forward)
  IN [i \in 1..(n + 1) |->
        [node |-> IF i = 1 THEN reverse[Len(reverse)].node ELSE forward[i - 1].node,
         forward |-> IF i = 1 THEN NoPenalty
                     ELSE [weight |-> forward[i - 1].weight, duration |-> forward[i - 1].duration],
         reverse |-> IF i = n + 1 THEN NoPenalty
                     ELSE [weight |-> reverse[Len(reverse) + 1 - i].weight,
                           duration |-> reverse[Len(reverse) + 1 - i].duration]]]

-----------------------------------------------------------------------------
(* TurnPathCompressor.                                                       *)
\* A path that starts or ends at the compressed node starts or ends at its
\* other neighbour; inside a via path of several nodes the node is dropped.
CompressPath(path, from, via, to) ==
  LET other(x) == IF x = to THEN from ELSE to
      n == Len(path)
      inner == IF n = 3 THEN <<path[2]>> ELSE SelectSeq(SubSeq(path, 2, n - 1), LAMBDA x : x # via)
  IN <<IF path[1] = via THEN other(path[2]) ELSE path[1]>> \o inner \o
     <<IF path[n] = via THEN (IF path[n - 1] = from THEN to ELSE from) ELSE path[n]>>

CompressPaths(relations, from, via, to) ==
  [i \in DOMAIN relations |->
     [relations[i] EXCEPT !.path = CompressPath(@, from, via, to)]]

\* removeInvalidTurnPaths: every leg is an edge open in its direction.
ValidTurnPath(g, path) ==
  \A i \in 1..(Len(path) - 1) :
     LET e == FindEdge(g, path[i], path[i + 1])
     IN e # SpecialEdge /\ ~g.data[e].reversed

removeInvalidTurnPaths(relations, g) ==
  SelectSeq(relations, LAMBDA r : ValidTurnPath(g, r.path))

-----------------------------------------------------------------------------
(* GraphCompressor::Compress.  The state of the loop is [graph, geometry,    *)
(* restrictions, maneuvers]; data is the prepared data of the extraction.    *)
incompressible_via_nodes(data) ==
  UNION {{r.path[2], r.path[Len(r.path) - 1]} :
           r \in {data.restrictions[i] : i \in DOMAIN data.restrictions}}
  \cup {data.maneuvers[i].instruction : i \in DOMAIN data.maneuvers}

HasSignal(signals, from, to) == to \in signals.both \/ <<from, to>> \in signals.segments

CanCombineWith(a, b) ==
  a.name = b.name /\ a.classes = b.classes /\ a.mode = b.mode

\* The edges around a node of degree two.
Around(g, v) ==
  LET row == g.rows[v]
      order == g.data[row[1]].reversed
      forward_e2 == IF order THEN row[2] ELSE row[1]
      reverse_e2 == IF order THEN row[1] ELSE row[2]
      w == g.target[forward_e2]
      u == g.target[reverse_e2]
  IN [u |-> u, w |-> w, forward_e1 |-> FindEdge(g, u, v), forward_e2 |-> forward_e2,
      reverse_e1 |-> FindEdge(g, w, v), reverse_e2 |-> reverse_e2]

Compatible(g, annotations, e1, e2) ==
  /\ g.data[e1].flags = g.data[e2].flags
  /\ g.data[e1].reversed = g.data[e2].reversed
  /\ CanCombineWith(annotations[g.data[e1].annotation], annotations[g.data[e2].annotation])

SameName(g, annotations, e1, e2) ==
  annotations[g.data[e1].annotation].name = annotations[g.data[e2].annotation].name

Compressible(g, data, v) ==
  /\ Len(g.rows[v]) = 2 /\ v \notin data.barriers /\ v \notin incompressible_via_nodes(data)
  /\ LET a == Around(g, v)
     IN /\ FindEdge(g, a.u, a.w) = SpecialEdge /\ FindEdge(g, a.w, a.u) = SpecialEdge
        /\ SameName(g, data.annotations, a.forward_e1, a.reverse_e1)
        /\ SameName(g, data.annotations, a.forward_e2, a.reverse_e2)
        /\ Compatible(g, data.annotations, a.forward_e1, a.forward_e2)
        /\ Compatible(g, data.annotations, a.reverse_e1, a.reverse_e2)

\* The annotation nearer the end counts, unless it has no lanes.
selectAnnotation(annotations, front, back) ==
  IF annotations[back].lanes = -1 THEN front ELSE back

\* The first edge takes over the second.
apply_e2_to_e1(annotations, d1, d2, p) ==
  LET extra == IF p = NoPenalty THEN [weight |-> 0, duration |-> 0] ELSE p
  IN [d1 EXCEPT !.weight = @ + d2.weight + extra.weight,
                !.duration = @ + d2.duration + extra.duration,
                !.distance = @ + d2.distance,
                !.annotation = selectAnnotation(annotations, @, d2.annotation)]

\* Opposite geometries have equal lengths: a penalty on one side is matched by
\* an empty one on the other.
set_dummy_penalty(p, other) ==
  IF p = NoPenalty /\ other # NoPenalty THEN [weight |-> 0, duration |-> 0] ELSE p

\* Joining the edges at v.
CompressNode(s, data, v) ==
  LET g == s.graph
      a == Around(g, v)
      penalty(from) == IF HasSignal(data.signals, from, v) THEN ProcessTurn(TRUE, FALSE) ELSE NoPenalty
      fp == penalty(a.u)
      rp == penalty(a.w)
      d(e) == g.data[e]
      graph == [rows |-> [g.rows EXCEPT ![v] = << >>],
                target |-> [g.target EXCEPT ![a.forward_e1] = a.w, ![a.reverse_e1] = a.u],
                data |-> [g.data EXCEPT
                  ![a.forward_e1] = apply_e2_to_e1(data.annotations, @, d(a.forward_e2), fp),
                  ![a.reverse_e1] = apply_e2_to_e1(data.annotations, @, d(a.reverse_e2), rp)]]
      forwards == CompressEdge(s.geometry, a.forward_e1, a.forward_e2, v, a.w,
                               d(a.forward_e1), d(a.forward_e2), set_dummy_penalty(fp, rp))
      both == CompressEdge(forwards, a.reverse_e1, a.reverse_e2, v, a.u,
                           d(a.reverse_e1), d(a.reverse_e2), set_dummy_penalty(rp, fp))
  IN [graph |-> graph, geometry |-> both,
      restrictions |-> CompressPaths(s.restrictions, a.u, v, a.w),
      maneuvers |-> CompressPaths(s.maneuvers, a.u, v, a.w)]

CompressAt(s, data, v) == IF Compressible(s.graph, data, v) THEN CompressNode(s, data, v) ELSE s

\* Every edge left gets a bucket, if it has none yet.
AddUncompressedEdges(s) ==
  LET left == UNION {Adjacent(s.graph, v) : v \in DOMAIN s.graph.rows}
  IN [s EXCEPT !.geometry = [e \in left |->
        AddUncompressedEdge(@, e, s.graph.target[e], s.graph.data[e])[e]]]

\* CompressGeometry: one list for every pair of opposite edges, in the order
\* of the nodes, and for every edge its list and whether it runs along it.
CompressGeometry(s) ==
  LET g == s.graph
      pairs == FlattenSeq([u \in DOMAIN g.rows |-> SelectSeq(g.rows[u], LAMBDA e : u < g.target[e])])
      source(e) == CHOOSE u \in DOMAIN g.rows : e \in Adjacent(g, u)
      forward(e) == IF g.data[e].reversed THEN FindEdge(g, g.target[e], source(e)) ELSE e
      reverse(e) == IF g.data[e].reversed THEN e ELSE FindEdge(g, g.target[e], source(e))
  IN [lists |-> [k \in DOMAIN pairs |-> ZipEdges(s.geometry, forward(pairs[k]), reverse(pairs[k]))],
      of |-> [e \in DOMAIN s.geometry |->
                CHOOSE x \in (DOMAIN pairs) \X BOOLEAN :
                   e = IF x[2] THEN forward(pairs[x[1]]) ELSE reverse(pairs[x[1]])]]

\* NodeBasedEdgeAnnotation::operator<: name, lanes (no lanes last), the classes
\* as a bit mask, mode.
AnnotationLess(a, b) ==
  LET lanes == a.lanes # b.lanes /\ a.lanes # -1 /\ (b.lanes = -1 \/ a.lanes < b.lanes)
      classes == \E c \in b.classes \ a.classes : \A d \in a.classes \ b.classes : d < c
  IN \/ a.name < b.name
     \/ a.name = b.name /\ lanes
     \/ a.name = b.name /\ a.lanes = b.lanes /\ classes
     \/ a.name = b.name /\ a.lanes = b.lanes /\ a.classes = b.classes /\ a.mode < b.mode

\* CompressAnnotationData: every annotation in use once, in order, and the
\* edges pointing at them.
CompressAnnotationData(g, annotations) ==
  LET used == {annotations[g.data[e].annotation] :
                 e \in UNION {Adjacent(g, v) : v \in DOMAIN g.rows}}
      ordered == Value(Ordered(used, AnnotationLess))
      place(a) == CHOOSE i \in DOMAIN ordered : ordered[i] = a
  IN [annotations |-> ordered,
      graph |-> [g EXCEPT !.data = [e \in DOMAIN @ |->
         IF annotations[@[e].annotation] \notin used THEN @[e]
         ELSE [@[e] EXCEPT !.annotation = place(annotations[@])]]]]

-----------------------------------------------------------------------------
(* From the compressed node-based graph to the edge-based graph:             *)
(* edge_based_graph_factory.cpp, and from intersection_analysis.cpp which    *)
(* turns there are.                                                          *)
(*                                                                           *)
(* Everything is read from x = [graph, geometry, signals, barriers, rg,      *)
(* annotations, maneuvers, used, lanes]; edge-based nodes are numbered from  *)
(* 1, and Special stands for SPECIAL_NODEID and the disabled segment id.     *)

CONSTANT Bearing(_, _)       \* degrees from one OSM node towards another

NoNode == 0

Source(g, e) == CHOOSE u \in DOMAIN g.rows : e \in Adjacent(g, u)

\* The edges that enter a node, by the order of the nodes they come from, and
\* those that leave it or could be entered from the other end.
getIncomingEdges(g, v) ==
  LET from == {u \in {g.target[e] : e \in Adjacent(g, v)} : ~g.data[FindEdge(g, u, v)].reversed}
      ordered == Ordered(from, LAMBDA a, b : a < b)
  IN [i \in DOMAIN ordered |-> [node |-> ordered[i], edge |-> FindEdge(g, ordered[i], v)]]

getOutgoingEdges(g, v) == [i \in DOMAIN g.rows[v] |-> [node |-> v, edge |-> g.rows[v][i]]]

-----------------------------------------------------------------------------
(* isTurnAllowed.                                                            *)
angleBetween(entry, exit) == (entry - exit + 540) % 360

\* The bearing of an edge where it leaves an intersection.
LeavingBearing(x, v, e) == Bearing(x.used[v], x.used[GetFirstEdgeTargetID(x.geometry, e)])

Unconditional(x, from, via) == SelectSeq(NodeRestrictions(x.rg, from, via), IsUnconditional)

Restricted(restrictions, to) ==
  \E i \in DOMAIN restrictions : IsTurnRestricted(restrictions[i], to)

HasUturnLane(x, e) ==
  LET lanes == x.annotations[x.graph.data[e].annotation].lanes
  IN lanes # -1 /\ x.lanes[lanes] = "uturn"

UturnAllowed(x, from, v) ==
  LET g == x.graph
      exits == {e \in Adjacent(g, v) : ~g.data[e].reversed
                                       /\ ~Restricted(Unconditional(x, from.node, v), g.target[e])}
      bidirectional == {e \in Adjacent(g, v) : ~g.data[FindEdge(g, g.target[e], v)].reversed}
  IN \/ v \in x.barriers
     \/ Cardinality(Adjacent(g, v)) = 1
     \/ Cardinality(exits) = 1
     \/ Cardinality(bidirectional) <= 1
     \/ HasUturnLane(x, from.edge)

\* The roundabout edges at a node, in the direction of the flow or against
\* it, and the one that lies at the largest angle from the way in.
OnRoundabout(g, v, against) ==
  {e \in Adjacent(g, v) : g.data[e].flags[4].roundabout /\ g.data[e].reversed = against}

Widest(angle) ==
  LET open == {e \in DOMAIN angle : angle[e] > 0}
  IN IF open = {} THEN SpecialEdge
     ELSE CHOOSE e \in open : \A f \in open : angle[f] < angle[e] \/ (angle[f] = angle[e] /\ e <= f)

\* Leaving a roundabout against its flow.
AgainstRoundabout(x, from, v, to) ==
  LET g == x.graph
      back == LeavingBearing(x, v, FindEdge(g, v, from.node))
      into(e) == (LeavingBearing(x, v, e) + 180) % 360
      entry == Widest([e \in OnRoundabout(g, v, TRUE) |-> angleBetween(into(e), back)])
      exit == Widest([e \in OnRoundabout(g, v, FALSE) |-> angleBetween(back, LeavingBearing(x, v, e))])
      flow == angleBetween(into(entry), LeavingBearing(x, v, exit))
      turn_from == angleBetween(into(entry), back)
      turn_to == angleBetween(into(entry), LeavingBearing(x, v, to))
  IN /\ entry # SpecialEdge /\ exit # SpecialEdge
     /\ \/ turn_from < flow /\ turn_to < turn_from
        \/ turn_from > flow /\ turn_to > turn_from

\* Whether one may turn from an edge into v onto an edge out of it.
isTurnAllowed(x, from, v, to) ==
  LET g == x.graph
  IN /\ ~g.data[from.edge].reversed /\ ~g.data[to].reversed
     /\ ~Restricted(Unconditional(x, from.node, v), g.target[to])
     /\ IF from.node = g.target[to] THEN UturnAllowed(x, from, v)
        ELSE v \notin x.barriers /\ ~AgainstRoundabout(x, from, v, to)

-----------------------------------------------------------------------------
(* The edge-based nodes.                                                     *)
\* LabelEdgeBasedNodes: a number for every edge open in its direction.
LabelEdgeBasedNodes(g) ==
  LET open == SelectSeq(FlattenSeq(g.rows), LAMBDA e : ~g.data[e].reversed)
  IN [e \in DOMAIN g.target |->
        IF \E i \in DOMAIN open : open[i] = e THEN CHOOSE i \in DOMAIN open : open[i] = e
        ELSE NoNode]

LabelCount(labels) == Cardinality({e \in DOMAIN labels : labels[e] # NoNode})

\* The pieces of an edge between two coordinates, penalties left out; a piece
\* knows the edge-based nodes of both directions and its place in the bucket.
SegmentsOf(x, source, e, forward, reverse, startpoint) ==
  LET bucket == x.geometry[e]
      before(i) == IF i = 1 THEN source ELSE bucket[i - 1].node
      pieces == [i \in DOMAIN bucket |->
                   [forward |-> forward, reverse |-> reverse, u |-> before(i), v |-> bucket[i].node,
                    position |-> i - 1, startpoint |-> startpoint]]
  IN SelectSeq(pieces, LAMBDA p : p.u # p.v)

\* InsertEdgeBasedNode: both directions of a road, the first of which is open.
InsertEdgeBasedNode(x, labels, u, v) ==
  LET g == x.graph
      e1 == FindEdge(g, u, v)
      e2 == FindEdge(g, v, u)
  IN [mapping |-> <<u, v, labels[e1], labels[e2]>>,
      oneway |-> IF labels[e2] = NoNode THEN {labels[e1]} ELSE {},
      segments |-> SegmentsOf(x, u, e1, labels[e1], labels[e2],
                              g.data[e1].flags[4].startpoint \/ g.data[e2].flags[4].startpoint)]

\* A copy of the node of an edge on the via path of a restriction.
DuplicatedNode(x, labels, id, edge) ==
  LET e == FindEdge(x.graph, edge[1], edge[2])
  IN [mapping |-> <<edge[1], edge[2], id, NoNode>>, like |-> labels[e], oneway |-> {labels[e]},
      segments |-> SegmentsOf(x, edge[1], e, id, NoNode, x.graph.data[e].flags[4].startpoint)]

\* GenerateEdgeExpandedNodes: what is known of every edge-based node, the
\* mapping from node pairs to nodes, and the segments to snap to.
GenerateEdgeExpandedNodes(x, labels) ==
  LET g == x.graph
      count == LabelCount(labels)
      pairs == FlattenSeq([u \in DOMAIN g.rows |-> SelectSeq(g.rows[u], LAMBDA e : u < g.target[e])])
      road(e) == IF labels[e] = NoNode THEN InsertEdgeBasedNode(x, labels, g.target[e], Source(g, e))
                 ELSE InsertEdgeBasedNode(x, labels, Source(g, e), g.target[e])
      roads == Value([k \in DOMAIN pairs |-> road(pairs[k])])
      oneway == UNION {roads[k].oneway : k \in DOMAIN roads}
      vias == DuplicatedViaEdges(x.rg)
      copies == Value([k \in DOMAIN vias |-> DuplicatedNode(x, labels, count + k, vias[k])])
      edge_of(id) == CHOOSE e \in DOMAIN labels : labels[e] = IF id <= count THEN id
                                                              ELSE copies[id - count].like
      node(id) == [edge |-> edge_of(id), weight |-> g.data[edge_of(id)].weight,
                   duration |-> g.data[edge_of(id)].duration,
                   distance |-> g.data[edge_of(id)].distance,
                   annotation |-> g.data[edge_of(id)].annotation,
                   oneway |-> IF id <= count THEN id \in oneway
                              ELSE copies[id - count].oneway \cap oneway # {}]
      all == roads \o copies
  IN [nodes |-> [id \in 1..(count + Len(copies)) |-> node(id)],
      mapping |-> [k \in DOMAIN all |-> all[k].mapping],
      segments |-> FlattenSeq([k \in DOMAIN all |-> all[k].segments])]

-----------------------------------------------------------------------------
(* The edge-based edges.                                                     *)
\* The angle of a turn; no angle is what the profile hears of as a u-turn,
\* whichever road the turn leads to.
TurnAngle(x, entering, v, leaving) ==
  angleBetween((LeavingBearing(x, v, FindEdge(x.graph, v, entering.node)) + 180) % 360,
               LeavingBearing(x, v, leaving))

\* generate_edge: from and to are edge-based nodes, entering and leaving the
\* node-based edges, v the node between them.
generate_edge(x, from, to, entering, v, leaving) ==
  LET d == x.graph.data[entering.edge]
      from_node == IF IsTrivial(x.geometry, entering.edge) THEN entering.node
                   ELSE GetLastEdgeSourceID(x.geometry, entering.edge)
      penalty == ProcessTurn(HasSignal(x.signals, from_node, v),
                             TurnAngle(x, entering, v, leaving) = 0)
  IN [source |-> from, target |-> to,
      weight |-> d.weight + penalty.weight, duration |-> d.duration + penalty.duration,
      distance |-> d.distance, penalty |-> penalty,
      index |-> <<from_node, v, GetFirstEdgeTargetID(x.geometry, leaving)>>]

NoBuffer == [continuous |-> << >>, delayed |-> << >>, conditionals |-> << >>, turns |-> << >>]

MergeBuffers(a, b) ==
  [continuous |-> a.continuous \o b.continuous, delayed |-> a.delayed \o b.delayed,
   conditionals |-> a.conditionals \o b.conditionals, turns |-> a.turns \o b.turns]

Conditionals(restrictions, from, to) ==
  [i \in DOMAIN restrictions |-> [from |-> from, to |-> to, condition |-> restrictions[i].condition]]

NodeBasedTurns(m) == {<<m.path[i], m.path[i + 1], m.path[i + 2]>> : i \in 1..(Len(m.path) - 2)}

\* Which turns some maneuver override takes.
IsManeuverTurn(x, turn) ==
  \E i \in DOMAIN x.maneuvers : turn \in NodeBasedTurns(x.maneuvers[i])

\* The turn from the nodes of the edges themselves.
OrdinaryTurn(x, labels, total, from, v, to) ==
  LET dest == x.graph.target[to]
      source_id == labels[from.edge]
      target_id == RemapIfRestrictionStart(x.rg, labels[to], from.node, v, dest, total)
      conditional == SelectSeq(NodeRestrictions(x.rg, from.node, v),
                       LAMBDA r : ~IsUnconditional(r) /\ IsTurnRestricted(r, dest))
  IN [continuous |-> <<generate_edge(x, source_id, target_id, from, v, to)>>,
      delayed |-> << >>,
      conditionals |-> Conditionals(conditional, source_id, target_id),
      turns |-> IF IsManeuverTurn(x, <<from.node, v, dest>>)
                THEN <<[turn |-> <<from.node, v, dest>>, from |-> source_id, to |-> target_id]>>
                ELSE << >>]

\* The same turn from one of the copies of the edge it leaves.
DuplicatedTurn(x, labels, total, from, v, to, duplicated) ==
  LET dest == x.graph.target[to]
      from_id == total - NumberOfDuplicatedNodes(x.rg) + duplicated
      restrictions == WayRestrictions(x.rg, duplicated, dest)
      target_id == RemapIfRestrictionVia(x.rg, labels[to], from_id, dest, total)
  IN IF \E i \in DOMAIN restrictions : IsUnconditional(restrictions[i]) THEN NoBuffer
     ELSE [continuous |-> << >>,
           delayed |-> <<generate_edge(x, from_id, target_id, from, v, to)>>,
           conditionals |-> Conditionals(restrictions, from_id, target_id),
           turns |-> IF IsManeuverTurn(x, <<from.node, v, dest>>)
                     THEN <<[turn |-> <<from.node, v, dest>>, from |-> from_id, to |-> target_id]>>
                     ELSE << >>]

ProcessTurnAt(x, labels, total, from, v, to) ==
  LET copies == Ordered(DuplicatedNodeIDs(x.rg, from.node, v), LAMBDA a, b : a < b)
  IN IF ~isTurnAllowed(x, from, v, to) THEN NoBuffer
     ELSE FoldLeft(MergeBuffers, OrdinaryTurn(x, labels, total, from, v, to),
                   [k \in DOMAIN copies |->
                      DuplicatedTurn(x, labels, total, from, v, to, copies[k])])

\* One intersection of the processor stage.
ProcessIntersection(x, labels, total, v) ==
  LET incoming == Value(getIncomingEdges(x.graph, v))
      outgoing == getOutgoingEdges(x.graph, v)
      turns == FlattenSeq([i \in DOMAIN incoming |-> [j \in DOMAIN outgoing |->
                 ProcessTurnAt(x, labels, total, incoming[i], v, outgoing[j].edge)]])
  IN Value(FoldLeft(MergeBuffers, NoBuffer, turns))

\* After the pipeline: the delayed edges go last and every edge gets its
\* place as turn id.
EdgeBasedEdges(buffer) ==
  LET all == buffer.continuous \o buffer.delayed
  IN [k \in DOMAIN all |->
        [source |-> all[k].source, target |-> all[k].target, weight |-> all[k].weight,
         duration |-> all[k].duration, distance |-> all[k].distance, turn_id |-> k,
         penalty |-> all[k].penalty, index |-> all[k].index]]

\* IndexConditionals: every edge collects the conditions of its pair of nodes.
IndexConditionals(edges, conditionals) ==
  FlattenSeq([k \in DOMAIN edges |->
    LET own == SelectSeq(conditionals, LAMBDA c : c.from = edges[k].source /\ c.to = edges[k].target)
    IN [i \in DOMAIN own |-> [turn |-> k, condition |-> own[i].condition]]])

\* The sequences of edge-based nodes of a maneuver: every first turn, then for
\* each the first turn known that continues it.
NodeSequences(m, turns) ==
  LET legs == [i \in 1..(Len(m.path) - 2) |-> <<m.path[i], m.path[i + 1], m.path[i + 2]>>]
      known(leg) == SelectSeq(turns, LAMBDA t : t.turn = leg)
      first == [i \in DOMAIN known(legs[1]) |-> <<known(legs[1])[i].from, known(legs[1])[i].to>>]
      next(sequences, leg) ==
        LET after(s) == SelectSeq(known(leg), LAMBDA t : t.from = s[Len(s)])
            kept == SelectSeq(sequences, LAMBDA s : after(s) # << >>)
        IN [i \in DOMAIN kept |-> Append(kept[i], after(kept[i])[1].to)]
  IN FoldLeft(next, first, Tail(legs))

\* The overrides as they are stored, by their first node.
StorageManeuverOverrides(x, turns) ==
  LET of(m) == [k \in DOMAIN NodeSequences(m, turns) |->
                  [nodes |-> NodeSequences(m, turns)[k], instruction |-> m.instruction, type |-> m.type]]
      all == FlattenSeq([i \in DOMAIN x.maneuvers |-> of(x.maneuvers[i])])
  IN StableSort(all, LAMBDA a, b : a.nodes[1] < b.nodes[1])
=============================================================================
