------------------------ MODULE ContractionHierarchy ------------------------
(***************************************************************************)
(* osrm-contract: the contraction of a graph, and the queries on the       *)
(* hierarchy it makes.                                                     *)
(***************************************************************************)
EXTENDS Integers, Sequences, SequencesExt, FiniteSetsExt, Algorithms, TLC

-----------------------------------------------------------------------------
(***************************************************************************)
(* util::DynamicGraph, the graph the contractor changes in place: a node   *)
(* owns a run of consecutive slots of one edge list, runs grow into free   *)
(* slots beside them or move to the end of the list, and a freed slot is a *)
(* dummy. Nodes are numbered from 0, the slots of edge_list from 1.        *)
(***************************************************************************)
SPECIAL_NODEID == -1

SPECIAL_EDGEID == -1

NumberOfNodes(graph) == Cardinality(DOMAIN graph.node_array)

NodeIds(n) == 0..(n - 1)

isDummy(graph, slot) == graph.edge_list[slot].target = SPECIAL_NODEID

makeDummy(edge) == [edge EXCEPT !.target = SPECIAL_NODEID]

\* The slots of a node.
GetAdjacentEdgeRange(graph, node) ==
  LET run == graph.node_array[node]
  IN run.first_edge..(run.first_edge + run.edges - 1)

\* The edges of a node, in the order of their slots.
Row(graph, node) ==
  LET run == graph.node_array[node]
  IN SubSeq(graph.edge_list, run.first_edge, run.first_edge + run.edges - 1)

\* The graph whose runs are the given rows, one after the other.
FromRows(rows) ==
  LET n == Cardinality(DOMAIN rows)
      before(v) == FoldLeft(+, 0, [i \in 1..v |-> Len(rows[i - 1])])
  IN [node_array |-> [v \in NodeIds(n) |->
                        [first_edge |-> before(v) + 1, edges |-> Len(rows[v])]],
      edge_list  |-> FlattenSeq([i \in 1..n |-> rows[i - 1]]),
      number_of_edges |-> before(n)]

\* Constructor from edges sorted by source.
MakeGraph(nodes, edges) ==
  FromRows([v \in NodeIds(nodes) |->
    LET own == SelectSeq(edges, LAMBDA e : e.source = v)
    IN [i \in DOMAIN own |-> [target |-> own[i].target, data |-> own[i].data]]])

\* The copy without the nodes the filter rejects keeps the edge count of the
\* original.
Filter(graph, allowed) ==
  [FromRows([v \in DOMAIN graph.node_array |->
     IF allowed[v] THEN SelectSeq(Row(graph, v), LAMBDA e : allowed[e.target])
     ELSE << >>])
   EXCEPT !.number_of_edges = graph.number_of_edges]

\* The slot of the first edge of a node to another.
FindEdge(graph, from, to) ==
  LET slots == {e \in GetAdjacentEdgeRange(graph, from) : graph.edge_list[e].target = to}
  IN IF slots = {} THEN SPECIAL_EDGEID ELSE Min(slots)

\* Moves the edges of a node to the end of the edge list, with room for more.
MoveToEnd(graph, node) ==
  LET run  == graph.node_array[node]
      size == (11 * run.edges) \div 10 + 2
      old  == GetAdjacentEdgeRange(graph, node)
      kept == [i \in DOMAIN graph.edge_list |->
                 IF i \in old THEN makeDummy(graph.edge_list[i]) ELSE graph.edge_list[i]]
      room == [i \in 1..(size - run.edges) |->
                 [target |-> SPECIAL_NODEID, data |-> << >>]]
  IN [graph EXCEPT !.node_array[node].first_edge = Len(graph.edge_list) + 1,
                   !.edge_list = kept \o Row(graph, node) \o room]

\* The slot before the run takes the run's last edge.
MoveBack(graph, node) ==
  LET run == graph.node_array[node]
      new == run.first_edge - 1
  IN [graph EXCEPT !.node_array[node].first_edge = new,
                   !.edge_list[new] = graph.edge_list[new + run.edges]]

InsertEdge(graph, from, to, data) ==
  LET run  == graph.node_array[from]
      next == run.first_edge + run.edges
      made == IF next <= Len(graph.edge_list) /\ isDummy(graph, next) THEN graph
              ELSE IF run.first_edge # 1 /\ isDummy(graph, run.first_edge - 1)
                THEN MoveBack(graph, from)
              ELSE MoveToEnd(graph, from)
      slot == made.node_array[from].first_edge + run.edges
  IN [made EXCEPT !.edge_list[slot] = [target |-> to, data |-> data],
                  !.node_array[from].edges = run.edges + 1,
                  !.number_of_edges = graph.number_of_edges + 1]

\* The last edge of the run takes the place of a deleted one.
DeleteEdge(graph, source, slot) ==
  LET run  == graph.node_array[source]
      last == run.first_edge + run.edges - 1
  IN [graph EXCEPT !.node_array[source].edges = run.edges - 1,
                   !.number_of_edges = graph.number_of_edges - 1,
                   !.edge_list = [[@ EXCEPT ![slot] = graph.edge_list[last]]
                                     EXCEPT ![last] = makeDummy(@)]]

\* Deletes the first edge to the target until there is none.
DeleteEdgesTo(graph, source, target) ==
  LET count == Cardinality({e \in GetAdjacentEdgeRange(graph, source) :
                              graph.edge_list[e].target = target})
      del[k \in 0..count] ==
        IF k = 0 THEN graph
        ELSE LET g == del[k - 1] IN DeleteEdge(g, source, FindEdge(g, source, target))
  IN del[count]

\* Renumbers the nodes and packs the runs in the new order; the dummies at the
\* end are dropped.
Renumber(graph, old_to_new) ==
  LET new_to_old == [v \in DOMAIN graph.node_array |->
                       CHOOSE u \in DOMAIN graph.node_array : old_to_new[u] = v]
  IN FromRows([v \in DOMAIN graph.node_array |->
       LET row == Row(graph, new_to_old[v])
       IN [i \in DOMAIN row |-> [row[i] EXCEPT !.target = old_to_new[@]]]])
-----------------------------------------------------------------------------
(***************************************************************************)
(* What the layout keeps (checked wherever a graph changes): runs do not   *)
(* overlap, hold no dummy and lie in the list, a slot outside every run is *)
(* a dummy, so that a run may grow into it.                                *)
(***************************************************************************)
SoundLayout(graph) ==
  LET owners(slot) == {v \in DOMAIN graph.node_array : slot \in GetAdjacentEdgeRange(graph, v)}
  IN /\ \A v \in DOMAIN graph.node_array :
          GetAdjacentEdgeRange(graph, v) \subseteq DOMAIN graph.edge_list
     /\ \A slot \in DOMAIN graph.edge_list :
          Cardinality(owners(slot)) = IF isDummy(graph, slot) THEN 0 ELSE 1

-----------------------------------------------------------------------------
(***************************************************************************)
(* contractor::contractGraph: nodes leave the graph in rounds. A round     *)
(* picks the nodes that no node within two hops precedes, contracts them   *)
(* in parallel (threads collect the shortcuts that replace them), deletes  *)
(* the edges to them in parallel, inserts the shortcuts one by one and     *)
(* gives the neighbours new priorities in parallel.                        *)
(*                                                                         *)
(* A parallel loop is one action per node, in any order; what two of its   *)
(* bodies share is the graph, node_data.weights and the edges a thread has *)
(* collected. The priorities are exact fractions where the code computes   *)
(* with floats. Durations and distances follow the weights and are left    *)
(* out, as is the hop count of the witness search, which nothing reads.    *)
(***************************************************************************)

CONSTANTS
  Threads,                       \* the workers of the parallel loops
  Hash(_),                       \* XORFastHash of an original node
  SIMULATION_SEARCH_SPACE_SIZE,  \* nodes a simulated witness search settles
  FULL_SEARCH_SPACE_SIZE,        \* nodes a witness search settles
  INVALID_EDGE_WEIGHT

VARIABLES
  phase,             \* the loop contractGraph is in
  graph,
  node_data,         \* ContractorNodeData
  remaining_nodes,   \* the nodes not contracted when the round began
  independent,       \* the nodes of the round
  todo,              \* the nodes the parallel loop has not reached
  inserted_edges,    \* the shortcuts each thread has collected
  new_to_old,        \* new_to_old_node_id
  next_renumbering,
  number_of_core_nodes

contractorVars == <<phase, graph, node_data, remaining_nodes, independent, todo,
                    inserted_edges, new_to_old, next_renumbering, number_of_core_nodes>>

Heap == INSTANCE QueryHeap

BySourceAndTarget(a, b) ==
  \/ a.source < b.source
  \/ a.source = b.source /\ a.target < b.target
-----------------------------------------------------------------------------
(***************************************************************************)
(* The witness search: a Dijkstra search from the source of an incoming    *)
(* edge around the node to be contracted. The targets wait in the heap     *)
(* with the weight of no path.                                             *)
(***************************************************************************)
relaxNode(heap, g, node, weight, forbidden) ==
  FoldLeft(LAMBDA h, e :
             IF ~e.data.forward \/ e.target = forbidden THEN h
             ELSE Heap!Relax(h, e.target, weight + e.data.weight,
                    Heap!WasInserted(h, e.target) /\ Heap!GetData(h, e.target)),
           heap, Row(g, node))

\* One turn of the search's loop; s counts the settled nodes and targets.
SearchStep(s, g, number_of_targets, node_limit, weight_limit, forbidden) ==
  LET node  == Heap!Min(s.heap)
      key   == Heap!MinKey(s.heap)
      heap  == Heap!DeleteMin(s.heap)
      found == IF Heap!GetData(heap, node) THEN s.found + 1 ELSE s.found
  IN IF \/ s.nodes + 1 > node_limit
        \/ key > weight_limit
        \/ Heap!GetData(heap, node) /\ found >= number_of_targets
     THEN [heap |-> heap, nodes |-> s.nodes + 1, found |-> found, done |-> TRUE]
     ELSE [heap |-> relaxNode(heap, g, node, key, forbidden),
           nodes |-> s.nodes + 1, found |-> found, done |-> FALSE]

search(heap, g, number_of_targets, node_limit, weight_limit, forbidden) ==
  LET run[k \in 0..NumberOfNodes(g)] ==
        IF k = 0 THEN [heap |-> heap, nodes |-> 0, found |-> 0, done |-> FALSE]
        ELSE LET s == run[k - 1]
             IN IF s.done \/ Heap!Empty(s.heap) THEN s
                ELSE SearchStep(s, g, number_of_targets, node_limit, weight_limit, forbidden)
  IN run[NumberOfNodes(g)].heap
-----------------------------------------------------------------------------
(***************************************************************************)
(* ContractNode, for one incoming and one outgoing edge at a time. c holds *)
(* the node weights, the edges inserted and the counts of the simulation.  *)
(***************************************************************************)
Shortcut(source, target, in, out, node) ==
  LET data(forward) ==
        [weight |-> in.data.weight + out.data.weight, id |-> node,
         originalEdges |-> in.data.originalEdges + out.data.originalEdges,
         shortcut |-> TRUE, forward |-> forward, backward |-> ~forward]
  IN << [source |-> source, target |-> target, data |-> data(TRUE)],
        [source |-> target, target |-> source, data |-> data(FALSE)] >>

Add(c, in, out, node) ==
  [c EXCEPT !.edges = @ \o Shortcut(in.target, out.target, in, out, node),
            !.added = @ + 2,
            !.original_added = @ + 2 * (in.data.originalEdges + out.data.originalEdges)]

\* The way into the node and straight back is a loop at the neighbour.
AddLoop(c, in, out, node, simulated) ==
  LET path_weight == in.data.weight + out.data.weight
  IN IF out.target = in.target /\ path_weight < c.weights[node]
     THEN [Add(c, in, out, node)
             EXCEPT !.weights[in.target] = path_weight + IF simulated THEN 1 ELSE 0]
     ELSE c

AddShortcut_NoWitness(c, in, out, node, heap) ==
  IF Heap!GetKey(heap, out.target) = INVALID_EDGE_WEIGHT
  THEN Add(c, in, out, node) ELSE c

AddShortcut(c, in, out, node, heap) ==
  IF in.data.weight + out.data.weight < Heap!GetKey(heap, out.target)
  THEN Add(c, in, out, node) ELSE c

ContractEdge(c, in, g, node, simulated) ==
  LET outs    == SelectSeq(Row(g, node), LAMBDA e : e.data.forward /\ e.target # node)
      ends    == SelectSeq(outs, LAMBDA e : e.target # in.target)
      limit   == IF simulated THEN SIMULATION_SEARCH_SPACE_SIZE ELSE FULL_SEARCH_SPACE_SIZE
      first   == Heap!Insert(Heap!NewHeap(NumberOfNodes(g), 0), in.target, 0, FALSE)
      seeded  == FoldLeft(LAMBDA h, e : IF Heap!WasInserted(h, e.target) THEN h
                            ELSE Heap!Insert(h, e.target, INVALID_EDGE_WEIGHT, TRUE),
                          first, ends)
      heaviest == Max({0} \cup {in.data.weight + ends[i].data.weight : i \in DOMAIN ends})
      heap    == search(seeded, g, Len(seeded.inserted) - 1, limit, heaviest, node)
      looped  == FoldLeft(LAMBDA d, out : AddLoop(d, in, out, node, simulated), c, outs)
  IN FoldLeft(LAMBDA d, out : AddShortcut(d, in, out, node, heap), looped, outs)

ContractRow(g, node, weights, simulated) ==
  LET start == [weights |-> weights, edges |-> << >>, added |-> 0, original_added |-> 0,
                deleted |-> 0, original_deleted |-> 0]
      counted(c, in) == [c EXCEPT !.deleted = @ + 1,
                                  !.original_deleted = @ + in.data.originalEdges]
  IN FoldLeft(LAMBDA c, in :
                IF in.target = node THEN c
                ELSE IF ~in.data.backward THEN counted(c, in)
                ELSE ContractEdge(counted(c, in), in, g, node, simulated),
              start, Row(g, node))

\* The two directions of a shortcut of the same weight become one edge.
MergeDirections(edges) ==
  LET same(i, j) == /\ edges[i].source = edges[j].source
                    /\ edges[i].target = edges[j].target
                    /\ edges[i].data.weight = edges[j].data.weight
                    /\ edges[i].data.shortcut = edges[j].data.shortcut
      class(i)   == {j \in 1..i : same(i, j)}
      last       == {i \in DOMAIN edges : \A j \in DOMAIN edges : j > i => ~same(i, j)}
      merged     == [i \in DOMAIN edges |->
                       [edges[i] EXCEPT
                          !.data.forward  = \E j \in class(i) : edges[j].data.forward,
                          !.data.backward = \E j \in class(i) : edges[j].data.backward]]
      kept       == Ordered(last, <)
  IN [k \in DOMAIN kept |-> merged[kept[k]]]
-----------------------------------------------------------------------------
(***************************************************************************)
(* Priorities, as exact fractions <<numerator, denominator>>; the code     *)
(* holds them in floats and takes those within an epsilon for equal.       *)
(***************************************************************************)
NoPriority == <<1, 0>>

Lower(p, q) == p[1] * q[2] < q[1] * p[2]

EvaluateNodePriority(stats, depth) ==
  LET d == stats.deleted * stats.original_deleted
  IN IF d = 0 THEN <<depth, 1>>
     ELSE <<2 * stats.added * stats.original_deleted
            + 4 * stats.original_added * stats.deleted + depth * d, d>>

Bias(a, b) ==
  \/ Hash(a) < Hash(b)
  \/ Hash(a) = Hash(b) /\ a < b

Neighbours(g, node) == {e.target : e \in ToSet(Row(g, node))} \ {node}

\* A node waits for a neighbour, or a neighbour's neighbour, of lower priority,
\* or of the same priority and a hash above its own.
IsNodeIndependent(g, priorities, original, node) ==
  \A v \in Neighbours(g, node) \cup UNION {Neighbours(g, u) : u \in Neighbours(g, node)} :
    v # node =>
      /\ ~Lower(priorities[v], priorities[node])
      /\ ~(~Lower(priorities[node], priorities[v]) /\ Bias(original[node], original[v]))

\* A simulation lowers the weights of the neighbours it finds loops for and
\* yields the priority of the node.
Simulate(data, g, node) ==
  LET c == ContractRow(g, node, data.weights, TRUE)
  IN [data EXCEPT !.weights = c.weights,
                  !.priorities[node] = EvaluateNodePriority(c, data.depths[node])]
-----------------------------------------------------------------------------
RenumberGraph(g, old_to_new) ==
  LET moved == Renumber(g, old_to_new)
  IN [moved EXCEPT !.edge_list =
        [i \in DOMAIN @ |-> IF @[i].data.shortcut
                            THEN [@[i] EXCEPT !.data.id = old_to_new[@]] ELSE @[i]]]

\* inplacePermutation: the entry of node n moves to old_to_new[n].
Permuted(f, old_to_new) ==
  [v \in DOMAIN f |-> f[CHOOSE u \in DOMAIN f : old_to_new[u] = v]]

RenumberNodeData(data, old_to_new) ==
  [is_core      |-> Permuted(data.is_core, old_to_new),
   contractable |-> Permuted(data.contractable, old_to_new),
   priorities   |-> Permuted(data.priorities, old_to_new),
   weights      |-> Permuted(data.weights, old_to_new),
   depths       |-> Permuted(data.depths, old_to_new)]

\* The remaining nodes get the low numbers, the others keep their order.
RenumberData(pool) ==
  LET others == SelectSeq([i \in 1..NumberOfNodes(graph) |-> i - 1],
                          LAMBDA v : v \notin ToSet(pool))
      order  == pool \o others
  IN [v \in DOMAIN graph.node_array |-> (CHOOSE i \in DOMAIN order : order[i] = v) - 1]
-----------------------------------------------------------------------------
\* The state in which contractGraph begins: cores are the nodes still in the
\* graph, contractable the ones that may leave it.
ContractionBegins(g, cores, contractable, weights, kept) ==
  LET nodes == DOMAIN g.node_array
      pool  == SelectSeq([i \in 1..NumberOfNodes(g) |-> i - 1],
                         LAMBDA v : cores[v] /\ contractable[v])
  IN /\ phase' = "prioritise"
     /\ graph' = g
     /\ node_data' = [is_core |-> cores, contractable |-> contractable,
                      priorities |-> [v \in nodes |->
                        IF cores[v] /\ ~contractable[v] THEN NoPriority ELSE <<0, 1>>],
                      weights |-> weights, depths |-> [v \in nodes |-> 0]]
     /\ remaining_nodes' = pool
     /\ independent' = {}
     /\ todo' = ToSet(pool)
     /\ inserted_edges' = [t \in Threads |-> << >>]
     /\ new_to_old' = [v \in nodes |-> v]
     /\ next_renumbering' = (35 * NumberOfNodes(g)) \div 100
     /\ number_of_core_nodes' = kept

\* First priorities.
InitialisePriority(node) ==
  /\ phase = "prioritise" /\ node \in todo
  /\ node_data' = Simulate(node_data, graph, node)
  /\ todo' = todo \ {node}
  /\ UNCHANGED <<phase, graph, remaining_nodes, independent, inserted_edges, new_to_old,
                 next_renumbering, number_of_core_nodes>>

\* The nodes left after the round.
Pool == SelectSeq(remaining_nodes, LAMBDA v : v \notin independent)

RoundOver == phase \in {"prioritise", "update"} /\ todo = {}

\* The beginning of a round: a renumbering when few nodes are left, then the
\* choice of the independent nodes, which reads only.
SelectIndependentNodes ==
  /\ RoundOver
  /\ Len(Pool) > number_of_core_nodes
  /\ LET renumber == Len(Pool) < next_renumbering
         to_new   == IF renumber THEN RenumberData(Pool) ELSE [v \in DOMAIN new_to_old |-> v]
         g        == IF renumber THEN RenumberGraph(graph, to_new) ELSE graph
         data     == IF renumber THEN RenumberNodeData(node_data, to_new) ELSE node_data
         original == Permuted(new_to_old, to_new)
         pool     == [i \in DOMAIN Pool |-> to_new[Pool[i]]]
         chosen   == {v \in ToSet(pool) : IsNodeIndependent(g, data.priorities, original, v)}
     IN /\ graph' = g
        /\ node_data' = data
        /\ new_to_old' = original
        /\ next_renumbering' = IF renumber THEN 0 ELSE next_renumbering
        /\ independent' = chosen
        /\ todo' = chosen
        /\ remaining_nodes' = SelectSeq(pool, LAMBDA v : v \notin chosen)
                              \o SelectSeq(pool, LAMBDA v : v \in chosen)
  /\ phase' = "contract"
  /\ UNCHANGED <<inserted_edges, number_of_core_nodes>>

\* A thread contracts one of the nodes.
ContractNode(thread, node) ==
  /\ phase = "contract" /\ node \in todo
  /\ LET c == ContractRow(graph, node, node_data.weights, FALSE)
     IN /\ inserted_edges' = [inserted_edges EXCEPT ![thread] = @ \o MergeDirections(c.edges)]
        /\ node_data' = [node_data EXCEPT !.weights = c.weights]
  /\ todo' = todo \ {node}
  /\ UNCHANGED <<phase, graph, remaining_nodes, independent, new_to_old, next_renumbering,
                 number_of_core_nodes>>

LeaveCore ==
  /\ phase = "contract" /\ todo = {}
  /\ node_data' = [node_data EXCEPT !.is_core = [v \in DOMAIN @ |-> @[v] /\ v \notin independent]]
  /\ phase' = "delete"
  /\ todo' = independent
  /\ UNCHANGED <<graph, remaining_nodes, independent, inserted_edges, new_to_old,
                 next_renumbering, number_of_core_nodes>>

DeleteIncomingEdges(node) ==
  /\ phase = "delete" /\ node \in todo
  /\ graph' = FoldLeft(LAMBDA g, u : DeleteEdgesTo(g, u, node), graph,
                       Ordered(Neighbours(graph, node), <))
  /\ todo' = todo \ {node}
  /\ UNCHANGED <<phase, node_data, remaining_nodes, independent, inserted_edges, new_to_old,
                 next_renumbering, number_of_core_nodes>>

\* A shortcut replaces the first edge to its target when that is a shortcut of
\* the same directions, if it is shorter; otherwise it is a new edge.
InsertShortcut(g, edge) ==
  LET slot == FindEdge(g, edge.source, edge.target)
      old  == g.edge_list[slot].data
  IN IF /\ slot # SPECIAL_EDGEID
        /\ old.shortcut /\ old.forward = edge.data.forward /\ old.backward = edge.data.backward
     THEN IF edge.data.weight < old.weight
          THEN [g EXCEPT !.edge_list[slot].data = edge.data] ELSE g
     ELSE InsertEdge(g, edge.source, edge.target, edge.data)

InsertShortcuts ==
  /\ phase = "delete" /\ todo = {}
  /\ \E order \in SetToSeqs(Threads) :
       graph' = FoldLeft(LAMBDA g, t :
                  FoldLeft(InsertShortcut, g, StableSort(inserted_edges[t], BySourceAndTarget)),
                  graph, order)
  /\ inserted_edges' = [t \in Threads |-> << >>]
  /\ phase' = "update"
  /\ todo' = independent
  /\ UNCHANGED <<node_data, remaining_nodes, independent, new_to_old, next_renumbering,
                 number_of_core_nodes>>

UpdateNodeNeighbours(node) ==
  /\ phase = "update" /\ node \in todo
  /\ LET around == Ordered(Neighbours(graph, node), <)
         deeper == [node_data EXCEPT !.depths = [v \in DOMAIN @ |->
                      IF v \in ToSet(around) THEN Max({@[v], @[node] + 1}) ELSE @[v]]]
     IN node_data' = FoldLeft(LAMBDA data, u :
                       IF data.contractable[u] THEN Simulate(data, graph, u) ELSE data,
                       deeper, around)
  /\ todo' = todo \ {node}
  /\ UNCHANGED <<phase, graph, remaining_nodes, independent, inserted_edges, new_to_old,
                 next_renumbering, number_of_core_nodes>>

\* The end: the original numbers again.
FinishContraction ==
  /\ RoundOver
  /\ Len(Pool) <= number_of_core_nodes
  /\ graph' = RenumberGraph(graph, new_to_old)
  /\ node_data' = RenumberNodeData(node_data, new_to_old)
  /\ phase' = "contracted"
  /\ remaining_nodes' = Pool
  /\ independent' = {}
  /\ UNCHANGED <<todo, inserted_edges, new_to_old, next_renumbering, number_of_core_nodes>>

contractGraph ==
  \/ \E node \in todo : InitialisePriority(node)
  \/ SelectIndependentNodes
  \/ \E thread \in Threads, node \in todo : ContractNode(thread, node)
  \/ LeaveCore
  \/ \E node \in todo : DeleteIncomingEdges(node)
  \/ InsertShortcuts
  \/ \E node \in todo : UpdateNodeNeighbours(node)
  \/ FinishContraction

-----------------------------------------------------------------------------
(***************************************************************************)
(* From the edge-based graph to the hierarchy that is served:              *)
(* toContractorGraph, contractExcludableGraph and ContractedEdgeContainer. *)
(* A class of nodes a query may exclude is a filter. The nodes every       *)
(* filter allows are contracted once; what is left (the shared core) is    *)
(* contracted again for each filter, and the results are merged into one   *)
(* list of edges that carry the set of the filters they belong to.         *)
(***************************************************************************)
VARIABLES
  input,         \* the edge-based graph, its node weights and filters
  pass,          \* 0 while the shared nodes are contracted, then the filter
  shared,        \* the shared core: its nodes and its graph
  edge_container

hierarchyVars == <<contractorVars, input, pass, shared, edge_container>>

NoEdges == << >>

NoGraph == MakeGraph(0, << >>)
-----------------------------------------------------------------------------
(***************************************************************************)
(* toContractorGraph: an edge is stored at both of its ends; eigenloops    *)
(* go, parallel edges leave the lightest, and a pair of edges of the same  *)
(* weight becomes one of both directions.                                  *)
(***************************************************************************)
BothEnds(edges) ==
  FlattenSeq([i \in DOMAIN edges |->
    LET e == edges[i]
        data(f, b) == [weight |-> Max({e.weight, 1}), id |-> e.turn_id,
                       originalEdges |-> 1, shortcut |-> FALSE, forward |-> f, backward |-> b]
    IN IF e.weight = INVALID_EDGE_WEIGHT THEN << >>
       ELSE << [source |-> e.source, target |-> e.target, data |-> data(e.forward, e.backward)],
               [source |-> e.target, target |-> e.source, data |-> data(e.backward, e.forward)] >>])

\* The edges that stand for all those from a source to a target.
Parallel(edges) ==
  LET lightest(Is(_)) == Min({INVALID_EDGE_WEIGHT} \cup
                             {edges[i].data.weight : i \in {j \in DOMAIN edges : Is(edges[j].data)}})
      forward == lightest(LAMBDA d : d.forward)
      reverse == lightest(LAMBDA d : d.backward)
      edge(w, f, b) == IF w = INVALID_EDGE_WEIGHT THEN << >>
                       ELSE << [edges[1] EXCEPT !.data.weight = w, !.data.forward = f,
                                                !.data.backward = b] >>
  IN IF forward = reverse THEN edge(forward, TRUE, TRUE)
     ELSE edge(forward, TRUE, FALSE) \o edge(reverse, FALSE, TRUE)

toContractorGraph(nodes, edges) ==
  LET all == StableSort(BothEnds(edges), BySourceAndTarget)
      ends == Ordered({<<all[i].source, all[i].target>> : i \in DOMAIN all},
                           LAMBDA p, q : p[1] < q[1] \/ (p[1] = q[1] /\ p[2] < q[2]))
  IN MakeGraph(nodes, FlattenSeq([k \in DOMAIN ends |->
       IF ends[k][1] = ends[k][2] THEN << >>
       ELSE Parallel(SelectSeq(all, LAMBDA e : <<e.source, e.target>> = ends[k]))]))

toEdges(g) ==
  StableSort(FlattenSeq([i \in 1..NumberOfNodes(g) |->
    LET row == Row(g, i - 1)
    IN [k \in DOMAIN row |-> [source |-> i - 1, target |-> row[k].target, data |-> row[k].data]]]),
    BySourceAndTarget)
-----------------------------------------------------------------------------
(***************************************************************************)
(* ContractedEdgeContainer. An entry is an edge with its filters.          *)
(***************************************************************************)
Bit(b) == IF b THEN 1 ELSE 0

MergeKey(e) == <<e.source, e.target, Bit(e.data.shortcut), e.data.id, e.data.weight,
                 Bit(e.data.forward), Bit(e.data.backward)>>

mergeCompare(a, b) ==
  LET p == MergeKey(a)
      q == MergeKey(b)
  IN \E i \in DOMAIN p : p[i] < q[i] /\ \A j \in 1..(i - 1) : p[j] = q[j]

Entry(e, flags) == [source |-> e.source, target |-> e.target, data |-> e.data, flags |-> flags]

\* Insert of the edges outside the core, then Filter for each filter: an edge
\* belongs to a filter that allows both of its ends.
InsertAndFilter(edges, filters) ==
  [i \in DOMAIN edges |->
     Entry(edges[i], {f \in DOMAIN filters :
                        filters[f][edges[i].source] /\ filters[f][edges[i].target]})]

\* One new edge against the entries from the place `at` on: the entries that
\* sort before it are passed, an equal one gets the flag.
MergeEdge(m, edge, flag) ==
  LET later == {k \in m.at..Len(m.entries) : ~mergeCompare(m.entries[k], edge)}
      at    == IF later = {} THEN Len(m.entries) + 1 ELSE Min(later)
  IN IF m.at > Len(m.entries) \/ mergeCompare(edge, m.entries[m.at])
     THEN [m EXCEPT !.new = Append(@, Entry(edge, {flag}))]
     ELSE IF at > Len(m.entries) \/ mergeCompare(edge, m.entries[at])
     THEN [m EXCEPT !.at = at, !.new = Append(@, Entry(edge, {flag}))]
     ELSE [m EXCEPT !.at = at, !.entries[at].flags = @ \cup {flag}]

Merge(entries, edges, flag) ==
  LET m == FoldLeft(LAMBDA acc, e : MergeEdge(acc, e, flag),
                    [entries |-> entries, new |-> NoEdges, at |-> 1], edges)
  IN StableSort(m.entries \o m.new, mergeCompare)
-----------------------------------------------------------------------------
AllNodes == [v \in NodeIds(input.nodes) |-> TRUE]

Excludable == ~(Len(input.filters) = 1 /\ input.filters[1] = AllNodes)

always_allowed == [v \in NodeIds(input.nodes) |->
                     \A f \in DOMAIN input.filters : input.filters[f][v]]

\* The edge-based graph is read and its contraction begins. With one filter that
\* allows all nodes the whole graph is contracted, otherwise the nodes all
\* filters allow but for a tenth of the graph (BASE_CORE).
LoadGraph ==
  /\ phase = "load"
  /\ pass' = 0
  /\ LET g == toContractorGraph(input.nodes, input.edges)
     IN IF Excludable
        THEN ContractionBegins(g, AllNodes, always_allowed, input.weights, input.nodes \div 10)
        ELSE ContractionBegins(g, AllNodes, AllNodes, input.weights, 0)
  /\ UNCHANGED <<input, shared, edge_container>>

\* The contraction returns and its variables are gone.
ContractionReturns ==
  /\ phase' = "served"
  /\ graph' = NoGraph
  /\ node_data' = << >>
  /\ remaining_nodes' = << >>
  /\ independent' = {} /\ todo' = {}
  /\ inserted_edges' = [t \in Threads |-> << >>]
  /\ new_to_old' = << >>
  /\ next_renumbering' = 0 /\ number_of_core_nodes' = 0
  /\ pass' = 0
  /\ shared' = NoGraph

\* contractFullGraph has its result.
FinishFullGraph ==
  /\ phase = "contracted" /\ pass = 0 /\ ~Excludable
  /\ edge_container' = [i \in DOMAIN toEdges(graph) |-> Entry(toEdges(graph)[i], {1})]
  /\ ContractionReturns
  /\ UNCHANGED input

ContractForFilter(core, core_graph, f) ==
  ContractionBegins(Filter(core_graph, input.filters[f]), core, core, input.weights, 0)

\* The shared nodes are contracted: the edges that leave them are stored for all
\* filters, and the core is contracted for the first filter.
FinishSharedNodes ==
  /\ phase = "contracted" /\ pass = 0 /\ Excludable
  /\ LET core  == node_data.is_core
         outer == SelectSeq(toEdges(graph), LAMBDA e : ~(core[e.source] /\ core[e.target]))
         inner == Filter(graph, core)
     IN /\ edge_container' = InsertAndFilter(outer, input.filters)
        /\ shared' = [core |-> core, graph |-> inner]
        /\ ContractForFilter(core, inner, 1)
  /\ pass' = 1
  /\ UNCHANGED input

FinishFilter ==
  /\ phase = "contracted" /\ pass > 0
  /\ edge_container' = Merge(edge_container, toEdges(graph), pass)
  /\ \/ /\ pass < Len(input.filters)
        /\ pass' = pass + 1
        /\ ContractForFilter(shared.core, shared.graph, pass + 1)
        /\ UNCHANGED shared
     \/ /\ pass = Len(input.filters)
        /\ ContractionReturns
  /\ UNCHANGED input

Contract ==
  \/ LoadGraph
  \/ contractGraph /\ UNCHANGED <<input, pass, shared, edge_container>>
  \/ FinishFullGraph
  \/ FinishSharedNodes
  \/ FinishFilter

-----------------------------------------------------------------------------
(***************************************************************************)
(* Queries on the contracted graph: ch::search, the bidirectional search   *)
(* that goes up the hierarchy from both ends and stalls nodes it knows a   *)
(* better way to, the unpacking of the shortcuts of its path, and the      *)
(* many-to-many search of the table service, which stores what backward    *)
(* searches settle in buckets that forward searches read.                  *)
(*                                                                         *)
(* An end of a query is a sequence of places <<node, offset>>: the         *)
(* directions of the segment it was snapped to and the weight from the     *)
(* segment's beginning. The heaps belong to the thread and are cleared and *)
(* used again by its next query.                                           *)
(***************************************************************************)

VARIABLES
  forward_heap, reverse_heap,
  query,          \* what is asked: its ends and the filter of its exclude list
  step,           \* where the thread is in the query
  middle, weight, \* the best meeting node so far and its weight
  min_edge_offset,
  packed_leg, unpacked,
  table           \* of a many-to-many query: buckets, weights, row and column

searchVars == <<forward_heap, reverse_heap, query, step, middle, weight, min_edge_offset,
                packed_leg, unpacked, table>>

NoQuery == [kind |-> "none"]

NoTable == [buckets |-> {}, weights |-> << >>, row |-> 0, column |-> 0]

\* The edges of a node the query's filter leaves in the query graph.
Edges(node) == SelectSeq(edge_container, LAMBDA e : e.source = node /\ query.filter \in e.flags)

Follows(data, forward) == IF forward THEN data.forward ELSE data.backward

\* Some node already reached leads to this one with a smaller weight.
stallAtNode(heap, node, key, forward) ==
  \E e \in ToSet(Edges(node)) :
    /\ Follows(e.data, ~forward)
    /\ Heap!WasInserted(heap, e.target)
    /\ Heap!GetKey(heap, e.target) + e.data.weight < key

relaxOutgoingEdges(heap, node, key, forward) ==
  FoldLeft(LAMBDA h, e : IF Follows(e.data, forward)
                         THEN Heap!Relax(h, e.target, key + e.data.weight, node) ELSE h,
           heap, Edges(node))

\* The weights of the loops at a node a search in this direction may take.
Loops(node, forward) ==
  {e.data.weight : e \in {f \in ToSet(Edges(node)) : f.target = node /\ Follows(f.data, forward)}}
-----------------------------------------------------------------------------
\* insertNodesInHeaps: the sources with their offsets taken off, the targets
\* with theirs added. The node is its own parent.
InsertPlaces(heap, places, sign) ==
  FoldLeft(LAMBDA h, p : Heap!Insert(h, p[1], sign * p[2], p[1]), heap, places)

\* The nodes of sources that lie behind a target on the same segment
\* (getForwardLoopNodes, getBackwardLoopNodes).
LoopNodes(source, target) ==
  {source[i][1] : i \in {k \in DOMAIN source : \E j \in DOMAIN target :
                           source[k][1] = target[j][1] /\ source[k][2] > target[j][2]}}

\* A leg is how a route is asked for: [total, forces, bound]. A direct search
\* forces no loop; a leg of a route through waypoints starts with the total weight
\* of the legs before it and forces loops; map matching gives a bound.
StartRoute(source, target, filter, leg) ==
  /\ phase = "served" /\ step = "idle"
  /\ query' = [kind |-> "route", source |-> source, target |-> target, filter |-> filter,
               leg |-> leg, forced |-> IF leg.forces THEN LoopNodes(source, target) ELSE {}]
  /\ forward_heap' = InsertPlaces(Heap!Clear(forward_heap),
                                  [i \in DOMAIN source |-> <<source[i][1], source[i][2] - leg.total>>], -1)
  /\ reverse_heap' = InsertPlaces(Heap!Clear(reverse_heap), target, 1)
  /\ min_edge_offset' = Min({0, Heap!MinKey(forward_heap')})
  /\ middle' = SPECIAL_NODEID
  /\ weight' = leg.bound
  /\ packed_leg' = << >> /\ unpacked' = << >>
  /\ step' = "forward"
  /\ UNCHANGED <<hierarchyVars, table>>

\* A loop is forced at the end it was asked for, not at a node on the way.
force_loop(heap, node) == node \in query.forced /\ Heap!GetData(heap, node) = node

\* A node both searches have reached: the weight of the way over it. Where a loop
\* is forced, or the weight is below zero because the target lies before the source
\* on their segment, only a loop leads there.
Meeting(heap, node, new_weight, forward) ==
  IF new_weight >= weight THEN [middle |-> middle, weight |-> weight]
  ELSE IF new_weight >= 0 /\ ~force_loop(heap, node) THEN [middle |-> node, weight |-> new_weight]
  ELSE LET better == {w \in {new_weight + l : l \in Loops(node, forward)} :
                        w >= 0 /\ w < weight}
       IN IF better = {} THEN [middle |-> middle, weight |-> weight]
          ELSE [middle |-> node, weight |-> Min(better)]

\* The search ends where the two first meet.
routingStep_FirstMeeting(heap, other, forward) ==
  LET node  == Heap!Min(heap)
      key   == Heap!MinKey(heap)
      taken == Heap!DeleteMin(heap)
      best  == IF Heap!WasInserted(other, node)
               THEN Meeting(heap, node, Heap!GetKey(other, node) + key, forward)
               ELSE [middle |-> middle, weight |-> weight]
  IN [best |-> best,
      heap |-> IF best.middle # SPECIAL_NODEID THEN Heap!DeleteAll(taken)
               ELSE IF stallAtNode(taken, node, key, forward) THEN taken
               ELSE relaxOutgoingEdges(taken, node, key, forward)]

\* One step of a search: heap is its own, other the opposite one's. Yields the
\* heap and the best meeting node.
routingStep(heap, other, forward) ==
  LET node  == Heap!Min(heap)
      key   == Heap!MinKey(heap)
      taken == Heap!DeleteMin(heap)
      best  == IF Heap!WasInserted(other, node)
               THEN Meeting(heap, node, Heap!GetKey(other, node) + key, forward)
               ELSE [middle |-> middle, weight |-> weight]
  IN [best |-> best,
      heap |-> IF key + min_edge_offset > best.weight THEN Heap!DeleteAll(taken)
               ELSE IF stallAtNode(taken, node, key, forward) THEN taken
               ELSE relaxOutgoingEdges(taken, node, key, forward)]

SearchForward ==
  /\ step = "forward"
  /\ Heap!Size(forward_heap) + Heap!Size(reverse_heap) > 0
  /\ IF Heap!Empty(forward_heap) THEN UNCHANGED <<forward_heap, middle, weight>>
     ELSE LET r == routingStep(forward_heap, reverse_heap, TRUE)
          IN /\ forward_heap' = r.heap
             /\ middle' = r.best.middle /\ weight' = r.best.weight
  /\ step' = "reverse"
  /\ UNCHANGED <<hierarchyVars, reverse_heap, query, min_edge_offset, packed_leg, unpacked, table>>

SearchReverse ==
  /\ step = "reverse"
  /\ IF Heap!Empty(reverse_heap) THEN UNCHANGED <<reverse_heap, middle, weight>>
     ELSE LET r == routingStep(reverse_heap, forward_heap, FALSE)
          IN /\ reverse_heap' = r.heap
             /\ middle' = r.best.middle /\ weight' = r.best.weight
  /\ step' = "forward"
  /\ UNCHANGED <<hierarchyVars, forward_heap, query, min_edge_offset, packed_leg, unpacked, table>>

\* The parents of a node in a heap, nearest first.
retrievePackedPathFromSingleHeap(heap, node) ==
  LET up[k \in 0..Len(heap.inserted)] ==
        IF k = 0 THEN <<node>>
        ELSE LET path   == up[k - 1]
                 parent == Heap!GetData(heap, path[Len(path)])
             IN IF parent = path[Len(path)] \/ ~Heap!WasInserted(heap, parent) THEN path
                ELSE Append(path, parent)
  IN Tail(up[Len(heap.inserted)])

\* The edge of the query graph for a step of the packed path: the lightest that
\* leads forward at its first node, or backward at its second.
UnpackedEdge(from, to) ==
  LET candidates(at, end, forward) ==
        SelectSeq(Edges(at), LAMBDA e : e.target = end /\ Follows(e.data, forward))
      smallest(edges) == edges[CHOOSE i \in DOMAIN edges :
        \A j \in DOMAIN edges : \/ edges[i].data.weight < edges[j].data.weight
                                \/ edges[i].data.weight = edges[j].data.weight /\ i <= j]
      up == candidates(from, to, TRUE)
  IN smallest(IF up # << >> THEN up ELSE candidates(to, from, FALSE))

\* The shortcuts of a path replaced by their halves, once.
UnpackOnce(path) ==
  << path[1] >> \o FlattenSeq([i \in 1..(Len(path) - 1) |->
    LET data == UnpackedEdge(path[i], path[i + 1]).data
    IN IF data.shortcut THEN << data.id, path[i + 1] >> ELSE << path[i + 1] >>])

unpackPath(path) ==
  LET deep[k \in 0..input.nodes] == IF k = 0 THEN path ELSE UnpackOnce(deep[k - 1])
  IN deep[input.nodes]

FinishRoute ==
  /\ step = "forward"
  /\ Heap!Size(forward_heap) + Heap!Size(reverse_heap) = 0
  /\ weight' = IF query.leg.bound <= weight \/ middle = SPECIAL_NODEID
               THEN INVALID_EDGE_WEIGHT ELSE weight
  /\ packed_leg' =
       IF weight' = INVALID_EDGE_WEIGHT THEN << >>
       ELSE IF weight # Heap!GetKey(forward_heap, middle) + Heap!GetKey(reverse_heap, middle)
       THEN <<middle, middle>>
       ELSE Reverse(retrievePackedPathFromSingleHeap(forward_heap, middle)) \o <<middle>>
            \o retrievePackedPathFromSingleHeap(reverse_heap, middle)
  /\ unpacked' = IF packed_leg' = << >> THEN << >> ELSE unpackPath(packed_leg')
  /\ step' = "answered"
  /\ UNCHANGED <<hierarchyVars, forward_heap, reverse_heap, query, middle,
                 min_edge_offset, table>>
-----------------------------------------------------------------------------
(***************************************************************************)
(* manyToManySearch. The forward heap stands for many_to_many_heap.        *)
(***************************************************************************)
StartTable(sources, targets, filter) ==
  /\ phase = "served" /\ step = "idle"
  /\ query' = [kind |-> "table", sources |-> sources, targets |-> targets, filter |-> filter]
  /\ table' = [buckets |-> {}, row |-> 1, column |-> 1,
               weights |-> [i \in DOMAIN sources |->
                              [j \in DOMAIN targets |-> INVALID_EDGE_WEIGHT]]]
  /\ forward_heap' = InsertPlaces(Heap!Clear(forward_heap), targets[1], 1)
  /\ packed_leg' = << >> /\ unpacked' = << >>
  /\ step' = "backward"
  /\ UNCHANGED <<hierarchyVars, reverse_heap, middle, weight, min_edge_offset>>

\* What is left to do with a heap whose top was taken.
Explore(heap, node, key, forward) ==
  IF stallAtNode(heap, node, key, forward) THEN heap
  ELSE relaxOutgoingEdges(heap, node, key, forward)

backwardRoutingStep ==
  /\ step = "backward" /\ ~Heap!Empty(forward_heap)
  /\ LET node == Heap!Min(forward_heap)
         key  == Heap!MinKey(forward_heap)
     IN /\ table' = [table EXCEPT !.buckets =
                       @ \cup {[node |-> node, column |-> table.column, weight |-> key]}]
        /\ forward_heap' = Explore(Heap!DeleteMin(forward_heap), node, key, FALSE)
  /\ UNCHANGED <<hierarchyVars, reverse_heap, query, step, middle, weight, min_edge_offset,
                 packed_leg, unpacked>>

NextColumn ==
  /\ step = "backward" /\ Heap!Empty(forward_heap)
  /\ IF table.column < Len(query.targets)
     THEN /\ table' = [table EXCEPT !.column = @ + 1]
          /\ forward_heap' = InsertPlaces(Heap!Clear(forward_heap),
                                          query.targets[table.column + 1], 1)
          /\ UNCHANGED step
     ELSE /\ forward_heap' = InsertPlaces(Heap!Clear(forward_heap), query.sources[1], -1)
          /\ step' = "rows"
          /\ UNCHANGED table
  /\ UNCHANGED <<hierarchyVars, reverse_heap, query, middle, weight, min_edge_offset,
                 packed_leg, unpacked>>

\* The weight of a way over a bucket's node; addLoopWeight for one below zero.
BucketWeight(node, new_weight) ==
  IF new_weight >= 0 THEN new_weight
  ELSE LET loop == Min({INVALID_EDGE_WEIGHT} \cup Loops(node, TRUE))
       IN IF loop # INVALID_EDGE_WEIGHT /\ new_weight + loop >= 0 THEN new_weight + loop
          ELSE INVALID_EDGE_WEIGHT

forwardRoutingStep ==
  /\ step = "rows" /\ ~Heap!Empty(forward_heap)
  /\ LET node == Heap!Min(forward_heap)
         key  == Heap!MinKey(forward_heap)
         over(j) == {BucketWeight(node, key + b.weight) :
                       b \in {c \in table.buckets : c.node = node /\ c.column = j}}
     IN /\ table' = [table EXCEPT !.weights[table.row] =
                       [j \in DOMAIN @ |-> Min({@[j]} \cup over(j))]]
        /\ forward_heap' = Explore(Heap!DeleteMin(forward_heap), node, key, TRUE)
  /\ UNCHANGED <<hierarchyVars, reverse_heap, query, step, middle, weight, min_edge_offset,
                 packed_leg, unpacked>>

NextRow ==
  /\ step = "rows" /\ Heap!Empty(forward_heap)
  /\ IF table.row < Len(query.sources)
     THEN /\ table' = [table EXCEPT !.row = @ + 1]
          /\ forward_heap' = InsertPlaces(Heap!Clear(forward_heap),
                                          query.sources[table.row + 1], -1)
          /\ UNCHANGED step
     ELSE /\ step' = "answered"
          /\ UNCHANGED <<table, forward_heap>>
  /\ UNCHANGED <<hierarchyVars, reverse_heap, query, middle, weight, min_edge_offset,
                 packed_leg, unpacked>>

-----------------------------------------------------------------------------
(***************************************************************************)
(* The contraction hierarchy as a whole: a graph is contracted by several  *)
(* threads and then asked for routes and tables. The answers are compared  *)
(* with shortest paths of the graph that was read.                         *)
(***************************************************************************)

CONSTANTS
  Inputs,           \* edge-based graphs with node weights and filters
  Places(_),        \* the ends a query on a graph may have
  Legs,             \* the ways a route is asked for
  Tables(_)         \* the lists of ends a table may be asked for

vars == <<hierarchyVars, searchVars>>

Init ==
  /\ input \in Inputs
  /\ phase = "load"
  /\ graph = NoGraph
  /\ node_data = << >> /\ new_to_old = << >>
  /\ remaining_nodes = << >>
  /\ independent = {} /\ todo = {}
  /\ inserted_edges = [t \in Threads |-> << >>]
  /\ next_renumbering = 0 /\ number_of_core_nodes = 0
  /\ pass = 0
  /\ shared = NoGraph
  /\ edge_container = NoEdges
  /\ forward_heap = Heap!NewHeap(input.nodes, 0)
  /\ reverse_heap = Heap!NewHeap(input.nodes, 0)
  /\ query = NoQuery /\ step = "idle"
  /\ middle = SPECIAL_NODEID /\ weight = INVALID_EDGE_WEIGHT
  /\ min_edge_offset = 0
  /\ packed_leg = << >> /\ unpacked = << >>
  /\ table = NoTable

Allowed(places, filter) == \A i \in DOMAIN places : input.filters[filter][places[i][1]]

\* The answer is returned and the thread is free.
ReturnAnswer ==
  /\ step = "answered"
  /\ step' = "idle"
  /\ query' = NoQuery /\ table' = NoTable
  /\ middle' = SPECIAL_NODEID /\ weight' = INVALID_EDGE_WEIGHT
  /\ min_edge_offset' = 0
  /\ packed_leg' = << >> /\ unpacked' = << >>
  /\ UNCHANGED <<hierarchyVars, forward_heap, reverse_heap>>

Ask ==
  \E filter \in DOMAIN input.filters :
    \/ \E source, target \in Places(input) :
         /\ Allowed(source, filter) /\ Allowed(target, filter)
         /\ \E leg \in Legs : StartRoute(source, target, filter, leg)
    \/ \E ends \in Tables(input) :
         /\ \A i \in DOMAIN ends : Allowed(ends[i], filter)
         /\ StartTable(ends, ends, filter)

Search ==
  \/ SearchForward \/ SearchReverse \/ FinishRoute
  \/ backwardRoutingStep \/ NextColumn \/ forwardRoutingStep \/ NextRow

Next ==
  \/ Contract /\ UNCHANGED searchVars
  \/ Ask
  \/ Search
  \/ ReturnAnswer

Spec == Init /\ [][Next]_vars
-----------------------------------------------------------------------------
(***************************************************************************)
(* Reference: shortest distances in the graph that was read, over the      *)
(* nodes a filter allows. Distance(..)[u, u] is the shortest way around.   *)
(***************************************************************************)
EdgeWeight(u, v) ==
  Min({INVALID_EDGE_WEIGHT} \cup
      {Max({e.weight, 1}) : e \in {f \in ToSet(input.edges) :
         \/ f.forward  /\ f.source = u /\ f.target = v
         \/ f.backward /\ f.source = v /\ f.target = u}})

Sum(a, b) == IF a = INVALID_EDGE_WEIGHT \/ b = INVALID_EDGE_WEIGHT
             THEN INVALID_EDGE_WEIGHT ELSE a + b

Paths(nodes, allowed, Weight(_, _)) ==
  LET pairs == NodeIds(nodes) \X NodeIds(nodes)
      over[k \in 0..nodes] ==
        IF k = 0 THEN [p \in pairs |-> IF allowed[p[1]] /\ allowed[p[2]] /\ p[1] # p[2]
                                       THEN Weight(p[1], p[2]) ELSE INVALID_EDGE_WEIGHT]
        ELSE LET d == over[k - 1]
             IN [p \in pairs |-> Min({d[p], Sum(d[p[1], k - 1], d[k - 1, p[2]])})]
  IN over[nodes]

Distance(filter) == Paths(input.nodes, input.filters[filter], EdgeWeight)

\* The weight of the best route between the ends of a query: a route on one
\* segment goes on where the target is not before the source, and around
\* otherwise.
BestWeight(source, target, filter) ==
  LET d == Distance(filter)
      way(p, q) == IF p[1] = q[1] /\ q[2] >= p[2] THEN q[2] - p[2]
                   ELSE Sum(d[p[1], q[1]], q[2] - p[2])
  IN Min({way(source[i], target[j]) : i \in DOMAIN source, j \in DOMAIN target})
-----------------------------------------------------------------------------
\* The graph and its node data stay well formed (util::DynamicGraph).
TypeOK ==
  /\ phase \in {"load", "prioritise", "contract", "delete", "update", "contracted", "served"}
  /\ step \in {"idle", "forward", "reverse", "backward", "rows", "answered"}
  /\ independent \subseteq ToSet(remaining_nodes)
  /\ todo \subseteq ToSet(remaining_nodes)
  /\ pass = 0 => graph.number_of_edges =
                    Cardinality({e \in DOMAIN graph.edge_list : ~isDummy(graph, e)})

\* Runs of the edge list stay apart through the deletions of parallel threads,
\* insertions and renumberings (DynamicGraph::InsertEdge, DeleteEdgesTo).
LayoutSound == SoundLayout(graph)

\* Two nodes of a round are never adjacent and share no neighbour, so that
\* threads that contract them, delete the edges to them and lower the weights of
\* their neighbours work on different parts of the graph (IsNodeIndependent).
RoundsIndependent ==
  phase \in {"contract", "delete"} =>
    \A u, v \in independent : u # v =>
      /\ v \notin Neighbours(graph, u)
      /\ Neighbours(graph, u) \cap Neighbours(graph, v) = {}

\* Between rounds the edges among the nodes left have the distances of the graph
\* that was read (ContractNode, InsertShortcuts): no witness search that was cut
\* short lost a path.
CoreWeight(u, v) ==
  Min({INVALID_EDGE_WEIGHT} \cup
      {e.data.weight : e \in {f \in ToSet(Row(graph, u)) : f.target = v /\ f.data.forward}})

DistancesKept ==
  RoundOver /\ ~Excludable =>
    LET d == Distance(1)
        c == Paths(input.nodes, [v \in DOMAIN graph.node_array |-> v \in ToSet(Pool)], CoreWeight)
    IN \A u, v \in ToSet(Pool) : u # v => c[u, v] = d[new_to_old[u], new_to_old[v]]

\* A query whose target lies before its source on the same segment.
GoesAround(source, target) ==
  \E i \in DOMAIN source, j \in DOMAIN target :
    source[i][1] = target[j][1] /\ target[j][2] < source[i][2]

\* A route has the weight of the shortest path, on top of the weight the route had
\* before, when that is below the bound (ch::search): stalling and the test that ends
\* the searches lose none. With an exclusion, or where a loop is needed, it is never
\* better than that.
RouteShortest ==
  step = "answered" /\ query.kind = "route" =>
    LET best == Sum(query.leg.total, BestWeight(query.source, query.target, query.filter))
    IN /\ weight >= best
       /\ weight < query.leg.bound \/ weight = INVALID_EDGE_WEIGHT
       /\ /\ input.filters[query.filter] = AllNodes
          /\ ~GoesAround(query.source, query.target)
          => weight = IF best < query.leg.bound THEN best ELSE INVALID_EDGE_WEIGHT

\* The unpacked path is one of the graph that was read, over allowed nodes, from
\* an end to the other and of the weight that is reported (unpackPath).
UnpackedIsRoute ==
  step = "answered" /\ query.kind = "route" /\ unpacked # << >> =>
    LET first == unpacked[1]
        last  == unpacked[Len(unpacked)]
        edge(i) == EdgeWeight(unpacked[i], unpacked[i + 1])
        total == FoldLeft(Sum, 0, [i \in 1..(Len(unpacked) - 1) |-> edge(i)])
    IN /\ \A i \in DOMAIN unpacked : input.filters[query.filter][unpacked[i]]
       /\ \E i \in DOMAIN query.source, j \in DOMAIN query.target :
            /\ query.source[i][1] = first /\ query.target[j][1] = last
            /\ weight = Sum(total, query.leg.total + query.target[j][2] - query.source[i][2])

\* A table has the weights of the routes (manyToManySearch).
TableShortest ==
  step = "answered" /\ query.kind = "table" =>
    \A i \in DOMAIN query.sources, j \in DOMAIN query.targets :
      LET best == BestWeight(query.sources[i], query.targets[j], query.filter)
      IN /\ table.weights[i][j] >= best
         /\ /\ input.filters[query.filter] = AllNodes
            /\ ~GoesAround(query.sources[i], query.targets[j])
            => table.weights[i][j] = best

\* Every round contracts a node (the assertion at the end of contractGraph's
\* loop), so that the loop ends: ties of priorities are broken one way only.
RoundsProgress == phase = "contract" => independent # {}

\* Contraction by parallel threads keeps a sound graph, gets on with every round and
\* loses no distance.
ContractionSound ==
  /\ TypeOK
  /\ LayoutSound
  /\ RoundsIndependent
  /\ RoundsProgress
  /\ DistancesKept

\* What the searches on the hierarchy answer is what a search on the graph that was
\* read would: routes of the least weight that unpack to its edges, and tables of them.
AnswersExact == RouteShortest /\ UnpackedIsRoute /\ TableShortest
=============================================================================
