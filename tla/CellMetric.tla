----------------------------- MODULE CellMetric -----------------------------
(***************************************************************************)
(* From bisection ids to the multi-level partition of the edge-based       *)
(* graph: bisectionToPartition, removeUnconnectedBoundaryNodes,            *)
(* makePermutation and MultiLevelPartition, which packs the cells of a     *)
(* node on all levels into the bits of one integer.                        *)
(*                                                                         *)
(* A graph is a function from 0..n-1 to the sequence of a node's entries   *)
(* [target, forward, backward, weight, turn_id]. A partition is a function *)
(* from nodes to cells, partitions a sequence with the lowest level first. *)
(***************************************************************************)
EXTENDS Integers, Sequences, FiniteSets, FiniteSetsExt, SequencesExt, Algorithms

Lowest(S) == CHOOSE x \in S : \A y \in S : x <= y

NodesOf(n) == [i \in 1..n |-> i - 1]
-----------------------------------------------------------------------------
(***************************************************************************)
(* bisectionToPartition. A cell is the set of its nodes (a range of the    *)
(* permutation in the code), the highest bit it may be split by, and       *)
(* whether it is not to be split any more. A bisection id is the set of    *)
(* its one bits.                                                           *)
(***************************************************************************)
getLargeCells(max_cell_size, cells) ==
  SelectSeq([i \in DOMAIN cells |-> i],
            LAMBDA i : ~cells[i].tabu /\ Cardinality(cells[i].nodes) > max_cell_size)

\* A large cell is split by the highest bit its nodes have below the bit it was
\* made by.
SplitCell(ids, cells, index) ==
  LET cell == cells[index]
      bits == {b \in UNION {ids[n] : n \in cell.nodes} : b <= cell.bit}
      bit  == Max(bits)
      left == {n \in cell.nodes : bit \in ids[n]}
      kept == [nodes |-> cell.nodes, tabu |-> bit = 0, bit |-> IF bit > 0 THEN bit - 1 ELSE cell.bit]
  IN IF bits = {} THEN [cells EXCEPT ![index].tabu = TRUE]
     ELSE IF left = cell.nodes THEN [cells EXCEPT ![index] = kept]
     ELSE Append([cells EXCEPT ![index] = [kept EXCEPT !.nodes = left]],
                 [kept EXCEPT !.nodes = cell.nodes \ left])

RECURSIVE partitionLevel(_, _, _)
partitionLevel(ids, max_cell_size, cells) ==
  LET large == getLargeCells(max_cell_size, cells)
  IN IF large = << >> THEN cells
     ELSE partitionLevel(ids, max_cell_size,
            InTurn(LAMBDA c, i : SplitCell(ids, c, i), cells, large))

cellsToPartition(cells, nodes) ==
  Value([n \in nodes |-> (CHOOSE i \in DOMAIN cells : n \in cells[i].nodes) - 1])

\* The cells of every level, the largest level first: a level refines the cells
\* of the one above.
bisectionToPartition(ids, bits, max_cell_sizes) ==
  LET levels == Len(max_cell_sizes)
      all == << [nodes |-> DOMAIN ids, bit |-> bits - 1, tabu |-> FALSE] >>
      down[l \in 1..(levels + 1)] ==
        IF l = levels + 1 THEN all ELSE partitionLevel(ids, max_cell_sizes[l], down[l + 1])
  IN Value([partitions |-> [l \in 1..levels |-> cellsToPartition(down[l], DOMAIN ids)],
            num_cells  |-> [l \in 1..levels |-> Len(down[l])]])
-----------------------------------------------------------------------------
\* removeUnconnectedBoundaryNodes for one node on one level: a node with edges
\* that leave its cell and none inside moves to the cells of the neighbour that
\* gives the fewest border edges, among those in its cell one level up.
MoveUnconnected(graph, partitions, level, node) ==
  LET cell(l, n) == partitions[l][n]
      entries == graph[node]
      inside == SelectSeq(entries, LAMBDA e : cell(level, e.target) = cell(level, node))
      outside == SelectSeq(entries, LAMBDA e : cell(level, e.target) # cell(level, node))
      witnesses == SelectSeq(outside, LAMBDA e :
                     \/ level = Len(partitions)
                     \/ cell(level + 1, e.target) = cell(level + 1, node))
      induced(w) == Cardinality({<<i, l>> \in (DOMAIN entries) \X (1..level) :
                                   cell(l, entries[i].target) # cell(l, w.target)})
      least == Lowest({induced(witnesses[i]) : i \in DOMAIN witnesses})
      best == witnesses[Lowest({i \in DOMAIN witnesses : induced(witnesses[i]) = least})].target
  IN IF outside = << >> \/ (\E i \in DOMAIN inside : inside[i].forward \/ inside[i].backward)
        \/ witnesses = << >>
     THEN partitions
     ELSE Value([l \in DOMAIN partitions |->
             IF l <= level THEN [partitions[l] EXCEPT ![node] = partitions[l][best]] ELSE partitions[l]])

removeUnconnectedBoundaryNodes(graph, partitions) ==
  LET nodes == NodesOf(Cardinality(DOMAIN graph))
      levels == [i \in DOMAIN partitions |-> Len(partitions) + 1 - i]
  IN InTurn(LAMBDA p, l : InTurn(LAMBDA q, n : MoveUnconnected(graph, q, l, n), p, nodes),
              partitions, levels)
-----------------------------------------------------------------------------
getHighestBorderLevel(graph, partitions) ==
  [n \in DOMAIN graph |->
     Max({0} \cup {l \in DOMAIN partitions :
            \E m \in DOMAIN graph : \E i \in DOMAIN graph[m] :
              /\ partitions[l][m] # partitions[l][graph[m][i].target]
              /\ n \in {m, graph[m][i].target}})]

\* orderingToPermutation of the nodes sorted by cell on each level and then by
\* the highest level on which they are border nodes, descending.
makePermutation(graph, partitions) ==
  LET border == Value(getHighestBorderLevel(graph, partitions))
      byCell == InTurn(LAMBDA o, p : Value(StableSort(o, LAMBDA a, b : p[a] < p[b])),
                         NodesOf(Cardinality(DOMAIN graph)), partitions)
      ordering == StableSort(byCell, LAMBDA a, b : border[a] > border[b])
  IN Value([n \in DOMAIN graph |-> (CHOOSE i \in DOMAIN ordering : ordering[i] = n) - 1])

\* util::inplacePermutation.
Permute(values, permutation) ==
  Value([n \in DOMAIN values |-> values[CHOOSE m \in DOMAIN permutation : permutation[m] = n]])

\* DynamicGraph::Renumber, as the partitioner uses it.
RenumberGraph(graph, permutation) ==
  Permute([n \in DOMAIN graph |->
             [i \in DOMAIN graph[n] |-> [graph[n][i] EXCEPT !.target = permutation[@]]]], permutation)
-----------------------------------------------------------------------------
(***************************************************************************)
(* MultiLevelPartition. Level l has the bits offsets[l]..offsets[l+1]-1 of *)
(* a node's integer; the node after the last holds the numbers of cells.   *)
(***************************************************************************)
BitLength(k) == CHOOSE b \in 0..30 : 2^b >= k + 1 /\ \A c \in 0..30 : 2^c >= k + 1 => b <= c

\* ceil(log2(number of cells + 1)) bits: cells and the number of cells fit.
MakeLevelOffsets(num_cells) ==
  LET sum[l \in 1..(Len(num_cells) + 1)] ==
        IF l = 1 THEN 0 ELSE sum[l - 1] + BitLength(num_cells[l - 1])
  IN [l \in 1..(Len(num_cells) + 1) |-> sum[l]]

GetCell(mlp, level, node) ==
  (mlp.partition[node] % 2^(mlp.offsets[level + 1])) \div 2^(mlp.offsets[level])

\* The integer with the bits of a level replaced.
SetCellID(value, offsets, level, cell_id) ==
  LET low == 2^(offsets[level])
      mask == 2^(offsets[level + 1]) - low
      old == ((value % (low + mask)) \div low) * low
  IN value - old + cell_id * low

bit_to_level(mlp, bit) == Max({l \in 1..(Len(mlp.offsets) - 1) : mlp.offsets[l] <= bit})

GetHighestDifferentLevel(mlp, first, second) ==
  LET p == mlp.partition[first]
      q == mlp.partition[second]
      different == {b \in 0..mlp.offsets[Len(mlp.offsets)] : (p \div 2^b) % 2 # (q \div 2^b) % 2}
  IN IF p = q THEN 0 ELSE bit_to_level(mlp, Max(different))

GetQueryLevel(mlp, start, target, node) ==
  Lowest({GetHighestDifferentLevel(mlp, start, node), GetHighestDifferentLevel(mlp, target, node)})

GetNumberOfLevels(mlp) == Len(mlp.offsets)

GetNumberOfCells(mlp, level) == GetCell(mlp, level, Cardinality(DOMAIN mlp.partition) - 1)

\* InitializePartitionIDs: nodes are sorted by cell bottom-up, and the runs of
\* equal cells are numbered top-down; a run of a parent's nodes begins and ends
\* the children of the parent.
MakeMultiLevelPartition(partitions, num_cells) ==
  LET size == Cardinality(DOMAIN partitions[1])
      levels == Len(partitions)
      order == InTurn(LAMBDA o, p : Value(StableSort(o, LAMBDA a, b : p[a] < p[b])), NodesOf(size), partitions)
      offsets == MakeLevelOffsets(num_cells)
      starts(l) == {1} \cup {i \in 2..size : partitions[l][order[i]] # partitions[l][order[i - 1]]}
      number(l, i) == Cardinality({s \in starts(l) : s <= i}) - 1
      packed(cell(_)) == InTurn(LAMBDA v, l : SetCellID(v, offsets, l, cell(l)), 0,
                                  [k \in 1..levels |-> levels + 1 - k])
      place(n) == CHOOSE i \in DOMAIN order : order[i] = n
      first(l) == Ordered(starts(l), <)
  IN Value([offsets |-> offsets,
      partition |-> [n \in 0..size |->
        IF n = size THEN packed(LAMBDA l : Cardinality(starts(l)))
        ELSE packed(LAMBDA l : number(l, place(n)))],
      children |-> [l \in 2..levels |->
        [i \in DOMAIN first(l) |-> number(l - 1, first(l)[i])] \o << number(l - 1, size) + 1 >>]])

\* The children of a cell are the cells BeginChildren..EndChildren-1 below it.
BeginChildren(mlp, level, cell) == mlp.children[level][cell + 1]

EndChildren(mlp, level, cell) == mlp.children[level][cell + 2]

-----------------------------------------------------------------------------
(***************************************************************************)
(* The overlay of the multi-level Dijkstra search: MultiLevelGraph orders  *)
(* the edges of a node by the level they cross, CellStorage lists the      *)
(* border nodes of every cell, and CellCustomizer fills a vector with the  *)
(* weights of the shortest paths through the cells. The cells of a level   *)
(* are customised in parallel, with the weights of the level below.        *)
(***************************************************************************)

CONSTANTS
  Workers,              \* threads that customise cells
  INVALID_EDGE_WEIGHT

VARIABLES
  mlp,              \* the multi-level partition
  ebg,              \* the edge-based graph: node -> entries, by level
  edge_offsets,     \* node_to_edge_offset
  storage,          \* the cells: level -> cell -> border nodes and place of the values
  metrics,          \* for each filter the weights of the overlay
  custom,           \* where customizeFilteredMetrics is: filter, level, cells to do
  heaps             \* of each worker, kept from cell to cell

metricVars == <<mlp, ebg, edge_offsets, storage, metrics, custom, heaps>>

Heap == INSTANCE QueryHeap

-----------------------------------------------------------------------------
\* splitBidirectionalEdges and prepareEdgesForUsageInGraph: an edge is stored at
\* both ends, eigenloops go, the lightest edge of a direction stays, and edges of
\* the two directions with one weight become one entry with the turn of the
\* forward edge.
Entries(edges, node) ==
  LET all == FlattenSeq([i \in DOMAIN edges |->
        LET e == edges[i]
            entry(t, f) == [target |-> t, forward |-> f, backward |-> ~f, turn_id |-> e.turn_id,
                            weight |-> Max({e.weight, 1})]
        IN IF e.weight = INVALID_EDGE_WEIGHT \/ e.source = e.target THEN << >>
           ELSE (IF e.source = node THEN << entry(e.target, TRUE) >> ELSE << >>) \o
                (IF e.target = node THEN << entry(e.source, FALSE) >> ELSE << >>)])
      targets == Ordered({all[i].target : i \in DOMAIN all}, <)
      lightest(t, f) == StableSort(SelectSeq(all, LAMBDA e : e.target = t /\ e.forward = f),
                                   LAMBDA a, b : a.weight < b.weight)
      merged(t) == LET there == lightest(t, TRUE)
                       back == lightest(t, FALSE)
                   IN IF there = << >> THEN << back[1] >>
                      ELSE IF back = << >> THEN << there[1] >>
                      ELSE IF there[1].weight = back[1].weight
                      THEN << [there[1] EXCEPT !.backward = TRUE] >>
                      ELSE << there[1], back[1] >>
  IN FlattenSeq([k \in DOMAIN targets |-> merged(targets[k])])

LoadEdgeBasedGraph(nodes, edges) == Value([n \in 0..(nodes - 1) |-> Entries(edges, n)])

\* The edges graphToEdges writes back: one per turn that a forward entry has.
graphToEdges(graph) ==
  FlattenSeq([i \in 1..Cardinality(DOMAIN graph) |->
    LET forward == SelectSeq(graph[i - 1], LAMBDA e : e.forward)
    IN [k \in DOMAIN forward |-> [source |-> i - 1, target |-> forward[k].target,
                                  turn_id |-> forward[k].turn_id, weight |-> forward[k].weight]]])

\* MultiLevelGraph: a node's edges by the highest level they cross, then by
\* target. Border edges of a level are those from some place on.
SortEdgesByHighestLevel(partition, graph) ==
  [n \in DOMAIN graph |->
     LET level(e) == GetHighestDifferentLevel(partition, n, e.target)
     IN StableSort(graph[n], LAMBDA a, b : \/ level(a) < level(b)
                                           \/ level(a) = level(b) /\ a.target < b.target)]

\* The sort leaves the order of two entries to one target open.
EdgeOrders(partition, graph) ==
  LET sorted == Value(SortEdgesByHighestLevel(partition, graph))
      pairs == {<<n, i>> \in UNION {{m} \X (1..(Len(sorted[m]) - 1)) : m \in DOMAIN sorted} :
                  sorted[n][i].target = sorted[n][i + 1].target}
  IN {[n \in DOMAIN sorted |-> [i \in DOMAIN sorted[n] |->
         IF <<n, i>> \in swapped THEN sorted[n][i + 1]
         ELSE IF <<n, i - 1>> \in swapped THEN sorted[n][i - 1] ELSE sorted[n][i]]] : swapped \in SUBSET pairs}

\* node_to_edge_offset: how many edges of a node are below a level, for the
\* nodes up to the last border node.
EdgeOffsets(partition, graph) ==
  LET level(n, i) == GetHighestDifferentLevel(partition, n, graph[n][i].target)
      border == UNION {{n, graph[n][i].target} : <<n, i>> \in
        {<<m, k>> \in UNION {{m} \X (DOMAIN graph[m]) : m \in DOMAIN graph} : level(m, k) > 0}}
  IN [n \in 0..Max({0} \cup border) |-> [l \in 0..(GetNumberOfLevels(partition) - 1) |->
        Cardinality({i \in DOMAIN graph[n] : level(n, i) < l})]]

BeginBorderEdges(level, node) ==
  IF node \in DOMAIN edge_offsets THEN edge_offsets[node][level]
  ELSE IF level = 0 THEN 0 ELSE Len(ebg[node])

GetBorderEdgeRange(level, node) == SubSeq(ebg[node], BeginBorderEdges(level, node) + 1, Len(ebg[node]))

GetInternalEdgeRange(level, node) == SubSeq(ebg[node], 1, BeginBorderEdges(level, node))
-----------------------------------------------------------------------------
(***************************************************************************)
(* CellStorage. A border node of a cell with an edge that leads on inside  *)
(* is a source, with one that leads to it inside a destination; one with   *)
(* neither is kept as a destination.                                       *)
(***************************************************************************)
Boundary(partition, graph, level, cell) ==
  LET in(e) == GetCell(partition, level, e.target) = cell
      nodes == {n \in DOMAIN graph : /\ GetCell(partition, level, n) = cell
                                     /\ \E i \in DOMAIN graph[n] : ~in(graph[n][i])}
      source(n) == \E i \in DOMAIN graph[n] : in(graph[n][i]) /\ graph[n][i].forward
      destination(n) == \E i \in DOMAIN graph[n] : in(graph[n][i]) /\ graph[n][i].backward
  IN [sources |-> Ordered({n \in nodes : source(n)}, <),
      destinations |-> Ordered({n \in nodes : destination(n) \/ ~source(n)}, <)]

\* The number of values of the cells before a cell, level by level.
ValueOffset(cells, level, cell) ==
  LET size(l, c) == Len(cells[l][c].sources) * Len(cells[l][c].destinations)
      before == {<<l, c>> \in UNION {{k} \X (DOMAIN cells[k]) : k \in DOMAIN cells} :
                   l < level \/ (l = level /\ c < cell)}
  IN FoldSet(LAMBDA p, sum : sum + size(p[1], p[2]), 0, before)

MakeCellStorage(partition, graph) ==
  LET cells == Value([l \in 1..(GetNumberOfLevels(partition) - 1) |->
                  [c \in 0..(GetNumberOfCells(partition, l) - 1) |-> Boundary(partition, graph, l, c)]])
  IN Value([l \in DOMAIN cells |-> [c \in DOMAIN cells[l] |->
        [sources |-> cells[l][c].sources, destinations |-> cells[l][c].destinations,
         value_offset |-> ValueOffset(cells, l, c)]]])

\* MakeMetric: no way through any cell, and one value more than are used.
MakeMetric(cells) ==
  LET top == Len(cells)
      last == cells[top][Max(DOMAIN cells[top])]
  IN [i \in 1..(last.value_offset + Len(last.sources) * Len(last.destinations) + 1) |->
        INVALID_EDGE_WEIGHT]

PlaceOf(seq, x) == CHOOSE i \in DOMAIN seq : seq[i] = x

\* GetOutWeight: the row of a source, nothing for a node that is none.
GetOutWeight(metric, cell, node) ==
  IF node \notin ToSet(cell.sources) THEN << >>
  ELSE LET begin == cell.value_offset + Len(cell.destinations) * (PlaceOf(cell.sources, node) - 1)
       IN [j \in DOMAIN cell.destinations |-> metric[begin + j]]

\* GetInWeight: the column of a destination.
GetInWeight(metric, cell, node) ==
  IF node \notin ToSet(cell.destinations) THEN << >>
  ELSE LET begin == cell.value_offset + PlaceOf(cell.destinations, node)
       IN [i \in DOMAIN cell.sources |-> metric[begin + (i - 1) * Len(cell.destinations)]]
-----------------------------------------------------------------------------
(***************************************************************************)
(* CellCustomizer. The data of a heap node is whether a clique arc led to  *)
(* it; durations and distances follow the weights and are left out.        *)
(***************************************************************************)
\* The clique arcs of the subcell. An excluded destination is skipped without
\* moving on to the next destination.
RelaxClique(heap, metric, allowed, level, node, weight) ==
  LET cell == storage[level - 1][GetCell(mlp, level - 1, node)]
      step(s, w) ==
        IF w = INVALID_EDGE_WEIGHT THEN [s EXCEPT !.destination = @ + 1]
        ELSE LET to == cell.destinations[s.destination]
             IN IF ~allowed[to] THEN s
                ELSE [destination |-> s.destination + 1,
                      heap |-> Heap!Relax(s.heap, to, weight + w, TRUE)]
  IN InTurn(step, [destination |-> 1, heap |-> heap], GetOutWeight(metric, cell, node)).heap

\* The edges inside the cell that lead from one subcell to another.
RelaxEdges(heap, allowed, level, node, weight) ==
  InTurn(LAMBDA h, e :
             IF /\ allowed[e.target] /\ e.forward
                /\ level = 1 \/ GetCell(mlp, level - 1, node) # GetCell(mlp, level - 1, e.target)
             THEN Heap!Relax(h, e.target, weight + e.weight, FALSE) ELSE h,
           heap, GetInternalEdgeRange(level, node))

RelaxNode(heap, metric, allowed, level, node, weight) ==
  LET cliques == IF level > 1 /\ ~Heap!GetData(heap, node)
                 THEN RelaxClique(heap, metric, allowed, level, node, weight) ELSE heap
  IN RelaxEdges(cliques, allowed, level, node, weight)

\* The search from a source until all destinations are settled.
RECURSIVE ExploreCell(_, _, _, _, _)
ExploreCell(heap, metric, allowed, level, destinations) ==
  IF Heap!Empty(heap) \/ destinations = {} THEN heap
  ELSE LET node == Heap!Min(heap)
           weight == Heap!MinKey(heap)
       IN ExploreCell(RelaxNode(Heap!DeleteMin(heap), metric, allowed, level, node, weight),
                      metric, allowed, level, destinations \ {node})

CustomizeSource_NoClear(s, allowed, level, cell, row) ==
  LET source == cell.sources[row]
      goals == {n \in ToSet(cell.destinations) : allowed[n]}
      heap == ExploreCell(Heap!Insert(s.heap, source, 0, FALSE),
                          s.metric, allowed, level, goals)
      begin == cell.value_offset + (row - 1) * Len(cell.destinations)
      value(j) == LET n == cell.destinations[j]
                  IN IF Heap!WasInserted(heap, n) THEN Heap!GetKey(heap, n) ELSE INVALID_EDGE_WEIGHT
  IN IF ~allowed[source] THEN s
     ELSE [heap |-> heap,
           metric |-> Value([i \in DOMAIN s.metric |->
             IF i - begin \in DOMAIN cell.destinations THEN value(i - begin) ELSE s.metric[i]])]

\* The row of a source: s is the metric and the worker's heap.
CustomizeSource(s, allowed, level, cell, row) ==
  LET source == cell.sources[row]
      goals == {n \in ToSet(cell.destinations) : allowed[n]}
      heap == ExploreCell(Heap!Insert(Heap!Clear(s.heap), source, 0, FALSE),
                          s.metric, allowed, level, goals)
      begin == cell.value_offset + (row - 1) * Len(cell.destinations)
      value(j) == LET n == cell.destinations[j]
                  IN IF Heap!WasInserted(heap, n) THEN Heap!GetKey(heap, n) ELSE INVALID_EDGE_WEIGHT
  IN IF ~allowed[source] THEN s
     ELSE [heap |-> heap,
           metric |-> Value([i \in DOMAIN s.metric |->
             IF i - begin \in DOMAIN cell.destinations THEN value(i - begin) ELSE s.metric[i]])]

CellsOf(level) == 0..(GetNumberOfCells(mlp, level) - 1)

\* A worker customises a cell.
CustomizeCell(worker, id, filters) ==
  /\ id \in custom.todo
  /\ LET cell == storage[custom.level][id]
         r == InTurn(LAMBDA s, row : CustomizeSource(s, filters[custom.filter], custom.level, cell, row),
                       [metric |-> metrics[custom.filter], heap |-> heaps[worker]],
                       [i \in DOMAIN cell.sources |-> i])
     IN /\ metrics' = [metrics EXCEPT ![custom.filter] = r.metric]
        /\ heaps' = [heaps EXCEPT ![worker] = r.heap]
  /\ custom' = [custom EXCEPT !.todo = @ \ {id}]
  /\ UNCHANGED <<mlp, ebg, edge_offsets, storage>>

\* The parallel loop over the cells of a level ends before that of the next
\* begins.
NextLevel ==
  /\ custom.todo = {}
  /\ custom.level < GetNumberOfLevels(mlp) - 1
  /\ custom' = [custom EXCEPT !.level = @ + 1, !.todo = CellsOf(custom.level + 1)]
  /\ UNCHANGED <<mlp, ebg, edge_offsets, storage, metrics, heaps>>

\* The heaps are made anew for the metric of the next filter.
NextFilter ==
  /\ custom.todo = {}
  /\ custom.level = GetNumberOfLevels(mlp) - 1
  /\ custom.filter < Len(metrics)
  /\ custom' = [filter |-> custom.filter + 1, level |-> 1, todo |-> CellsOf(1)]
  /\ heaps' = [w \in Workers |-> Heap!NewHeap(Cardinality(DOMAIN ebg), Cardinality(DOMAIN ebg))]
  /\ UNCHANGED <<mlp, ebg, edge_offsets, storage, metrics>>

Customized ==
  custom.todo = {} /\ custom.level = GetNumberOfLevels(mlp) - 1 /\ custom.filter = Len(metrics)
=============================================================================
