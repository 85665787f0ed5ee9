--------------------------- MODULE AlternativesCH ---------------------------
(* The alternative route of the contraction hierarchy                      *)
(* (engine/routing_algorithms/alternative_path_ch.cpp): both searches go   *)
(* on past the shortest path, every node both reached is a candidate to    *)
(* route via, and the first candidate that is not much longer, not too     *)
(* much the same and locally optimal gives the alternative.                *)
(* A graph is a record:                                                    *)
(*   base  the edges <<from, to, weight>> before contraction               *)
(*   ch    the sequence of contracted edges, each stored at its lower node *)
(*   up    up[forward][v]: the nodes a search up the hierarchy from v      *)
(*         reaches, each with [weight, path], path from v                  *)
(*   best  <<s, t>> -> weight of a shortest path                           *)
(* The half searches from a via node and the search of the T-test are      *)
(* taken by what they return.                                              *)
EXTENDS Integers, Sequences, SequencesExt, FiniteSetsExt, TLC
CONSTANTS Nodes, Graphs, Queries, None
VARIABLE job

Heap == INSTANCE QueryHeap
INVALID == 10000
SPECIAL == -1

Stretch == 115
Gamma == 75
Alpha == 25

Follows(e, forward) == IF forward THEN e.forward ELSE e.backward
Adjacent(g, node) == SelectSeq(g.ch, LAMBDA e : e.node = node)

\* FindEdge does not look at the direction of an edge.
FindEdgeInEitherDirection(g, from, to) ==
  LET at(a, b) == SelectSeq(g.ch, LAMBDA e : e.node = a /\ e.target = b)
  IN IF at(from, to) # <<>> THEN at(from, to)[1] ELSE at(to, from)[1]
WeightOf(g, from, to) == FindEdgeInEitherDirection(g, from, to).weight

LoopWeight(g, node) ==
  Min({INVALID} \cup {e.weight : e \in {f \in ToSet(g.ch) : f.forward /\ f.node = node /\ f.target = node}})

-----------------------------------------------------------------------------
(* The search for the shortest path, and for what lies around it.          *)

InsertPlaces(heap, places, sign) ==
  FoldLeft(LAMBDA h, p : Heap!Insert(h, p[1], sign * p[2], p[1]), heap, places)

Met(j, node, new_weight) ==
  LET loop == LoopWeight(j.graph, node)
  IN IF new_weight >= j.upper THEN [middle |-> j.middle, upper |-> j.upper]
     ELSE IF new_weight >= 0 THEN [middle |-> node, upper |-> new_weight]
     ELSE IF loop # INVALID /\ new_weight + loop <= j.upper THEN [middle |-> node, upper |-> loop]
     ELSE [middle |-> j.middle, upper |-> j.upper]

Relaxed(g, heap, node, key, forward) ==
  FoldLeft(LAMBDA h, e : IF Follows(e, forward) THEN Heap!Relax(h, e.target, key + e.weight, node) ELSE h,
           heap, Adjacent(g, node))

\* [heap, space, vias, middle, upper] after one step of a search.
alternativeRoutingStep(j, heap, other, space, forward) ==
  LET node == Heap!Min(heap)
      key == Heap!MinKey(heap)
      taken == Heap!DeleteMin(heap)
      far == j.upper # INVALID /\ ((key + j.offset) * 100) \div Stretch > j.upper
      met == Heap!WasInserted(other, node)
      best == IF met THEN Met(j, node, Heap!GetKey(other, node) + key) ELSE [middle |-> j.middle, upper |-> j.upper]
  IN IF far THEN [heap |-> Heap!DeleteAll(taken), space |-> space, vias |-> j.vias,
                  middle |-> j.middle, upper |-> j.upper]
     ELSE [heap |-> Relaxed(j.graph, taken, node, key, forward),
           space |-> Append(space, <<Heap!GetData(heap, node), node>>),
           vias |-> IF met THEN j.vias \cup {node} ELSE j.vias,
           middle |-> best.middle, upper |-> best.upper]

StepForward ==
  /\ job.phase = "forward" /\ Heap!Size(job.fheap) + Heap!Size(job.rheap) > 0
  /\ job' = IF Heap!Empty(job.fheap) THEN [job EXCEPT !.phase = "reverse"]
            ELSE LET s == alternativeRoutingStep(job, job.fheap, job.rheap, job.fspace, TRUE)
                 IN [job EXCEPT !.phase = "reverse", !.fheap = s.heap, !.fspace = s.space,
                                !.vias = s.vias, !.middle = s.middle, !.upper = s.upper]
StepReverse ==
  /\ job.phase = "reverse"
  /\ job' = IF Heap!Empty(job.rheap) THEN [job EXCEPT !.phase = "forward"]
            ELSE LET s == alternativeRoutingStep(job, job.rheap, job.fheap, job.rspace, FALSE)
                 IN [job EXCEPT !.phase = "forward", !.rheap = s.heap, !.rspace = s.space,
                                !.vias = s.vias, !.middle = s.middle, !.upper = s.upper]

-----------------------------------------------------------------------------
(* Preselection of via nodes.                                              *)

\* A node and its parents, up to the root of the heap.
Ancestors(heap, node) ==
  LET up[k \in 0..Cardinality(Nodes)] ==
        IF k = 0 THEN <<node>>
        ELSE LET parent == Heap!GetData(heap, Last(up[k - 1]))
             IN IF parent = Last(up[k - 1]) THEN up[k - 1] ELSE Append(up[k - 1], parent)
  IN up[Cardinality(Nodes)]
PackedPath(fheap, rheap, middle) ==
  Reverse(Ancestors(fheap, middle)) \o Tail(Ancestors(rheap, middle))

path_is_a_loop(j) == j.upper # Heap!GetKey(j.fheap, j.middle) + Heap!GetKey(j.rheap, j.middle)
ShortestPacked(j) ==
  IF path_is_a_loop(j) THEN <<j.middle, j.middle>> ELSE PackedPath(j.fheap, j.rheap, j.middle)

\* What a settled node shares with the shortest path: its key when it lies on the
\* path, else what its parent shares, if that is known by then.
ApproximatedSharing(space, heap, on_path) ==
  FoldLeft(LAMBDA sharing, e :
             IF e[2] \in DOMAIN sharing THEN sharing
             ELSE IF e[2] \in on_path THEN sharing @@ (e[2] :> Heap!GetKey(heap, e[2]))
             ELSE IF e[1] \in DOMAIN sharing THEN sharing @@ (e[2] :> sharing[e[1]]) ELSE sharing,
           <<>>, space)
SharingOf(sharing, node) == IF node \in DOMAIN sharing THEN sharing[node] ELSE 0

Passes(j, node, fsharing, rsharing) ==
  LET sharing == SharingOf(fsharing, node) + SharingOf(rsharing, node)
      weight == Heap!GetKey(j.fheap, node) + Heap!GetKey(j.rheap, node)
  IN /\ weight * 100 < j.upper * Stretch
     /\ sharing * 100 <= j.upper * Gamma
     /\ (weight - sharing) * 100 < Stretch * (j.upper - sharing)

Preselected(j) ==
  LET on_path == ToSet(ShortestPacked(j))
      fsharing == ApproximatedSharing(j.fspace, j.fheap, on_path)
      rsharing == ApproximatedSharing(j.rspace, j.rheap, on_path)
  IN {node \in j.vias \ {j.middle} : Passes(j, node, fsharing, rsharing)}

Preselect ==
  /\ job.phase = "forward" /\ Heap!Size(job.fheap) + Heap!Size(job.rheap) = 0
  /\ job' = IF job.upper = INVALID THEN [job EXCEPT !.phase = "done"]
            ELSE [job EXCEPT !.phase = "rank", !.packed = ShortestPacked(job), !.todo = Preselected(job)]

-----------------------------------------------------------------------------
(* The path via a node: the searches from both ends, met by half searches. *)

\* [weight, path], path from the source or to the target; path = <<>>: none.
HalfPath(g, heap, via, forward) ==
  LET reached == g.up[forward][via]
      meets == {m \in DOMAIN reached : Heap!WasInserted(heap, m)}
      total(m) == LET w == Heap!GetKey(heap, m) + reached[m].weight
                  IN IF w >= 0 THEN w
                     ELSE IF LoopWeight(g, m) # INVALID /\ w + LoopWeight(g, m) >= 0
                     THEN w + LoopWeight(g, m) ELSE INVALID
      least == {m \in meets : \A n \in meets : total(m) <= total(n)}
      middle == CHOOSE m \in least : TRUE
      tail == Tail(Ancestors(heap, middle))
  IN IF meets = {} \/ total(middle) = INVALID THEN [weight |-> INVALID, path |-> <<>>]
     ELSE [weight |-> total(middle),
           path |-> IF forward THEN reached[middle].path \o tail
                    ELSE Reverse(reached[middle].path \o tail)]

ToVia(j, via) == HalfPath(j.graph, j.fheap, via, FALSE)
FromVia(j, via) == HalfPath(j.graph, j.rheap, via, TRUE)

\* The lightest edge that leads from one node to the other, at either of them.
DirectedEdge(g, from, to) ==
  LET at(a, b, forward) == SelectSeq(g.ch, LAMBDA e : e.node = a /\ e.target = b /\ Follows(e, forward))
      edges == IF at(from, to, TRUE) # <<>> THEN at(from, to, TRUE) ELSE at(to, from, FALSE)
  IN CHOOSE e \in ToSet(edges) : \A f \in ToSet(edges) : e.weight <= f.weight

\* unpackEdge: the nodes of the base path of a contracted edge.
RECURSIVE unpackEdge(_, _, _)
unpackEdge(g, from, to) ==
  LET e == DirectedEdge(g, from, to)
  IN IF ~e.shortcut THEN <<from, to>>
     ELSE unpackEdge(g, from, e.middle) \o Tail(unpackEdge(g, e.middle, to))
unpackPath(g, path) ==
  <<path[1]>> \o FlattenSeq([i \in 1..(Len(path) - 1) |-> Tail(unpackEdge(g, path[i], path[i + 1]))])

SumEdges(g, p, indexes) == MapThenSumSet(LAMBDA i : WeightOf(g, p[i], p[i + 1]), indexes)
\* The leading edges two unpacked paths have in common.
CommonPrefix(p, q) == {i \in 1..(Min({Len(p), Len(q)}) - 1) : \A k \in 1..(i + 1) : p[k] = q[k]}

\* The edges two packed paths share before the first place where they part, and that place
\* (0: none).
Parting(p, q) ==
  Min({Min({Len(p), Len(q)})} \cup {i \in 1..(Min({Len(p), Len(q)}) - 1) : p[i] = q[i] /\ p[i + 1] # q[i + 1]})
SharedPacked(p, q) == {i \in 1..(Parting(p, q) - 1) : p[i] = q[i] /\ p[i + 1] = q[i + 1]}
Parts(p, q) == Parting(p, q) < Min({Len(p), Len(q)})

\* The sharing of one end: whole packed edges first, then the edges of the pair that parts.
SharedAtStart(g, via, shortest) ==
  LET n == Parting(via, shortest)
      u == IF Parts(via, shortest) THEN unpackEdge(g, via[n], via[n + 1]) ELSE <<>>
      v == IF Parts(via, shortest) THEN unpackEdge(g, shortest[n], shortest[n + 1]) ELSE <<>>
  IN [weight |-> SumEdges(g, via, SharedPacked(via, shortest)) + SumEdges(g, u, CommonPrefix(u, v)),
      via |-> u, shortest |-> v]
\* At the other end the pair that parts is appended to the pair of the start.
SharedAtEnd(g, via, shortest, start) ==
  LET p == Reverse(via)
      q == Reverse(shortest)
      n == Parting(p, q)
      u == Reverse(start.via \o (IF Parts(p, q) THEN unpackEdge(g, p[n + 1], p[n]) ELSE <<>>))
      v == Reverse(start.shortest \o (IF Parts(p, q) THEN unpackEdge(g, q[n + 1], q[n]) ELSE <<>>))
  IN SumEdges(g, p, SharedPacked(p, q)) + SumEdges(g, u, CommonPrefix(u, v))

\* The sum of two weights; one of them INVALID overflows unless the other is zero.
Outcomes(a, b) ==
  IF a # INVALID /\ b # INVALID THEN {a + b}
  ELSE IF a = 0 \/ b = 0 THEN {INVALID} ELSE {-INVALID, INVALID}

SharingOfViaPath(j, to, from) ==
  LET start == SharedAtStart(j.graph, to.path, j.packed)
  IN IF to.path = <<>> \/ from.path = <<>> THEN 0
     ELSE start.weight + SharedAtEnd(j.graph, from.path, j.packed, start)

\* computeWeightAndSharingOfViaPath for the next node.
RankVia ==
  /\ job.phase = "rank" /\ job.todo # {}
  /\ LET via == Min(job.todo)
         to == ToVia(job, via)
         from == FromVia(job, via)
         sharing == SharingOfViaPath(job, to, from)
     IN \E weight \in Outcomes(to.weight, from.weight) :
          LET kept == sharing <= (job.upper * Gamma) \div 100 /\ weight * 100 <= job.upper * Stretch
          IN job' = [job EXCEPT !.todo = @ \ {via},
                                !.ranked = IF kept THEN @ \cup {[node |-> via, weight |-> weight, sharing |-> sharing]}
                                           ELSE @]
Ranked ==
  /\ job.phase = "rank" /\ job.todo = {}
  /\ job' = [job EXCEPT !.phase = "test"]

-----------------------------------------------------------------------------
(* The T-test: the path around the via node is a shortest one.             *)

T_threshold(j) == (Alpha * j.upper) \div 100

\* The node the tested part reaches, away from the via node, and its weight: packed edges
\* as long as they fit, then the halves of the first that does not.
RECURSIVE Descend(_, _, _, _)
Descend(j, near, far, weight) ==
  LET e == FindEdgeInEitherDirection(j.graph, near, far)
      first == WeightOf(j.graph, near, e.middle)
  IN IF ~e.shortcut THEN [node |-> far, weight |-> weight + e.weight]
     ELSE IF weight + first >= T_threshold(j) THEN Descend(j, near, e.middle, weight)
     ELSE Descend(j, e.middle, far, weight + first)
RECURSIVE TestedPart(_, _, _, _)
TestedPart(j, path, i, weight) ==
  IF i = Len(path) THEN [node |-> path[i], weight |-> weight]
  ELSE LET w == WeightOf(j.graph, path[i], path[i + 1])
       IN IF weight + w >= T_threshold(j) THEN Descend(j, path[i], path[i + 1], weight)
          ELSE TestedPart(j, path, i + 1, weight + w)

\* The comparison accepts a part that is longer than the shortest way between its ends.
viaNodeCandidatePassesTTest(j, to, from) ==
  LET s == TestedPart(j, Reverse(to.path), 1, 0)
      t == TestedPart(j, from.path, 1, 0)
  IN j.graph.best[<<s.node, t.node>>] <= s.weight + t.weight

\* std::sort leaves candidates of equal rank in any order.
TestVia ==
  /\ job.phase = "test" /\ job.ranked # {}
  /\ \E c \in job.ranked :
       /\ \A d \in job.ranked : 2 * c.weight + c.sharing <= 2 * d.weight + d.sharing
       /\ LET to == ToVia(job, c.node)
              from == FromVia(job, c.node)
              passes == to.path # <<>> /\ from.path # <<>> /\ viaNodeCandidatePassesTTest(job, to, from)
          IN job' = IF ~passes THEN [job EXCEPT !.ranked = @ \ {c}]
                    ELSE [job EXCEPT !.phase = "done", !.via = c.node, !.alternative =
                            [weight |-> to.weight + from.weight,
                             nodes |-> unpackPath(job.graph, to.path \o Tail(from.path))]]
NoAlternative ==
  /\ job.phase = "test" /\ job.ranked = {}
  /\ job' = [job EXCEPT !.phase = "done"]

Init ==
  \E g \in Graphs, q \in Queries :
    LET fheap == InsertPlaces(Heap!NewHeap(Cardinality(Nodes), 0), q.sources, -1)
    IN job = [service |-> "alternativesCH", graph |-> g, query |-> q, phase |-> "forward",
              fheap |-> fheap, rheap |-> InsertPlaces(Heap!NewHeap(Cardinality(Nodes), 0), q.targets, 1),
              offset |-> IF Heap!Empty(fheap) THEN 0 ELSE Min({0, Heap!MinKey(fheap)}),
              middle |-> SPECIAL, upper |-> INVALID, fspace |-> <<>>, rspace |-> <<>>, vias |-> {},
              packed |-> <<>>, todo |-> {}, ranked |-> {}, via |-> None, alternative |-> None]

Next == StepForward \/ StepReverse \/ Preselect \/ RankVia \/ Ranked \/ TestVia \/ NoAlternative

Spec == Init /\ [][Next]_job

-----------------------------------------------------------------------------
(* Properties *)

Done == job.service = "alternativesCH" /\ job.phase = "done"
BaseWeight(g, u, v) == (CHOOSE e \in g.base : e[1] = u /\ e[2] = v)[3]
IsWalk(g, p) == \A i \in 1..(Len(p) - 1) : \E e \in g.base : e[1] = p[i] /\ e[2] = p[i + 1]
WalkWeight(g, p) == FoldLeft(LAMBDA x, i : x + BaseWeight(g, p[i], p[i + 1]), 0, [i \in 1..(Len(p) - 1) |-> i])
OffsetOf(places, node) == (CHOOSE p \in ToSet(places) : p[1] = node)[2]
RouteWeight(q, g, p) == WalkWeight(g, p) + OffsetOf(q.targets, Last(p)) - OffsetOf(q.sources, p[1])

\* The least way from a node back to it.
Around(g, node) == Min({INVALID} \cup {e[3] + g.best[<<e[2], node>>] : e \in {f \in g.base : f[1] = node}})

\* Going on past the shortest path does not lose it: the primary route is a least one
\* (alternativeRoutingStep; a path that is a loop at one node is set apart, the code
\* records the weight of the loop alone).
CHPrimaryLeast ==
  Done /\ (job.upper = INVALID \/ ~path_is_a_loop(job)) =>
    LET ends == {<<s, t>> : s \in ToSet(job.query.sources), t \in ToSet(job.query.targets)}
        drive(e) == IF e[1][1] = e[2][1] /\ e[2][2] < e[1][2] THEN Around(job.graph, e[1][1])
                    ELSE job.graph.best[<<e[1][1], e[2][1]>>]
        weight(e) == IF drive(e) >= INVALID THEN INVALID ELSE drive(e) + e[2][2] - e[1][2]
    IN job.upper = Min({weight(e) : e \in ends})

\* The alternative is a road from a source to a target with the weight it was chosen
\* for, at most 15 % above the primary route (retrievePackedAlternatePath joins halves
\* found by three different searches).
CHAlternativeSound ==
  Done /\ job.alternative # None =>
    LET p == job.alternative.nodes
    IN /\ p[1] \in {s[1] : s \in ToSet(job.query.sources)} /\ Last(p) \in {t[1] : t \in ToSet(job.query.targets)}
       /\ IsWalk(job.graph, p)
       /\ RouteWeight(job.query, job.graph, p) = job.alternative.weight
       /\ job.alternative.weight * 100 <= 115 * job.upper

\* The alternative leaves the primary route: it has at most 75 % of the primary's weight
\* in edges of it, and is another path.
CHAlternativeDiffers ==
  Done /\ job.alternative # None =>
    LET p == job.alternative.nodes
        q == unpackPath(job.graph, job.packed)
        edges(r) == {<<r[i], r[i + 1]>> : i \in 1..(Len(r) - 1)}
    IN p # q /\ MapThenSumSet(LAMBDA e : BaseWeight(job.graph, e[1], e[2]), edges(p) \cap edges(q)) * 100
                  <= 75 * job.upper

\* The primary route is least, and an alternative is a whole route that leaves it.
CHAlternatives == CHPrimaryLeast /\ CHAlternativeSound /\ CHAlternativeDiffers
=============================================================================
