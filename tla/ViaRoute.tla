------------------------------ MODULE ViaRoute ------------------------------
(* Routes through waypoints                                                *)
(* (engine/routing_algorithms/shortest_path_impl.hpp and the loop rules of *)
(* routing_base.cpp).  A waypoint is the sequence of its candidates, each  *)
(*   [f, r]      nodes of its two directions, r = 0 for a one-way          *)
(*   [fw, rw]    weight plus offset in each direction                      *)
(*   [fs, ft, rs, rt]  valid forward/reverse source/target                 *)
(* The search of one leg is taken by what it returns.  Between two nodes   *)
(* that is a least walk.  At one node, where a loop is forced or the       *)
(* offsets leave less than nothing to drive, it is the loop the algorithm  *)
(* finds: in a contraction hierarchy only one the contractor stored or one *)
(* over a higher node (routing_base_ch.hpp), which may be a longer one     *)
(* than the least, or none.                                                *)
EXTENDS Integers, Sequences, SequencesExt, FiniteSetsExt
CONSTANTS Best,           \* <<s, t>>, s # t -> [weight, path]; weight = INVALID: no walk
          Loops,          \* node -> [weight, path], the loop found at it; INVALID: none
          Trips,          \* sequences of waypoints asked for
          ContinueDefault, \* the profile's default at waypoints
          None
VARIABLE job

INVALID == 10000          \* INVALID_EDGE_WEIGHT
INVALID_LEG == 0          \* INVALID_LEG_INDEX (indexes count from 1 here)

requiresForwardLoop_Never(source, target) == FALSE
requiresForwardLoop(source, target) ==
  source.fs /\ target.ft /\ source.f = target.f /\ source.fw > target.fw
requiresBackwardLoop(source, target) ==
  source.rs /\ target.rt /\ source.r = target.r /\ source.rw > target.rw

getForwardLoopNodes(sources, targets) ==
  {sources[i].f : i \in {k \in DOMAIN sources :
                           \E l \in DOMAIN targets : requiresForwardLoop(sources[k], targets[l])}}
getBackwardLoopNodes(sources, targets) ==
  {sources[i].r : i \in {k \in DOMAIN sources :
                           \E l \in DOMAIN targets : requiresBackwardLoop(sources[k], targets[l])}}

-----------------------------------------------------------------------------
(* The search of one leg: heaps are sets of <<node, weight>>.              *)

Walk(s, t) == IF s = t THEN Loops[s] ELSE Best[<<s, t>>]

Path(s, t, forced, weight) ==
  IF s = t /\ s \notin forced /\ weight >= 0 THEN [weight |-> weight, path |-> <<s>>]
  ELSE LET b == Walk(s, t)
       IN IF b.weight = INVALID THEN [weight |-> INVALID, path |-> <<>>]
          ELSE [weight |-> weight + b.weight, path |-> b.path]

\* Any least path; nothing at all when no target is reached.
Searched(forward_heap, reverse_heap, forced) ==
  LET found == {p \in {Path(s[1], t[1], forced, s[2] + t[2]) : s \in forward_heap, t \in reverse_heap} :
                  p.weight # INVALID}
      least == {p \in found : \A q \in found : p.weight <= q.weight}
  IN IF found = {} THEN {[weight |-> INVALID, path |-> <<>>]} ELSE least

\* The nodes a leg may start at, with the weight of the way there taken in.
ForwardHeap(sources, reached_f, reached_r, weight_f, weight_r) ==
  {<<sources[i].f, weight_f[i] - sources[i].fw>> : i \in {k \in DOMAIN sources : reached_f[k] /\ sources[k].fs}}
  \cup {<<sources[i].r, weight_r[i] - sources[i].rw>> : i \in {k \in DOMAIN sources : reached_r[k] /\ sources[k].rs}}

Always(sources) == [i \in DOMAIN sources |-> TRUE]
Weighing(sources, w) == [i \in DOMAIN sources |-> w]

\* searchWithUTurn
SearchesWithUTurn(sources, targets, total_weight) ==
  Searched(ForwardHeap(sources, Always(sources), Always(sources),
                       Weighing(sources, total_weight), Weighing(sources, total_weight)),
           {<<targets[i].f, targets[i].fw>> : i \in {k \in DOMAIN targets : targets[k].ft}}
             \cup {<<targets[i].r, targets[i].rw>> : i \in {k \in DOMAIN targets : targets[k].rt}},
           getForwardLoopNodes(sources, targets) \cup getBackwardLoopNodes(sources, targets))

NotSearched == {[weight |-> INVALID, path |-> <<>>]}

\* search to the forward node of one target, and to its reverse node
SearchesToForward(sources, last, target) ==
  IF ~target.ft THEN NotSearched
  ELSE Searched(ForwardHeap(sources, last.reached_f, last.reached_r, last.weight_f, last.weight_r),
                {<<target.f, target.fw>>}, getForwardLoopNodes(sources, <<target>>))
SearchesToReverse(sources, last, target) ==
  IF ~target.rt THEN NotSearched
  ELSE Searched(ForwardHeap(sources, last.reached_f, last.reached_r, last.weight_f, last.weight_r),
                {<<target.r, target.rw>>}, getBackwardLoopNodes(sources, <<target>>))

-----------------------------------------------------------------------------
(* The result: per leg its packed path and its end candidates.             *)

CandidateOf(candidates, node) ==
  SelectInSeq(candidates, LAMBDA c : node \in {c.f, c.r})

constructRouteResult(waypoints, indices, paths, begin, weight) ==
  [weight |-> weight,
   legs |-> [i \in 1..(Len(waypoints) - 1) |->
     LET path == SubSeq(paths, begin[indices[i]] + 1, begin[indices[i] + 1])
         source == CandidateOf(waypoints[i], path[1])
         target == CandidateOf(waypoints[i + 1], path[Len(path)])
     IN [path |-> path, source |-> source, target |-> target,
         source_reversed |-> path[1] # waypoints[i][source].f,
         target_reversed |-> path[Len(path)] # waypoints[i + 1][target].f]]]

NoRoute == [weight |-> INVALID, legs |-> <<>>]

-----------------------------------------------------------------------------
(* U-turns allowed: one search per leg, from any candidate to any.         *)

UTurnLeg ==
  /\ job.phase = "uturn" /\ job.leg < Len(job.waypoints)
  /\ \E found \in SearchesWithUTurn(job.waypoints[job.leg], job.waypoints[job.leg + 1], job.weight) :
       job' = IF found.weight = INVALID THEN [job EXCEPT !.phase = "done", !.route = NoRoute]
              ELSE [job EXCEPT !.leg = @ + 1, !.begin = Append(@, Len(job.paths)),
                               !.paths = @ \o found.path, !.weight = found.weight]

UTurnRoute ==
  /\ job.phase = "uturn" /\ job.leg = Len(job.waypoints)
  /\ LET begin == Append(job.begin, Len(job.paths))
     IN job' = [job EXCEPT !.phase = "done",
                  !.route = constructRouteResult(job.waypoints, [i \in 1..(job.leg - 1) |-> i],
                                                 job.paths, begin, job.weight)]

-----------------------------------------------------------------------------
(* No U-turns: a dynamic program over the directions of each waypoint.     *)

EmptyLeg == [reached_f |-> <<>>, reached_r |-> <<>>, weight_f |-> <<>>, weight_r |-> <<>>,
             nodes_f |-> <<>>, nodes_r |-> <<>>]

\* The candidate and direction a leg starts with, as a link into the paths of the
\* leg before: two paths per candidate, forward before reverse.
previousForwardPath(offset, i) == offset + 2 * (i - 1) + 1
previousReversePath(offset, i) == offset + 2 * (i - 1) + 2

Starts(sources, found) ==
  LET forward == {i \in DOMAIN sources : sources[i].fs /\ found.path[1] = sources[i].f}
      reverse == {i \in DOMAIN sources : sources[i].rs /\ found.path[1] = sources[i].r}
  IN IF forward # {} THEN [reverse |-> FALSE, i |-> CHOOSE i \in forward : TRUE]
     ELSE [reverse |-> TRUE, i |-> CHOOSE i \in reverse : TRUE]

LinkBack(sources, last, leg, offset, found) ==
  IF leg = 1 THEN [link |-> INVALID_LEG, nodes |-> Len(found.path)]
  ELSE IF found.weight = INVALID THEN [link |-> INVALID_LEG, nodes |-> 0]
  ELSE LET s == Starts(sources, found)
       IN IF s.reverse
          THEN [link |-> previousReversePath(offset, s.i),
                nodes |-> last.nodes_r[s.i] + Len(found.path)]
          ELSE [link |-> previousForwardPath(offset, s.i),
                nodes |-> last.nodes_f[s.i] + Len(found.path)]

ContinueTarget ==
  /\ job.phase = "continue" /\ job.target <= Len(job.waypoints[job.leg + 1])
  /\ LET sources == job.waypoints[job.leg]
         target == job.waypoints[job.leg + 1][job.target]
     IN \E f \in SearchesToForward(sources, job.last, target),
           r \in SearchesToReverse(sources, job.last, target) :
          LET back_f == LinkBack(sources, job.last, job.leg, job.offset, f)
              back_r == LinkBack(sources, job.last, job.leg, job.offset, r)
              begin == Len(job.paths)
          IN job' = [job EXCEPT
               !.target = @ + 1,
               !.previous = @ \o <<back_f.link, back_r.link>>,
               !.begin = @ \o <<begin, begin + Len(f.path)>>,
               !.paths = @ \o f.path \o r.path,
               !.current = [reached_f |-> Append(@.reached_f, f.weight # INVALID),
                            reached_r |-> Append(@.reached_r, r.weight # INVALID),
                            weight_f |-> Append(@.weight_f, f.weight),
                            weight_r |-> Append(@.weight_r, r.weight),
                            nodes_f |-> Append(@.nodes_f, back_f.nodes),
                            nodes_r |-> Append(@.nodes_r, back_r.nodes)]]

completeLeg ==
  /\ job.phase = "continue" /\ job.target > Len(job.waypoints[job.leg + 1])
  /\ LET reachable == \E i \in DOMAIN job.current.weight_f :
                        job.current.weight_f[i] # INVALID \/ job.current.weight_r[i] # INVALID
     IN job' = [job EXCEPT !.last = job.current, !.current = EmptyLeg, !.leg = @ + 1, !.target = 1,
                  !.offset = Len(job.previous) - 2 * Len(job.current.weight_f),
                  !.phase = IF ~reachable THEN "none"
                            ELSE IF job.leg + 1 = Len(job.waypoints) THEN "choose" ELSE "continue"]

NoPath ==
  /\ job.phase = "none"
  /\ job' = [job EXCEPT !.phase = "done", !.route = NoRoute]

\* The first of the least entries by weight, then by nodes.
MinEntry(weights, nodes) ==
  LET less(a, b) == weights[a] < weights[b] \/ (weights[a] = weights[b] /\ nodes[a] < nodes[b])
      least == {i \in DOMAIN weights : \A k \in DOMAIN weights : ~less(k, i)}
  IN Min(least)

\* Back from a path through the links to the first leg.
Backtrack(previous, last, legs) ==
  LET at[k \in 0..legs] == IF k = 0 THEN last
                           ELSE IF at[k - 1] = INVALID_LEG THEN INVALID_LEG ELSE previous[at[k - 1]]
  IN SelectSeq([k \in 1..(legs + 1) |-> at[legs + 1 - k]], LAMBDA p : p # INVALID_LEG)

getMinRoute(j) ==
  LET f == MinEntry(j.last.weight_f, j.last.nodes_f)
      r == MinEntry(j.last.weight_r, j.last.nodes_r)
      forward == \/ j.last.weight_f[f] < j.last.weight_r[r]
                 \/ j.last.weight_f[f] = j.last.weight_r[r] /\ j.last.nodes_f[f] < j.last.nodes_r[r]
      start == IF forward THEN previousForwardPath(j.offset, f) ELSE previousReversePath(j.offset, r)
  IN [indices |-> Backtrack(j.previous, start, Len(j.waypoints) - 1),
      weight |-> IF forward THEN j.last.weight_f[f] ELSE j.last.weight_r[r]]

ContinueRoute ==
  /\ job.phase = "choose"
  /\ LET begin == Append(job.begin, Len(job.paths))
         least == getMinRoute(job)
     IN job' = [job EXCEPT !.phase = "done",
                  !.route = constructRouteResult(job.waypoints, least.indices, job.paths, begin,
                                                 least.weight)]

-----------------------------------------------------------------------------
allow_uturn(option) == ~(IF option = None THEN ContinueDefault ELSE option)

Init ==
  \E waypoints \in Trips : \E option \in {None, TRUE, FALSE} :
    job = [service |-> "via", waypoints |-> waypoints, uturn |-> allow_uturn(option),
           phase |-> IF allow_uturn(option) THEN "uturn" ELSE "continue",
           leg |-> 1, target |-> 1, weight |-> 0, begin |-> <<>>, paths |-> <<>>,
           previous |-> <<>>, offset |-> 0, current |-> EmptyLeg,
           last |-> [EmptyLeg EXCEPT !.weight_f = Weighing(waypoints[1], 0),
                                     !.weight_r = Weighing(waypoints[1], 0),
                                     !.reached_f = [i \in DOMAIN waypoints[1] |-> waypoints[1][i].fs],
                                     !.reached_r = [i \in DOMAIN waypoints[1] |-> waypoints[1][i].rs]],
           route |-> None]

Next == UTurnLeg \/ UTurnRoute \/ ContinueTarget \/ completeLeg \/ NoPath \/ ContinueRoute

Spec == Init /\ [][Next]_job

-----------------------------------------------------------------------------
(* Properties *)

\* The directed places of a waypoint: <<node, offset>> of its sources and targets.
SourcesAt(w) == {[node |-> w[i].f, at |-> w[i].fw, k |-> <<i, 1>>] : i \in {k \in DOMAIN w : w[k].fs}}
                \cup {[node |-> w[i].r, at |-> w[i].rw, k |-> <<i, 2>>] : i \in {k \in DOMAIN w : w[k].rs}}
TargetsAt(w) == {[node |-> w[i].f, at |-> w[i].fw, k |-> <<i, 1>>] : i \in {k \in DOMAIN w : w[k].ft}}
                \cup {[node |-> w[i].r, at |-> w[i].rw, k |-> <<i, 2>>] : i \in {k \in DOMAIN w : w[k].rt}}

\* What driving from one directed place to another costs on the walk a search finds.
Cost(a, b) == IF a.node = b.node /\ a.at <= b.at THEN b.at - a.at
              ELSE IF Walk(a.node, b.node).weight = INVALID THEN INVALID
              ELSE Walk(a.node, b.node).weight + b.at - a.at
Plus(x, y) == IF x = INVALID \/ y = INVALID THEN INVALID ELSE x + y
Least(S) == IF S = {} THEN INVALID ELSE Min(S)

\* The least route by exhaustion: legs on their own, or legs that continue in the
\* direction they arrived in.
FreeWeight(ws) ==
  FoldLeft(LAMBDA x, i : Plus(x, Least({Cost(a, b) : a \in SourcesAt(ws[i]), b \in TargetsAt(ws[i + 1])})),
           0, [i \in 1..(Len(ws) - 1) |-> i])
StraightWeight(ws) ==
  LET to[i \in 1..Len(ws)] ==
        IF i = 1 THEN [b \in SourcesAt(ws[1]) |-> 0]
        ELSE [b \in TargetsAt(ws[i]) |->
                Least({Plus(to[i - 1][a], Cost(a, b)) : a \in (DOMAIN to[i - 1]) \cap SourcesAt(ws[i - 1])})]
  IN Least({to[Len(ws)][b] : b \in DOMAIN to[Len(ws)]})

\* The route through the waypoints is a least one over every choice of candidate
\* and direction at every waypoint, each leg being what its search finds, and there
\* is one whenever a choice connects.  A loop a search cannot find costs the trip
\* the choices that need it, and nothing else (shortestPathWithWaypointUTurns,
\* shortestPathWithWaypointContinuation).
ViaLeast ==
  job.service = "via" /\ job.phase = "done" =>
    job.route.weight = IF job.uturn THEN FreeWeight(job.waypoints) ELSE StraightWeight(job.waypoints)

\* The legs reported are the legs weighed: each runs between its own end candidates,
\* their costs add up to the route's weight, and without U-turns a leg starts in the
\* direction the one before it ended in (getLegConnections, previous_leg_in_route).
LegsConnect ==
  job.service = "via" /\ job.phase = "done" /\ job.route.weight # INVALID =>
    LET legs == job.route.legs
        ws == job.waypoints
        off(c, reversed) == IF reversed THEN c.rw ELSE c.fw
        node(c, reversed) == IF reversed THEN c.r ELSE c.f
        place(w, k, reversed) == [node |-> node(w[k], reversed), at |-> off(w[k], reversed)]
        a(i) == place(ws[i], legs[i].source, legs[i].source_reversed)
        b(i) == place(ws[i + 1], legs[i].target, legs[i].target_reversed)
    IN /\ Len(legs) = Len(ws) - 1
       /\ \A i \in DOMAIN legs : legs[i].path[1] = a(i).node /\ legs[i].path[Len(legs[i].path)] = b(i).node
       /\ job.route.weight = FoldLeft(LAMBDA x, i : Plus(x, Cost(a(i), b(i))), 0, [i \in DOMAIN legs |-> i])
       /\ ~job.uturn => \A i \in 2..Len(legs) : a(i) = b(i - 1)

\* The route through the waypoints is least, and its legs are the ones that were weighed.
ViaExact == ViaLeast /\ LegsConnect
=============================================================================
