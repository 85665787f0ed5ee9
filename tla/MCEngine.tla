------------------------------ MODULE MCEngine ------------------------------
(* A trace is matched to three roads along the x axis: a two-way road at   *)
(* y = 0 from 0 to 15, a one-way road at y = 2 that can be entered from it *)
(* at x = 8 and where driving is fast, and a slow two-way road of its own  *)
(* from 20 to 30.  Segments are four long.                                 *)
EXTENDS Integers, Sequences, FiniteSets, TLC, Algorithms

CONSTANT None
VARIABLE job

MatchAbs(x) == IF x < 0 THEN -x ELSE x
MatchDistance(a, b) == MatchAbs(a[1] - b[1]) + MatchAbs(a[2] - b[2])
MatchSharp(a, b, c) == (a[1] - b[1]) * (c[1] - b[1]) > 0
OnRoad(f, r, p, y) ==
  [fid |-> f, rid |-> r, forward |-> TRUE, reverse |-> r # 0, at |-> p[1], distance |-> MatchAbs(p[2] - y)]
MatchInRange(p, radius) ==
  SelectSeq((IF p[1] \in 0..15 THEN <<OnRoad(1, 2, p, 0), OnRoad(3, 0, p, 2)>> ELSE <<>>)
            \o (IF p[1] \in 20..30 THEN <<OnRoad(5, 6, p, 0)>> ELSE <<>>),
            LAMBDA c : c.distance <= radius)
\* A leg from a to b on one road, positions counted in the direction of travel.
MatchLeg(a, b) ==
  LET crossed == (b \div 4) - (a \div 4)
  IN [source |-> a % 4, target |-> b % 4,
      path |-> [i \in 1..crossed |-> IF i = 1 THEN 4 - (a % 4) ELSE 4]]
MatchPath(d, weight, a, b) == [distance |-> d, weight |-> weight, leg |-> MatchLeg(a, b)]
MatchNetwork(a, b) ==
  IF a.fid = b.fid /\ a.forward /\ b.forward /\ a.at <= b.at
  THEN MatchPath(b.at - a.at, IF a.fid = 3 THEN (b.at - a.at) \div 2
                              ELSE IF a.fid = 5 THEN 2 * (b.at - a.at) ELSE b.at - a.at, a.at, b.at)
  ELSE IF a.fid = b.fid /\ a.reverse /\ b.reverse /\ a.at >= b.at
  THEN MatchPath(a.at - b.at, IF a.fid = 5 THEN 2 * (a.at - b.at) ELSE a.at - b.at, 32 - a.at, 32 - b.at)
  ELSE IF a.fid = 1 /\ b.fid = 3 /\ a.forward /\ a.at <= 8 /\ b.at >= 8
  THEN MatchPath(b.at - a.at + 2, (b.at - a.at) + 1, a.at, b.at)
  ELSE None

MatchPoints == {<<1, 0>>, <<6, 1>>, <<10, 1>>, <<14, 2>>, <<22, 0>>}
Asked(coordinates, timestamps, radiuses, waypoints, split, tidied) ==
  [implemented |-> TRUE, algorithms |-> None, in_bounds |-> TRUE, coordinates |-> coordinates, timestamps |-> timestamps, radiuses |-> radiuses,
   waypoints |-> waypoints, split |-> split, tidy |-> tidied, default_radius |-> None]
LongTraces ==
  { <<<<1, 0>>, <<4, -2>>, <<40, 0>>, <<6, 1>>, <<10, 1>>, <<14, 2>>>>,
    <<<<1, 0>>, <<6, 1>>, <<22, 0>>, <<10, 1>>, <<11, 1>>, <<40, 0>>, <<40, 0>>, <<40, 0>>>>,
    <<<<1, 0>>, <<2, 0>>, <<3, 1>>, <<7, 1>>, <<9, 1>>, <<14, 2>>>>,
    <<<<1, 0>>, <<4, 0>>, <<22, 0>>, <<23, 0>>, <<24, 0>>, <<25, 0>>, <<12, 1>>>>,
    <<<<3, 1>>, <<7, 1>>, <<11, 1>>, <<8, 1>>, <<5, 1>>, <<2, 0>>>>,
    <<<<1, 0>>, <<5, 0>>, <<6, 0>>, <<10, 1>>, <<14, 2>>, <<15, 2>>>>,
    <<<<1, 0>>, <<4, 0>>, <<22, 0>>, <<24, 0>>, <<5, 0>>, <<8, 1>>>>,
    <<<<1, 0>>, <<3, 0>>, <<40, 0>>, <<5, -2>>, <<7, -2>>, <<9, -2>>>>,
    <<<<1, 0>>, <<22, 0>>, <<4, 0>>, <<6, 1>>, <<10, 1>>, <<40, 0>>, <<40, 0>>, <<14, 0>>>> }
Steady(n) == [i \in 1..n |-> 4 * i]
Jumping(n) == [i \in 1..n |-> IF i <= n - 2 THEN 4 * i ELSE 4 * i + 20]
Hurried(n) == [i \in 1..n |-> IF i <= 3 THEN i ELSE 4 * i]
Late == <<4, 6, 7, 8, 38, 68>>
MatchRequests ==
  {Asked(<<a, b, c, d>>, <<>>, <<>>, <<>>, TRUE, FALSE) : a, b, c, d \in MatchPoints}
  \cup {Asked(t, times, <<>>, ws, split, tidied) :
          t \in LongTraces, times \in UNION {{<<>>, Steady(n), Jumping(n), Hurried(n), Late} : n \in 6..8},
          ws \in {<<>>} \cup UNION {{<<1, n>>, <<1, 3, n>>, <<1, 4, n>>} : n \in 6..8},
          split \in BOOLEAN, tidied \in BOOLEAN}
WellFormed(r) ==
  /\ r.timestamps = <<>> \/ Len(r.timestamps) = Len(r.coordinates)
  /\ \A i \in DOMAIN r.waypoints : r.waypoints[i] <= Len(r.coordinates)
MatchErrors ==
  LET fine == Asked(<<<<1, 0>>, <<6, 1>>, <<10, 1>>>>, <<>>, <<>>, <<>>, TRUE, FALSE)
  IN {fine, [fine EXCEPT !.implemented = FALSE], [fine EXCEPT !.algorithms = "InvalidValue"],
      [fine EXCEPT !.in_bounds = FALSE], [fine EXCEPT !.radiuses = <<1, None, 5>>],
      [fine EXCEPT !.radiuses = <<1, None, 2>>], [fine EXCEPT !.radiuses = <<None, 1, 1>>], [fine EXCEPT !.radiuses = <<0, 2, 2>>],
      [fine EXCEPT !.timestamps = <<3, 2, 5>>], [fine EXCEPT !.timestamps = <<3, 3, 5>>],
      [fine EXCEPT !.default_radius = -1], [fine EXCEPT !.default_radius = 1],
      [fine EXCEPT !.default_radius = 1, !.radiuses = <<1, None, 2>>],
      [fine EXCEPT !.waypoints = <<2, 3>>], [fine EXCEPT !.waypoints = <<1, 2>>],
      [fine EXCEPT !.coordinates = [i \in 1..3 |-> <<40, 0>>]],
      [fine EXCEPT !.coordinates = [i \in 1..9 |-> <<1, 0>>]]}

Match == INSTANCE MapMatching WITH
  Requests <- {r \in MatchRequests \cup MatchErrors : WellFormed(r)},
  InRange <- MatchInRange, GreatCircleDistance <- MatchDistance, SharpTurn <- MatchSharp,
  Network <- MatchNetwork, MaxSpeed <- 2, WeightMultiplier <- 4, MAX_BROKEN_STATES <- 2,
  MAX_DISTANCE_DELTA <- 6, TidyDistance <- 3, TidyDuration <- 4,
  DEFAULT_GPS_PRECISION <- 2, RADIUS_MULTIPLIER <- 2, MaxLocations <- 8, MaxRadius <- 3

-----------------------------------------------------------------------------
(* Trips of two to five locations; four and more are planned by insertion. *)

TripDuration(a, b, c, s, t) == IF s = t THEN 0 ELSE (a * s * s + b * t + c * s * t + 1) % 7
TripTable(n, a, b, c) == [p \in (0..(n - 1)) \X (0..(n - 1)) |-> TripDuration(a, b, c, p[1], p[2])]
TripTables == {[n |-> n, table |-> TripTable(n, a, b, c)] : n \in 2..5, a \in 1..4, b \in 1..3, c \in {0, 2, 5}}
TripAsk(t, source, destination, roundtrip) ==
  [n |-> t.n, table |-> t.table, source |-> source, destination |-> destination, roundtrip |-> roundtrip,
   implemented |-> TRUE, in_bounds |-> TRUE, algorithms |-> None, snapped |-> TRUE]
TripRequests ==
  {TripAsk(t, source, destination, roundtrip) :
     t \in TripTables, source \in {"first", "any"}, destination \in {"last", "any"}, roundtrip \in BOOLEAN}
TripErrors ==
  LET fine == TripAsk([n |-> 3, table |-> TripTable(3, 1, 2, 3)], "first", "any", TRUE)
  IN {[fine EXCEPT !.implemented = FALSE], [fine EXCEPT !.in_bounds = FALSE], [fine EXCEPT !.snapped = FALSE],
      [fine EXCEPT !.algorithms = "InvalidValue"], [fine EXCEPT !.table[<<1, 2>>] = 100000],
      TripAsk([n |-> 6, table |-> TripTable(6, 1, 1, 1)], "first", "any", TRUE)}

TripPlan == INSTANCE Trip WITH Requests <- TripRequests \cup TripErrors, BF_MAX_FEASIBLE <- 4, MaxLocations <- 5

-----------------------------------------------------------------------------
(* The services of the engine side by side: a state is one job of one      *)
(* service, and the services share no state.                               *)

-----------------------------------------------------------------------------
(* Snapping: a main road of two segments, a one-way side street at their   *)
(* joint, a second one-way, an island of a tiny component and a ferry.     *)

Seg(u, v, f, r, pos, start) ==
  [u |-> u, v |-> v, fid |-> f, rid |-> r, fenabled |-> TRUE, renabled |-> r # 0,
   pos |-> pos, is_startpoint |-> start]
SnapSegments ==
  << Seg(<<0, 0>>, <<3, 0>>, 1, 2, 0, TRUE), Seg(<<3, 0>>, <<6, 0>>, 1, 2, 1, TRUE),
     Seg(<<3, 0>>, <<3, 3>>, 3, 0, 0, TRUE), Seg(<<3, 0>>, <<3, 1>>, 4, 0, 0, TRUE),
     Seg(<<5, 3>>, <<7, 3>>, 5, 6, 0, TRUE), Seg(<<7, 3>>, <<7, 5>>, 7, 0, 0, TRUE),
     Seg(<<0, 5>>, <<0, 7>>, 8, 9, 0, FALSE) >>
SnapGeometry ==
  [g \in {1, 3, 4, 5, 7, 8} |->
     CASE g = 1 -> [fwd |-> <<7, 5>>, rev |-> <<4, 9>>]
       [] g = 3 -> [fwd |-> <<3>>, rev |-> <<99>>]
       [] g = 4 -> [fwd |-> <<2>>, rev |-> <<99>>]
       [] g = 7 -> [fwd |-> <<4>>, rev |-> <<99>>]
       [] OTHER -> [fwd |-> <<6>>, rev |-> <<6>>]]
SnapComponent == [g \in {1, 3, 4, 5, 7, 8} |->
                    IF g \in {5, 7} THEN [id |-> 2, tiny |-> TRUE] ELSE [id |-> 1, tiny |-> FALSE]]
Option(r, b, a, y) == [radius |-> r, bearing |-> b, approach |-> a, any |-> y]
Plain == Option(None, None, "unrestricted", FALSE)
Options == {Option(2, None, "unrestricted", TRUE), Option(None, <<90, 10>>, "unrestricted", FALSE),
            Option(None, None, "curb", FALSE), Option(1, <<270, 10>>, "curb", TRUE)}
SnapPoints == {<<3, 0>>, <<1, 1>>, <<5, 0>>, <<6, 3>>, <<7, 4>>, <<0, 6>>, <<5, 2>>}
Candidates(p, q, o) ==
  [kind |-> "candidates", coordinates |-> <<p, q>>, radius |-> o.radius, bearing |-> o.bearing,
   approach |-> o.approach, any |-> o.any, max |-> 0]
SnapRequests ==
  {Candidates(p, q, Plain) : p \in {<<3, 0>>, <<1, 1>>, <<6, 3>>, <<7, 3>>}, q \in {<<5, 0>>, <<7, 4>>, <<5, 2>>}}
  \cup {Candidates(p, <<1, 1>>, o) : p \in SnapPoints, o \in Options}
  \cup {[kind |-> k, coordinates |-> <<p>>, radius |-> 2, bearing |-> None,
         approach |-> "unrestricted", any |-> FALSE, max |-> 3] : k \in {"nearest", "range"}, p \in SnapPoints}
  \cup {[kind |-> "box", coordinates |-> <<>>, box |-> b] :
          b \in {[min_lon |-> x, max_lon |-> x + 2, min_lat |-> y, max_lat |-> y + 1] :
                   x \in {0, 4}, y \in {0, 3, 4}}}

\* The records: none, or a slow main road and a slow island.
SnapRecords == {[g \in DOMAIN SnapGeometry |-> None],
                [g \in DOMAIN SnapGeometry |-> IF g \in {1, 5} THEN [n |-> 5, d |-> 2] ELSE None]}

Snap == INSTANCE Snapping WITH
  LEAF_NODE_SIZE <- 2, BRANCHING_FACTOR <- 2, HilbertBits <- 4, Segments <- SnapSegments,
  Geometry <- SnapGeometry, Component <- SnapComponent, Excluded <- {}, LeftHand <- {5},
  Records <- SnapRecords, MaxPublications <- 1, Requests <- SnapRequests

-----------------------------------------------------------------------------
(* Via routes: a two-way road (1 out, 2 back) with a dead end, a two-way   *)
(* road (3, 4), and a one-way loop (5) back to the first.                  *)

\* <<from, to, weight of the node left and of the turn>>; nodes 1, 2 weigh 8, nodes 3, 4 six, 5 five.
ViaEdges == {<<1, 3, 9>>, <<1, 2, 17>>, <<3, 5, 7>>, <<5, 1, 7>>, <<4, 2, 7>>, <<3, 4, 14>>, <<2, 1, 13>>}
ViaNodes == 1..5
\* Walks of one to six edges, as [weight, path].
ViaWalks[n \in 1..6] ==
  IF n = 1 THEN {[weight |-> e[3], path |-> <<e[1], e[2]>>] : e \in ViaEdges}
  ELSE ViaWalks[n - 1] \cup
       {[weight |-> w[1].weight + w[2][3], path |-> Append(w[1].path, w[2][2])] :
          w \in {x \in ViaWalks[n - 1] \X ViaEdges : x[1].path[Len(x[1].path)] = x[2][1]}}
ViaBest == Value(
  [st \in ViaNodes \X ViaNodes |->
     LET walks == {w \in ViaWalks[6] : w.path[1] = st[1] /\ w.path[Len(w.path)] = st[2]}
     IN IF walks = {} THEN [weight |-> 10000, path |-> <<>>]
        ELSE CHOOSE w \in walks : \A v \in walks : w.weight <= v.weight])
\* Loops: the least one at node 1, none at 2 and 4, one more road than needed at 5.
ViaLoops == Value(
  [n \in ViaNodes |->
     LET loops == {w \in ViaWalks[6] : w.path[1] = n /\ w.path[Len(w.path)] = n /\ (n = 5 => Len(w.path) > 4)}
     IN IF n \in {2, 4} THEN [weight |-> 10000, path |-> <<>>]
        ELSE CHOOSE w \in loops : \A v \in loops : w.weight <= v.weight])
Place(f, r, fw, rw, two) ==
  [f |-> f, r |-> r, fw |-> fw, rw |-> rw, fs |-> TRUE, ft |-> TRUE, rs |-> two, rt |-> two]
ViaWaypoints ==
  { <<Place(1, 2, 2, 6, TRUE)>>, <<Place(1, 2, 5, 3, TRUE)>>, <<Place(3, 4, 3, 3, TRUE)>>,
    <<Place(5, 0, 1, 0, FALSE)>>, <<Place(5, 0, 4, 0, FALSE)>>,
    <<Place(1, 2, 8, 0, TRUE), Place(3, 4, 0, 6, TRUE)>>,
    <<[Place(3, 4, 4, 2, TRUE) EXCEPT !.fs = FALSE]>>, <<[Place(1, 2, 3, 5, TRUE) EXCEPT !.ft = FALSE]>> }
ViaTrips == {<<a, b, c>> : a, b, c \in ViaWaypoints} \cup {<<a, b, c, a>> : a, b, c \in ViaWaypoints}

Via == INSTANCE ViaRoute WITH Best <- ViaBest, Loops <- ViaLoops, Trips <- ViaTrips, ContinueDefault <- TRUE

-----------------------------------------------------------------------------
(* Alternatives: three ways from 0 to 8, of weights 26, 28 and 30, a link  *)
(* between the first two, a detour off the first, and a way back.          *)

AltNodes == 0..8
AltBase == {<<0, 1, 10>>, <<1, 2, 10>>, <<2, 8, 6>>, <<0, 3, 10>>, <<3, 4, 9>>, <<4, 8, 9>>,
            <<0, 5, 10>>, <<5, 6, 10>>, <<6, 8, 10>>, <<1, 4, 9>>, <<2, 7, 4>>, <<7, 8, 3>>, <<8, 0, 20>>}
\* The edges after contracting the nodes of a sequence, one after the other: <<from, to,
\* weight, middle>>.  Loops are kept except at node 5.
Contracted(order) ==
  LET lighter(E, e) == \A f \in E : f[1] = e[1] /\ f[2] = e[2] => e[3] < f[3]
      after[k \in 0..Len(order)] ==
        IF k = 0 THEN {<<e[1], e[2], e[3], None>> : e \in AltBase}
        ELSE LET v == order[k]
                 before == after[k - 1]
                 E == {e \in before : \A i \in 1..(k - 1) : order[i] \notin {e[1], e[2]}}
                 new == {<<x[1][1], x[2][2], x[1][3] + x[2][3], v>> :
                           x \in {y \in E \X E : y[1][2] = v /\ y[2][1] = v /\ y[1][1] # v /\ y[2][2] # v}}
             IN Value(before \cup {e \in new : lighter(E, e) /\
                        \A f \in new : f[1] = e[1] /\ f[2] = e[2] => e[3] < f[3] \/ e = f})
      all == after[Len(order)]
  IN {e \in all : ~(e[1] = 5 /\ e[2] = 5) /\ \A f \in all : f[1] = e[1] /\ f[2] = e[2] => e[3] <= f[3]}
RankIn(order, v) == CHOOSE i \in DOMAIN order : order[i] = v
Stored(order) ==
  LET entries == {[node |-> IF RankIn(order, e[1]) <= RankIn(order, e[2]) THEN e[1] ELSE e[2],
                   target |-> IF RankIn(order, e[1]) <= RankIn(order, e[2]) THEN e[2] ELSE e[1],
                   forward |-> RankIn(order, e[1]) <= RankIn(order, e[2]),
                   backward |-> RankIn(order, e[1]) > RankIn(order, e[2]) \/ e[1] = e[2],
                   weight |-> e[3], shortcut |-> e[4] # None, middle |-> e[4]] : e \in Contracted(order)}
      code(e) == e.node * 100 + e.target * 2 + (IF e.forward THEN 1 ELSE 0)
  IN Ordered(entries, LAMBDA a, b : code(a) < code(b))
UpTrees(ch, order, forward) ==
  LET n == Len(order)
      edges(v) == {e \in {ch[i] : i \in DOMAIN ch} :
                     e.node = v /\ e.target # v /\ (IF forward THEN e.forward ELSE e.backward)}
      end(w) == w.path[Len(w.path)]
      walks[k \in 0..n] ==
        IF k = 0 THEN {[weight |-> 0, path |-> <<v>>] : v \in AltNodes}
        ELSE LET before == walks[k - 1]
             IN Value(before \cup UNION {{[weight |-> w.weight + e.weight, path |-> Append(w.path, e.target)] :
                                             e \in edges(end(w))} : w \in before})
      all == walks[n]
  IN [v \in AltNodes |->
        LET W == {w \in all : w.path[1] = v}
        IN [m \in {end(w) : w \in W} |->
              CHOOSE w \in W : end(w) = m /\ \A x \in W : end(x) = m => w.weight <= x.weight]]
BestOf(nodes, roads) ==
  LET dist[k \in 0..Cardinality(nodes)] ==
        IF k = 0 THEN [st \in nodes \X nodes |-> IF st[1] = st[2] THEN 0 ELSE 10000]
        ELSE LET before == dist[k - 1]
             IN Value([st \in nodes \X nodes |->
                  LET ways == {before[<<st[1], e[1]>>] + e[3] : e \in {f \in roads : f[2] = st[2]}}
                              \cup {before[st]}
                      w == CHOOSE x \in ways : \A y \in ways : x <= y
                  IN IF w >= 10000 THEN 10000 ELSE w])
  IN dist[Cardinality(nodes)]
AltBest == BestOf(AltNodes, AltBase)
AltGraph(order) ==
  LET ch == Value(Stored(order))
  IN [base |-> AltBase, ch |-> ch, best |-> AltBest,
      up |-> [forward \in BOOLEAN |-> Value(UpTrees(ch, order, forward))]]
AltGraphs == Value({AltGraph(<<1, 4, 6, 3, 7, 5, 2, 0, 8>>), AltGraph(<<8, 0, 2, 5, 3, 1, 4, 7, 6>>),
                    AltGraph(<<3, 2, 6, 7, 4, 1, 0, 8, 5>>)})
AltEnds(s, t) == [sources |-> s, targets |-> t]
AltQueries ==
  {AltEnds(<<<<0, a>>>>, <<<<8, b>>>>) : a \in {0, 4}, b \in {0, 3}}
  \cup {AltEnds(<<<<0, 2>>, <<5, 1>>>>, <<<<8, 1>>>>), AltEnds(<<<<0, 9>>, <<5, 2>>>>, <<<<8, 1>>>>), AltEnds(<<<<8, 5>>>>, <<<<6, 2>>>>),
        AltEnds(<<<<0, 3>>>>, <<<<0, 1>>>>), AltEnds(<<<<1, 1>>>>, <<<<8, 0>>, <<4, 3>>>>),
        AltEnds(<<<<3, 0>>>>, <<<<2, 4>>>>)}
AltCH == INSTANCE AlternativesCH WITH Nodes <- AltNodes, Graphs <- AltGraphs, Queries <- AltQueries

\* Roads from 0 to 8: the best over 1 and 2, a detour of it over 9, one over 3 and 4, one
\* over 5 and 6 too slow for long trips, and a slow direct road from 1, which the searches
\* see first.  7 and 10 only lead to 5.
MldNodes == 0..10
MldBase == {<<0, 1, 1>>, <<1, 2, 10>>, <<2, 8, 10>>, <<1, 8, 40>>, <<2, 9, 4>>, <<9, 8, 7>>, <<0, 3, 2>>,
            <<3, 4, 11>>, <<4, 8, 11>>, <<0, 5, 2>>, <<5, 6, 12>>, <<6, 8, 12>>, <<0, 7, 2>>, <<7, 5, 5>>,
            <<0, 10, 2>>, <<10, 5, 6>>, <<8, 0, 25>>}
MldCell == [n \in MldNodes |-> CASE n = 0 -> 0 [] n \in {1, 2, 9} -> 1 [] n = 8 -> 3 [] OTHER -> 2]
MldWithin == Value(BestOf(MldNodes, {e \in MldBase : MldCell[e[1]] = MldCell[e[2]]}))
MldArcs ==
  LET border == {e \in MldBase : MldCell[e[1]] # MldCell[e[2]]}
      pairs == {p \in {e[2] : e \in border} \X {e[1] : e \in border} : p[1] # p[2] /\ MldWithin[p] < 10000}
  IN {<<p[1], p[2], MldWithin[p]>> : p \in pairs}
MldGraph == Value(
  [base |-> MldBase, cell |-> MldCell, arcs |-> MldArcs, best |-> BestOf(MldNodes, MldBase),
   inside |-> [a \in {<<e[1], e[2]>> : e \in MldArcs} |->
                 CASE a = <<1, 9>> -> <<1, 2, 9>> [] a \in {<<7, 6>>, <<10, 6>>} -> <<a[1], 5, 6>> [] OTHER -> a],
   duration |-> [n \in MldNodes |-> CASE n = 0 -> 1 [] n = 1 -> 10 [] n = 2 -> 4 [] n = 9 -> 7 [] n \in {3, 4} -> 11
                                      [] n \in {5, 6} -> 12 [] n = 7 -> 5 [] n = 10 -> 6 [] OTHER -> 25]])
MldEnds ==
  {AltEnds(<<<<0, a>>>>, <<<<8, b>>>>) : a \in {0, 1}, b \in {0, 3}}
  \cup {AltEnds(<<<<0, 1>>, <<5, 2>>>>, <<<<8, 1>>>>), AltEnds(<<<<1, 1>>>>, <<<<8, 0>>, <<4, 3>>>>),
        AltEnds(<<<<0, 1>>>>, <<<<0, 0>>>>), AltEnds(<<<<3, 0>>>>, <<<<2, 4>>>>), AltEnds(<<>>, <<<<8, 0>>>>)}
MldQueries ==
  {[sources |-> q.sources, targets |-> q.targets, alternatives |-> n, distance |-> d, unit |-> u] :
     q \in MldEnds, n \in {1, 3}, d \in {5, 15, 30, 80, 200}, u \in {1, 600, 6000}}
AltMLD == INSTANCE AlternativesMLD WITH Nodes <- MldNodes, Graph <- MldGraph, Queries <- MldQueries

-----------------------------------------------------------------------------
Init == Snap!Init \/ Via!Init \/ AltCH!Init \/ AltMLD!Init \/ Match!Init \/ TripPlan!Init
Next == \/ job.service = "snap" /\ Snap!Next
        \/ job.service = "via" /\ Via!Next
        \/ job.service = "alternativesCH" /\ AltCH!Next
        \/ job.service = "alternativesMLD" /\ AltMLD!Next
        \/ job.service = "match" /\ Match!Next
        \/ job.service = "trip" /\ TripPlan!Next
Spec == Init /\ [][Next]_job

\* Snapping coordinates to the network (Snapping).
SnappingExact == Snap!SnappingExact

\* Routes through waypoints (ViaRoute).
ViaExact == Via!ViaExact

\* Alternatives found on the hierarchy and over the cells (AlternativesCH, AlternativesMLD):
\* the first route is least, and every other one is whole, not much longer and different.
AlternativesSound == AltCH!CHAlternatives /\ AltMLD!MLDAlternatives

\* Map matching and its answer (MapMatching).
MatchingsSound == Match!MatchingsSound

\* Trips (Trip).
TripSound == TripPlan!TripSound
=============================================================================
