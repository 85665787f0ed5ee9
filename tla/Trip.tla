-------------------------------- MODULE Trip --------------------------------
(* The trip service (engine/plugins/trip.cpp): locations are visited in an *)
(* order of short total duration.  A fixed start or end is had by changing *)
(* the table of durations before a round trip is looked for, by trying all *)
(* orders of few locations (trip_brute_force.hpp) or by inserting one      *)
(* after the other (trip_farthest_insertion.hpp).  Locations count from 0. *)
EXTENDS Integers, Sequences, SequencesExt, FiniteSetsExt, Algorithms
CONSTANTS Requests,          \* [n, table, source, destination, roundtrip, ...]
          None,
          BF_MAX_FEASIBLE,   \* 10
          MaxLocations
VARIABLE job

INVALID == 100000                       \* INVALID_EDGE_DURATION, the greatest duration
Lowest == -INVALID - 1                  \* the least int
Locations(n) == 0..(n - 1)

-----------------------------------------------------------------------------
(* The table of durations *)

ManipulateTableForFSE(source, destination, table) ==
  [p \in DOMAIN table |->
     IF p = <<destination, source>> THEN 0
     ELSE IF p = <<source, destination>> THEN INVALID
     ELSE IF (p[2] = source /\ p[1] # source) \/ (p[1] = destination /\ p[2] # destination) THEN INVALID
     ELSE table[p]]
ManipulateTableForNonRoundtripFS(source, table) ==
  [p \in DOMAIN table |-> IF p[2] = source THEN 0 ELSE table[p]]
ManipulateTableForNonRoundtripFE(destination, table) ==
  [p \in DOMAIN table |-> IF p[1] = destination THEN 0 ELSE table[p]]

FixedStart(request) == request.source = "first"
FixedEnd(request) == request.destination = "last"

Manipulated(request) ==
  LET n == request.n
  IN IF FixedStart(request) /\ FixedEnd(request) THEN ManipulateTableForFSE(0, n - 1, request.table)
     ELSE IF ~request.roundtrip /\ FixedStart(request) THEN ManipulateTableForNonRoundtripFS(0, request.table)
     ELSE IF ~request.roundtrip /\ FixedEnd(request) THEN ManipulateTableForNonRoundtripFE(n - 1, request.table)
     ELSE request.table

-----------------------------------------------------------------------------
(* All orders, in the order next_permutation makes them                    *)

Code(order) == FoldLeft(LAMBDA x, v : 10 * x + v, 0, order)
Orders(n) ==
  {o \in [1..n -> Locations(n)] : \A i, k \in 1..n : i # k => o[i] # o[k]}

ReturnDistance_Open(table, order, min_route_dist) ==
  FoldLeft(LAMBDA d, i : d + table[<<order[i], order[i + 1]>>], 0, [i \in 1..(Len(order) - 1) |-> i])
\* The length of a round trip, given up when it is no longer the shortest.
ReturnDistance(table, order, min_route_dist) ==
  LET n == Len(order)
      step(d, i) == LET edge == table[<<order[i], order[(i % n) + 1]>>]
                    IN IF d >= min_route_dist THEN d ELSE IF edge = INVALID THEN INVALID ELSE d + edge
  IN FoldLeft(step, 0, [i \in 1..n |-> i])

BruteForceTrip(n, table) ==
  InTurn(LAMBDA best, order :
           LET new == ReturnDistance(table, order, best.distance)
           IN IF new < best.distance THEN [distance |-> new, route |-> order] ELSE best,
         [distance |-> INVALID, route |-> [i \in 1..n |-> i - 1]],
         Ordered(Orders(n), LAMBDA a, b : Code(a) < Code(b))).route

-----------------------------------------------------------------------------
(* Farthest insertion *)

\* The cheapest place for a location: its cost and the index it is inserted at, or
\* None when it cannot be inserted anywhere.
GetShortestRoundTrip(new_loc, table, route) ==
  LET to(i) == (i % Len(route)) + 1
      possible == {i \in DOMAIN route : INVALID \notin {table[<<route[i], new_loc>>], table[<<new_loc, route[to(i)]>>]}}
      cost(i) == table[<<route[i], new_loc>>] + table[<<new_loc, route[to(i)]>>] - table[<<route[i], route[to(i)]>>]
      cheap == {i \in possible : cost(i) < INVALID /\ \A k \in possible : cost(i) <= cost(k)}
  IN IF cheap = {} THEN None ELSE [cost |-> cost(Min(cheap)), at |-> to(Min(cheap))]

Farthest(n, table) ==
  LET pairs == (DOMAIN table) \ {<<0, 0>>}
      far == {p \in pairs : \A q \in pairs : table[q] <= table[p]}
  IN CHOOSE p \in far : \A q \in far : p[1] * n + p[2] <= q[1] * n + q[2]

\* The location whose cheapest insertion costs most; the least number among equals.
NextInsertion(n, table, route) ==
  LET open == Locations(n) \ ToSet(route)
      cost(id) == GetShortestRoundTrip(id, table, route).cost
  IN CHOOSE id \in open : \A other \in open : cost(other) < cost(id) \/ (cost(other) = cost(id) /\ id <= other)

InsertFarthest ==
  /\ job.phase = "insert" /\ Len(job.route) < job.request.n
  /\ LET id == NextInsertion(job.request.n, job.table, job.route)
         place == GetShortestRoundTrip(id, job.table, job.route)
     IN job' = [job EXCEPT !.route = InsertAt(@, place.at, id)]

-----------------------------------------------------------------------------
Answer(code, trip) == job' = [job EXCEPT !.phase = "done", !.code = code, !.trip = trip]

IsSupportedParameterCombination(request) ==
  request.roundtrip \/ FixedStart(request) \/ FixedEnd(request)

HandleRequest ==
  /\ job.phase = "request"
  /\ LET request == job.request
     IN IF ~request.implemented THEN Answer("NotImplemented", <<>>)
        ELSE IF ~IsSupportedParameterCombination(request) THEN Answer("NotImplemented", <<>>)
        ELSE IF MaxLocations > 0 /\ request.n > MaxLocations THEN Answer("TooBig", <<>>)
        ELSE IF ~request.in_bounds THEN Answer("InvalidValue", <<>>)
        ELSE IF request.algorithms # None THEN Answer(request.algorithms, <<>>)
        ELSE IF ~request.snapped THEN Answer("NoSegment", <<>>)
        ELSE IF \E p \in DOMAIN request.table : request.table[p] = INVALID THEN Answer("NoTrips", <<>>)
        ELSE job' = [job EXCEPT !.table = Manipulated(request),
                       !.phase = IF request.n < BF_MAX_FEASIBLE THEN "all" ELSE "farthest"]

TryAllOrders ==
  /\ job.phase = "all"
  /\ job' = [job EXCEPT !.phase = "rotate", !.route = BruteForceTrip(job.request.n, job.table)]

StartFarthest ==
  /\ job.phase = "farthest"
  /\ LET pair == Farthest(job.request.n, job.table)
     IN job' = [job EXCEPT !.phase = "insert", !.route = pair]

Rotated(request, route) ==
  LET at(l) == CHOOSE i \in DOMAIN route : route[i] = l
      from(i) == SubSeq(route, i, Len(route)) \o SubSeq(route, 1, i - 1)
      last == at(request.n - 1)
  IN IF ~FixedEnd(request) \/ FixedStart(request) THEN from(at(0))
     ELSE IF request.roundtrip THEN from(last)
     ELSE from((last % Len(route)) + 1)

\* The waypoints of the answer: for every location its place in the trip.
MakeTripIndices(n, trip) == [l \in Locations(n) |-> CHOOSE i \in DOMAIN trip : trip[i] = l]

RotateTrip ==
  /\ job.phase = "rotate" \/ (job.phase = "insert" /\ Len(job.route) = job.request.n)
  /\ LET trip == Rotated(job.request, job.route)
     IN job' = [job EXCEPT !.phase = "done", !.code = "Ok", !.trip = trip,
                  !.waypoints = MakeTripIndices(job.request.n, trip),
                  \* ComputeRoute: the places the route goes through
                  !.stops = IF job.request.roundtrip THEN Append(trip, trip[1]) ELSE trip]

Init ==
  \E request \in Requests :
    job = [service |-> "trip", request |-> request, phase |-> "request", table |-> <<>>, route |-> <<>>,
           code |-> None, trip |-> <<>>, waypoints |-> <<>>, stops |-> <<>>]

Next == HandleRequest \/ TryAllOrders \/ StartFarthest \/ InsertFarthest \/ RotateTrip

Spec == Init /\ [][Next]_job

-----------------------------------------------------------------------------
(* Properties *)

Answered == job.service = "trip" /\ job.phase = "done" /\ job.code = "Ok"

\* What was asked for is kept through the changed table and the rotation: every
\* location is visited once, from a fixed start, and a trip that does not return ends
\* at a fixed end; with both ends fixed even a round trip visits the end last.
TripEndsKept ==
  Answered =>
    /\ Len(job.trip) = job.request.n /\ ToSet(job.trip) = Locations(job.request.n)
    /\ FixedStart(job.request) => job.trip[1] = 0
    /\ FixedEnd(job.request) /\ (FixedStart(job.request) \/ ~job.request.roundtrip)
         => Last(job.trip) = job.request.n - 1
    /\ \A l \in DOMAIN job.waypoints : job.stops[job.waypoints[l]] = l

\* The duration of the places visited, by the durations first computed.
Duration(request, stops) ==
  FoldLeft(LAMBDA x, i : x + request.table[<<stops[i], stops[i + 1]>>], 0, [i \in 1..(Len(stops) - 1) |-> i])
Allowed(request, trip) ==
  /\ FixedStart(request) => trip[1] = 0
  /\ FixedEnd(request) /\ (FixedStart(request) \/ ~request.roundtrip) => Last(trip) = request.n - 1

\* Among few locations no order that is allowed is faster, though the search only
\* knows round trips of the changed table (BruteForceTrip).
TripFastest ==
  Answered /\ job.request.n < BF_MAX_FEASIBLE =>
    \A order \in Orders(job.request.n) :
      Allowed(job.request, order) =>
        Duration(job.request, job.stops)
          <= Duration(job.request, IF job.request.roundtrip THEN Append(order, order[1]) ELSE order)

\* Farthest insertion never takes a way the changed table forbids, so that the two
\* fixed ends stay next to each other, and finds a place for every location, although
\* the cost of one is computed by subtracting the greatest duration.
InsertionsPossible ==
  job.service = "trip" /\ job.phase = "insert" =>
    /\ \A i, k \in DOMAIN job.route : i # k => job.route[i] # job.route[k]
    /\ \A id \in Locations(job.request.n) \ ToSet(job.route) :
         LET place == GetShortestRoundTrip(id, job.table, job.route)
         IN place # None /\ place.cost > Lowest
    /\ Len(job.route) > 2 =>
         \A i \in DOMAIN job.route : job.table[<<job.route[i], job.route[(i % Len(job.route)) + 1]>>] # INVALID

\* A trip is one of those that were asked for, and among few locations a fastest one.
TripSound == TripEndsKept /\ TripFastest /\ InsertionsPossible
=============================================================================
