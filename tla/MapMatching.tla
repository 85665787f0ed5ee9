---------------------------- MODULE MapMatching -----------------------------
(* A route with its legs (engine/internal_route_result.hpp).  A leg is     *)
(*   source, target   the parts of their segments that lie before the ends *)
(*   path             the weight of every segment left before the end, the *)
(*                    first one without the source's part                  *)
EXTENDS Integers, Sequences, SequencesExt, FiniteSetsExt, Algorithms

\* The weight a leg is reported with (assembleLeg).
LegWeight(leg) ==
  FoldLeft(LAMBDA x, y : x + y, 0, leg.path) + leg.target
  - (IF leg.path = <<>> THEN leg.source ELSE 0)

Extended(leg, next) ==
  [leg EXCEPT !.target = next.target,
     !.path = IF next.path = <<>> THEN @
              ELSE @ \o <<next.path[1] + next.source>> \o Tail(next.path)]

\* Legs are kept apart only where the point they start at is a waypoint.
CollapseInternalRouteResult(legs, is_waypoint) ==
  IF Len(legs) = 1 THEN legs
  ELSE FoldLeft(LAMBDA kept, i :
                  IF is_waypoint[i] THEN Append(kept, legs[i])
                  ELSE [kept EXCEPT ![Len(kept)] = Extended(@, legs[i])],
                <<>>, [i \in DOMAIN legs |-> i])

-----------------------------------------------------------------------------
(* The match service (engine/plugins/match.cpp): a trace of coordinates is *)
(* tidied (api/match_parameters_tidy.hpp), every coordinate gets candidate *)
(* places on roads, and the most likely sequence of candidates is found by *)
(* the Viterbi algorithm over a hidden Markov model, split where no        *)
(* transition is plausible (routing_algorithms/map_matching.cpp).          *)
(* Log probabilities are integers.  A candidate is                         *)
(*   [fid, rid, forward, reverse, at, distance]                            *)
(* two directed segments, whether each is enabled, a place, and how far    *)
(* from the coordinate it lies.  Indexes count from 1.                     *)

CONSTANTS Requests, None,
          InRange(_, _),         \* coordinate, radius -> its candidates, nearest first
          GreatCircleDistance(_, _),
          SharpTurn(_, _, _),    \* at most 45 degrees between the two ways
          Network(_, _),         \* candidates -> [weight, distance, leg] of the least path, or None
          MaxSpeed,              \* GetMapMatchingMaxSpeed
          WeightMultiplier,
          MAX_BROKEN_STATES,     \* 10
          MAX_DISTANCE_DELTA,    \* 2000 metres
          TidyDistance, TidyDuration, \* 15 metres, 5 seconds
          DEFAULT_GPS_PRECISION, RADIUS_MULTIPLIER,
          MaxLocations, MaxRadius
VARIABLE job

INVALID_STATE == 1000                 \* greater than every index
IMPOSSIBLE_LOG_PROB == -1000000
NaN == -2000000                       \* the logarithm of 0/0, and of sums with it
FAR == 1000000                        \* the greatest double: no path

Indexes(s) == [i \in DOMAIN s |-> i]

-----------------------------------------------------------------------------
(* Tidying: coordinates too near to the last one kept are left out.        *)

\* Which of the requested coordinates is a waypoint: all of them by default.
WasWaypoint(request) ==
  [i \in DOMAIN request.coordinates |->
     request.waypoints = <<>> \/ \E k \in DOMAIN request.waypoints : request.waypoints[k] = i]

\* The coordinates kept: a running distance and time since the last one kept.
Kept(request) ==
  LET n == Len(request.coordinates)
      time(i) == request.timestamps[i + 1] - request.timestamps[i]
      step(state, i) ==
        LET d == state.distance + GreatCircleDistance(request.coordinates[i], request.coordinates[i + 1])
            t == state.duration + (IF request.timestamps = <<>> THEN 0 ELSE time(i))
        IN IF d >= TidyDistance /\ (request.timestamps = <<>> \/ t >= TidyDuration)
           THEN [kept |-> state.kept \cup {i + 1}, distance |-> 0, duration |-> 0]
           ELSE [kept |-> state.kept, distance |-> d, duration |-> t]
  IN FoldLeft(step, [kept |-> {1, n}, distance |-> 0, duration |-> 0], [i \in 1..(n - 2) |-> i]).kept

\* Waypoints of the kept trace: a removed one moves to the last coordinate kept.
TidiedWaypoints(request, kept) ==
  FoldLeft(LAMBDA ws, i :
             LET last == Cardinality(kept \cap 1..i)
             IN IF WasWaypoint(request)[i] /\ (i \in kept \/ ws[Len(ws)] # last)
                THEN Append(ws, last) ELSE ws,
           <<>>, Indexes(request.coordinates))

\* The parallel arrays, filtered: each is empty or as long as the trace.
Filtered(array, tidied_to_original) ==
  IF array = <<>> THEN <<>> ELSE [i \in DOMAIN tidied_to_original |-> array[tidied_to_original[i]]]

\* keep_all and tidy
Tidied(request) ==
  LET kept == IF request.tidy THEN Kept(request) ELSE DOMAIN request.coordinates
      order == Ordered(kept, <)
  IN [tidied_to_original |-> order,
      coordinates |-> Filtered(request.coordinates, order),
      timestamps |-> Filtered(request.timestamps, order),
      radiuses |-> Filtered(request.radiuses, order),
      waypoints |-> IF request.waypoints = <<>> /\ ~request.tidy THEN <<>>
                    ELSE TidiedWaypoints(request, kept)]

-----------------------------------------------------------------------------
(* Candidates *)

\* The server's default radius is used as it is; None and -1 leave it open.
SearchRadius(tidied, i, default_radius) ==
  IF tidied.radiuses # <<>> /\ tidied.radiuses[i] # None THEN tidied.radiuses[i] * RADIUS_MULTIPLIER
  ELSE IF default_radius \notin {None, -1} THEN default_radius
  ELSE DEFAULT_GPS_PRECISION * RADIUS_MULTIPLIER

\* One candidate per pair of directed segments, the nearest.
Unique(candidates) ==
  {c \in candidates : \A d \in candidates :
     (c.fid = d.fid /\ c.rid = d.rid) => c.distance <= d.distance}

\* A two-way candidate becomes one per direction unless the trace turns back here.
Directed(c) ==
  IF c.forward /\ c.reverse
  THEN {[c EXCEPT !.reverse = FALSE], [c EXCEPT !.forward = FALSE]} ELSE {c}

\* By distance; the order of the segments and forward before reverse settle ties.
CandidateRank(c) == 10000 * c.distance + 100 * c.fid + 10 * c.rid + (IF c.forward THEN 0 ELSE 1)

filterCandidates(coordinates, i, candidates) ==
  LET allow_uturn == /\ 1 < i /\ i < Len(coordinates)
                     /\ SharpTurn(coordinates[i - 1], coordinates[i], coordinates[i + 1])
      unique == Unique(ToSet(candidates))
      all == IF allow_uturn THEN unique ELSE UNION {Directed(c) : c \in unique}
  IN Ordered(all, LAMBDA a, b : CandidateRank(a) < CandidateRank(b))

CandidateLists(tidied, default_radius) ==
  [i \in DOMAIN tidied.coordinates |->
     filterCandidates(tidied.coordinates, i, InRange(tidied.coordinates[i], SearchRadius(tidied, i, default_radius)))]

-----------------------------------------------------------------------------
(* The hidden Markov model: per coordinate a column of its candidates.     *)

\* A radius of zero leaves only candidates at distance zero.
EmissionLogProbability(distance, precision) ==
  IF precision = 0 THEN NaN ELSE -1 - ((distance * distance) \div precision)
TransitionLogProbability(d_t) == -2 - d_t

Emissions(tidied, lists) ==
  [t \in DOMAIN lists |-> [s \in DOMAIN lists[t] |->
     EmissionLogProbability(lists[t][s].distance,
       IF tidied.radiuses = <<>> \/ tidied.radiuses[t] = None THEN DEFAULT_GPS_PRECISION
       ELSE tidied.radiuses[t])]]

EmptyState == [viterbi |-> IMPOSSIBLE_LOG_PROB, parent |-> <<0, 0>>, length |-> 0, pruned |-> TRUE]

Clear(model, from) ==
  [t \in DOMAIN model |->
     IF t < from THEN model[t]
     ELSE [states |-> [s \in DOMAIN model[t].states |-> EmptyState], breakage |-> TRUE]]

\* Every candidate of a first coordinate starts with its emission, which is never
\* below MINIMAL_LOG_PROB, the lowest double.
Started(emissions, t, column) ==
  LET states == [s \in DOMAIN column.states |->
                   [viterbi |-> emissions[t][s], parent |-> <<t, s>>, length |-> column.states[s].length,
                    pruned |-> FALSE]]
  IN [states |-> states,
      breakage |-> column.breakage /\ \A s \in DOMAIN states : states[s].pruned]

\* The first coordinate from "from" on with a plausible candidate.  The last one
\* is never a start, plausible or not.
initialize(model, emissions, from) ==
  LET plausible == {t \in from..Len(model) : ~Started(emissions, t, model[t]).breakage}
      stop == Min(plausible \cup {Len(model)})
  IN [model |-> [t \in DOMAIN model |->
                   IF t \in from..stop THEN Started(emissions, t, model[t]) ELSE model[t]],
      start |-> IF stop = Len(model) THEN INVALID_STATE ELSE stop]

getMedianSampleTime(timestamps) ==
  LET differences == [i \in 1..(Len(timestamps) - 1) |-> timestamps[i + 1] - timestamps[i]]
  IN StableSort(differences, <)[(Len(differences) \div 2) + 1]

use_timestamps(tidied) == Len(tidied.timestamps) > 1
StepTime(tidied, from, t) ==
  IF use_timestamps(tidied) THEN tidied.timestamps[t] - tidied.timestamps[from] ELSE 1
MaxDistanceDelta(tidied, from, t) ==
  IF use_timestamps(tidied) THEN StepTime(tidied, from, t) * MaxSpeed ELSE MAX_DISTANCE_DELTA
GapInTrace(tidied, split, from, t) ==
  IF use_timestamps(tidied) /\ split
  THEN StepTime(tidied, from, t) > Max({1, getMedianSampleTime(tidied.timestamps)}) * MAX_BROKEN_STATES
  ELSE t - from > MAX_BROKEN_STATES

getNetworkDistance(a, b, weight_upper_bound) ==
  LET found == Network(a, b)
  IN IF found = None THEN FAR
     ELSE IF found.weight >= weight_upper_bound THEN FAR ELSE found.distance

\* The distance along the network, or FAR when the transition is implausible.
Transition(j, from, s, t, s_prime) ==
  LET haversine == GreatCircleDistance(j.tidied.coordinates[from], j.tidied.coordinates[t])
      delta == MaxDistanceDelta(j.tidied, from, t)
      network == getNetworkDistance(j.lists[from][s], j.lists[t][s_prime],
                                    ((haversine + delta) * WeightMultiplier) \div 4)
      d_t == IF network > haversine THEN network - haversine ELSE haversine - network
  IN IF d_t >= delta THEN [d_t |-> FAR, length |-> FAR] ELSE [d_t |-> d_t, length |-> network]

\* One candidate of column t reached from the candidates of column "from" in turn.
Reached_Eager(j, from, t, s_prime, state, s) ==
  LET before == j.model[from].states[s]
      transition == Transition(j, from, s, t, s_prime)
      new_value == before.viterbi + j.emissions[t][s_prime] + TransitionLogProbability(transition.d_t)
  IN IF \/ before.pruned \/ transition.length = FAR \/ ~state.pruned
        \/ NaN \in {before.viterbi, j.emissions[t][s_prime]}
     THEN state
     ELSE [viterbi |-> new_value, parent |-> <<from, s>>, length |-> transition.length, pruned |-> FALSE]
Reached(j, from, t, s_prime, state, s) ==
  LET before == j.model[from].states[s]
      transition == Transition(j, from, s, t, s_prime)
      new_value == before.viterbi + j.emissions[t][s_prime] + TransitionLogProbability(transition.d_t)
  IN IF \/ before.pruned
        \/ NaN \in {before.viterbi, j.emissions[t][s_prime]}    \* no comparison holds
        \/ state.viterbi > before.viterbi + j.emissions[t][s_prime]
        \/ transition.length = FAR
        \/ new_value <= state.viterbi
     THEN state
     ELSE [viterbi |-> new_value, parent |-> <<from, s>>, length |-> transition.length, pruned |-> FALSE]

ViterbiColumn(j, from, t) ==
  LET states == [s_prime \in DOMAIN j.model[t].states |->
                   FoldLeft(LAMBDA state, s : Reached(j, from, t, s_prime, state, s),
                            j.model[t].states[s_prime], Indexes(j.model[from].states))]
  IN [states |-> states,
      breakage |-> j.model[t].breakage /\ states = j.model[t].states]

-----------------------------------------------------------------------------
(* Requests *)

Error(code) == [code |-> code, matchings |-> <<>>, tracepoints |-> <<>>, routes |-> <<>>]

\* The checks of HandleRequest, in their order; None when all are passed.
RequestError(request) ==
  IF ~request.implemented THEN "NotImplemented"
  ELSE IF request.algorithms # None THEN request.algorithms    \* CheckAlgorithms
  ELSE IF MaxLocations > 0 /\ Len(request.coordinates) > MaxLocations THEN "TooBig"
  ELSE IF ~request.in_bounds THEN "InvalidValue"               \* CheckAllCoordinates
  ELSE IF MaxRadius > 0 /\ \E i \in DOMAIN request.radiuses : request.radiuses[i] # None /\ request.radiuses[i] > MaxRadius
       THEN "TooBig"
  ELSE IF \E i \in 1..(Len(request.timestamps) - 1) : request.timestamps[i + 1] < request.timestamps[i]
       THEN "InvalidValue"
  ELSE None

WaypointError(request, tidied) ==
  /\ request.waypoints # <<>>
  /\ \/ tidied.waypoints[1] # 1
     \/ tidied.waypoints[Len(tidied.waypoints)] # Len(tidied.coordinates)

Answer(answer) == job' = [job EXCEPT !.phase = "done", !.answer = answer]

HandleRequest ==
  /\ job.phase = "request"
  /\ LET error == RequestError(job.request)
         tidied == Tidied(job.request)
     IN IF error # None THEN Answer(Error(error))
        ELSE IF WaypointError(job.request, tidied) THEN Answer(Error("InvalidValue"))
        ELSE job' = [job EXCEPT !.phase = "candidates", !.tidied = tidied]

FindCandidates ==
  /\ job.phase = "candidates"
  /\ LET lists == Value(CandidateLists(job.tidied, job.request.default_radius))
         emissions == Emissions(job.tidied, lists)
         blank == [t \in DOMAIN lists |->
                     [states |-> [s \in DOMAIN lists[t] |-> EmptyState], breakage |-> TRUE]]
         first == initialize(Clear(blank, 1), emissions, 1)
     IN IF \A t \in DOMAIN lists : lists[t] = <<>> THEN Answer(Error("NoSegment"))
        ELSE IF first.start = INVALID_STATE THEN Answer(Error("NoMatch"))
        ELSE job' = [job EXCEPT !.phase = "viterbi", !.lists = lists, !.emissions = emissions,
                       !.model = first.model, !.initial = first.start,
                       !.prev_unbroken = <<first.start>>, !.t = first.start + 1]

-----------------------------------------------------------------------------
(* One coordinate of the trace.  A coordinate no candidate of which is     *)
(* reached is broken, and so is the end it could not be reached from; the  *)
(* trace is split when no good coordinate is left or after a gap, and then *)
(* starts again where the breakage began.                                  *)

SplitTrace(j) ==
  LET split_index == IF j.breakage_begin # INVALID_STATE THEN j.breakage_begin ELSE j.t
      again == initialize(Clear(j.model, split_index), j.emissions, split_index)
      split == [j EXCEPT !.split_points = Append(@, split_index), !.breakage_begin = INVALID_STATE,
                         !.model = again.model]
  IN IF again.start = INVALID_STATE THEN [split EXCEPT !.t = Len(j.lists) + 1]
     ELSE [split EXCEPT !.prev_unbroken = <<again.start>>, !.t = again.start + 1]

ViterbiStep(j) ==
  LET from == Last(j.prev_unbroken)
      column == Value(ViterbiColumn(j, from, j.t))
      stepped == [j EXCEPT !.model[j.t] = column]
  IN IF column.breakage
     THEN [stepped EXCEPT !.breakage_begin = Min({@, j.t}), !.prev_unbroken = Front(@)]
     ELSE [stepped EXCEPT !.prev_unbroken = Append(@, j.t)]

NextCoordinate ==
  /\ job.phase = "viterbi" /\ job.t <= Len(job.lists)
  /\ LET gap == GapInTrace(job.tidied, job.request.split, Last(job.prev_unbroken), job.t)
         stepped == IF gap THEN job ELSE ViterbiStep(job)
     IN job' = IF gap \/ stepped.prev_unbroken = <<>> THEN SplitTrace(stepped)
               ELSE [stepped EXCEPT !.t = @ + 1]

EndOfTrace ==
  /\ job.phase = "viterbi" /\ job.t > Len(job.lists)
  /\ job' = [job EXCEPT !.phase = "reconstruct", !.begin = job.initial,
                !.ends = job.split_points
                         \o (IF job.prev_unbroken = <<>> THEN <<>> ELSE <<Last(job.prev_unbroken) + 1>>)]

-----------------------------------------------------------------------------
(* Sub matchings: from the likeliest last candidate back to the start.     *)

\* The difference of two size_t is a large number when it is negative.
TooShort(last, begin) == (last - begin) + 1 \in {0, 1}

Chain(model, begin, t, s) ==
  LET back[k \in 0..t] ==
        IF k = 0 THEN <<<<t, s>>>>
        ELSE LET chain == back[k - 1]
                 head == chain[1]
             IN IF head[1] <= begin \/ (Len(chain) > 1 /\ chain[2] = head) THEN chain
                ELSE <<model[head[1]].states[head[2]].parent>> \o chain
  IN back[t]

Marked(model, begin, marks, last, s) ==
  LET back[k \in 0..last] ==
        IF k = 0 THEN [at |-> <<last, s>>, marks |-> marks, stop |-> FALSE]
        ELSE LET b == back[k - 1]
                 stop == \/ b.stop \/ b.at[1] <= begin \/ b.at \in b.marks
                         \/ model[b.at[1]].states[b.at[2]].pruned
             IN IF stop THEN [b EXCEPT !.stop = TRUE]
                ELSE [at |-> model[b.at[1]].states[b.at[2]].parent,
                      marks |-> b.marks \cup {b.at}, stop |-> FALSE]
  IN back[last].marks \cup {back[last].at}

LikeliestState(states) ==
  Min({s \in DOMAIN states : \A r \in DOMAIN states : states[r].viterbi <= states[s].viterbi})

SubMatchingOf(j, begin, last, chain, marks) ==
  [indices |-> [i \in DOMAIN chain |-> chain[i][1]],
   nodes |-> [i \in DOMAIN chain |-> j.lists[chain[i][1]][chain[i][2]]],
   alternatives_count |-> [i \in DOMAIN chain |-> Cardinality({m \in marks : m[1] = chain[i][1]}) - 1],
   matched |-> FoldLeft(LAMBDA x, p : x + j.model[p[1]].states[p[2]].length, 0, chain)]

NextSubMatching ==
  /\ job.phase = "reconstruct" /\ job.ends # <<>>
  /\ LET end == Head(job.ends)
         last == Max({t \in job.begin..(end - 1) : ~job.model[t].breakage} \cup {Min({job.begin, end}) - 1})
         begin == Min({t \in job.begin..(end - 1) : ~job.model[t].breakage} \cup {Max({job.begin, end})})
         chain == Value(Chain(job.model, begin, last, LikeliestState(job.model[last].states)))
         walked == job.reachable \cup ToSet(chain)
         marks == Value(FoldLeft(LAMBDA m, s : Marked(job.model, begin, m, last, s), walked,
                                 Indexes(job.model[last].states)))
         rest == [job EXCEPT !.begin = end, !.ends = Tail(@)]
     IN job' = IF TooShort(last, begin) THEN rest
               ELSE IF Len(chain) < 2 THEN [rest EXCEPT !.reachable = walked]
               ELSE [rest EXCEPT !.reachable = marks,
                       !.sub_matchings = Append(@, SubMatchingOf(job, begin, last, chain, marks))]

-----------------------------------------------------------------------------
(* The answer: a route per sub matching, its legs collapsed to the         *)
(* requested waypoints, and a tracepoint per requested coordinate.         *)

Matched(sub_matchings) == UNION {ToSet(sub_matchings[k].indices) : k \in DOMAIN sub_matchings}

MatchingError(request, tidied, sub_matchings) ==
  \/ sub_matchings = <<>>
  \/ /\ request.waypoints # <<>>
     /\ Len(sub_matchings) > 1 \/ ~(ToSet(tidied.waypoints) \subseteq Matched(sub_matchings))

\* Which points of a matching are waypoints: one running index into the waypoints.
WaypointLegs(waypoints, indices) ==
  InTurn(LAMBDA state, i :
           IF waypoints[state.j] = indices[i]
           THEN [j |-> state.j + 1, legs |-> Append(state.legs, TRUE)]
           ELSE [state EXCEPT !.legs = Append(@, FALSE)],
         [j |-> 1, legs |-> <<>>], Indexes(indices)).legs

SubRoute(request, tidied, matching) ==
  LET legs == [i \in 1..(Len(matching.nodes) - 1) |-> Network(matching.nodes[i], matching.nodes[i + 1]).leg]
  IN IF request.waypoints = <<>> THEN legs
     ELSE CollapseInternalRouteResult(legs, WaypointLegs(tidied.waypoints, matching.indices))

MatchingIndex(tidied, sub_matchings, trace_index) ==
  LET at == {<<k, i>> \in UNION {{k} \X DOMAIN sub_matchings[k].indices : k \in DOMAIN sub_matchings} :
               tidied.tidied_to_original[sub_matchings[k].indices[i]] = trace_index}
  IN IF at = {} THEN None
     ELSE CHOOSE x \in at : \A y \in at : y[1] < x[1] \/ (y[1] = x[1] /\ y[2] <= x[2])

\* MakeTracepoints; waypoint indexes count the waypoints met so far.
MakeTracepoints(request, tidied, sub_matchings) ==
  LET was_waypoint == WasWaypoint(request)
      index(i) == MatchingIndex(tidied, sub_matchings, i)
      before(i) == Cardinality({k \in 1..(i - 1) : was_waypoint[k] /\ index(k) # None})
  IN [i \in DOMAIN request.coordinates |->
        IF index(i) = None THEN None
        ELSE [matching |-> index(i)[1],
              candidate |-> sub_matchings[index(i)[1]].nodes[index(i)[2]],
              alternatives |-> sub_matchings[index(i)[1]].alternatives_count[index(i)[2]],
              waypoint |-> IF request.waypoints = <<>> THEN index(i)[2]
                           ELSE IF was_waypoint[i] THEN before(i) + 1 ELSE None]]

MakeResponse ==
  /\ job.phase = "reconstruct" /\ job.ends = <<>>
  /\ IF MatchingError(job.request, job.tidied, job.sub_matchings) THEN Answer(Error("NoMatch"))
     ELSE Answer([code |-> "Ok", matchings |-> job.sub_matchings,
                  routes |-> [k \in DOMAIN job.sub_matchings |->
                                SubRoute(job.request, job.tidied, job.sub_matchings[k])],
                  tracepoints |-> MakeTracepoints(job.request, job.tidied, job.sub_matchings)])

-----------------------------------------------------------------------------
Init ==
  \E request \in Requests :
    job = [service |-> "match", request |-> request, phase |-> "request", tidied |-> None,
           lists |-> <<>>, emissions |-> <<>>, model |-> <<>>, initial |-> 0, t |-> 0,
           prev_unbroken |-> <<>>, breakage_begin |-> INVALID_STATE, split_points |-> <<>>,
           begin |-> 0, ends |-> <<>>, reachable |-> {}, sub_matchings |-> <<>>, answer |-> None]

Next ==
  \/ HandleRequest \/ FindCandidates \/ NextCoordinate \/ EndOfTrace
  \/ NextSubMatching \/ MakeResponse

Spec == Init /\ [][Next]_job

-----------------------------------------------------------------------------
(* Properties *)

Answered == job.service = "match" /\ job.phase = "done" /\ job.answer.code = "Ok"

\* The log probability of one choice of candidates for the coordinates of a
\* sub matching, IMPOSSIBLE when a transition is implausible.
LogProbability(j, indices, choice) ==
  LET steps == [i \in 1..(Len(indices) - 1) |->
                  Transition(j, indices[i], choice[i], indices[i + 1], choice[i + 1])]
  IN IF \/ \E i \in DOMAIN indices : j.emissions[indices[i]][choice[i]] = NaN
        \/ \E i \in DOMAIN steps : steps[i].length = FAR
     THEN IMPOSSIBLE_LOG_PROB
     ELSE FoldLeft(LAMBDA x, i : x + j.emissions[indices[i]][choice[i]], 0, Indexes(indices))
          + FoldLeft(LAMBDA x, step : x + TransitionLogProbability(step.d_t), 0, steps)
Picks(j, indices) ==
  {c \in [DOMAIN indices -> 1..Max({Len(j.lists[t]) : t \in ToSet(indices)})] :
     \A i \in DOMAIN indices : c[i] <= Len(j.lists[indices[i]])}

\* Every sub matching picks, for the coordinates it covers, a sequence of candidates
\* as likely as any, although whole branches are cut off before their distance is
\* known and the model is rewound and reused after splits (mapMatching).
MatchLikeliest ==
  Answered => \A k \in DOMAIN job.sub_matchings :
    LET m == job.sub_matchings[k]
        chosen == [i \in DOMAIN m.indices |->
                     CHOOSE s \in DOMAIN job.lists[m.indices[i]] : job.lists[m.indices[i]][s] = m.nodes[i]]
        p == LogProbability(job, m.indices, chosen)
    IN /\ p > IMPOSSIBLE_LOG_PROB
       /\ \A c \in Picks(job, m.indices) : LogProbability(job, m.indices, c) <= p

\* Sub matchings follow each other in the trace, have two points at least, and no
\* two neighbouring points lie on both sides of a gap (split_points, gap_in_trace).
MatchingsFollow ==
  Answered => LET all == FlattenSeq([k \in DOMAIN job.sub_matchings |-> job.sub_matchings[k].indices])
              IN /\ \A i \in 1..(Len(all) - 1) : all[i] < all[i + 1]
                 /\ \A k \in DOMAIN job.sub_matchings :
                      LET ind == job.sub_matchings[k].indices
                      IN /\ Len(ind) >= 2
                         /\ \A i \in 1..(Len(ind) - 1) :
                              ~GapInTrace(job.tidied, job.request.split, ind[i], ind[i + 1])

\* Going back to where a breakage began comes to an end: the trace is split at ever
\* later coordinates, so at most as often as it has coordinates.
SplitsAdvance ==
  job.service = "match" /\ job.phase = "viterbi" =>
    /\ \A i \in 1..(Len(job.split_points) - 1) : job.split_points[i] < job.split_points[i + 1]
    /\ job.split_points # <<>> => Last(job.split_points) < job.t
    /\ job.breakage_begin # INVALID_STATE => job.breakage_begin > Last(<<0>> \o job.split_points)

\* Candidates on the likeliest way to some last candidate that is reached at all.
OnSomeWay(m, t) ==
  LET begin == m.indices[1]
      last == Last(m.indices)
  IN {s \in DOMAIN job.lists[t] : \E r \in DOMAIN job.lists[last] :
        /\ ~job.model[last].states[r].pruned
        /\ <<t, s>> \in ToSet(Chain(job.model, begin, last, r))}

\* Before its last point a matching counts as alternatives exactly the candidates
\* some other likeliest way goes through (viterbi_reachable).  At the last point
\* candidates that are not reached at all are counted as well.
AlternativesCounted ==
  Answered => \A k \in DOMAIN job.sub_matchings :
    LET m == job.sub_matchings[k]
    IN \A i \in 1..(Len(m.indices) - 1) :
         m.alternatives_count[i] + 1 = Cardinality(OnSomeWay(m, m.indices[i]))

\* A collapsed route has a leg between every two requested waypoints, or their
\* representatives after tidying, and reports the weight of the legs it merges,
\* provided the first of them leaves its segment and none turns back where the one
\* before it ended (CollapseInternalRouteResult).
LegsPerWaypoint ==
  Answered /\ job.request.waypoints # <<>> =>
    LET m == job.sub_matchings[1]
        legs == job.answer.routes[1]
        ws == job.tidied.waypoints
        at(w) == CHOOSE i \in DOMAIN m.indices : m.indices[i] = w
        single(i) == Network(m.nodes[i], m.nodes[i + 1]).leg
        merged(l) == [i \in 1..(at(ws[l + 1]) - at(ws[l])) |-> single(at(ws[l]) + i - 1)]
    IN /\ Len(legs) = Len(ws) - 1
       /\ \A l \in DOMAIN legs :
            \/ merged(l)[1].path = <<>> /\ Len(merged(l)) > 1
            \/ \E i \in 1..(Len(merged(l)) - 1) : merged(l)[i].target # merged(l)[i + 1].source
            \/ LegWeight(legs[l]) = FoldLeft(LAMBDA x, leg : x + LegWeight(leg), 0, merged(l))

\* Every tracepoint answered for a coordinate is a candidate of that coordinate, and
\* unless tidying removed a waypoint, the waypoint indexes number the ends of the
\* route's legs (tidied_to_original, was_waypoint_idx).
TracepointsAligned ==
  Answered =>
    LET points == job.answer.tracepoints
        removed == {i \in DOMAIN points : WasWaypoint(job.request)[i]} \ ToSet(job.tidied.tidied_to_original)
        numbered == {i \in DOMAIN points : points[i] # None /\ points[i].waypoint # None}
    IN /\ \A i \in DOMAIN points : points[i] # None =>
            \E c \in ToSet(InRange(job.request.coordinates[i], MaxRadius * RADIUS_MULTIPLIER)) :
              c.at = points[i].candidate.at /\ c.distance = points[i].candidate.distance
       /\ job.request.waypoints # <<>> /\ removed = {} =>
            {points[i].waypoint : i \in numbered} = 1..(Len(job.answer.routes[1]) + 1)

\* Matching as a whole: the likeliest candidates between the gaps of the trace, and an
\* answer whose legs, tracepoints and alternatives count the same points.
MatchingsSound ==
  /\ MatchLikeliest
  /\ MatchingsFollow
  /\ SplitsAdvance
  /\ AlternativesCounted
  /\ LegsPerWaypoint
  /\ TracepointsAligned
=============================================================================
