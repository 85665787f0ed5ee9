----------------------------- MODULE OsmImport ------------------------------
(* Reading OSM objects into the extraction containers: the relation parsers  *)
(* (restriction_parser.cpp, maneuver_override_relation_parser.cpp), the      *)
(* callbacks (extractor_callbacks.cpp) and the class names set afterwards    *)
(* (extractor.cpp).                                                          *)
(*                                                                           *)
(* What the profile made of a way is [id, nodes, forward, backward,          *)
(* duration, weight, name, lanes, startpoint]; a direction is [mode, speed,  *)
(* rate, classes, turn_lanes, ref].  Mode 0 is inaccessible and a duration   *)
(* or weight of -1 is unset.  A name id counts the stored names, not their   *)
(* five offsets.                                                             *)
EXTENDS Integers, Sequences, SequencesExt, FiniteSets, Algorithms

CONSTANTS MaxClassIndex,          \* MAX_CLASS_INDEX
          MaxExcludableClasses,   \* MAX_EXCLUDABLE_CLASSES
          InvalidClassNames,      \* names with a character that isValidClassName refuses
          MaxWayId,               \* the largest id, which no way may have
          WeightMultiplier        \* of the profile, a power of ten

ASSUME ClassBounds == MaxClassIndex \in Nat /\ MaxExcludableClasses \in Nat

NoId == -1

-----------------------------------------------------------------------------
(* RestrictionParser.  A relation is [tags, except, members]; a tag is       *)
(* [value, conditional, condition] and a member [role, type, ref].           *)
MembersOf(rel, role, type) ==
  LET in == SelectSeq(rel.members, LAMBDA x : x.role = role /\ x.type = type)
  IN [i \in DOMAIN in |-> in[i].ref]

ShouldIgnoreRestriction(except, modes) == except \cap modes # {}

\* The tags one after the other: each sets whether the restriction is an
\* only_*, a tag with a condition replaces the condition.
ReadTag(read, tag) ==
  [valid |-> read.valid /\ tag.value # "other" /\ tag.condition # "unreadable",
   only |-> tag.value = "only",
   multi_to |-> read.multi_to \/ tag.value = "no_exit",
   multi_from |-> read.multi_from \/ tag.value = "no_entry",
   condition |-> IF tag.condition = "none" THEN read.condition ELSE tag.condition]

\* The role and type of the last via member decide what the via is.
LastViaIsNode(rel) ==
  LET vias == SelectSeq(rel.members, LAMBDA x : x.role = "via" /\ x.type \in {"node", "way"})
  IN vias = << >> \/ Last(vias).type = "node"

TryParseRestriction(rel, profile) ==
  LET tags == SelectSeq(rel.tags, LAMBDA t : profile.parse_conditionals \/ ~t.conditional)
      read == FoldLeft(ReadTag, [valid |-> TRUE, only |-> FALSE, multi_to |-> FALSE,
                                 multi_from |-> FALSE, condition |-> "none"], tags)
      froms == MembersOf(rel, "from", "way")
      tos == MembersOf(rel, "to", "way")
      via_nodes == MembersOf(rel, "via", "node")
      via_ways == MembersOf(rel, "via", "way")
      via == IF LastViaIsNode(rel) THEN [node |-> Last(via_nodes)] ELSE [ways |-> via_ways]
      usable == /\ profile.use_turn_restrictions /\ tags # << >>
                /\ ~ShouldIgnoreRestriction(rel.except, profile.modes)
                /\ read.valid
                /\ froms # << >> /\ tos # << >> /\ (via_nodes # << >> \/ via_ways # << >>)
                /\ (Len(froms) > 1 => read.multi_from) /\ (Len(tos) > 1 => read.multi_to)
      pair(k) == <<froms[1 + ((k - 1) \div Len(tos))], tos[1 + ((k - 1) % Len(tos))]>>
  IN IF ~usable THEN << >>
     ELSE [k \in 1..(Len(froms) * Len(tos)) |->
             [from |-> pair(k)[1], to |-> pair(k)[2], via |-> via,
              only |-> read.only, condition |-> read.condition]]

\* A maneuver has exactly one from, one to and one via node, and may have via
\* ways besides.
TryParseManeuver(rel) ==
  LET via_nodes == MembersOf(rel, "via", "node")
      via_ways == MembersOf(rel, "via", "way")
      one(s) == Len(s) = 1
  IN IF /\ rel.maneuver # "none"
        /\ one(MembersOf(rel, "from", "way")) /\ one(MembersOf(rel, "to", "way"))
        /\ one(via_nodes)
     THEN <<[from |-> MembersOf(rel, "from", "way")[1], to |-> MembersOf(rel, "to", "way")[1],
             via |-> IF via_ways = << >> THEN [node |-> via_nodes[1]] ELSE [ways |-> via_ways],
             via_node |-> via_nodes[1], maneuver |-> rel.maneuver]>>
     ELSE << >>

-----------------------------------------------------------------------------
(* The containers, and ExtractorCallbacks filling them.                      *)
EmptyContainers ==
  [all_nodes |-> << >>, barriers |-> << >>, signals |-> << >>, restrictions |-> << >>,
   maneuvers |-> << >>, annotations |-> << >>, edges |-> << >>, used |-> << >>,
   ways |-> << >>, offsets |-> <<0>>, names |-> << >>, lanes |-> <<"">>,
   classes |-> << >>, error |-> FALSE]

ProcessNode(c, node) ==
  [c EXCEPT !.all_nodes = Append(@, node.id),
            !.barriers = IF node.barrier THEN Append(@, node.id) ELSE @,
            !.signals = IF node.signal = "none" THEN @ ELSE Append(@, <<node.id, node.signal>>)]

ProcessRestriction(c, restriction) == [c EXCEPT !.restrictions = Append(@, restriction)]

ProcessManeuverOverride(c, override) == [c EXCEPT !.maneuvers = Append(@, override)]

\* The position of a value in a list that keeps every value once.
PositionOf(seq, v) == CHOOSE i \in DOMAIN seq : seq[i] = v

WithValue(seq, v) == IF v \in {seq[i] : i \in DOMAIN seq} THEN seq ELSE Append(seq, v)

\* The classes of a direction get indexes in the order they are met; a name
\* that is not valid, and one class too many, end the extraction.
classesToMask(c, names) ==
  FoldLeft(LAMBDA d, name :
             IF name \in InvalidClassNames THEN [d EXCEPT !.error = TRUE]
             ELSE IF name \in {d.classes[i] : i \in DOMAIN d.classes} THEN d
             ELSE IF Len(d.classes) > MaxClassIndex THEN [d EXCEPT !.error = TRUE]
             ELSE [d EXCEPT !.classes = Append(@, name)], c, names)

\* A value given for a way is shared evenly by its segments.  Values are
\* fractions, a numerator and a denominator.
toValueByEdgeOrByMeter(way, by_way, by_meter) ==
  IF by_way >= 0 THEN [by |-> "edge", value |-> <<by_way, Len(way.nodes) - 1>>]
  ELSE [by |-> "meter", value |-> by_meter]

\* Metres in a second, from kilometres in an hour.
DurationData(way, dir) == toValueByEdgeOrByMeter(way, way.duration, <<10 * dir.speed, 36>>)

WeightData(way, dir, profile) ==
  IF profile.fallback_to_duration THEN DurationData(way, dir)
  ELSE toValueByEdgeOrByMeter(way, way.weight, <<dir.rate, 1>>)

\* A way is dropped when neither direction has a speed or a rate to travel by,
\* when it has one node, and when its id is no id.
Unusable(way, profile) ==
  LET closed(dir, v) == dir.mode = 0 \/ v <= 0
  IN \/ closed(way.forward, way.forward.speed) /\ closed(way.backward, way.backward.speed)
        /\ way.duration <= 0
     \/ ~profile.fallback_to_duration
        /\ closed(way.forward, way.forward.rate) /\ closed(way.backward, way.backward.rate)
        /\ way.weight <= 0
     \/ Len(way.nodes) <= 1
     \/ way.id = MaxWayId

InDirection(way, dir) ==
  (dir.speed > 0 \/ dir.rate > 0 \/ way.duration > 0 \/ way.weight > 0) /\ dir.mode # 0

SplitEdge(way, profile) ==
  /\ InDirection(way, way.forward) /\ InDirection(way, way.backward)
  /\ \/ profile.force_split_edges
     \/ \E field \in {"rate", "speed", "mode", "turn_lanes", "classes", "ref"} :
           way.forward[field] # way.backward[field]

\* The edges of one direction of a way, one for each pair of nodes.
EdgesOf(way, dir, flags, annotation, profile) ==
  [i \in 1..(Len(way.nodes) - 1) |->
     [osm_source |-> way.nodes[i], osm_target |-> way.nodes[i + 1], annotation |-> annotation,
      forward |-> flags[1], backward |-> flags[2], split |-> flags[3],
      class |-> [lanes |-> way.lanes, startpoint |-> way.startpoint, roundabout |-> way.roundabout],
      weight_data |-> WeightData(way, dir, profile),
      duration_data |-> DurationData(way, dir)]]

\* One direction: its annotation and, pointing at it, its edges.
AddDirection(c, way, dir, flags, profile) ==
  LET annotation == [name |-> PositionOf(c.names, <<way.name, dir.ref>>),
                     lanes |-> IF dir.turn_lanes = "" THEN NoId
                               ELSE PositionOf(c.lanes, dir.turn_lanes),
                     classes |-> {PositionOf(c.classes, dir.classes[i]) : i \in DOMAIN dir.classes},
                     mode |-> dir.mode]
  IN [c EXCEPT !.annotations = Append(@, annotation),
               !.edges = @ \o EdgesOf(way, dir, flags, Len(c.annotations) + 1, profile)]

AppendNodes(c, way) ==
  [c EXCEPT !.used = @ \o way.nodes, !.ways = Append(@, way.id),
            !.offsets = Append(@, Len(c.used) + Len(way.nodes))]

ProcessWay(c, way, profile) ==
  LET fwd == way.forward
      bwd == way.backward
      classed == classesToMask(classesToMask(c, fwd.classes), bwd.classes)
      named == [classed EXCEPT !.lanes = WithValue(WithValue(@, fwd.turn_lanes), bwd.turn_lanes),
                  !.names = WithValue(WithValue(@, <<way.name, fwd.ref>>), <<way.name, bwd.ref>>)]
      split == SplitEdge(way, profile)
      in_forward == InDirection(way, fwd)
      in_backward == InDirection(way, bwd)
      forwards == IF in_forward
                  THEN AddDirection(named, way, fwd, <<TRUE, in_backward /\ ~split, split>>, profile)
                  ELSE named
      both == IF in_backward /\ (~in_forward \/ split)
              THEN AddDirection(forwards, way, bwd, <<FALSE, TRUE, split>>, profile)
              ELSE forwards
  IN IF Unusable(way, profile) THEN c
     ELSE IF classed.error THEN classed
     ELSE AppendNodes(both, way)

-----------------------------------------------------------------------------
\* ProcessElements on a buffer: the objects as the profile sees them.
ProcessElements(buffer, profile) ==
  LET of(type) == SelectSeq(buffer, LAMBDA o : o.type = type)
      relations == of("relation")
      restrictions(r) == TryParseRestriction(r, profile)
  IN [nodes |-> of("node"), ways |-> of("way"),
      restrictions |-> FlattenSeq([i \in DOMAIN relations |-> restrictions(relations[i])]),
      maneuvers |-> FlattenSeq([i \in DOMAIN relations |->
                       IF restrictions(relations[i]) # << >> THEN << >>
                       ELSE TryParseManeuver(relations[i])])]

\* Storing a parsed buffer; an error ends the extraction.
StoreBuffer(c, parsed, profile) ==
  LET nodes == InTurn(ProcessNode, c, parsed.nodes)
      ways == InTurn(LAMBDA d, w : IF d.error THEN d ELSE ProcessWay(d, w, profile),
                     nodes, parsed.ways)
  IN InTurn(ProcessManeuverOverride,
            InTurn(ProcessRestriction, ways, parsed.restrictions), parsed.maneuvers)

\* SetClassNames: names the profile lists join the map, names it does not
\* list are an error.
SetClassNames(c, listed) ==
  LET joined == classesToMask(c, listed)
      unknown == {joined.classes[i] : i \in DOMAIN joined.classes} \ {listed[i] : i \in DOMAIN listed}
  IN IF listed = << >> THEN c ELSE [joined EXCEPT !.error = @ \/ unknown # {}]

\* SetExcludableClasses: combinations that name a known class, unknown names
\* left out; the first entry excludes nothing.
SetExcludableClasses(c, combinations) ==
  LET mask(combination) == {PositionOf(c.classes, n) :
                              n \in combination \cap {c.classes[i] : i \in DOMAIN c.classes}}
      masks == [i \in DOMAIN combinations |-> mask(combinations[i])]
  IN IF Len(combinations) > MaxExcludableClasses THEN [error |-> TRUE, excludable |-> << >>]
     ELSE [error |-> FALSE, excludable |-> <<{}>> \o SelectSeq(masks, LAMBDA s : s # {})]

-----------------------------------------------------------------------------
(* PrepareData of src/extractor/extraction_containers.cpp: OSM ids become    *)
(* positions, edges get weights and lose their parallels, and restrictions,  *)
(* maneuver overrides and traffic signals are resolved to node paths.        *)
(*                                                                           *)
(* An internal node id is the position, from 1, in the sorted list of used   *)
(* nodes; Special stands for SPECIAL_NODEID and SPECIAL_OSM_NODEID.          *)

CONSTANT Distance(_, _)      \* metres between two OSM nodes, at least 0

Special == 0

Nodes(c, i) == SubSeq(c.used, c.offsets[i] + 1, c.offsets[i + 1])

\* The nodes of the ways that a list of relations names; the last way stored
\* under an id counts, and a way that was not stored has no nodes.
ReferencedWays(c, relations) ==
  LET named == UNION {{r.from, r.to} \cup
                      (IF "ways" \in DOMAIN r.via THEN {r.via.ways[i] : i \in DOMAIN r.via.ways} ELSE {})
                      : r \in {relations[i] : i \in DOMAIN relations}}
      stored(w) == {i \in DOMAIN c.ways : c.ways[i] = w}
  IN [w \in named |-> IF stored(w) = {} THEN << >>
                      ELSE Nodes(c, CHOOSE i \in stored(w) : \A j \in stored(w) : j <= i)]

IdentifyRestrictionWays(c) == ReferencedWays(c, c.restrictions)

IdentifyManeuverOverrideWays(c) == ReferencedWays(c, c.maneuvers)

\* A signal for one direction becomes the segments that lead to it on the ways.
IdentifyTrafficSignals(c) ==
  LET signals == {c.signals[i] : i \in DOMAIN c.signals}
      direction(node) == LET first == CHOOSE i \in DOMAIN c.signals :
                               /\ c.signals[i][1] = node /\ c.signals[i][2] # "both"
                               /\ \A j \in 1..(i - 1) : c.signals[j][1] # node \/ c.signals[j][2] = "both"
                         IN c.signals[first][2]
      one_way == {s[1] : s \in {t \in signals : t[2] # "both"}}
      on(way) == {<<way[k - 1], way[k]>> : k \in {j \in 2..Len(way) :
                      way[j] \in one_way /\ direction(way[j]) = "forward"}}
                 \cup {<<way[k + 1], way[k]>> : k \in {j \in 1..(Len(way) - 1) :
                      way[j] \in one_way /\ direction(way[j]) = "reverse"}}
  IN [both |-> {s[1] : s \in {t \in signals : t[2] = "both"}},
      segments |-> UNION {on(Nodes(c, i)) : i \in DOMAIN c.ways}]

-----------------------------------------------------------------------------
\* PrepareNodes: the ids that ways use and the input has, sorted.
PrepareNodes(c) ==
  Ordered({c.used[i] : i \in DOMAIN c.used} \cap {c.all_nodes[i] : i \in DOMAIN c.all_nodes},
          LAMBDA a, b : a < b)

mapExternalToInternalNodeID(used, osm) ==
  IF \E i \in DOMAIN used : used[i] = osm THEN CHOOSE i \in DOMAIN used : used[i] = osm
  ELSE Special

UsedBarriers(c, used) ==
  {mapExternalToInternalNodeID(used, c.barriers[i]) : i \in DOMAIN c.barriers} \ {Special}

-----------------------------------------------------------------------------
(* PrepareEdges.                                                             *)
\* The nearest whole number, a half away from zero (std::round).
Rounded(num, den) == (2 * num + den) \div (2 * den)

\* What a segment of a length is worth, in units of which scale make one of
\* the profile's: deciseconds, or weights by the profile's multiplier.
Measure(data, distance, scale) ==
  LET num == data.value[1]
      den == data.value[2]
  IN IF data.by = "edge" THEN Rounded(scale * num, den) ELSE Rounded(scale * distance * den, num)

AtLeastOne(v) == IF v < 1 THEN 1 ELSE v

\* An edge by its internal nodes, from the smaller to the larger, with its
\* weight and duration; an edge without both nodes, and a loop, has none.
Resolved(e, used) ==
  LET source == mapExternalToInternalNodeID(used, e.osm_source)
      target == mapExternalToInternalNodeID(used, e.osm_target)
      distance == Distance(e.osm_source, e.osm_target)
      turned == source > target
  IN IF source = Special \/ target = Special \/ source = target
     THEN [valid |-> FALSE, source |-> Special, target |-> Special]
     ELSE [valid |-> TRUE,
           source |-> IF turned THEN target ELSE source,
           target |-> IF turned THEN source ELSE target,
           forward |-> IF turned THEN e.backward ELSE e.forward,
           backward |-> IF turned THEN e.forward ELSE e.backward,
           split |-> e.split, class |-> e.class, annotation |-> e.annotation,
           weight |-> AtLeastOne(Measure(e.weight_data, distance, WeightMultiplier)),
           duration |-> AtLeastOne(Measure(e.duration_data, distance, 10)),
           distance |-> distance]

\* CmpEdgeByInternalSourceTargetAndName; street names are compared by where
\* they were first stored, which stands for their order as strings.
EdgeLess(a, b, c) ==
  LET street(e) == c.names[c.annotations[e.annotation].name][1]
      rank(e) == CHOOSE i \in DOMAIN c.names :
                   c.names[i][1] = street(e) /\ \A j \in 1..(i - 1) : c.names[j][1] # street(e)
  IN \/ a.source < b.source
     \/ a.source = b.source /\ a.target < b.target
     \/ a.source = b.source /\ a.target = b.target /\ rank(a) < rank(b)

\* The edge kept for the backward direction, turned around.
Reversed(e, has_forward) ==
  [e EXCEPT !.source = e.target, !.target = e.source,
            !.forward = TRUE, !.backward = FALSE, !.split = has_forward]

Cheaper(a, b) == a.weight < b.weight \/ (a.weight = b.weight /\ a.duration < b.duration)

\* The first of the cheapest edges among some positions, none of them if empty.
Cheapest(edges, among) ==
  IF among = {} THEN 0
  ELSE CHOOSE i \in among : \A j \in among :
         Cheaper(edges[i], edges[j]) \/ (~Cheaper(edges[j], edges[i]) /\ i <= j)

\* Of the edges between two nodes, the cheapest for each direction stay.
Parallels(edges, group) ==
  LET f == Cheapest(edges, {i \in group : edges[i].forward})
      b == Cheapest(edges, {i \in group : edges[i].backward})
  IN [i \in group |->
        IF i = f /\ i = b THEN [edges[i] EXCEPT !.split = FALSE]
        ELSE IF i = f THEN [edges[i] EXCEPT !.backward = FALSE, !.split = b # 0]
        ELSE IF i = b THEN Reversed(edges[i], f # 0)
        ELSE [edges[i] EXCEPT !.valid = FALSE]]

\* The used edges.  parallel_sort leaves edges it cannot tell apart in any
\* order; the model takes the order of the input.
PrepareEdges(c, used) ==
  LET all == SelectSeq([i \in DOMAIN c.edges |-> Resolved(c.edges[i], used)], LAMBDA e : e.valid)
      sorted == Value(StableSort(all, LAMBDA a, b : EdgeLess(a, b, c)))
      group(i) == {j \in DOMAIN sorted : sorted[j].source = sorted[i].source
                                         /\ sorted[j].target = sorted[i].target}
      kept == Value([i \in DOMAIN sorted |-> Parallels(sorted, group(i))[i]])
  IN SelectSeq(kept, LAMBDA e : e.valid)

-----------------------------------------------------------------------------
(* Turn paths.                                                               *)
\* Where the end of one way meets the end of another: the node before, the
\* common node and the node after.
find_turn_nodes(from, via, at) ==
  LET first == from[1]
      last == from[Len(from)]
      after(node) == IF node = via[1] THEN <<node, via[2]>>
                     ELSE IF node = via[Len(via)] THEN <<node, via[Len(via) - 1]>>
                     ELSE << >>
  IN IF at \in {Special, first} /\ after(first) # << >> THEN <<from[2]>> \o after(first)
     ELSE IF at \in {Special, last} /\ after(last) # << >>
     THEN <<from[Len(from) - 1]>> \o after(last)
     ELSE << >>

\* A way is always walked the way it is drawn.
WalkFrom_AsDrawn(way, at) == way

\* A way walked from one of its ends; no way if it starts at neither.
WalkFrom(way, at) ==
  IF at = way[1] THEN way ELSE IF at = way[Len(way)] THEN Reverse(way) ELSE << >>

find_via_way_path(from_way, via_ways, to_way) ==
  LET turn == find_turn_nodes(from_way, via_ways[1], Special)
      step(path, way) ==
        IF path = << >> \/ WalkFrom(way, Last(path)) = << >> THEN << >>
        ELSE path \o Tail(WalkFrom(way, Last(path)))
      vias == FoldLeft(step, SubSeq(turn, 1, 2), via_ways)
      onto == IF vias = << >> THEN << >> ELSE WalkFrom(to_way, Last(vias))
  IN IF turn = << >> \/ vias = << >> \/ onto = << >> THEN << >> ELSE Append(vias, onto[2])

\* The path of a relation in OSM nodes, empty when a way is unknown or the
\* ways do not meet.
OsmPath(r, ways) ==
  LET known == /\ ways[r.from] # << >> /\ ways[r.to] # << >>
               /\ ("ways" \in DOMAIN r.via => \A i \in DOMAIN r.via.ways : ways[r.via.ways[i]] # << >>)
  IN IF ~known THEN << >>
     ELSE IF "node" \in DOMAIN r.via
     THEN find_turn_nodes(ways[r.from], ways[r.to], r.via.node)
     ELSE find_via_way_path(ways[r.from], [i \in DOMAIN r.via.ways |-> ways[r.via.ways[i]]], ways[r.to])

InternalPath(r, ways, used) ==
  LET osm == OsmPath(r, ways)
  IN [i \in DOMAIN osm |-> mapExternalToInternalNodeID(used, osm[i])]

ValidPath(path) == path # << >> /\ \A i \in DOMAIN path : path[i] # Special

PrepareRestrictions(c, ways, used) ==
  LET all == [i \in DOMAIN c.restrictions |->
                [path |-> InternalPath(c.restrictions[i], ways, used),
                 only |-> c.restrictions[i].only, condition |-> c.restrictions[i].condition]]
  IN SelectSeq(all, LAMBDA r : ValidPath(r.path))

\* UnresolvedManeuverOverride::Valid: the instruction node is on the via path.
PrepareManeuverOverrides(c, ways, used) ==
  LET all == [i \in DOMAIN c.maneuvers |->
                [path |-> InternalPath(c.maneuvers[i], ways, used),
                 instruction |-> mapExternalToInternalNodeID(used, c.maneuvers[i].via_node),
                 type |-> c.maneuvers[i].maneuver]]
      on_via(m) == \E i \in 2..(Len(m.path) - 1) : m.path[i] = m.instruction
  IN SelectSeq(all, LAMBDA m : ValidPath(m.path) /\ m.instruction # Special /\ on_via(m))

PrepareTrafficSignals(signals, used) ==
  LET internal(osm) == mapExternalToInternalNodeID(used, osm)
  IN [both |-> {internal(n) : n \in signals.both} \ {Special},
      segments |-> {<<internal(s[1]), internal(s[2])>> :
                      s \in {t \in signals.segments : internal(t[1]) # Special /\ internal(t[2]) # Special}}]

\* PrepareData: everything after the import.  The ways are looked up before
\* the node list is sorted, while the offsets into it still hold.
PrepareData(c) ==
  LET used == Value(PrepareNodes(c))
  IN [used |-> used,
      barriers |-> UsedBarriers(c, used),
      edges |-> PrepareEdges(c, used),
      annotations |-> c.annotations,
      signals |-> PrepareTrafficSignals(IdentifyTrafficSignals(c), used),
      maneuvers |-> PrepareManeuverOverrides(c, IdentifyManeuverOverrideWays(c), used),
      restrictions |-> PrepareRestrictions(c, IdentifyRestrictionWays(c), used)]
=============================================================================
