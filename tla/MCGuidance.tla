----------------------------- MODULE MCGuidance -----------------------------
(* Legs for the post-processing of steps.  A leg is made of the kinds of   *)
(* its turns, the lengths of the ways between them and the names the roads *)
(* change to; bearings follow from the angles of the turns.                *)
EXTENDS Integers, Sequences, FiniteSets, TLC, Algorithms

CONSTANT None
VARIABLE job

Nameless == [id |-> 0, name |-> <<>>, ref |-> <<>>, pronunciation |-> <<>>, exits |-> <<>>]
Named(id, name, ref) == [id |-> id, name |-> name, ref |-> ref, pronunciation |-> <<>>, exits |-> <<>>]
RoadSigns == <<Named(1, <<1, 2>>, <<>>), Named(2, <<3>>, <<>>), Nameless, Named(3, <<1, 2, 9>>, <<>>),
               Named(4, <<>>, <<7>>), Named(5, <<1, 2>>, <<7>>)>>
StepRoads == [r \in (1..6) \X {"driving", "ferry"} \X BOOLEAN |->
                [sign |-> RoadSigns[r[1]], mode |-> r[2], segregated |-> r[3]]]

Heading(h, angle) == (h + 180 - angle) % 360
Modifier(angle) ==
  CASE angle = 0 -> "UTurn" [] angle < 60 /\ angle > 0 -> "SharpRight" [] angle >= 60 /\ angle < 140 -> "Right"
    [] angle >= 140 /\ angle < 160 -> "SlightRight" [] angle >= 160 /\ angle <= 200 -> "Straight"
    [] angle > 200 /\ angle <= 220 -> "SlightLeft" [] angle > 220 /\ angle <= 300 -> "Left" [] OTHER -> "SharpLeft"

\* A kind of turn: type, angle, the other roads (angle and whether they may be entered),
\* whether the road changes, and lanes.
Kind(type, angle, others, change) ==
  [type |-> type, angle |-> angle, others |-> others, change |-> change, lanes |-> [n |-> 0, first |-> 255], total |-> 0]
WithLanes(kind, n, first, total) == [kind EXCEPT !.lanes = [n |-> n, first |-> first], !.total = total]
Cross == <<<<90, TRUE>>, <<270, TRUE>>>>
Closed == <<<<90, FALSE>>, <<270, FALSE>>>>

At3(kind, heading) ==
  [bearings |-> <<(heading + 180) % 360, Heading(heading, kind.angle)>>
                  \o [i \in DOMAIN kind.others |-> Heading(heading, kind.others[i][1])],
   entry |-> <<FALSE, TRUE>> \o [i \in DOMAIN kind.others |-> kind.others[i][2]],
   in |-> 1, out |-> 2, lanes |-> kind.lanes, total |-> kind.total]

\* TurnBearing: a bearing in eight bits.
Coarse(bearing) == (((bearing * 256) \div 360) * 360) \div 256

\* The leg: after way i of length lens[i] comes turn i; the roads go through `names`.
Leg(kinds, lens, names, segregated) ==
  LET n == Len(kinds)
      changes(i) == Cardinality({k \in 1..(i - 1) : kinds[k].change \in {"name", "mode"}})
      switches(i) == Cardinality({k \in 1..(i - 1) : kinds[k].change = "mode"})
      road(i) == <<names[(changes(i) % Len(names)) + 1], IF switches(i) % 2 = 0 THEN "driving" ELSE "ferry", i \in segregated>>
      at[i \in 0..(n + 1)] == IF i = 0 THEN 0 ELSE at[i - 1] + lens[i]
      heading[i \in 0..n] == IF i = 0 THEN 0 ELSE Heading(heading[i - 1], kinds[i].angle)
      turn(i) == [road |-> road(i), node |-> 10 * i, at |-> at[i], duration |-> lens[i] + 2, weight |-> lens[i] + 3, turn |-> 2,
                  type |-> kinds[i].type, modifier |-> Modifier(kinds[i].angle),
                  bearings |-> <<Coarse(heading[i - 1]), Coarse(heading[i])>>, intersection |-> At3(kinds[i], heading[i - 1])]
      middle(i) == [turn(i) EXCEPT !.node = 10 * i - 5, !.at = at[i - 1] + lens[i] \div 2, !.duration = 4, !.weight = 4, !.turn = 0,
                                   !.type = "NoTurn", !.modifier = "UTurn"]
      points(i) == IF lens[i] < 40 THEN <<turn(i)>> ELSE <<middle(i), turn(i)>>
      path[i \in 0..n] == IF i = 0 THEN <<>> ELSE path[i - 1] \o points(i)
  IN [path |-> Value(path[n]), start |-> 0, source |-> road(1), target |-> road(n + 1), end |-> at[n + 1],
      last |-> [duration |-> lens[n + 1], weight |-> lens[n + 1]], offset |-> [duration |-> 1, weight |-> 1],
      sides |-> <<"Left", "UTurn">>, overrides |-> <<>>]

Basic ==
  {Kind("NewName", 180, <<>>, "name"), Kind("NewName", 215, Cross, "name"),
   Kind("Turn", 90, Cross, "name"), Kind("Turn", 270, Closed, "name"), Kind("Turn", 180, Cross, "name"),
   Kind("Continue", 270, Cross, "same"), Kind("Suppressed", 180, Cross, "same"),
   Kind("Suppressed", 150, Cross, "same"), Kind("EndOfRoad", 90, <<<<270, TRUE>>>>, "name"),
   Kind("OnRamp", 150, <<<<180, TRUE>>>>, "name"), Kind("Notification", 180, <<>>, "mode")}
More ==
  {Kind("Fork", 205, <<<<170, TRUE>>>>, "name"), Kind("Merge", 150, <<<<180, FALSE>>>>, "name"),
   Kind("Continue", 0, Cross, "same"), Kind("Continue", 180, Cross, "same"), Kind("Turn", 340, Closed, "name"),
   Kind("Suppressed", 180, <<>>, "same"), Kind("NewName", 210, <<>>, "name"), Kind("Turn", 180, Cross, "mode")}
Slip == Kind("Sliproad", 150, <<<<180, TRUE>>>>, "name")
Light == Kind("Suppressed", 180, <<>>, "same")

LensOf3 == {<<40, 20, 20, 60>>, <<50, 2, 3, 110>>, <<1, 35, 45, 1>>}
LegsOf3 ==
  {Leg(<<a, b, c>>, lens, names, {}) : a \in Basic, b \in Basic, c \in Basic, lens \in LensOf3, names \in {<<1, 2>>}}
LegsOf2 ==
  {Leg(<<a, b>>, lens, names, seg) : a \in Basic \cup More, b \in Basic \cup More,
     lens \in {<<40, 25, 60>>, <<1, 40, 120>>, <<30, 58, 70>>},
     names \in {<<1, 4>>, <<4, 5, 6>>}, seg \in {{}, {2}}}
LegsSegregated ==
  {Leg(<<a, b, c>>, <<30, 6, 7, 40>>, names, seg) : a \in Basic, b \in More, c \in Basic \cup More, names \in {<<1, 3>>},
     seg \in {{2}, {2, 3}}}
LegsSlip ==
  {Leg(<<a, Slip, b, c>>, <<30, 20, l, 20, 50>>, <<1, 3, 2>>, {}) : a \in {Light, Kind("Turn", 90, Cross, "name")},
     b \in {Light, Kind("Turn", 120, Cross, "name")}, c \in More, l \in {4, 20}}
  \cup {Leg(<<Slip>>, <<30, 20>>, <<1, 2>>, {}), Leg(<<Slip, Light>>, <<30, 20, 20>>, <<1, 3>>, {})}

Circle(type, angle) == Kind(type, angle, <<<<180, TRUE>>>>, "same")
Stay == Circle("StayOnRoundabout", 180)
Enter == {Circle(t, 120) : t \in {"EnterRoundabout", "EnterRoundaboutAtExit", "EnterRotary", "EnterRotaryAtExit",
                                  "EnterRoundaboutIntersection", "EnterRoundaboutIntersectionAtExit"}}
Exit == {Kind(t, 120, <<<<180, TRUE>>>>, "name") : t \in {"ExitRoundabout", "ExitRotary", "ExitRoundaboutIntersection"}}
Touch == {Kind(t, 120, Cross, "name") : t \in {"EnterAndExitRoundabout", "EnterAndExitRoundaboutIntersection"}}
After == {Kind("Turn", 90, Cross, "name"), Kind("NewName", 180, <<>>, "name"), Kind("EnterRoundabout", 120, Cross, "same")}
Ways(kinds) == Leg(kinds, [i \in 1..(Len(kinds) + 1) |-> 10 * i + 5], <<1, 2, 4>>, {})
LegsRound ==
  {Ways(kinds) : kinds \in
     {<<e, x, a>> : e \in Enter, x \in Exit, a \in After} \cup {<<e, Stay, x, a>> : e \in Enter, x \in Exit, a \in After}
     \cup {<<Stay, x, a>> : x \in Exit, a \in After} \cup {<<e, Stay>> : e \in Enter} \cup {<<Stay, Stay>>}
     \cup {<<e, x, f, Stay, x>> : e \in Enter, x \in Exit, f \in Enter} \cup {<<t, a>> : t \in Touch, a \in After}
     \cup {<<e, x, t, a>> : e \in Enter, x \in Exit, t \in Touch, a \in After}}

Laned == {WithLanes(k, l[1], l[2], l[3]) : k \in {Kind("Turn", 90, Cross, "name"), Kind("Turn", 270, Cross, "name"),
                                                 Kind("Suppressed", 180, Cross, "same"), Kind("NewName", 180, <<>>, "name")},
            l \in {<<1, 0, 3>>, <<1, 2, 3>>, <<2, 0, 3>>, <<3, 0, 4>>, <<2, 1, 4>>}}
LegsLaned == {Leg(<<a, b>>, <<50, 150, 60>>, <<1, 2>>, {}) : a \in Laned, b \in Laned}
  \cup {Leg(<<a, b, c>>, <<50, 120, 300, 60>>, <<1, 2>>, {}) : a \in {k \in Laned : k.type = "Suppressed"},
          b \in {k \in Laned : k.type = "Suppressed"}, c \in {k \in Laned : k.lanes.n = 1}}

Local(duration) == [Leg(<<>>, <<20>>, <<1>>, {}) EXCEPT !.offset.duration = duration]
Overridden(leg, nodes, at, type, modifier) ==
  [leg EXCEPT !.overrides = <<[nodes |-> nodes, at |-> at, type |-> type, modifier |-> modifier]>>]
LegsOverridden ==
  LET leg(a, b) == Leg(<<a, b>>, <<30, 40, 50>>, <<1, 2>>, {})
      roads(l) == <<l.source, l.path[Len(l.path)].road, l.target>>
  IN {Overridden(leg(a, b), SubSeq(roads(leg(a, b)), 1, n), at, type, "SlightLeft") :
        a \in Basic, b \in Basic, n \in {2, 3}, at \in {30, 70}, type \in {"Turn", "Suppressed", None}}
LegsToStep == LegsOf3 \cup LegsOf2 \cup LegsSegregated \cup LegsSlip \cup LegsRound \cup LegsLaned \cup LegsOverridden
                \cup {Local(1), Local(20)}
Steps == INSTANCE StepPostProcessing WITH Roads <- StepRoads, Affixes <- {<<9>>}, Legs <- LegsToStep

-----------------------------------------------------------------------------
(* Road networks for the analysis of turns.                                *)

Class(motorway, link, low, prio) == [motorway |-> motorway, link |-> link, low |-> low, prio |-> prio]
MotorwayClass == Class(TRUE, FALSE, FALSE, 0)
RampClass == Class(TRUE, TRUE, FALSE, 1)
PrimaryClass == Class(FALSE, FALSE, FALSE, 4)
PrimaryLink == Class(FALSE, TRUE, FALSE, 5)
ResidentialClass == Class(FALSE, FALSE, FALSE, 10)
ServiceClass == Class(FALSE, FALSE, TRUE, 12)

NameA == RoadSigns[1]
NameB == RoadSigns[2]
NameRef == RoadSigns[6]
RefOnly == RoadSigns[5]

\* A road between two nodes, with its bearings at both ends, open both ways.
Way(u, v, bearing) ==
  [u |-> u, v |-> v, forth |-> TRUE, back |-> TRUE, bu |-> bearing, bv |-> (bearing + 180) % 360,
   iu |-> bearing, iv |-> (bearing + 180) % 360, length |-> 100, cls |-> ResidentialClass, lanes |-> 1,
   sign |-> NameA, mode |-> "driving", roundabout |-> FALSE, circular |-> FALSE, restricted |-> FALSE,
   classes |-> {}, left_hand |-> FALSE, curve |-> {}, uturn_lane |-> FALSE]
Oneway(way) == [way EXCEPT !.back = FALSE]
Incoming(way) == [way EXCEPT !.forth = FALSE]
Open(way, direction) ==
  CASE direction = "out" -> Oneway(way) [] direction = "in" -> Incoming(way) [] OTHER -> way

DirectedEdge(w, forth) ==
  [source |-> IF forth THEN w.u ELSE w.v, target |-> IF forth THEN w.v ELSE w.u,
   reversed |-> IF forth THEN ~w.forth ELSE ~w.back,
   initial |-> IF forth THEN w.iu ELSE w.iv, perceived |-> IF forth THEN w.bu ELSE w.bv,
   close |-> IF forth THEN w.iu ELSE w.iv, length |-> w.length, cls |-> w.cls, lanes |-> w.lanes,
   sign |-> w.sign, mode |-> w.mode, roundabout |-> w.roundabout, circular |-> w.circular,
   restricted |-> w.restricted, classes |-> w.classes, left_hand |-> w.left_hand, curve |-> w.curve,
   uturn_lane |-> w.uturn_lane]

\* The edges of a sequence of ways.
EdgesOf(ways) ==
  LET way(m) == (m + 1) \div 2
      forth(m) == m % 2 = 1
      key(m) == IF forth(m) THEN 100 * ways[way(m)].u + ways[way(m)].v ELSE 100 * ways[way(m)].v + ways[way(m)].u
      order == SortSeq([m \in 1..(2 * Len(ways)) |-> m], LAMBDA a, b : key(a) < key(b))
  IN [e \in DOMAIN order |-> DirectedEdge(ways[way(order[e])], forth(order[e]))]
EdgeFrom(edges, u, v) == CHOOSE e \in DOMAIN edges : edges[e].source = u /\ edges[e].target = v

\* The intersection as reached from node u over node v.
Network(ways, at, u, v) ==
  LET edges == Value(EdgesOf(ways))
  IN [edges |-> edges, at |-> at, restrictions |-> {}, barriers |-> {}, parallel |-> {}, round |-> {},
      via |-> EdgeFrom(edges, u, v)]

-----------------------------------------------------------------------------
(* Stars: node 0 with the way in from the south, node 1, and the other      *)
(* roads at their turn angles, nodes 2 and on.                              *)
Arm(node, angle) == Way(0, node, (540 - angle) % 360)
Star(in, arms) ==
  Network(<<in>> \o arms, [v \in 0..(1 + Len(arms)) |-> <<IF v = 0 THEN 0 ELSE 100, 0>>], 1, 0)
WayIn == Way(0, 1, 180)

Mirrored(way) ==
  [way EXCEPT !.bu = (360 - @) % 360, !.bv = (360 - @) % 360, !.iu = (360 - @) % 360, !.iv = (360 - @) % 360,
              !.curve = {IF side = "cw" THEN "ccw" ELSE "cw" : side \in @}]
MirroredAt(at) == [v \in DOMAIN at |-> <<-at[v][1], at[v][2]>>]

\* Arms at the angles of a set, numbered in order, each with a kind.
Arms(angles, kinds, Make(_, _)) ==
  LET order == Ordered(angles, LAMBDA a, b : a < b)
  IN [i \in DOMAIN order |-> Make(Arm(i + 1, order[i]), kinds[i])]
SubsetsOf(S, n) == {T \in SUBSET S : Cardinality(T) = n}

\* Classes and names by number, a kind of road for each pair.
RoadKinds == <<<<ResidentialClass, NameA>>, <<ResidentialClass, NameB>>, <<PrimaryClass, NameA>>,
               <<PrimaryClass, NameB>>, <<ServiceClass, NameA>>, <<ServiceClass, NameB>>>>
Classed(way, kind) == [way EXCEPT !.cls = RoadKinds[kind][1], !.sign = RoadKinds[kind][2]]
CrossingAngles == {50, 95, 150, 172, 180, 205, 265, 310}
Crossings ==
  ({"crossing"} \X SubsetsOf(CrossingAngles, 2) \X [1..2 -> 1..5])
  \cup ({"crossing"} \X SubsetsOf({50, 95, 150, 172, 180, 205, 265}, 3) \X [1..3 -> {1, 2, 4}])
  \cup ({"crossing"} \X SubsetsOf({50, 95, 150, 172, 180, 205, 265}, 4) \X [1..4 -> {1, 4}])

\* Several roads to one side of the road ahead, some of them not to be entered.
SideKinds == <<"both", "in">>
Beside(way, kind) == [Open(way, SideKinds[kind]) EXCEPT !.sign = NameB]
Sides ==
  UNION {{"sides"} \X SubsetsOf({20, 45, 70, 91, 115, 135, 150}, n) \X [1..n -> 1..2] \X BOOLEAN \X {"both"} : n \in 2..3}
  \cup ({"sides"} \X SubsetsOf({45, 91, 115, 150}, 2) \X {<<1, 1>>} \X BOOLEAN \X {"in"})
SideNetwork(layout) ==
  LET n == Cardinality(layout[2])
      arms == Arms(layout[2], layout[3], Beside) \o <<Open(Arm(n + 2, 180), layout[5])>>
  IN Star(WayIn, IF layout[4] THEN [i \in DOMAIN arms |-> Mirrored(arms[i])] ELSE arms)

\* Motorways and ramps, which are one-way, and ordinary roads.
MotorwayKinds == <<<<MotorwayClass, NameA, "out">>, <<MotorwayClass, NameB, "out">>, <<RampClass, Nameless, "out">>,
                   <<PrimaryClass, NameB, "both">>, <<RampClass, Nameless, "in">>, <<MotorwayClass, NameB, "in">>,
                   <<RampClass, NameB, "out">>, <<RampClass, NameB, "in">>, <<PrimaryLink, Nameless, "in">>>>
OntoMotorway(way, kind) ==
  Open([way EXCEPT !.cls = MotorwayKinds[kind][1], !.sign = MotorwayKinds[kind][2]], MotorwayKinds[kind][3])
Motorways ==
  UNION {{"motorway"} \X SubsetsOf({60, 150, 172, 180, 200}, n) \X [1..n -> 1..5] \X {1, 3, 4} : n \in 1..2}
  \cup ({"motorway"} \X SubsetsOf({150, 172, 180, 200}, 3) \X [1..3 -> 1..4] \X {1, 3})
  \cup ({"motorway"} \X {{150, 172, 200}} \X [1..3 -> {3, 5}] \X {1})
  \cup ({"motorway"} \X {{150, 172, 180, 200}} \X [1..4 -> {1, 3}] \X {1, 3})
  \cup ({"motorway"} \X {{10, 170}, {190, 350}} \X [1..2 -> {1, 2, 3, 6, 7, 8}] \X {1, 3, 9})
MotorwayIn(kind) ==
  Incoming([WayIn EXCEPT !.cls = MotorwayKinds[kind][1], !.sign = MotorwayKinds[kind][2]])

\* Ferries, service roads, roads with a restricted access, with lanes.
MixedKinds == <<<<ResidentialClass, NameA, "driving", "both">>, <<ResidentialClass, NameB, "ferry", "both">>,
                <<ServiceClass, NameA, "driving", "both">>, <<ResidentialClass, NameA, "driving", "in">>,
                <<ResidentialClass, NameA, "ferry", "both">>>>
Mixed(way, kind) ==
  IF kind = 6 THEN [way EXCEPT !.restricted = TRUE]
  ELSE Open([way EXCEPT !.cls = MixedKinds[kind][1], !.sign = MixedKinds[kind][2], !.mode = MixedKinds[kind][3]],
            MixedKinds[kind][4])
MixedModes ==
  UNION {{"mixed"} \X SubsetsOf({95, 160, 180, 200, 265}, n) \X [1..n -> 1..6] \X {"driving", "ferry"} \X {1} : n \in 1..2}
  \cup ({"mixed"} \X SubsetsOf({95, 160, 180, 200}, 3) \X [1..3 -> 1..3] \X {"driving", "ferry"} \X {1})
  \cup ({"mixed"} \X SubsetsOf({95, 160, 172, 180, 192, 200}, 2) \X [1..2 -> {1, 3}] \X {"service", "driving"} \X {2, 3})
MixedIn(kind, lanes) ==
  [WayIn EXCEPT !.mode = IF kind = "ferry" THEN "ferry" ELSE @, !.lanes = lanes,
                !.cls = IF kind = "service" THEN ServiceClass ELSE @]

\* Roads that start out in another direction than they take, seen from an
\* intersection with a barrier, restrictions or a lane for U-turns.
Winding(way, turn) == [way EXCEPT !.iu = (@ + turn) % 360]
Views ==
  {"view"} \X SubsetsOf({0, 6, 20, 100, 230, 350}, 2) \X [1..2 -> {0, 25, 190, 335}]
           \X {"open", "barrier", "no", "only", "lane", "oneway", "bent"}
ViewNetwork(layout) ==
  LET case == layout[4]
      in == IF case = "lane" THEN [WayIn EXCEPT !.uturn_lane = TRUE]
            ELSE IF case = "oneway" THEN Incoming(WayIn)
            ELSE IF case = "bent" THEN Winding(WayIn, 325) ELSE WayIn
      net == Star(in, Arms(layout[2], layout[3], Winding))
  IN [net EXCEPT !.barriers = IF case = "barrier" THEN {0} ELSE {},
                 !.restrictions = IF case \in {"no", "only"}
                                  THEN {[from |-> 1, via |-> 0, to |-> 2, only |-> case = "only"]} ELSE {}]

-----------------------------------------------------------------------------
(* Circles of four nodes: 0 in the south, 1 in the east, 2 in the north and  *)
(* 3 in the west, driven counter-clockwise, with an arm outwards at each.    *)
Compass == <<180, 90, 0, 270>>
CircleStyles == <<<<"roundabout", Nameless, 20>>, <<"roundabout", Nameless, 30>>, <<"roundabout", NameB, 30>>,
                  <<"roundabout", NameA, 30>>, <<"circular", NameB, 20>>, <<"circular", Nameless, 20>>>>
Circles ==
  ({"circle"} \X ({"both"} \X {"both", "service", "none"} \X {"both", "out", "none"} \X {"both", "none"})
   \X (1..6) \X {"arm", "circle"} \X {"none"} \X {FALSE})
  \cup ({"circle"} \X ({"both"} \X {"both", "in"} \X {"both", "in"} \X {"both", "none"})
        \X {2} \X {"arm", "circle"} \X {"none", "exit", "exit_left", "across", "crossed"} \X BOOLEAN)
  \cup ({"circle"} \X ({"none", "in", "service", "out"} \X {"both"} \X {"both", "in"} \X {"both", "none"})
        \X {1, 2} \X {"circle"} \X {"none"} \X {FALSE})
CircleNetwork(layout) ==
  LET style == CircleStyles[layout[3]]
      circle(way) == [way EXCEPT !.roundabout = style[1] = "roundabout", !.circular = style[1] = "circular",
                                 !.sign = style[2], !.length = style[3]]
      piece(i) == circle(Oneway(Way(i, (i + 1) % 4, (Compass[i + 1] + 225) % 360)))
      arm(i) == LET way == Way(i, 4 + i, Compass[i + 1])
                IN IF layout[2][i + 1] = "service" THEN [way EXCEPT !.cls = ServiceClass]
                   ELSE Open(way, layout[2][i + 1])
      present == SelectSeq(<<0, 1, 2, 3>>, LAMBDA i : layout[2][i + 1] # "none")
      extra == CASE layout[5] = "exit" -> <<Oneway(Way(0, 8, 135))>>
                 [] layout[5] = "exit_left" -> <<Oneway(Way(0, 8, 225))>>
                 [] layout[5] = "across" -> <<[Way(0, 2, 0) EXCEPT !.length = 15]>>
                 [] layout[5] = "crossed" -> <<circle(Way(0, 2, 0))>>
                 [] OTHER -> <<>>
      ways == [i \in 1..4 |-> piece(i - 1)] \o [i \in DOMAIN present |-> arm(present[i])] \o extra
      sided == IF ~layout[6] THEN ways
               ELSE [i \in DOMAIN ways |-> [Mirrored(ways[i]) EXCEPT !.left_hand = TRUE]]
  IN Network(sided, [v \in 0..8 |-> <<30 * v, 0>>], IF layout[4] = "arm" THEN 4 ELSE 3, 0)

-----------------------------------------------------------------------------
(* Sliproads: the main road from 0 over b = 1 to c = 2 and 6, the crossing   *)
(* road from 4 over c and d = 3 to 5, the sliproad from b to d.              *)
SlipKinds == <<<<ResidentialClass, Nameless>>, <<PrimaryLink, Nameless>>, <<ResidentialClass, NameA>>,
               <<ServiceClass, Nameless>>, <<ResidentialClass, NameRef>>>>
Slips ==
  ({"slip"} \X (1..5) \X {"both", "out", "in"} \X {{}, {"ccw"}, {"cw"}} \X {2, 20, 120} \X {"plain"} \X BOOLEAN)
  \cup ({"slip"} \X {1, 2, 3} \X {"both"} \X {{}} \X {20, 120}
        \X {"primary", "signal", "light", "four", "ferry", "fork", "fork_ref", "fork_open", "dead_end", "no_way", "once_more"}
        \X BOOLEAN)
MirroredIf(mirrored, ways, at) ==
  Network(IF mirrored THEN [i \in DOMAIN ways |-> Mirrored(ways[i])] ELSE ways, IF mirrored THEN MirroredAt(at) ELSE at, 0, 1)
SlipNetwork(layout) ==
  LET d == layout[5]
      case == layout[6]
      fork == case \in {"fork", "fork_open", "fork_ref"}
      main(way) == [way EXCEPT !.cls = IF case = "primary" THEN PrimaryClass ELSE @, !.length = d,
                               !.sign = IF case = "fork_ref" THEN RefOnly ELSE @]
      cross(way) == [way EXCEPT !.sign = NameB]
      bc == IF case = "signal" THEN <<main(Way(1, 7, 0)), main(Way(7, 2, 0))>>
            ELSE <<main(Way(1, 2, IF fork THEN 345 ELSE 0))>>
      cd == IF case = "light" THEN <<cross(Way(2, 7, 90)), cross(Way(7, 3, 90))>>
            ELSE <<Open(cross(Way(2, 3, 90)), CASE case \in {"fork", "fork_ref"} -> "out" [] case = "no_way" -> "in" [] OTHER -> layout[3])>>
      bd == [Oneway(Way(1, 3, IF fork THEN 15 ELSE 45))
             EXCEPT !.bv = 225, !.iv = 225, !.cls = SlipKinds[layout[2]][1], !.sign = SlipKinds[layout[2]][2], !.curve = layout[4],
                    !.mode = IF case = "ferry" THEN "ferry" ELSE @, !.length = d]
      onward == IF case = "four" THEN <<[Way(3, 6, 280) EXCEPT !.sign = NameA]>> ELSE <<>>
      side == IF case = "once_more" THEN <<Way(1, 8, 270)>> ELSE <<>>
      ways == bc \o cd \o onward \o side
              \o <<main(Way(1, 0, 180)), bd, Open(Way(2, 6, 0), IF case = "no_way" THEN "in" ELSE "both"),
                   Open(cross(Way(2, 4, 270)), IF case = "no_way" THEN "in" ELSE "both"),
                   Open(cross(Way(3, 5, 90)), IF case = "dead_end" THEN "in" ELSE "both")>>
      at == [v \in 0..8 |-> CASE v = 0 -> <<0, -100>> [] v = 1 -> <<0, 0>> [] v = 2 -> <<0, d>> [] v = 3 -> <<d, d>>
                              [] OTHER -> <<100 * v, d>>]
  IN MirroredIf(layout[7], ways, at)

-----------------------------------------------------------------------------
(* Divided roads: the road from 1 divides at 0 into a direction out to 2 and *)
(* one in from 3.                                                            *)
Divided ==
  ({"divided"} \X {"island", "triangle", "parallel", "apart", "loop", "link", "circle"} \X {"none", "east", "west"}
               \X {<<NameA, NameA>>} \X {10, 25, 60} \X {"road", "side", "half"} \X {0, 10, 350})
  \cup ({"divided"} \X {"island", "triangle", "parallel"} \X {"none", "ahead"}
        \X {<<NameA, NameB>>, <<Nameless, Nameless>>} \X {25} \X {"road"} \X {0})
  \cup ({"divided"} \X {"parallel"} \X {"third"} \X {<<NameA, NameA>>, <<NameA, NameB>>} \X {25, 60} \X {"road"} \X {0, 10})
DividedWays(layout) ==
  LET case == layout[2]
      far == layout[5]
      out(way) == [Oneway(way) EXCEPT !.sign = layout[4][1], !.length = far]
      in(way) == [Incoming(way) EXCEPT !.sign = layout[4][2], !.length = far]
      halves == <<out(Way(0, 2, (10 + layout[7]) % 360)), in(Way(0, 3, (350 + layout[7]) % 360))>>
      on == <<[out(Way(2, 4, 0)) EXCEPT !.length = 150], [in(Way(3, 5, 0)) EXCEPT !.length = 150]>>
      beyond ==
        CASE case = "island" -> <<out(Way(2, 4, 350)), in(Way(3, 4, 10)), Way(4, 5, 0)>>
          [] case = "triangle" -> on \o <<[Way(2, 3, 270) EXCEPT !.length = 10]>>
          [] case = "loop" -> <<[out(Way(2, 3, 270)) EXCEPT !.length = 10]>>
          [] case = "link" -> <<Way(2, 4, (55 + layout[7]) % 360), Way(2, 6, (260 + layout[7]) % 360), on[2]>>
          [] case = "circle" -> <<[on[1] EXCEPT !.length = 20], [on[2] EXCEPT !.length = 20],
                                  [Way(4, 5, 270) EXCEPT !.length = 20], [Way(4, 6, 0) EXCEPT !.sign = NameB]>>
          [] OTHER -> on
      side == IF layout[3] = "none" THEN <<>>
              ELSE IF layout[3] = "third" THEN <<out(Way(0, 8, 330))>>
              ELSE <<[Way(0, 8, CASE layout[3] = "east" -> 90 [] layout[3] = "west" -> 270 [] OTHER -> 2)
                      EXCEPT !.sign = IF layout[3] = "ahead" THEN NameA ELSE NameB]>>
  IN <<[Way(0, 1, 180) EXCEPT !.length = 20], Way(1, 9, 180), Way(1, 10, 90)>> \o halves \o beyond \o side
DividedAt(case, far) ==
  [v \in 0..10 |-> CASE v = 2 -> <<4, far>> [] v = 3 -> <<-4, far>>
                     [] v = 4 -> <<IF case = "island" THEN 0 ELSE 4, 2 * far>>
                     [] v = 0 -> <<0, 0>> [] v = 1 -> <<0, -20>> [] OTHER -> <<100 * v, 0>>]
DividedVia(layout) ==
  IF layout[6] = "road" \/ (layout[6] = "side" /\ layout[3] = "none") THEN <<1, 0>>
  ELSE IF layout[6] = "side" THEN <<8, 0>>
  ELSE IF layout[2] = "triangle" THEN IF layout[3] = "west" THEN <<2, 3>> ELSE <<3, 2>>
  ELSE <<9, 1>>
WithParallels(net, layout, pair, third) ==
  [net EXCEPT !.parallel = IF layout[2] \in {"parallel", "loop", "link", "circle"}
                           THEN {pair} \cup (IF layout[3] = "third" THEN {third} ELSE {}) ELSE {},
              !.round = IF layout[2] = "circle" THEN pair ELSE {}]
MarkParallels(net, layout) ==
  WithParallels(net, layout, {EdgeFrom(net.edges, 0, 2), EdgeFrom(net.edges, 0, 3)},
                IF layout[3] = "third" THEN {EdgeFrom(net.edges, 0, 3), EdgeFrom(net.edges, 0, 8)} ELSE {})
DividedNetwork(layout) ==
  MarkParallels(Network(DividedWays(layout), DividedAt(layout[2], layout[5]), DividedVia(layout)[1], DividedVia(layout)[2]),
                layout)

TurnNetwork(layout) ==
  CASE layout[1] = "crossing" -> Star(WayIn, Arms(layout[2], layout[3], Classed))
    [] layout[1] = "motorway" -> Star(MotorwayIn(layout[4]), Arms(layout[2], layout[3], OntoMotorway))
    [] layout[1] = "mixed" -> Star(MixedIn(layout[4], layout[5]), Arms(layout[2], layout[3], Mixed))
    [] layout[1] = "sides" -> SideNetwork(layout)
    [] layout[1] = "view" -> ViewNetwork(layout)
    [] layout[1] = "circle" -> CircleNetwork(layout)
    [] layout[1] = "slip" -> SlipNetwork(layout)
    [] layout[1] = "divided" -> DividedNetwork(layout)
TurnLayouts ==
  Crossings \cup Sides \cup Motorways \cup MixedModes \cup Views \cup Circles \cup Slips \cup Divided

Turns == INSTANCE TurnAnalysis WITH Layouts <- TurnLayouts, NetworkOf <- TurnNetwork, Affixes <- {<<9>>}

-----------------------------------------------------------------------------
(* The parts of guidance, one job of one of them at a time.                *)

Init == Steps!Init \/ Turns!Init
Next == \/ job.service = "steps" /\ Steps!Next
        \/ job.service = "turns" /\ Turns!Next
Spec == Init /\ [][Next]_job

\* Steps lose no second of their leg, and of its way at most the metre cut off at
\* either end (StepPostProcessing).
StepsWhole == Steps!StepsWhole

\* Steps announce what happens (StepPostProcessing).
StepsAnnounced == Steps!StepsAnnounced

\* Every turn is seen once and instructed (TurnAnalysis).
TurnsComplete == Turns!TurnsComplete

\* The instructions of an intersection agree (TurnAnalysis).
TurnsCoherent == Turns!TurnsCoherent
=============================================================================
