----------------------------- MODULE MCExtraction -----------------------------
EXTENDS Extraction

\* Where the OSM nodes lie.
At == [n \in 1..9 |-> CASE n = 1 -> <<0, 4>> [] n = 9 -> <<1, 4>> [] n = 2 -> <<2, 4>>
                        [] n = 8 -> <<3, 4>> [] n = 3 -> <<4, 4>> [] n = 4 -> <<6, 4>>
                        [] n = 5 -> <<2, 2>> [] n = 6 -> <<4, 2>> [] n = 7 -> <<6, 2>>]

Away(a, b) == IF a < b THEN b - a ELSE a - b

MCDistance(a, b) == 10 * (Away(At[a][1], At[b][1]) + Away(At[a][2], At[b][2]))

MCBearing(a, b) ==
  LET east == At[b][1] - At[a][1]
      north == At[b][2] - At[a][2]
  IN IF north > 0 THEN (IF east > 0 THEN 45 ELSE IF east < 0 THEN 315 ELSE 0)
     ELSE IF north < 0 THEN (IF east > 0 THEN 135 ELSE IF east < 0 THEN 225 ELSE 180)
     ELSE IF east > 0 THEN 90 ELSE 270

-----------------------------------------------------------------------------
Road == [mode |-> 1, speed |-> 180, rate |-> 50, classes |-> << >>, turn_lanes |-> "", ref |-> "r"]
Closed == [Road EXCEPT !.mode = 0]

Way(id, nodes) ==
  [type |-> "way", id |-> id, nodes |-> nodes, forward |-> Road, backward |-> Road, duration |-> -1,
   weight |-> -1, name |-> "n", lanes |-> 1, startpoint |-> TRUE, roundabout |-> FALSE]

OneWay(id, nodes) == [Way(id, nodes) EXCEPT !.backward = Closed]

Node(id) == [type |-> "node", id |-> id, barrier |-> FALSE, signal |-> "none"]

Relation(tags, members) ==
  [type |-> "relation", tags |-> tags, except |-> {}, maneuver |-> "none", members |-> members]

Tag(value) == <<[value |-> value, conditional |-> FALSE, condition |-> "none"]>>
When(value, condition) == <<[value |-> value, conditional |-> TRUE, condition |-> condition]>>

Member(role, type, ref) == [role |-> role, type |-> type, ref |-> ref]

AtNode(from, node, to) ==
  <<Member("from", "way", from), Member("via", "node", node), Member("to", "way", to)>>

OverWays(from, ways, to) ==
  <<Member("from", "way", from)>> \o [i \in DOMAIN ways |-> Member("via", "way", ways[i])]
  \o <<Member("to", "way", to)>>

Profile == [use_turn_restrictions |-> TRUE, parse_conditionals |-> TRUE, modes |-> {"car"},
            fallback_to_duration |-> FALSE, force_split_edges |-> FALSE]

File(nodes, ways, relations) ==
  [buffers |-> <<nodes, ways, relations>>, profile |-> Profile, listed |-> << >>, excludable |-> << >>,
   updates |-> << >>]

AllNodes == [n \in 1..9 |-> Node(n)]

-----------------------------------------------------------------------------
(* A town:      1 - 9 - 2 - 8 - 3 - 4                                        *)
(*                      |       |                                            *)
(*                      5 ----- 6 - 7                                        *)
Streets == <<Way(11, <<1, 9, 2>>), Way(12, <<2, 8, 3>>), Way(13, <<3, 4>>), Way(14, <<2, 5, 6>>),
             Way(15, <<6, 3>>), Way(16, <<6, 7>>)>>

\* Restrictions whose paths share beginnings, ends and middles.
Menu == <<Relation(Tag("no"), AtNode(11, 2, 14)),
         Relation(Tag("only"), AtNode(12, 3, 13)),
         Relation(When("no", "at night"), AtNode(12, 3, 15)),
         Relation(Tag("no"), OverWays(11, <<12>>, 13)),
         Relation(When("only", "by day"), OverWays(11, <<12>>, 15)),
         Relation(Tag("no"), OverWays(12, <<15>>, 16)),
         Relation(Tag("only"), OverWays(12, <<15>>, 14)),
         Relation(Tag("no"), OverWays(11, <<12, 15>>, 16)),
         Relation(When("no", "on Sunday"), OverWays(11, <<12, 15>>, 14)),
         Relation(Tag("only"), OverWays(14, <<12>>, 13))>>

Override == [Relation(Tag("other"), OverWays(11, <<12>>, 15) \o <<Member("via", "node", 3)>>)
               EXCEPT !.maneuver = "merge"]

Listed(S) == LET order == Ordered(S, LAMBDA i, j : i < j) IN [k \in DOMAIN order |-> Menu[order[k]]]

RestrictedTowns == {File(AllNodes, Streets, Append(Listed(S), Override)) :
                      S \in {T \in SUBSET DOMAIN Menu : Cardinality(T) <= 3}}

-----------------------------------------------------------------------------
(* The other things that can be in a file.                                   *)
WithNode(n, field, value) == [AllNodes EXCEPT ![n] = [@ EXCEPT ![field] = value]]

Faster(way) == [way EXCEPT !.forward.rate = 100, !.backward.speed = 360]

Classed(names) == [Way(18, <<4, 7>>) EXCEPT !.forward.classes = names]

\* Ways that overlap: one-way, faster in one direction, given a duration and a
\* weight of their own, or named differently.
Overlapping == {
  File(AllNodes, Streets \o <<OneWay(17, <<2, 8, 3>>)>>, << >>),
  File(AllNodes, Streets \o <<Faster(Way(17, <<8, 3, 6>>)), OneWay(18, <<6, 3>>)>>, << >>),
  File(AllNodes, <<OneWay(17, <<3, 8, 2>>), OneWay(19, <<2, 8, 3>>)>> \o Streets, << >>),
  File(AllNodes, Streets \o <<[Way(17, <<6, 5, 2>>) EXCEPT !.duration = 1, !.weight = 1]>>, << >>),
  File(AllNodes, Streets \o <<[Faster(Way(17, <<9, 2>>)) EXCEPT !.name = "m"]>>, << >>),
  [File(AllNodes, Streets \o <<Faster(Way(17, <<6, 5, 2>>))>>, << >>)
     EXCEPT !.profile.fallback_to_duration = TRUE, !.profile.force_split_edges = TRUE]}

Signals == {
  File(WithNode(n, "signal", kind), Streets \o extra, << >>) :
    n \in {3, 5, 8}, kind \in {"both", "forward", "reverse"}, extra \in {<< >>, <<OneWay(17, <<4, 7>>)>>}}

Barriers == {File(WithNode(n, "barrier", TRUE), Streets, <<r>>) :
               n \in {2, 5, 8}, r \in {Relation(Tag("no"), OverWays(11, <<12>>, 13))}}

\* The block in the middle as a roundabout, in either direction, and one-way
\* streets with restrictions over them.
Circle(nodes) == [OneWay(12, nodes) EXCEPT !.roundabout = TRUE]

Roundabouts == {
  File(AllNodes, <<Way(11, <<1, 9, 2>>), Circle(nodes), Way(13, <<3, 4>>), Way(16, <<6, 7>>)>>, << >>) :
    nodes \in {<<2, 8, 3, 6, 5, 2>>, <<2, 5, 6, 3, 8, 2>>}}

OneWays == {
  File(AllNodes, <<Way(11, <<1, 9, 2>>), OneWay(12, <<2, 8, 3>>), OneWay(15, <<3, 6>>), Way(13, <<3, 4>>),
                   OneWay(14, <<6, 5, 2>>), Way(16, <<7, 6>>)>>, rs) :
    rs \in {<< >>, <<Relation(Tag("only"), OverWays(11, <<12>>, 15))>>,
            <<Relation(Tag("no"), OverWays(12, <<15, 14>>, 11)), Relation(Tag("no"), OverWays(15, <<14>>, 12))>>}}

\* Relations the parser refuses, or whose ways do not meet.
Odd == {
  Relation(Tag("other"), AtNode(11, 2, 14)),
  Relation(When("no", "unreadable"), AtNode(11, 2, 14)),
  Relation(Tag("no") \o When("only", "by day"), AtNode(11, 2, 14)),
  [Relation(Tag("no"), AtNode(11, 2, 14)) EXCEPT !.except = {"car", "bus"}],
  Relation(Tag("no"), AtNode(11, 3, 14)),
  Relation(Tag("no"), AtNode(11, 2, 99)),
  Relation(Tag("no"), OverWays(11, <<15>>, 16)),
  Relation(Tag("no"), OverWays(11, <<14, 15>>, 12)),
  Relation(Tag("no_exit"), AtNode(11, 2, 14) \o <<Member("to", "way", 12)>>),
  Relation(Tag("no_entry"), AtNode(13, 3, 15) \o <<Member("from", "way", 12)>>),
  Relation(Tag("no"), AtNode(13, 3, 15) \o <<Member("from", "way", 12)>>),
  Relation(Tag("no"), AtNode(12, 2, 12))}

OddRelations == {File(AllNodes, Streets, <<r>>) : r \in Odd}
  \cup {[File(AllNodes, Streets, Menu) EXCEPT !.profile.use_turn_restrictions = FALSE],
        [File(AllNodes, Streets, Menu) EXCEPT !.profile.parse_conditionals = FALSE]}

\* Files with a street apart, a way without a node, two buffers of ways, lanes
\* for turning round, classes, and files that cannot be extracted.
Unusual == {
  File(AllNodes, SubSeq(Streets, 1, 2) \o <<OneWay(18, <<4, 7>>)>>, << >>),
  File(SubSeq(AllNodes, 1, 6), Streets, << >>),
  [File(AllNodes, << >>, << >>) EXCEPT
     !.buffers = <<AllNodes, SubSeq(Streets, 1, 3), SubSeq(Streets, 4, 6), <<Override>> >>],
  File(AllNodes, <<[Streets[1] EXCEPT !.forward.turn_lanes = "uturn"]>> \o Tail(Streets), << >>),
  File(AllNodes, <<[OneWay(11, <<1, 9>>) EXCEPT !.forward = Closed]>>, << >>),
  File(AllNodes, <<[Way(11, <<1, 9>>) EXCEPT !.startpoint = FALSE]>>, << >>),
  File(AllNodes, Streets \o <<Classed(<<"a", "b", "c">>)>>, << >>),
  File(AllNodes, Streets \o <<Classed(<<"no name">>)>>, << >>),
  File(AllNodes, Streets \o <<[Classed(<<"no name">>) EXCEPT !.id = MaxWayId]>>, << >>),
  [File(AllNodes, Streets \o <<Classed(<<"a">>)>>, << >>) EXCEPT !.listed = <<"b">>],
  [File(AllNodes, Streets \o <<Classed(<<"a">>)>>, << >>) EXCEPT
     !.listed = <<"a", "b">>, !.excludable = <<{"a"}, {"x"}>>],
  [File(AllNodes, Streets, << >>) EXCEPT !.excludable = <<{"a"}, {"b"}, {"c"}>>],
  File(SubSeq(AllNodes, 1, 1), Streets, << >>)}

-----------------------------------------------------------------------------
(* A junction and what is done to it:    1 - 9 - 2 - 8 - 3                   *)
(*                                               |                           *)
(*                                               5                           *)
Junction(nodes, relations) ==
  File(nodes, <<Way(11, <<1, 9, 2>>), Way(12, <<2, 8, 3>>), OneWay(14, <<2, 5>>)>>, relations)

\* The same with a road one-way into it.
Plain == File(AllNodes, <<Way(11, <<1, 9, 2>>), Way(12, <<2, 8, 3>>), OneWay(14, <<5, 2>>)>>, << >>)

Nights == <<Relation(When("no", "at night"), AtNode(11, 2, 14)), Relation(When("no", "by day"), AtNode(12, 2, 14))>>

CSV(name, rows) == [name |-> name, rows |-> rows, malformed |-> FALSE]
Spoilt(csv) == [csv EXCEPT !.malformed = TRUE]
SpeedRow(a, b, speed, rate) == [key |-> <<a, b>>, value |-> [speed |-> speed, rate |-> rate]]
TurnRow(a, b, c, duration, weight) == [key |-> <<a, b, c>>, value |-> [duration |-> duration, weight |-> weight]]

NoChange == [speeds |-> << >>, turns |-> << >>, valid_now |-> 0,
             tz_file |-> [readable |-> TRUE, features |-> << >>]]
Speeds(csv) == [NoChange EXCEPT !.speeds = csv]
Turns(csv) == [NoChange EXCEPT !.turns = csv]
AtTime(zones) == [NoChange EXCEPT !.valid_now = 1, !.tz_file.features = zones]

\* Values on both sides of a word that two geometries share, closed and clamped
\* values, and rates given, blank and missing.
Traffic == CSV("traffic", <<SpeedRow(9, 1, 36, NotGiven), SpeedRow(2, 9, 18, 7), SpeedRow(8, 2, 12, Blank),
                            SpeedRow(3, 8, 72, NotGiven)>>)
Closures == CSV("closures", <<SpeedRow(2, 9, 0, NotGiven), SpeedRow(2, 8, 4, -1), SpeedRow(8, 3, 1, 100),
                              SpeedRow(5, 2, 9, 5), SpeedRow(2, 5, 0, Blank), SpeedRow(8, 8, 9, 9), SpeedRow(1, 9, 400, 1)>>)
Twice == CSV("twice", <<SpeedRow(9, 2, 36, NotGiven), SpeedRow(9, 2, 24, NotGiven)>>)
SlowTurns == CSV("turns", <<TurnRow(9, 2, 8, 120, NotGiven), TurnRow(8, 2, 9, -490, -700), TurnRow(9, 2, 5, 15, 200)>>)
HugeTurns == CSV("turns", <<TurnRow(9, 2, 8, 999, 99999)>>)

Local(minutes, wday, year, month, day) ==
  [minutes |-> minutes, wday |-> wday, year |-> year, month |-> month, day |-> day]

Rule(times, weekdays, monthdays, modifier) ==
  [times |-> times, weekdays |-> weekdays, monthdays |-> monthdays, modifier |-> modifier]
Dates(from, to) == [from |-> from, to |-> to]
Date(y, m, d) == [year |-> y, month |-> m, day |-> d]

MCOpeningHours ==
  [c \in {"at night", "by day", "on Sunday"} |->
     CASE c = "at night" -> <<Rule(<<TimeSpan(1320, 300)>>, <<<<1, 5>>>>, <<Dates(Date(0, 3, 1), Date(0, 10, 31))>>, "open")>>
       [] c = "by day" -> <<Rule(<<TimeSpan(360, 1200)>>, <<<<5, 1>>>>, << >>, "open"),
                            Rule(<< >>, << >>, <<Dates(Date(0, 2, 29), AnyDate)>>, "closed")>>
       [] OTHER -> <<Rule(<< >>, <<<<0, 0>>>>, << >>, "open")>>]

\* Before and after midnight at the ends of the rules, in a leap year and not.
Moments == {Local(1330, 5, 2024, 3, 1), Local(299, 6, 2024, 11, 1), Local(299, 1, 2024, 3, 4), Local(300, 2, 2024, 6, 4),
            Local(60, 5, 2024, 3, 1), Local(400, 4, 2024, 2, 29), Local(400, 1, 2024, 2, 26), Local(400, 5, 2023, 5, 5)}

Zone(nodes, time) == [tzid |-> TRUE, polygon |-> TRUE, nodes |-> nodes, time |-> time]

OverTime == {AtTime(<<Zone(1..9, time)>>) : time \in Moments}
  \cup {AtTime(<<Zone(1..9, Local(1330, 5, 2024, 3, 1)), Zone({2}, Local(400, 1, 2024, 2, 26))>>),
        AtTime(<<Zone({1, 3}, Local(1330, 5, 2024, 3, 1))>>),
        AtTime(<<[Zone(1..9, Local(1330, 5, 2024, 3, 1)) EXCEPT !.polygon = FALSE]>>),
        AtTime(<<[Zone(1..9, Local(1330, 5, 2024, 3, 1)) EXCEPT !.tzid = FALSE]>>),
        [AtTime(<< >>) EXCEPT !.tz_file.readable = FALSE], [AtTime(<< >>) EXCEPT !.valid_now = -1]}

With(file, updates) == [file EXCEPT !.updates = updates]

Updates ==
  {With(Plain, <<u>>) : u \in {
     NoChange, Speeds(<<Traffic>>), Speeds(<<Twice>>), Turns(<<SlowTurns>>), Turns(<<HugeTurns>>),
     Speeds(<<Spoilt(Traffic)>>), Speeds(<<Traffic, Closures, Twice, Twice>>)}}
  \cup {With(Junction(WithNode(8, "signal", "both"), << >>), <<Speeds(<<Traffic, Closures>>)>>),
        With(Plain, <<[Speeds(<<Closures>>) EXCEPT !.turns = <<Spoilt(SlowTurns)>>],
                      [Speeds(<<Closures>>) EXCEPT !.turns = <<SlowTurns>>]>>)}
  \cup {With(Junction(AllNodes, Nights), <<u>>) : u \in OverTime}

MCInputs == RestrictedTowns \cup Overlapping \cup Signals \cup Barriers \cup Roundabouts
            \cup OneWays \cup OddRelations \cup Unusual \cup Updates
=============================================================================
