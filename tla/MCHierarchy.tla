---------------------------- MODULE MCHierarchy ----------------------------
EXTENDS ContractionHierarchy

MCThreads == {1, 2}
MCHash(v) == v % 2
MCInvalid == 1000

Edge(s, t, w, id) == [source |-> s, target |-> t, weight |-> w, turn_id |-> id,
                      forward |-> TRUE, backward |-> FALSE]

OneWay(n) == [v \in NodeIds(n) |-> MCInvalid]
All(n) == <<[v \in NodeIds(n) |-> TRUE]>>

\* The graph of the unit test: two streets to choose from, twice.
TwoChoices == [nodes |-> 6, weights |-> OneWay(6), filters |-> All(6),
  edges |-> <<Edge(0, 1, 3, 1), Edge(0, 5, 1, 2), Edge(1, 3, 3, 3), Edge(1, 4, 1, 4),
              Edge(3, 1, 1, 5), Edge(4, 3, 1, 6), Edge(5, 1, 1, 7)>>]

Square == [nodes |-> 4, weights |-> OneWay(4), filters |-> All(4),
  edges |-> <<Edge(0, 1, 2, 1), Edge(1, 2, 2, 2), Edge(2, 3, 2, 3), Edge(3, 0, 2, 4),
              Edge(0, 2, 5, 5), Edge(2, 0, 3, 6)>>]

Excl == [nodes |-> 4, weights |-> OneWay(4),
  filters |-> << [v \in 0..3 |-> TRUE], [v \in 0..3 |-> v # 3] >>,
  edges |-> <<Edge(0, 1, 2, 1), Edge(1, 2, 2, 2), Edge(0, 3, 2, 3), Edge(3, 2, 1, 4),
              Edge(2, 0, 4, 5)>>]

\* Three streets between two junctions, one of them one-way (0); 1 and 3, and 2
\* and 4, are the two directions of the others.
Mixed == [nodes |-> 5, weights |-> [v \in 0..4 |-> IF v = 0 THEN MCInvalid ELSE 2], filters |-> All(5),
  edges |-> <<Edge(0, 1, 3, 1), Edge(0, 2, 3, 2), Edge(1, 0, 2, 3), Edge(1, 4, 2, 4), Edge(2, 0, 2, 5),
              Edge(2, 3, 2, 6), Edge(3, 2, 2, 7), Edge(4, 1, 2, 8)>>]

\* Three one-way streets between two junctions: 0 and 2 one way, 1 the other.
Streets == [nodes |-> 3, weights |-> OneWay(3), filters |-> All(3),
  edges |-> <<Edge(0, 1, 1, 1), Edge(1, 0, 2, 2), Edge(1, 2, 1, 3), Edge(2, 1, 2, 4)>>]

\* Every node has three neighbours and gains more edges than it loses.
Bipartite == [nodes |-> 6, weights |-> OneWay(6), filters |-> All(6),
  edges |-> <<Edge(0, 1, 1, 1), Edge(0, 3, 2, 2), Edge(0, 5, 4, 3), Edge(1, 0, 1, 4),
              Edge(1, 2, 4, 5), Edge(1, 4, 2, 6), Edge(2, 1, 4, 7), Edge(2, 3, 1, 8),
              Edge(2, 5, 2, 9), Edge(3, 0, 2, 10), Edge(3, 2, 1, 11), Edge(3, 4, 4, 12),
              Edge(4, 1, 2, 13), Edge(4, 3, 4, 14), Edge(4, 5, 1, 15), Edge(5, 0, 4, 16),
              Edge(5, 2, 2, 17), Edge(5, 4, 1, 18)>>]

MCInputs == {TwoChoices, Square, Excl, Mixed, Streets, Bipartite}

\* One end on a directed segment, or on both directions of a street of Mixed.
MCPlaces(i) ==
  IF i = Bipartite THEN {<< <<v, 0>> >> : v \in {0, 3, 5}}
  ELSE {<< <<v, o>> >> : v \in NodeIds(i.nodes), o \in {0, 1}} \cup
       IF i = Mixed THEN {<< <<1, o>>, <<3, 1 - o>> >> : o \in {0, 1}} ELSE {}

\* A direct route, a leg after others, and a search with a bound.
Leg(total, forces, bound) == [total |-> total, forces |-> forces, bound |-> bound]
MCLegs == {Leg(0, FALSE, MCInvalid), Leg(5, TRUE, MCInvalid), Leg(0, FALSE, 4)}

MCTables(i) == {<< << <<0, 0>> >>, << <<2, 1>> >>, << <<1, 0>> >>, << <<2, 0>> >> >>}
=============================================================================
