------------------------------- MODULE MCMld -------------------------------
EXTENDS MultiLevelDijkstra

MCWorkers == {1, 2}
MCBalance == <<6, 5>>
MCBoundary == <<1, 3>>
MCInvalid == 1000
MCSizes == <<2, 4>>
MCOverlays == {3}

\* A network of streets <<u, v, weight, weight back>>; 0 is a one-way street.
\* The directions of street i are the edge-based nodes Forward(i), Backward(i).
Network(coordinates, streets, penalty, closed) ==
  LET before(i) == FoldLeft(LAMBDA n, k : n + IF streets[k][4] > 0 THEN 2 ELSE 1, 0, [k \in 1..(i - 1) |-> k])
      mapping == [i \in DOMAIN streets |->
                    [u |-> streets[i][1], v |-> streets[i][2], forward |-> before(i),
                     backward |-> IF streets[i][4] > 0 THEN before(i) + 1 ELSE -1]]
      directed == FlattenSeq([i \in DOMAIN streets |->
                    << <<streets[i][1], streets[i][2], streets[i][3]>> >> \o
                    IF streets[i][4] > 0 THEN << <<streets[i][2], streets[i][1], streets[i][4]>> >> ELSE << >>])
      degree(j) == Cardinality({i \in DOMAIN streets : j \in {streets[i][1], streets[i][2]}})
      uturn(a, b) == \E m \in ToSet(mapping) : {a - 1, b - 1} = {m.forward, m.backward}
      turns == Ordered({p \in (DOMAIN directed) \X (DOMAIN directed) :
                          /\ directed[p[1]][2] = directed[p[2]][1] /\ p[1] # p[2]
                          /\ uturn(p[1], p[2]) => degree(directed[p[1]][2]) = 1},
                       LAMBDA p, q : p[1] < q[1] \/ (p[1] = q[1] /\ p[2] < q[2]))
      weights == [n \in 0..(Len(directed) - 1) |-> directed[n + 1][3]]
  IN [coordinates |-> coordinates,
      streets |-> FlattenSeq([i \in DOMAIN streets |-> << <<streets[i][1], streets[i][2]>>,
                                                          <<streets[i][2], streets[i][1]>> >>]),
      mapping |-> mapping, node_weights |-> weights,
      penalties |-> [t \in DOMAIN turns |-> penalty[1 + (t % Len(penalty))]],
      edges |-> [t \in DOMAIN turns |->
                   [source |-> turns[t][1] - 1, target |-> turns[t][2] - 1, turn_id |-> t,
                    weight |-> weights[turns[t][1] - 1] + penalty[1 + (t % Len(penalty))]]],
      filters |-> << [n \in DOMAIN weights |-> TRUE] >> \o
                  IF closed = {} THEN << >> ELSE << [n \in DOMAIN weights |-> n \notin closed] >>]

Grid(width, n) == [j \in 0..(n - 1) |-> <<j % width, j \div width>>]

\* Two rows of three junctions.
Ladder == Network(Grid(3, 6),
  << <<0, 1, 2, 3>>, <<1, 2, 1, 1>>, <<0, 3, 1, 0>>, <<1, 4, 2, 0>>, <<2, 5, 3, 0>>, <<3, 4, 2, 0>>,
     <<4, 5, 1, 2>> >>, <<0, 1>>, {5})

\* A street with dead ends, and one apart from it.
Apart == Network(Grid(4, 7),
  << <<0, 1, 1, 1>>, <<1, 2, 2, 2>>, <<2, 3, 1, 3>>, <<4, 5, 1, 2>>, <<5, 6, 2, 1>> >>, <<0, 2, 1>>, {})

\* A road whose two directions are separate ways between two junctions, with a
\* street at either end.
Carriageways == Network(Grid(4, 4),
  << <<0, 1, 1, 1>>, <<1, 2, 3, 0>>, <<2, 1, 2, 0>>, <<2, 3, 1, 1>> >>, <<0, 1, 2>>, {})

MCInputs == {Ladder, Apart, Carriageways}

MCPlaces(i) == {<< <<NodeCount(i) - 2, 0>> >>, << <<0, 1>>, <<1, 0>> >>, << <<0, 0>> >>}

\* A direct route, a leg after others, and a search with a bound.
Leg(total, forces, bound) == [total |-> total, forces |-> forces, bound |-> bound]
MCLegs == {Leg(0, FALSE, MCInvalid), Leg(4, TRUE, MCInvalid), Leg(0, FALSE, 5)}

MCTables(i) ==
  LET a == << <<0, 1>> >>
      b == << <<3, 0>> >>
      c == << <<0, 0>>, <<1, 1>> >>
      d == << <<NodeCount(i) - 2, 0>> >>
  IN { << <<a>>, <<b, c>> >>, << <<a, d>>, <<c>> >>, << <<a, b>>, <<c, d>> >>, << <<a, b, d>>, <<c, b>> >>}

=============================================================================
