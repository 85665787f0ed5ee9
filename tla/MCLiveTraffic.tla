--------------------------- MODULE MCLiveTraffic ---------------------------
(* Small instances of LiveTraffic.                                         *)
EXTENDS LiveTraffic, TLC

CONSTANTS g1, g2, u1, u2, t1, t2, reverse, ocean, off

Roads == {g1, g2}
Positions == {g1, g2, reverse, ocean, off}
SnapPosition ==
    [p \in Positions |-> CASE p \in {g1, g2} -> p
                           [] p = reverse -> ReverseOnly
                           [] OTHER -> NoRoad]
OnTheGlobe == Positions \ {off}

Pkt(u, p, speed, age) ==
    [has_coords |-> TRUE, user_id |-> u, coordinate |-> p, speed_kmh |-> speed,
     age |-> age]
NoCoords == [Pkt(u1, off, 20, 0) EXCEPT !.has_coords = FALSE]
Datagram(packets) == [packets |-> packets, malformed |-> FALSE]

(* Two users on two roads, in one datagram and in different ones, with     *)
(* and without a time stamp.                                               *)
TwoRoads ==
    { Datagram(<<Pkt(u1, g1, 20, 0)>>),
      Datagram(<<Pkt(u2, g1, 60, 500), Pkt(u1, g2, 40, NoTimestamp)>>) }

(* One road, every way a packet is rejected or a sample skipped, and a     *)
(* sender whose clock is ahead of the server's.                            *)
EveryFate ==
    { Datagram(<<Pkt(u1, g1, 20, 500), Pkt(u1, g1, 60, 0)>>),
      Datagram(<<Pkt(u1, reverse, 30, 0), Pkt(u2, ocean, 30, NoTimestamp)>>),
      Datagram(<<Pkt(u1, off, 30, 0), NoCoords>>),
      [Datagram(<<Pkt(u2, g1, 30, 0)>>) EXCEPT !.malformed = TRUE],
      Datagram(<<Pkt(u1, g1, 0, 0), Pkt(u2, g2, 301, 0),
                 Pkt(u1, g1, 20, 1001)>>),
      Datagram(<<Pkt(u1, g1, 20, -5000)>>) }

ThreadSymmetry == Permutations(Threads)
=============================================================================
