-------------------------- MODULE MCTrafficUpdater --------------------------
(* A small instance of TrafficUpdater: two descriptors, two calls of       *)
(* start(), an HTTP connection opened at any moment.                       *)
EXTENDS TrafficUpdater

CONSTANTS here, off, u1

Pkt(coords, p, speed) ==
    [has_coords |-> coords, user_id |-> u1, coordinate |-> p,
     speed_kmh |-> speed, timestamp_ms |-> 0]

(* A good packet and a rejected one, an exception after a good packet, no  *)
(* coordinates, a speed that is not a number.                              *)
Mixed ==
    { [packets |-> <<Pkt(TRUE, here, 40), Pkt(TRUE, off, 40)>>, malformed |-> FALSE],
      [packets |-> <<Pkt(TRUE, here, 40)>>, malformed |-> TRUE],
      [packets |-> <<Pkt(FALSE, here, 40)>>, malformed |-> FALSE],
      [packets |-> <<Pkt(TRUE, here, NaN)>>, malformed |-> FALSE] }

=============================================================================
