-------------------------- MODULE TrafficReceiver ---------------------------
(***************************************************************************)
(* LiveDataStore (include/engine/live_data_store.hpp): the process-wide    *)
(* store between the UDP receiver, which appends raw samples, and the      *)
(* request threads, which take the samples and publish one record per road *)
(* geometry.  Every member function holds mutex_ from its first access to  *)
(* its last, so every operator below is one atomic step of its caller.     *)
(***************************************************************************)
EXTENDS Integers, Sequences, FiniteSets

CONSTANTS
    Geometries,      \* packed geometry ids of the road network
    Users,           \* user ids
    Coordinates,     \* GPS positions
    NaN,             \* the float that no comparison accepts
    StaleSeconds,    \* stale_seconds_, set once by the OSRM constructor
    StartMs          \* the system clock when the process starts

ASSUME UsersAssumption == IsFiniteSet(Users)
ASSUME StaleSecondsAssumption == StaleSeconds \in Nat
ASSUME StartMsAssumption == StartMs \in Nat

VARIABLES
    pending_samples, \* pending_samples_: the vector of raw samples
    segments,        \* segments_: geometry id -> published TrafficEdgeData
    clock,           \* std::chrono::system_clock, in milliseconds
    accepted         \* history: every sample ever passed to addSample

(* A TrafficSample; id is history, the position of the sample in accepted. *)
TrafficSample ==
    [id : Nat, user_id : Users, coordinate : Coordinates,
     speed_kmh : Int \cup {NaN}, timestamp_ms : Nat]

StoreTypeOK ==
    /\ pending_samples \in Seq(TrafficSample)
    /\ accepted \in Seq(TrafficSample)
    /\ clock \in Nat
    /\ segments = [g \in DOMAIN segments |-> segments[g]]
    /\ DOMAIN segments \subseteq Geometries
    /\ \A g \in DOMAIN segments :
         segments[g].timestamp_ms \in Nat /\ segments[g].sample_count \in Nat \ {0}

storeVars == <<pending_samples, segments, clock, accepted>>

MaxAgeMs(stale_seconds) == stale_seconds * 1000

StoreInit ==
    /\ pending_samples = <<>>
    /\ segments = [g \in {} |-> g]
    /\ clock = StartMs
    /\ accepted = <<>>

addSample(sample) ==
    /\ pending_samples' = Append(pending_samples, sample)
    /\ accepted' = Append(accepted, sample)
    /\ UNCHANGED segments

takePendingSamples_Copy ==
    UNCHANGED <<pending_samples, segments, accepted>>

(* std::exchange(pending_samples_, {}): the caller reads pending_samples   *)
(* in the same step.                                                       *)
takePendingSamples ==
    /\ pending_samples' = <<>>
    /\ UNCHANGED <<segments, accepted>>

update(geometry_id, data) ==
    /\ segments' = [g \in DOMAIN segments \cup {geometry_id} |->
                      IF g = geometry_id THEN data ELSE segments[g]]
    /\ UNCHANGED <<pending_samples, accepted>>

IsStale(now_ms, data, stale_seconds) ==
    now_ms - data.timestamp_ms > MaxAgeMs(stale_seconds)

removeStaleSegments_Seconds(now_ms, stale_seconds) ==
    /\ segments' = [g \in {g \in DOMAIN segments :
                            now_ms - segments[g].timestamp_ms <= stale_seconds}
                      |-> segments[g]]
    /\ UNCHANGED <<pending_samples, accepted>>

(* now_ms is read by the caller's thread before the lock is taken.         *)
removeStaleSegments(now_ms, stale_seconds) ==
    /\ segments' = [g \in {g \in DOMAIN segments :
                            ~IsStale(now_ms, segments[g], stale_seconds)}
                      |-> segments[g]]
    /\ UNCHANGED <<pending_samples, accepted>>

-----------------------------------------------------------------------------
(***************************************************************************)
(* What the receive thread does with a datagram: the body of               *)
(* TrafficUpdater::receiveLoop after recvfrom, parseTrafficBatch           *)
(* (include/engine/traffic_protobuf.hpp) and processPacket                 *)
(* (include/engine/traffic_updater.hpp).  The packets of a datagram reach  *)
(* the store one by one, so other threads may run between two of them.     *)
(***************************************************************************)

CONSTANTS
    ValidCoordinates,\* latitude within -90..90 and longitude within -180..180
    MinSpeed,        \* min_speed_kmh_
    MaxSpeed,        \* the 300.0f literal of processPacket
    NoDatagram       \* the thread is not working on a datagram

ASSUME SpeedLimitsAssumption == MinSpeed \in Int /\ MaxSpeed \in Int

(* A TrafficPacketMsg as parseTrafficPacket decodes it.                    *)
Packet ==
    [has_coords : BOOLEAN, user_id : Users, coordinate : Coordinates,
     speed_kmh : Int \cup {NaN}, timestamp_ms : Int]

Remainder == [packets : Seq(Packet), parsed : Nat, malformed : BOOLEAN]

ASSUME NoDatagramAssumption == NoDatagram \notin Remainder

VARIABLES
    datagram,        \* what is left of the datagram: packets, parsed, malformed
    packets_received,
    packets_dropped,
    batches_received

counters == <<packets_received, packets_dropped, batches_received>>
receiverVars == <<datagram, counters>>

ReceiverTypeOK ==
    /\ datagram \in Remainder \cup {NoDatagram}
    /\ packets_received \in Nat
    /\ packets_dropped \in Nat
    /\ batches_received \in Nat

ReceiverInit ==
    /\ datagram = NoDatagram
    /\ packets_received = 0
    /\ packets_dropped = 0
    /\ batches_received = 0

(* bytes == 0.                                                             *)
RecvEmpty ==
    /\ datagram = NoDatagram
    /\ packets_dropped' = packets_dropped + 1
    /\ UNCHANGED <<datagram, packets_received, batches_received, storeVars>>

(* bytes > 0.  A datagram is malformed when protozero throws at some point *)
(* of it: the packets before that point are consumed all the same.         *)
RecvDatagram(packets, malformed) ==
    /\ datagram = NoDatagram
    /\ datagram' = [packets |-> packets, parsed |-> 0, malformed |-> malformed]
    /\ UNCHANGED <<counters, storeVars>>

FloatLess(x, y) == x # NaN /\ y # NaN /\ x < y

SpeedAccepted(pkt) ==
    /\ ~FloatLess(pkt.speed_kmh, MinSpeed)
    /\ ~FloatLess(MaxSpeed, pkt.speed_kmh)

TimestampAccepted(pkt) ==
    ~(/\ pkt.timestamp_ms > 0
      /\ clock - pkt.timestamp_ms > MaxAgeMs(StaleSeconds))

SampleOf(pkt) ==
    [id |-> Len(accepted) + 1,
     user_id |-> pkt.user_id,
     coordinate |-> pkt.coordinate,
     speed_kmh |-> pkt.speed_kmh,
     timestamp_ms |-> IF pkt.timestamp_ms > 0 THEN pkt.timestamp_ms ELSE clock]

processPacket(pkt) ==
    IF /\ SpeedAccepted(pkt)
       /\ pkt.coordinate \in ValidCoordinates
       /\ TimestampAccepted(pkt)
      THEN addSample(SampleOf(pkt))
      ELSE UNCHANGED <<pending_samples, segments, accepted>>

Consumed(n) ==
    [packets |-> Tail(datagram.packets), parsed |-> datagram.parsed + n,
     malformed |-> datagram.malformed]

(* parseTrafficBatch consumes and counts a packet that has coordinates,    *)
(* whether processPacket stores it or not, and skips any other.            *)
ConsumePacket ==
    /\ datagram # NoDatagram
    /\ datagram.packets # <<>>
    /\ LET pkt == Head(datagram.packets)
       IN  IF pkt.has_coords
             THEN /\ processPacket(pkt)
                  /\ datagram' = Consumed(1)
             ELSE /\ UNCHANGED <<pending_samples, segments, accepted>>
                  /\ datagram' = Consumed(0)
    /\ UNCHANGED <<counters, clock>>

(* parseTrafficBatch returns 0 when it caught an exception.                *)
ParsedCount == IF datagram.malformed THEN 0 ELSE datagram.parsed

BatchDone_DropUncounted ==
    /\ datagram # NoDatagram
    /\ datagram.packets = <<>>
    /\ IF ParsedCount = 0
         THEN UNCHANGED counters
         ELSE /\ batches_received' = batches_received + 1
              /\ packets_received' = packets_received + ParsedCount
              /\ UNCHANGED packets_dropped
    /\ datagram' = NoDatagram
    /\ UNCHANGED storeVars

BatchDone ==
    /\ datagram # NoDatagram
    /\ datagram.packets = <<>>
    /\ IF ParsedCount = 0
         THEN /\ packets_dropped' = packets_dropped + 1
              /\ UNCHANGED <<packets_received, batches_received>>
         ELSE /\ batches_received' = batches_received + 1
              /\ packets_received' = packets_received + ParsedCount
              /\ UNCHANGED packets_dropped
    /\ datagram' = NoDatagram
    /\ UNCHANGED storeVars
=============================================================================
