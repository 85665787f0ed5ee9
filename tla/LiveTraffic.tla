---------------------------- MODULE LiveTraffic -----------------------------
(***************************************************************************)
(* AggregatePendingTrafficSamples (include/engine/traffic_aggregator.hpp). *)
(* Any request thread may run it, several at once, and it may run inside   *)
(* itself: snapping a sample calls NearestPhantomNodes, whose              *)
(* MakePhantomNode (include/engine/geospatial_query.hpp) aggregates the    *)
(* samples that have arrived in the meantime.  A thread therefore has a    *)
(* stack of frames, one per activation; the last frame is the running one. *)
(***************************************************************************)
EXTENDS TrafficReceiver, TrafficWeights, FiniteSetsExt

CONSTANTS
    Threads,         \* request threads of the HTTP server
    Snap,            \* facade: coordinate -> geometry, NoRoad or ReverseOnly
    NoRoad,          \* NearestPhantomNodes returns nothing
    ReverseOnly,     \* the nearest segment is not enabled in forward direction
    NoSample         \* "the inner map of grouped has no entry for the user"

ASSUME SnapAssumption ==
    Snap \in [Coordinates -> Geometries \cup {NoRoad, ReverseOnly}]

VARIABLE
    stack            \* stack[t]: the frames of thread t

Frame ==
    [pc : {"clock", "snap", "group", "sweep"}, samples : Seq(TrafficSample),
     now_ms : Nat, grouped : [Geometries -> [Users -> TrafficSample \cup {NoSample}]]]

AggregatorInit == stack = [t \in Threads |-> <<>>]

NoGroups == [g \in Geometries |-> [u \in Users |-> NoSample]]

FrameAt(pc, samples, now_ms, grouped) ==
    [pc |-> pc, samples |-> samples, now_ms |-> now_ms, grouped |-> grouped]

NewFrame(samples) == FrameAt("clock", samples, 0, NoGroups)

Top(t) == stack[t][Len(stack[t])]

Running(t, pc) == stack[t] # <<>> /\ Top(t).pc = pc

WithTop(t, frame) == [stack[t] EXCEPT ![Len(stack[t])] = frame]

SetTop(t, frame) == stack' = [stack EXCEPT ![t] = WithTop(t, frame)]

Pop(t) == stack' = [stack EXCEPT ![t] = SubSeq(@, 1, Len(@) - 1)]

EnterAggregate_NoReturn(t, frames) ==
    /\ stack' = [stack EXCEPT ![t] = Append(frames, NewFrame(pending_samples))]
    /\ takePendingSamples
    /\ UNCHANGED clock

(* Entry of AggregatePendingTrafficSamples from a thread whose frames are  *)
(* frames: take the pending samples, return at once when there are none.   *)
EnterAggregate(t, frames) ==
    /\ stack' = [stack EXCEPT ![t] =
                   IF pending_samples = <<>>
                     THEN frames
                     ELSE Append(frames, NewFrame(pending_samples))]
    /\ takePendingSamples
    /\ UNCHANGED clock

ReadClock(t) ==
    /\ Running(t, "clock")
    /\ SetTop(t, FrameAt("snap", Top(t).samples, clock, Top(t).grouped))
    /\ UNCHANGED storeVars

TooOld_Never(sample, now_ms) == FALSE

TooOld(sample, now_ms) ==
    sample.timestamp_ms + MaxAgeMs(StaleSeconds) < now_ms

(* One turn of the loop over the samples up to NearestPhantomNodes: a      *)
(* stale sample or one with no road nearby is skipped, any other one makes *)
(* MakePhantomNode enter a nested aggregation.                             *)
SnapSample(t) ==
    /\ Running(t, "snap")
    /\ Top(t).samples # <<>>
    /\ LET sample == Head(Top(t).samples)
       IN  IF TooOld(sample, Top(t).now_ms) \/ Snap[sample.coordinate] = NoRoad
             THEN /\ SetTop(t, FrameAt("snap", Tail(Top(t).samples), Top(t).now_ms,
                                       Top(t).grouped))
                  /\ UNCHANGED storeVars
             ELSE EnterAggregate(t, WithTop(t, FrameAt("group", Top(t).samples,
                                                       Top(t).now_ms,
                                                       Top(t).grouped)))

Latest(existing, sample) ==
    IF existing = NoSample \/ sample.timestamp_ms >= existing.timestamp_ms
      THEN sample ELSE existing

WithSample(grouped, g, sample) ==
    [grouped EXCEPT ![g] = [grouped[g] EXCEPT ![sample.user_id] =
                              Latest(grouped[g][sample.user_id], sample)]]

(* The rest of the turn, after the nested call has returned.               *)
GroupSample(t) ==
    /\ Running(t, "group")
    /\ LET sample == Head(Top(t).samples)
           g == Snap[sample.coordinate]
       IN  SetTop(t, FrameAt("snap", Tail(Top(t).samples), Top(t).now_ms,
                             IF g = ReverseOnly
                               THEN Top(t).grouped
                               ELSE WithSample(Top(t).grouped, g, sample)))
    /\ UNCHANGED storeVars

UsersOf(user_samples) == {u \in Users : user_samples[u] # NoSample}

EdgeData_Oldest(user_samples) ==
    LET members == UsersOf(user_samples)
        count == Cardinality(members)
        speed == Fraction(MapThenSumSet(LAMBDA u : user_samples[u].speed_kmh,
                                        members), count)
    IN  [speed_kmh |-> speed,
         weight_factor |-> ComputeTrafficWeightFactor(speed),
         timestamp_ms |-> Min({user_samples[u].timestamp_ms : u \in members}),
         sample_count |-> count,
         averaged |-> {user_samples[u] : u \in members}]

(* The record published for one road: its mean speed as sum over count.    *)
(* averaged is history: the samples the mean was taken over.               *)
EdgeData(user_samples) ==
    LET members == UsersOf(user_samples)
        count == Cardinality(members)
        speed == Fraction(MapThenSumSet(LAMBDA u : user_samples[u].speed_kmh,
                                        members), count)
    IN  [speed_kmh |-> speed,
         weight_factor |-> ComputeTrafficWeightFactor(speed),
         timestamp_ms |-> Max({0} \cup {user_samples[u].timestamp_ms : u \in members}),
         sample_count |-> count,
         averaged |-> {user_samples[u] : u \in members}]

Snapped(t) == Running(t, "snap") /\ Top(t).samples = <<>>

(* One turn of the loop over grouped, in the map's unspecified order.      *)
Publish(t, g) ==
    /\ Snapped(t)
    /\ UsersOf(Top(t).grouped[g]) # {}
    /\ update(g, EdgeData(Top(t).grouped[g]))
    /\ SetTop(t, FrameAt("snap", <<>>, Top(t).now_ms,
                         [Top(t).grouped EXCEPT ![g] = NoGroups[g]]))
    /\ UNCHANGED clock

(* removeStaleSegments reads the clock before it takes the lock.           *)
SweepClock(t) ==
    /\ Snapped(t)
    /\ \A g \in Geometries : UsersOf(Top(t).grouped[g]) = {}
    /\ SetTop(t, FrameAt("sweep", <<>>, clock, Top(t).grouped))
    /\ UNCHANGED storeVars

Sweep(t) ==
    /\ Running(t, "sweep")
    /\ removeStaleSegments(Top(t).now_ms, StaleSeconds)
    /\ Pop(t)
    /\ UNCHANGED clock

AggregateStep(t) ==
    \/ ReadClock(t)
    \/ SnapSample(t)
    \/ GroupSample(t)
    \/ \E g \in Geometries : Publish(t, g)
    \/ SweepClock(t)
    \/ Sweep(t)

-----------------------------------------------------------------------------
(***************************************************************************)
(* The live traffic path end to end: datagrams arrive at the               *)
(* TrafficUpdater's receive thread, samples wait in the LiveDataStore, and *)
(* HTTP worker threads answering /traffic and /route requests aggregate    *)
(* them and read the published segments.                                   *)
(*                                                                         *)
(* /traffic: TrafficAPI::MakeResponse (include/engine/api/traffic_api.hpp) *)
(* aggregates, then reads every segment under one lock.                    *)
(* /route: MakePhantomNode aggregates and reads the segment of the source  *)
(* twice (forward, reverse weights); after the search annotatePath         *)
(* (include/engine/routing_algorithms/routing_base.hpp) aggregates again   *)
(* and reads the segments of the path.                                     *)
(***************************************************************************)

CONSTANTS
    Datagrams,       \* what clients send: [packets, malformed]
    Services,        \* the services requested: a subset of {"traffic", "route"}
    NoTimestamp,     \* age of a packet whose timestamp_ms is not set
    MaxDatagrams,    \* bound: datagrams delivered
    TickMs,          \* step of the clock
    MaxPhantoms,     \* bound: phantom nodes of one route request
    HorizonMs        \* bound: the clock stops here

ASSUME DatagramsAssumption ==
    \A d \in Datagrams :
        /\ d.malformed \in BOOLEAN
        /\ d.packets \in Seq([has_coords : BOOLEAN, user_id : Users,
                              coordinate : Coordinates,
                              speed_kmh : Int \cup {NaN},
                              age : Int \cup {NoTimestamp}])
ASSUME TickMsAssumption == TickMs \in Nat \ {0}

VARIABLES
    delivered,       \* datagrams delivered so far
    request,         \* request[t]: what thread t is doing
    began            \* began[t]: clock and accepted samples at the request's start

requestVars == <<request, began>>
vars == <<storeVars, receiverVars, stack, delivered, requestVars>>

NotBegan == [clock |-> 0, accepted |-> 0]

Init ==
    /\ StoreInit
    /\ ReceiverInit
    /\ AggregatorInit
    /\ delivered = 0
    /\ request = [t \in Threads |-> [at |-> "idle", phantoms |-> 0]]
    /\ began = [t \in Threads |-> NotBegan]

-----------------------------------------------------------------------------
Tick ==
    /\ clock + TickMs <= HorizonMs
    /\ clock' = clock + TickMs
    /\ UNCHANGED <<pending_samples, segments, accepted, receiverVars, stack,
                   delivered, requestVars>>

(* The sender stamps a packet age ms before it is received (a negative age *)
(* is a sender whose clock is ahead), or not at all.                       *)
Stamped(packet) ==
    [has_coords |-> packet.has_coords,
     user_id |-> packet.user_id,
     coordinate |-> packet.coordinate,
     speed_kmh |-> packet.speed_kmh,
     timestamp_ms |-> IF packet.age = NoTimestamp THEN 0 ELSE clock - packet.age]

Deliver ==
    /\ delivered < MaxDatagrams
    /\ delivered' = delivered + 1
    /\ \E d \in Datagrams :
         RecvDatagram([i \in DOMAIN d.packets |-> Stamped(d.packets[i])],
                      d.malformed)
    /\ UNCHANGED <<stack, requestVars>>

(* An empty datagram changes a counter only: see TrafficUpdater.           *)
Receive ==
    /\ ConsumePacket \/ BatchDone
    /\ UNCHANGED <<stack, delivered, requestVars>>

-----------------------------------------------------------------------------
(* Request threads.                                                        *)

At(pc, phantoms) == [at |-> pc, phantoms |-> phantoms]

Begin(t, pc, phantoms) ==
    /\ request[t].at = "idle"
    /\ request' = [request EXCEPT ![t] = At(pc, phantoms)]
    /\ began' = [began EXCEPT ![t] = [clock |-> clock, accepted |-> Len(accepted)]]
    /\ UNCHANGED <<storeVars, receiverVars, stack, delivered>>

(* A call of AggregatePendingTrafficSamples; the request goes on at pc     *)
(* when the call has returned.                                             *)
CallAggregate(t, from, to) ==
    /\ request[t].at = from
    /\ EnterAggregate(t, <<>>)
    /\ request' = [request EXCEPT ![t].at = to]
    /\ UNCHANGED <<receiverVars, delivered, began>>

Aggregate(t) ==
    /\ AggregateStep(t)
    /\ UNCHANGED <<receiverVars, delivered, requestVars>>

(* get() or getAllSegments(): the answer is not kept, only where the       *)
(* request goes on.                                                        *)
Reading(t) ==
    /\ request[t].at \in {"all", "forward", "reverse", "path"}
    /\ stack[t] = <<>>

Read(t, from, next) ==
    /\ request[t].at = from
    /\ Reading(t)
    /\ request' = [request EXCEPT ![t] = next]
    /\ began' = IF next.at = "idle" THEN [began EXCEPT ![t] = NotBegan] ELSE began
    /\ UNCHANGED <<storeVars, receiverVars, stack, delivered>>

(* /traffic: MakeResponse aggregates, then copies all segments.            *)
BeginTraffic_NoAggregate(t) ==
    "traffic" \in Services /\ Begin(t, "all", 0)

BeginTraffic(t) == "traffic" \in Services /\ Begin(t, "traffic", 0)

TrafficAggregate(t) == CallAggregate(t, "traffic", "all")

TrafficRead(t) == Read(t, "all", At("idle", 0))

(* /route: MakePhantomNode once per candidate of every input coordinate.   *)
BeginRoute(t) ==
    "route" \in Services /\ \E n \in 1 .. MaxPhantoms : Begin(t, "phantom", n)

PhantomAggregate(t) == CallAggregate(t, "phantom", "forward")

PhantomForward(t) == Read(t, "forward", At("reverse", request[t].phantoms))

PhantomReverse(t) ==
    Read(t, "reverse", IF request[t].phantoms > 1
                         THEN At("phantom", request[t].phantoms - 1)
                         ELSE At("annotate", 0))

(* The search reads no live data; annotatePath reads the segments of the   *)
(* path one by one, and the request ends with the last of them.            *)
AnnotateAggregate(t) == CallAggregate(t, "annotate", "path")

AnnotateRead(t) == Read(t, "path", At("idle", 0))

WorkOn(t) ==
    \/ Aggregate(t)
    \/ TrafficAggregate(t) \/ TrafficRead(t)
    \/ PhantomAggregate(t) \/ PhantomForward(t) \/ PhantomReverse(t)
    \/ AnnotateAggregate(t) \/ AnnotateRead(t)

Next ==
    \/ Tick
    \/ Deliver
    \/ Receive
    \/ \E t \in Threads : BeginTraffic(t) \/ BeginRoute(t) \/ WorkOn(t)

Spec == Init /\ [][Next]_vars

-----------------------------------------------------------------------------
(* Properties.                                                             *)

Held(frame) ==
    Range(frame.samples)
        \cup ({frame.grouped[g][u] : g \in Geometries, u \in Users} \ {NoSample})

FrameIds(frame) == {s.id : s \in Held(frame)}

PendingIds == {s.id : s \in Range(pending_samples)}

InFlight ==
    UNION {UNION {FrameIds(stack[t][k]) : k \in DOMAIN stack[t]} : t \in Threads}

(* Types of the store, the receiver, the frames and the requests; a frame  *)
(* that is between the two halves of a loop turn holds the sample of it.   *)
TypeOK ==
    /\ StoreTypeOK
    /\ ReceiverTypeOK
    /\ stack \in [Threads -> Seq(Frame)]
    /\ \A t \in Threads : \A k \in DOMAIN stack[t] :
         stack[t][k].pc = "group" => stack[t][k].samples # <<>>
    /\ delivered \in Nat
    /\ request \in [Threads ->
         [at : {"idle", "traffic", "phantom", "annotate", "all", "forward",
                "reverse", "path"}, phantoms : Nat]]
    /\ began \in [Threads -> [clock : Nat, accepted : Nat]]

(* A sample has one owner: no two aggregations, nested or concurrent, hold *)
(* the same sample, and none holds one that is still pending.              *)
SingleOwner ==
    \A t \in Threads : \A k \in DOMAIN stack[t] :
        /\ FrameIds(stack[t][k]) \cap PendingIds = {}
        /\ \A r \in Threads : \A j \in DOMAIN stack[r] : <<t, k>> # <<r, j>> =>
             FrameIds(stack[t][k]) \cap FrameIds(stack[r][j]) = {}

(* A /traffic answer or a weight lookup reflects every sample that had     *)
(* been accepted when its request began.                                   *)
AnswersReflectEarlierSamples ==
    \A t \in Threads : Reading(t) =>
        \A id \in PendingIds \cup InFlight : id > began[t].accepted

(* A segment disappears only when it is older than the limit, whatever the *)
(* clock values concurrent sweeps have read.                               *)
OnlyStaleRemoved ==
    [][\A g \in DOMAIN segments \ DOMAIN segments' :
         clock - segments[g].timestamp_ms > 1000 * StaleSeconds]_vars

(* An aggregation publishes no record that was older than the limit when   *)
(* it read the clock.                                                      *)
FreshWhenPublished ==
    [][\A t \in Threads, g \in Geometries : Publish(t, g) =>
         segments'[g].timestamp_ms + MaxAgeMs(StaleSeconds) >= Top(t).now_ms]_vars

(* A record is taken from samples: it averages some of them, no two of the *)
(* same user, counts them and carries the newest of their time stamps.     *)
TakenFrom(record, samples) ==
    /\ record.averaged \subseteq samples
    /\ \A s, r \in record.averaged : s.user_id = r.user_id => s = r
    /\ record.speed_kmh.d = Cardinality(record.averaged)
    /\ record.timestamp_ms = Max({s.timestamp_ms : s \in record.averaged})

(* Every published record is taken from accepted samples on its road.      *)
TakenFromSamples ==
    \A g \in DOMAIN segments :
        TakenFrom(segments[g], {s \in Range(accepted) : Snap[s.coordinate] = g})

(* Every published record is, moreover, the mean of these samples.         *)
PublishedFromEvidence ==
    /\ TakenFromSamples
    /\ \A g \in DOMAIN segments :
         segments[g].speed_kmh.n = MapThenSumSet(LAMBDA s : s.speed_kmh, segments[g].averaged)

(* AggregatePendingTrafficSamples runs inside itself only for samples that *)
(* arrived in the meantime: a request nests at most as deep as the samples *)
(* accepted since it began, so on a quiet network it does not nest at all. *)
(* Nothing else bounds it: samples that keep arriving keep the request.    *)
NestingBounded ==
    \A t \in Threads : Len(stack[t]) <= 1 + Len(accepted) - began[t].accepted

=============================================================================
