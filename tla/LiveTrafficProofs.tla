-------------------------- MODULE LiveTrafficProofs --------------------------
(***************************************************************************)
(* Safety of the live traffic path for any number of request threads,      *)
(* roads, users and samples, any depth of nested aggregation and any limit *)
(* on the age of a sample.                                                 *)
(***************************************************************************)
EXTENDS LiveTraffic, SequenceTheorems, FiniteSetTheorems, TLAPS

(* What holds of every frame on a stack: its clock value lies in the past, *)
(* its samples have been accepted, and what it has grouped was not too old *)
(* when it read the clock.                                                 *)
FrameInv(f, now, n) ==
    /\ f.now_ms <= now
    /\ FrameIds(f) \subseteq 1 .. n
    /\ f.pc = "clock" => f.grouped = NoGroups
    /\ f.pc \in {"snap", "group"} =>
         \A g \in Geometries, u \in Users :
            f.grouped[g][u] # NoSample => ~TooOld(f.grouped[g][u], f.now_ms)
    /\ f.pc = "group" =>
         f.samples # <<>> /\ ~TooOld(Head(f.samples), f.now_ms)

FramesInv ==
    \A t \in Threads : \A k \in DOMAIN stack[t] :
        FrameInv(stack[t][k], clock, Len(accepted))

PendingInv == PendingIds \subseteq 1 .. Len(accepted)

(* Once a request has taken the pending samples, every sample that waits   *)
(* was accepted after the request began.                                   *)
PendingAreNewer ==
    \A t \in Threads :
        /\ began[t].accepted <= Len(accepted)
        /\ request[t].at \in {"all", "forward", "reverse", "path"} =>
             \A id \in PendingIds : id > began[t].accepted

(* The inductive invariant.                                                *)
IInv ==
    /\ TypeOK
    /\ FramesInv
    /\ PendingInv
    /\ SingleOwner
    /\ PendingAreNewer

StackTypeOK == stack \in [Threads -> Seq(Frame)]

-----------------------------------------------------------------------------
(* Lemmas about frames and sequences.                                      *)

LEMMA RangeTail ==
    ASSUME NEW S, NEW s \in Seq(S), s # <<>>
    PROVE  Head(s) \in Range(s) /\ Range(Tail(s)) \subseteq Range(s)
<1>1. DOMAIN s = 1 .. Len(s) /\ Len(s) \in Nat \ {0} /\ Head(s) = s[1]
  BY LenProperties, EmptySeq
<1>2. Tail(s) \in Seq(S) /\ Len(Tail(s)) = Len(s) - 1
      /\ \A i \in 1 .. Len(Tail(s)) : Tail(s)[i] = s[i + 1]
  BY HeadTailProperties
<1>3. DOMAIN Tail(s) = 1 .. Len(Tail(s))
  BY <1>2, LenProperties
<1> QED
  BY <1>1, <1>2, <1>3 DEF Range

LEMMA RangeAppend ==
    ASSUME NEW S, NEW s \in Seq(S), NEW e \in S
    PROVE  Range(Append(s, e)) = Range(s) \cup {e}
<1>1. DOMAIN s = 1 .. Len(s) /\ Len(s) \in Nat
  BY LenProperties
<1>2. Append(s, e) \in Seq(S) /\ Len(Append(s, e)) = Len(s) + 1
      /\ (\A i \in 1 .. Len(s) : Append(s, e)[i] = s[i])
      /\ Append(s, e)[Len(s) + 1] = e
  BY AppendProperties
<1>3. DOMAIN Append(s, e) = 1 .. Len(s) + 1
  BY <1>2, LenProperties
<1> QED
  BY <1>1, <1>2, <1>3 DEF Range

(* A non-empty finite set of users has one with the newest time stamp.     *)
LEMMA NewestUser ==
    ASSUME NEW M, IsFiniteSet(M), M # {}, NEW ts \in [M -> Nat]
    PROVE  \E u \in M : \A v \in M : ts[v] <= ts[u]
<1> DEFINE later(u) == {v \in M : ts[v] > ts[u]}
           count == [u \in M |-> Cardinality(later(u))]
           counts == {count[u] : u \in M}
<1>1. \A u \in M : IsFiniteSet(later(u)) /\ count[u] \in Nat
  BY FS_Subset, FS_CardinalityType
<1>2. counts \subseteq Nat /\ counts # {}
  BY <1>1, Zenon
<1>3. PICK c \in counts : \A d \in counts : ~(<<d, c>> \in OpToRel(<, Nat))
  BY <1>2, WFMin, NatLessThanWellFounded, Zenon
<1>4. PICK u \in M : count[u] = c
  BY <1>3, Zenon
<1>5. \A v \in M : ~(count[v] < count[u])
  <2>1. SUFFICES ASSUME NEW v \in M, count[v] < count[u] PROVE FALSE
    OBVIOUS
  <2>2. count[v] \in counts /\ count[v] \in Nat /\ c \in Nat /\ count[v] < c
    BY <1>1, <1>4, <2>1, Zenon
  <2>3. <<count[v], c>> \in OpToRel(<, Nat)
    BY <2>2 DEF OpToRel
  <2> QED
    BY <1>3, <2>2, <2>3, Zenon
<1>6. SUFFICES ASSUME NEW v \in M, ~(ts[v] <= ts[u]) PROVE FALSE
  OBVIOUS
<1>7. v \in later(u) /\ v \notin later(v) /\ later(v) \in SUBSET later(u)
  BY <1>6
<1>8. Cardinality(later(v)) <= Cardinality(later(u))
      /\ Cardinality(later(v)) # Cardinality(later(u))
  BY <1>1, <1>7, FS_Subset
<1>9. /\ count[u] = Cardinality(later(u)) /\ count[u] \in Nat
      /\ count[v] = Cardinality(later(v)) /\ count[v] \in Nat
  BY <1>1, Zenon
<1>10. ~(count[v] < count[u])
  BY <1>5
<1> HIDE DEF later, count
<1> QED
  BY <1>8, <1>9, <1>10

(* The record Publish stores is typed, and as new as one of its samples.   *)
LEMMA EdgeDataProperties ==
    ASSUME NEW us \in [Users -> TrafficSample \cup {NoSample}], UsersOf(us) # {}
    PROVE  /\ EdgeData(us).timestamp_ms \in Nat
           /\ EdgeData(us).sample_count \in Nat \ {0}
           /\ \A u \in UsersOf(us) : us[u].timestamp_ms <= EdgeData(us).timestamp_ms
<1> DEFINE M == UsersOf(us)
           ts == [u \in M |-> us[u].timestamp_ms]
           T == {0} \cup {us[u].timestamp_ms : u \in M}
<1>1. IsFiniteSet(M) /\ Cardinality(M) \in Nat /\ Cardinality(M) # 0
  BY UsersAssumption, FS_Subset, FS_CardinalityType, FS_EmptySet DEF UsersOf
<1>2. ts \in [M -> Nat]
  BY DEF UsersOf, TrafficSample
<1>3. PICK w \in M : \A v \in M : ts[v] <= ts[w]
  BY <1>1, <1>2, NewestUser, Zenon
<1>4. us[w].timestamp_ms \in T /\ \A y \in T : us[w].timestamp_ms >= y
  BY <1>2, <1>3
<1>5. Max(T) \in T /\ \A y \in T : Max(T) >= y
  BY <1>4, Zenon DEF Max
<1>6. T \subseteq Nat
  BY <1>2
<1>7. EdgeData(us).timestamp_ms = Max(T) /\ EdgeData(us).sample_count = Cardinality(M)
  BY DEF EdgeData
<1> QED
  BY <1>1, <1>5, <1>6, <1>7, Zenon

-----------------------------------------------------------------------------
(* Lemmas about the stacks.                                                *)

(* What the aggregator's steps have to keep.                               *)
StackInv == StackTypeOK /\ FramesInv /\ SingleOwner /\ PendingInv

(* It depends on these variables only.                                     *)
LEMMA StackKept ==
    ASSUME StackInv, UNCHANGED <<stack, pending_samples, clock, accepted>>
    PROVE  StackInv' /\ PendingIds' = PendingIds
<1>1. /\ stack' = stack /\ clock' = clock /\ accepted' = accepted
      /\ PendingIds' = PendingIds
  BY DEF PendingIds
<1>2. StackTypeOK' /\ FramesInv' /\ PendingInv'
  BY <1>1, Zenon DEF StackInv, StackTypeOK, FramesInv, PendingInv
<1>3. SingleOwner'
  BY <1>1, Zenon DEF StackInv, SingleOwner
<1> QED
  BY <1>1, <1>2, <1>3, Zenon DEF StackInv

LEMMA TopFrame ==
    ASSUME StackInv, NEW t \in Threads, stack[t] # <<>>
    PROVE  /\ Top(t) \in Frame
           /\ Len(stack[t]) \in DOMAIN stack[t]
           /\ FrameInv(Top(t), clock, Len(accepted))
<1>1. stack[t] \in Seq(Frame) /\ Len(stack[t]) \in Nat \ {0}
      /\ DOMAIN stack[t] = 1 .. Len(stack[t])
  BY EmptySeq, LenProperties DEF StackInv, StackTypeOK
<1>2. Len(stack[t]) \in 1 .. Len(stack[t])
  BY <1>1
<1> QED
  BY <1>1, <1>2, ElementOfSeq DEF Top, StackInv, FramesInv

(* Ownership is kept by a step after which every frame holds a part of     *)
(* what it held and nothing new is pending.                                *)
LEMMA OwnershipShrinks ==
    ASSUME SingleOwner, PendingIds' \subseteq PendingIds,
           \A r \in Threads : \A k \in DOMAIN stack'[r] :
              k \in DOMAIN stack[r]
              /\ FrameIds(stack'[r][k]) \subseteq FrameIds(stack[r][k])
    PROVE  SingleOwner'
<1>1. ASSUME NEW r \in Threads, NEW k \in DOMAIN stack'[r]
      PROVE  FrameIds(stack'[r][k]) \cap PendingIds' = {}
  <2>1. FrameIds(stack[r][k]) \cap PendingIds = {}
    BY <1>1 DEF SingleOwner
  <2> QED
    BY <1>1, <2>1
<1>2. ASSUME NEW r \in Threads, NEW k \in DOMAIN stack'[r],
             NEW q \in Threads, NEW j \in DOMAIN stack'[q], <<r, k>> # <<q, j>>
      PROVE  FrameIds(stack'[r][k]) \cap FrameIds(stack'[q][j]) = {}
  <2>1. FrameIds(stack[r][k]) \cap FrameIds(stack[q][j]) = {}
    BY <1>2, Zenon DEF SingleOwner
  <2> QED
    BY <1>2, <2>1
<1> QED
  BY <1>1, <1>2 DEF SingleOwner

LEMMA ReplaceTop ==
    ASSUME StackInv, NEW t \in Threads, stack[t] # <<>>,
           NEW f \in Frame, FrameInv(f, clock, Len(accepted)),
           FrameIds(f) \subseteq FrameIds(Top(t)),
           SetTop(t, f), UNCHANGED <<clock, accepted, pending_samples>>
    PROVE  StackInv'
<1> DEFINE n == Len(stack[t])
<1>1. stack[t] \in Seq(Frame) /\ n \in 1 .. n /\ DOMAIN stack[t] = 1 .. n
  BY TopFrame, LenProperties DEF StackInv, StackTypeOK
<1>2. WithTop(t, f) \in Seq(Frame) /\ DOMAIN WithTop(t, f) = DOMAIN stack[t]
  BY <1>1, ExceptSeq, LenProperties DEF WithTop
<1>3. StackTypeOK'
  BY <1>2 DEF SetTop, StackInv, StackTypeOK
<1>4. ASSUME NEW r \in Threads, NEW k \in DOMAIN stack'[r]
      PROVE  /\ k \in DOMAIN stack[r]
             /\ stack'[r][k] = IF r = t /\ k = n THEN f ELSE stack[r][k]
  BY <1>1, <1>2, <1>4 DEF SetTop, WithTop, StackInv, StackTypeOK
<1>5. FramesInv'
  BY <1>4 DEF StackInv, FramesInv
<1>6. SingleOwner'
  <2>1. \A r \in Threads : \A k \in DOMAIN stack'[r] :
           k \in DOMAIN stack[r]
           /\ FrameIds(stack'[r][k]) \subseteq FrameIds(stack[r][k])
    BY <1>4 DEF Top
  <2> QED
    BY <2>1, OwnershipShrinks DEF StackInv, PendingIds
<1>7. PendingInv'
  BY DEF StackInv, PendingInv, PendingIds
<1> QED
  BY <1>3, <1>5, <1>6, <1>7 DEF StackInv

LEMMA PopTop ==
    ASSUME StackInv, NEW t \in Threads, stack[t] # <<>>,
           Pop(t), UNCHANGED <<clock, accepted, pending_samples>>
    PROVE  StackInv'
<1> DEFINE n == Len(stack[t])
           rest == SubSeq(stack[t], 1, n - 1)
<1>1. stack[t] \in Seq(Frame) /\ n \in Nat \ {0} /\ DOMAIN stack[t] = 1 .. n
  BY EmptySeq, LenProperties DEF StackInv, StackTypeOK
<1>2. /\ rest \in Seq(Frame)
      /\ Len(rest) = n - 1
      /\ \A k \in 1 .. n - 1 : rest[k] = stack[t][k]
  <2>1. \A k \in 1 .. n - 1 : stack[t][k] \in Frame
    BY <1>1, ElementOfSeq
  <2>2. /\ rest \in Seq(Frame)
        /\ Len(rest) = IF 1 <= n - 1 THEN (n - 1) - 1 + 1 ELSE 0
        /\ \A i \in 1 .. (n - 1) - 1 + 1 : rest[i] = stack[t][1 + i - 1]
    BY <1>1, <2>1, SubSeqProperties
  <2> QED
    BY <1>1, <2>2
<1>3. DOMAIN rest = 1 .. n - 1
  BY <1>2, LenProperties
<1>4. stack' = [stack EXCEPT ![t] = rest]
  BY DEF Pop
<1> HIDE DEF rest
<1>5. StackTypeOK'
  BY <1>2, <1>4 DEF StackInv, StackTypeOK
<1>6. ASSUME NEW r \in Threads, NEW k \in DOMAIN stack'[r]
      PROVE  k \in DOMAIN stack[r] /\ stack'[r][k] = stack[r][k]
  BY <1>1, <1>2, <1>3, <1>4, <1>6 DEF StackInv, StackTypeOK
<1>7. FramesInv'
  BY <1>6 DEF StackInv, FramesInv
<1>8. SingleOwner'
  BY <1>6, OwnershipShrinks DEF StackInv, PendingIds
<1>9. PendingInv'
  BY DEF StackInv, PendingInv, PendingIds
<1> QED
  BY <1>5, <1>7, <1>8, <1>9 DEF StackInv

(* The frame of a new activation owns what was pending.                    *)
LEMMA NewFrameProperties ==
    ASSUME StoreTypeOK
    PROVE  /\ NewFrame(pending_samples) \in Frame
           /\ FrameIds(NewFrame(pending_samples)) = PendingIds
           /\ NewFrame(pending_samples).now_ms = 0
           /\ NewFrame(pending_samples).pc = "clock"
           /\ NewFrame(pending_samples).grouped = NoGroups
<1>1. NoGroups \in [Geometries -> [Users -> TrafficSample \cup {NoSample}]]
  BY DEF NoGroups
<1>2. {NoGroups[g][u] : g \in Geometries, u \in Users} \ {NoSample} = {}
  BY DEF NoGroups
<1>3. Held(NewFrame(pending_samples)) = Range(pending_samples)
  BY <1>2 DEF Held, NewFrame, FrameAt
<1> QED
  BY <1>1, <1>3 DEF NewFrame, FrameAt, Frame, StoreTypeOK, FrameIds, PendingIds

LEMMA Enter ==
    ASSUME StackInv, StoreTypeOK, NEW t \in Threads, NEW frames \in Seq(Frame),
           \A k \in DOMAIN frames :
              /\ k \in DOMAIN stack[t]
              /\ FrameInv(frames[k], clock, Len(accepted))
              /\ FrameIds(frames[k]) \subseteq FrameIds(stack[t][k]),
           EnterAggregate(t, frames)
    PROVE  StackInv' /\ StoreTypeOK' /\ PendingIds' = {}
<1>1. pending_samples' = <<>> /\ UNCHANGED <<segments, accepted, clock>>
  BY DEF EnterAggregate, takePendingSamples
<1>2. StoreTypeOK'
  BY <1>1, EmptySeq DEF StoreTypeOK
<1>3. PendingIds' = {} /\ PendingInv'
  <2>1. Range(<<>>) = {}
    BY DEF Range
  <2> QED
    BY <1>1, <2>1 DEF PendingIds, PendingInv
<1> DEFINE new == NewFrame(pending_samples)
           n == Len(frames)
<1>4. n \in Nat /\ DOMAIN frames = 1 .. n
  BY LenProperties
<1>5. CASE pending_samples = <<>>
  <2>1. stack' = [stack EXCEPT ![t] = frames]
    BY <1>5 DEF EnterAggregate
  <2>2. StackTypeOK'
    BY <2>1 DEF StackInv, StackTypeOK
  <2>3. FramesInv'
    BY <1>1, <2>1 DEF StackInv, StackTypeOK, FramesInv
  <2>4. SingleOwner'
    <3>1. \A r \in Threads : \A k \in DOMAIN stack'[r] :
             k \in DOMAIN stack[r]
             /\ FrameIds(stack'[r][k]) \subseteq FrameIds(stack[r][k])
      BY <2>1 DEF StackInv, StackTypeOK
    <3> QED
      BY <3>1, <1>3, OwnershipShrinks, Zenon DEF StackInv
  <2> QED
    BY <1>2, <1>3, <2>2, <2>3, <2>4 DEF StackInv
<1>6. CASE pending_samples # <<>>
  <2>1. /\ new \in Frame
        /\ FrameIds(new) = PendingIds
        /\ new.now_ms = 0 /\ new.pc = "clock" /\ new.grouped = NoGroups
    BY NewFrameProperties
  <2> HIDE DEF new
  <2> DEFINE pushed == Append(frames, new)
  <2>2. /\ pushed \in Seq(Frame)
        /\ DOMAIN pushed = 1 .. n + 1
        /\ \A k \in 1 .. n : pushed[k] = frames[k]
        /\ pushed[n + 1] = new
    BY <2>1, AppendProperties, LenProperties
  <2>3. stack' = [stack EXCEPT ![t] = pushed]
    BY <1>6 DEF EnterAggregate, new
  <2> HIDE DEF pushed
  <2>4. StackTypeOK'
    BY <2>2, <2>3 DEF StackInv, StackTypeOK
  <2>5. FrameInv(new, clock, Len(accepted))
    BY <2>1 DEF FrameInv, StackInv, PendingInv, StoreTypeOK
  <2>6. ASSUME NEW r \in Threads, NEW k \in DOMAIN stack'[r]
        PROVE  \/ r = t /\ k = n + 1 /\ stack'[r][k] = new
               \/ /\ ~(r = t /\ k = n + 1)
                  /\ k \in DOMAIN stack[r]
                  /\ FrameInv(stack'[r][k], clock, Len(accepted))
                  /\ FrameIds(stack'[r][k]) \subseteq FrameIds(stack[r][k])
    <3>1. CASE r = t
      BY <1>4, <2>2, <2>3, <2>6, <3>1 DEF StackInv, StackTypeOK
    <3>2. CASE r # t
      BY <2>3, <2>6, <3>2 DEF StackInv, StackTypeOK, FramesInv
    <3> QED
      BY <3>1, <3>2
  <2>7. FramesInv'
    BY <1>1, <2>5, <2>6 DEF FramesInv
  <2>8. SingleOwner'
    <3>1. SUFFICES ASSUME NEW r \in Threads, NEW k \in DOMAIN stack'[r],
                          NEW q \in Threads, NEW j \in DOMAIN stack'[q],
                          <<r, k>> # <<q, j>>
                   PROVE  FrameIds(stack'[r][k]) \cap FrameIds(stack'[q][j]) = {}
      BY <1>3, Zenon DEF SingleOwner
    <3>2. CASE r = t /\ k = n + 1
      <4>1. /\ FrameIds(stack'[r][k]) = PendingIds
            /\ j \in DOMAIN stack[q]
            /\ FrameIds(stack'[q][j]) \subseteq FrameIds(stack[q][j])
        BY <2>1, <2>6, <3>1, <3>2
      <4>2. FrameIds(stack[q][j]) \cap PendingIds = {}
        BY <4>1 DEF StackInv, SingleOwner
      <4> QED
        BY <4>1, <4>2
    <3>3. CASE q = t /\ j = n + 1
      <4>1. /\ FrameIds(stack'[q][j]) = PendingIds
            /\ k \in DOMAIN stack[r]
            /\ FrameIds(stack'[r][k]) \subseteq FrameIds(stack[r][k])
        BY <2>1, <2>6, <3>1, <3>3, Zenon
      <4>2. FrameIds(stack[r][k]) \cap PendingIds = {}
        BY <4>1 DEF StackInv, SingleOwner
      <4> QED
        BY <4>1, <4>2
    <3>4. CASE ~(r = t /\ k = n + 1) /\ ~(q = t /\ j = n + 1)
      <4>1. /\ k \in DOMAIN stack[r]
            /\ FrameIds(stack'[r][k]) \subseteq FrameIds(stack[r][k])
            /\ j \in DOMAIN stack[q]
            /\ FrameIds(stack'[q][j]) \subseteq FrameIds(stack[q][j])
        BY <2>6, <3>4, Zenon
      <4>2. FrameIds(stack[r][k]) \cap FrameIds(stack[q][j]) = {}
        BY <3>1, <4>1, Zenon DEF StackInv, SingleOwner
      <4> QED
        BY <4>1, <4>2
    <3> QED
      BY <3>2, <3>3, <3>4
  <2> QED
    BY <1>2, <1>3, <2>4, <2>7, <2>8 DEF StackInv
<1> QED
  BY <1>5, <1>6

-----------------------------------------------------------------------------
(* The steps of an activation.                                             *)

LEMMA WithSampleProperties ==
    ASSUME NEW G \in [Geometries -> [Users -> TrafficSample \cup {NoSample}]],
           NEW g, NEW s \in TrafficSample
    PROVE  /\ WithSample(G, g, s) \in [Geometries -> [Users -> TrafficSample \cup {NoSample}]]
           /\ \A h \in Geometries, u \in Users :
                WithSample(G, g, s)[h][u] \in {G[h][u], s}
<1> DEFINE L == Latest(G[g][s.user_id], s)
           row == [G[g] EXCEPT ![s.user_id] = L]
<1>1. L \in {G[g][s.user_id], s} /\ s.user_id \in Users
  BY DEF Latest, TrafficSample
<1>2. WithSample(G, g, s) = [G EXCEPT ![g] = row]
  BY DEF WithSample
<1>3. CASE g \in Geometries
  <2>1. row \in [Users -> TrafficSample \cup {NoSample}]
        /\ \A u \in Users : row[u] \in {G[g][u], s}
    BY <1>1, <1>3
  <2> HIDE DEF row
  <2> QED
    BY <1>2, <1>3, <2>1
<1>4. CASE g \notin Geometries
  <2>1. WithSample(G, g, s) = G
    BY <1>2, <1>4
  <2> QED
    BY <2>1
<1> QED
  BY <1>3, <1>4

(* Holding fewer samples means holding fewer ids.                          *)
LEMMA HeldShrinks ==
    ASSUME NEW f, NEW h,
           Range(f.samples) \subseteq Range(h.samples),
           \A g \in Geometries, u \in Users :
              f.grouped[g][u] # NoSample =>
                 f.grouped[g][u] = h.grouped[g][u] \/ f.grouped[g][u] \in Range(h.samples)
    PROVE  FrameIds(f) \subseteq FrameIds(h)
<1>1. Held(f) \subseteq Held(h)
  BY DEF Held
<1> QED
  BY <1>1 DEF FrameIds

LEMMA AggregatePreserves ==
    ASSUME StackInv, StoreTypeOK, NEW t \in Threads, AggregateStep(t)
    PROVE  /\ StackInv' /\ StoreTypeOK'
           /\ PendingIds' \subseteq PendingIds
           /\ UNCHANGED <<accepted, clock>>
<1> DEFINE top == Top(t)
<1>1. stack[t] # <<>>
  BY Zenon DEF AggregateStep, ReadClock, SnapSample, GroupSample, Publish, SweepClock, Sweep,
         Snapped, Running
<1>2. /\ top \in Frame
      /\ Len(stack[t]) \in DOMAIN stack[t]
      /\ FrameInv(top, clock, Len(accepted))
  BY <1>1, TopFrame
<1>3. /\ top.samples \in Seq(TrafficSample)
      /\ top.now_ms \in Nat
      /\ top.grouped \in [Geometries -> [Users -> TrafficSample \cup {NoSample}]]
      /\ clock \in Nat
      /\ <<>> \in Seq(TrafficSample)
      /\ Range(<<>>) = {}
  BY <1>2, EmptySeq DEF Frame, StoreTypeOK, Range
<1> HIDE DEF top
<1>4. ASSUME NEW pc \in {"snap", "group", "sweep"}, NEW samples \in Seq(TrafficSample),
             NEW now \in Nat,
             NEW G \in [Geometries -> [Users -> TrafficSample \cup {NoSample}]],
             Range(samples) \subseteq Range(top.samples),
             \A g \in Geometries, u \in Users : G[g][u] # NoSample =>
                G[g][u] = top.grouped[g][u] \/ G[g][u] \in Range(top.samples)
      PROVE  /\ FrameAt(pc, samples, now, G) \in Frame
             /\ FrameIds(FrameAt(pc, samples, now, G)) \subseteq FrameIds(top)
             /\ FrameIds(FrameAt(pc, samples, now, G)) \subseteq 1 .. Len(accepted)
  <2> DEFINE f == FrameAt(pc, samples, now, G)
  <2>1. f \in Frame /\ f.samples = samples /\ f.grouped = G
    BY <1>4 DEF FrameAt, Frame
  <2>2. FrameIds(f) \subseteq FrameIds(top)
    BY <1>4, <2>1, HeldShrinks
  <2> QED
    BY <1>2, <2>1, <2>2 DEF FrameInv
<1>5. ASSUME UNCHANGED storeVars
      PROVE  StoreTypeOK' /\ PendingIds' = PendingIds /\ UNCHANGED <<accepted, clock, pending_samples>>
  BY <1>5 DEF storeVars, StoreTypeOK, PendingIds
<1>6. CASE ReadClock(t)
  <2> DEFINE f == FrameAt("snap", top.samples, clock, top.grouped)
  <2>1. f \in Frame /\ FrameIds(f) \subseteq FrameIds(top) /\ FrameIds(f) \subseteq 1 .. Len(accepted)
    BY <1>3, <1>4
  <2>2. top.grouped = NoGroups
    BY <1>2, <1>6 DEF ReadClock, Running, FrameInv, top
  <2>3. FrameInv(f, clock, Len(accepted))
    BY <1>3, <2>1, <2>2 DEF FrameInv, FrameAt, NoGroups
  <2>4. SetTop(t, f) /\ UNCHANGED storeVars
    BY <1>6 DEF ReadClock, top
  <2> HIDE DEF f
  <2> QED
    BY <1>1, <1>5, <2>1, <2>3, <2>4, ReplaceTop DEF top
<1>7. CASE SnapSample(t)
  <2> DEFINE sample == Head(top.samples)
  <2>1. top.samples # <<>> /\ top.pc = "snap"
    BY <1>7 DEF SnapSample, Running, top
  <2>2. sample \in TrafficSample /\ Tail(top.samples) \in Seq(TrafficSample)
        /\ Range(Tail(top.samples)) \subseteq Range(top.samples)
    BY <1>3, <2>1, HeadTailProperties, RangeTail
  <2>3. CASE TooOld(sample, top.now_ms) \/ Snap[sample.coordinate] = NoRoad
    <3> DEFINE f == FrameAt("snap", Tail(top.samples), top.now_ms, top.grouped)
    <3>1. f \in Frame /\ FrameIds(f) \subseteq FrameIds(top) /\ FrameIds(f) \subseteq 1 .. Len(accepted)
      BY <1>3, <1>4, <2>2, Zenon
    <3>2. FrameInv(f, clock, Len(accepted))
      BY <1>2, <2>1, <3>1, Zenon DEF FrameInv, FrameAt
    <3>3. SetTop(t, f) /\ UNCHANGED storeVars
      BY <1>7, <2>3 DEF SnapSample, top
    <3> HIDE DEF f
    <3> QED
      BY <1>1, <1>5, <3>1, <3>2, <3>3, ReplaceTop DEF top
  <2>4. CASE ~(TooOld(sample, top.now_ms) \/ Snap[sample.coordinate] = NoRoad)
    <3> DEFINE f == FrameAt("group", top.samples, top.now_ms, top.grouped)
    <3>1. f \in Frame /\ FrameIds(f) \subseteq FrameIds(top) /\ FrameIds(f) \subseteq 1 .. Len(accepted)
      BY <1>3, <1>4
    <3>2. FrameInv(f, clock, Len(accepted))
      BY <1>2, <2>1, <2>4, <3>1 DEF FrameInv, FrameAt
    <3>3. EnterAggregate(t, WithTop(t, f))
      BY <1>7, <2>4 DEF SnapSample, top
    <3> HIDE DEF f
    <3>4. stack[t] \in Seq(Frame) /\ Len(stack[t]) \in 1 .. Len(stack[t])
      BY <1>2, LenProperties DEF StackInv, StackTypeOK
    <3>5. /\ WithTop(t, f) \in Seq(Frame)
          /\ DOMAIN WithTop(t, f) = DOMAIN stack[t]
      BY <3>1, <3>4, ExceptSeq, LenProperties DEF WithTop
    <3>6. \A k \in DOMAIN WithTop(t, f) :
             /\ k \in DOMAIN stack[t]
             /\ FrameInv(WithTop(t, f)[k], clock, Len(accepted))
             /\ FrameIds(WithTop(t, f)[k]) \subseteq FrameIds(stack[t][k])
      BY <3>1, <3>2, <3>5 DEF WithTop, StackInv, FramesInv, top, Top
    <3>7. StackInv' /\ StoreTypeOK' /\ PendingIds' = {}
      BY <3>3, <3>5, <3>6, Enter
    <3> QED
      BY <3>3, <3>7 DEF EnterAggregate, takePendingSamples
  <2> QED
    BY <2>3, <2>4
<1>8. CASE GroupSample(t)
  <2> DEFINE sample == Head(top.samples)
             G == IF Snap[sample.coordinate] = ReverseOnly
                    THEN top.grouped
                    ELSE WithSample(top.grouped, Snap[sample.coordinate], sample)
             f == FrameAt("snap", Tail(top.samples), top.now_ms, G)
  <2>1. top.pc = "group" /\ top.samples # <<>>
    BY <1>2, <1>8 DEF GroupSample, Running, FrameInv, top
  <2>2. /\ sample \in TrafficSample /\ sample \in Range(top.samples)
        /\ Tail(top.samples) \in Seq(TrafficSample)
        /\ Range(Tail(top.samples)) \subseteq Range(top.samples)
    BY <1>3, <2>1, HeadTailProperties, RangeTail
  <2>3. /\ G \in [Geometries -> [Users -> TrafficSample \cup {NoSample}]]
        /\ \A g \in Geometries, u \in Users : G[g][u] \in {top.grouped[g][u], sample}
    BY <1>3, <2>2, WithSampleProperties
  <2>4. SetTop(t, f) /\ UNCHANGED storeVars
    BY <1>8 DEF GroupSample, top
  <2>5. ~TooOld(sample, top.now_ms)
    BY <1>2, <2>1 DEF FrameInv
  <2> HIDE DEF sample, G
  <2>6. f \in Frame /\ FrameIds(f) \subseteq FrameIds(top) /\ FrameIds(f) \subseteq 1 .. Len(accepted)
    BY <1>3, <1>4, <2>2, <2>3, Zenon
  <2>7. FrameInv(f, clock, Len(accepted))
    BY <1>2, <2>1, <2>3, <2>5, <2>6, Zenon DEF FrameInv, FrameAt
  <2> HIDE DEF f
  <2> QED
    BY <1>1, <1>5, <2>4, <2>6, <2>7, ReplaceTop DEF top
<1>9. ASSUME NEW g \in Geometries, Publish(t, g)
      PROVE  StackInv' /\ StoreTypeOK' /\ PendingIds' = PendingIds /\ UNCHANGED <<accepted, clock>>
  <2> DEFINE G == [top.grouped EXCEPT ![g] = NoGroups[g]]
             f == FrameAt("snap", <<>>, top.now_ms, G)
             us == top.grouped[g]
  <2>1. /\ top.pc = "snap"
        /\ us \in [Users -> TrafficSample \cup {NoSample}]
        /\ UsersOf(us) # {}
        /\ update(g, EdgeData(us)) /\ UNCHANGED clock
        /\ SetTop(t, f)
    BY <1>3, <1>9 DEF Publish, Snapped, Running, top
  <2>2. /\ G \in [Geometries -> [Users -> TrafficSample \cup {NoSample}]]
        /\ \A h \in Geometries, u \in Users :
             G[h][u] # NoSample => G[h][u] = top.grouped[h][u]
    BY <1>3 DEF NoGroups
  <2> HIDE DEF G
  <2>3. f \in Frame /\ FrameIds(f) \subseteq FrameIds(top) /\ FrameIds(f) \subseteq 1 .. Len(accepted)
    BY <1>3, <1>4, <2>2, Zenon
  <2>4. FrameInv(f, clock, Len(accepted))
    BY <1>2, <2>1, <2>2, <2>3 DEF FrameInv, FrameAt
  <2> HIDE DEF f
  <2>5. UNCHANGED <<accepted, clock, pending_samples>>
    BY <2>1 DEF update
  <2>6. StackInv'
    BY <1>1, <2>1, <2>3, <2>4, <2>5, ReplaceTop, Zenon DEF top
  <2>7. EdgeData(us).timestamp_ms \in Nat /\ EdgeData(us).sample_count \in Nat \ {0}
    BY <2>1, EdgeDataProperties
  <2>8. StoreTypeOK'
    BY <2>1, <2>5, <2>7 DEF update, StoreTypeOK
  <2> QED
    BY <2>5, <2>6, <2>8 DEF PendingIds
<1>10. CASE SweepClock(t)
  <2> DEFINE f == FrameAt("sweep", <<>>, clock, top.grouped)
  <2>1. f \in Frame /\ FrameIds(f) \subseteq FrameIds(top) /\ FrameIds(f) \subseteq 1 .. Len(accepted)
    BY <1>3, <1>4, Zenon
  <2>2. FrameInv(f, clock, Len(accepted))
    BY <1>3, <2>1 DEF FrameInv, FrameAt
  <2>3. SetTop(t, f) /\ UNCHANGED storeVars
    BY <1>10 DEF SweepClock, top
  <2> HIDE DEF f
  <2> QED
    BY <1>1, <1>5, <2>1, <2>2, <2>3, ReplaceTop DEF top
<1>11. CASE Sweep(t)
  <2>1. Pop(t) /\ UNCHANGED <<accepted, clock, pending_samples>>
    BY <1>11 DEF Sweep, removeStaleSegments
  <2>2. StackInv'
    BY <1>1, <2>1, PopTop
  <2>3. StoreTypeOK'
    BY <1>11, <2>1 DEF Sweep, removeStaleSegments, StoreTypeOK
  <2> QED
    BY <2>1, <2>2, <2>3 DEF PendingIds
<1> QED
  BY <1>6, <1>7, <1>8, <1>9, <1>10, <1>11 DEF AggregateStep

-----------------------------------------------------------------------------
(* The receive thread.                                                     *)

LEMMA StampedType ==
    ASSUME StoreTypeOK, NEW d \in Datagrams
    PROVE  [i \in DOMAIN d.packets |-> Stamped(d.packets[i])] \in Seq(Packet)
<1> DEFINE raw == [has_coords : BOOLEAN, user_id : Users, coordinate : Coordinates,
                   speed_kmh : Int \cup {NaN}, age : Int \cup {NoTimestamp}]
           n == Len(d.packets)
           out == [i \in 1 .. n |-> Stamped(d.packets[i])]
<1>1. d.packets \in Seq(raw)
  BY DatagramsAssumption, Zenon
<1>2. n \in Nat /\ DOMAIN d.packets = 1 .. n /\ \A i \in 1 .. n : d.packets[i] \in raw
  BY <1>1, LenProperties, ElementOfSeq, Zenon
<1>3. \A i \in 1 .. n : Stamped(d.packets[i]) \in Packet
  BY <1>2 DEF Stamped, Packet, StoreTypeOK
<1>4. out \in Seq(Packet)
  BY <1>2, <1>3
<1> QED
  BY <1>2, <1>4

(* A packet either changes nothing in the store or adds one sample, which  *)
(* carries the next id.                                                    *)
LEMMA ConsumeProperties ==
    ASSUME StoreTypeOK, ReceiverTypeOK, ConsumePacket
    PROVE  /\ StoreTypeOK' /\ ReceiverTypeOK' /\ UNCHANGED clock
           /\ \/ UNCHANGED <<pending_samples, accepted>>
              \/ /\ Len(accepted') = Len(accepted) + 1
                 /\ PendingIds' = PendingIds \cup {Len(accepted) + 1}
<1>1. datagram \in Remainder /\ datagram.packets \in Seq(Packet) /\ datagram.packets # <<>>
  BY DEF ConsumePacket, ReceiverTypeOK, Remainder
<1> DEFINE pkt == Head(datagram.packets)
           sample == SampleOf(pkt)
<1>2. pkt \in Packet /\ Tail(datagram.packets) \in Seq(Packet)
  BY <1>1, HeadTailProperties
<1>3. Len(accepted) \in Nat /\ sample \in TrafficSample /\ sample.id = Len(accepted) + 1
  BY <1>2, LenProperties DEF SampleOf, Packet, TrafficSample, StoreTypeOK
<1>4. UNCHANGED clock
  BY DEF ConsumePacket
<1>5. ReceiverTypeOK'
  BY <1>1, <1>2 DEF ConsumePacket, Consumed, Remainder, ReceiverTypeOK, counters
<1>6. UNCHANGED <<pending_samples, segments, accepted>> \/ addSample(sample)
  BY DEF ConsumePacket, processPacket
<1> HIDE DEF sample
<1>7. CASE UNCHANGED <<pending_samples, segments, accepted>>
  BY <1>4, <1>5, <1>7 DEF StoreTypeOK
<1>8. CASE addSample(sample)
  <2>1. /\ pending_samples' = Append(pending_samples, sample)
        /\ accepted' = Append(accepted, sample)
        /\ UNCHANGED segments
    BY <1>8 DEF addSample
  <2>2. /\ pending_samples' \in Seq(TrafficSample) /\ accepted' \in Seq(TrafficSample)
        /\ Len(accepted') = Len(accepted) + 1
    BY <1>3, <2>1, AppendProperties DEF StoreTypeOK
  <2>3. StoreTypeOK'
    BY <1>4, <2>1, <2>2 DEF StoreTypeOK
  <2>4. Range(pending_samples') = Range(pending_samples) \cup {sample}
    BY <1>3, <2>1, RangeAppend DEF StoreTypeOK
  <2>5. PendingIds' = PendingIds \cup {Len(accepted) + 1}
    BY <1>3, <2>4 DEF PendingIds
  <2> QED
    BY <1>4, <1>5, <2>2, <2>3, <2>5
<1> QED
  BY <1>6, <1>7, <1>8

-----------------------------------------------------------------------------
(* The invariant.                                                          *)

Places == {"idle", "traffic", "phantom", "annotate", "all", "forward", "reverse", "path"}

RequestTypeOK ==
    /\ request \in [Threads -> [at : Places, phantoms : Nat]]
    /\ began \in [Threads -> [clock : Nat, accepted : Nat]]

(* TypeOK in the parts the steps keep separately.                          *)
LEMMA TypeParts ==
    IInv <=> /\ StoreTypeOK /\ ReceiverTypeOK /\ StackInv
             /\ delivered \in Nat /\ RequestTypeOK /\ PendingAreNewer
<1>1. FramesInv => \A t \in Threads : \A k \in DOMAIN stack[t] :
                      stack[t][k].pc = "group" => stack[t][k].samples # <<>>
  BY DEF FramesInv, FrameInv
<1> QED
  BY <1>1 DEF IInv, TypeOK, StackInv, StackTypeOK, RequestTypeOK, Places

LEMMA TypePartsNext ==
    ASSUME StoreTypeOK', ReceiverTypeOK', StackInv', (delivered \in Nat)',
           RequestTypeOK', PendingAreNewer'
    PROVE  IInv'
<1>1. FramesInv' => (\A t \in Threads : \A k \in DOMAIN stack[t] :
                       stack[t][k].pc = "group" => stack[t][k].samples # <<>>)'
  BY DEF FramesInv, FrameInv
<1> QED
  BY <1>1 DEF IInv, TypeOK, StackInv, StackTypeOK, RequestTypeOK, Places

LEMMA InitEstablishes == Init => IInv
<1> SUFFICES ASSUME Init PROVE IInv
  OBVIOUS
<1> USE DEF Init
<1>1. /\ pending_samples = <<>> /\ accepted = <<>> /\ clock = StartMs
      /\ segments = [g \in {} |-> g] /\ stack = [t \in Threads |-> <<>>]
  BY DEF StoreInit, AggregatorInit
<1>2. StoreTypeOK
  BY <1>1, EmptySeq, StartMsAssumption DEF StoreTypeOK
<1>3. ReceiverTypeOK
  BY DEF ReceiverInit, ReceiverTypeOK
<1>4. PendingIds = {}
  BY <1>1 DEF PendingIds, Range
<1>5. StackInv
  <2>1. \A t \in Threads : stack[t] \in Seq(Frame) /\ DOMAIN stack[t] = {}
    BY <1>1, EmptySeq
  <2> QED
    BY <1>1, <1>4, <2>1 DEF StackInv, StackTypeOK, FramesInv, SingleOwner, PendingInv
<1>6. delivered \in Nat /\ RequestTypeOK
  BY DEF RequestTypeOK, Places, NotBegan
<1>7. PendingAreNewer
  BY <1>1, <1>4, EmptySeq DEF PendingAreNewer, NotBegan
<1> QED
  BY <1>2, <1>3, <1>5, <1>6, <1>7, TypeParts

LEMMA NextPreserves == IInv /\ [Next]_vars => IInv'
<1> SUFFICES ASSUME IInv, [Next]_vars PROVE IInv'
  OBVIOUS
<1>1. /\ StoreTypeOK /\ ReceiverTypeOK /\ StackInv
      /\ delivered \in Nat /\ RequestTypeOK /\ PendingAreNewer
  BY TypeParts
<1>2. Len(accepted) \in Nat
  BY <1>1, LenProperties DEF StoreTypeOK
<1>s. ASSUME UNCHANGED storeVars
      PROVE  StoreTypeOK' /\ PendingIds' = PendingIds /\ Len(accepted') = Len(accepted)
  BY <1>1, <1>s DEF storeVars, StoreTypeOK, PendingIds
<1>r. ASSUME UNCHANGED receiverVars PROVE ReceiverTypeOK'
  BY <1>1, <1>r DEF receiverVars, counters, ReceiverTypeOK
<1>k. ASSUME UNCHANGED <<stack, storeVars>> PROVE StackInv'
  BY <1>1, <1>k, StackKept DEF storeVars
<1>q. ASSUME UNCHANGED requestVars PROVE RequestTypeOK'
  BY <1>1, <1>q DEF requestVars, RequestTypeOK
<1>n. ASSUME UNCHANGED requestVars, PendingIds' \subseteq PendingIds,
             Len(accepted') = Len(accepted)
      PROVE  PendingAreNewer'
  BY <1>1, <1>n DEF requestVars, PendingAreNewer
<1>3. CASE Tick
  <2>1. clock' \in Nat /\ clock <= clock' /\ UNCHANGED <<pending_samples, segments, accepted>>
    BY <1>1, <1>3, TickMsAssumption DEF Tick, StoreTypeOK
  <2>2. StoreTypeOK' /\ PendingIds' = PendingIds
    BY <1>1, <2>1 DEF StoreTypeOK, PendingIds
  <2>3. FramesInv'
    <3>1. ASSUME NEW t \in Threads, NEW k \in DOMAIN stack[t]
          PROVE  FrameInv(stack[t][k], clock', Len(accepted))
      <4>1. stack[t][k] \in Frame /\ FrameInv(stack[t][k], clock, Len(accepted))
        BY <1>1, <3>1, ElementOfSeq, LenProperties DEF StackInv, StackTypeOK, FramesInv
      <4>2. stack[t][k].now_ms \in Nat /\ clock \in Nat
        BY <1>1, <4>1 DEF Frame, StoreTypeOK
      <4>3. stack[t][k].now_ms <= clock'
        BY <2>1, <4>1, <4>2, SMTT(30) DEF FrameInv
      <4> QED
        BY <4>1, <4>3 DEF FrameInv
    <3> QED
      BY <1>3, <2>1, <3>1 DEF Tick, FramesInv
  <2>4. StackInv'
    BY <1>1, <1>3, <2>1, <2>2, <2>3 DEF Tick, StackInv, StackTypeOK, SingleOwner, PendingInv
  <2> QED
    BY <1>1, <1>3, <1>r, <1>q, <1>n, <2>1, <2>2, <2>4, TypePartsNext DEF Tick
<1>4. CASE Deliver
  <2>1. PICK d \in Datagrams :
           RecvDatagram([i \in DOMAIN d.packets |-> Stamped(d.packets[i])], d.malformed)
    BY <1>4 DEF Deliver
  <2> DEFINE packets == [i \in DOMAIN d.packets |-> Stamped(d.packets[i])]
  <2>2. packets \in Seq(Packet) /\ d.malformed \in BOOLEAN
    BY <1>1, StampedType, DatagramsAssumption
  <2> HIDE DEF packets
  <2>3. ReceiverTypeOK' /\ UNCHANGED storeVars
    BY <1>1, <2>1, <2>2 DEF RecvDatagram, ReceiverTypeOK, Remainder, counters, packets
  <2>4. delivered' \in Nat
    BY <1>1, <1>4 DEF Deliver
  <2> QED
    BY <1>4, <1>s, <1>k, <1>q, <1>n, <2>3, <2>4, TypePartsNext DEF Deliver
<1>5. CASE Receive
  <2>1. UNCHANGED <<stack, delivered, requestVars>>
    BY <1>5 DEF Receive
  <2>2. CASE BatchDone
    <3>1. ParsedCount \in Nat
      BY <1>1, <2>2 DEF BatchDone, ParsedCount, ReceiverTypeOK, Remainder
    <3>2. ReceiverTypeOK' /\ UNCHANGED storeVars
      BY <1>1, <2>2, <3>1 DEF BatchDone, ReceiverTypeOK
    <3> QED
      BY <1>1, <1>s, <1>k, <1>q, <1>n, <2>1, <3>2, TypePartsNext
  <2>3. CASE ConsumePacket
    <3>1. /\ StoreTypeOK' /\ ReceiverTypeOK' /\ UNCHANGED clock
          /\ \/ UNCHANGED <<pending_samples, accepted>>
             \/ /\ Len(accepted') = Len(accepted) + 1
                /\ PendingIds' = PendingIds \cup {Len(accepted) + 1}
      BY <1>1, <2>3, ConsumeProperties
    <3>2. CASE UNCHANGED <<pending_samples, accepted>>
      <4>1. StackInv' /\ PendingIds' = PendingIds
        BY <1>1, <2>1, <3>1, <3>2, StackKept
      <4> QED
        BY <1>1, <1>q, <1>n, <2>1, <3>1, <3>2, <4>1, TypePartsNext
    <3>3. CASE /\ Len(accepted') = Len(accepted) + 1
               /\ PendingIds' = PendingIds \cup {Len(accepted) + 1}
      <4> DEFINE n == Len(accepted)
      <4>a. 1 .. n \subseteq 1 .. n + 1 /\ n + 1 \in 1 .. n + 1 /\ n + 1 \notin 1 .. n
        BY <1>2
      <4>1. PendingInv'
        <5>1. PendingIds \subseteq 1 .. n
          BY <1>1 DEF StackInv, PendingInv
        <5> QED
          BY <3>3, <4>a, <5>1, Zenon DEF PendingInv
      <4>2. ASSUME NEW t \in Threads, NEW k \in DOMAIN stack[t]
            PROVE  /\ FrameInv(stack[t][k], clock, Len(accepted) + 1)
                   /\ Len(accepted) + 1 \notin FrameIds(stack[t][k])
        <5>1. FrameInv(stack[t][k], clock, n)
          BY <1>1, <4>2 DEF StackInv, FramesInv
        <5>2. FrameIds(stack[t][k]) \subseteq 1 .. n
          BY <5>1 DEF FrameInv
        <5>3. FrameIds(stack[t][k]) \subseteq 1 .. n + 1
          BY <4>a, <5>2
        <5> QED
          BY <4>a, <5>1, <5>2, <5>3 DEF FrameInv
      <4>3. FramesInv'
        <5>1. \A t \in Threads : \A k \in DOMAIN stack'[t] :
                 FrameInv(stack'[t][k], clock', Len(accepted'))
          BY <2>1, <3>1, <3>3, <4>2
        <5> QED
          BY <5>1 DEF FramesInv
      <4>4. SingleOwner'
        <5>1. \A t \in Threads : \A k \in DOMAIN stack[t] :
                 FrameIds(stack[t][k]) \cap PendingIds' = {}
          BY <1>1, <3>3, <4>2 DEF StackInv, SingleOwner
        <5> QED
          BY <1>1, <2>1, <5>1 DEF StackInv, SingleOwner
      <4>5. StackInv'
        BY <1>1, <2>1, <4>1, <4>3, <4>4 DEF StackInv, StackTypeOK
      <4>6. PendingAreNewer'
        BY <1>1, <1>2, <2>1, <3>3 DEF requestVars, PendingAreNewer, RequestTypeOK
      <4> QED
        BY <1>1, <1>q, <2>1, <3>1, <4>5, <4>6, TypePartsNext
    <3> QED
      BY <3>1, <3>2, <3>3
  <2> QED
    BY <1>5, <2>2, <2>3 DEF Receive
<1>6. ASSUME NEW t \in Threads, NEW pc \in {"traffic", "phantom"}, NEW n \in Nat,
             Begin(t, pc, n)
      PROVE  IInv'
  <2>1. RequestTypeOK'
    BY <1>1, <1>2, <1>6 DEF Begin, At, RequestTypeOK, Places, StoreTypeOK
  <2>2. PendingAreNewer'
    BY <1>1, <1>2, <1>6, <1>s DEF Begin, At, RequestTypeOK, PendingAreNewer
  <2> QED
    BY <1>1, <1>6, <1>s, <1>r, <1>k, <2>1, <2>2, TypePartsNext DEF Begin
<1>7. ASSUME NEW t \in Threads, NEW from, NEW to \in {"all", "forward", "path"},
             CallAggregate(t, from, to)
      PROVE  IInv'
  <2>1. \A k \in DOMAIN <<>> :
           /\ k \in DOMAIN stack[t]
           /\ FrameInv(<<>>[k], clock, Len(accepted))
           /\ FrameIds(<<>>[k]) \subseteq FrameIds(stack[t][k])
    OBVIOUS
  <2>2. StackInv' /\ StoreTypeOK' /\ PendingIds' = {}
    BY <1>1, <1>7, <2>1, Enter, EmptySeq, Zenon DEF CallAggregate
  <2>3. UNCHANGED <<accepted, began, delivered, receiverVars>>
    BY <1>7 DEF CallAggregate, EnterAggregate, takePendingSamples
  <2>4. RequestTypeOK'
    BY <1>1, <1>7, <2>3, Zenon DEF CallAggregate, RequestTypeOK, Places
  <2>5. PendingAreNewer'
    BY <1>1, <2>2, <2>3 DEF PendingAreNewer
  <2> QED
    BY <1>1, <1>r, <2>2, <2>3, <2>4, <2>5, TypePartsNext
<1>8. ASSUME NEW t \in Threads, Aggregate(t)
      PROVE  IInv'
  <2>1. /\ StackInv' /\ StoreTypeOK'
        /\ PendingIds' \subseteq PendingIds
        /\ UNCHANGED <<accepted, clock>>
    BY <1>1, <1>8, AggregatePreserves DEF Aggregate
  <2> QED
    BY <1>1, <1>8, <1>r, <1>q, <1>n, <2>1, TypePartsNext DEF Aggregate
<1>9. ASSUME NEW t \in Threads, NEW from \in {"all", "forward", "reverse", "path"},
             NEW next \in [at : Places, phantoms : Nat],
             next.at \in {"idle", "reverse", "phantom", "annotate"},
             Read(t, from, next)
      PROVE  IInv'
  <2>1. RequestTypeOK'
    BY <1>1, <1>9 DEF Read, RequestTypeOK, NotBegan
  <2>2. PendingAreNewer'
    <3>1. PendingIds' = PendingIds /\ Len(accepted') = Len(accepted)
      BY <1>9, <1>s DEF Read
    <3>2. ASSUME NEW r \in Threads
          PROVE  /\ began'[r].accepted <= Len(accepted)
                 /\ request'[r].at \in {"all", "forward", "reverse", "path"} =>
                      \A id \in PendingIds : id > began'[r].accepted
      BY <1>1, <1>2, <1>9 DEF Read, RequestTypeOK, PendingAreNewer, NotBegan
    <3> QED
      BY <3>1, <3>2 DEF PendingAreNewer
  <2> QED
    BY <1>1, <1>9, <1>s, <1>r, <1>k, <2>1, <2>2, TypePartsNext DEF Read
<1>10. CASE UNCHANGED vars
  BY <1>1, <1>10, <1>s, <1>r, <1>k, <1>q, <1>n, TypePartsNext DEF vars
<1>11. ASSUME NEW t \in Threads, BeginTraffic(t) \/ BeginRoute(t)
       PROVE  IInv'
  BY <1>6, <1>11 DEF BeginTraffic, BeginRoute
<1>12. ASSUME NEW t \in Threads,
              TrafficAggregate(t) \/ PhantomAggregate(t) \/ AnnotateAggregate(t)
       PROVE  IInv'
  BY <1>7, <1>12 DEF TrafficAggregate, PhantomAggregate, AnnotateAggregate
<1>13. ASSUME NEW t \in Threads, TrafficRead(t) \/ AnnotateRead(t)
       PROVE  IInv'
  <2>1. At("idle", 0) \in [at : Places, phantoms : Nat] /\ At("idle", 0).at = "idle"
    BY DEF At, Places
  <2> QED
    BY <1>9, <1>13, <2>1 DEF TrafficRead, AnnotateRead
<1>14. ASSUME NEW t \in Threads, PhantomForward(t)
       PROVE  IInv'
  <2>1. /\ At("reverse", request[t].phantoms) \in [at : Places, phantoms : Nat]
        /\ At("reverse", request[t].phantoms).at = "reverse"
    BY <1>1 DEF At, Places, RequestTypeOK
  <2> QED
    BY <1>9, <1>14, <2>1 DEF PhantomForward
<1>15. ASSUME NEW t \in Threads, PhantomReverse(t)
       PROVE  IInv'
  <2> DEFINE next == IF request[t].phantoms > 1
                       THEN At("phantom", request[t].phantoms - 1)
                       ELSE At("annotate", 0)
  <2>1. next \in [at : Places, phantoms : Nat] /\ next.at \in {"phantom", "annotate"}
    BY <1>1 DEF At, Places, RequestTypeOK
  <2>2. Read(t, "reverse", next)
    BY <1>15 DEF PhantomReverse
  <2> HIDE DEF next
  <2> QED
    BY <1>9, <2>1, <2>2
<1> QED
  BY <1>3, <1>4, <1>5, <1>8, <1>10, <1>11, <1>12, <1>13, <1>14, <1>15 DEF Next, WorkOn

(* The inductive invariant holds in every reachable state.                 *)
THEOREM Inductive == Spec => []IInv
BY InitEstablishes, NextPreserves, PTL DEF Spec

-----------------------------------------------------------------------------
(* What follows from the invariant.                                        *)

(* Store, receiver, frames and requests keep their types.                  *)
THEOREM TypeCorrect == Spec => []TypeOK
<1>1. IInv => TypeOK
  BY DEF IInv
<1> QED
  BY <1>1, Inductive, PTL

(* takePendingSamples hands every sample to one activation only, however   *)
(* many threads aggregate and however deep an aggregation nests.           *)
THEOREM SampleOwnership == Spec => []SingleOwner
<1>1. IInv => SingleOwner
  BY DEF IInv
<1> QED
  BY <1>1, Inductive, PTL

(* With one request thread, what a request reads from the store reflects   *)
(* every sample accepted before the request began.                         *)
THEOREM OneWorkerReflectsSamples ==
    ASSUME NEW w, Threads = {w}
    PROVE  Spec => []AnswersReflectEarlierSamples
<1>1. ASSUME IInv PROVE AnswersReflectEarlierSamples
  <2>1. SUFFICES ASSUME NEW t \in Threads, Reading(t), NEW id \in PendingIds \cup InFlight
                 PROVE  id > began[t].accepted
    BY DEF AnswersReflectEarlierSamples
  <2>2. InFlight = {}
    BY <2>1 DEF InFlight, Reading
  <2> QED
    BY <1>1, <2>1, <2>2 DEF IInv, PendingAreNewer, Reading
<1> QED
  BY <1>1, Inductive, PTL

(* A sweep removes a record only if it is too old by the present clock,    *)
(* although removeStaleSegments compares with a clock value read earlier.  *)
THEOREM SweepsRemoveOnlyStale == Spec => OnlyStaleRemoved
<1> DEFINE A == \A g \in DOMAIN segments \ DOMAIN segments' :
                  clock - segments[g].timestamp_ms > 1000 * StaleSeconds
<1>1. ASSUME IInv, [Next]_vars PROVE [A]_vars
  <2>1. CASE segments' = segments
    BY <2>1
  <2>2. ASSUME NEW t \in Threads, NEW g \in Geometries, Publish(t, g) PROVE A
    BY <2>2 DEF Publish, update
  <2>3. ASSUME NEW t \in Threads, Sweep(t) PROVE A
    <3>1. Top(t) \in Frame /\ Top(t).now_ms <= clock
      BY <1>1, <2>3, TypeParts, TopFrame, Zenon DEF Sweep, Running, FrameInv
    <3>2. Top(t).now_ms \in Nat /\ clock \in Nat /\ StaleSeconds \in Nat
          /\ \A g \in DOMAIN segments : segments[g].timestamp_ms \in Nat
      BY <1>1, <3>1, TypeParts, StaleSecondsAssumption DEF Frame, StoreTypeOK
    <3>3. SUFFICES ASSUME NEW g \in DOMAIN segments \ DOMAIN segments'
                   PROVE  clock - segments[g].timestamp_ms > 1000 * StaleSeconds
      OBVIOUS
    <3>4. Top(t).now_ms - segments[g].timestamp_ms > StaleSeconds * 1000
      BY <2>3, <3>3 DEF Sweep, removeStaleSegments, IsStale, MaxAgeMs
    <3> QED
      BY <3>1, <3>2, <3>3, <3>4
  <2> QED
    BY <1>1, <2>1, <2>2, <2>3, Zenon
       DEF Next, Tick, Deliver, RecvDatagram, Receive, BatchDone, ConsumePacket, processPacket,
           addSample, BeginTraffic, BeginRoute, Begin, WorkOn, Aggregate, AggregateStep,
           ReadClock, SnapSample, GroupSample, SweepClock, TrafficAggregate, PhantomAggregate,
           AnnotateAggregate, CallAggregate, EnterAggregate, takePendingSamples, TrafficRead,
           PhantomForward, PhantomReverse, AnnotateRead, Read, storeVars, vars
<1>2. IInv /\ [Next]_vars => [A]_vars
  BY <1>1
<1> QED
  BY <1>2, Inductive, PTL DEF Spec, OnlyStaleRemoved

(* No activation publishes a record that was too old when it read the      *)
(* clock.                                                                  *)
THEOREM PublishesFresh == Spec => FreshWhenPublished
<1> DEFINE A == \A t \in Threads, g \in Geometries : Publish(t, g) =>
                  segments'[g].timestamp_ms + MaxAgeMs(StaleSeconds) >= Top(t).now_ms
<1>1. ASSUME IInv PROVE A
  <2>1. SUFFICES ASSUME NEW t \in Threads, NEW g \in Geometries, Publish(t, g)
                 PROVE  segments'[g].timestamp_ms + MaxAgeMs(StaleSeconds) >= Top(t).now_ms
    OBVIOUS
  <2> DEFINE us == Top(t).grouped[g]
  <2>2. stack[t] # <<>> /\ Top(t).pc = "snap" /\ UsersOf(us) # {}
        /\ segments'[g] = EdgeData(us)
    BY <2>1 DEF Publish, Snapped, Running, update
  <2>3. Top(t) \in Frame /\ FrameInv(Top(t), clock, Len(accepted))
    BY <1>1, <2>2, TypeParts, TopFrame
  <2>4. us \in [Users -> TrafficSample \cup {NoSample}] /\ Top(t).now_ms \in Nat
    BY <2>3 DEF Frame
  <2>5. PICK u \in UsersOf(us) : TRUE
    BY <2>2
  <2>6. us[u] \in TrafficSample /\ ~TooOld(us[u], Top(t).now_ms)
    BY <2>2, <2>3, <2>4, <2>5 DEF UsersOf, FrameInv
  <2>7. /\ EdgeData(us).timestamp_ms \in Nat
        /\ us[u].timestamp_ms <= EdgeData(us).timestamp_ms
    BY <2>2, <2>4, <2>5, EdgeDataProperties
  <2>8. us[u].timestamp_ms \in Nat /\ MaxAgeMs(StaleSeconds) \in Nat
    BY <2>6, StaleSecondsAssumption DEF TrafficSample, MaxAgeMs
  <2> QED
    BY <2>2, <2>4, <2>6, <2>7, <2>8, SMTT(30) DEF TooOld
<1>2. IInv /\ [Next]_vars => [A]_vars
  BY <1>1
<1> QED
  BY <1>2, Inductive, PTL DEF Spec, FreshWhenPublished
=============================================================================
