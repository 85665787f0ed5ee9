------------------------ MODULE LiveTrafficEvidence -------------------------
(***************************************************************************)
(* Where the published records come from: no aggregation, nested or        *)
(* concurrent, invents a sample, counts one twice or puts it on another    *)
(* road or under another user.  The invariant here rests on the one of     *)
(* LiveTrafficProofs.  That the mean is the sum of the speeds is checked   *)
(* by the run only: a sum over a set is defined by recursion.              *)
(*                                                                         *)
(* The second part bounds how deep aggregations nest.                      *)
(***************************************************************************)
EXTENDS LiveTrafficProofs

(* The frames of all threads.                                              *)
Frames == UNION {Range(stack[t]) : t \in Threads}

(* A frame holds accepted samples only, and each group has the samples of  *)
(* its road under their users.                                             *)
Evidence(f, samples) ==
    /\ Held(f) \subseteq samples
    /\ \A g \in Geometries, u \in Users :
         f.grouped[g][u] # NoSample =>
            f.grouped[g][u].user_id = u /\ Snap[f.grouped[g][u].coordinate] = g

(* What is still to be aggregated and what is published comes from the     *)
(* samples that were accepted.                                             *)
EvidenceInv ==
    /\ Range(pending_samples) \subseteq Range(accepted)
    /\ \A f \in Frames : Evidence(f, Range(accepted))
    /\ TakenFromSamples

-----------------------------------------------------------------------------
(* Which frames there are after a step.                                    *)

(* Replacing the running frame adds one frame.                             *)
LEMMA FramesAfterSet ==
    ASSUME StackInv, NEW t \in Threads, stack[t] # <<>>, NEW f, SetTop(t, f)
    PROVE  Frames' \subseteq Frames \cup {f}
<1>1. stack \in [Threads -> Seq(Frame)]
  BY DEF StackInv, StackTypeOK
<1>2. Range(WithTop(t, f)) \subseteq Range(stack[t]) \cup {f}
  BY DEF WithTop, Range
<1>3. ASSUME NEW r \in Threads PROVE Range(stack'[r]) \subseteq Range(stack[r]) \cup {f}
  <2>1. CASE r = t
    BY <1>1, <1>2, <2>1 DEF SetTop
  <2>2. CASE r # t
    BY <1>1, <2>2 DEF SetTop
  <2> QED
    BY <2>1, <2>2
<1> QED
  BY <1>3, Zenon DEF Frames

(* Returning adds none.                                                    *)
LEMMA FramesAfterPop ==
    ASSUME StackInv, NEW t \in Threads, stack[t] # <<>>, Pop(t)
    PROVE  Frames' \subseteq Frames
<1> DEFINE n == Len(stack[t])
           rest == SubSeq(stack[t], 1, n - 1)
<1>1. stack \in [Threads -> Seq(Frame)] /\ stack[t] \in Seq(Frame)
      /\ n \in Nat \ {0} /\ DOMAIN stack[t] = 1 .. n
  BY EmptySeq, LenProperties DEF StackInv, StackTypeOK
<1>2. Range(rest) \subseteq Range(stack[t])
  <2>1. \A k \in 1 .. n - 1 : stack[t][k] \in Frame
    BY <1>1, ElementOfSeq
  <2>2. /\ rest \in Seq(Frame)
        /\ Len(rest) = IF 1 <= n - 1 THEN (n - 1) - 1 + 1 ELSE 0
        /\ \A i \in 1 .. (n - 1) - 1 + 1 : rest[i] = stack[t][1 + i - 1]
    BY <1>1, <2>1, SubSeqProperties
  <2>3. DOMAIN rest = 1 .. n - 1 /\ \A i \in 1 .. n - 1 : rest[i] = stack[t][i] /\ i \in DOMAIN stack[t]
    BY <1>1, <2>2, LenProperties
  <2> HIDE DEF rest
  <2> QED
    BY <2>3 DEF Range
<1>3. stack' = [stack EXCEPT ![t] = rest]
  BY DEF Pop
<1> HIDE DEF rest
<1>4. ASSUME NEW r \in Threads PROVE Range(stack'[r]) \subseteq Range(stack[r])
  BY <1>1, <1>2, <1>3
<1> QED
  BY <1>4, Zenon DEF Frames

(* Entering AggregatePendingTrafficSamples adds the frame that takes the   *)
(* pending samples.                                                        *)
LEMMA FramesAfterEnter ==
    ASSUME StackInv, StoreTypeOK, NEW t \in Threads, NEW frames \in Seq(Frame), EnterAggregate(t, frames)
    PROVE  Frames' \subseteq Frames \cup Range(frames) \cup {NewFrame(pending_samples)}
<1>1. stack \in [Threads -> Seq(Frame)] /\ NewFrame(pending_samples) \in Frame
  BY NewFrameProperties DEF StackInv, StackTypeOK
<1>2. PICK new : new = NewFrame(pending_samples)
  BY Zenon
<1>3. PICK mine : mine = IF pending_samples = <<>> THEN frames ELSE Append(frames, new)
  BY Zenon
<1>4. Range(mine) \subseteq Range(frames) \cup {new}
  BY <1>1, <1>2, <1>3, RangeAppend
<1>5. stack' = [stack EXCEPT ![t] = mine]
  BY <1>2, <1>3, Zenon DEF EnterAggregate
<1>6. ASSUME NEW r \in Threads PROVE Range(stack'[r]) \subseteq Range(stack[r]) \cup Range(frames) \cup {new}
  BY <1>1, <1>4, <1>5
<1> QED
  BY <1>2, <1>6, Zenon DEF Frames

-----------------------------------------------------------------------------
(* What the frames hold.                                                   *)

(* A new frame holds the samples that were pending.                        *)
LEMMA NewFrameEvidence ==
    ASSUME NEW samples, Range(pending_samples) \subseteq samples
    PROVE  Evidence(NewFrame(pending_samples), samples)
<1>1. \A g \in Geometries, u \in Users : NoGroups[g][u] = NoSample
  BY DEF NoGroups
<1>2. PICK new : new = NewFrame(pending_samples)
  BY Zenon
<1>3. new.samples = pending_samples /\ new.grouped = NoGroups
  BY <1>2 DEF NewFrame, FrameAt
<1>4. Held(new) \subseteq samples
  BY <1>1, <1>3 DEF Held
<1> QED
  BY <1>1, <1>2, <1>3, <1>4, Zenon DEF Evidence

(* A frame keeps its evidence through a turn of a loop: what it groups is  *)
(* what it had grouped, or one of its samples, on its road and under its   *)
(* user.                                                                   *)
LEMMA FrameEvidence ==
    ASSUME NEW f, NEW samples, Evidence(f, samples), NEW pc, NEW rest, NEW now, NEW G,
           Range(rest) \subseteq Range(f.samples),
           \A g \in Geometries, u \in Users : G[g][u] # NoSample =>
              \/ G[g][u] = f.grouped[g][u]
              \/ /\ G[g][u] \in Range(f.samples)
                 /\ G[g][u].user_id = u /\ Snap[G[g][u].coordinate] = g
    PROVE  Evidence(FrameAt(pc, rest, now, G), samples)
<1>1. PICK h : h = FrameAt(pc, rest, now, G)
  BY Zenon
<1>2. h.samples = rest /\ h.grouped = G
  BY <1>1 DEF FrameAt
<1>3. Range(f.samples) \subseteq samples
  BY DEF Evidence, Held
<1>4. \A g \in Geometries, u \in Users : f.grouped[g][u] # NoSample =>
        /\ f.grouped[g][u] \in samples
        /\ f.grouped[g][u].user_id = u /\ Snap[f.grouped[g][u].coordinate] = g
  BY DEF Evidence, Held
<1>5. \A g \in Geometries, u \in Users : G[g][u] # NoSample =>
        G[g][u] \in samples /\ G[g][u].user_id = u /\ Snap[G[g][u].coordinate] = g
  BY <1>3, <1>4
<1>6. Held(h) \subseteq samples
  BY <1>2, <1>3, <1>5 DEF Held
<1> QED
  BY <1>1, <1>2, <1>5, <1>6 DEF Evidence

(* The record of a group averages the samples of the group, counts them    *)
(* and carries their newest time stamp.                                    *)
LEMMA RecordTaken ==
    ASSUME NEW us \in [Users -> TrafficSample \cup {NoSample}], UsersOf(us) # {}, NEW samples,
           \A u \in Users : us[u] # NoSample => us[u] \in samples /\ us[u].user_id = u
    PROVE  TakenFrom(EdgeData(us), samples)
<1> DEFINE M == UsersOf(us)
           C == {us[u] : u \in M}
           ts == [u \in M |-> us[u].timestamp_ms]
           T == {0} \cup {us[u].timestamp_ms : u \in M}
           N == {s.timestamp_ms : s \in C}
           f == [u \in M |-> us[u]]
<1>1. \A u \in M : us[u] \in TrafficSample /\ us[u] \in samples /\ us[u].user_id = u
  BY DEF UsersOf
<1>2. IsFiniteSet(M)
  BY UsersAssumption, FS_Subset DEF UsersOf
<1>3. Cardinality(C) = Cardinality(M)
  <2>1. f \in Bijection(M, C)
    BY <1>1 DEF Bijection, Injection, IsInjective, Surjection
  <2> QED
    BY <1>2, <2>1, FS_Bijection DEF ExistsBijection
<1>4. ts \in [M -> Nat]
  BY <1>1 DEF TrafficSample
<1>5. PICK w \in M : \A v \in M : ts[v] <= ts[w]
  BY <1>2, <1>4, NewestUser, Zenon
<1>6. PICK newest : newest = us[w].timestamp_ms
  BY Zenon
<1>7. newest \in Nat /\ \A v \in M : us[v].timestamp_ms \in Nat /\ us[v].timestamp_ms <= newest
  BY <1>4, <1>5, <1>6
<1>8. newest \in T /\ (\A y \in T : newest >= y) /\ T \subseteq Nat
  BY <1>6, <1>7
<1>9. newest \in N /\ (\A y \in N : newest >= y) /\ N \subseteq Nat
  BY <1>6, <1>7
<1>10. ASSUME NEW S \in SUBSET Nat, newest \in S, \A y \in S : newest >= y PROVE Max(S) = newest
  <2>1. PICK m : m = Max(S)
    BY Zenon
  <2>2. m \in S /\ \A y \in S : m >= y
    BY <1>10, <2>1, Zenon DEF Max
  <2>3. m \in Nat /\ newest \in Nat /\ m >= newest /\ newest >= m
    BY <1>10, <2>2
  <2> QED
    BY <2>1, <2>3
<1>11. Max(T) = newest /\ Max(N) = newest
  BY <1>8, <1>9, <1>10, Zenon
<1>12. /\ EdgeData(us).timestamp_ms = Max(T) /\ EdgeData(us).averaged = C
       /\ EdgeData(us).speed_kmh.d = Cardinality(M)
  BY DEF EdgeData, Fraction
<1>13. C \subseteq samples /\ \A s, r \in C : s.user_id = r.user_id => s = r
  BY <1>1
<1> HIDE DEF M, C, T
<1> QED
  BY <1>3, <1>11, <1>12, <1>13, Zenon DEF TakenFrom

(* Records that stay remain taken from what was accepted when more is      *)
(* accepted.                                                               *)
LEMMA StillTaken ==
    ASSUME TakenFromSamples, Range(accepted) \subseteq Range(accepted'),
           DOMAIN segments' \subseteq DOMAIN segments,
           \A g \in DOMAIN segments' : segments'[g] = segments[g]
    PROVE  TakenFromSamples'
<1> SUFFICES ASSUME NEW g \in DOMAIN segments'
             PROVE  TakenFrom(segments[g], {s \in Range(accepted') : Snap[s.coordinate] = g})
  BY Zenon DEF TakenFromSamples
<1>1. TakenFrom(segments[g], {s \in Range(accepted) : Snap[s.coordinate] = g})
  BY DEF TakenFromSamples
<1>2. {s \in Range(accepted) : Snap[s.coordinate] = g}
        \subseteq {s \in Range(accepted') : Snap[s.coordinate] = g}
  OBVIOUS
<1> QED
  BY <1>1, <1>2, Zenon DEF TakenFrom

(* Grouping a sample changes at most the entry of its user on its road.    *)
LEMMA SampleGrouped ==
    ASSUME NEW G \in [Geometries -> [Users -> TrafficSample \cup {NoSample}]],
           NEW g, NEW s \in TrafficSample, NEW h \in Geometries, NEW u \in Users
    PROVE  \/ WithSample(G, g, s)[h][u] = G[h][u]
           \/ WithSample(G, g, s)[h][u] = s /\ u = s.user_id /\ h = g
<1>1. PICK best : best = Latest(G[g][s.user_id], s)
  BY Zenon
<1>2. best \in {G[g][s.user_id], s} /\ s.user_id \in Users
  BY <1>1 DEF Latest, TrafficSample
<1>3. PICK row : row = [G[g] EXCEPT ![s.user_id] = best]
  BY Zenon
<1>4. WithSample(G, g, s) = [G EXCEPT ![g] = row]
  BY <1>1, <1>3, Zenon DEF WithSample
<1>5. CASE h = g
  <2>1. WithSample(G, g, s)[h] = row /\ row[u] = IF u = s.user_id THEN best ELSE G[g][u]
    BY <1>2, <1>3, <1>4, <1>5
  <2> QED
    BY <1>2, <1>5, <2>1
<1>6. CASE h # g
  BY <1>4, <1>6
<1> QED
  BY <1>5, <1>6

-----------------------------------------------------------------------------
(* The steps.                                                              *)

(* The steps of an activation, nested or not, keep the evidence.           *)
LEMMA AggregateEvidence ==
    ASSUME StackInv, StoreTypeOK, EvidenceInv, NEW t \in Threads, AggregateStep(t)
    PROVE  EvidenceInv'
<1> DEFINE top == Top(t)
           A == Range(accepted)
<1>1. stack[t] # <<>>
  BY Zenon DEF AggregateStep, ReadClock, SnapSample, GroupSample, Publish, SweepClock, Sweep,
         Snapped, Running
<1>2. top \in Frame /\ Len(stack[t]) \in DOMAIN stack[t] /\ FrameInv(top, clock, Len(accepted))
  BY <1>1, TopFrame
<1>3. /\ top.samples \in Seq(TrafficSample)
      /\ top.grouped \in [Geometries -> [Users -> TrafficSample \cup {NoSample}]]
      /\ Range(<<>>) = {}
  BY <1>2 DEF Frame, Range
<1>4. top \in Frames
  BY <1>2 DEF Frames, Range, top, Top
<1>5. /\ Range(pending_samples) \subseteq A
      /\ \A f \in Frames : Evidence(f, A)
      /\ Evidence(top, A)
      /\ TakenFromSamples
  BY <1>4, Zenon DEF EvidenceInv
<1>6. accepted' = accepted
  BY AggregatePreserves
<1> HIDE DEF top
<1>7. ASSUME NEW f, SetTop(t, f), Evidence(f, A), Range(pending_samples') \subseteq Range(pending_samples),
             TakenFromSamples'
      PROVE  EvidenceInv'
  <2>1. Frames' \subseteq Frames \cup {f}
    BY <1>1, <1>7, FramesAfterSet
  <2> QED
    BY <1>5, <1>6, <1>7, <2>1, Zenon DEF EvidenceInv
<1>8. ASSUME UNCHANGED storeVars
      PROVE  Range(pending_samples') \subseteq Range(pending_samples) /\ TakenFromSamples'
  BY <1>5, <1>8, StillTaken DEF storeVars
<1>9. CASE ReadClock(t)
  <2>1. PICK f : f = FrameAt("snap", top.samples, clock, top.grouped)
    BY Zenon
  <2>2. SetTop(t, f) /\ UNCHANGED storeVars
    BY <1>9, <2>1, Zenon DEF ReadClock, top
  <2>3. Evidence(f, A)
    BY <1>5, <2>1, FrameEvidence
  <2> QED
    BY <1>7, <1>8, <2>2, <2>3, Zenon
<1>10. CASE SnapSample(t)
  <2>1. PICK sample : sample = Head(top.samples)
    BY Zenon
  <2>2. top.samples # <<>>
    BY <1>10 DEF SnapSample, top
  <2>3. Range(Tail(top.samples)) \subseteq Range(top.samples)
    BY <1>3, <2>2, RangeTail
  <2>4. CASE TooOld(sample, top.now_ms) \/ Snap[sample.coordinate] = NoRoad
    <3>1. PICK f : f = FrameAt("snap", Tail(top.samples), top.now_ms, top.grouped)
      BY Zenon
    <3>2. SetTop(t, f) /\ UNCHANGED storeVars
      BY <1>10, <2>1, <2>4, <3>1 DEF SnapSample, top
    <3>3. Evidence(f, A)
      BY <1>5, <2>3, <3>1, FrameEvidence
    <3> QED
      BY <1>7, <1>8, <3>2, <3>3, Zenon
  <2>5. CASE ~(TooOld(sample, top.now_ms) \/ Snap[sample.coordinate] = NoRoad)
    <3>1. PICK f : f = FrameAt("group", top.samples, top.now_ms, top.grouped)
      BY Zenon
    <3>2. EnterAggregate(t, WithTop(t, f))
      BY <1>10, <2>1, <2>5, <3>1 DEF SnapSample, top
    <3>3. Evidence(f, A)
      BY <1>5, <3>1, FrameEvidence
    <3>4. f \in Frame
      BY <1>2, <3>1 DEF FrameAt, Frame
    <3>5. stack[t] \in Seq(Frame) /\ Len(stack[t]) \in 1 .. Len(stack[t])
      BY <1>2, LenProperties DEF StackInv, StackTypeOK
    <3>6. WithTop(t, f) \in Seq(Frame)
      BY <3>4, <3>5, ExceptSeq DEF WithTop
    <3>7. Range(WithTop(t, f)) \subseteq Frames \cup {f}
      BY DEF WithTop, Range, Frames
    <3>8. Frames' \subseteq Frames \cup Range(WithTop(t, f)) \cup {NewFrame(pending_samples)}
      BY <3>2, <3>6, FramesAfterEnter
    <3>9. Evidence(NewFrame(pending_samples), A)
      BY <1>5, NewFrameEvidence
    <3>10. \A h \in Frames' : Evidence(h, A)
      BY <1>5, <3>3, <3>7, <3>8, <3>9
    <3>11. pending_samples' = <<>> /\ segments' = segments
      BY <3>2 DEF EnterAggregate, takePendingSamples
    <3>12. TakenFromSamples'
      BY <1>5, <1>6, <3>11, StillTaken
    <3> QED
      BY <1>3, <1>6, <3>10, <3>11, <3>12 DEF EvidenceInv
  <2> QED
    BY <2>4, <2>5
<1>11. CASE GroupSample(t)
  <2>1. PICK sample : sample = Head(top.samples)
    BY Zenon
  <2>2. top.samples # <<>>
    BY <1>2, <1>11 DEF GroupSample, Running, FrameInv, top
  <2>3. /\ sample \in TrafficSample /\ sample \in Range(top.samples)
        /\ Range(Tail(top.samples)) \subseteq Range(top.samples)
    BY <1>3, <2>1, <2>2, HeadTailProperties, RangeTail
  <2>4. PICK G : G = IF Snap[sample.coordinate] = ReverseOnly
                       THEN top.grouped
                       ELSE WithSample(top.grouped, Snap[sample.coordinate], sample)
    BY Zenon
  <2>5. \A g \in Geometries, u \in Users :
          \/ G[g][u] = top.grouped[g][u]
          \/ G[g][u] = sample /\ u = sample.user_id /\ g = Snap[sample.coordinate]
    BY <1>3, <2>3, <2>4, SampleGrouped
  <2>6. PICK f : f = FrameAt("snap", Tail(top.samples), top.now_ms, G)
    BY Zenon
  <2>7. SetTop(t, f) /\ UNCHANGED storeVars
    BY <1>11, <2>1, <2>4, <2>6, Zenon DEF GroupSample, top
  <2>8. \A g \in Geometries, u \in Users : G[g][u] # NoSample =>
          \/ G[g][u] = top.grouped[g][u]
          \/ /\ G[g][u] \in Range(top.samples)
             /\ G[g][u].user_id = u /\ Snap[G[g][u].coordinate] = g
    BY <2>3, <2>5
  <2>9. Evidence(f, A)
    BY <1>5, <2>3, <2>6, <2>8, FrameEvidence
  <2> QED
    BY <1>7, <1>8, <2>7, <2>9, Zenon
<1>12. ASSUME NEW g \in Geometries, Publish(t, g) PROVE EvidenceInv'
  <2>1. PICK G : G = [top.grouped EXCEPT ![g] = NoGroups[g]]
    BY Zenon
  <2>2. PICK f : f = FrameAt("snap", <<>>, top.now_ms, G)
    BY Zenon
  <2>3. PICK us : us = top.grouped[g]
    BY Zenon
  <2>4. /\ us \in [Users -> TrafficSample \cup {NoSample}]
        /\ UsersOf(us) # {}
        /\ update(g, EdgeData(us))
        /\ SetTop(t, f)
    BY <1>3, <1>12, <2>1, <2>2, <2>3 DEF Publish, top
  <2>5. \A h \in Geometries, u \in Users : G[h][u] # NoSample => G[h][u] = top.grouped[h][u]
    BY <1>3, <2>1 DEF NoGroups
  <2>6. Evidence(f, A)
    BY <1>3, <1>5, <2>2, <2>5, FrameEvidence
  <2>7. PICK S : S = {s \in A : Snap[s.coordinate] = g}
    BY Zenon
  <2>8. \A u \in Users : us[u] # NoSample => us[u] \in S /\ us[u].user_id = u
    BY <1>5, <2>3, <2>7 DEF Evidence, Held
  <2>9. TakenFrom(EdgeData(us), S)
    BY <2>4, <2>8, RecordTaken
  <2>10. PICK record : record = EdgeData(us)
    BY Zenon
  <2>11. /\ DOMAIN segments' = DOMAIN segments \cup {g}
         /\ segments'[g] = record
         /\ \A h \in DOMAIN segments' : h # g => h \in DOMAIN segments /\ segments'[h] = segments[h]
         /\ pending_samples' = pending_samples
    BY <2>4, <2>10 DEF update
  <2>12. TakenFromSamples'
    <3> SUFFICES ASSUME NEW h \in DOMAIN segments'
                 PROVE  TakenFrom(segments'[h], {s \in A : Snap[s.coordinate] = h})
      BY <1>6, Zenon DEF TakenFromSamples
    <3>1. CASE h = g
      BY <2>7, <2>9, <2>10, <2>11, <3>1, Zenon
    <3>2. CASE h # g
      BY <1>5, <2>11, <3>2, Zenon DEF TakenFromSamples
    <3> QED
      BY <3>1, <3>2
  <2> QED
    BY <1>7, <2>4, <2>6, <2>11, <2>12
<1>13. CASE SweepClock(t)
  <2>1. PICK f : f = FrameAt("sweep", <<>>, clock, top.grouped)
    BY Zenon
  <2>2. SetTop(t, f) /\ UNCHANGED storeVars
    BY <1>13, <2>1, Zenon DEF SweepClock, top
  <2>3. Evidence(f, A)
    BY <1>3, <1>5, <2>1, FrameEvidence
  <2> QED
    BY <1>7, <1>8, <2>2, <2>3, Zenon
<1>14. CASE Sweep(t)
  <2>1. Pop(t) /\ pending_samples' = pending_samples
    BY <1>14 DEF Sweep, removeStaleSegments
  <2>2. DOMAIN segments' \subseteq DOMAIN segments /\ \A g \in DOMAIN segments' : segments'[g] = segments[g]
    BY <1>14 DEF Sweep, removeStaleSegments
  <2>3. TakenFromSamples'
    BY <1>5, <1>6, <2>2, StillTaken
  <2>4. Frames' \subseteq Frames
    BY <1>1, <2>1, FramesAfterPop
  <2> QED
    BY <1>5, <1>6, <2>1, <2>3, <2>4 DEF EvidenceInv
<1> QED
  BY <1>9, <1>10, <1>11, <1>12, <1>13, <1>14 DEF AggregateStep

(* Accepting more samples keeps the evidence.                              *)
LEMMA EvidenceGrows ==
    ASSUME EvidenceInv, Range(accepted) \subseteq Range(accepted'),
           Range(pending_samples') \subseteq Range(accepted'),
           UNCHANGED <<stack, segments>>
    PROVE  EvidenceInv'
<1>1. Frames' = Frames
  BY DEF Frames
<1>2. \A f \in Frames : Held(f) \subseteq Range(accepted')
  BY DEF EvidenceInv, Evidence
<1>3. \A f \in Frames : Evidence(f, Range(accepted'))
  BY <1>2, Zenon DEF EvidenceInv, Evidence
<1>4. TakenFromSamples'
  BY StillTaken DEF EvidenceInv
<1> QED
  BY <1>1, <1>3, <1>4, Zenon DEF EvidenceInv

(* addSample puts a sample into pending_samples and into what was          *)
(* accepted.                                                               *)
LEMMA ConsumeEvidence ==
    ASSUME StoreTypeOK, ReceiverTypeOK, EvidenceInv, ConsumePacket, stack' = stack
    PROVE  EvidenceInv'
<1>1. datagram.packets \in Seq(Packet) /\ datagram.packets # <<>>
  BY DEF ConsumePacket, ReceiverTypeOK, Remainder
<1>2. PICK sample : sample = SampleOf(Head(datagram.packets))
  BY Zenon
<1>3. sample \in TrafficSample
  <2>1. Head(datagram.packets) \in Packet /\ Len(accepted) \in Nat
    BY <1>1, HeadTailProperties, LenProperties DEF StoreTypeOK
  <2> QED
    BY <1>2, <2>1 DEF SampleOf, Packet, TrafficSample, StoreTypeOK
<1>4. UNCHANGED <<pending_samples, segments, accepted>> \/ addSample(sample)
  BY <1>2 DEF ConsumePacket, processPacket
<1>5. CASE UNCHANGED <<pending_samples, segments, accepted>>
  BY <1>5, EvidenceGrows DEF EvidenceInv
<1>6. CASE addSample(sample)
  <2>1. /\ Range(pending_samples') = Range(pending_samples) \cup {sample}
        /\ Range(accepted') = Range(accepted) \cup {sample}
    BY <1>3, <1>6, RangeAppend DEF addSample, StoreTypeOK
  <2> QED
    BY <1>6, <2>1, EvidenceGrows DEF addSample, EvidenceInv
<1> QED
  BY <1>4, <1>5, <1>6

(* Every step keeps the evidence.                                          *)
LEMMA EvidencePreserved == IInv /\ EvidenceInv /\ [Next]_vars => EvidenceInv'
<1> SUFFICES ASSUME IInv, EvidenceInv, [Next]_vars PROVE EvidenceInv'
  OBVIOUS
<1>1. StoreTypeOK /\ ReceiverTypeOK /\ StackInv
  BY TypeParts
<1>2. Range(pending_samples) \subseteq Range(accepted) /\ \A f \in Frames : Evidence(f, Range(accepted))
  BY Zenon DEF EvidenceInv
<1>3. ASSUME UNCHANGED <<stack, segments, pending_samples, accepted>> PROVE EvidenceInv'
  BY <1>2, <1>3, EvidenceGrows
<1>4. ASSUME NEW t \in Threads, Aggregate(t) PROVE EvidenceInv'
  BY <1>1, <1>4, AggregateEvidence DEF Aggregate
<1>5. ASSUME NEW t \in Threads, NEW from, NEW to, CallAggregate(t, from, to) PROVE EvidenceInv'
  <2>1. EnterAggregate(t, <<>>)
    BY <1>5 DEF CallAggregate
  <2>2. Frames' \subseteq Frames \cup {NewFrame(pending_samples)}
    <3>1. <<>> \in Seq(Frame)
      BY EmptySeq
    <3>2. Range(<<>>) = {}
      BY DEF Range
    <3>3. Frames' \subseteq Frames \cup Range(<<>>) \cup {NewFrame(pending_samples)}
      BY <1>1, <2>1, <3>1, FramesAfterEnter, Zenon
    <3> QED
      BY <3>2, <3>3, Zenon
  <2>3. Evidence(NewFrame(pending_samples), Range(accepted))
    BY <1>2, NewFrameEvidence
  <2>4. pending_samples' = <<>> /\ UNCHANGED <<segments, accepted>>
    BY <2>1 DEF EnterAggregate, takePendingSamples
  <2>5. TakenFromSamples'
    BY <2>4, StillTaken DEF EvidenceInv
  <2>6. Range(pending_samples') = {}
    BY <2>4 DEF Range
  <2> QED
    BY <1>2, <2>2, <2>3, <2>4, <2>5, <2>6 DEF EvidenceInv
<1>6. CASE Receive
  <2>1. CASE ConsumePacket
    BY <1>1, <1>6, <2>1, ConsumeEvidence DEF Receive
  <2>2. CASE BatchDone
    BY <1>3, <1>6, <2>2 DEF Receive, BatchDone, storeVars
  <2> QED
    BY <1>6, <2>1, <2>2 DEF Receive
<1>7. CASE Tick \/ Deliver \/ UNCHANGED vars
  BY <1>3, <1>7, Zenon DEF Tick, Deliver, RecvDatagram, vars, storeVars
<1>8. ASSUME NEW t \in Threads, BeginTraffic(t) \/ BeginRoute(t) PROVE EvidenceInv'
  BY <1>3, <1>8, Zenon DEF BeginTraffic, BeginRoute, Begin, storeVars
<1>9. ASSUME NEW t \in Threads, TrafficRead(t) \/ AnnotateRead(t) \/ PhantomForward(t) \/ PhantomReverse(t)
      PROVE  EvidenceInv'
  BY <1>3, <1>9, Zenon DEF TrafficRead, AnnotateRead, PhantomForward, PhantomReverse, Read, storeVars
<1>10. ASSUME NEW t \in Threads, TrafficAggregate(t) \/ PhantomAggregate(t) \/ AnnotateAggregate(t)
       PROVE  EvidenceInv'
  BY <1>5, <1>10, Zenon DEF TrafficAggregate, PhantomAggregate, AnnotateAggregate
<1> QED
  BY <1>4, <1>6, <1>7, <1>8, <1>9, <1>10, Zenon DEF Next, WorkOn

-----------------------------------------------------------------------------
(* Every published record averages samples that were accepted on its road, *)
(* at most one of a user, counts them and carries their newest time stamp, *)
(* whatever aggregations ran at the same time or inside one another.       *)
THEOREM RecordsTakenFromSamples == Spec => []TakenFromSamples
<1>1. Init => EvidenceInv
  <2> SUFFICES ASSUME Init PROVE EvidenceInv
    OBVIOUS
  <2>1. pending_samples = <<>> /\ DOMAIN segments = {} /\ \A t \in Threads : Range(stack[t]) = {}
    BY DEF Init, StoreInit, AggregatorInit, Range
  <2>2. Range(pending_samples) = {}
    BY <2>1 DEF Range
  <2> QED
    BY <2>1, <2>2 DEF EvidenceInv, Frames, TakenFromSamples
<1>2. EvidenceInv => TakenFromSamples
  BY DEF EvidenceInv
<1> QED
  BY <1>1, <1>2, EvidencePreserved, Inductive, PTL DEF Spec

-----------------------------------------------------------------------------
(* How deep aggregations nest.  Entering one takes every pending sample,   *)
(* so a frame inside another has taken samples that were accepted after    *)
(* the outer one took its own.                                             *)

Answering == {"all", "forward", "reverse", "path"}

(* The depth of a thread and the samples that still wait together fit into *)
(* what has been accepted since its request began; a request that is not   *)
(* past a call of the aggregation has no frames.                           *)
NestingInv ==
    /\ Len(pending_samples) <= Len(accepted)
    /\ \A t \in Threads :
         /\ request[t].at \notin Answering => stack[t] = <<>>
         /\ stack[t] # <<>> =>
              Len(stack[t]) + Len(pending_samples) <= 1 + Len(accepted) - began[t].accepted

(* The numbers NestingInv compares.                                        *)
LEMMA NestingTypes ==
    ASSUME IInv
    PROVE  /\ Len(pending_samples) \in Nat /\ Len(accepted) \in Nat
           /\ pending_samples # <<>> => Len(pending_samples) > 0
           /\ \A t \in Threads :
                /\ Len(stack[t]) \in Nat /\ began[t].accepted \in Nat
                /\ began[t].accepted <= Len(accepted)
                /\ stack[t] \in Seq(Frame)
                /\ stack[t] # <<>> => Len(stack[t]) > 0
<1>1. /\ StoreTypeOK /\ StackInv /\ RequestTypeOK /\ PendingAreNewer
  BY TypeParts
<1>2. /\ Len(pending_samples) \in Nat /\ Len(accepted) \in Nat
      /\ pending_samples # <<>> => Len(pending_samples) > 0
  BY <1>1, LenProperties, EmptySeq DEF StoreTypeOK
<1>3. ASSUME NEW t \in Threads
      PROVE  /\ Len(stack[t]) \in Nat /\ stack[t] \in Seq(Frame)
             /\ stack[t] # <<>> => Len(stack[t]) > 0
  BY <1>1, LenProperties, EmptySeq DEF StackInv, StackTypeOK
<1>4. ASSUME NEW t \in Threads
      PROVE  began[t].accepted \in Nat /\ began[t].accepted <= Len(accepted)
  BY <1>1 DEF RequestTypeOK, PendingAreNewer
<1> QED
  BY <1>2, <1>3, <1>4

(* A step of one thread that takes no sample and makes it no deeper.       *)
LEMMA NestingKept ==
    ASSUME IInv, NestingInv, UNCHANGED <<pending_samples, accepted, request, began>>,
           stack' \in [Threads -> Seq(Frame)],
           \A t \in Threads : /\ Len(stack'[t]) <= Len(stack[t])
                              /\ stack[t] = <<>> => stack'[t] = <<>>
    PROVE  NestingInv'
<1>1. \A t \in Threads : Len(stack'[t]) \in Nat
  BY LenProperties
<1>2. ASSUME NEW t \in Threads, stack'[t] # <<>>
      PROVE  Len(stack'[t]) + Len(pending_samples) <= 1 + Len(accepted) - began[t].accepted
  BY <1>1, <1>2, NestingTypes DEF NestingInv
<1>3. ASSUME NEW t \in Threads, request[t].at \notin Answering PROVE stack'[t] = <<>>
  BY <1>3 DEF NestingInv
<1> QED
  BY <1>2, <1>3 DEF NestingInv

(* The entry: from no frames, or from the running frame once more.         *)
LEMMA NestingEnter ==
    ASSUME IInv, NestingInv, NEW t \in Threads, NEW frames \in Seq(Frame),
           Len(frames) = 0 \/ (stack[t] # <<>> /\ Len(frames) = Len(stack[t])),
           EnterAggregate(t, frames), stack' \in [Threads -> Seq(Frame)],
           began' = began,
           \A r \in Threads : r # t => request'[r] = request[r],
           request'[t].at \in Answering
    PROVE  NestingInv'
<1>1. pending_samples' = <<>> /\ accepted' = accepted /\ Len(pending_samples') = 0
  BY EmptySeq DEF EnterAggregate, takePendingSamples
<1>2. \A r \in Threads : r # t => stack'[r] = stack[r]
  BY TypeParts DEF EnterAggregate, StackInv, StackTypeOK
<1>3. Len(stack'[t]) \in Nat /\ Len(frames) \in Nat
  BY LenProperties
<1>4. \/ pending_samples = <<>> /\ stack'[t] = frames
      \/ pending_samples # <<>> /\ Len(stack'[t]) = Len(frames) + 1
  <2>1. stack'[t] = IF pending_samples = <<>> THEN frames
                    ELSE Append(frames, NewFrame(pending_samples))
    BY TypeParts DEF EnterAggregate, StackInv, StackTypeOK
  <2>2. pending_samples # <<>> => NewFrame(pending_samples) \in Frame
    BY TypeParts, NewFrameProperties
  <2> QED
    BY <2>1, <2>2, AppendProperties
<1> DEFINE waiting == Len(pending_samples)
           since(r) == 1 + Len(accepted) - began[r].accepted
<1>a. waiting \in Nat /\ (pending_samples # <<>> => waiting > 0)
  BY NestingTypes
<1>b. \A r \in Threads : since(r) \in Nat /\ since(r) > 0 /\ Len(stack[r]) \in Nat
  <2>1. Len(accepted) \in Nat /\ \A r \in Threads :
          Len(stack[r]) \in Nat /\ began[r].accepted \in Nat /\ began[r].accepted <= Len(accepted)
    BY NestingTypes
  <2> QED
    BY <2>1
<1>c. \A r \in Threads : stack[r] # <<>> => Len(stack[r]) + waiting <= since(r)
  BY DEF NestingInv
<1> HIDE DEF waiting, since
<1>5. Len(stack'[t]) <= since(t)
  <2>1. Len(stack'[t]) <= Len(frames) + (IF pending_samples = <<>> THEN 0 ELSE 1)
    BY <1>3, <1>4
  <2>2. CASE Len(frames) = 0
    BY <1>3, <1>b, <2>1, <2>2
  <2>3. CASE stack[t] # <<>> /\ Len(frames) = Len(stack[t])
    <3>1. Len(frames) + waiting <= since(t)
      BY <1>c, <2>3
    <3> QED
      BY <1>3, <1>a, <1>b, <2>1, <3>1
  <2> QED
    BY <2>2, <2>3
<1>6. ASSUME NEW r \in Threads, r # t, stack'[r] # <<>>
      PROVE  Len(stack'[r]) <= since(r)
  <2>1. Len(stack[r]) + waiting <= since(r) /\ stack'[r] = stack[r]
    BY <1>2, <1>6, <1>c
  <2> QED
    BY <1>a, <1>b, <2>1
<1>7. ASSUME NEW r \in Threads, request'[r].at \notin Answering PROVE stack'[r] = <<>>
  BY <1>2, <1>7 DEF NestingInv
<1>8. ASSUME NEW r \in Threads, stack'[r] # <<>>
      PROVE  Len(stack'[r]) + Len(pending_samples') <= 1 + Len(accepted') - began'[r].accepted
  <2>1. Len(stack'[r]) <= since(r)
    BY <1>5, <1>6, <1>8
  <2>2. Len(stack'[r]) \in Nat
    BY LenProperties
  <2> QED
    BY <1>1, <2>1, <2>2 DEF since
<1>9. Len(pending_samples') <= Len(accepted')
  BY <1>1, NestingTypes
<1> QED
  BY <1>7, <1>8, <1>9, Zenon DEF NestingInv

(* The steps of an aggregation.                                            *)
LEMMA NestingAggregate ==
    ASSUME IInv, IInv', NestingInv, NEW t \in Threads, Aggregate(t)
    PROVE  NestingInv'
<1> DEFINE n == Len(stack[t])
           top == Top(t)
           rest == SubSeq(stack[t], 1, n - 1)
<1>1. stack[t] # <<>> /\ AggregateStep(t) /\ UNCHANGED <<request, began>>
  BY Zenon DEF Aggregate, AggregateStep, ReadClock, SnapSample, GroupSample, Publish, SweepClock,
         Sweep, Snapped, Running, requestVars
<1>2. StackInv /\ stack \in [Threads -> Seq(Frame)] /\ stack' \in [Threads -> Seq(Frame)]
  BY TypeParts DEF StackInv, StackTypeOK, IInv, TypeOK
<1>3. stack[t] \in Seq(Frame) /\ n \in Nat /\ n > 0 /\ DOMAIN stack[t] = 1 .. n
  BY <1>1, <1>2, NestingTypes, LenProperties
<1>4. top \in Frame
  BY <1>1, <1>2, TopFrame
<1>5. request[t].at \in Answering
  BY <1>1 DEF NestingInv
<1> HIDE DEF n, top
<1>6. ASSUME NEW s \in Seq(Frame), stack' = [stack EXCEPT ![t] = s], Len(s) <= Len(stack[t]),
             UNCHANGED <<pending_samples, accepted>>
      PROVE  NestingInv'
  <2>1. \A r \in Threads : stack'[r] = IF r = t THEN s ELSE stack[r]
    BY <1>2, <1>6
  <2>2. ASSUME NEW r \in Threads
        PROVE  Len(stack'[r]) <= Len(stack[r]) /\ (stack[r] = <<>> => stack'[r] = <<>>)
    BY <1>1, <1>6, <2>1, NestingTypes
  <2> QED
    BY <1>1, <1>2, <1>6, <2>2, NestingKept
<1>7. ASSUME NEW f PROVE WithTop(t, f) = [stack[t] EXCEPT ![n] = f]
  BY DEF WithTop, n
<1>8. ASSUME NEW f \in Frame PROVE WithTop(t, f) \in Seq(Frame) /\ Len(WithTop(t, f)) = n
  <2>1. [stack[t] EXCEPT ![n] = f] \in Seq(Frame)
    BY <1>3, ExceptSeq
  <2>2. DOMAIN [stack[t] EXCEPT ![n] = f] = 1 .. n
    BY <1>3
  <2> QED
    BY <1>3, <1>7, <2>1, <2>2, LenProperties
<1>9. ASSUME NEW f, SetTop(t, f), UNCHANGED <<pending_samples, accepted>> PROVE NestingInv'
  <2>1. stack' = [stack EXCEPT ![t] = WithTop(t, f)] /\ stack'[t] = WithTop(t, f)
    BY <1>2, <1>9 DEF SetTop
  <2>2. WithTop(t, f) \in Seq(Frame) /\ DOMAIN WithTop(t, f) = 1 .. n
    BY <1>2, <1>3, <1>7, <2>1
  <2>3. Len(WithTop(t, f)) = n
    BY <1>3, <2>2, LenProperties
  <2>4. Len(WithTop(t, f)) <= Len(stack[t])
    BY <1>3, <2>3 DEF n
  <2> QED
    BY <1>6, <1>9, <2>1, <2>2, <2>4, Zenon
<1>10. CASE ReadClock(t) \/ GroupSample(t) \/ SweepClock(t)
  BY <1>9, <1>10, Zenon DEF ReadClock, GroupSample, SweepClock, storeVars
<1>11. ASSUME NEW g \in Geometries, Publish(t, g) PROVE NestingInv'
  BY <1>9, <1>11, Zenon DEF Publish, update
<1>12. CASE SnapSample(t)
  <2> DEFINE f == FrameAt("group", Top(t).samples, Top(t).now_ms, Top(t).grouped)
  <2>1. CASE EnterAggregate(t, WithTop(t, f))
    <3>1. f \in Frame
      BY <1>4 DEF FrameAt, Frame, top
    <3> HIDE DEF f
    <3>2. WithTop(t, f) \in Seq(Frame) /\ Len(WithTop(t, f)) = Len(stack[t])
      BY <1>8, <3>1 DEF n
    <3> QED
      BY <1>1, <1>2, <1>5, <2>1, <3>2, NestingEnter
  <2>2. CASE ~EnterAggregate(t, WithTop(t, f))
    <3>1. SetTop(t, FrameAt("snap", Tail(Top(t).samples), Top(t).now_ms, Top(t).grouped))
          /\ UNCHANGED storeVars
      BY <1>12, <2>2, Zenon DEF SnapSample
    <3> QED
      BY <1>9, <3>1, Zenon DEF storeVars
  <2> QED
    BY <2>1, <2>2
<1>13. CASE Sweep(t)
  <2>1. stack' = [stack EXCEPT ![t] = rest] /\ UNCHANGED <<pending_samples, accepted>>
    BY <1>13 DEF Sweep, Pop, removeStaleSegments, n
  <2>2. \A k \in 1 .. n - 1 : stack[t][k] \in Frame
    BY <1>3, ElementOfSeq
  <2>3. rest \in Seq(Frame) /\ Len(rest) = IF 1 <= n - 1 THEN (n - 1) - 1 + 1 ELSE 0
    BY <1>3, <2>2, SubSeqProperties
  <2>4. Len(rest) <= Len(stack[t])
    BY <1>3, <2>3 DEF n
  <2> HIDE DEF rest
  <2> QED
    BY <1>6, <2>1, <2>3, <2>4, Zenon
<1> QED
  BY <1>1, <1>10, <1>11, <1>12, <1>13, Zenon DEF AggregateStep

(* Every step keeps the bound.                                             *)
LEMMA NestingPreserved == IInv /\ IInv' /\ NestingInv /\ [Next]_vars => NestingInv'
<1> SUFFICES ASSUME IInv, IInv', NestingInv, [Next]_vars PROVE NestingInv'
  OBVIOUS
<1>1. /\ StoreTypeOK /\ ReceiverTypeOK /\ RequestTypeOK
      /\ stack \in [Threads -> Seq(Frame)] /\ stack' \in [Threads -> Seq(Frame)]
  BY TypeParts DEF StackInv, StackTypeOK, IInv, TypeOK
<1>2. ASSUME UNCHANGED <<stack, pending_samples, accepted, request, began>> PROVE NestingInv'
  BY <1>2, Zenon DEF NestingInv
<1>3. ASSUME NEW t \in Threads, NEW from, NEW to \in Answering, CallAggregate(t, from, to)
      PROVE  NestingInv'
  <2>1. /\ EnterAggregate(t, <<>>) /\ began' = began
        /\ request' = [request EXCEPT ![t].at = to]
    BY <1>3 DEF CallAggregate
  <2>2. request'[t].at = to /\ \A r \in Threads : r # t => request'[r] = request[r]
    BY <1>1, <2>1 DEF RequestTypeOK
  <2>3. <<>> \in Seq(Frame) /\ Len(<<>>) = 0
    BY EmptySeq
  <2> QED
    BY <1>1, <1>3, <2>1, <2>2, <2>3, NestingEnter, Zenon
<1>4. ASSUME NEW t \in Threads, NEW pc, NEW n, Begin(t, pc, n) PROVE NestingInv'
  <2>1. stack[t] = <<>> /\ UNCHANGED <<stack, pending_samples, accepted>>
        /\ \A r \in Threads : r # t => request'[r] = request[r] /\ began'[r] = began[r]
    BY <1>1, <1>4, Zenon DEF Begin, NestingInv, Answering, storeVars, RequestTypeOK
  <2>2. ASSUME NEW r \in Threads
        PROVE  /\ request'[r].at \notin Answering => stack[r] = <<>>
               /\ stack[r] # <<>> =>
                    Len(stack[r]) + Len(pending_samples) <= 1 + Len(accepted) - began'[r].accepted
    BY <2>1, Zenon DEF NestingInv
  <2>3. Len(pending_samples) <= Len(accepted)
    BY DEF NestingInv
  <2> QED
    BY <2>1, <2>2, <2>3, Zenon DEF NestingInv
<1>5. ASSUME NEW t \in Threads, NEW from, NEW next, Read(t, from, next) PROVE NestingInv'
  <2>1. stack[t] = <<>> /\ UNCHANGED <<stack, pending_samples, accepted>>
        /\ \A r \in Threads : r # t => request'[r] = request[r] /\ began'[r] = began[r]
    BY <1>1, <1>5 DEF Read, Reading, storeVars, RequestTypeOK
  <2>2. ASSUME NEW r \in Threads
        PROVE  /\ request'[r].at \notin Answering => stack[r] = <<>>
               /\ stack[r] # <<>> =>
                    Len(stack[r]) + Len(pending_samples) <= 1 + Len(accepted) - began'[r].accepted
    BY <2>1, Zenon DEF NestingInv
  <2>3. Len(pending_samples) <= Len(accepted)
    BY DEF NestingInv
  <2> QED
    BY <2>1, <2>2, <2>3, Zenon DEF NestingInv
<1>6. CASE Receive
  <2>1. UNCHANGED <<stack, request, began>>
    BY <1>6 DEF Receive, requestVars
  <2>2. CASE UNCHANGED <<pending_samples, accepted>>
    BY <1>2, <2>1, <2>2
  <2>3. ASSUME NEW s \in TrafficSample, addSample(s) PROVE NestingInv'
    <3>1. /\ Len(pending_samples') = Len(pending_samples) + 1
          /\ Len(accepted') = Len(accepted) + 1
      BY <1>1, <2>3, AppendProperties DEF addSample, StoreTypeOK
    <3>2. ASSUME NEW t \in Threads, stack[t] # <<>>
          PROVE  Len(stack[t]) + Len(pending_samples') <= 1 + Len(accepted') - began[t].accepted
      <4>1. Len(stack[t]) + Len(pending_samples) <= 1 + Len(accepted) - began[t].accepted
        BY <3>2 DEF NestingInv
      <4>2. /\ Len(stack[t]) \in Nat /\ Len(pending_samples) \in Nat
            /\ Len(accepted) \in Nat /\ began[t].accepted \in Nat
        BY NestingTypes
      <4>3. \A d, p, a, b \in Nat : d + p <= 1 + a - b => d + (p + 1) <= 1 + (a + 1) - b
        OBVIOUS
      <4>4. Len(stack[t]) + (Len(pending_samples) + 1) <= 1 + (Len(accepted) + 1) - began[t].accepted
        BY <4>1, <4>2, <4>3, Zenon
      <4> QED
        BY <3>1, <4>4, Zenon
    <3>3. Len(pending_samples') <= Len(accepted')
      BY <3>1, NestingTypes DEF NestingInv
    <3> QED
      BY <2>1, <3>2, <3>3, Zenon DEF NestingInv
  <2>4. UNCHANGED <<pending_samples, accepted>> \/ \E s \in TrafficSample : addSample(s)
    <3>1. CASE BatchDone
      BY <3>1 DEF BatchDone, storeVars
    <3>2. CASE ConsumePacket
      <4>1. datagram.packets \in Seq(Packet) /\ datagram.packets # <<>>
        BY <1>1, <3>2 DEF ConsumePacket, ReceiverTypeOK, Remainder
      <4>2. Head(datagram.packets) \in Packet /\ Len(accepted) \in Nat
        BY <1>1, <4>1, HeadTailProperties, LenProperties DEF StoreTypeOK
      <4>3. SampleOf(Head(datagram.packets)) \in TrafficSample
        BY <1>1, <4>2 DEF SampleOf, Packet, TrafficSample, StoreTypeOK
      <4> QED
        BY <3>2, <4>3, Zenon DEF ConsumePacket, processPacket
    <3> QED
      BY <1>6, <3>1, <3>2 DEF Receive
  <2> QED
    BY <2>2, <2>3, <2>4
<1>7. CASE Tick \/ Deliver \/ UNCHANGED vars
  BY <1>2, <1>7, Zenon DEF Tick, Deliver, RecvDatagram, vars, storeVars, requestVars
<1>8. ASSUME NEW t \in Threads, BeginTraffic(t) \/ BeginRoute(t) PROVE NestingInv'
  BY <1>4, <1>8, Zenon DEF BeginTraffic, BeginRoute
<1>9. ASSUME NEW t \in Threads, TrafficRead(t) \/ AnnotateRead(t) \/ PhantomForward(t) \/ PhantomReverse(t)
      PROVE  NestingInv'
  BY <1>5, <1>9, Zenon DEF TrafficRead, AnnotateRead, PhantomForward, PhantomReverse
<1>10. ASSUME NEW t \in Threads, TrafficAggregate(t) \/ PhantomAggregate(t) \/ AnnotateAggregate(t)
       PROVE  NestingInv'
  BY <1>3, <1>10, Zenon DEF TrafficAggregate, PhantomAggregate, AnnotateAggregate, Answering
<1>11. ASSUME NEW t \in Threads, Aggregate(t) PROVE NestingInv'
  BY <1>11, NestingAggregate
<1> QED
  BY <1>6, <1>7, <1>8, <1>9, <1>10, <1>11, Zenon DEF Next, WorkOn

(* However many threads aggregate and however often an aggregation runs    *)
(* inside itself, a request nests no deeper than samples have been         *)
(* accepted since it began: takePendingSamples leaves nothing behind that  *)
(* could make MakePhantomNode aggregate the same samples again.            *)
THEOREM NestingIsBounded == Spec => []NestingBounded
<1>1. Init => NestingInv
  BY EmptySeq DEF Init, StoreInit, AggregatorInit, NestingInv
<1>2. ASSUME IInv, NestingInv PROVE NestingBounded
  BY <1>2, NestingTypes, EmptySeq DEF NestingInv, NestingBounded
<1>3. Spec => []NestingInv
  BY <1>1, NestingPreserved, Inductive, PTL DEF Spec
<1> QED
  BY <1>2, <1>3, Inductive, PTL
=============================================================================
