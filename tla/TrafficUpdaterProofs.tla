------------------------ MODULE TrafficUpdaterProofs ------------------------
(***************************************************************************)
(* The safety properties of TrafficUpdater for every set of descriptors,   *)
(* every set of datagrams and any number of starts, receives and foreign   *)
(* descriptors.                                                            *)
(***************************************************************************)
EXTENDS TrafficUpdater, SequenceTheorems, TLAPS

(* Which descriptor sockfd_ holds and what it names, by the owner's        *)
(* progress.                                                               *)
OwnerInv ==
    /\ running => owner = "idle"
    /\ running \/ owner = "close" => sockfd # NoDescriptor /\ files[sockfd] = "udp"
    /\ owner = "forget" => sockfd # NoDescriptor
    /\ ~running /\ owner \in {"idle", "join"} => sockfd = NoDescriptor
    /\ \A d \in Descriptors : files[d] = "udp" =>
         d = sockfd /\ (running \/ owner = "close")

(* Where the receive thread may be, by the owner's progress.               *)
ThreadInv ==
    /\ rx.pc = "none" => rx = IdleThread
    /\ ~running /\ owner = "idle" => rx.pc = "none"
    /\ running => rx.pc \notin {"none", "exit"}
    /\ datagram # NoDatagram => rx.pc = "parse"
    /\ rx.pc = "parse" => datagram # NoDatagram
    /\ rx.pc = "enter" /\ (running \/ owner = "close") => rx.fd = sockfd
    /\ rx.file = "tcp" => ~running /\ owner \in {"forget", "join"}
    /\ rx.pc \in {"check", "load", "enter", "exit"} => rx.file = "closed"

(* The inductive invariant.                                                *)
IInv ==
    /\ TypeOK
    /\ OwnerInv
    /\ ThreadInv
    /\ EveryDatagramCounted

(* A packet that processPacket accepts yields a well-typed sample.         *)
LEMMA SampleOfType ==
    ASSUME TypeOK, NEW pkt \in Packet
    PROVE  SampleOf(pkt) \in TrafficSample
BY LenProperties DEF SampleOf, Packet, TrafficSample, TypeOK, StoreTypeOK

(* Consuming a packet keeps the store's and the receiver's types.          *)
LEMMA ConsumePacketType ==
    ASSUME TypeOK, ConsumePacket
    PROVE  StoreTypeOK' /\ ReceiverTypeOK' /\ datagram' # NoDatagram
<1>1. /\ datagram \in Remainder
      /\ datagram.packets \in Seq(Packet)
      /\ datagram.packets # <<>>
  BY DEF ConsumePacket, TypeOK, ReceiverTypeOK, Remainder
<1> DEFINE pkt == Head(datagram.packets)
<1>2. pkt \in Packet /\ Tail(datagram.packets) \in Seq(Packet)
  BY <1>1, HeadTailProperties
<1>3. SampleOf(pkt) \in TrafficSample
  BY <1>2, SampleOfType
<1>4. /\ pending_samples' \in Seq(TrafficSample)
      /\ accepted' \in Seq(TrafficSample)
      /\ UNCHANGED <<segments, clock>>
  <2>1. CASE UNCHANGED <<pending_samples, segments, accepted>>
    BY <2>1 DEF ConsumePacket, TypeOK, StoreTypeOK
  <2>2. CASE addSample(SampleOf(pkt))
    BY <2>2, <1>3, AppendProperties DEF addSample, ConsumePacket, TypeOK, StoreTypeOK
  <2> QED
    BY <2>1, <2>2 DEF ConsumePacket, processPacket
<1>5. StoreTypeOK'
  BY <1>4 DEF TypeOK, StoreTypeOK
<1>6. datagram' \in Remainder
  BY <1>1, <1>2 DEF ConsumePacket, Consumed, Remainder
<1>7. ReceiverTypeOK' /\ datagram' # NoDatagram
  BY <1>6, NoDatagramAssumption DEF ConsumePacket, TypeOK, ReceiverTypeOK, counters
<1> QED
  BY <1>5, <1>7

LEMMA InitEstablishes == Init => IInv
<1> SUFFICES ASSUME Init PROVE IInv
  OBVIOUS
<1> USE DEF Init, StoreInit, ReceiverInit, IdleThread, At
<1>1. StoreTypeOK
  BY StartMsAssumption DEF StoreTypeOK
<1>2. TypeOK
  BY <1>1, Zenon DEF TypeOK, ReceiverTypeOK, Files
<1>3. OwnerInv /\ ThreadInv
  BY DescriptorsAssumption DEF OwnerInv, ThreadInv
<1>4. EveryDatagramCounted
  BY DEF EveryDatagramCounted
<1> QED
  BY <1>2, <1>3, <1>4 DEF IInv

LEMMA NextPreserves == IInv /\ [Next]_vars => IInv'
<1> SUFFICES ASSUME IInv, [Next]_vars PROVE IInv'
  OBVIOUS
<1> USE DescriptorsAssumption DEF IInv, IdleThread, At
<1>s. ASSUME UNCHANGED storeVars PROVE StoreTypeOK'
  BY <1>s DEF storeVars, TypeOK, StoreTypeOK
<1>r. ASSUME UNCHANGED receiverVars PROVE ReceiverTypeOK'
  BY <1>r DEF receiverVars, counters, TypeOK, ReceiverTypeOK
<1>c. ASSUME UNCHANGED <<receiverVars, receives>> PROVE EveryDatagramCounted'
  BY <1>c DEF receiverVars, counters, EveryDatagramCounted
<1>1. CASE Start
  <2>1. TypeOK'
    BY <1>1, <1>s, <1>r DEF Start, TypeOK, Files
  <2>2. OwnerInv'
    BY <1>1 DEF Start, TypeOK, OwnerInv, Files
  <2>3. ThreadInv'
    BY <1>1 DEF Start, TypeOK, ThreadInv, Files, receiverVars
  <2> QED
    BY <1>1, <2>1, <2>2, <2>3, <1>c DEF Start
<1>2. CASE StopFlag
  <2>1. TypeOK'
    BY <1>2, <1>s, <1>r, Zenon DEF StopFlag, TypeOK, Files
  <2>2. OwnerInv'
    BY <1>2 DEF StopFlag, TypeOK, OwnerInv
  <2>3. ThreadInv'
    BY <1>2 DEF StopFlag, TypeOK, ThreadInv, OwnerInv, receiverVars
  <2> QED
    BY <1>2, <2>1, <2>2, <2>3, <1>c DEF StopFlag
<1>3. CASE StopClose
  <2>1. TypeOK'
    BY <1>3, <1>s, <1>r DEF StopClose, TypeOK, Files, OwnerInv
  <2>2. OwnerInv'
    BY <1>3 DEF StopClose, TypeOK, OwnerInv
  <2>3. ThreadInv'
    BY <1>3 DEF StopClose, TypeOK, ThreadInv, OwnerInv, receiverVars
  <2> QED
    BY <1>3, <2>1, <2>2, <2>3, <1>c DEF StopClose
<1>4. CASE StopForget
  <2>1. TypeOK'
    BY <1>4, <1>s, <1>r DEF StopForget, TypeOK, Files
  <2>2. OwnerInv'
    BY <1>4 DEF StopForget, TypeOK, OwnerInv
  <2>3. ThreadInv'
    BY <1>4 DEF StopForget, TypeOK, ThreadInv, OwnerInv, receiverVars
  <2> QED
    BY <1>4, <2>1, <2>2, <2>3, <1>c DEF StopForget
<1>5. CASE StopJoin
  <2>1. TypeOK'
    BY <1>5, <1>s, <1>r DEF StopJoin, TypeOK, Files
  <2>2. OwnerInv'
    BY <1>5 DEF StopJoin, TypeOK, OwnerInv
  <2>3. ThreadInv'
    BY <1>5 DEF StopJoin, TypeOK, ThreadInv, OwnerInv, receiverVars
  <2> QED
    BY <1>5, <2>1, <2>2, <2>3, <1>c DEF StopJoin
<1>6. CASE OtherOpen
  <2>1. TypeOK'
    BY <1>6, <1>s, <1>r DEF OtherOpen, TypeOK, Files
  <2>2. OwnerInv'
    BY <1>6 DEF OtherOpen, TypeOK, OwnerInv
  <2>3. ThreadInv'
    BY <1>6 DEF OtherOpen, TypeOK, ThreadInv, receiverVars
  <2> QED
    BY <1>6, <2>1, <2>2, <2>3, <1>c DEF OtherOpen
<1>7. ASSUME UNCHANGED threadOnly, rx' \in [pc : {"check", "load", "enter", "blocked", "exit"},
                    fd : Descriptors \cup {NoDescriptor}, file : Files]
      PROVE  TypeOK' /\ OwnerInv' /\ EveryDatagramCounted'
  BY <1>7, <1>s, <1>r, <1>c DEF threadOnly, lifecycleVars, TypeOK, OwnerInv
<1>8. CASE CheckRunning \/ LoadDescriptor
  <2>1. TypeOK' /\ OwnerInv' /\ EveryDatagramCounted'
    BY <1>8, <1>7 DEF CheckRunning, LoadDescriptor, TypeOK, Files
  <2>2. ThreadInv'
    BY <1>8 DEF CheckRunning, LoadDescriptor, TypeOK, ThreadInv, OwnerInv, threadOnly,
                lifecycleVars, receiverVars
  <2> QED
    BY <2>1, <2>2
<1>9. CASE EnterRecv \/ RecvTimeout
  <2>1. TypeOK' /\ OwnerInv' /\ EveryDatagramCounted'
    BY <1>9, <1>7 DEF EnterRecv, RecvTimeout, TypeOK, Files
  <2>2. ThreadInv'
    BY <1>9 DEF EnterRecv, RecvTimeout, TypeOK, ThreadInv, OwnerInv, threadOnly,
                lifecycleVars, receiverVars, Files
  <2> QED
    BY <2>1, <2>2
<1>10. CASE RecvData
  <2>1. OwnerInv'
    BY <1>10 DEF RecvData, lifecycleVars, OwnerInv
  <2>2. CASE RecvEmpty /\ rx' = At("check")
    <3>1. TypeOK'
      BY <1>10, <2>2, <1>s DEF RecvData, RecvEmpty, lifecycleVars, TypeOK, ReceiverTypeOK, Files
    <3>2. ThreadInv'
      BY <1>10, <2>2 DEF RecvData, RecvEmpty, lifecycleVars, TypeOK, ThreadInv, OwnerInv
    <3>3. EveryDatagramCounted'
      BY <1>10, <2>2 DEF RecvData, RecvEmpty, TypeOK, ReceiverTypeOK, EveryDatagramCounted
    <3> QED
      BY <2>1, <3>1, <3>2, <3>3
  <2>3. ASSUME NEW d \in Datagrams, RecvDatagram(d.packets, d.malformed),
               rx' = [rx EXCEPT !.pc = "parse"]
        PROVE  IInv'
    <3>1. datagram' \in Remainder /\ datagram' # NoDatagram
      BY <2>3, DatagramsAssumption, NoDatagramAssumption DEF RecvDatagram, Remainder
    <3>2. TypeOK'
      BY <1>10, <2>3, <3>1, <1>s DEF RecvData, RecvDatagram, lifecycleVars, counters,
                                     TypeOK, ReceiverTypeOK
    <3>3. ThreadInv'
      BY <1>10, <2>3, <3>1 DEF RecvData, lifecycleVars, TypeOK, ThreadInv, OwnerInv
    <3>4. EveryDatagramCounted'
      BY <1>10, <2>3, <3>1 DEF RecvData, RecvDatagram, counters, TypeOK, ReceiverTypeOK,
                               EveryDatagramCounted
    <3> QED
      BY <2>1, <3>2, <3>3, <3>4
  <2> QED
    BY <1>10, <2>2, <2>3 DEF RecvData
<1>11. CASE ParsePacket
  <2>1. StoreTypeOK' /\ ReceiverTypeOK' /\ datagram' # NoDatagram
    BY <1>11, ConsumePacketType DEF ParsePacket
  <2>2. TypeOK' /\ OwnerInv'
    BY <1>11, <2>1 DEF ParsePacket, lifecycleVars, TypeOK, OwnerInv
  <2>3. ThreadInv'
    BY <1>11, <2>1 DEF ParsePacket, lifecycleVars, ThreadInv
  <2>4. EveryDatagramCounted'
    BY <1>11, <2>1 DEF ParsePacket, ConsumePacket, counters, EveryDatagramCounted
  <2> QED
    BY <2>2, <2>3, <2>4
<1>12. CASE ParseDone
  <2>1. OwnerInv'
    BY <1>12 DEF ParseDone, lifecycleVars, OwnerInv
  <2>2. ParsedCount \in Nat
    BY <1>12 DEF ParseDone, BatchDone, ParsedCount, TypeOK, ReceiverTypeOK, Remainder
  <2>3. TypeOK'
    BY <1>12, <2>2, <1>s DEF ParseDone, BatchDone, lifecycleVars, TypeOK, ReceiverTypeOK, Files
  <2>4. ThreadInv'
    BY <1>12 DEF ParseDone, BatchDone, lifecycleVars, TypeOK, ThreadInv, OwnerInv
  <2>5. EveryDatagramCounted'
    BY <1>12, <2>2 DEF ParseDone, BatchDone, TypeOK, ReceiverTypeOK, EveryDatagramCounted
  <2> QED
    BY <2>1, <2>3, <2>4, <2>5
<1>13. CASE Drain
  <2>1. StoreTypeOK'
    BY <1>13, EmptySeq DEF Drain, takePendingSamples, TypeOK, StoreTypeOK
  <2>2. TypeOK' /\ OwnerInv'
    BY <1>13, <2>1, <1>r DEF Drain, lifecycleVars, TypeOK, OwnerInv
  <2>3. ThreadInv'
    BY <1>13 DEF Drain, lifecycleVars, receiverVars, ThreadInv
  <2> QED
    BY <1>13, <2>2, <2>3, <1>c DEF Drain
<1>14. CASE UNCHANGED vars
  <2>1. TypeOK' /\ OwnerInv'
    BY <1>14, <1>s, <1>r DEF vars, lifecycleVars, TypeOK, OwnerInv
  <2>2. ThreadInv'
    BY <1>14 DEF vars, lifecycleVars, receiverVars, ThreadInv
  <2> QED
    BY <1>14, <2>1, <2>2, <1>c DEF vars
<1> QED
  BY <1>1, <1>2, <1>3, <1>4, <1>5, <1>6, <1>8, <1>9, <1>10, <1>11, <1>12, <1>13, <1>14
     DEF Next, Stop, ReceiveThread

(* The inductive invariant holds in every reachable state.                 *)
THEOREM Inductive == Spec => []IInv
BY InitEstablishes, NextPreserves, PTL DEF Spec

(* start(), stop() and receiveLoop keep the members' types.                *)
THEOREM TypeCorrect == Spec => []TypeOK
<1>1. IInv => TypeOK
  BY DEF IInv
<1> QED
  BY <1>1, Inductive, PTL

(* Once stop() has returned, no thread, no descriptor and no UDP socket is *)
(* left: start() may assign thread_ again.                                 *)
THEOREM StopIsClean == Spec => []StoppedMeansQuiet
<1>1. IInv => StoppedMeansQuiet
  BY DEF IInv, TypeOK, OwnerInv, ThreadInv, StoppedMeansQuiet, IdleThread, At
<1> QED
  BY <1>1, Inductive, PTL

(* stop() never closes a descriptor that another thread has opened.        *)
THEOREM StopClosesOwnSocket == Spec => []ClosesOwnSocket
<1>1. IInv => ClosesOwnSocket
  BY DEF IInv, OwnerInv, ClosesOwnSocket
<1> QED
  BY <1>1, Inductive, PTL

(* The window in which receiveLoop may read a reused descriptor lies       *)
(* inside stop(), between close() and the return of join().                *)
THEOREM ForeignReadWindow == Spec => []ForeignReadOnlyDuringStop
<1>1. IInv => ForeignReadOnlyDuringStop
  BY DEF IInv, ThreadInv, ForeignReadOnlyDuringStop
<1> QED
  BY <1>1, Inductive, PTL

(* receiveLoop counts every datagram once.                                 *)
THEOREM DatagramAccounting == Spec => []EveryDatagramCounted
<1>1. IInv => EveryDatagramCounted
  BY DEF IInv
<1> QED
  BY <1>1, Inductive, PTL
=============================================================================
