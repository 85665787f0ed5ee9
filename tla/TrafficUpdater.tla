--------------------------- MODULE TrafficUpdater ---------------------------
(***************************************************************************)
(* TrafficUpdater (include/engine/traffic_updater.hpp): the UDP socket,    *)
(* the thread that reads it, and the owner that starts and stops that      *)
(* thread.                                                                 *)
(*                                                                         *)
(* The owner and the receive thread interleave at every shared access.     *)
(* sockfd_ is a plain int, so the receive thread may pass recvfrom a       *)
(* descriptor that stop() has closed in the meantime; the kernel resolves  *)
(* the number to whatever it names when the call is entered, and a call in *)
(* progress keeps its file until it returns.                               *)
(***************************************************************************)
EXTENDS TrafficReceiver

CONSTANTS
    NoDescriptor,    \* sockfd_ == -1
    Descriptors,     \* the descriptor numbers the kernel hands out
    Datagrams,       \* what clients send: [packets, malformed]
    MaxStarts,       \* bound: calls of start() that open a socket
    MaxAccepts,      \* bound: descriptors other threads open
    MaxReceives      \* bound: receives that return data

ASSUME DescriptorsAssumption == NoDescriptor \notin Descriptors
ASSUME DatagramsAssumption ==
    \A d \in Datagrams : d.packets \in Seq(Packet) /\ d.malformed \in BOOLEAN

VARIABLES
    running,         \* running_
    sockfd,          \* sockfd_
    owner,           \* where the owner is inside stop()
    files,           \* kernel: what each descriptor names
    rx,              \* the receive thread: pc, its descriptor, its file
    starts,          \* calls of start() so far
    accepts,         \* descriptors opened by other threads so far
    receives         \* receives that returned data so far

lifecycleVars == <<running, sockfd, owner, files, starts, accepts>>
vars == <<storeVars, receiverVars, lifecycleVars, rx, receives>>

At(pc) == [pc |-> pc, fd |-> NoDescriptor, file |-> "closed"]

IdleThread == At("none")

Init ==
    /\ StoreInit
    /\ ReceiverInit
    /\ running = FALSE
    /\ sockfd = NoDescriptor
    /\ owner = "idle"
    /\ files = [d \in Descriptors |-> "closed"]
    /\ rx = IdleThread
    /\ starts = 0
    /\ accepts = 0
    /\ receives = 0

-----------------------------------------------------------------------------
(* The owner: start() and stop().                                          *)

(* createSocket throws when socket() or bind() fails: nothing has been     *)
(* assigned by then, so only the call that succeeds is a step.             *)
Start ==
    /\ owner = "idle"
    /\ ~running
    /\ starts < MaxStarts
    /\ \E d \in Descriptors :
         /\ files[d] = "closed"
         /\ files' = [files EXCEPT ![d] = "udp"]
         /\ sockfd' = d
    /\ running' = TRUE
    /\ starts' = starts + 1
    /\ rx' = At("check")
    /\ UNCHANGED <<owner, accepts, receives, receiverVars, storeVars>>

StopFlag ==
    /\ owner = "idle"
    /\ running' = FALSE
    /\ owner' = IF sockfd # NoDescriptor THEN "close" ELSE "join"
    /\ UNCHANGED <<sockfd, files, starts, accepts, rx, receives, receiverVars, storeVars>>

StopClose ==
    /\ owner = "close"
    /\ files' = [files EXCEPT ![sockfd] = "closed"]
    /\ owner' = "forget"
    /\ UNCHANGED <<running, sockfd, starts, accepts, rx, receives, receiverVars, storeVars>>

StopForget_Keep ==
    /\ owner = "forget"
    /\ owner' = "join"
    /\ UNCHANGED <<running, sockfd, files, starts, accepts, rx, receives, receiverVars, storeVars>>

StopForget ==
    /\ owner = "forget"
    /\ sockfd' = NoDescriptor
    /\ owner' = "join"
    /\ UNCHANGED <<running, files, starts, accepts, rx, receives, receiverVars, storeVars>>

StopJoin_Detach ==
    /\ owner = "join"
    /\ owner' = "idle"
    /\ UNCHANGED <<running, sockfd, files, starts, accepts, rx, receives, receiverVars, storeVars>>

(* thread_.join() returns once the thread has left receiveLoop; a thread_  *)
(* that was never started is not joinable.                                 *)
StopJoin ==
    /\ owner = "join"
    /\ rx.pc \in {"none", "exit"}
    /\ rx' = IdleThread
    /\ owner' = "idle"
    /\ UNCHANGED <<running, sockfd, files, starts, accepts, receives, receiverVars, storeVars>>

(* Another thread of the process opens a descriptor (accept() of an HTTP   *)
(* connection): the kernel may reuse a number that has been closed.        *)
OtherOpen ==
    /\ accepts < MaxAccepts
    /\ \E d \in Descriptors :
         /\ files[d] = "closed"
         /\ files' = [files EXCEPT ![d] = "tcp"]
    /\ accepts' = accepts + 1
    /\ UNCHANGED <<running, sockfd, owner, starts, rx, receives, receiverVars, storeVars>>

-----------------------------------------------------------------------------
(* The receive thread: receiveLoop().                                      *)

threadOnly == <<lifecycleVars, receives, receiverVars, storeVars>>

CheckRunning ==
    /\ rx.pc = "check"
    /\ rx' = [rx EXCEPT !.pc = IF running THEN "load" ELSE "exit"]
    /\ UNCHANGED threadOnly

LoadDescriptor ==
    /\ rx.pc = "load"
    /\ rx' = [pc |-> "enter", fd |-> sockfd, file |-> "closed"]
    /\ UNCHANGED threadOnly

(* recvfrom is entered: EBADF at once when the number names nothing.       *)
EnterRecv ==
    /\ rx.pc = "enter"
    /\ rx' = IF rx.fd = NoDescriptor \/ files[rx.fd] = "closed"
               THEN At("check")
               ELSE [pc |-> "blocked", fd |-> NoDescriptor, file |-> files[rx.fd]]
    /\ UNCHANGED threadOnly

RecvTimeout_Never ==
    /\ rx.pc = "blocked"
    /\ rx.file = "tcp"
    /\ rx' = At("check")
    /\ UNCHANGED threadOnly

(* bytes < 0: createSocket sets SO_RCVTIMEO, so recvfrom gives up after    *)
(* one second; a TCP socket of the HTTP server is non-blocking.            *)
RecvTimeout ==
    /\ rx.pc = "blocked"
    /\ rx' = At("check")
    /\ UNCHANGED threadOnly

(* recvfrom returns data: bytes == 0 or a datagram of at least one byte.   *)
RecvData ==
    /\ rx.pc = "blocked"
    /\ receives < MaxReceives
    /\ receives' = receives + 1
    /\ \/ /\ RecvEmpty
          /\ rx' = At("check")
       \/ /\ \E d \in Datagrams : RecvDatagram(d.packets, d.malformed)
          /\ rx' = [rx EXCEPT !.pc = "parse"]
    /\ UNCHANGED lifecycleVars

ParsePacket ==
    /\ rx.pc = "parse"
    /\ ConsumePacket
    /\ UNCHANGED <<lifecycleVars, rx, receives>>

ParseDone ==
    /\ rx.pc = "parse"
    /\ BatchDone
    /\ rx' = At("check")
    /\ UNCHANGED <<lifecycleVars, receives>>

(* A request thread takes the samples (the aggregator's first step).       *)
Drain ==
    /\ pending_samples # <<>>
    /\ takePendingSamples
    /\ UNCHANGED <<clock, receiverVars, lifecycleVars, rx, receives>>

Stop == StopFlag \/ StopClose \/ StopForget \/ StopJoin

ReceiveThread ==
    \/ CheckRunning \/ LoadDescriptor \/ EnterRecv \/ RecvTimeout
    \/ ParsePacket \/ ParseDone

Next == Start \/ Stop \/ OtherOpen \/ ReceiveThread \/ RecvData \/ Drain

Spec == Init /\ [][Next]_vars

(* The scheduler runs both threads, and recvfrom returns within a second.  *)
FairSpec == /\ Spec
            /\ WF_vars(StopClose \/ StopForget \/ StopJoin)
            /\ WF_vars(ReceiveThread)

-----------------------------------------------------------------------------
(* Properties.                                                             *)

Files == {"closed", "udp", "tcp"}

(* Types of the members and of the thread state.                           *)
TypeOK ==
    /\ StoreTypeOK
    /\ ReceiverTypeOK
    /\ running \in BOOLEAN
    /\ sockfd \in Descriptors \cup {NoDescriptor}
    /\ owner \in {"idle", "close", "forget", "join"}
    /\ files \in [Descriptors -> Files]
    /\ rx \in [pc : {"none", "check", "load", "enter", "blocked", "parse", "exit"},
               fd : Descriptors \cup {NoDescriptor}, file : Files]
    /\ starts \in Nat /\ accepts \in Nat /\ receives \in Nat

(* stop() leaves nothing behind: when no call of stop() is in progress and *)
(* the updater is not running, the thread has been joined (assigning a     *)
(* joinable std::thread in start() would terminate the process), the       *)
(* descriptor is gone and no UDP socket is left open.                      *)
StoppedMeansQuiet ==
    owner = "idle" /\ ~running =>
        /\ rx = IdleThread
        /\ datagram = NoDatagram
        /\ sockfd = NoDescriptor
        /\ \A d \in Descriptors : files[d] # "udp"

(* stop() closes only the updater's own socket.                            *)
ClosesOwnSocket == owner = "close" => files[sockfd] = "udp"

(* The receive thread reads a descriptor that is not the updater's socket  *)
(* only while stop() waits for it: never once stop() has returned, never   *)
(* while the updater runs.                                                 *)
ForeignReadOnlyDuringStop == rx.file = "tcp" => ~running /\ owner \in {"forget", "join"}

(* Every datagram the loop has finished is counted exactly once, either as *)
(* a batch or as dropped.                                                  *)
EveryDatagramCounted ==
    receives = batches_received + packets_dropped
                 + (IF datagram = NoDatagram THEN 0 ELSE 1)

(* stop() returns: the one-second receive timeout lets the thread see      *)
(* running_ == false, whatever the network does.                           *)
StopReturns == owner # "idle" ~> owner = "idle"

=============================================================================
