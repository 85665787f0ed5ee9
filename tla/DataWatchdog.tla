---------------------------- MODULE DataWatchdog ----------------------------
(***************************************************************************)
(* osrm-routed on shared memory: DataWatchdogImpl                          *)
(* (include/engine/data_watchdog.hpp), the SharedMemoryAllocator it builds *)
(* (src/engine/datafacade/shared_memory_allocator.cpp), and a request that *)
(* works on the facade it was given.                                       *)
(*                                                                         *)
(* The watcher thread holds the monitor's mutex from its look at the time  *)
(* stamps until the new facade is in place or its semaphore is queued.     *)
(* A block stays mapped as long as the facade factory or a request uses it.*)
(***************************************************************************)
EXTENDS Storage

CONSTANT
    MaxStarts        \* bound: starts of osrm-routed

VARIABLES
    client,          \* client[c]: the state of process c
    starts           \* starts so far

watchdogVars == <<client, starts>>

(* owner: the thread that constructs and destroys the watchdog; watcher:   *)
(* the watcher thread; seen: the time stamps copied last; keys: the keys   *)
(* the allocator opens; mapped: the blocks opened so far; facade: the      *)
(* blocks of the facade factory; held: the blocks of a running request.    *)
ClientAt(owner, watcher, seen, keys, mapped, facade, held) ==
    [owner |-> owner, watcher |-> watcher, seen |-> seen, keys |-> keys,
     mapped |-> mapped, facade |-> facade, held |-> held]

Nothing == [kind \in Kinds |-> 0]
Down == ClientAt("down", "none", Nothing, Nothing, Nothing, Nothing, Nothing)

WatchdogInit ==
    /\ client = [c \in Clients |-> Down]
    /\ starts = 0

PerKind == [Kinds -> {0} \cup Blocks]

ClientStates ==
    [owner : {"down", "construct", "up", "notify", "join"},
     watcher : {"none", "static", "updatable", "check", "waiting", "stopped"},
     seen : [Kinds -> Nat], keys : [Kinds -> Keys],
     mapped : PerKind, facade : PerKind, held : PerKind]

WatchdogTypeOK ==
    /\ client \in [Clients -> ClientStates]
    /\ starts \in Nat

UsedBy(c) ==
    {client[c].mapped[kind] : kind \in Kinds}
      \cup {client[c].facade[kind] : kind \in Kinds}
      \cup {client[c].held[kind] : kind \in Kinds}

Used == (UNION {UsedBy(c) : c \in Clients}) \ {0}

Timestamps == [kind \in Kinds |-> region[kind].timestamp]
RegisteredKeys == [kind \in Kinds |-> region[kind].key]

Become(c, next) == client' = [client EXCEPT ![c] = next]

(* The constructor, up to the allocator.  It throws when there is no       *)
(* monitor or a region is not registered: the process ends without having  *)
(* changed anything.                                                       *)
Construct(c) ==
    /\ client[c].owner = "down"
    /\ starts < MaxStarts
    /\ monitor = "there"
    /\ \A kind \in Kinds : region[kind].timestamp # 0
    /\ Lock(c)
    /\ starts' = starts + 1
    /\ Become(c, ClientAt("construct", "static", Timestamps, RegisteredKeys,
                          Nothing, Nothing, Nothing))
    /\ UNCHANGED <<blocks, named, registerVars, waiting>>

(* One turn of Run up to the wait or the allocator.  active is false once  *)
(* the destructor has begun.                                               *)
CheckRegions_OnlyStatic(c) ==
    /\ client[c].watcher = "check"
    /\ mutex = Nobody
    /\ LET me == client[c]
       IN  CASE me.owner # "up" ->
                  /\ Become(c, ClientAt(me.owner, "stopped", me.seen, me.keys,
                                        me.mapped, me.facade, me.held))
                  /\ UNCHANGED <<mutex, waiting>>
             [] me.owner = "up" /\ me.seen["static"] = region["static"].timestamp ->
                  /\ waiting' = waiting \cup {c}
                  /\ Become(c, ClientAt("up", "waiting", me.seen, me.keys,
                                        me.mapped, me.facade, me.held))
                  /\ UNCHANGED mutex
             [] OTHER ->
                  /\ mutex' = c
                  /\ Become(c, ClientAt("up", "static", Timestamps, RegisteredKeys,
                                        Nothing, me.facade, me.held))
                  /\ UNCHANGED waiting
    /\ UNCHANGED <<blocks, named, registerVars, starts>>

CheckRegions(c) ==
    /\ client[c].watcher = "check"
    /\ mutex = Nobody
    /\ LET me == client[c]
       IN  CASE me.owner # "up" ->
                  /\ Become(c, ClientAt(me.owner, "stopped", me.seen, me.keys,
                                        me.mapped, me.facade, me.held))
                  /\ UNCHANGED <<mutex, waiting>>
             [] me.owner = "up" /\ me.seen = Timestamps ->
                  /\ waiting' = waiting \cup {c}
                  /\ Become(c, ClientAt("up", "waiting", me.seen, me.keys,
                                        me.mapped, me.facade, me.held))
                  /\ UNCHANGED mutex
             [] OTHER ->
                  /\ mutex' = c
                  /\ Become(c, ClientAt("up", "static", Timestamps, RegisteredKeys,
                                        Nothing, me.facade, me.held))
                  /\ UNCHANGED waiting
    /\ UNCHANGED <<blocks, named, registerVars, starts>>

(* The semaphore has been posted and the wait returns, with the mutex.     *)
WakeUp(c) ==
    /\ client[c].watcher = "waiting"
    /\ c \notin waiting
    /\ LET me == client[c]
       IN  Become(c, ClientAt(me.owner, "check", me.seen, me.keys, me.mapped,
                              me.facade, me.held))
    /\ UNCHANGED <<sharedVars, starts>>

(* SharedMemoryAllocator opens one region after the other; the block 0     *)
(* stands for the exception it throws when there is none.                  *)
MapStatic(c) ==
    /\ client[c].watcher = "static"
    /\ LET me == client[c]
       IN  Become(c, ClientAt(me.owner, "updatable", me.seen, me.keys,
                              [Nothing EXCEPT !["static"] = named[me.keys["static"]]],
                              me.facade, me.held))
    /\ UNCHANGED <<sharedVars, starts>>

(* The last region, the swap of the facade factory under factory_mutex,    *)
(* and the end of the scope that holds the monitor's mutex; the            *)
(* constructor then launches the watcher thread.                           *)
MapUpdatable(c) ==
    /\ client[c].watcher = "updatable"
    /\ LET me == client[c]
           opened == [me.mapped EXCEPT !["updatable"] = named[me.keys["updatable"]]]
       IN  Become(c, ClientAt(IF me.owner = "construct" THEN "up" ELSE me.owner,
                              "check", me.seen, me.keys, Nothing, opened, me.held))
    /\ Unlock
    /\ UNCHANGED <<blocks, named, registerVars, waiting, starts>>

(* DataWatchdog::Get, which waits while the watcher holds factory_mutex,   *)
(* and the end of the request.                                             *)
BeginRequest(c) ==
    /\ client[c].owner = "up"
    /\ client[c].watcher # "updatable"
    /\ client[c].held = Nothing
    /\ LET me == client[c]
       IN  Become(c, ClientAt(me.owner, me.watcher, me.seen, me.keys, me.mapped,
                              me.facade, me.facade))
    /\ UNCHANGED <<sharedVars, starts>>

EndRequest(c) ==
    /\ client[c].held # Nothing
    /\ LET me == client[c]
       IN  Become(c, ClientAt(me.owner, me.watcher, me.seen, me.keys, me.mapped,
                              me.facade, Nothing))
    /\ UNCHANGED <<sharedVars, starts>>

(* The destructor: active = false, notify_all, join.  The server has       *)
(* finished its requests by then.                                          *)
DestroyFlag(c) ==
    /\ client[c].owner = "up"
    /\ client[c].held = Nothing
    /\ LET me == client[c]
       IN  Become(c, ClientAt("notify", me.watcher, me.seen, me.keys, me.mapped,
                              me.facade, me.held))
    /\ UNCHANGED <<sharedVars, starts>>

DestroyNotify_Skip(c) ==
    /\ client[c].owner = "notify"
    /\ LET me == client[c]
       IN  Become(c, ClientAt("join", me.watcher, me.seen, me.keys, me.mapped,
                              me.facade, me.held))
    /\ UNCHANGED <<sharedVars, starts>>

DestroyNotify(c) ==
    /\ client[c].owner = "notify"
    /\ NotifyAll
    /\ LET me == client[c]
       IN  Become(c, ClientAt("join", me.watcher, me.seen, me.keys, me.mapped,
                              me.facade, me.held))
    /\ UNCHANGED <<blocks, named, registerVars, starts>>

DestroyJoin(c) ==
    /\ client[c].owner = "join"
    /\ client[c].watcher = "stopped"
    /\ Become(c, Down)
    /\ UNCHANGED <<sharedVars, starts>>

WatcherStep(c) == CheckRegions(c) \/ WakeUp(c) \/ MapStatic(c) \/ MapUpdatable(c)

DestroyStep(c) == DestroyNotify(c) \/ DestroyJoin(c)

(* SIGKILL: a queued semaphore stays in the queue.                         *)
KillClient(c) ==
    /\ client[c].owner # "down"
    /\ mutex' = IF mutex = c THEN Orphan ELSE mutex
    /\ Become(c, Down)
    /\ UNCHANGED <<blocks, named, registerVars, waiting, starts>>
=============================================================================
