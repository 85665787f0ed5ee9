------------------------------- MODULE Storage -------------------------------
(***************************************************************************)
(* Shared memory, and osrm-datastore, which puts datasets into it.         *)
(***************************************************************************)
EXTENDS Naturals, Sequences, FiniteSets

-----------------------------------------------------------------------------
(***************************************************************************)
(* What osrm-datastore and osrm-routed share: System V shared memory       *)
(* (include/storage/shared_memory.hpp), the SharedRegionRegister           *)
(* (include/storage/shared_datatype.hpp) and the SharedMonitor around it   *)
(* (include/storage/shared_monitor.hpp), a mutex and a queue of            *)
(* semaphores in one POSIX shared memory object.                           *)
(*                                                                         *)
(* One dataset: a static and an updatable region.  A block of memory keeps *)
(* its number for good; a key names the block that was created under it    *)
(* last and has not been removed.                                          *)
(***************************************************************************)
CONSTANTS
    MaxKeys,         \* MAX_SHM_KEYS
    Stores,          \* osrm-datastore processes
    Clients,         \* osrm-routed processes
    Nobody,          \* the mutex is free
    Orphan           \* the mutex is held by a process that was killed

ASSUME MaxKeysAssumption == MaxKeys \in Nat \ {0}
ASSUME HoldersAssumption ==
    /\ {Nobody, Orphan} \cap (Stores \cup Clients) = {}
    /\ Nobody # Orphan
    /\ Stores \cap Clients = {}

VARIABLES
    blocks,          \* every block ever created: [kind, base, key]
    named,           \* kernel: key -> block, 0 for none
    region,          \* the register: kind -> [timestamp, key, block]
    shm_key_in_use,  \* the register: keys reserved
    mutex,           \* the monitor's mutex: its holder
    waiting          \* the monitor's queue: clients with a semaphore in it

registerVars == <<region, shm_key_in_use>>
sharedVars == <<blocks, named, registerVars, mutex, waiting>>

Kinds == {"static", "updatable"}
Keys == 0 .. MaxKeys - 1
Blocks == DOMAIN blocks

(* A SharedRegion is empty when its time stamp is 0.  block is history.    *)
Region(timestamp, key, block) ==
    [timestamp |-> timestamp, key |-> key, block |-> block]

SharedInit ==
    /\ blocks = <<>>
    /\ named = [k \in Keys |-> 0]
    /\ region = [kind \in Kinds |-> Region(0, 0, 0)]
    /\ shm_key_in_use = {}
    /\ mutex = Nobody
    /\ waiting = {}

SharedTypeOK ==
    /\ blocks \in Seq([kind : Kinds, base : Nat, key : Keys])
    /\ named \in [Keys -> {0} \cup Blocks]
    /\ region \in [Kinds -> [timestamp : Nat, key : Keys, block : {0} \cup Blocks]]
    /\ shm_key_in_use \subseteq Keys
    /\ mutex \in Stores \cup Clients \cup {Nobody, Orphan}
    /\ waiting \subseteq Clients

Lock(process) == mutex = Nobody /\ mutex' = process
Unlock == mutex' = Nobody

(* std::find: the first key that is not in use, if there is one.           *)
FreeKeys == Keys \ shm_key_in_use
IsFirstFree(key) == \A k \in FreeKeys : key <= k

ReserveKey(key) == shm_key_in_use' = shm_key_in_use \cup {key}

ReleaseKey(key) == shm_key_in_use' = shm_key_in_use \ {key}

(* Find and, when the name is new, Register: time stamp 1; otherwise the   *)
(* entry is pointed to the new key and its time stamp incremented.         *)
RegisterBlock(kind, key, block) ==
    region' = [region EXCEPT ![kind] = Region(region[kind].timestamp + 1, key, block)]

(* makeSharedMemory with a size: a block is created under the key.         *)
CreateBlock(kind, base, key) ==
    /\ blocks' = Append(blocks, [kind |-> kind, base |-> base, key |-> key])
    /\ named' = [named EXCEPT ![key] = Len(blocks) + 1]

(* IPC_RMID: the name goes at once, the memory with its last user.         *)
Remove(key) == named' = [named EXCEPT ![key] = 0]

(* notify_all posts every semaphore in the queue, under the mutex.         *)
NotifyAll == mutex = Nobody /\ waiting' = {} /\ UNCHANGED mutex

-----------------------------------------------------------------------------
(***************************************************************************)
(* osrm-datastore: Storage::Run, setupRegion and swapData                  *)
(* (src/storage/storage.cpp).  A run loads a whole dataset, or only the    *)
(* updatable part of it (only_metric), into fresh blocks, points the       *)
(* register to them under the monitor's mutex, wakes the clients and then  *)
(* removes the blocks that were replaced, once every client has let go of  *)
(* them.  Runs exclude each other by a file lock; the kernel releases it   *)
(* when a process dies, which it does not do for the mutex.                *)
(***************************************************************************)
CONSTANTS
    MayTimeOut,      \* --max-wait is given
    MaxRuns          \* bound: runs of osrm-datastore

VARIABLES
    file_lock,       \* osrm-datastore.lock: its holder
    store,           \* store[s]: the state of process s
    monitor,         \* whether the name of the monitor still leads to it
    lost,            \* history: keys that runs which were cut short gave up
    runs             \* runs so far

storageVars == <<file_lock, store, monitor, lost, runs>>

(* base: the static block the updatable data is loaded for; new: the       *)
(* blocks of handles, 0 for none; old: the blocks of old_handles.          *)
StoreAt(pc, base, new, old) == [pc |-> pc, base |-> base, new |-> new, old |-> old]

NoBlocks == [kind \in Kinds |-> 0]
IdleStore == StoreAt("idle", 0, NoBlocks, <<>>)

StorageInit ==
    /\ file_lock = Nobody
    /\ store = [s \in Stores |-> IdleStore]
    /\ monitor = "there"
    /\ lost = {}
    /\ runs = 0

StoreStates ==
    [pc : {"idle", "static", "updatable", "lock", "write_static",
           "write_updatable", "notify", "remove", "detach", "exit"},
     base : {0} \cup Blocks, new : [Kinds -> {0} \cup Blocks], old : Seq(Blocks)]

StorageTypeOK ==
    /\ file_lock \in Stores \cup {Nobody}
    /\ store \in [Stores -> StoreStates]
    /\ monitor \in {"there", "removed"}
    /\ lost \subseteq Keys
    /\ runs \in Nat

Goto(s, next) == store' = [store EXCEPT ![s] = next]

(* The keys a run has reserved and not registered yet, and those of the    *)
(* blocks it has replaced and not removed yet.                             *)
Owes(me, k) ==
    \/ /\ me.pc \in {"updatable", "lock", "write_static"} /\ me.new["static"] # 0
       /\ blocks[me.new["static"]].key = k
    \/ /\ me.pc \in {"lock", "write_static", "write_updatable"}
       /\ blocks[me.new["updatable"]].key = k
    \/ \E i \in 1 .. Len(me.old) : blocks[me.old[i]].key = k

(* Nothing in the code releases a key that a run did not come to release.  *)
CutShort(s) == lost' = lost \cup {k \in Keys : Owes(store[s], k)}

(* Storage::Run up to setupRegion.  A run that finds the monitor's name    *)
(* gone makes a new monitor; the model ends with the old one.              *)
StartRun(s, only_metric) ==
    /\ store[s].pc = "idle"
    /\ runs < MaxRuns
    /\ file_lock = Nobody
    /\ monitor = "there"
    /\ only_metric => region["static"].timestamp # 0
    /\ runs' = runs + 1
    /\ file_lock' = s
    /\ Goto(s, IF only_metric THEN StoreAt("updatable", region["static"].block, NoBlocks, <<>>)
                              ELSE StoreAt("static", 0, NoBlocks, <<>>))
    /\ UNCHANGED <<sharedVars, monitor, lost>>

(* CleanupSharedBarriers: SharedMonitor::remove takes the name away, those *)
(* who have the monitor mapped keep it, and nobody else gets to it.        *)
RemoveMonitor == monitor' = "removed"

(* An update of the metric of a dataset that does not exist throws a       *)
(* util::exception, which main does not catch: the process aborts.         *)
RefuseMetric(s) ==
    /\ store[s].pc = "idle"
    /\ runs < MaxRuns
    /\ file_lock = Nobody
    /\ monitor = "there"
    /\ region["static"].timestamp = 0
    /\ runs' = runs + 1
    /\ RemoveMonitor
    /\ UNCHANGED <<sharedVars, file_lock, store, lost>>

(* setupRegion, without the monitor's mutex: reserve a key, remove what a  *)
(* failed run may have left under it, create the block.                    *)
SetupStatic(s) ==
    /\ store[s].pc = "static"
    /\ \E key \in FreeKeys :
         /\ IsFirstFree(key)
         /\ ReserveKey(key)
         /\ CreateBlock("static", Len(blocks) + 1, key)
    /\ LET block == Len(blocks) + 1
       IN  Goto(s, StoreAt("updatable", block, [NoBlocks EXCEPT !["static"] = block], <<>>))
    /\ UNCHANGED <<region, mutex, waiting, file_lock, monitor, lost, runs>>

SetupUpdatable(s) ==
    /\ store[s].pc = "updatable"
    /\ \E key \in FreeKeys :
         /\ IsFirstFree(key)
         /\ ReserveKey(key)
         /\ CreateBlock("updatable", store[s].base, key)
    /\ Goto(s, StoreAt("lock", store[s].base,
                       [store[s].new EXCEPT !["updatable"] = Len(blocks) + 1], <<>>))
    /\ UNCHANGED <<region, mutex, waiting, file_lock, monitor, lost, runs>>

(* A file cannot be read, or memory runs out: the RuntimeError or          *)
(* bad_alloc is caught by main and the process ends.  Its blocks stay      *)
(* where they are and their keys stay reserved.                            *)
FailRun(s) ==
    /\ store[s].pc \in {"static", "updatable", "lock"}
    /\ CutShort(s)
    /\ Goto(s, StoreAt("exit", store[s].base, store[s].new, <<>>))
    /\ UNCHANGED <<sharedVars, file_lock, monitor, runs>>

(* No key is left, a file is missing or a checksum differs, or the kernel  *)
(* refuses a block: nobody catches the exception, and the handler of       *)
(* SIGABRT runs.  The kernel releases the file lock.                       *)
AbortRun(s) ==
    /\ store[s].pc \in {"static", "updatable", "lock"}
    /\ CutShort(s)
    /\ RemoveMonitor
    /\ file_lock' = Nobody
    /\ Goto(s, IdleStore)
    /\ UNCHANGED <<sharedVars, runs>>

LockRegions(s) ==
    /\ store[s].pc = "lock"
    /\ Lock(s)
    /\ Goto(s, StoreAt(IF store[s].new["static"] # 0 THEN "write_static" ELSE "write_updatable",
                       store[s].base, store[s].new, <<>>))
    /\ UNCHANGED <<blocks, named, registerVars, waiting, file_lock, monitor, lost, runs>>

(* timed_lock fails: the new blocks are removed, their keys stay reserved, *)
(* and the run reports success all the same.                               *)
LockTimeout(s) ==
    /\ MayTimeOut
    /\ store[s].pc = "lock"
    /\ mutex # Nobody
    /\ named' = [k \in Keys |->
                   IF \E kind \in Kinds : store[s].new[kind] # 0
                                            /\ blocks[store[s].new[kind]].key = k
                     THEN 0 ELSE named[k]]
    /\ CutShort(s)
    /\ Goto(s, StoreAt("exit", store[s].base, store[s].new, <<>>))
    /\ UNCHANGED <<blocks, registerVars, mutex, waiting, file_lock, monitor, runs>>

WithReplaced_AfterOverwrite(s, kind) ==
    IF region[kind].timestamp = 0 THEN store[s].old
                                  ELSE Append(store[s].old, store[s].new[kind])

(* old_handles gets the block the register names until now.                *)
WithReplaced(s, kind) ==
    IF region[kind].timestamp = 0 THEN store[s].old
                                  ELSE Append(store[s].old, region[kind].block)

WriteStatic_Unlocked(s) ==
    /\ store[s].pc = "write_static"
    /\ RegisterBlock("static", blocks[store[s].new["static"]].key, store[s].new["static"])
    /\ Unlock
    /\ Goto(s, StoreAt("write_updatable", store[s].base, store[s].new, WithReplaced(s, "static")))
    /\ UNCHANGED <<blocks, named, shm_key_in_use, waiting, file_lock, monitor, lost, runs>>

WriteStatic(s) ==
    /\ store[s].pc = "write_static"
    /\ RegisterBlock("static", blocks[store[s].new["static"]].key, store[s].new["static"])
    /\ Goto(s, StoreAt("write_updatable", store[s].base, store[s].new, WithReplaced(s, "static")))
    /\ UNCHANGED <<blocks, named, shm_key_in_use, mutex, waiting, file_lock, monitor, lost, runs>>

(* The second name of handles in the order of the map; then the scope that *)
(* holds the lock ends.                                                    *)
WriteUpdatable(s) ==
    /\ store[s].pc = "write_updatable"
    /\ RegisterBlock("updatable", blocks[store[s].new["updatable"]].key,
                     store[s].new["updatable"])
    /\ Unlock
    /\ Goto(s, StoreAt("notify", store[s].base, store[s].new, WithReplaced(s, "updatable")))
    /\ UNCHANGED <<blocks, named, shm_key_in_use, waiting, file_lock, monitor, lost, runs>>

NextOld(old) == IF old = <<>> THEN "exit" ELSE "remove"

NotifyClients_Skip(s) ==
    /\ store[s].pc = "notify"
    /\ Goto(s, StoreAt(NextOld(store[s].old), store[s].base, store[s].new, store[s].old))
    /\ UNCHANGED <<sharedVars, file_lock, monitor, lost, runs>>

NotifyClients(s) ==
    /\ store[s].pc = "notify"
    /\ NotifyAll
    /\ Goto(s, StoreAt(NextOld(store[s].old), store[s].base, store[s].new, store[s].old))
    /\ UNCHANGED <<blocks, named, registerVars, file_lock, monitor, lost, runs>>

(* One turn of the loop over old_handles: Remove, WaitForDetach,           *)
(* ReleaseKey.  used is the set of blocks some client has mapped.          *)
RemoveOld(s) ==
    /\ store[s].pc = "remove"
    /\ Remove(blocks[Head(store[s].old)].key)
    /\ Goto(s, StoreAt("detach", store[s].base, store[s].new, store[s].old))
    /\ UNCHANGED <<blocks, registerVars, mutex, waiting, file_lock, monitor, lost, runs>>

WaitForDetach_NoWait(s, used) ==
    /\ store[s].pc = "detach"
    /\ ReleaseKey(blocks[Head(store[s].old)].key)
    /\ Goto(s, StoreAt(NextOld(Tail(store[s].old)), store[s].base, store[s].new,
                       Tail(store[s].old)))
    /\ UNCHANGED <<blocks, named, region, mutex, waiting, file_lock, monitor, lost, runs>>

WaitForDetach_KeepKey(s, used) ==
    /\ store[s].pc = "detach"
    /\ Head(store[s].old) \notin used
    /\ Goto(s, StoreAt(NextOld(Tail(store[s].old)), store[s].base, store[s].new,
                       Tail(store[s].old)))
    /\ UNCHANGED <<sharedVars, file_lock, monitor, lost, runs>>

WaitForDetach(s, used) ==
    /\ store[s].pc = "detach"
    /\ Head(store[s].old) \notin used
    /\ ReleaseKey(blocks[Head(store[s].old)].key)
    /\ Goto(s, StoreAt(NextOld(Tail(store[s].old)), store[s].base, store[s].new,
                       Tail(store[s].old)))
    /\ UNCHANGED <<blocks, named, region, mutex, waiting, file_lock, monitor, lost, runs>>

ExitRun(s) ==
    /\ store[s].pc = "exit"
    /\ file_lock' = Nobody
    /\ Goto(s, IdleStore)
    /\ UNCHANGED <<sharedVars, monitor, lost, runs>>

StoreStep(s, used) ==
    \/ SetupStatic(s) \/ SetupUpdatable(s) \/ FailRun(s) \/ AbortRun(s)
    \/ LockRegions(s) \/ LockTimeout(s)
    \/ WriteStatic(s) \/ WriteUpdatable(s)
    \/ NotifyClients(s)
    \/ RemoveOld(s) \/ WaitForDetach(s, used)
    \/ ExitRun(s)

(* A signal at any point: the register, the blocks and the mutex stay as   *)
(* they are, the file lock is released.  SIGKILL does no more; the others  *)
(* run CleanupSharedBarriers.                                              *)
KillStore(s) ==
    /\ store[s].pc # "idle"
    /\ CutShort(s)
    /\ RemoveMonitor \/ UNCHANGED monitor
    /\ file_lock' = Nobody
    /\ mutex' = IF mutex = s THEN Orphan ELSE mutex
    /\ Goto(s, IdleStore)
    /\ UNCHANGED <<blocks, named, registerVars, waiting, runs>>
=============================================================================
