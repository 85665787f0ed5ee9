------------------------------- MODULE HotSwap -------------------------------
(***************************************************************************)
(* Datasets replaced under running servers: osrm-datastore processes       *)
(* (Storage) and osrm-routed processes (DataWatchdog) on one set of shared *)
(* regions.                                                                *)
(***************************************************************************)
EXTENDS Storage, DataWatchdog

CONSTANT
    MaxKills         \* bound: processes killed

VARIABLE
    kills            \* processes killed so far

vars == <<sharedVars, storageVars, watchdogVars, kills>>

Init ==
    /\ SharedInit
    /\ StorageInit
    /\ WatchdogInit
    /\ kills = 0

Kill ==
    /\ kills < MaxKills
    /\ kills' = kills + 1
    /\ \/ \E s \in Stores : KillStore(s) /\ UNCHANGED watchdogVars
       \/ \E c \in Clients : KillClient(c) /\ UNCHANGED storageVars

RunStore(s) == StoreStep(s, Used) /\ UNCHANGED <<watchdogVars, kills>>

Watch(c) == WatcherStep(c) /\ UNCHANGED <<storageVars, kills>>

Answer(c) == EndRequest(c) /\ UNCHANGED <<storageVars, kills>>

Destroy(c) == DestroyStep(c) /\ UNCHANGED <<storageVars, kills>>

Next ==
    \/ Kill
    \/ \E s \in Stores :
         \/ RunStore(s)
         \/ \E only_metric \in BOOLEAN :
              StartRun(s, only_metric) /\ UNCHANGED <<watchdogVars, kills>>
         \/ RefuseMetric(s) /\ UNCHANGED <<watchdogVars, kills>>
    \/ \E c \in Clients :
         \/ Watch(c) \/ Answer(c) \/ Destroy(c)
         \/ (Construct(c) \/ BeginRequest(c) \/ DestroyFlag(c))
              /\ UNCHANGED <<storageVars, kills>>

Spec == Init /\ [][Next]_vars

(* Every process that can take a step is scheduled, and every request      *)
(* ends.  A watcher does not spin: between two notifications it takes the  *)
(* mutex a bounded number of times, so weak fairness is enough.            *)
FairSpec ==
    /\ Spec
    /\ \A s \in Stores : WF_vars(RunStore(s))
    /\ \A c \in Clients :
         WF_vars(Watch(c)) /\ WF_vars(Answer(c)) /\ WF_vars(Destroy(c))

-----------------------------------------------------------------------------
(* Properties.                                                             *)

(* Types of the shared state and of both kinds of process.                 *)
TypeOK == SharedTypeOK /\ StorageTypeOK /\ WatchdogTypeOK /\ kills \in Nat

(* What SharedMemoryAllocator asserts before it opens a region: a block    *)
(* the register names exists under its key, so a watcher that holds the    *)
(* mutex finds it, whichever run was killed before.                        *)
RegisteredBlocksExist ==
    \A kind \in Kinds : region[kind].timestamp # 0 =>
        named[region[kind].key] = region[kind].block

(* A facade is made of a static block and of an updatable block that was   *)
(* loaded for exactly that static block: no request ever combines the      *)
(* graph of one dataset with the weights of another.                       *)
Consistent(facade) ==
    facade = Nothing \/ blocks[facade["updatable"]].base = facade["static"]

FacadesConsistent ==
    \A c \in Clients : Consistent(client[c].facade) /\ Consistent(client[c].held)

(* The file lock keeps two runs from setting up regions at the same time:  *)
(* "we have an exclusive lock for all osrm-datastore processes".           *)
OneRunAtATime ==
    \A s, r \in Stores : store[s].pc # "idle" /\ store[r].pc # "idle" => s = r

(* A key that is free names nothing and no client still has the block that *)
(* was created under it mapped: the next run can neither destroy nor       *)
(* overwrite data in use.                                                  *)
FreeKeysUnused ==
    \A k \in FreeKeys :
        /\ named[k] = 0
        /\ \A b \in Used : blocks[b].key # k

(* When no run is in progress, the reserved keys are the registered ones   *)
(* and those that runs which failed, were killed or timed out gave up: a   *)
(* run that goes through leaks nothing, whatever earlier runs left behind, *)
(* and nothing ever recovers a key that was given up.                      *)
NoKeyLeaked ==
    file_lock = Nobody =>
        shm_key_in_use =
            {region[kind].key : kind \in {k \in Kinds : region[k].timestamp # 0}} \cup lost

(* A run ends: every client switches and lets go of the old blocks.        *)
RunsEnd == \A s \in Stores : store[s].pc # "idle" ~> store[s].pc = "idle"

(* Every running server ends up with what is registered.                   *)
ServersFollow ==
    \A c \in Clients :
        client[c].owner = "up" ~>
            \/ client[c].owner # "up"
            \/ \A kind \in Kinds : client[c].facade[kind] = region[kind].block

(* The destructor returns: the flag it sets without the mutex is seen.     *)
DestructorReturns ==
    \A c \in Clients : client[c].owner \in {"notify", "join"} ~> client[c].owner = "down"

=============================================================================
