---------------------------- MODULE HotSwapProofs ----------------------------
(***************************************************************************)
(* The safety properties of HotSwap for any number of osrm-datastore and   *)
(* osrm-routed processes, keys, runs, starts and kills.                    *)
(***************************************************************************)
EXTENDS HotSwapRuns

(* The invariant, and what it says.                                        *)

(* Nothing is registered at first and no process runs.                     *)
LEMMA InitEstablishes == Init => IInv
<1> SUFFICES ASSUME Init PROVE IInv
  OBVIOUS
<1> USE DEF Init, SharedInit, StorageInit, WatchdogInit
<1>1. Blocks = {} /\ Len(blocks) = 0
  BY DEF Blocks
<1>2. <<>> \in Seq(Blocks) /\ <<>> \in Seq([kind : Kinds, base : Nat, key : Keys])
  OBVIOUS
<1>3. 0 \in Keys
  BY MaxKeysAssumption DEF Keys
<1>4. IdleStore \in StoreStates /\ IdleStore.pc = "idle" /\ IdleStore.old = <<>>
  BY <1>2 DEF IdleStore, StoreAt, StoreStates, NoBlocks
<1>5. /\ Down \in ClientStates /\ Down.owner = "down" /\ Down.watcher = "none"
      /\ Down.mapped = Nothing /\ Down.facade = Nothing /\ Down.held = Nothing
  BY <1>3 DEF Down, ClientAt, ClientStates, PerKind, Nothing
<1>6. TypeOK
  <2>1. SharedTypeOK
    BY <1>2, <1>3 DEF SharedTypeOK, Region
  <2>2. StorageTypeOK /\ WatchdogTypeOK
    BY <1>4, <1>5 DEF StorageTypeOK, WatchdogTypeOK
  <2> QED
    BY <2>1, <2>2 DEF TypeOK
<1>7. LockInv
  BY <1>4, <1>5, HoldersAssumption DEF LockInv
<1>8. NameInv /\ RegionInv /\ PairInv
  BY DEF NameInv, RegionInv, PairInv, Region, Kinds
<1>9. StoreFits(IdleStore)
  BY <1>4 DEF StoreFits
<1>10. ClientFits(Down)
  BY <1>5, NothingFits DEF ClientFits
<1>11. StoreInv /\ ClientInv
  BY <1>9, <1>10 DEF StoreInv, ClientInv
<1> QED
  BY <1>6, <1>7, <1>8, <1>11 DEF IInv

(* Every step of HotSwap keeps the invariant.                              *)
LEMMA NextKeeps == ASSUME IInv, [Next]_vars PROVE IInv'
<1>1. CASE UNCHANGED vars
  <2>1. UNCHANGED <<blocks, named, region, shm_key_in_use, mutex, waiting, file_lock, store,
                    monitor, lost, runs, client, starts, kills>>
    BY <1>1 DEF vars, sharedVars, registerVars, storageVars, watchdogVars
  <2>2. Blocks' = Blocks /\ StoreStates' = StoreStates /\ ClientStates' = ClientStates
    BY <2>1 DEF Blocks, StoreStates, ClientStates, PerKind
  <2>3. TypeOK'
    BY <2>1, <2>2 DEF IInv, TypeOK, SharedTypeOK, StorageTypeOK, WatchdogTypeOK
  <2>4. LockInv' /\ NameInv' /\ PairInv'
    BY <2>1 DEF IInv, LockInv, NameInv, PairInv
  <2>5. \A b : (Current(b) <=> Current(b)') /\ (Registered(b) <=> Registered(b)')
    BY <2>1, <2>2 DEF Current, Registered
  <2>6. RegionInv'
    BY <2>1, <2>5 DEF IInv, RegionInv
  <2>7. ASSUME NEW m, StoreFits(m) PROVE StoreFits(m)'
    BY <2>1, <2>5, <2>7 DEF StoreFits, Fresh
  <2>8. ASSUME NEW m, ClientFits(m) PROVE ClientFits(m)'
    BY <2>1, <2>5, <2>8 DEF ClientFits, Whole
  <2>9. StoreInv' /\ ClientInv'
    BY <2>1, <2>7, <2>8 DEF IInv, StoreInv, ClientInv
  <2> QED
    BY <2>3, <2>4, <2>6, <2>9 DEF IInv
<1>2. ASSUME NEW s \in Stores, RunStore(s) PROVE IInv'
  BY <1>2, SetupStaticKeeps, SetupUpdatableKeeps, FailRunKeeps, AbortRunKeeps, LockRegionsKeeps,
     LockTimeoutKeeps, WriteStaticKeeps, WriteUpdatableKeeps, NotifyClientsKeeps,
     RemoveOldKeeps, WaitForDetachKeeps, ExitRunKeeps
  DEF RunStore, StoreStep
<1>3. CASE Kill
  BY <1>3, KillStoreKeeps, ClientActions DEF Kill
<1> QED
  BY <1>1, <1>2, <1>3, StartRunKeeps, RefuseMetricKeeps, ClientActions DEF Next

(* The inductive invariant holds in every reachable state.                 *)
THEOREM Invariant == Spec => []IInv
BY InitEstablishes, NextKeeps, PTL DEF Spec

(* The register, the processes and the blocks keep their types.            *)
THEOREM TypesKept == Spec => []TypeOK
<1>1. IInv => TypeOK
  BY DEF IInv
<1> QED
  BY <1>1, Invariant, PTL

(* A watcher that holds the mutex finds every registered block under its   *)
(* key, whichever processes were killed and however many runs there were.  *)
THEOREM RegisteredExist == Spec => []RegisteredBlocksExist
<1>1. IInv => RegisteredBlocksExist
  BY DEF IInv, RegionInv, RegisteredBlocksExist
<1> QED
  BY <1>1, Invariant, PTL

(* No facade and no request combines the graph of one dataset with the     *)
(* weights of another.                                                     *)
THEOREM FacadesMatch == Spec => []FacadesConsistent
<1>1. IInv => FacadesConsistent
  BY DEF IInv, ClientInv, ClientFits, Whole, FacadesConsistent, Consistent
<1> QED
  BY <1>1, Invariant, PTL

(* Two runs of osrm-datastore are never in progress at the same time.      *)
THEOREM RunsExclude == Spec => []OneRunAtATime
<1>1. IInv => OneRunAtATime
  BY DEF IInv, LockInv, OneRunAtATime
<1> QED
  BY <1>1, Invariant, PTL

(* A key that is free names nothing, and no client has a block mapped that *)
(* was created under it.                                                   *)
THEOREM FreeKeysSafe == Spec => []FreeKeysUnused
<1>1. ASSUME IInv, NEW b \in Used PROVE blocks[b].key \in shm_key_in_use
  <2>1. PICK c \in Clients : b \in UsedBy(c) /\ b # 0
    BY <1>1 DEF Used
  <2>2. PICK kind \in Kinds : b \in {client[c].mapped[kind], client[c].facade[kind], client[c].held[kind]}
    BY <2>1 DEF UsedBy
  <2>3. ClientFits(client[c])
    BY <1>1 DEF IInv, ClientInv
  <2>4. Current(b)
    BY <2>1, <2>2, <2>3, NothingFits DEF ClientFits, Whole
  <2> QED
    BY <2>4 DEF Current
<1>2. IInv => FreeKeysUnused
  <2> SUFFICES ASSUME IInv, NEW k \in FreeKeys
               PROVE  named[k] = 0 /\ \A b \in Used : blocks[b].key # k
    BY DEF FreeKeysUnused
  <2>1. k \in Keys /\ k \notin shm_key_in_use
    BY DEF FreeKeys
  <2>2. named[k] = 0
    BY <2>1 DEF IInv, NameInv
  <2> QED
    BY <2>1, <2>2, <1>1
<1> QED
  BY <1>2, Invariant, PTL

-----------------------------------------------------------------------------
(* A run that goes through leaks no key, and a key that is given up stays  *)
(* reserved.                                                               *)

KeyRegistered(k) == \E kind \in Kinds : region[kind].timestamp # 0 /\ region[kind].key = k

(* A reserved key is registered or owed by the run in progress, or else it *)
(* is one that was given up; and those stay reserved.                      *)
Accounted ==
    /\ lost \subseteq shm_key_in_use
    /\ \A k \in shm_key_in_use :
         k \in lost <=> ~(KeyRegistered(k) \/ \E s \in Stores : Owes(store[s], k))

(* A run that is not in progress, or has ended, owes nothing.              *)
LEMMA OwesNothing ==
    ASSUME NEW me, me.pc \in {"idle", "static", "exit"}, me.old = <<>>, NEW k
    PROVE  ~Owes(me, k) /\ ~Owes(me, k)'
<1>1. \A i : i \notin 1 .. Len(me.old)
  OBVIOUS
<1> QED
  BY <1>1, Zenon DEF Owes

(* Only the run that takes the step owes anything.                         *)
LEMMA OwedByOne ==
    ASSUME IInv, Accounted, NEW s \in Stores, store[s].pc # "idle" \/ file_lock = Nobody,
           NEW k \in shm_key_in_use
    PROVE  k \in lost <=> ~(KeyRegistered(k) \/ Owes(store[s], k))
<1>1. ASSUME NEW r \in Stores, r # s, Owes(store[r], k) PROVE FALSE
  <2>1. store[r].pc = "idle" /\ StoreFits(store[r])
    BY <1>1, HoldersAssumption, StoreFacts
  <2>2. store[r].old = <<>>
    BY <2>1 DEF StoreFits
  <2> QED
    BY <1>1, <2>1, <2>2, OwesNothing
<1> QED
  BY <1>1, Zenon DEF Accounted

(* It is enough to account for the keys by what the run owes afterwards.   *)
LEMMA AccountStep ==
    ASSUME IInv, NEW s \in Stores, NEW me, Goto(s, me), store[s].pc # "idle" \/ file_lock = Nobody,
           lost' \subseteq shm_key_in_use',
           \A k \in shm_key_in_use' : k \in lost' <=> ~(KeyRegistered(k)' \/ Owes(me, k)')
    PROVE  Accounted'
<1>1. store \in [Stores -> StoreStates] /\ store' = [store EXCEPT ![s] = me]
  BY DEF IInv, TypeOK, StorageTypeOK, Goto
<1>2. store'[s] = me /\ \A r \in Stores : r # s => store'[r] = store[r]
  BY <1>1
<1>3. ASSUME NEW k PROVE (\E r \in Stores : Owes(store[r], k)') <=> Owes(me, k)'
  <2>1. ASSUME NEW r \in Stores, r # s PROVE ~Owes(store[r], k)'
    <3>1. PICK other : other = store[r]
      OBVIOUS
    <3>2. StoreFits(other) /\ other.pc = "idle"
      BY <2>1, <3>1, HoldersAssumption, StoreFacts
    <3>3. other.old = <<>>
      BY <3>2 DEF StoreFits
    <3>4. ~Owes(other, k)'
      BY <3>2, <3>3, OwesNothing
    <3> QED
      BY <3>1, <3>4, <2>1, <1>2
  <2>2. Owes(store[s], k)' <=> Owes(me, k)'
    BY <1>2
  <2> QED
    BY <2>1, <2>2, Zenon
<1> QED
  BY <1>3, Zenon DEF Accounted

(* A step that gives up nothing: what is registered or owed stays so, new  *)
(* keys are owed, and only a key that is owed is released.                 *)
LEMMA DebtsKept ==
    ASSUME IInv, Accounted, NEW s \in Stores, store[s].pc # "idle" \/ file_lock = Nobody,
           NEW me, Goto(s, me), UNCHANGED lost,
           \A k \in shm_key_in_use' : k \notin shm_key_in_use => KeyRegistered(k)' \/ Owes(me, k)',
           \A k \in shm_key_in_use : k \notin shm_key_in_use' => Owes(store[s], k),
           \A k \in shm_key_in_use : k \in shm_key_in_use' =>
               ((KeyRegistered(k)' \/ Owes(me, k)') <=> (KeyRegistered(k) \/ Owes(store[s], k)))
    PROVE  Accounted'
<1>1. \A k \in shm_key_in_use : k \in lost <=> ~(KeyRegistered(k) \/ Owes(store[s], k))
  BY OwedByOne
<1>2. lost \subseteq shm_key_in_use
  BY DEF Accounted
<1>3. lost' \subseteq shm_key_in_use'
  BY <1>1, <1>2, Zenon
<1>4. \A k \in shm_key_in_use' : k \in lost' <=> ~(KeyRegistered(k)' \/ Owes(me, k)')
  BY <1>1, <1>2, Zenon
<1> QED
  BY <1>3, <1>4, AccountStep

(* A step that changes neither the register nor what the run owes.         *)
LEMMA AccountPlain ==
    ASSUME IInv, Accounted, NEW s \in Stores, store[s].pc # "idle" \/ file_lock = Nobody,
           NEW me, Goto(s, me), UNCHANGED <<blocks, region, shm_key_in_use, lost>>,
           \A k : Owes(store[s], k) <=> Owes(me, k)
    PROVE  Accounted'
<1>1. \A k : (KeyRegistered(k) <=> KeyRegistered(k)') /\ (Owes(me, k) <=> Owes(me, k)')
  BY DEF KeyRegistered, Owes
<1> QED
  BY <1>1, DebtsKept, Zenon

(* What a run owes is reserved, and not registered.                        *)
LEMMA OwedApart ==
    ASSUME IInv, NEW s \in Stores, NEW k, Owes(store[s], k)
    PROVE  k \in shm_key_in_use /\ ~KeyRegistered(k)
<1>1. StoreFits(store[s])
  BY StoreFacts
<1>2. PICK b : Current(b) /\ ~Registered(b) /\ blocks[b].key = k
  <2>1. CASE /\ store[s].pc \in {"updatable", "lock", "write_static"} /\ store[s].new["static"] # 0
             /\ blocks[store[s].new["static"]].key = k
    BY <2>1, <1>1, Zenon DEF StoreFits, Fresh
  <2>2. CASE /\ store[s].pc \in {"lock", "write_static", "write_updatable"}
             /\ blocks[store[s].new["updatable"]].key = k
    BY <2>2, <1>1, Zenon DEF StoreFits, Fresh
  <2>3. CASE \E i \in 1 .. Len(store[s].old) : blocks[store[s].old[i]].key = k
    BY <2>3, <1>1, Zenon DEF StoreFits
  <2> QED
    BY <2>1, <2>2, <2>3, Zenon DEF Owes
<1> QED
  BY <1>2, KeysApart DEF KeyRegistered, Current

(* A run that is cut short gives up what it owes.                          *)
LEMMA AccountCutShort ==
    ASSUME IInv, Accounted, NEW s \in Stores, store[s].pc # "idle", CutShort(s),
           NEW me, Goto(s, me), me.pc \in {"idle", "exit"}, me.old = <<>>,
           UNCHANGED <<blocks, region, shm_key_in_use>>
    PROVE  Accounted'
<1>1. \A k \in shm_key_in_use : k \in lost <=> ~(KeyRegistered(k) \/ Owes(store[s], k))
  BY OwedByOne
<1>2. \A k : ~Owes(me, k)' /\ (KeyRegistered(k) <=> KeyRegistered(k)')
  BY OwesNothing DEF KeyRegistered
<1>3. lost \subseteq shm_key_in_use /\ shm_key_in_use \subseteq Keys
  BY DEF Accounted, IInv, TypeOK, SharedTypeOK
<1>4. \A k \in Keys : Owes(store[s], k) => k \in shm_key_in_use /\ ~KeyRegistered(k)
  BY OwedApart
<1>5. \A k : k \in lost' <=> k \in lost \/ (k \in Keys /\ Owes(store[s], k))
  BY DEF CutShort
<1>6. lost' \subseteq shm_key_in_use'
  BY <1>3, <1>4, <1>5, Zenon
<1>7. \A k \in shm_key_in_use' : k \in lost' <=> ~(KeyRegistered(k)' \/ Owes(me, k)')
  BY <1>1, <1>2, <1>3, <1>4, <1>5, Zenon
<1> QED
  BY <1>6, <1>7, AccountStep

(* A key that is reserved is owed by the run that reserved it.             *)
LEMMA AccountSetup ==
    ASSUME IInv, Accounted, NEW s \in Stores, SetupStatic(s) \/ SetupUpdatable(s)
    PROVE  Accounted'
<1>1. PICK old : old = store[s]
  OBVIOUS
<1>2. PICK block : block = Len(blocks) + 1
  OBVIOUS
<1>3. /\ TypeOK /\ Len(blocks) \in Nat /\ Blocks = 1 .. Len(blocks) /\ 0 \notin Blocks
      /\ old \in StoreStates /\ StoreFits(old) /\ old.base \in Nat
      /\ old.new \in [Kinds -> {0} \cup Blocks]
  BY <1>1, BlocksNumbered, StoreFacts DEF IInv, StoreStates
<1>4. PICK kind \in Kinds, base \in Nat, key \in FreeKeys : ReserveKey(key) /\ CreateBlock(kind, base, key)
  BY <1>1, <1>3 DEF SetupStatic, SetupUpdatable, Kinds
<1>5. /\ blocks'[block].key = key /\ block # 0
      /\ \A b \in Blocks : blocks'[b] = blocks[b]
  <2>1. /\ blocks'[Len(blocks) + 1] = [kind |-> kind, base |-> base, key |-> key]
        /\ \A b \in Blocks : blocks'[b] = blocks[b]
    BY <1>3, <1>4, CreateKeeps
  <2> QED
    BY <2>1, <1>2, <1>3
<1>6. /\ shm_key_in_use' = shm_key_in_use \cup {key} /\ key \notin shm_key_in_use
      /\ UNCHANGED lost /\ \A k : KeyRegistered(k)' <=> KeyRegistered(k)
  BY <1>4 DEF ReserveKey, FreeKeys, SetupStatic, SetupUpdatable, KeyRegistered
<1>7. old.old = <<>> /\ Len(old.old) = 0 /\ old.pc \in {"static", "updatable"}
  <2>1. old.pc \in {"static", "updatable"}
    BY <1>1 DEF SetupStatic, SetupUpdatable
  <2>2. old.old = <<>>
    BY <2>1, <1>3 DEF StoreFits
  <2> QED
    BY <2>1, <2>2
<1>8. \A k : Owes(old, k) <=> /\ old.pc = "updatable" /\ old.new["static"] \in Blocks
                              /\ blocks[old.new["static"]].key = k
  BY <1>3, <1>7 DEF Owes, Kinds
<1>9. PICK me : Goto(s, me) /\ \A k : Owes(me, k)' <=> (k = key \/ Owes(old, k))
  <2>1. CASE SetupStatic(s)
    <3>1. PICK me : me = StoreAt("updatable", block, [NoBlocks EXCEPT !["static"] = block], <<>>)
      OBVIOUS
    <3>2. /\ Goto(s, me) /\ me.pc = "updatable" /\ me.new["static"] = block /\ me.old = <<>>
          /\ old.pc = "static"
      BY <3>1, <1>1, <1>2, <2>1 DEF SetupStatic, StoreAt, NoBlocks, Kinds
    <3>3. \A i : i \notin 1 .. Len(me.old)
      BY <3>2
    <3>4. \A k : Owes(me, k)' <=> k = key
      BY <3>2, <3>3, <1>5 DEF Owes
    <3> QED
      BY <3>2, <3>4, <1>8
  <2>2. CASE SetupUpdatable(s)
    <3>1. PICK me : me = StoreAt("lock", old.base, [old.new EXCEPT !["updatable"] = block], <<>>)
      OBVIOUS
    <3>2. /\ Goto(s, me) /\ me.pc = "lock" /\ me.new["updatable"] = block /\ me.old = <<>>
          /\ me.new["static"] = old.new["static"] /\ old.pc = "updatable"
      BY <3>1, <1>1, <1>2, <1>3, <2>2 DEF SetupUpdatable, StoreAt, Kinds
    <3>3. \A i : i \notin 1 .. Len(me.old)
      BY <3>2
    <3>4. \A k : Owes(me, k)' <=>
            (k = key \/ (old.new["static"] # 0 /\ blocks'[old.new["static"]].key = k))
      BY <3>2, <3>3, <1>5 DEF Owes
    <3>5. old.new["static"] # 0 <=> old.new["static"] \in Blocks
      BY <1>3 DEF Kinds
    <3> QED
      BY <3>2, <3>4, <3>5, <1>5, <1>8
  <2> QED
    BY <2>1, <2>2
<1> QED
  BY <1>1, <1>6, <1>7, <1>9, DebtsKept

(* The first write: the key that was registered is owed, the new one is    *)
(* registered.                                                             *)
LEMMA AccountWriteStatic ==
    ASSUME IInv, Accounted, NEW s \in Stores, WriteStatic(s)
    PROVE  Accounted'
<1>1. PICK old : old = store[s]
  OBVIOUS
<1>2. PICK gone : gone = WithReplaced(s, "static")
  OBVIOUS
<1>3. PICK me : me = StoreAt("write_updatable", old.base, old.new, gone)
  OBVIOUS
<1>4. UNCHANGED <<blocks, shm_key_in_use, lost>> /\ Goto(s, me) /\ old.pc = "write_static"
  BY <1>1, <1>2, <1>3 DEF WriteStatic
<1>5. me.pc = "write_updatable" /\ me.new = old.new /\ me.old = gone
  BY <1>3 DEF StoreAt
<1>6. old.old = <<>> /\ Len(old.old) = 0 /\ old.new["static"] # 0
  <2>1. old.old = <<>> /\ old.new["static"] # 0
    BY <1>1, <1>4, StoreFacts DEF StoreFits
  <2> QED
    BY <2>1
<1>7. /\ region \in [Kinds -> [timestamp : Nat, key : Keys, block : {0} \cup Blocks]]
      /\ region' = [region EXCEPT !["static"] =
                      Region(region["static"].timestamp + 1, blocks[old.new["static"]].key, old.new["static"])]
  BY <1>1 DEF WriteStatic, RegisterBlock, IInv, TypeOK, SharedTypeOK
<1>8. /\ region'["updatable"] = region["updatable"]
      /\ region'["static"].key = blocks[old.new["static"]].key /\ region'["static"].timestamp # 0
  BY <1>7 DEF Region, Kinds
<1>9. \A k : (\E i \in 1 .. Len(gone) : blocks[gone[i]].key = k)
              <=> region["static"].timestamp # 0 /\ region["static"].key = k
  <2>1. CASE region["static"].timestamp = 0
    BY <2>1, <1>1, <1>2, <1>6 DEF WithReplaced
  <2>2. CASE region["static"].timestamp # 0
    <3>1. PICK b : b = region["static"].block
      OBVIOUS
    <3>2. gone = <<b>>
      BY <2>2, <3>1, <1>1, <1>2, <1>6 DEF WithReplaced
    <3>3. 1 .. Len(gone) = {1} /\ gone[1] = b
      BY <3>2
    <3>4. blocks[b].key = region["static"].key
      BY <2>2, <3>1 DEF IInv, RegionInv, Kinds
    <3> QED
      BY <2>2, <3>3, <3>4
  <2> QED
    BY <2>1, <2>2, Zenon
<1>10. \A k : Owes(old, k) <=> (k = blocks[old.new["static"]].key \/ k = blocks[old.new["updatable"]].key)
  BY <1>4, <1>6 DEF Owes
<1>11. \A k : Owes(me, k)' <=> \/ k = blocks[old.new["updatable"]].key
                               \/ region["static"].timestamp # 0 /\ region["static"].key = k
  <2>1. \A k : (\E i \in 1 .. Len(me.old) : blocks'[me.old[i]].key = k)
                <=> region["static"].timestamp # 0 /\ region["static"].key = k
    BY <1>4, <1>5, <1>9, Zenon
  <2> QED
    BY <2>1, <1>4, <1>5, Zenon DEF Owes
<1>12. \A k : KeyRegistered(k)' <=> \/ k = blocks[old.new["static"]].key
                                    \/ region["updatable"].timestamp # 0 /\ region["updatable"].key = k
  BY <1>8 DEF KeyRegistered, Kinds
<1>13. \A k : (KeyRegistered(k)' \/ Owes(me, k)') <=> (KeyRegistered(k) \/ Owes(old, k))
  BY <1>10, <1>11, <1>12 DEF KeyRegistered, Kinds
<1> QED
  BY <1>1, <1>4, <1>13, DebtsKept

(* The second write.                                                       *)
LEMMA AccountWriteUpdatable ==
    ASSUME IInv, Accounted, NEW s \in Stores, WriteUpdatable(s)
    PROVE  Accounted'
<1>1. PICK old : old = store[s]
  OBVIOUS
<1>2. PICK gone : gone = WithReplaced(s, "updatable")
  OBVIOUS
<1>3. PICK me : me = StoreAt("notify", old.base, old.new, gone)
  OBVIOUS
<1>4. UNCHANGED <<blocks, shm_key_in_use, lost>> /\ Goto(s, me) /\ old.pc = "write_updatable"
  BY <1>1, <1>2, <1>3 DEF WriteUpdatable
<1>5. me.pc = "notify" /\ me.old = gone
  BY <1>3 DEF StoreAt
<1>6. old.old \in Seq(Blocks)
  BY <1>1, StoreFacts DEF StoreStates
<1>7. /\ region \in [Kinds -> [timestamp : Nat, key : Keys, block : {0} \cup Blocks]]
      /\ region' = [region EXCEPT !["updatable"] =
                      Region(region["updatable"].timestamp + 1, blocks[old.new["updatable"]].key,
                             old.new["updatable"])]
  BY <1>1 DEF WriteUpdatable, RegisterBlock, IInv, TypeOK, SharedTypeOK
<1>8. /\ region'["static"] = region["static"]
      /\ region'["updatable"].key = blocks[old.new["updatable"]].key /\ region'["updatable"].timestamp # 0
  BY <1>7 DEF Region, Kinds
<1>9. \A k : (\E i \in 1 .. Len(gone) : blocks[gone[i]].key = k)
              <=> \/ \E i \in 1 .. Len(old.old) : blocks[old.old[i]].key = k
                  \/ region["updatable"].timestamp # 0 /\ region["updatable"].key = k
  <2>1. CASE region["updatable"].timestamp = 0
    BY <2>1, <1>1, <1>2 DEF WithReplaced
  <2>2. CASE region["updatable"].timestamp # 0
    <3>1. PICK b : b = region["updatable"].block
      OBVIOUS
    <3>2. Current(b) /\ blocks[b].key = region["updatable"].key /\ b \in Blocks
      BY <2>2, <3>1 DEF IInv, RegionInv, Kinds, Current
    <3>3. gone = Append(old.old, b)
      BY <2>2, <3>1, <1>1, <1>2 DEF WithReplaced
    <3>4. /\ Len(gone) = Len(old.old) + 1 /\ Len(old.old) \in Nat
          /\ \A i \in 1 .. Len(old.old) : gone[i] = old.old[i]
          /\ gone[Len(old.old) + 1] = b
      BY <3>2, <3>3, <1>6, AppendProperties, LenProperties
    <3>5. 1 .. Len(gone) = (1 .. Len(old.old)) \cup {Len(old.old) + 1}
      BY <3>4
    <3> QED
      BY <2>2, <3>2, <3>4, <3>5
  <2> QED
    BY <2>1, <2>2, Zenon
<1>10. \A k : Owes(old, k) <=> \/ k = blocks[old.new["updatable"]].key
                               \/ \E i \in 1 .. Len(old.old) : blocks[old.old[i]].key = k
  BY <1>4 DEF Owes
<1>11. \A k : Owes(me, k)' <=> \/ \E i \in 1 .. Len(old.old) : blocks[old.old[i]].key = k
                               \/ region["updatable"].timestamp # 0 /\ region["updatable"].key = k
  <2>1. \A k : Owes(me, k)' <=> \E i \in 1 .. Len(me.old) : blocks'[me.old[i]].key = k
    BY <1>5 DEF Owes
  <2>2. \A k : Owes(me, k)' <=> \E i \in 1 .. Len(gone) : blocks[gone[i]].key = k
    BY <2>1, <1>4, <1>5, Zenon
  <2> QED
    BY <2>2, <1>9, Zenon
<1>12. \A k : KeyRegistered(k)' <=> \/ k = blocks[old.new["updatable"]].key
                                    \/ region["static"].timestamp # 0 /\ region["static"].key = k
  BY <1>8 DEF KeyRegistered, Kinds
<1>13. \A k : (KeyRegistered(k)' \/ Owes(me, k)') <=> (KeyRegistered(k) \/ Owes(old, k))
  <2>1. \A k : KeyRegistered(k) <=> \/ region["static"].timestamp # 0 /\ region["static"].key = k
                                    \/ region["updatable"].timestamp # 0 /\ region["updatable"].key = k
    BY DEF KeyRegistered, Kinds
  <2> QED
    BY <2>1, <1>10, <1>11, <1>12, Zenon
<1> QED
  BY <1>1, <1>4, <1>13, DebtsKept

(* The key of a block that was removed is released.                        *)
LEMMA AccountDetach ==
    ASSUME IInv, Accounted, NEW s \in Stores, WaitForDetach(s, Used)
    PROVE  Accounted'
<1>1. PICK old : old = store[s].old
  OBVIOUS
<1>2. PICK me : me = StoreAt(NextOld(Tail(old)), store[s].base, store[s].new, Tail(old))
  OBVIOUS
<1>3. /\ UNCHANGED <<blocks, region, lost>> /\ Goto(s, me) /\ store[s].pc = "detach"
      /\ shm_key_in_use' = shm_key_in_use \ {blocks[Head(old)].key}
  BY <1>1, <1>2 DEF WaitForDetach, ReleaseKey
<1>4. me.old = Tail(old) /\ me.pc \in {"exit", "remove"}
  BY <1>2 DEF StoreAt, NextOld
<1>5. old \in Seq(Blocks) /\ old # <<>> /\ Head(old) = old[1]
  BY <1>1, <1>3, OldFacts
<1>6. /\ Len(old) \in Nat /\ Len(old) >= 1 /\ Len(Tail(old)) = Len(old) - 1
      /\ \A i \in 1 .. Len(old) - 1 : Tail(old)[i] = old[i + 1]
  BY <1>5, HeadTailProperties, LenProperties, EmptySeq
<1>7. \A k : Owes(store[s], k) <=> \E i \in 1 .. Len(old) : blocks[old[i]].key = k
  BY <1>1, <1>3 DEF Owes
<1>8. \A k : Owes(me, k)' <=> \E i \in 1 .. Len(old) - 1 : blocks[old[i + 1]].key = k
  <2>1. \A k : Owes(me, k)' <=> \E i \in 1 .. Len(me.old) : blocks'[me.old[i]].key = k
    BY <1>4 DEF Owes
  <2>2. \A k : Owes(me, k)' <=> \E i \in 1 .. Len(Tail(old)) : blocks[Tail(old)[i]].key = k
    BY <2>1, <1>3, <1>4, Zenon
  <2>3. 1 .. Len(Tail(old)) = 1 .. Len(old) - 1
    BY <1>6
  <2>4. \A i \in 1 .. Len(old) - 1 : blocks[Tail(old)[i]].key = blocks[old[i + 1]].key
    BY <1>6
  <2> QED
    BY <2>2, <2>3, <2>4, Zenon
<1>9. \A k : (\E i \in 1 .. Len(old) : blocks[old[i]].key = k)
              <=> k = blocks[old[1]].key \/ \E i \in 1 .. Len(old) - 1 : blocks[old[i + 1]].key = k
  <2>1. \A i \in 1 .. Len(old) : i = 1 \/ (i - 1 \in 1 .. Len(old) - 1 /\ (i - 1) + 1 = i)
    BY <1>6
  <2>2. \A i \in 1 .. Len(old) - 1 : i + 1 \in 1 .. Len(old)
    BY <1>6
  <2>3. 1 \in 1 .. Len(old)
    BY <1>6
  <2> QED
    BY <2>1, <2>2, <2>3
<1>10. \A k : KeyRegistered(k)' <=> KeyRegistered(k)
  BY <1>3 DEF KeyRegistered
<1>11. \A k : k # blocks[old[1]].key => (Owes(me, k)' <=> Owes(store[s], k))
  BY <1>7, <1>8, <1>9, Zenon
<1>12. Owes(store[s], blocks[old[1]].key)
  BY <1>7, <1>9, Zenon
<1>13. \A k : k \in shm_key_in_use' <=> k \in shm_key_in_use /\ k # blocks[old[1]].key
  BY <1>3, <1>5
<1> QED
  BY <1>3, <1>10, <1>11, <1>12, <1>13, DebtsKept

(* The other steps of a run that goes through change only how far it is.   *)
LEMMA AccountRest ==
    ASSUME IInv, Accounted, NEW s \in Stores,
           \/ \E only_metric \in BOOLEAN : StartRun(s, only_metric)
           \/ LockRegions(s) \/ NotifyClients(s) \/ RemoveOld(s) \/ ExitRun(s)
    PROVE  Accounted'
<1>1. UNCHANGED <<blocks, region, shm_key_in_use, lost>>
  BY DEF StartRun, LockRegions, NotifyClients, RemoveOld, ExitRun, sharedVars, registerVars
<1>2. StoreFits(store[s]) /\ store[s] \in StoreStates
  BY StoreFacts
<1>3. store[s].pc \in {"idle", "exit", "lock"} => store[s].old = <<>>
  BY <1>2 DEF StoreFits
<1>4. CASE \E only_metric \in BOOLEAN : StartRun(s, only_metric)
  <2>1. PICK me : /\ Goto(s, me) /\ me.old = <<>>
                  /\ me.pc = "static" \/ (me.pc = "updatable" /\ me.new["static"] = 0)
    BY <1>4 DEF StartRun, StoreAt, NoBlocks, Kinds
  <2>2. store[s].pc = "idle" /\ file_lock = Nobody
    BY <1>4 DEF StartRun
  <2>3. \A k : ~Owes(store[s], k)
    BY <2>2, <1>3, OwesNothing
  <2>4. \A i : i \notin 1 .. Len(me.old)
    BY <2>1
  <2>5. \A k : ~Owes(me, k)
    BY <2>1, <2>4 DEF Owes
  <2> QED
    BY <2>1, <2>2, <2>3, <2>5, <1>1, AccountPlain
<1>5. CASE ExitRun(s)
  <2>1. store[s].pc = "exit" /\ Goto(s, IdleStore) /\ IdleStore.pc = "idle" /\ IdleStore.old = <<>>
    BY <1>5 DEF ExitRun, IdleStore, StoreAt
  <2>2. \A k : ~Owes(store[s], k) /\ ~Owes(IdleStore, k)
    BY <2>1, <1>3, OwesNothing
  <2> QED
    BY <2>1, <2>2, <1>1, AccountPlain
<1>6. CASE NotifyClients(s) \/ RemoveOld(s)
  <2>1. PICK me : Goto(s, me) /\ me.old = store[s].old /\ me.pc \in {"exit", "remove", "detach"}
    BY <1>6 DEF NotifyClients, RemoveOld, StoreAt, NextOld
  <2>2. store[s].pc \in {"notify", "remove"}
    BY <1>6 DEF NotifyClients, RemoveOld
  <2>3. \A k : Owes(store[s], k) <=> \E i \in 1 .. Len(store[s].old) : blocks[store[s].old[i]].key = k
    BY <2>2 DEF Owes
  <2>4. \A k : Owes(me, k) <=> \E i \in 1 .. Len(me.old) : blocks[me.old[i]].key = k
    BY <2>1 DEF Owes
  <2>5. \A k : Owes(store[s], k) <=> Owes(me, k)
    BY <2>1, <2>3, <2>4, Zenon
  <2> QED
    BY <2>1, <2>2, <2>5, <1>1, AccountPlain
<1>7. CASE LockRegions(s)
  <2>1. PICK me : /\ Goto(s, me) /\ me.new = store[s].new /\ me.old = <<>>
                  /\ me.pc = IF store[s].new["static"] # 0 THEN "write_static" ELSE "write_updatable"
    BY <1>7 DEF LockRegions, StoreAt
  <2>2. store[s].pc = "lock" /\ store[s].old = <<>>
    BY <1>7, <1>3 DEF LockRegions
  <2>3. \A i : i \notin 1 .. Len(store[s].old) /\ i \notin 1 .. Len(me.old)
    BY <2>1, <2>2
  <2>4. \A k : Owes(store[s], k) <=> \/ store[s].new["static"] # 0 /\ blocks[store[s].new["static"]].key = k
                                     \/ blocks[store[s].new["updatable"]].key = k
    BY <2>2, <2>3 DEF Owes
  <2>5. \A k : Owes(me, k) <=> \/ me.new["static"] # 0 /\ blocks[me.new["static"]].key = k
                               \/ blocks[me.new["updatable"]].key = k
    BY <2>1, <2>3 DEF Owes
  <2>6. \A k : Owes(store[s], k) <=> Owes(me, k)
    BY <2>1, <2>4, <2>5, Zenon
  <2> QED
    BY <2>1, <2>2, <2>6, <1>1, AccountPlain
<1> QED
  BY <1>4, <1>5, <1>6, <1>7

(* A run that fails, aborts, times out or is killed.                       *)
LEMMA AccountGivenUp ==
    ASSUME IInv, Accounted, NEW s \in Stores,
           FailRun(s) \/ AbortRun(s) \/ LockTimeout(s) \/ KillStore(s)
    PROVE  Accounted'
<1>1. store[s].pc # "idle" /\ CutShort(s) /\ UNCHANGED <<blocks, region, shm_key_in_use>>
  BY DEF FailRun, AbortRun, LockTimeout, KillStore, sharedVars, registerVars
<1>2. PICK me : Goto(s, me) /\ me.pc \in {"idle", "exit"} /\ me.old = <<>>
  BY DEF FailRun, AbortRun, LockTimeout, KillStore, IdleStore, StoreAt
<1> QED
  BY <1>1, <1>2, AccountCutShort

(* Whatever runs failed, aborted, timed out or were killed before: when no *)
(* run is in progress, the reserved keys are the registered ones and those *)
(* that such runs gave up.                                                 *)
THEOREM NothingLeaks == Spec => []NoKeyLeaked
<1>1. Init => Accounted
  BY DEF Init, SharedInit, StorageInit, Accounted
<1>2. ASSUME IInv, Accounted, [Next]_vars PROVE Accounted'
  <2>1. CASE UNCHANGED <<blocks, region, shm_key_in_use, store, lost>>
    <3>1. \A k : KeyRegistered(k) <=> KeyRegistered(k)'
      BY <2>1 DEF KeyRegistered
    <3>2. \A s, k : Owes(store[s], k) <=> Owes(store[s], k)'
      BY <2>1 DEF Owes
    <3> QED
      BY <1>2, <2>1, <3>1, <3>2, Zenon DEF Accounted
  <2>2. ASSUME NEW s \in Stores, RunStore(s) PROVE Accounted'
    BY <1>2, <2>2, AccountSetup, AccountWriteStatic, AccountWriteUpdatable, AccountDetach,
       AccountRest, AccountGivenUp
    DEF RunStore, StoreStep
  <2>3. ASSUME NEW s \in Stores, KillStore(s) PROVE Accounted'
    BY <1>2, <2>3, AccountGivenUp
  <2>4. ASSUME NEW c \in Clients,
               \/ Watch(c) \/ Answer(c) \/ Destroy(c)
               \/ (Construct(c) \/ BeginRequest(c) \/ DestroyFlag(c))
                    /\ UNCHANGED <<storageVars, kills>>
        PROVE  Accounted'
    <3>1. UNCHANGED <<blocks, region, shm_key_in_use, store, lost>>
      BY <2>4 DEF Watch, Answer, Destroy, WatcherStep, DestroyStep, Construct, CheckRegions, WakeUp,
                  MapStatic, MapUpdatable, BeginRequest, EndRequest, DestroyFlag, DestroyNotify,
                  DestroyJoin, storageVars, sharedVars, registerVars
    <3> QED
      BY <2>1, <3>1
  <2>5. CASE UNCHANGED vars
    BY <2>1, <2>5 DEF vars, sharedVars, registerVars, storageVars
  <2>6. ASSUME NEW s \in Stores, RefuseMetric(s) PROVE Accounted'
    BY <2>1, <2>6 DEF RefuseMetric, sharedVars, registerVars
  <2>7. CASE Kill
    <3>1. ASSUME NEW c \in Clients, KillClient(c), UNCHANGED storageVars PROVE Accounted'
      BY <2>1, <3>1 DEF KillClient, storageVars, sharedVars, registerVars
    <3> QED
      BY <2>3, <2>7, <3>1 DEF Kill
  <2>8. ASSUME NEW s \in Stores, NEW only_metric \in BOOLEAN, StartRun(s, only_metric) PROVE Accounted'
    BY <1>2, <2>8, AccountRest
  <2> QED
    BY <1>2, <2>2, <2>4, <2>5, <2>6, <2>7, <2>8, Zenon DEF Next
<1>3. IInv /\ Accounted => NoKeyLeaked
  <2> SUFFICES ASSUME IInv, Accounted, file_lock = Nobody
               PROVE  shm_key_in_use =
                        {region[kind].key : kind \in {k \in Kinds : region[k].timestamp # 0}} \cup lost
    BY DEF NoKeyLeaked
  <2>1. ASSUME NEW k \in shm_key_in_use, k \notin lost PROVE KeyRegistered(k)
    <3>1. ASSUME NEW s \in Stores, Owes(store[s], k) PROVE FALSE
      <4>1. store[s].pc = "idle" /\ StoreFits(store[s])
        BY HoldersAssumption, StoreFacts
      <4>2. store[s].old = <<>>
        BY <4>1 DEF StoreFits
      <4> QED
        BY <3>1, <4>1, <4>2, OwesNothing
    <3> QED
      BY <2>1, <3>1 DEF Accounted
  <2>2. ASSUME NEW kind \in Kinds, region[kind].timestamp # 0 PROVE region[kind].key \in shm_key_in_use
    BY <2>2 DEF IInv, RegionInv, Current
  <2>3. lost \subseteq shm_key_in_use
    BY DEF Accounted
  <2> QED
    BY <2>1, <2>2, <2>3 DEF KeyRegistered
<1> QED
  BY <1>1, <1>2, <1>3, Invariant, PTL DEF Spec
=============================================================================
