----------------------------- MODULE HotSwapRuns -----------------------------
(***************************************************************************)
(* The steps of a run of osrm-datastore that create its blocks, that give  *)
(* them up when the lock times out, that register them and that remove and *)
(* release the ones they replace keep the invariant of HotSwapInvariant.   *)
(***************************************************************************)
EXTENDS HotSwapInvariant

(* Creating the blocks of a run, and giving them up.                       *)

(* What has to be shown of a step that leaves the register as it is.       *)
LEMMA RegisterKept ==
    ASSUME region' = region,
           \A which \in Kinds : region[which].timestamp # 0 =>
               /\ Current(region[which].block)'
               /\ blocks'[region[which].block].kind = which
               /\ blocks'[region[which].block].key = region[which].key
               /\ named'[region[which].key] = region[which].block
    PROVE  RegionInv'
BY DEF RegionInv

(* A block is set up under a free key: what other keys name, the register  *)
(* and what the clients have mapped stay as they are.                      *)
LEMMA SetupStep ==
    ASSUME IInv, NEW s \in Stores, NEW kind \in Kinds, NEW base \in Nat, NEW key \in FreeKeys,
           ReserveKey(key), CreateBlock(kind, base, key),
           NEW me, Goto(s, me), me \in StoreStates', StoreFits(me)',
           store[s].pc \in {"static", "updatable"}, me.pc \in {"updatable", "lock"},
           UNCHANGED <<region, mutex, waiting, file_lock, monitor, lost, runs, watchdogVars, kills>>
    PROVE  IInv'
<1> USE DEF IInv
<1>0. TypeOK /\ key \in Keys /\ key \notin shm_key_in_use /\ UNCHANGED <<client, starts>>
  BY DEF FreeKeys, watchdogVars
<1>1. /\ blocks' \in Seq([kind : Kinds, base : Nat, key : Keys])
      /\ Blocks' = Blocks \cup {Len(blocks) + 1}
      /\ Len(blocks) + 1 \notin Blocks \cup {0}
      /\ \A b \in Blocks : blocks'[b] = blocks[b]
      /\ blocks'[Len(blocks) + 1] = [kind |-> kind, base |-> base, key |-> key]
      /\ \A b \in Blocks : Current(b) => Current(b)'
  BY <1>0, CreateKeeps, Zenon
<1>2. /\ shm_key_in_use' = shm_key_in_use \cup {key}
      /\ named' = [named EXCEPT ![key] = Len(blocks) + 1]
      /\ named \in [Keys -> {0} \cup Blocks]
      /\ region \in [Kinds -> [timestamp : Nat, key : Keys, block : {0} \cup Blocks]]
  BY DEF ReserveKey, CreateBlock, TypeOK, SharedTypeOK
<1>3. WatchdogTypeOK' /\ ClientInv'
  <2>1. \A b : Current(b) => Current(b)'
    BY <1>1 DEF Current
  <2> QED
    BY <2>1, <1>0, <1>1, ClientInvStep
<1>4. LockInv'
  BY <1>0, StoreFacts, LockStep
<1>5. store' \in [Stores -> StoreStates'] /\ StoreInv'
  BY <1>1, StoreInvStep
<1>6. TypeOK'
  <2>1. SharedTypeOK'
    <3>1. named' \in [Keys -> {0} \cup Blocks']
      BY <1>0, <1>1, <1>2
    <3>2. region' \in [Kinds -> [timestamp : Nat, key : Keys, block : {0} \cup Blocks']]
      BY <1>1, <1>2
    <3> QED
      BY <1>0, <1>1, <1>2, <3>1, <3>2 DEF TypeOK, SharedTypeOK
  <2>2. StorageTypeOK'
    BY <1>5 DEF StorageTypeOK, TypeOK
  <2> QED
    BY <2>1, <2>2, <1>3 DEF TypeOK
<1>7. NameInv'
  <2> SUFFICES ASSUME NEW k \in Keys, named'[k] # 0
               PROVE  blocks'[named'[k]].key = k /\ k \in shm_key_in_use'
    BY Zenon DEF NameInv
  <2>1. CASE k = key
    <3>1. named'[k] = Len(blocks) + 1
      BY <2>1, <1>2
    <3>2. blocks'[Len(blocks) + 1].key = key
      BY <1>1
    <3>3. k \in shm_key_in_use'
      BY <2>1, <1>2
    <3> QED
      BY <2>1, <3>1, <3>2, <3>3, Zenon
  <2>2. CASE k # key
    <3>1. named'[k] = named[k] /\ named[k] \in Blocks
      BY <2>2, <1>2
    <3> QED
      BY <3>1, <1>1, <1>2 DEF NameInv
  <2> QED
    BY <2>1, <2>2, Zenon
<1>8. RegionInv'
  <2>1. region' = region
    BY Zenon
  <2>2. ASSUME NEW which \in Kinds, region[which].timestamp # 0
        PROVE  /\ Current(region[which].block)'
               /\ blocks'[region[which].block].kind = which
               /\ blocks'[region[which].block].key = region[which].key
               /\ named'[region[which].key] = region[which].block
    <3>1. PICK b : b = region[which].block
      BY Zenon
    <3>2. /\ Current(b) /\ b \in Blocks
          /\ blocks[b].kind = which
          /\ blocks[b].key = region[which].key
          /\ named[region[which].key] = b
      BY <2>2, <3>1, Zenon DEF RegionInv, Current
    <3>3. region[which].key # key /\ region[which].key \in Keys
      BY <3>2, <1>0, <1>2, Zenon DEF Current
    <3> QED
      BY <3>1, <3>2, <3>3, <1>1, <1>2, Zenon
  <2> QED
    BY <2>1, <2>2, RegisterKept, Zenon
<1>9. PairInv'
  BY <1>1, Zenon DEF PairInv, RegionInv, Current, Kinds
<1> QED
  BY <1>3, <1>4, <1>5, <1>6, <1>7, <1>8, <1>9

(* The block that was just created is fresh.                               *)
LEMMA CreatedFresh ==
    ASSUME IInv, NEW kind \in Kinds, NEW base \in Nat, NEW key \in FreeKeys,
           ReserveKey(key), CreateBlock(kind, base, key), UNCHANGED region,
           NEW block, block = Len(blocks) + 1
    PROVE  Fresh(block, kind)' /\ blocks'[block].base = base
<1>1. TypeOK /\ key \in Keys
  BY DEF IInv, FreeKeys
<1>2. /\ Current(block)'
      /\ blocks'[block] = [kind |-> kind, base |-> base, key |-> key]
      /\ block \notin Blocks \cup {0}
  BY <1>1, CreateKeeps, Zenon
<1>3. named'[key] = block
  BY <1>1 DEF CreateBlock, TypeOK, SharedTypeOK
<1>4. ~Registered(block)'
  <2>1. ASSUME NEW which \in Kinds PROVE region[which].block # block
    BY <1>1, <1>2 DEF TypeOK, SharedTypeOK
  <2> QED
    BY <2>1, Zenon DEF Registered
<1>5. blocks'[block].kind = kind /\ blocks'[block].key = key /\ blocks'[block].base = base
  BY <1>2
<1> QED
  BY <1>2, <1>3, <1>4, <1>5, Zenon DEF Fresh

(* A block that was fresh stays fresh while another one is created.        *)
LEMMA StaysFresh ==
    ASSUME IInv, NEW kind \in Kinds, NEW base \in Nat, NEW key \in FreeKeys,
           ReserveKey(key), CreateBlock(kind, base, key), UNCHANGED region,
           NEW b, NEW which, Fresh(b, which)
    PROVE  Fresh(b, which)'
<1>1. TypeOK /\ key \in Keys /\ key \notin shm_key_in_use
  BY DEF IInv, FreeKeys
<1>2. /\ Current(b) /\ b \in Blocks /\ named[blocks[b].key] = b
      /\ blocks[b].kind = which /\ ~Registered(b)
  BY DEF Fresh, Current
<1>3. Current(b)' /\ blocks'[b] = blocks[b]
  BY <1>1, <1>2, CreateKeeps, Zenon
<1>4. blocks[b].key # key
  BY <1>1, <1>2 DEF Current
<1>5. named'[blocks[b].key] = b
  BY <1>1, <1>2, <1>4 DEF CreateBlock, TypeOK, SharedTypeOK
<1>6. ~Registered(b)'
  BY <1>2 DEF Registered
<1> QED
  BY <1>2, <1>3, <1>5, <1>6 DEF Fresh

(* setupRegion for the static part.                                        *)
LEMMA SetupStaticKeeps ==
    ASSUME IInv, NEW s \in Stores, SetupStatic(s), UNCHANGED <<watchdogVars, kills>>
    PROVE  IInv'
<1>1. PICK key \in FreeKeys :
        /\ ReserveKey(key)
        /\ CreateBlock("static", Len(blocks) + 1, key)
  BY DEF SetupStatic
<1>2. PICK block : block = Len(blocks) + 1
  OBVIOUS
<1>3. PICK me : me = StoreAt("updatable", block, [NoBlocks EXCEPT !["static"] = block], <<>>)
  OBVIOUS
<1>4. TypeOK /\ Len(blocks) \in Nat
  BY BlocksNumbered DEF IInv
<1>5. Fresh(block, "static")' /\ block \in Blocks' /\ block # 0
  <2>1. "static" \in Kinds /\ Len(blocks) + 1 \in Nat
    BY <1>4 DEF Kinds
  <2>2. Fresh(block, "static")'
    BY <1>1, <1>2, <2>1, CreatedFresh, Zenon DEF SetupStatic
  <2> QED
    BY <2>2, <1>2, <1>4 DEF Fresh, Current
<1>6. me \in StoreStates'
  <2>1. <<>> \in Seq(Blocks')
    OBVIOUS
  <2> QED
    BY <1>3, <1>5, <2>1, Zenon DEF StoreAt, StoreStates, NoBlocks
<1>7. StoreFits(me)'
  BY <1>3, <1>5 DEF StoreFits, StoreAt, NoBlocks, Kinds
<1>8. Goto(s, me) /\ me.pc = "updatable"
  BY <1>2, <1>3 DEF SetupStatic, StoreAt
<1>9. /\ "static" \in Kinds /\ Len(blocks) + 1 \in Nat /\ store[s].pc = "static"
      /\ UNCHANGED <<region, mutex, waiting, file_lock, monitor, lost, runs>>
  BY <1>4 DEF SetupStatic, Kinds
<1> QED
  BY <1>1, <1>6, <1>7, <1>8, <1>9, SetupStep

(* setupRegion for the updatable part: it is loaded for the static block   *)
(* the run has just set up, or for the registered one (only_metric).       *)
LEMMA SetupUpdatableKeeps ==
    ASSUME IInv, NEW s \in Stores, SetupUpdatable(s), UNCHANGED <<watchdogVars, kills>>
    PROVE  IInv'
<1>1. PICK key \in FreeKeys :
        /\ ReserveKey(key)
        /\ CreateBlock("updatable", store[s].base, key)
  BY Zenon DEF SetupUpdatable
<1>2. PICK block : block = Len(blocks) + 1
  OBVIOUS
<1>3. PICK old : old = store[s]
  OBVIOUS
<1>4. PICK me : me = StoreAt("lock", old.base, [old.new EXCEPT !["updatable"] = block], <<>>)
  OBVIOUS
<1>5. /\ TypeOK /\ Len(blocks) \in Nat /\ Blocks = 1 .. Len(blocks)
      /\ old \in StoreStates /\ StoreFits(old) /\ old.base \in Nat
  <2>1. TypeOK
    BY DEF IInv
  <2>2. Len(blocks) \in Nat /\ Blocks = 1 .. Len(blocks)
    BY <2>1, BlocksNumbered, Zenon
  <2>3. old \in StoreStates /\ StoreFits(old)
    BY <1>3, StoreFacts, Zenon
  <2>4. old.base \in {0} \cup Blocks
    BY <2>3 DEF StoreStates
  <2>5. old.base \in Nat
    BY <2>2, <2>4
  <2> QED
    BY <2>1, <2>2, <2>3, <2>5, Zenon
<1>6. /\ Fresh(block, "updatable")' /\ block \in Blocks'
      /\ blocks'[block].base = old.base
  <2>1. Fresh(block, "updatable")' /\ blocks'[block].base = old.base
    BY <1>1, <1>2, <1>3, <1>5, CreatedFresh DEF SetupUpdatable, Kinds
  <2> QED
    BY <2>1 DEF Fresh, Current
<1>7. old.new["static"] # 0 => Fresh(old.new["static"], "static")'
  <2>1. PICK b : b = old.new["static"]
    OBVIOUS
  <2>2. b # 0 => Fresh(b, "static")
    BY <1>3, <1>5, <2>1, Zenon DEF SetupUpdatable, StoreFits
  <2>3. "updatable" \in Kinds /\ UNCHANGED region
    BY DEF SetupUpdatable, Kinds
  <2>4. b # 0 => Fresh(b, "static")'
    BY <1>1, <1>3, <1>5, <2>2, <2>3, StaysFresh
  <2> QED
    BY <2>1, <2>4
<1>8. me \in StoreStates'
  <2>1. <<>> \in Seq(Blocks')
    OBVIOUS
  <2>2. Blocks \subseteq Blocks'
    BY <1>1, <1>3, <1>5, CreateKeeps, Zenon DEF Kinds
  <2> QED
    BY <1>4, <1>5, <1>6, <2>1, <2>2, Zenon DEF StoreAt, StoreStates
<1>9. StoreFits(me)'
  <2>1. old.new["updatable"] \in {0} \cup Blocks /\ me.new["updatable"] = block
          /\ me.new["static"] = old.new["static"]
    BY <1>4, <1>5 DEF StoreAt, StoreStates, Kinds
  <2>2. me.base = old.base /\ me.old = <<>> /\ me.pc = "lock"
    BY <1>4 DEF StoreAt
  <2>3. old.pc = "updatable"
    BY <1>3 DEF SetupUpdatable
  <2>4. IF old.new["static"] # 0 THEN old.base = old.new["static"]
          ELSE region["static"].timestamp # 0 /\ old.base = region["static"].block
    BY <1>5, <2>3 DEF StoreFits
  <2>5. region' = region
    BY DEF SetupUpdatable
  <2>6. \A i : i \notin 1 .. Len(me.old)
    BY <2>2
  <2>7. IF me.new["static"] # 0
          THEN Fresh(me.new["static"], "static")' /\ me.base = me.new["static"]
          ELSE region'["static"].timestamp # 0 /\ me.base = region'["static"].block
    BY <1>7, <2>1, <2>2, <2>4, <2>5, Zenon
  <2>8. Fresh(me.new["updatable"], "updatable")' /\ blocks'[me.new["updatable"]].base = me.base
    BY <1>6, <2>1, <2>2, Zenon
  <2>9. me.pc # "write_static" /\ me.pc # "write_updatable" /\ me.pc \notin {"remove", "detach"}
    BY <2>2
  <2> QED
    BY <2>2, <2>6, <2>7, <2>8, <2>9, Zenon DEF StoreFits
<1>10. Goto(s, me) /\ me.pc = "lock"
  BY <1>2, <1>3, <1>4 DEF SetupUpdatable, StoreAt
<1>11. /\ "updatable" \in Kinds /\ store[s].base \in Nat /\ store[s].pc = "updatable"
       /\ UNCHANGED <<region, mutex, waiting, file_lock, monitor, lost, runs>>
  BY <1>3, <1>5 DEF SetupUpdatable, Kinds
<1> QED
  BY <1>1, <1>8, <1>9, <1>10, <1>11, SetupStep

(* The steps after the blocks are set up: no block is created any more.    *)
LEMMA SwapStep ==
    ASSUME IInv, NEW s \in Stores, NEW me, Goto(s, me), me \in StoreStates', StoreFits(me)',
           store[s].pc # "idle", me.pc # "idle",
           me.pc \in {"write_static", "write_updatable"} <=> mutex' = s,
           mutex' # mutex => mutex = s /\ mutex' = Nobody,
           SharedTypeOK', NameInv', RegionInv', PairInv',
           \A kind \in Kinds : region[kind].timestamp # 0 => region'[kind].timestamp # 0,
           mutex # s => UNCHANGED region,
           \A b \in Used : Current(b) => Current(b)',
           lost' = lost \/ lost' \subseteq Keys,
           UNCHANGED <<blocks, waiting, file_lock, monitor, runs, watchdogVars, kills>>
    PROVE  IInv'
<1>1. UNCHANGED <<client, starts>> /\ Blocks' = Blocks /\ file_lock = s
  BY StoreFacts DEF watchdogVars, Blocks
<1>2. WatchdogTypeOK' /\ ClientInv'
  <2>1. mutex \in Clients => UNCHANGED region
    BY StoreFacts
  <2> QED
    BY <1>1, <2>1, ClientInvStep
<1>3. LockInv'
  <2>1. \A p \in Stores \cup Clients : p # s => (mutex' = p <=> mutex = p)
    BY StoreFacts
  <2> QED
    BY <1>1, <2>1, LockStep
<1>4. store' \in [Stores -> StoreStates'] /\ StoreInv'
  BY <1>1, StoreInvStep
<1>5. TypeOK'
  <2>1. StorageTypeOK'
    BY <1>4 DEF StorageTypeOK, IInv, TypeOK
  <2> QED
    BY StoreFacts, <2>1, <1>2, Zenon DEF TypeOK
<1> QED
  BY <1>2, <1>3, <1>4, <1>5, Zenon DEF IInv

(* Two blocks that are current and not the same have different keys.       *)
LEMMA KeysApart ==
    ASSUME IInv, NEW b, Current(b), ~Registered(b), NEW kind \in Kinds, region[kind].timestamp # 0
    PROVE  region[kind].key # blocks[b].key
<1>1. Current(region[kind].block) /\ blocks[region[kind].block].key = region[kind].key
  BY DEF IInv, RegionInv
<1>2. region[kind].block # b
  BY DEF Registered
<1> QED
  BY <1>1, <1>2, CurrentUnique DEF IInv

(* A run that times out removes the blocks it has not registered.          *)
LEMMA LockTimeoutKeeps ==
    ASSUME IInv, NEW s \in Stores, LockTimeout(s), UNCHANGED <<watchdogVars, kills>>
    PROVE  IInv'
<1>1. PICK old : old = store[s]
  OBVIOUS
<1>2. PICK me : me = StoreAt("exit", old.base, old.new, <<>>)
  OBVIOUS
<1>3. /\ UNCHANGED <<blocks, region, shm_key_in_use, mutex, waiting>>
      /\ Blocks' = Blocks /\ \A b : Current(b) <=> Current(b)'
  BY Zenon DEF LockTimeout, registerVars, Current, Blocks
<1>4. me \in StoreStates' /\ StoreFits(me)' /\ Goto(s, me) /\ me.pc = "exit"
  <2>1. me \in StoreStates'
    <3>1. StoreStates' = StoreStates
      BY <1>3, Zenon DEF StoreStates
    <3>2. old \in StoreStates
      BY StoreFacts, <1>1, Zenon
    <3>3. me \in StoreStates
      BY <1>2, <3>2, StoreFields DEF StoreAt, StoreStates
    <3> QED
      BY <3>1, <3>3, Zenon
  <2>2. StoreFits(me)'
    BY <1>2 DEF StoreFits, StoreAt
  <2> QED
    BY <2>1, <2>2, <1>1, <1>2, Zenon DEF LockTimeout, StoreAt
<1>5. \A kind \in Kinds : old.new[kind] # 0 => Current(old.new[kind]) /\ ~Registered(old.new[kind])
  <2>1. old.pc = "lock" /\ StoreFits(old)
    BY StoreFacts, <1>1 DEF LockTimeout
  <2>2. old.new["static"] # 0 => Fresh(old.new["static"], "static")
    BY <2>1, Zenon DEF StoreFits
  <2>3. Fresh(old.new["updatable"], "updatable")
    BY <2>1, Zenon DEF StoreFits
  <2> QED
    BY <2>2, <2>3 DEF Fresh, Kinds
<1>6. named \in [Keys -> {0} \cup Blocks] /\ SharedTypeOK /\ NameInv /\ RegionInv /\ PairInv
  BY DEF IInv, TypeOK, SharedTypeOK
<1>7. SharedTypeOK' /\ NameInv'
  <2>1. \A k \in Keys : named'[k] \in {0, named[k]}
    BY DEF LockTimeout
  <2>2. named' \in [Keys -> {0} \cup Blocks']
    BY <1>3, <1>6 DEF LockTimeout
  <2>3. SharedTypeOK'
    BY <1>3, <1>6, <2>2 DEF SharedTypeOK
  <2> QED
    BY <1>3, <1>6, <2>1, <2>3 DEF NameInv
<1>8. RegionInv'
  <2>1. ASSUME NEW kind \in Kinds, region[kind].timestamp # 0
        PROVE  named'[region[kind].key] = named[region[kind].key]
    <3>1. region[kind].key \in Keys
      BY <1>6 DEF SharedTypeOK
    <3>2. \A which \in Kinds : old.new[which] # 0 => region[kind].key # blocks[old.new[which]].key
      BY <2>1, <1>5, KeysApart
    <3> QED
      BY <3>1, <3>2, <1>1 DEF LockTimeout
  <2> QED
    BY <2>1, <1>3, <1>6 DEF RegionInv
<1>9. PairInv'
  BY <1>3, <1>6 DEF PairInv
<1>10. lost' \subseteq Keys
  BY CutShortType DEF LockTimeout
<1> QED
  BY StoreFacts, <1>3, <1>4, <1>7, <1>8, <1>9, <1>10, SwapStep, Zenon DEF LockTimeout

-----------------------------------------------------------------------------
(* Registering the blocks of a run, and releasing the ones they replace.   *)

(* The first write: the register points to the new static block, and the   *)
(* one it replaces is to be removed.                                       *)
LEMMA WriteStaticKeeps ==
    ASSUME IInv, NEW s \in Stores, WriteStatic(s), UNCHANGED <<watchdogVars, kills>>
    PROVE  IInv'
<1>1. PICK old : old = store[s]
  OBVIOUS
<1>2. PICK gone : gone = WithReplaced(s, "static")
  OBVIOUS
<1>3. PICK me : me = StoreAt("write_updatable", old.base, old.new, gone)
  OBVIOUS
<1>4. /\ UNCHANGED <<blocks, named, shm_key_in_use, mutex, waiting>>
      /\ Blocks' = Blocks /\ (\A b : Current(b) <=> Current(b)') /\ mutex = s
  BY StoreFacts, Zenon DEF WriteStatic, Current, Blocks
<1>5. PICK new : new = old.new["static"]
  OBVIOUS
<1>6. /\ Fresh(new, "static") /\ old.base = new /\ new # 0 /\ new \in Blocks
      /\ Fresh(old.new["updatable"], "updatable")
      /\ blocks[old.new["updatable"]].base = old.base /\ old.old = <<>>
  <2>1. old.pc = "write_static" /\ StoreFits(old)
    BY StoreFacts, <1>1 DEF WriteStatic
  <2> QED
    BY <2>1, <1>5, Zenon DEF StoreFits, Fresh, Current
<1>7. /\ SharedTypeOK /\ NameInv /\ RegionInv /\ old \in StoreStates
      /\ blocks[new].key \in Keys
      /\ region \in [Kinds -> [timestamp : Nat, key : Keys, block : {0} \cup Blocks]]
  BY StoreFacts, <1>1, <1>6, BlocksNumbered, Zenon DEF IInv, TypeOK, SharedTypeOK
<1>8. region' = [region EXCEPT !["static"] = Region(region["static"].timestamp + 1, blocks[new].key, new)]
  BY <1>1, <1>5, Zenon DEF WriteStatic, RegisterBlock
<1>9. /\ region'["updatable"] = region["updatable"]
      /\ region'["static"].block = new /\ region'["static"].key = blocks[new].key
      /\ region'["static"].timestamp = region["static"].timestamp + 1
      /\ region'["static"].timestamp # 0
      /\ region' \in [Kinds -> [timestamp : Nat, key : Keys, block : {0} \cup Blocks]]
  <2>1. PICK r : r = Region(region["static"].timestamp + 1, blocks[new].key, new)
    BY Zenon
  <2>2. "static" \in Kinds /\ "updatable" \in Kinds
    BY DEF Kinds
  <2>3. region["static"].timestamp \in Nat
    BY <1>7, <2>2
  <2>4. /\ r \in [timestamp : Nat, key : Keys, block : {0} \cup Blocks]
        /\ r.block = new /\ r.key = blocks[new].key /\ r.timestamp # 0
        /\ r.timestamp = region["static"].timestamp + 1
    BY <1>6, <1>7, <2>1, <2>3 DEF Region
  <2>5. region' = [region EXCEPT !["static"] = r]
    BY <1>8, <2>1, Zenon
  <2> QED
    BY <1>7, <2>2, <2>4, <2>5
<1>10. SharedTypeOK' /\ NameInv'
  BY <1>4, <1>7, <1>9, Zenon DEF SharedTypeOK, NameInv
<1>11. RegionInv'
  <2>1. /\ Current(new)' /\ blocks'[new].kind = "static"
        /\ blocks'[new].key = region'["static"].key /\ named'[region'["static"].key] = new
    BY <1>4, <1>6, <1>9 DEF Fresh
  <2>2. \A kind \in Kinds : kind = "static" \/ kind = "updatable"
    BY DEF Kinds
  <2> DEFINE b == region["updatable"].block
  <2>3. region["updatable"].timestamp # 0 =>
          /\ Current(b) /\ blocks[b].kind = "updatable"
          /\ blocks[b].key = region["updatable"].key /\ named[region["updatable"].key] = b
    BY <1>7 DEF RegionInv, Kinds
  <2>4. region["updatable"].timestamp # 0 =>
          /\ Current(b)' /\ blocks'[b].kind = "updatable"
          /\ blocks'[b].key = region["updatable"].key /\ named'[region["updatable"].key] = b
    BY <1>4, <1>9, <2>3, Zenon
  <2>5. ASSUME NEW kind \in Kinds, region'[kind].timestamp # 0
        PROVE  /\ Current(region[kind].block)' /\ blocks'[region'[kind].block].kind = kind
               /\ blocks'[region'[kind].block].key = region'[kind].key
               /\ named'[region'[kind].key] = region'[kind].block
    <3>1. CASE kind = "static"
      BY <1>9, <2>1, <3>1, Zenon
    <3>2. CASE kind = "updatable"
      BY <1>9, <2>4, <2>5, <3>2, Zenon
    <3> QED
      BY <2>2, <2>5, <3>1, <3>2, Zenon
  <2> QED
    BY <2>5, Zenon DEF RegionInv
<1>12. PairInv'
  BY StoreFacts, <1>4 DEF PairInv
<1>13. \A b : Registered(b)' => b = new \/ (b = region["updatable"].block /\ region["updatable"].timestamp # 0)
  BY <1>9 DEF Registered, Kinds
<1>14. region["updatable"].timestamp # 0 => blocks[region["updatable"].block].kind = "updatable"
  BY <1>7 DEF RegionInv, Kinds
<1>15. /\ gone \in Seq(Blocks)
       /\ \A i \in 1 .. Len(gone) : Current(gone[i])' /\ ~Registered(gone[i])' /\ blocks[gone[i]].kind = "static"
       /\ \A i, j \in 1 .. Len(gone) : gone[i] = gone[j] => i = j
  <2>1. CASE region["static"].timestamp = 0
    <3>1. gone = <<>>
      BY <2>1, <1>1, <1>2, <1>6 DEF WithReplaced
    <3> QED
      BY <3>1
  <2>2. CASE region["static"].timestamp # 0
    <3>1. PICK b : b = region["static"].block
      OBVIOUS
    <3>2. gone = <<b>>
      BY <2>2, <3>1, <1>1, <1>2, <1>6 DEF WithReplaced
    <3>3. Current(b) /\ blocks[b].kind = "static" /\ b \in Blocks
      BY <2>2, <3>1, <1>7 DEF RegionInv, Kinds, Current
    <3>4. b # new
      BY <2>2, <3>1, <1>6 DEF Fresh, Registered, Kinds
    <3>5. ~Registered(b)'
      BY <3>3, <3>4, <1>13, <1>14
    <3>6. Len(gone) = 1 /\ gone[1] = b /\ gone \in Seq(Blocks)
      BY <3>2, <3>3
    <3> QED
      BY <3>3, <3>5, <3>6, <1>4
  <2> QED
    BY <2>1, <2>2
<1>16. Fresh(old.new["updatable"], "updatable")'
  <2>1. PICK b : b = old.new["updatable"]
    OBVIOUS
  <2>2. Fresh(b, "updatable")
    BY <2>1, <1>6
  <2>3. ~Registered(b)'
    BY <2>2, <1>6, <1>13 DEF Fresh, Registered, Kinds
  <2>4. Fresh(b, "updatable")'
    BY <2>2, <2>3, <1>4 DEF Fresh
  <2> QED
    BY <2>1, <2>4
<1>17. me \in StoreStates' /\ Goto(s, me) /\ me.pc = "write_updatable"
  BY <1>1, <1>2, <1>3, <1>4, <1>7, <1>15, Zenon DEF WriteStatic, StoreAt, StoreStates
<1>18. StoreFits(me)'
  <2>1. me.base = old.base /\ me.new = old.new /\ me.old = gone
    BY <1>3 DEF StoreAt
  <2> QED
    BY <2>1, <1>4, <1>6, <1>9, <1>15, <1>16, <1>17, Zenon DEF StoreFits
<1> QED
  BY <1>4, <1>9, <1>10, <1>11, <1>12, <1>17, <1>18, SwapStep, Zenon DEF WriteStatic, Kinds

(* The second write: the register points to the new updatable block, which *)
(* was loaded for the registered static one, and the mutex is released.    *)
LEMMA WriteUpdatableKeeps ==
    ASSUME IInv, NEW s \in Stores, WriteUpdatable(s), UNCHANGED <<watchdogVars, kills>>
    PROVE  IInv'
<1>1. PICK old : old = store[s]
  OBVIOUS
<1>2. PICK gone : gone = WithReplaced(s, "updatable")
  OBVIOUS
<1>3. PICK me : me = StoreAt("notify", old.base, old.new, gone)
  OBVIOUS
<1>4. /\ UNCHANGED <<blocks, named, shm_key_in_use, waiting>> /\ mutex' = Nobody
      /\ Blocks' = Blocks /\ (\A b : Current(b) <=> Current(b)') /\ mutex = s
  BY StoreFacts, Zenon DEF WriteUpdatable, Unlock, Current, Blocks
<1>5. PICK new : new = old.new["updatable"]
  OBVIOUS
<1>6. /\ Fresh(new, "updatable") /\ new \in Blocks
      /\ blocks[new].base = old.base
      /\ region["static"].timestamp # 0 /\ region["static"].block = old.base
      /\ \A i \in 1 .. Len(old.old) :
           Current(old.old[i]) /\ ~Registered(old.old[i]) /\ blocks[old.old[i]].kind = "static"
      /\ \A i, j \in 1 .. Len(old.old) : old.old[i] = old.old[j] => i = j
  <2>1. old.pc = "write_updatable" /\ StoreFits(old)
    BY StoreFacts, <1>1, Zenon DEF WriteUpdatable
  <2> QED
    BY <2>1, <1>5, Zenon DEF StoreFits, Fresh, Current
<1>7. /\ SharedTypeOK /\ NameInv /\ RegionInv /\ old \in StoreStates /\ old.old \in Seq(Blocks)
      /\ blocks[new].key \in Keys
      /\ region \in [Kinds -> [timestamp : Nat, key : Keys, block : {0} \cup Blocks]]
  BY StoreFacts, <1>1, <1>6, BlocksNumbered, Zenon DEF IInv, TypeOK, SharedTypeOK, StoreStates
<1>8. region' = [region EXCEPT !["updatable"] =
                   Region(region["updatable"].timestamp + 1, blocks[new].key, new)]
  BY <1>1, <1>5, Zenon DEF WriteUpdatable, RegisterBlock
<1>9. /\ region'["static"] = region["static"]
      /\ region'["updatable"].block = new /\ region'["updatable"].key = blocks[new].key
      /\ region'["updatable"].timestamp # 0
      /\ region' \in [Kinds -> [timestamp : Nat, key : Keys, block : {0} \cup Blocks]]
  <2>1. PICK r : r = Region(region["updatable"].timestamp + 1, blocks[new].key, new)
    BY Zenon
  <2>2. "static" \in Kinds /\ "updatable" \in Kinds
    BY DEF Kinds
  <2>3. region["updatable"].timestamp \in Nat
    BY <1>7, <2>2
  <2>4. /\ r \in [timestamp : Nat, key : Keys, block : {0} \cup Blocks]
        /\ r.block = new /\ r.key = blocks[new].key /\ r.timestamp # 0
        /\ r.timestamp = region["updatable"].timestamp + 1
    BY <1>6, <1>7, <2>1, <2>3 DEF Region
  <2>5. region' = [region EXCEPT !["updatable"] = r]
    BY <1>8, <2>1, Zenon
  <2> QED
    BY <1>7, <2>2, <2>4, <2>5
<1>10. SharedTypeOK' /\ NameInv'
  BY <1>4, <1>7, <1>9 DEF SharedTypeOK, NameInv
<1>11. RegionInv'
  <2>1. /\ Current(new)' /\ blocks'[new].kind = "updatable"
        /\ blocks'[new].key = region'["updatable"].key /\ named'[region'["updatable"].key] = new
    BY <1>4, <1>6, <1>9 DEF Fresh
  <2>2. PICK b : b = region["static"].block
    OBVIOUS
  <2>3. /\ Current(b)' /\ blocks'[b].kind = "static"
        /\ blocks'[b].key = region'["static"].key /\ named'[region'["static"].key] = b
    BY <2>2, <1>4, <1>6, <1>7, <1>9 DEF RegionInv, Kinds
  <2>4. \A kind \in Kinds : kind = "static" \/ kind = "updatable"
    BY DEF Kinds
  <2> QED
    BY <2>1, <2>2, <2>3, <2>4, <1>9 DEF RegionInv
<1>12. PairInv'
  BY <1>4, <1>6, <1>9 DEF PairInv
<1>13. \A b : Registered(b)' => b = new \/ b = region["static"].block
  BY <1>9 DEF Registered, Kinds
<1>14. blocks[region["static"].block].kind = "static" /\ blocks[new].kind = "updatable"
  BY <1>6, <1>7 DEF RegionInv, Kinds, Fresh
<1>15. \A i \in 1 .. Len(old.old) : Current(old.old[i])' /\ ~Registered(old.old[i])'
  <2> SUFFICES ASSUME NEW i \in 1 .. Len(old.old), NEW b, b = old.old[i]
               PROVE  Current(b)' /\ ~Registered(b)'
    OBVIOUS
  <2>1. Current(b) /\ ~Registered(b) /\ blocks[b].kind = "static"
    BY <1>6
  <2>2. b # new /\ b # region["static"].block
    BY <2>1, <1>6, <1>14, Zenon DEF Registered, Kinds
  <2> QED
    BY <2>1, <2>2, <1>4, <1>13, Zenon
<1>16. /\ gone \in Seq(Blocks)
       /\ \A i \in 1 .. Len(gone) : Current(gone[i])' /\ ~Registered(gone[i])'
       /\ \A i, j \in 1 .. Len(gone) : gone[i] = gone[j] => i = j
  <2>1. CASE region["updatable"].timestamp = 0
    <3>1. gone = old.old
      BY <2>1, <1>1, <1>2 DEF WithReplaced
    <3> QED
      BY <3>1, <1>6, <1>7, <1>15, Zenon
  <2>2. CASE region["updatable"].timestamp # 0
    <3>1. PICK b : b = region["updatable"].block
      OBVIOUS
    <3>2. gone = Append(old.old, b)
      BY <2>2, <3>1, <1>1, <1>2 DEF WithReplaced
    <3>3. Current(b) /\ blocks[b].kind = "updatable" /\ b \in Blocks
      BY <2>2, <3>1, <1>7 DEF RegionInv, Kinds, Current
    <3>4. b # new
      BY <2>2, <3>1, <1>6 DEF Fresh, Registered, Kinds
    <3>5. Current(b)' /\ ~Registered(b)'
      BY <3>3, <3>4, <1>4, <1>13, <1>14
    <3>6. /\ gone \in Seq(Blocks) /\ Len(gone) = Len(old.old) + 1 /\ Len(old.old) \in Nat
          /\ \A i \in 1 .. Len(old.old) : gone[i] = old.old[i]
          /\ gone[Len(old.old) + 1] = b
      BY <3>2, <3>3, <1>7, AppendProperties, LenProperties
    <3>7. \A i \in 1 .. Len(gone) : i \in 1 .. Len(old.old) \/ i = Len(old.old) + 1
      BY <3>6
    <3>8. \A i \in 1 .. Len(old.old) : old.old[i] # b
      BY <3>3, <1>6
    <3>9. \A i \in 1 .. Len(gone) : Current(gone[i])' /\ ~Registered(gone[i])'
      BY <3>5, <3>6, <3>7, <1>15
    <3>10. \A i, j \in 1 .. Len(gone) : gone[i] = gone[j] => i = j
      BY <3>6, <3>7, <3>8, <1>6, Zenon
    <3> QED
      BY <3>6, <3>9, <3>10, Zenon
  <2> QED
    BY <2>1, <2>2, Zenon
<1>17. me \in StoreStates' /\ Goto(s, me) /\ me.pc = "notify"
  BY <1>1, <1>2, <1>3, <1>4, <1>7, <1>16, Zenon DEF WriteUpdatable, StoreAt, StoreStates
<1>18. StoreFits(me)'
  <2>1. me.old = gone
    BY <1>3 DEF StoreAt
  <2> QED
    BY <2>1, <1>16, <1>17, Zenon DEF StoreFits
<1> QED
  BY <1>4, <1>9, <1>10, <1>11, <1>12, <1>17, <1>18, HoldersAssumption, SwapStep, Zenon
  DEF WriteUpdatable, Kinds

(* The blocks to remove: the first one is current and not registered, and  *)
(* it is none of the others.                                               *)
LEMMA OldFacts ==
    ASSUME IInv, NEW s \in Stores, NEW old, old = store[s].old, store[s].pc \in {"remove", "detach"}
    PROVE  /\ old \in Seq(Blocks) /\ old # <<>>
           /\ Head(old) = old[1] /\ Current(Head(old)) /\ ~Registered(Head(old))
           /\ Tail(old) \in Seq(Blocks) /\ Len(Tail(old)) \in Nat
           /\ \A i \in 1 .. Len(Tail(old)) :
                /\ Current(Tail(old)[i]) /\ ~Registered(Tail(old)[i])
                /\ Tail(old)[i] # Head(old)
           /\ \A i, j \in 1 .. Len(Tail(old)) : Tail(old)[i] = Tail(old)[j] => i = j
<1>1. store[s] \in StoreStates /\ StoreFits(store[s])
  BY StoreFacts
<1>2. /\ old \in Seq(Blocks) /\ old # <<>>
      /\ \A i \in 1 .. Len(old) : Current(old[i]) /\ ~Registered(old[i])
      /\ \A i, j \in 1 .. Len(old) : old[i] = old[j] => i = j
  BY <1>1, Zenon DEF StoreStates, StoreFits
<1>3. /\ Len(old) \in Nat /\ Len(old) >= 1 /\ Head(old) = old[1]
      /\ Tail(old) \in Seq(Blocks) /\ Len(Tail(old)) = Len(old) - 1
      /\ \A i \in 1 .. Len(old) - 1 : Tail(old)[i] = old[i + 1]
  BY <1>2, HeadTailProperties, EmptySeq, LenProperties
<1>4. \A i \in 1 .. Len(old) - 1 : i + 1 \in 1 .. Len(old) /\ i + 1 # 1
  BY <1>3
<1>5. 1 \in 1 .. Len(old)
  BY <1>3
<1> QED
  BY <1>2, <1>3, <1>4, <1>5

(* The block that was replaced loses its name.                             *)
LEMMA RemoveOldKeeps ==
    ASSUME IInv, NEW s \in Stores, RemoveOld(s), UNCHANGED <<watchdogVars, kills>>
    PROVE  IInv'
<1>1. PICK old : old = store[s]
  OBVIOUS
<1>2. PICK me : me = StoreAt("detach", old.base, old.new, old.old)
  OBVIOUS
<1>3. PICK gone : gone = Head(old.old)
  OBVIOUS
<1>4. /\ UNCHANGED <<blocks, region, shm_key_in_use, mutex, waiting>> /\ mutex # s
      /\ Blocks' = Blocks /\ (\A b : Current(b) <=> Current(b)')
      /\ \A b : Registered(b) <=> Registered(b)'
  BY StoreFacts, Zenon DEF RemoveOld, registerVars, Current, Registered, Blocks
<1>5. Current(gone) /\ ~Registered(gone) /\ gone = old.old[1]
  BY <1>1, <1>3, OldFacts, Zenon DEF RemoveOld
<1>6. named \in [Keys -> {0} \cup Blocks] /\ SharedTypeOK /\ NameInv /\ RegionInv /\ PairInv
  BY DEF IInv, TypeOK, SharedTypeOK
<1>7. blocks[gone].key \in Keys /\ named' = [named EXCEPT ![blocks[gone].key] = 0]
  BY <1>1, <1>3, <1>5, <1>6, Zenon DEF RemoveOld, Remove, Current, SharedTypeOK
<1>8. SharedTypeOK' /\ NameInv'
  <2>1. named' \in [Keys -> {0} \cup Blocks'] /\ \A k \in Keys : named'[k] \in {0, named[k]}
    BY <1>4, <1>6, <1>7
  <2>2. SharedTypeOK'
    BY <1>4, <1>6, <2>1 DEF SharedTypeOK
  <2> QED
    BY <1>4, <1>6, <2>1, <2>2 DEF NameInv
<1>9. RegionInv'
  <2>1. \A kind \in Kinds : region[kind].timestamp # 0 =>
          named'[region[kind].key] = named[region[kind].key]
    BY <1>5, <1>6, <1>7, KeysApart
  <2> QED
    BY <2>1, <1>4, <1>6 DEF RegionInv
<1>10. PairInv'
  BY <1>4, <1>6 DEF PairInv
<1>11. me \in StoreStates' /\ Goto(s, me) /\ me.pc = "detach"
  BY StoreFields, <1>1, <1>2, <1>4, Zenon DEF RemoveOld, StoreAt, StoreStates
<1>12. StoreFits(me)'
  <2>1. old.pc = "remove" /\ StoreFits(old) /\ me.old = old.old
    BY StoreFacts, <1>1, <1>2, Zenon DEF RemoveOld, StoreAt
  <2>2. named'[blocks'[me.old[1]].key] = 0
    BY <2>1, <1>4, <1>5, <1>6, <1>7, Zenon
  <2> QED
    BY <2>1, <2>2, <1>4, <1>11, Zenon DEF StoreFits
<1> QED
  BY <1>4, <1>8, <1>9, <1>10, <1>11, <1>12, SwapStep, Zenon DEF RemoveOld

(* Every current block but the one whose key is released stays current.    *)
LEMMA ReleaseKeepsOthers ==
    ASSUME IInv, NEW gone, Current(gone), shm_key_in_use' = shm_key_in_use \ {blocks[gone].key},
           UNCHANGED blocks, NEW b, Current(b), b # gone
    PROVE  Current(b)'
<1>1. blocks[b].key # blocks[gone].key
  BY CurrentUnique DEF IInv
<1> QED
  BY <1>1 DEF Current, Blocks

(* The key of a block that nobody has mapped any more is released: the     *)
(* other current blocks stay current.                                      *)
LEMMA WaitForDetachKeeps ==
    ASSUME IInv, NEW s \in Stores, WaitForDetach(s, Used), UNCHANGED <<watchdogVars, kills>>
    PROVE  IInv'
<1>1. PICK old : old = store[s]
  OBVIOUS
<1>2. PICK rest : rest = Tail(old.old)
  BY Zenon
<1>3. PICK me : me = StoreAt(NextOld(rest), old.base, old.new, rest)
  OBVIOUS
<1>4. PICK gone : gone = Head(old.old)
  OBVIOUS
<1>5. /\ UNCHANGED <<blocks, named, region, mutex, waiting>> /\ mutex # s /\ Blocks' = Blocks
      /\ \A b : Registered(b) <=> Registered(b)'
  BY StoreFacts, Zenon DEF WaitForDetach, Registered, Blocks
<1>6. /\ Current(gone) /\ ~Registered(gone) /\ gone = old.old[1] /\ rest \in Seq(Blocks)
      /\ \A i \in 1 .. Len(rest) : Current(rest[i]) /\ ~Registered(rest[i]) /\ rest[i] # gone
      /\ \A i, j \in 1 .. Len(rest) : rest[i] = rest[j] => i = j
  <2>1. PICK list : list = store[s].old
    OBVIOUS
  <2>2. store[s].pc = "detach" /\ rest = Tail(list) /\ gone = Head(list) /\ old.old = list
    BY <2>1, <1>1, <1>2, <1>4 DEF WaitForDetach
  <2> QED
    BY <2>1, <2>2, OldFacts, Zenon
<1>7. gone \notin Used /\ shm_key_in_use' = shm_key_in_use \ {blocks[gone].key}
  BY <1>1, <1>4 DEF WaitForDetach, ReleaseKey
<1>8. ASSUME NEW b, Current(b), b # gone PROVE Current(b)'
  BY <1>5, <1>6, <1>7, <1>8, ReleaseKeepsOthers
<1>9. SharedTypeOK /\ NameInv /\ RegionInv /\ PairInv
  BY DEF IInv, TypeOK
<1>10. named[blocks[gone].key] = 0
  <2>1. old.pc = "detach" /\ StoreFits(old)
    BY StoreFacts, <1>1, Zenon DEF WaitForDetach
  <2> QED
    BY <1>6, <2>1, Zenon DEF StoreFits
<1>11. SharedTypeOK' /\ NameInv'
  <2>1. SharedTypeOK'
    BY <1>5, <1>7, <1>9 DEF SharedTypeOK
  <2> QED
    BY <2>1, <1>5, <1>7, <1>9, <1>10 DEF NameInv
<1>12. RegionInv'
  <2> SUFFICES ASSUME NEW kind \in Kinds, region[kind].timestamp # 0, NEW b, b = region[kind].block
               PROVE  Current(b)' /\ blocks[b].kind = kind /\ blocks[b].key = region[kind].key
                      /\ named[region[kind].key] = b
    BY <1>5, Zenon DEF RegionInv
  <2>1. b # gone
    BY <1>6, Zenon DEF Registered
  <2> QED
    BY <2>1, <1>8, <1>9, Zenon DEF RegionInv
<1>13. PairInv'
  BY <1>5, <1>9, Zenon DEF PairInv
<1>14. me \in StoreStates' /\ Goto(s, me) /\ me.pc = NextOld(rest) /\ me.old = rest
  <2>1. NextOld(rest) \in {"exit", "remove"}
    BY DEF NextOld
  <2>2. me \in StoreStates' /\ me.pc = NextOld(rest) /\ me.old = rest
    BY <1>1, <1>3, <1>5, <1>6, <2>1, StoreFields, Zenon DEF StoreAt, StoreStates
  <2>3. Goto(s, me)
    BY <1>1, <1>2, <1>3, Zenon DEF WaitForDetach
  <2> QED
    BY <2>2, <2>3
<1>15. me.pc \in {"exit", "remove"} /\ (me.pc = "remove" => rest # <<>>)
         /\ (me.pc = "exit" => rest = <<>>)
  BY <1>14 DEF NextOld
<1>16. StoreFits(me)'
  <2>1. \A i \in 1 .. Len(me.old) : Current(me.old[i])' /\ ~Registered(me.old[i])'
    BY <1>5, <1>6, <1>8, <1>14, Zenon
  <2> QED
    BY <2>1, <1>6, <1>14, <1>15, Zenon DEF StoreFits
<1> QED
  BY <1>5, <1>7, <1>8, <1>11, <1>12, <1>13, <1>14, <1>15, <1>16, SwapStep, Zenon DEF WaitForDetach
==============================================================================
