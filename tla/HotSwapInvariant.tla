-------------------------- MODULE HotSwapInvariant ---------------------------
(***************************************************************************)
(* The inductive invariant behind the safety properties of HotSwap, for    *)
(* any number of osrm-datastore and osrm-routed processes, keys, runs,     *)
(* starts and kills, and the steps that leave the blocks, their names and  *)
(* the register as they are: those of a client, and those of a run that    *)
(* concern only its progress and the locks.                                *)
(***************************************************************************)
EXTENDS HotSwap, SequenceTheorems, TLAPS

(* A block that may still be found: its key is reserved, and no block was  *)
(* created under the key after it.                                         *)
Current(b) ==
    /\ b \in Blocks
    /\ blocks[b].key \in shm_key_in_use
    /\ \A d \in Blocks : blocks[d].key = blocks[b].key => d <= b

Registered(b) ==
    \E kind \in Kinds : region[kind].timestamp # 0 /\ region[kind].block = b

(* A block that a run has created and not registered yet.                  *)
Fresh(b, kind) ==
    /\ Current(b)
    /\ blocks[b].kind = kind
    /\ named[blocks[b].key] = b
    /\ ~Registered(b)

(* Who holds the file lock and the mutex, by the progress of each process. *)
LockInv ==
    /\ \A s \in Stores :
         /\ store[s].pc # "idle" <=> file_lock = s
         /\ store[s].pc \in {"write_static", "write_updatable"} <=> mutex = s
    /\ \A c \in Clients : client[c].watcher \in {"static", "updatable"} <=> mutex = c

(* A key names only a block that was created under it, and only while it   *)
(* is reserved.                                                            *)
NameInv ==
    \A k \in Keys : named[k] # 0 =>
        blocks[named[k]].key = k /\ k \in shm_key_in_use

(* What is registered exists.                                              *)
RegionInv ==
    \A kind \in Kinds : region[kind].timestamp # 0 =>
        LET b == region[kind].block
        IN  /\ Current(b)
            /\ blocks[b].kind = kind
            /\ blocks[b].key = region[kind].key
            /\ named[region[kind].key] = b

(* Outside the scope of a run that holds the mutex, and unless one was     *)
(* killed in it, the registered blocks belong together.                    *)
PairInv ==
    mutex \in Clients \cup {Nobody} =>
        IF region["static"].timestamp = 0
          THEN region["updatable"].timestamp = 0
          ELSE /\ region["updatable"].timestamp # 0
               /\ blocks[region["updatable"].block].base = region["static"].block

(* What a run has created and what it has to remove, by its progress.      *)
StoreFits(me) ==
    /\ me.pc \in {"updatable", "lock", "write_static"} =>
         IF me.new["static"] # 0
           THEN Fresh(me.new["static"], "static") /\ me.base = me.new["static"]
           ELSE region["static"].timestamp # 0 /\ me.base = region["static"].block
    /\ me.pc \in {"lock", "write_static", "write_updatable"} =>
         /\ Fresh(me.new["updatable"], "updatable")
         /\ blocks[me.new["updatable"]].base = me.base
    /\ me.pc = "write_static" => me.new["static"] # 0
    /\ me.pc = "write_updatable" =>
         region["static"].timestamp # 0 /\ region["static"].block = me.base
    /\ me.pc \notin {"write_updatable", "notify", "remove", "detach"} => me.old = <<>>
    /\ me.pc \in {"remove", "detach"} => me.old # <<>>
    /\ \A i \in 1 .. Len(me.old) : Current(me.old[i]) /\ ~Registered(me.old[i])
    /\ \A i, j \in 1 .. Len(me.old) : me.old[i] = me.old[j] => i = j
    /\ me.pc = "write_updatable" =>
         \A i \in 1 .. Len(me.old) : blocks[me.old[i]].kind = "static"
    /\ me.pc = "detach" => named[blocks[me.old[1]].key] = 0

StoreInv == \A s \in Stores : StoreFits(store[s])

(* The blocks of a facade or of a request.                                 *)
Whole(facade) ==
    \/ facade = Nothing
    \/ /\ \A kind \in Kinds : Current(facade[kind])
       /\ blocks[facade["updatable"]].base = facade["static"]

(* What a client has mapped, by its progress.                              *)
ClientFits(me) ==
    /\ me.watcher \in {"static", "updatable"} => me.owner # "down"
    /\ me.owner # "down" => \A kind \in Kinds : region[kind].timestamp # 0
    /\ me.watcher \in {"static", "updatable"} =>
         \A kind \in Kinds : me.keys[kind] = region[kind].key
    /\ me.watcher = "updatable" => me.mapped["static"] = region["static"].block
    /\ \A kind \in Kinds : me.mapped[kind] # 0 => Current(me.mapped[kind])
    /\ Whole(me.facade)
    /\ Whole(me.held)

ClientInv == \A c \in Clients : ClientFits(client[c])

(* The inductive invariant.                                                *)
IInv ==
    /\ TypeOK
    /\ LockInv
    /\ NameInv
    /\ RegionInv
    /\ PairInv
    /\ StoreInv
    /\ ClientInv

-----------------------------------------------------------------------------
(* Blocks are numbered in the order of their creation.                     *)
LEMMA BlocksNumbered ==
    ASSUME TypeOK
    PROVE  /\ Len(blocks) \in Nat
           /\ Blocks = 1 .. Len(blocks)
           /\ \A b \in Blocks : blocks[b] \in [kind : Kinds, base : Nat, key : Keys]
<1> DEFINE S == [kind : Kinds, base : Nat, key : Keys]
<1>1. blocks \in Seq(S)
  BY DEF TypeOK, SharedTypeOK
<1> HIDE DEF S
<1>2. Len(blocks) \in Nat /\ DOMAIN blocks = 1 .. Len(blocks)
  BY <1>1, LenProperties
<1>3. \A b \in 1 .. Len(blocks) : blocks[b] \in S
  BY <1>1, ElementOfSeq
<1> QED
  BY <1>2, <1>3 DEF Blocks, S

(* Under one key there is one current block.                               *)
LEMMA CurrentUnique ==
    ASSUME TypeOK, NEW b, NEW d, Current(b), Current(d), blocks[b].key = blocks[d].key
    PROVE  b = d
<1>1. b \in Nat /\ d \in Nat
  BY BlocksNumbered DEF Current
<1>2. b <= d /\ d <= b
  BY DEF Current
<1> QED
  BY <1>1, <1>2

(* A block created under a free key: the others stay as they are, and the  *)
(* current ones stay current.                                              *)
LEMMA CreateKeeps ==
    ASSUME TypeOK, NEW kind \in Kinds, NEW base \in Nat, NEW key \in FreeKeys,
           ReserveKey(key), CreateBlock(kind, base, key)
    PROVE  /\ blocks' \in Seq([kind : Kinds, base : Nat, key : Keys])
           /\ Blocks' = Blocks \cup {Len(blocks) + 1}
           /\ Len(blocks) + 1 \notin Blocks \cup {0}
           /\ \A b \in Blocks : blocks'[b] = blocks[b]
           /\ blocks'[Len(blocks) + 1] = [kind |-> kind, base |-> base, key |-> key]
           /\ \A b \in Blocks : Current(b) => Current(b)'
           /\ \A b : b = Len(blocks) + 1 => Current(b)'
<1> DEFINE block == [kind |-> kind, base |-> base, key |-> key]
           S == [kind : Kinds, base : Nat, key : Keys]
<1>1. key \in Keys /\ key \notin shm_key_in_use
  BY DEF FreeKeys
<1>2. block \in S
  BY <1>1
<1>3. blocks \in Seq(S) /\ blocks' = Append(blocks, block)
  BY DEF TypeOK, SharedTypeOK, CreateBlock
<1> HIDE DEF block, S
<1>4. /\ blocks' \in Seq(S)
      /\ Len(blocks') = Len(blocks) + 1
      /\ \A b \in 1 .. Len(blocks) : blocks'[b] = blocks[b]
      /\ blocks'[Len(blocks) + 1] = block
  BY <1>2, <1>3, AppendProperties
<1>5. Len(blocks) \in Nat /\ Blocks = 1 .. Len(blocks) /\ Blocks' = 1 .. Len(blocks) + 1
  BY <1>3, <1>4, LenProperties DEF Blocks
<1>6. /\ Blocks' = Blocks \cup {Len(blocks) + 1}
      /\ Len(blocks) + 1 \notin Blocks \cup {0}
  BY <1>5
<1>7. shm_key_in_use' = shm_key_in_use \cup {key}
  BY DEF ReserveKey
<1>8. block.key = key
  BY DEF block
<1>9. ASSUME NEW b \in Blocks, Current(b) PROVE Current(b)'
  <2>1. blocks'[b] = blocks[b] /\ blocks[b].key \in shm_key_in_use /\ blocks[b].key # key
    BY <1>9, <1>1, <1>4, <1>5 DEF Current
  <2>2. \A d \in Blocks' : blocks'[d].key = blocks'[b].key => d <= b
    BY <2>1, <1>9, <1>4, <1>5, <1>6, <1>8 DEF Current
  <2> QED
    BY <2>1, <2>2, <1>6, <1>7 DEF Current
<1>10. ASSUME NEW b, b = Len(blocks) + 1 PROVE Current(b)'
  BY <1>10, <1>4, <1>5, <1>7, <1>8 DEF Current
<1> QED
  BY <1>4, <1>5, <1>6, <1>9, <1>10 DEF block, S

-----------------------------------------------------------------------------
(* Steps of a client.                                                      *)

(* A step that changes one client, the mutex and the queue: it is enough   *)
(* that the client's new state fits and that nobody else's hold on the     *)
(* mutex changes.                                                          *)
LEMMA ClientStep ==
    ASSUME IInv, NEW c \in Clients, NEW me \in ClientStates, Become(c, me), ClientFits(me),
           me.watcher \in {"static", "updatable"} <=> mutex' = c,
           \A p \in Stores \cup Clients : p # c => (mutex' = p <=> mutex = p),
           mutex' \in Clients \cup {Nobody} => mutex \in Clients \cup {Nobody},
           mutex' \in Stores \cup Clients \cup {Nobody, Orphan},
           waiting' \subseteq Clients, starts' \in Nat, kills' \in Nat,
           UNCHANGED <<blocks, named, registerVars, storageVars>>
    PROVE  IInv'
<1>0. UNCHANGED <<blocks, named, region, shm_key_in_use, file_lock, store, monitor, lost, runs>>
  BY DEF registerVars, storageVars
<1>1. client \in [Clients -> ClientStates] /\ client' = [client EXCEPT ![c] = me]
  BY DEF IInv, TypeOK, WatchdogTypeOK, Become
<1>2. /\ ClientStates' = ClientStates /\ Blocks' = Blocks
      /\ \A b : Current(b)' <=> Current(b)
  BY <1>0 DEF ClientStates, PerKind, Blocks, Current
<1>3. TypeOK'
  <2>1. SharedTypeOK' /\ StorageTypeOK'
    BY <1>0, <1>2 DEF IInv, TypeOK, SharedTypeOK, StorageTypeOK, StoreStates
  <2>2. WatchdogTypeOK'
    BY <1>1, <1>2 DEF WatchdogTypeOK
  <2> QED
    BY <2>1, <2>2 DEF IInv, TypeOK
<1>4. LockInv'
  <2>1. \A s \in Stores : mutex' = s <=> mutex = s
    BY HoldersAssumption
  <2>2. \A d \in Clients : client'[d].watcher \in {"static", "updatable"} <=> mutex' = d
    BY <1>1 DEF IInv, LockInv
  <2> QED
    BY <2>1, <2>2, <1>0 DEF IInv, LockInv
<1>5. NameInv' /\ RegionInv' /\ PairInv'
  BY <1>0, <1>2 DEF IInv, NameInv, RegionInv, PairInv
<1>6. StoreInv'
  <2>1. ASSUME NEW m, StoreFits(m) PROVE StoreFits(m)'
    BY <2>1, <1>0, <1>2 DEF StoreFits, Fresh, Registered
  <2> QED
    BY <2>1, <1>0 DEF IInv, StoreInv
<1>7. ClientInv'
  <2>1. \A d \in Clients : ClientFits(client[d])
    BY DEF IInv, ClientInv
  <2>2. \A d \in Clients : client'[d] = IF d = c THEN me ELSE client[d]
    BY <1>1
  <2>3. ASSUME NEW m, ClientFits(m) PROVE ClientFits(m)'
    BY <2>3, <1>0, <1>2 DEF ClientFits, Whole
  <2>4. ASSUME NEW d \in Clients PROVE ClientFits(client[d])'
    <3>1. PICK m : m = client'[d] /\ ClientFits(m)
      BY <2>1, <2>2
    <3> QED
      BY <3>1, <2>3
  <2> QED
    BY <2>4 DEF ClientInv
<1> QED
  BY <1>3, <1>4, <1>5, <1>6, <1>7 DEF IInv

(* What the invariant says of one client.                                  *)
LEMMA ClientFacts ==
    ASSUME IInv, NEW c \in Clients
    PROVE  /\ client[c] \in ClientStates
           /\ ClientFits(client[c])
           /\ client[c].watcher \in {"static", "updatable"} <=> mutex = c
           /\ mutex \in Stores \cup Clients \cup {Nobody, Orphan}
           /\ waiting \subseteq Clients /\ starts \in Nat /\ kills \in Nat
           /\ Nobody \notin Stores \cup Clients
BY HoldersAssumption
   DEF IInv, TypeOK, SharedTypeOK, WatchdogTypeOK, ClientInv, LockInv

(* A client that has mapped nothing.                                       *)
LEMMA NothingFits ==
    Nothing \in [Kinds -> {0} \cup Blocks] /\ Whole(Nothing) /\ (\A kind \in Kinds : Nothing[kind] = 0)
BY DEF Nothing, Whole

(* The constructor takes the mutex and reads what is registered.           *)
LEMMA ConstructKeeps ==
    ASSUME IInv, NEW c \in Clients, Construct(c), UNCHANGED <<storageVars, kills>>
    PROVE  IInv'
<1> DEFINE me == ClientAt("construct", "static", Timestamps, RegisteredKeys,
                          Nothing, Nothing, Nothing)
<1>1. Timestamps \in [Kinds -> Nat] /\ RegisteredKeys \in [Kinds -> Keys]
  BY DEF Timestamps, RegisteredKeys, IInv, TypeOK, SharedTypeOK
<1>2. me \in ClientStates
  BY NothingFits, <1>1 DEF ClientAt, ClientStates, PerKind
<1>3. ClientFits(me)
  BY NothingFits DEF ClientFits, ClientAt, Construct, RegisteredKeys
<1>4. Become(c, me) /\ me.watcher = "static"
  BY DEF Construct, ClientAt
<1> HIDE DEF me
<1> QED
  BY ClientFacts, <1>2, <1>3, <1>4, ClientStep DEF Construct, Lock

(* The fields of a client's state have their types.                        *)
LEMMA ClientFields ==
    ASSUME IInv, NEW c \in Clients
    PROVE  /\ client[c].owner \in {"down", "construct", "up", "notify", "join"}
           /\ client[c].watcher \in {"none", "static", "updatable", "check", "waiting", "stopped"}
           /\ client[c].seen \in [Kinds -> Nat] /\ client[c].keys \in [Kinds -> Keys]
           /\ client[c].mapped \in PerKind /\ client[c].facade \in PerKind
           /\ client[c].held \in PerKind
<1>1. client[c] \in ClientStates
  BY ClientFacts
<1> QED
  BY <1>1 DEF ClientStates

(* Steps that change only how far the client's threads are, and what a     *)
(* request holds.                                                          *)
LEMMA ProgressKeeps ==
    ASSUME IInv, NEW c \in Clients, NEW owner, NEW watcher, NEW held \in PerKind, Whole(held),
           owner = client[c].owner
             \/ (client[c].owner # "down" /\ owner \in {"notify", "join"}),
           watcher = client[c].watcher
             \/ (/\ client[c].watcher \in {"check", "waiting"}
                 /\ watcher \in {"check", "waiting", "stopped"}),
           LET me == client[c]
           IN  Become(c, ClientAt(owner, watcher, me.seen, me.keys, me.mapped, me.facade, held)),
           waiting' \subseteq Clients,
           UNCHANGED <<blocks, named, registerVars, mutex, starts, storageVars, kills>>
    PROVE  IInv'
<1>1. PICK old : old = client[c]
  OBVIOUS
<1>2. PICK me : me = ClientAt(owner, watcher, old.seen, old.keys, old.mapped, old.facade, held)
  OBVIOUS
<1>3. /\ me.owner = owner /\ me.watcher = watcher /\ me.seen = old.seen /\ me.keys = old.keys
      /\ me.mapped = old.mapped /\ me.facade = old.facade /\ me.held = held
  BY <1>2 DEF ClientAt
<1>4. me \in ClientStates
  BY <1>1, <1>2, ClientFields DEF ClientAt, ClientStates
<1>5. ClientFits(old)
  BY <1>1, ClientFacts
<1>6. ClientFits(me)
  BY <1>1, <1>3, <1>5 DEF ClientFits
<1>7. me.watcher \in {"static", "updatable"} <=> mutex = c
  BY <1>1, <1>3, ClientFacts
<1>8. Become(c, me)
  BY <1>1, <1>2
<1> QED
  BY ClientFacts, <1>4, <1>6, <1>7, <1>8, ClientStep

(* What a request holds is whole, and so is the facade.                    *)
LEMMA HeldWhole ==
    ASSUME IInv, NEW c \in Clients
    PROVE  /\ client[c].held \in PerKind /\ Whole(client[c].held)
           /\ client[c].facade \in PerKind /\ Whole(client[c].facade)
           /\ Nothing \in PerKind /\ Whole(Nothing)
<1>1. ClientFits(client[c])
  BY ClientFacts
<1> QED
  BY <1>1, ClientFields, NothingFits DEF ClientFits, PerKind

(* The watcher stops, waits, or takes the mutex and reads again.           *)
LEMMA CheckRegionsKeeps ==
    ASSUME IInv, NEW c \in Clients, CheckRegions(c), UNCHANGED <<storageVars, kills>>
    PROVE  IInv'
<1>1. PICK old : old = client[c]
  OBVIOUS
<1>2. PICK again : again = ClientAt("up", "static", Timestamps, RegisteredKeys, Nothing,
                                    old.facade, old.held)
  OBVIOUS
<1>3. old.watcher = "check" /\ mutex = Nobody /\ UNCHANGED <<blocks, named, registerVars, starts>>
  BY <1>1 DEF CheckRegions
<1>4. \/ /\ Become(c, ClientAt(old.owner, "stopped", old.seen, old.keys, old.mapped,
                               old.facade, old.held))
         /\ UNCHANGED <<mutex, waiting>>
      \/ /\ Become(c, ClientAt(old.owner, "waiting", old.seen, old.keys, old.mapped,
                               old.facade, old.held))
         /\ waiting' = waiting \cup {c} /\ UNCHANGED mutex
      \/ old.owner = "up" /\ mutex' = c /\ Become(c, again) /\ UNCHANGED waiting
  BY <1>1, <1>2 DEF CheckRegions
<1>5. CASE old.owner = "up" /\ mutex' = c /\ Become(c, again) /\ UNCHANGED waiting
  <2>1. /\ again.owner = "up" /\ again.watcher = "static" /\ again.keys = RegisteredKeys
        /\ again.mapped = Nothing /\ again.facade = old.facade /\ again.held = old.held
    BY <1>2 DEF ClientAt
  <2>2. Timestamps \in [Kinds -> Nat] /\ RegisteredKeys \in [Kinds -> Keys]
    BY DEF Timestamps, RegisteredKeys, IInv, TypeOK, SharedTypeOK
  <2>3. again \in ClientStates
    BY <1>1, <1>2, <2>2, HeldWhole DEF ClientAt, ClientStates
  <2>4. ClientFits(old)
    BY <1>1, ClientFacts
  <2>5. ClientFits(again)
    BY <1>5, <2>1, <2>4, NothingFits DEF ClientFits, RegisteredKeys
  <2> QED
    BY ClientFacts, <1>3, <1>5, <2>1, <2>3, <2>5, ClientStep
<1> QED
  BY <1>1, <1>3, <1>4, <1>5, ClientFacts, HeldWhole, ProgressKeeps, Zenon

(* The semaphore was posted.                                               *)
LEMMA WakeUpKeeps ==
    ASSUME IInv, NEW c \in Clients, WakeUp(c), UNCHANGED <<storageVars, kills>>
    PROVE  IInv'
BY ProgressKeeps, ClientFacts, HeldWhole, Zenon DEF WakeUp, sharedVars

(* The destructor sets active to false.                                    *)
LEMMA DestroyFlagKeeps ==
    ASSUME IInv, NEW c \in Clients, DestroyFlag(c), UNCHANGED <<storageVars, kills>>
    PROVE  IInv'
BY ProgressKeeps, ClientFacts, HeldWhole, Zenon DEF DestroyFlag, sharedVars

(* The destructor wakes the watchers.                                      *)
LEMMA DestroyNotifyKeeps ==
    ASSUME IInv, NEW c \in Clients, DestroyNotify(c), UNCHANGED <<storageVars, kills>>
    PROVE  IInv'
BY ProgressKeeps, ClientFacts, HeldWhole, Zenon DEF DestroyNotify, NotifyAll

(* Under the mutex the allocator finds exactly the registered blocks.      *)
LEMMA MapStaticKeeps ==
    ASSUME IInv, NEW c \in Clients, MapStatic(c), UNCHANGED <<storageVars, kills>>
    PROVE  IInv'
<1> DEFINE old == client[c]
           opened == [Nothing EXCEPT !["static"] = named[old.keys["static"]]]
           me == ClientAt(old.owner, "updatable", old.seen, old.keys, opened,
                          old.facade, old.held)
<1>1. old.watcher = "static" /\ old.owner # "down" /\ mutex = c
  BY ClientFacts DEF MapStatic, ClientFits
<1>2. /\ region["static"].timestamp # 0
      /\ old.keys["static"] = region["static"].key
      /\ \A kind \in Kinds : old.keys[kind] = region[kind].key
  BY ClientFacts, <1>1 DEF ClientFits, Kinds
<1>3. /\ named[old.keys["static"]] = region["static"].block
      /\ Current(region["static"].block)
  BY <1>2 DEF IInv, RegionInv, Kinds
<1>4. opened \in PerKind
  BY NothingFits, <1>3, Zenon DEF Current, PerKind
<1>5. /\ opened["static"] = region["static"].block
      /\ \A kind \in Kinds : opened[kind] # 0 => Current(opened[kind])
  BY NothingFits, <1>3 DEF Kinds
<1> HIDE DEF opened
<1>6. me \in ClientStates
  BY ClientFacts, <1>4 DEF ClientAt, ClientStates
<1>7. ClientFits(me)
  BY ClientFacts, <1>1, <1>2, <1>5 DEF ClientFits, ClientAt
<1>8. Become(c, me) /\ me.watcher = "updatable"
  BY DEF MapStatic, ClientAt, opened
<1> HIDE DEF me
<1> QED
  BY ClientFacts, <1>1, <1>6, <1>7, <1>8, ClientStep DEF MapStatic, sharedVars

(* The watcher maps the updatable block: the facade is whole.              *)
LEMMA MapUpdatableKeeps ==
    ASSUME IInv, NEW c \in Clients, MapUpdatable(c), UNCHANGED <<storageVars, kills>>
    PROVE  IInv'
<1> DEFINE old == client[c]
           owner == IF old.owner = "construct" THEN "up" ELSE old.owner
           opened == [old.mapped EXCEPT !["updatable"] = named[old.keys["updatable"]]]
           me == ClientAt(owner, "check", old.seen, old.keys, Nothing, opened, old.held)
<1>1. old.watcher = "updatable" /\ old.owner # "down" /\ mutex = c
  BY ClientFacts DEF MapUpdatable, ClientFits
<1>2. /\ \A kind \in Kinds : region[kind].timestamp # 0 /\ old.keys[kind] = region[kind].key
      /\ old.mapped["static"] = region["static"].block
  BY ClientFacts, <1>1 DEF ClientFits
<1>3. \A kind \in Kinds : /\ named[old.keys[kind]] = region[kind].block
                          /\ Current(region[kind].block)
  BY <1>2 DEF IInv, RegionInv
<1>4. old.mapped \in [Kinds -> {0} \cup Blocks]
  BY ClientFacts DEF ClientStates, PerKind
<1>5. opened \in PerKind
  BY <1>3, <1>4 DEF Current, PerKind, Kinds
<1>6. \A kind \in Kinds : opened[kind] = region[kind].block
  BY <1>2, <1>3, <1>4 DEF Kinds
<1>7. blocks[region["updatable"].block].base = region["static"].block
  BY <1>1, <1>2 DEF IInv, PairInv, Kinds
<1> HIDE DEF opened
<1>8. Whole(opened)
  BY <1>3, <1>6, <1>7 DEF Whole, Kinds
<1>9. me \in ClientStates
  BY ClientFacts, NothingFits, <1>5 DEF ClientAt, ClientStates, PerKind
<1>10. ClientFits(me)
  BY ClientFacts, NothingFits, <1>1, <1>2, <1>8 DEF ClientFits, ClientAt
<1>11. Become(c, me) /\ me.watcher = "check"
  BY DEF MapUpdatable, ClientAt, opened
<1> HIDE DEF me
<1> QED
  BY ClientFacts, <1>1, <1>9, <1>10, <1>11, ClientStep DEF MapUpdatable, Unlock

(* A request takes the facade and gives it back.                           *)
LEMMA RequestKeeps ==
    ASSUME IInv, NEW c \in Clients, BeginRequest(c) \/ EndRequest(c),
           UNCHANGED <<storageVars, kills>>
    PROVE  IInv'
BY ProgressKeeps, ClientFacts, HeldWhole, Zenon DEF BeginRequest, EndRequest, sharedVars

(* A server that ends, or is killed, lets go of everything.                *)
LEMMA DownKeeps ==
    ASSUME IInv, NEW c \in Clients, Become(c, Down),
           (UNCHANGED mutex /\ mutex # c) \/ mutex' = (IF mutex = c THEN Orphan ELSE mutex),
           kills' \in Nat,
           UNCHANGED <<blocks, named, registerVars, waiting, starts, storageVars>>
    PROVE  IInv'
<1>1. [kind \in Kinds |-> 0] \in [Kinds -> Keys] /\ [kind \in Kinds |-> 0] \in [Kinds -> Nat]
  BY MaxKeysAssumption DEF Keys
<1>2. Down \in ClientStates
  BY <1>1 DEF Down, ClientAt, ClientStates, PerKind, Nothing
<1>3. ClientFits(Down) /\ Down.watcher = "none"
  BY NothingFits DEF Down, ClientAt, ClientFits
<1>4. Orphan \notin Stores \cup Clients /\ Orphan # Nobody
  BY HoldersAssumption
<1> HIDE DEF Down
<1> QED
  BY ClientFacts, <1>2, <1>3, <1>4, ClientStep

(* Every step of an osrm-routed process, its death included.               *)
LEMMA ClientActions ==
    ASSUME IInv, NEW c \in Clients,
           \/ /\ \/ Watch(c) \/ Answer(c) \/ Destroy(c)
                 \/ (Construct(c) \/ BeginRequest(c) \/ DestroyFlag(c))
                      /\ UNCHANGED <<storageVars, kills>>
           \/ KillClient(c) /\ kills' = kills + 1 /\ UNCHANGED storageVars
    PROVE  IInv'
<1>0. kills \in Nat /\ (client[c].watcher = "stopped" => mutex # c)
  BY ClientFacts
<1>1. CASE DestroyJoin(c) /\ UNCHANGED <<storageVars, kills>>
  BY <1>0, <1>1, DownKeeps DEF DestroyJoin, sharedVars
<1>2. CASE KillClient(c) /\ kills' = kills + 1 /\ UNCHANGED storageVars
  <2>1. kills' \in Nat
    BY <1>0, <1>2
  <2> QED
    BY <1>2, <2>1, DownKeeps DEF KillClient
<1> QED
  BY <1>1, <1>2, ConstructKeeps, CheckRegionsKeeps, WakeUpKeeps, MapStaticKeeps,
     MapUpdatableKeeps, RequestKeeps, DestroyFlagKeeps, DestroyNotifyKeeps
  DEF Watch, WatcherStep, Answer, Destroy, DestroyStep

-----------------------------------------------------------------------------
(* Steps of a run that concern only its progress and the locks.            *)

(* A run that has the file lock, or takes it, is the only one; the others  *)
(* are idle and what they have to keep is nothing.                         *)
LEMMA StoreFacts ==
    ASSUME IInv, NEW s \in Stores
    PROVE  /\ store[s] \in StoreStates
           /\ StoreFits(store[s])
           /\ store[s].pc # "idle" <=> file_lock = s
           /\ store[s].pc \in {"write_static", "write_updatable"} <=> mutex = s
           /\ mutex \in Stores \cup Clients \cup {Nobody, Orphan}
           /\ Nobody \notin Stores \cup Clients /\ Orphan \notin Stores \cup Clients
           /\ s \notin Clients
           /\ waiting \subseteq Clients /\ runs \in Nat /\ kills \in Nat
           /\ IdleStore \in StoreStates
           /\ NoBlocks \in [Kinds -> {0} \cup Blocks]
<1>1. <<>> \in Seq(Blocks)
  OBVIOUS
<1>2. IdleStore \in StoreStates /\ NoBlocks \in [Kinds -> {0} \cup Blocks]
  BY <1>1 DEF IdleStore, StoreAt, NoBlocks, StoreStates
<1> QED
  BY <1>2, HoldersAssumption
  DEF IInv, TypeOK, SharedTypeOK, StorageTypeOK, WatchdogTypeOK, StoreInv, LockInv

(* What a step of one run leaves of the invariant about the runs.          *)
LEMMA StoreInvStep ==
    ASSUME IInv, NEW s \in Stores, NEW me, Goto(s, me),
           store[s].pc # "idle" \/ file_lock = Nobody,
           me \in StoreStates', StoreFits(me)', Blocks \subseteq Blocks'
    PROVE  store' \in [Stores -> StoreStates'] /\ StoreInv'
<1>1. store \in [Stores -> StoreStates] /\ store' = [store EXCEPT ![s] = me]
  BY DEF IInv, TypeOK, StorageTypeOK, Goto
<1>2. StoreStates \subseteq StoreStates'
  <2>1. Seq(Blocks) \subseteq Seq(Blocks')
    BY SeqMonotonic
  <2> QED
    BY <2>1 DEF StoreStates
<1>3. store' \in [Stores -> StoreStates']
  BY <1>1, <1>2
<1>4. ASSUME NEW r \in Stores PROVE StoreFits(store[r])'
  <2>1. CASE r = s
    BY <2>1, <1>1
  <2>2. CASE r # s
    <3>1. store'[r] = store[r] /\ store[r] \in StoreStates
      BY <2>2, <1>1
    <3>2. store[r].pc = "idle" /\ store[r].old = <<>>
      BY <2>2, HoldersAssumption, StoreFacts DEF StoreFits
    <3>3. PICK old : old = store[r]
      OBVIOUS
    <3>4. old.pc = "idle" /\ old.old = <<>> /\ Len(old.old) = 0
      BY <3>2, <3>3
    <3>5. /\ \A i \in 1 .. Len(old.old) : FALSE
          /\ old.pc \notin {"updatable", "lock", "write_static", "write_updatable", "remove", "detach"}
      BY <3>4
    <3>6. StoreFits(old)'
      BY <3>4, <3>5, Zenon DEF StoreFits
    <3> QED
      BY <3>1, <3>3, <3>6
  <2> QED
    BY <2>1, <2>2
<1> QED
  BY <1>3, <1>4 DEF StoreInv

(* The locks after a step of one run.                                      *)
LEMMA LockStep ==
    ASSUME IInv, NEW s \in Stores, NEW me, Goto(s, me),
           store[s].pc # "idle" \/ file_lock = Nobody,
           UNCHANGED client,
           file_lock' \in {s, Nobody},
           me.pc # "idle" <=> file_lock' = s,
           me.pc \in {"write_static", "write_updatable"} <=> mutex' = s,
           \A p \in Stores \cup Clients : p # s => (mutex' = p <=> mutex = p)
    PROVE  LockInv'
<1>1. store \in [Stores -> StoreStates] /\ store' = [store EXCEPT ![s] = me]
  BY DEF IInv, TypeOK, StorageTypeOK, Goto
<1>2. ASSUME NEW r \in Stores
      PROVE  /\ store'[r].pc # "idle" <=> file_lock' = r
             /\ store'[r].pc \in {"write_static", "write_updatable"} <=> mutex' = r
  <2>1. CASE r = s
    BY <2>1, <1>1
  <2>2. CASE r # s
    <3>1. store'[r] = store[r]
      BY <2>2, <1>1
    <3>2. store[r].pc = "idle"
      BY <2>2, HoldersAssumption, StoreFacts
    <3>3. mutex' # r
      BY <2>2, <3>2, StoreFacts
    <3> QED
      BY <2>2, <3>1, <3>2, <3>3, HoldersAssumption
  <2> QED
    BY <2>1, <2>2
<1>3. \A c \in Clients : client'[c].watcher \in {"static", "updatable"} <=> mutex' = c
  BY HoldersAssumption DEF IInv, LockInv
<1> QED
  BY <1>2, <1>3 DEF LockInv

(* What a client has mapped stays whole as long as its blocks stay current *)
(* and the register does not change under its mutex.                       *)
LEMMA ClientInvStep ==
    ASSUME IInv, UNCHANGED <<client, starts>>, Blocks \subseteq Blocks',
           \A b \in Blocks : blocks'[b] = blocks[b],
           \A kind \in Kinds : region[kind].timestamp # 0 => region'[kind].timestamp # 0,
           mutex \in Clients => UNCHANGED region,
           \A b \in Used : Current(b) => Current(b)'
    PROVE  WatchdogTypeOK' /\ ClientInv'
<1>1. client \in [Clients -> ClientStates] /\ starts \in Nat
  BY DEF IInv, TypeOK, WatchdogTypeOK
<1>2. ClientStates \subseteq ClientStates'
  BY DEF ClientStates, PerKind
<1>3. WatchdogTypeOK'
  BY <1>1, <1>2 DEF WatchdogTypeOK
<1>4. ASSUME NEW c \in Clients PROVE ClientFits(client[c])'
  <2> DEFINE me == client[c]
  <2>1. ClientFits(me) /\ me \in ClientStates
    BY <1>1 DEF IInv, ClientInv
  <2>2. ASSUME NEW b, b # 0, \E kind \in Kinds : b \in {me.mapped[kind], me.facade[kind], me.held[kind]}
        PROVE  b \in Used
    <3>1. b \in UsedBy(c)
      BY <2>2, Zenon DEF UsedBy
    <3>2. b \in UNION {UsedBy(d) : d \in Clients}
      BY <3>1
    <3> QED
      BY <2>2, <3>2 DEF Used
  <2>3. \A kind \in Kinds : me.mapped[kind] # 0 => Current(me.mapped[kind])'
    BY <2>1, <2>2 DEF ClientFits
  <2>4. ASSUME NEW f \in PerKind, f \in {me.facade, me.held}, Whole(f) PROVE Whole(f)'
    <3>1. CASE f = Nothing
      BY <3>1 DEF Whole, Nothing
    <3>2. CASE f # Nothing
      <4>1. \A kind \in Kinds : Current(f[kind]) /\ f[kind] # 0
        BY <2>4, <3>2, BlocksNumbered DEF Whole, Current, IInv
      <4>2. \A kind \in Kinds : f[kind] \in Used /\ f[kind] \in Blocks
        BY <2>4, <2>2, <4>1 DEF Current
      <4>3. \A kind \in Kinds : Current(f[kind])'
        BY <4>1, <4>2
      <4>4. blocks'[f["updatable"]] = blocks[f["updatable"]]
        BY <4>2 DEF Kinds
      <4> QED
        BY <2>4, <3>2, <4>3, <4>4 DEF Whole
    <3> QED
      BY <3>1, <3>2
  <2>5. me.facade \in PerKind /\ me.held \in PerKind
    BY <2>1 DEF ClientStates
  <2>6. Whole(me.facade)' /\ Whole(me.held)'
    <3>1. Whole(me.facade) /\ Whole(me.held)
      BY <2>1 DEF ClientFits
    <3>2. client'[c] = me
      OBVIOUS
    <3> QED
      BY <2>4, <2>5, <3>1, <3>2
  <2>7. me.watcher \in {"static", "updatable"} => UNCHANGED region
    BY DEF IInv, LockInv
  <2> QED
    BY <2>1, <2>3, <2>6, <2>7 DEF ClientFits
<1> QED
  BY <1>3, <1>4 DEF ClientInv

(* A step of a run that leaves the blocks, their names and the register as *)
(* they are: it is enough that its new state fits and that nobody else's   *)
(* hold on the locks changes.                                              *)
LEMMA RunStep ==
    ASSUME IInv, NEW s \in Stores, NEW me \in StoreStates, Goto(s, me), StoreFits(me),
           store[s].pc # "idle" \/ file_lock = Nobody,
           file_lock' \in {s, Nobody},
           me.pc # "idle" <=> file_lock' = s,
           me.pc \in {"write_static", "write_updatable"} <=> mutex' = s,
           \A p \in Stores \cup Clients : p # s => (mutex' = p <=> mutex = p),
           mutex' \in Clients \cup {Nobody} => mutex \in Clients \cup {Nobody},
           mutex' \in Stores \cup Clients \cup {Nobody, Orphan},
           waiting' \subseteq Clients, runs' \in Nat, kills' \in Nat,
           monitor' = monitor \/ monitor' = "removed", lost' = lost \/ lost' \subseteq Keys,
           UNCHANGED <<blocks, named, registerVars, watchdogVars>>
    PROVE  IInv'
<1>1. UNCHANGED <<blocks, named, region, shm_key_in_use, client, starts>>
  BY DEF registerVars, watchdogVars
<1>2. Blocks' = Blocks /\ \A b : Current(b)' <=> Current(b)
  BY <1>1 DEF Current, Blocks
<1>3. WatchdogTypeOK' /\ ClientInv'
  BY <1>1, <1>2, ClientInvStep
<1>4. LockInv'
  BY <1>1, LockStep
<1>5. me \in StoreStates' /\ StoreFits(me)'
  <2>1. me \in StoreStates'
    BY <1>2 DEF StoreStates
  <2>2. StoreFits(me)'
    BY <1>1, <1>2 DEF StoreFits, Fresh, Registered
  <2> QED
    BY <2>1, <2>2
<1>6. store' \in [Stores -> StoreStates'] /\ StoreInv'
  BY <1>2, <1>5, StoreInvStep
<1>7. TypeOK'
  <2>1. SharedTypeOK'
    BY <1>1, <1>2 DEF IInv, TypeOK, SharedTypeOK
  <2>2. StorageTypeOK'
    BY <1>6, HoldersAssumption DEF StorageTypeOK, IInv, TypeOK
  <2> QED
    BY <2>1, <2>2, <1>3 DEF TypeOK
<1>8. NameInv' /\ RegionInv' /\ PairInv'
  BY <1>1, <1>2 DEF IInv, NameInv, RegionInv, PairInv
<1> QED
  BY <1>3, <1>4, <1>6, <1>7, <1>8 DEF IInv

(* A run that has nothing to remove, and nothing to register or no longer, *)
(* has nothing to keep.                                                    *)
LEMMA NothingToKeep ==
    ASSUME NEW me, me.pc \in {"idle", "static", "exit"}, me.old = <<>>
    PROVE  StoreFits(me)
<1>1. Len(me.old) = 0
  OBVIOUS
<1>2. \A i \in 1 .. Len(me.old) : FALSE
  BY <1>1
<1>3. me.pc \notin {"updatable", "lock", "write_static", "write_updatable", "remove", "detach"}
  OBVIOUS
<1> QED
  BY <1>2, <1>3, Zenon DEF StoreFits

(* The fields of the state that a run is in have their types.              *)
LEMMA StoreFields ==
    ASSUME IInv, NEW s \in Stores
    PROVE  /\ store[s].base \in {0} \cup Blocks /\ store[s].new \in [Kinds -> {0} \cup Blocks]
           /\ store[s].old \in Seq(Blocks) /\ <<>> \in Seq(Blocks)
<1>1. store[s] \in StoreStates
  BY StoreFacts
<1> QED
  BY <1>1 DEF StoreStates

(* A run begins: it takes the file lock.                                   *)
LEMMA StartRunKeeps ==
    ASSUME IInv, NEW s \in Stores, NEW only_metric \in BOOLEAN, StartRun(s, only_metric),
           UNCHANGED <<watchdogVars, kills>>
    PROVE  IInv'
<1>1. PICK update : update = StoreAt("updatable", region["static"].block, NoBlocks, <<>>)
  OBVIOUS
<1>2. PICK whole : whole = StoreAt("static", 0, NoBlocks, <<>>)
  OBVIOUS
<1>3. region["static"].block \in {0} \cup Blocks /\ NoBlocks \in [Kinds -> {0} \cup Blocks]
  BY StoreFacts DEF IInv, TypeOK, SharedTypeOK, Kinds
<1>4. /\ update.pc = "updatable" /\ update.base = region["static"].block
      /\ update.new = NoBlocks /\ update.old = <<>> /\ update \in StoreStates
  BY <1>1, <1>3, StoreFields DEF StoreAt, StoreStates
<1>5. whole.pc = "static" /\ whole.old = <<>> /\ whole \in StoreStates
  BY <1>2, <1>3, StoreFields DEF StoreAt, StoreStates
<1>6. only_metric => StoreFits(update)
  <2>1. NoBlocks["static"] = 0 /\ Len(update.old) = 0
    BY <1>4 DEF NoBlocks, Kinds
  <2>2. only_metric => region["static"].timestamp # 0
    BY DEF StartRun, Kinds
  <2> QED
    BY <1>4, <2>1, <2>2 DEF StoreFits
<1>7. StoreFits(whole)
  BY <1>5, NothingToKeep
<1>8. PICK me \in StoreStates : StoreFits(me) /\ Goto(s, me) /\ me.pc \in {"updatable", "static"}
  BY <1>1, <1>2, <1>4, <1>5, <1>6, <1>7 DEF StartRun
<1>9. mutex # s
  BY StoreFacts DEF StartRun
<1>10. /\ file_lock = Nobody /\ file_lock' = s /\ runs' \in Nat /\ kills' \in Nat
       /\ UNCHANGED <<mutex, waiting, monitor, lost>>
       /\ UNCHANGED <<blocks, named, registerVars, watchdogVars>>
  BY StoreFacts DEF StartRun, sharedVars
<1>11. me.pc # "idle" /\ me.pc \notin {"write_static", "write_updatable"}
  BY <1>8
<1>12. waiting' \subseteq Clients /\ mutex' \in Stores \cup Clients \cup {Nobody, Orphan}
  BY StoreFacts, <1>10
<1> QED
  BY <1>8, <1>9, <1>10, <1>11, <1>12, RunStep

(* The keys that a run gives up are keys.                                  *)
LEMMA CutShortType ==
    ASSUME IInv, NEW s \in Stores, CutShort(s)
    PROVE  lost' \subseteq Keys
BY DEF CutShort, IInv, TypeOK, StorageTypeOK

(* The run fails: it ends with nothing to remove.                          *)
LEMMA FailRunKeeps ==
    ASSUME IInv, NEW s \in Stores, FailRun(s), UNCHANGED <<watchdogVars, kills>>
    PROVE  IInv'
<1>1. PICK me : me = StoreAt("exit", store[s].base, store[s].new, <<>>)
  OBVIOUS
<1>2. me.pc = "exit" /\ me.old = <<>> /\ me \in StoreStates
  BY <1>1, StoreFields DEF StoreAt, StoreStates
<1>3. StoreFits(me)
  BY <1>2, NothingToKeep
<1>4. Goto(s, me) /\ mutex # s /\ file_lock = s
  BY <1>1, StoreFacts DEF FailRun
<1>5. lost' \subseteq Keys
  BY CutShortType DEF FailRun
<1>6. /\ store[s].pc # "idle" /\ file_lock' = s /\ runs' \in Nat /\ kills' \in Nat
      /\ UNCHANGED <<mutex, waiting, monitor>>
      /\ UNCHANGED <<blocks, named, registerVars, watchdogVars>>
  BY StoreFacts, <1>4 DEF FailRun, sharedVars
<1>7. waiting' \subseteq Clients /\ mutex' \in Stores \cup Clients \cup {Nobody, Orphan}
  BY StoreFacts, <1>6
<1> QED
  BY <1>2, <1>3, <1>4, <1>5, <1>6, <1>7, RunStep

(* The run takes the mutex; what it is about to register stays fresh.      *)
LEMMA LockRegionsKeeps ==
    ASSUME IInv, NEW s \in Stores, LockRegions(s), UNCHANGED <<watchdogVars, kills>>
    PROVE  IInv'
<1>1. PICK old : old = store[s]
  OBVIOUS
<1>2. PICK pc : pc = IF old.new["static"] # 0 THEN "write_static" ELSE "write_updatable"
  OBVIOUS
<1>3. PICK me : me = StoreAt(pc, old.base, old.new, <<>>)
  OBVIOUS
<1>4. pc \in {"write_static", "write_updatable"} /\ (pc = "write_static" <=> old.new["static"] # 0)
  BY <1>2
<1>5. /\ me.pc = pc /\ me.base = old.base /\ me.new = old.new /\ me.old = <<>>
      /\ me \in StoreStates
  BY <1>1, <1>3, <1>4, StoreFields DEF StoreAt, StoreStates
<1>6. StoreFits(old) /\ old.pc = "lock"
  BY <1>1, StoreFacts DEF LockRegions
<1>7. StoreFits(me)
  <2>1. Len(me.old) = 0
    BY <1>5
  <2>2. IF old.new["static"] # 0
          THEN Fresh(old.new["static"], "static") /\ old.base = old.new["static"]
          ELSE region["static"].timestamp # 0 /\ old.base = region["static"].block
    BY <1>6, Zenon DEF StoreFits
  <2>3. Fresh(old.new["updatable"], "updatable") /\ blocks[old.new["updatable"]].base = old.base
    BY <1>6, Zenon DEF StoreFits
  <2>4. 1 .. Len(me.old) = {}
    BY <2>1
  <2> QED
    BY <1>4, <1>5, <2>2, <2>3, <2>4 DEF StoreFits
<1>8. Goto(s, me) /\ file_lock = s
  BY <1>1, <1>2, <1>3, StoreFacts DEF LockRegions
<1> QED
  BY StoreFacts, <1>4, <1>5, <1>7, <1>8, RunStep DEF LockRegions, Lock

(* The clients are woken; the blocks to remove are the same.               *)
LEMMA NotifyClientsKeeps ==
    ASSUME IInv, NEW s \in Stores, NotifyClients(s), UNCHANGED <<watchdogVars, kills>>
    PROVE  IInv'
<1>1. PICK old : old = store[s]
  OBVIOUS
<1>2. PICK pc : pc = NextOld(old.old)
  OBVIOUS
<1>3. PICK me : me = StoreAt(pc, old.base, old.new, old.old)
  OBVIOUS
<1>4. pc \in {"exit", "remove"} /\ (pc = "exit" <=> old.old = <<>>)
  BY <1>2 DEF NextOld
<1>5. /\ me.pc = pc /\ me.old = old.old /\ me \in StoreStates
  BY <1>1, <1>3, <1>4, StoreFields DEF StoreAt, StoreStates
<1>6. StoreFits(old)
  BY <1>1, StoreFacts
<1>7. StoreFits(me)
  BY <1>4, <1>5, <1>6 DEF StoreFits
<1>8. Goto(s, me) /\ file_lock = s /\ mutex # s
  BY <1>1, <1>2, <1>3, StoreFacts DEF NotifyClients
<1> QED
  BY StoreFacts, <1>4, <1>5, <1>7, <1>8, RunStep DEF NotifyClients, NotifyAll

(* A run that ends, or is killed, gives up the file lock; the mutex of one *)
(* that is killed stays taken.                                             *)
LEMMA RunOver ==
    ASSUME IInv, NEW s \in Stores, store[s].pc # "idle", file_lock' = Nobody,
           mutex' = IF mutex = s THEN Orphan ELSE mutex, Goto(s, IdleStore),
           monitor' = monitor \/ monitor' = "removed", lost' = lost \/ lost' \subseteq Keys,
           kills' \in Nat, UNCHANGED <<blocks, named, registerVars, waiting, runs, watchdogVars>>
    PROVE  IInv'
<1>1. IdleStore.pc = "idle" /\ IdleStore.old = <<>>
  BY DEF IdleStore, StoreAt
<1>2. StoreFits(IdleStore)
  BY <1>1, NothingToKeep
<1> QED
  BY StoreFacts, <1>1, <1>2, HoldersAssumption, RunStep

(* main returns: the file lock goes with the process.                      *)
LEMMA ExitRunKeeps ==
    ASSUME IInv, NEW s \in Stores, ExitRun(s), UNCHANGED <<watchdogVars, kills>>
    PROVE  IInv'
BY StoreFacts, RunOver DEF ExitRun, sharedVars

(* A metric without a dataset: the register stays as it is.                *)
LEMMA RefuseMetricKeeps ==
    ASSUME IInv, NEW s \in Stores, RefuseMetric(s), UNCHANGED <<watchdogVars, kills>>
    PROVE  IInv'
<1>1. store[s].pc = "idle" /\ store[s] \in StoreStates /\ StoreFits(store[s]) /\ file_lock = Nobody
  BY StoreFacts DEF RefuseMetric
<1>2. Goto(s, store[s])
  BY DEF Goto, RefuseMetric, IInv, TypeOK, StorageTypeOK
<1> QED
  BY StoreFacts, <1>1, <1>2, RunStep DEF RefuseMetric, RemoveMonitor, sharedVars

(* The process aborts: the file lock goes, and the monitor's name.         *)
LEMMA AbortRunKeeps ==
    ASSUME IInv, NEW s \in Stores, AbortRun(s), UNCHANGED <<watchdogVars, kills>>
    PROVE  IInv'
<1>1. mutex # s /\ kills' \in Nat
  BY StoreFacts DEF AbortRun
<1>2. lost' \subseteq Keys
  BY CutShortType DEF AbortRun
<1> QED
  BY <1>1, <1>2, RunOver DEF AbortRun, RemoveMonitor, sharedVars

(* A signal: the file lock goes, the mutex stays taken if the run held it. *)
LEMMA KillStoreKeeps ==
    ASSUME IInv, NEW s \in Stores, KillStore(s), kills' = kills + 1, UNCHANGED watchdogVars
    PROVE  IInv'
<1>1. lost' \subseteq Keys
  BY CutShortType DEF KillStore
<1> QED
  BY <1>1, StoreFacts, RunOver DEF KillStore, RemoveMonitor
=============================================================================
