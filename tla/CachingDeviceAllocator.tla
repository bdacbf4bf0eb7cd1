---------------------- MODULE CachingDeviceAllocator ----------------------
(***************************************************************************)
(* The XPU caching allocator, csrc/gpu/runtime/CachingDeviceAllocator.cpp. *)
(*                                                                         *)
(* One recursive mutex serialises the public operations, so at most one    *)
(* operation is in flight: `op` is its program counter and locals.  malloc *)
(* and emptyCache loop over the event list, and the device may complete    *)
(* events between two iterations; those operations are sequences of steps, *)
(* all taken with the mutex held.  free is a step, or one step per event   *)
(* it has to insert.                                                       *)
(*                                                                         *)
(* Addresses are naturals of one address space (USM pointers are unique    *)
(* across the devices of a context).  The SYCL runtime is external: it     *)
(* hands out a segment of `Bases` when the device has room for it.         *)
(* `undefined` records that the code dereferenced a deleted Block or a     *)
(* destroyed PrivatePool; nothing is claimed of what happens afterwards.   *)
(***************************************************************************)
EXTENDS Integers, Sequences, FiniteSets, FiniteSetsExt

CONSTANTS
  BlockId,          \* addresses `new Block` may return
  Device,           \* device indices
  Queue,            \* SYCL queues, compared with ==
  QueueObject,      \* sycl::queue objects, compared by address
  DeviceOf,         \* the device of each queue
  CallSite,         \* <<current device, queue object, the queue it holds>>: the
                    \* calls of malloc
  NeverUsed,        \* <<queue of a block, another queue>>: the pairs recordQueue
                    \* is not called for
  Mempool,          \* keys (device, MempoolId_t) of private pools
  ASize,            \* requested sizes
  Bases,            \* addresses the SYCL runtime may return
  Capacity,         \* bytes the SYCL runtime can allocate on each device
  Has2DBlockArray,  \* devices with has_2d_block_array
  MaxGraphs,        \* bound on the references to one private pool
  MaxActive,        \* bound on the blocks allocated or waiting for events
  kMinBlockSize, kSmallSize, kSmallBuffer, kLargeBuffer, kMinLargeAlloc,
  kRoundLarge, kStatefulLimit,
  NULL,             \* nullptr
  Destroyed         \* m_owner_private_pool of a block whose pool is gone

ASSUME SizesAssumption ==
  /\ kMinBlockSize \in Nat \ {0} /\ kSmallSize \in Nat /\ kSmallBuffer \in Nat
  /\ kLargeBuffer \in Nat /\ kMinLargeAlloc \in Nat
  /\ kRoundLarge \in Nat \ {0} /\ kStatefulLimit \in Nat
  /\ kMinBlockSize <= kSmallSize
  /\ kSmallSize <= kSmallBuffer
  /\ kMinLargeAlloc <= kLargeBuffer

ASSUME NullAssumption ==
  /\ NULL \notin BlockId /\ NULL \notin Queue /\ NULL \notin Mempool
  /\ NULL \notin Device /\ NULL \notin QueueObject
  /\ Destroyed \notin Mempool /\ Destroyed # NULL

\* nullptr is not a request of AbstractAllocator.
ASSUME RequestAssumption == NULL \notin [queue : Queue, size : Nat]

ASSUME TopologyAssumption ==
  /\ IsFiniteSet(Queue)
  /\ Device \subseteq Nat /\ ASize \subseteq Nat \ {0} /\ Bases \subseteq Nat
  /\ DeviceOf \in [Queue -> Device] /\ Capacity \in [Device -> Nat]
  /\ CallSite \subseteq Device \X QueueObject \X Queue
  /\ NeverUsed \subseteq Queue \X Queue /\ Has2DBlockArray \subseteq Device
  /\ MaxGraphs \in Nat /\ MaxActive \in Nat

VARIABLES
  block,                 \* the Block objects that exist, by address
  pool,                  \* <<owner, pool type>> |-> the BlockPool (std::set)
  allocated_blocks,      \* buffer |-> block
  dpcpp_events,          \* the deque of (event, block)
  segment,               \* what sycl::aligned_alloc_device has handed out
  graph_pools,           \* private pool |-> use_count
  graph_pools_freeable,  \* private pools whose use_count is 0
  recordings_underway,   \* sequence of [pool, filter]
  recorded,              \* XPUGraphs that own a recorded graph, per pool
  device_stats,          \* device |-> pool type |-> Stat::current by name
  op,                    \* the operation that holds the mutex
  undefined              \* the code has touched freed memory

vars == <<block, pool, allocated_blocks, dpcpp_events, segment, graph_pools,
          graph_pools_freeable, recordings_underway, recorded, device_stats,
          op, undefined>>

graphVars == <<graph_pools, graph_pools_freeable, recordings_underway, recorded>>

-----------------------------------------------------------------------------
(* Types. *)

PoolType == {"SMALL_POOL", "LARGE_POOL"}

Owner == Mempool \cup {NULL}          \* NULL is the allocator's own pool

PoolKey == Owner \X PoolType

Block ==
  [device : Device, queue : Queue, queue_uses : SUBSET Queue, size : Nat,
   pool_type : PoolType, buffer : Nat, allocated : BOOLEAN,
   prev : BlockId \cup {NULL}, next : BlockId \cup {NULL},
   event_cnt : Nat, owner : Mempool \cup {NULL, Destroyed}]

Event == [block : BlockId, queue : Queue, done : BOOLEAN]

\* `owner` is history: the pool the segment was obtained for.
Segment == [base : Nat, size : Nat, device : Device, owner : Owner]

\* `filter`: the object the recording's filter accepts, NULL when its queue is
\* not (yet, or any more) in the Recording state.
Underway == [pool : Mempool, filter : QueueObject \cup {NULL}]

StatName == {"segment", "reserved_bytes", "inactive_split",
             "inactive_split_bytes", "allocation", "allocated_bytes",
             "active", "active_bytes"}

Stats == [Device -> [PoolType -> [StatName -> Int]]]

PC == {"idle", "process_events", "find_free_block", "malloc", "synchronize",
       "free_cached_blocks", "retry", "split", "insert_events",
       "empty_synchronize", "empty_free"}

Op == [pc : PC, device : Device \cup {NULL}, object : QueueObject \cup {NULL},
       queue : Queue \cup {NULL}, asize : Nat, owner : Owner,
       block : BlockId \cup {NULL}, todo : SUBSET Queue]

Idle == [pc |-> "idle", device |-> NULL, object |-> NULL, queue |-> NULL,
         asize |-> 0, owner |-> NULL, block |-> NULL, todo |-> {}]

-----------------------------------------------------------------------------
(* Sizes (malloc, lines 177-179 and 258-264). *)

RoundUp(n, unit) == unit * ((n + unit - 1) \div unit)

RoundSize(asize) ==
  IF asize < kMinBlockSize THEN kMinBlockSize ELSE RoundUp(asize, kMinBlockSize)

PoolTypeOf(size) == IF size <= kSmallSize THEN "SMALL_POOL" ELSE "LARGE_POOL"

AllocSize(size) ==
  CASE size <= kSmallSize -> kSmallBuffer
    [] size > kSmallSize /\ size < kMinLargeAlloc -> kLargeBuffer
    [] OTHER -> RoundUp(size, kRoundLarge)

\* Mutant: splits off a remainder of any size.
ShouldSplit_Always(b, size) == b.size - size >= 0

ShouldSplit(b, size) ==
  LET remaining == b.size - size
  IN  IF b.pool_type = "SMALL_POOL" THEN remaining >= kMinBlockSize
                                    ELSE remaining > kSmallSize

IsSplit(b) == b.prev # NULL \/ b.next # NULL

-----------------------------------------------------------------------------
(* Statistics: update_stat on the `current` field.  AGGREGATE receives the *)
(* amounts of both pool types, so it is their sum and is not stored.       *)

UpdateStats(stats, dev, type, amount) ==
  [stats EXCEPT ![dev][type] =
     [n \in StatName |-> @[n] + IF n \in DOMAIN amount THEN amount[n] ELSE 0]]

-----------------------------------------------------------------------------
(* Ranges and the external SYCL runtime. *)

Overlap(lo1, size1, lo2, size2) == lo1 < lo2 + size2 /\ lo2 < lo1 + size1

ReservedOn(dev) ==
  MapThenSumSet(LAMBDA s : s.size, {s \in segment : s.device = dev})

SyclAddresses(size) ==
  {a \in Bases : \A s \in segment : ~Overlap(a, size, s.base, s.size)}

SyclCanAlloc(dev, size) ==
  ReservedOn(dev) + size <= Capacity[dev] /\ SyclAddresses(size) # {}

-----------------------------------------------------------------------------
(* Block pools. *)

\* A std::set operation compares elements, so it dereferences Blocks the
\* pool still lists after they were deleted.
Dangles(key, blocks) == pool[key] \ DOMAIN blocks # {}

\* Mutants: a source is merged although its events are pending, although it
\* is allocated, only in the small pool.
Mergeable_IgnoresEvents(blocks, src) == src # NULL /\ ~blocks[src].allocated
Mergeable_IgnoresAllocated(blocks, src) == src # NULL /\ blocks[src].event_cnt = 0
Mergeable_SmallOnly(blocks, src) ==
  /\ src # NULL /\ ~blocks[src].allocated /\ blocks[src].event_cnt = 0
  /\ blocks[src].pool_type = "SMALL_POOL"

\* try_merge_blocks, lines 569-571: the source of a merge.
Mergeable(blocks, src) ==
  /\ src # NULL
  /\ ~blocks[src].allocated
  /\ blocks[src].event_cnt = 0

\* Mutant: a block merged with the one before it keeps its start address.
TryMerge_KeepsBuffer(blocks, dst, src) ==
  LET before == blocks[dst].prev = src
      outer  == IF before THEN blocks[src].prev ELSE blocks[src].next
      size   == blocks[dst].size + blocks[src].size
  IN  IF ~Mergeable(blocks, src) THEN blocks
      ELSE [x \in DOMAIN blocks \ {src} |->
              CASE x = dst /\ before -> [blocks[x] EXCEPT !.size = size, !.prev = outer]
                [] x = dst /\ ~before -> [blocks[x] EXCEPT !.size = size, !.next = outer]
                [] x # dst /\ x = outer /\ before -> [blocks[x] EXCEPT !.next = dst]
                [] x # dst /\ x = outer /\ ~before -> [blocks[x] EXCEPT !.prev = dst]
                [] OTHER -> blocks[x]]

\* try_merge_blocks(dst, src): dst takes over the range and the outer link of
\* its neighbour src, which is deleted.
TryMerge(blocks, dst, src) ==
  LET before == blocks[dst].prev = src
      outer  == IF before THEN blocks[src].prev ELSE blocks[src].next
      size   == blocks[dst].size + blocks[src].size
  IN  IF ~Mergeable(blocks, src) THEN blocks
      ELSE [x \in DOMAIN blocks \ {src} |->
              CASE x = dst /\ before ->
                     [blocks[x] EXCEPT !.size = size, !.prev = outer,
                                       !.buffer = blocks[src].buffer]
                [] x = dst /\ ~before ->
                     [blocks[x] EXCEPT !.size = size, !.next = outer]
                [] x # dst /\ x = outer /\ before -> [blocks[x] EXCEPT !.next = dst]
                [] x # dst /\ x = outer /\ ~before -> [blocks[x] EXCEPT !.prev = dst]
                [] OTHER -> blocks[x]]

\* Mutant: only the block before the freed one is merged.
Merge_PrevOnly(blocks, b) == TryMerge(blocks, b, blocks[b].prev)

\* The two merge candidates of free_block, in its order.
Merge(blocks, b) ==
  TryMerge(TryMerge(blocks, b, blocks[b].prev), b, blocks[b].next)

\* Mutant: the merged blocks stay listed.
PoolAfterFree_NoErase(key, gone, b) == [pool EXCEPT ![key] = @ \cup {b}]

\* free_block's pool after erase(src) for each source and insert(block).
PoolAfterFree(key, gone, b) == [pool EXCEPT ![key] = (@ \ gone) \cup {b}]

\* free_block(b), on the blocks and statistics the caller has so far.
\* The pool is the one of the block's owner; erase(src) is a lookup in that
\* pool, so a source that another pool lists stays listed there.
\* \E m gives the merged blocks a name that is evaluated once.
FreeBlock(blocks, stats, b) ==
  \E m \in {Merge(blocks, b)} :
  LET key  == <<blocks[b].owner, blocks[b].pool_type>>
      gone == DOMAIN blocks \ DOMAIN m
      goneSize == m[b].size - blocks[b].size
      amount == [inactive_split |->
                   (IF IsSplit(m[b]) THEN 1 ELSE 0) - Cardinality(gone),
                 inactive_split_bytes |->
                   (IF IsSplit(m[b]) THEN m[b].size ELSE 0) - goneSize,
                 active |-> -1,
                 active_bytes |-> -blocks[b].size]
  IN  IF blocks[b].owner = Destroyed
      THEN /\ undefined' = TRUE
           /\ block' = blocks
           /\ device_stats' = stats
           /\ UNCHANGED pool
      ELSE /\ undefined' = Dangles(key, blocks)
           /\ block' = m
           /\ pool' = PoolAfterFree(key, gone, b)
           /\ device_stats' =
                UpdateStats(stats, blocks[b].device, blocks[b].pool_type, amount)

-----------------------------------------------------------------------------
Init ==
  /\ block = [b \in {} |-> NULL]
  /\ pool = [k \in PoolKey |-> {}]
  /\ allocated_blocks = [a \in {} |-> NULL]
  /\ dpcpp_events = <<>>
  /\ segment = {}
  /\ graph_pools = [m \in {} |-> 0]
  /\ graph_pools_freeable = {}
  /\ recordings_underway = <<>>
  /\ recorded = [m \in Mempool |-> 0]
  /\ device_stats = [d \in Device |-> [t \in PoolType |-> [n \in StatName |-> 0]]]
  /\ op = Idle
  /\ undefined = FALSE

\* The sequence s without its i-th element.
Without(s, i) == [j \in 1..(Len(s) - 1) |-> IF j < i THEN s[j] ELSE s[j + 1]]

At(pc) == ~undefined /\ op.pc = pc
Goto(pc) == op' = [op EXCEPT !.pc = pc]
Return == op' = Idle

-----------------------------------------------------------------------------
(* The environment: the device completes barrier events.  The queues are   *)
(* in-order, so events of one queue complete in submission order.          *)

EventComplete ==
  /\ ~undefined
  /\ \E i \in DOMAIN dpcpp_events :
       /\ ~dpcpp_events[i].done
       /\ \A j \in 1..(i - 1) :
            dpcpp_events[j].queue = dpcpp_events[i].queue => dpcpp_events[j].done
       /\ dpcpp_events' = [dpcpp_events EXCEPT ![i].done = TRUE]
  /\ UNCHANGED <<block, pool, allocated_blocks, segment, graphVars,
                 device_stats, op, undefined>>

-----------------------------------------------------------------------------
(* malloc. *)

ActiveBlocks == {b \in DOMAIN block : block[b].allocated \/ block[b].event_cnt > 0}

\* malloc(&r, asize, &o), where the object o holds queue q.
Malloc(d, o, q, asize) ==
  /\ At("idle")
  /\ Cardinality(ActiveBlocks) < MaxActive
  /\ op' = [Idle EXCEPT !.pc = "process_events", !.device = d, !.object = o,
                        !.queue = q, !.asize = asize]
  /\ UNCHANGED <<block, pool, allocated_blocks, dpcpp_events, segment,
                 graphVars, device_stats, undefined>>

\* Mutants: an event counts twice; the block is not freed after its last one.
EventDone_Twice(b) ==
  LET dec == [block EXCEPT ![b].event_cnt = @ - 2]
  IN  IF dec[b].event_cnt = 0
      THEN FreeBlock(dec, device_stats, b)
      ELSE block' = dec /\ UNCHANGED <<pool, device_stats, undefined>>
EventDone_NoFree(b) ==
  block' = [block EXCEPT ![b].event_cnt = @ - 1] /\ UNCHANGED <<pool, device_stats, undefined>>

\* An event of block b has completed: decrement, and free on the last one.
EventDone(b) ==
  LET dec == [block EXCEPT ![b].event_cnt = @ - 1]
  IN  IF dec[b].event_cnt = 0
      THEN FreeBlock(dec, device_stats, b)
      ELSE block' = dec /\ UNCHANGED <<pool, device_stats, undefined>>

\* process_events: one iteration of the loop for a completed head.
ProcessEvent ==
  /\ At("process_events")
  /\ dpcpp_events # <<>>
  /\ dpcpp_events[1].done
  /\ EventDone(dpcpp_events[1].block)
  /\ dpcpp_events' = Without(dpcpp_events, 1)
  /\ UNCHANGED <<allocated_blocks, segment, graphVars, op>>

\* The request is over the limit of stateful addressing: malloc throws.
OverStatefulLimit == op.device \notin Has2DBlockArray /\ op.asize > kStatefulLimit

\* The private pool of the last recording whose filter accepts the object;
\* the loop over recordings_underway does not break at the first match.
PrivatePool(o) ==
  LET matching == {i \in DOMAIN recordings_underway :
                     recordings_underway[i].filter = o}
      last == {i \in matching : \A j \in matching : j <= i}
  IN  IF last = {} THEN NULL ELSE recordings_underway[CHOOSE i \in last : TRUE].pool

\* process_events stops at the first event that is not complete; malloc
\* rejects the request or settles where to search.
ProcessEventsEnd ==
  /\ At("process_events")
  /\ dpcpp_events # <<>> => ~dpcpp_events[1].done
  /\ IF OverStatefulLimit THEN Return
     ELSE op' = [op EXCEPT !.pc = "find_free_block", !.owner = PrivatePool(op.object)]
  /\ UNCHANGED <<block, pool, allocated_blocks, dpcpp_events, segment,
                 graphVars, device_stats, undefined>>

OpSize == RoundSize(op.asize)
OpKey  == <<op.owner, PoolTypeOf(OpSize)>>

\* find_free_block: lower_bound of (device, queue, size, nullptr).
BestFits(key) ==
  LET fits == {b \in pool[key] : /\ block[b].device = op.device
                                 /\ block[b].queue = op.queue
                                 /\ block[b].size >= OpSize}
  IN  {b \in fits : \A c \in fits :
         \/ block[b].size < block[c].size
         \/ block[b].size = block[c].size /\ block[b].buffer <= block[c].buffer}

FindFreeBlock ==
  /\ At("find_free_block")
  /\ ~Dangles(OpKey, block)
  /\ \E b \in BestFits(OpKey) :
       /\ pool' = [pool EXCEPT ![OpKey] = @ \ {b}]
       /\ op' = [op EXCEPT !.pc = "split", !.block = b]
  /\ UNCHANGED <<block, allocated_blocks, dpcpp_events, segment, graphVars,
                 device_stats, undefined>>

\* No block fits, or lower_bound compares the key with a Block that was
\* deleted.
FindNothing ==
  /\ At("find_free_block")
  /\ ~Dangles(OpKey, block) => BestFits(OpKey) = {}
  /\ undefined' = Dangles(OpKey, block)
  /\ Goto("malloc")
  /\ UNCHANGED <<block, pool, allocated_blocks, dpcpp_events, segment,
                 graphVars, device_stats>>

NewBlock(dev, q, size, type, buffer) ==
  [device |-> dev, queue |-> q, queue_uses |-> {}, size |-> size,
   pool_type |-> type, buffer |-> buffer, allocated |-> FALSE,
   prev |-> NULL, next |-> NULL, event_cnt |-> 0, owner |-> NULL]

\* Addresses `new` may return.  An address a pool still lists is not reused,
\* so that a dangling pointer stays recognisable.
FreeIds == BlockId \ (DOMAIN block \cup UNION {pool[k] : k \in PoolKey})

\* aligned_alloc_device succeeds, in malloc_with_retry's first or second try.
AllocSegment ==
  /\ At("malloc") \/ At("retry")
  /\ LET size == AllocSize(OpSize)
         type == PoolTypeOf(OpSize)
     IN  /\ SyclCanAlloc(op.device, size)
         /\ FreeIds # {}
         /\ LET id == CHOOSE i \in FreeIds : TRUE
            IN  \E base \in SyclAddresses(size) :
                  /\ segment' = segment \cup
                       {[base |-> base, size |-> size, device |-> op.device,
                          owner |-> OpKey[1]]}
                  /\ block' = [x \in DOMAIN block \cup {id} |->
                       IF x = id
                       THEN NewBlock(op.device, op.queue, size, type, base)
                       ELSE block[x]]
                  /\ op' = [op EXCEPT !.pc = "split", !.block = id]
                  /\ device_stats' = UpdateStats(device_stats, op.device, type,
                       [segment |-> 1, reserved_bytes |-> size])
  /\ UNCHANGED <<pool, allocated_blocks, dpcpp_events, graphVars, undefined>>

\* aligned_alloc_device returns NULL: free_cached_blocks runs.
AllocFails ==
  /\ At("malloc")
  /\ ~SyclCanAlloc(op.device, AllocSize(OpSize))
  /\ Goto("synchronize")
  /\ UNCHANGED <<block, pool, allocated_blocks, dpcpp_events, segment,
                 graphVars, device_stats, undefined>>

\* synchronize_and_free_events: the events it waits for (of all devices when
\* the argument is nullopt); the others are kept, in their order.
Awaited(i) ==
  op.pc = "synchronize" => block[dpcpp_events[i].block].device = op.device

\* One iteration: event.wait() returns, the event leaves the deque.
SynchronizeEvent ==
  /\ At("synchronize") \/ At("empty_synchronize")
  /\ \E i \in DOMAIN dpcpp_events :
       /\ Awaited(i)
       /\ \A j \in 1..(i - 1) : ~Awaited(j)
       /\ dpcpp_events[i].done
       /\ EventDone(dpcpp_events[i].block)
       /\ dpcpp_events' = Without(dpcpp_events, i)
  /\ UNCHANGED <<allocated_blocks, segment, graphVars, op>>

\* No awaited event is left; syncStreamsOnDevice drains the device's queues.
SynchronizeEnd ==
  /\ At("synchronize") \/ At("empty_synchronize")
  /\ \A i \in DOMAIN dpcpp_events : ~Awaited(i)
  /\ dpcpp_events' = [i \in DOMAIN dpcpp_events |->
       [dpcpp_events[i] EXCEPT
          !.done = @ \/ DeviceOf[dpcpp_events[i].queue] = op.device]]
  /\ Goto(IF op.pc = "synchronize" THEN "free_cached_blocks" ELSE "empty_free")
  /\ UNCHANGED <<block, pool, allocated_blocks, segment, graphVars,
                 device_stats, undefined>>

\* find_cached_blocks_bound(di, ...) assigns its begin and end parameters,
\* which are passed by value: the caller's two iterators stay value
\* initialised and equal, so the range handed to free_blocks is empty.
CachedBlocksBound(dev, type) == {}

\* The range free_blocks runs over: for emptyCache all of the own pools.
FreeRange ==
  IF op.pc = "empty_free" THEN UNION {pool[<<NULL, t>>] : t \in PoolType}
                          ELSE UNION {CachedBlocksBound(op.device, t) : t \in PoolType}

\* The blocks free_blocks returns to the SYCL runtime: whole segments.
FreeableBlocks(range) == {b \in range \cap DOMAIN block : ~IsSplit(block[b])}

\* free_blocks: one iteration that frees a block.
FreeSegment ==
  /\ At("empty_free") \/ At("free_cached_blocks")
  /\ \E b \in FreeableBlocks(FreeRange) :
       /\ segment' = {s \in segment : s.base # block[b].buffer}
       /\ device_stats' =
            UpdateStats(device_stats, block[b].device, block[b].pool_type,
                        [segment |-> -1, reserved_bytes |-> -block[b].size])
       /\ block' = [x \in DOMAIN block \ {b} |-> block[x]]
       /\ pool' = [k \in PoolKey |-> pool[k] \ {b}]
  /\ UNCHANGED <<allocated_blocks, dpcpp_events, graphVars, op, undefined>>

\* The rest of free_cached_blocks.  A freeable private pool is erased and
\* with it the sets that listed its cached blocks, not the blocks.
FreeCachedBlocks ==
  /\ At("free_cached_blocks")
  /\ FreeableBlocks(FreeRange) = {}
  /\ block' = [b \in DOMAIN block |->
       IF block[b].owner \in graph_pools_freeable
       THEN [block[b] EXCEPT !.owner = Destroyed] ELSE block[b]]
  /\ pool' = [k \in PoolKey |->
       IF k[1] \in graph_pools_freeable THEN {} ELSE pool[k]]
  /\ graph_pools' = [m \in DOMAIN graph_pools \ graph_pools_freeable |->
                       graph_pools[m]]
  /\ graph_pools_freeable' = {}
  /\ Goto("retry")
  /\ UNCHANGED <<allocated_blocks, dpcpp_events, segment, recordings_underway,
                 recorded, device_stats, undefined>>

\* Mutant: retries for ever instead of throwing.
OutOfMemory_Again ==
  /\ At("retry")
  /\ ~SyclCanAlloc(op.device, AllocSize(OpSize))
  /\ Goto("synchronize")
  /\ UNCHANGED <<block, pool, allocated_blocks, dpcpp_events, segment,
                 graphVars, device_stats, undefined>>

\* The second aligned_alloc_device fails as well: malloc throws.
OutOfMemory ==
  /\ At("retry")
  /\ ~SyclCanAlloc(op.device, AllocSize(OpSize))
  /\ Return
  /\ UNCHANGED <<block, pool, allocated_blocks, dpcpp_events, segment,
                 graphVars, device_stats, undefined>>

\* The end of malloc for the block in hand: owner, split, bookkeeping.  The
\* block in hand becomes `remaining`; the block returned is a new one in
\* front of it, whose owner is the constructor's nullptr.
Split ==
  /\ At("split")
  /\ LET b    == op.block
         key  == OpKey
         old  == [block[b] EXCEPT !.owner = key[1]]
         type == key[2]
         cut  == ShouldSplit(old, OpSize)
         id   == IF cut THEN CHOOSE i \in FreeIds : TRUE ELSE b
         made == IF cut
                 THEN [NewBlock(op.device, op.queue, OpSize, type, old.buffer)
                         EXCEPT !.prev = old.prev, !.next = b, !.allocated = TRUE]
                 ELSE [old EXCEPT !.allocated = TRUE]
         rest == [old EXCEPT !.prev = id, !.buffer = @ + OpSize, !.size = @ - OpSize]
         inactive ==
           CASE cut /\ IsSplit(old)   -> [blocks |-> 0, bytes |-> -OpSize]
             [] cut /\ ~IsSplit(old)  -> [blocks |-> 1, bytes |-> rest.size]
             [] ~cut /\ IsSplit(old)  -> [blocks |-> -1, bytes |-> -old.size]
             [] ~cut /\ ~IsSplit(old) -> [blocks |-> 0, bytes |-> 0]
     IN  /\ cut => FreeIds # {}
         /\ block' = [x \in DOMAIN block \cup {id} |->
              CASE x = id -> made
                [] x # id /\ x = b -> rest
                [] x # id /\ x # b /\ x = old.prev /\ cut ->
                     [block[x] EXCEPT !.next = id]
                [] OTHER -> block[x]]
         /\ pool' = IF cut THEN [pool EXCEPT ![key] = @ \cup {b}] ELSE pool
         /\ allocated_blocks' =
              [a \in DOMAIN allocated_blocks \cup {made.buffer} |->
                 IF a = made.buffer THEN id ELSE allocated_blocks[a]]
         /\ device_stats' = UpdateStats(device_stats, op.device, type,
              [inactive_split |-> inactive.blocks,
               inactive_split_bytes |-> inactive.bytes,
               allocation |-> 1, allocated_bytes |-> made.size,
               active |-> 1, active_bytes |-> made.size])
         /\ undefined' = (cut /\ Dangles(key, block))
  /\ Return
  /\ UNCHANGED <<dpcpp_events, segment, graphVars>>

-----------------------------------------------------------------------------
(* free. *)

Released(b) == [block EXCEPT ![b].allocated = FALSE, ![b].queue_uses = {}]

\* Mutant: allocated_bytes is not updated.
FreeStats_NoBytes(b) ==
  UpdateStats(device_stats, block[b].device, block[b].pool_type,
              [allocation |-> -1])

FreeStats(b) ==
  UpdateStats(device_stats, block[b].device, block[b].pool_type,
              [allocation |-> -1, allocated_bytes |-> -block[b].size])

\* free of a block that only its own queue used.
Free(buffer) ==
  /\ At("idle")
  /\ block[allocated_blocks[buffer]].queue_uses = {}
  /\ FreeBlock(Released(allocated_blocks[buffer]),
               FreeStats(allocated_blocks[buffer]), allocated_blocks[buffer])
  /\ allocated_blocks' = [a \in DOMAIN allocated_blocks \ {buffer} |->
                            allocated_blocks[a]]
  /\ UNCHANGED <<dpcpp_events, segment, graphVars, op>>

\* Mutant: the block goes back to its pool at once.
FreeUsed_NoEvents(buffer) ==
  /\ At("idle")
  /\ block[allocated_blocks[buffer]].queue_uses # {}
  /\ FreeBlock(Released(allocated_blocks[buffer]),
               FreeStats(allocated_blocks[buffer]), allocated_blocks[buffer])
  /\ allocated_blocks' = [a \in DOMAIN allocated_blocks \ {buffer} |->
                            allocated_blocks[a]]
  /\ UNCHANGED <<dpcpp_events, segment, graphVars, op>>

\* free of a block other queues used: insert_events starts.
FreeUsed(buffer) ==
  /\ At("idle")
  /\ LET b == allocated_blocks[buffer]
     IN  /\ block[b].queue_uses # {}
         /\ block' = Released(b)
         /\ device_stats' = FreeStats(b)
         /\ op' = [Idle EXCEPT !.pc = "insert_events", !.block = b,
                               !.todo = block[b].queue_uses]
  /\ allocated_blocks' = [a \in DOMAIN allocated_blocks \ {buffer} |->
                            allocated_blocks[a]]
  /\ UNCHANGED <<pool, dpcpp_events, segment, graphVars, undefined>>

\* One iteration of insert_events; the order of an unordered_set is open.
InsertEvent ==
  /\ At("insert_events")
  /\ \E q \in op.todo :
       /\ dpcpp_events' = Append(dpcpp_events,
            [block |-> op.block, queue |-> q, done |-> FALSE])
       /\ block' = [block EXCEPT ![op.block].event_cnt = @ + 1]
       /\ op' = IF op.todo = {q} THEN Idle ELSE [op EXCEPT !.todo = @ \ {q}]
  /\ UNCHANGED <<pool, allocated_blocks, segment, graphVars, device_stats,
                 undefined>>

-----------------------------------------------------------------------------
RecordQueue(buffer, q) ==
  /\ At("idle")
  /\ q # block[allocated_blocks[buffer]].queue
  /\ block' = [block EXCEPT ![allocated_blocks[buffer]].queue_uses = @ \cup {q}]
  /\ UNCHANGED <<pool, allocated_blocks, dpcpp_events, segment, graphVars,
                 device_stats, op, undefined>>

EmptyCache ==
  /\ At("idle")
  /\ op' = [Idle EXCEPT !.pc = "empty_synchronize"]
  /\ UNCHANGED <<block, pool, allocated_blocks, dpcpp_events, segment,
                 graphVars, device_stats, undefined>>

\* free_blocks has run over large_blocks and small_blocks.
EmptyCacheEnd ==
  /\ At("empty_free")
  /\ FreeableBlocks(FreeRange) = {}
  /\ undefined' = (FreeRange \ DOMAIN block # {})
  /\ Return
  /\ UNCHANGED <<block, pool, allocated_blocks, dpcpp_events, segment,
                 graphVars, device_stats>>

-----------------------------------------------------------------------------
(* Private pools of XPU graphs, driven by XPUGraphImpl. *)

Recording(m) == \E i \in DOMAIN recordings_underway : recordings_underway[i].pool = m

\* Mutant: only the first recording counts.
BeginAllocateToPool_OneRef(m) ==
  /\ At("idle")
  /\ m \in DOMAIN graph_pools => graph_pools[m] > 0 /\ graph_pools[m] < MaxGraphs
  /\ graph_pools' = [x \in DOMAIN graph_pools \cup {m} |->
       IF x \in DOMAIN graph_pools THEN graph_pools[x] ELSE 1]
  /\ recordings_underway' =
       IF Recording(m) THEN recordings_underway
       ELSE Append(recordings_underway, [pool |-> m, filter |-> NULL])
  /\ UNCHANGED <<block, pool, allocated_blocks, dpcpp_events, segment,
                 graph_pools_freeable, recorded, device_stats, op, undefined>>

\* The reference is counted before the check that throws.
BeginAllocateToPool(m) ==
  /\ At("idle")
  /\ m \in DOMAIN graph_pools => graph_pools[m] > 0 /\ graph_pools[m] < MaxGraphs
  /\ graph_pools' = [x \in DOMAIN graph_pools \cup {m} |->
       IF x # m THEN graph_pools[x]
       ELSE IF m \in DOMAIN graph_pools THEN graph_pools[m] + 1 ELSE 1]
  /\ recordings_underway' =
       IF Recording(m) THEN recordings_underway
       ELSE Append(recordings_underway, [pool |-> m, filter |-> NULL])
  /\ UNCHANGED <<block, pool, allocated_blocks, dpcpp_events, segment,
                 graph_pools_freeable, recorded, device_stats, op, undefined>>

EndAllocateToPool(m) ==
  /\ At("idle")
  /\ \E i \in DOMAIN recordings_underway :
       /\ recordings_underway[i].pool = m
       /\ \A j \in 1..(i - 1) : recordings_underway[j].pool # m
       /\ recordings_underway' = Without(recordings_underway, i)
  /\ recorded' = [recorded EXCEPT ![m] = @ + 1]
  /\ UNCHANGED <<block, pool, allocated_blocks, dpcpp_events, segment,
                 graph_pools, graph_pools_freeable, device_stats, op, undefined>>

\* The queue of a pool's recording enters or leaves the Recording state, which
\* the allocator's mutex does not protect.
FilterChanges(m, o) ==
  /\ ~undefined
  /\ recordings_underway' =
       [i \in DOMAIN recordings_underway |->
          IF recordings_underway[i].pool = m THEN [pool |-> m, filter |-> o]
                                             ELSE recordings_underway[i]]
  /\ UNCHANGED <<block, pool, allocated_blocks, dpcpp_events, segment, graph_pools,
                 graph_pools_freeable, recorded, device_stats, op, undefined>>

releasePool(m) ==
  /\ At("idle")
  /\ recorded' = [recorded EXCEPT ![m] = @ - 1]
  /\ graph_pools' = [graph_pools EXCEPT ![m] = @ - 1]
  /\ graph_pools_freeable' = IF graph_pools[m] = 1
                             THEN graph_pools_freeable \cup {m}
                             ELSE graph_pools_freeable
  /\ UNCHANGED <<block, pool, allocated_blocks, dpcpp_events, segment,
                 recordings_underway, device_stats, op, undefined>>

\* Only a graph that was recorded releases its pool.
ReleasePool(m) == recorded[m] > 0 /\ releasePool(m)

-----------------------------------------------------------------------------
\* Nothing is claimed of an execution after undefined behaviour.
Undefined == undefined /\ UNCHANGED vars

MallocStep ==
  \/ ProcessEvent \/ ProcessEventsEnd
  \/ FindFreeBlock \/ FindNothing
  \/ AllocSegment \/ AllocFails
  \/ SynchronizeEvent \/ SynchronizeEnd \/ FreeSegment \/ FreeCachedBlocks
  \/ OutOfMemory \/ Split

\* The next step of the operation that holds the mutex.
OpStep == MallocStep \/ InsertEvent \/ EmptyCacheEnd

Call ==
  \/ \E c \in CallSite, n \in ASize : Malloc(c[1], c[2], c[3], n)
  \/ \E a \in DOMAIN allocated_blocks : Free(a)
  \/ \E a \in DOMAIN allocated_blocks : FreeUsed(a)
  \/ \E a \in DOMAIN allocated_blocks, q \in Queue :
       <<block[allocated_blocks[a]].queue, q>> \notin NeverUsed /\ RecordQueue(a, q)
  \/ EmptyCache

GraphCall ==
  \/ \E m \in Mempool : BeginAllocateToPool(m)
  \/ \E m \in Mempool : EndAllocateToPool(m)
  \/ \E m \in Mempool : ReleasePool(m)

QueueStateChanges == \E m \in Mempool, o \in QueueObject \cup {NULL} : FilterChanges(m, o)

\* A program that records no graphs.
PlainNext == Call \/ OpStep \/ EventComplete

Next == PlainNext \/ GraphCall \/ QueueStateChanges \/ Undefined

Spec == Init /\ [][Next]_vars

\* The thread that holds the mutex runs on and the device finishes its work.
PlainSpec ==
  /\ Init /\ [][PlainNext]_vars
  /\ WF_vars(OpStep) /\ WF_vars(EventComplete)
-----------------------------------------------------------------------------
(* Properties. *)

TypeOK ==
  /\ DOMAIN block \subseteq BlockId
  /\ block \in [DOMAIN block -> Block]
  /\ pool \in [PoolKey -> SUBSET BlockId]
  /\ DOMAIN allocated_blocks \subseteq Nat
  /\ allocated_blocks \in [DOMAIN allocated_blocks -> BlockId]
  /\ dpcpp_events \in Seq(Event)
  /\ segment \subseteq Segment
  /\ DOMAIN graph_pools \subseteq Mempool
  /\ graph_pools \in [DOMAIN graph_pools -> Nat]
  /\ graph_pools_freeable \subseteq Mempool
  /\ recordings_underway \in Seq(Underway)
  /\ recorded \in [Mempool -> Nat]
  /\ device_stats \in Stats
  /\ op \in Op
  /\ undefined \in BOOLEAN

\* The ranges of the blocks are pairwise disjoint.
Apart(blocks) ==
  \A b, c \in DOMAIN blocks : b # c =>
    ~Overlap(blocks[b].buffer, blocks[b].size, blocks[c].buffer, blocks[c].size)

\* Memory handed to two tensors never overlaps, nor does it overlap memory
\* that is cached or waits for its events: the ranges of the Block objects
\* are pairwise disjoint through every split (malloc) and merge (free_block).
NoOverlap == ~undefined => Apart(block)

\* Neighbours point at each other, are adjacent and belong to one queue.
Linked(blocks) ==
  \A b \in DOMAIN blocks :
    LET n == blocks[b].next
        p == blocks[b].prev
    IN  /\ blocks[b].size > 0
        /\ n # NULL =>
             /\ n \in DOMAIN blocks
             /\ blocks[n].prev = b
             /\ blocks[n].buffer = blocks[b].buffer + blocks[b].size
             /\ blocks[n].device = blocks[b].device
             /\ blocks[n].queue = blocks[b].queue
             /\ blocks[n].pool_type = blocks[b].pool_type
        /\ p # NULL => p \in DOMAIN blocks /\ blocks[p].next = b

\* Block x lies in segment s; only its first block has no m_prev and only its
\* last has no m_next.
Within(x, s) ==
  /\ s.device = x.device
  /\ s.base <= x.buffer
  /\ x.buffer + x.size <= s.base + s.size
  /\ x.prev = NULL <=> x.buffer = s.base
  /\ x.next = NULL <=> x.buffer + x.size = s.base + s.size

InSegments(blocks, segs) ==
  \A b \in DOMAIN blocks : \E s \in segs : Within(blocks[b], s)

\* The m_prev/m_next lists tile the segments obtained from SYCL: neighbours
\* point at each other, are adjacent and belong to one queue, the list starts
\* at the base of a segment and ends at its end.  Hence getBaseAllocation
\* finds the segment, and a block without neighbours, which free_blocks
\* passes to sycl::free, is exactly a segment.
BlocksTileSegments ==
  ~undefined => Linked(block) /\ InSegments(block, segment)

\* The queues whose barrier event for block b is in the deque.
QueuesIn(events, b) ==
  {q \in Queue : \E i \in DOMAIN events : events[i].block = b /\ events[i].queue = q}
EventQueues(b) == QueuesIn(dpcpp_events, b)

\* A block other queues used is out of reach while an event of it is still
\* in the deque: it exists, is not allocated, is in no pool, is not in the
\* hands of malloc, and m_event_cnt says how many queues remain, whatever
\* the order in which the device completes them and whichever of
\* process_events and synchronize_and_free_events consumes them.
EventBlocksHeld ==
  ~undefined =>
    \A i \in DOMAIN dpcpp_events :
      LET b == dpcpp_events[i].block
      IN  /\ b \in DOMAIN block
          /\ ~block[b].allocated
          /\ block[b].event_cnt = Cardinality(EventQueues(b))
          /\ \A k \in PoolKey : b \notin pool[k]
          /\ op.block = b => op.pc = "insert_events"

\* A Block is in one place: a key of allocated_blocks that is its buffer, or
\* one pool, or the hands of the operation in flight.  A block a pool lists
\* is free to take: not allocated and without pending events.
OnePlace ==
  ~undefined =>
    /\ \A a \in DOMAIN allocated_blocks :
         /\ allocated_blocks[a] \in DOMAIN block
         /\ block[allocated_blocks[a]].buffer = a
         /\ block[allocated_blocks[a]].allocated
    /\ \A b \in DOMAIN block :
         /\ block[b].allocated =>
              /\ block[b].buffer \in DOMAIN allocated_blocks
              /\ allocated_blocks[block[b].buffer] = b
              /\ op.block # b
         /\ \A k \in PoolKey : b \in pool[k] =>
              /\ ~block[b].allocated /\ block[b].event_cnt = 0
              /\ block[b].queue_uses = {}
              /\ op.block # b
              /\ \A l \in PoolKey : b \in pool[l] => l = k

\* No memory is lost: a Block that is neither allocated nor waiting for
\* events is listed by a pool, so malloc or emptyCache can get at it.
NoLostBlock ==
  ~undefined =>
    \A b \in DOMAIN block :
      \/ block[b].allocated
      \/ block[b].event_cnt > 0
      \/ op.block = b
      \/ \E k \in PoolKey : b \in pool[k]

\* free_block merges with both neighbours, so no two free neighbours remain
\* when an operation returns: fragments are always coalesced.
Coalesced ==
  ~undefined /\ op.pc = "idle" =>
    \A b \in DOMAIN block :
      block[b].next # NULL =>
        ~(Mergeable(block, b) /\ Mergeable(block, block[b].next))

BlocksOf(blocks, d, t) ==
  {b \in DOMAIN blocks : blocks[b].device = d /\ blocks[b].pool_type = t}

\* The addresses the blocks of S cover, and their number.  As blocks do not
\* overlap (NoOverlap) this is the sum of their sizes.
Addresses(blocks, S) ==
  UNION {blocks[b].buffer .. (blocks[b].buffer + blocks[b].size - 1) : b \in S}
Bytes(blocks, S) == Cardinality(Addresses(blocks, S))

\* What the blocks say the statistics of pool type t on device d are.  Blocks
\* of `held` are active although no event of them has been inserted yet.
StatsOf(blocks, held, d, t) ==
  LET all       == BlocksOf(blocks, d, t)
      allocated == {b \in all : blocks[b].allocated}
      active    == {b \in all : \/ blocks[b].allocated \/ blocks[b].event_cnt > 0
                                \/ b \in held}
      inactive  == {b \in all \ active : IsSplit(blocks[b])}
  IN  [segment |-> Cardinality({b \in all : blocks[b].prev = NULL}),
       reserved_bytes |-> Bytes(blocks, all),
       inactive_split |-> Cardinality(inactive),
       inactive_split_bytes |-> Bytes(blocks, inactive),
       allocation |-> Cardinality(allocated),
       allocated_bytes |-> Bytes(blocks, allocated),
       active |-> Cardinality(active),
       active_bytes |-> Bytes(blocks, active)]

\* The block whose events free is inserting.
Inserting == IF op.pc = "insert_events" THEN {op.block} ELSE {}

\* The Stat::current counters agree with the blocks, also between the steps of
\* an operation: the incremental updates of malloc, free, free_block and
\* free_blocks add up over every split, merge and release.  In particular
\* update_stat's assertion (no negative counter) cannot fire.
StatsMatch ==
  ~undefined =>
    \A d \in Device, t \in PoolType :
      device_stats[d][t] = StatsOf(block, Inserting, d, t)

\* Every call returns: process_events never waits, and the events that
\* synchronize_and_free_events waits for complete.
CallsReturn == op.pc # "idle" ~> (op.pc = "idle" \/ undefined)

\* malloc gives up only when the device holds no cached memory it could
\* release: after free_cached_blocks no cached block of the device is a
\* whole segment.
OutOfMemoryOnlyWhenExhausted ==
  op.pc = "retry" /\ ~SyclCanAlloc(op.device, AllocSize(OpSize)) =>
    \A t \in PoolType : \A b \in pool[<<NULL, t>>] :
      block[b].device = op.device => IsSplit(block[b])

\* emptyCache releases all unoccupied memory the allocator's own pools hold:
\* when it returns every segment has an allocated block, also when blocks
\* were waiting for events when it was called.
EmptyCacheReleases ==
  [][op.pc = "empty_free" /\ op'.pc = "idle" /\ ~undefined' =>
       \A s \in segment' : s.owner = NULL => \E b \in DOMAIN block' :
         /\ block'[b].allocated
         /\ s.base <= block'[b].buffer /\ block'[b].buffer < s.base + s.size]_vars

\* The memory of a private pool that graphs still use is not given to
\* tensors outside the pool: none of it is cached in the allocator's own
\* pools, from which every other malloc is served.
GraphMemoryRetained ==
  \A s \in segment, t \in PoolType :
    s.owner \in DOMAIN graph_pools /\ graph_pools[s.owner] > 0 =>
      \A b \in pool[<<NULL, t>>] \cap DOMAIN block :
        ~Overlap(s.base, s.size, block[b].buffer, block[b].size)

\* Every graph that owns a recording, and every recording underway, holds a
\* reference to its private pool, at most one recording fills a pool, and only
\* pools without references are freeable.  Hence the assertions of releasePool
\* (the pool is found, use_count stays >= 0, insertion succeeds) and of
\* free_cached_blocks (use_count is 0, the pool is found) cannot fail, and
\* malloc finds the pool of a recording.
GraphPoolsReferenced ==
  /\ \A m \in Mempool :
       recorded[m] > 0 \/ Recording(m) =>
         /\ m \in DOMAIN graph_pools
         /\ graph_pools[m] >= recorded[m] + (IF Recording(m) THEN 1 ELSE 0)
  /\ \A m \in graph_pools_freeable : m \in DOMAIN graph_pools /\ graph_pools[m] = 0
  /\ \A i, j \in DOMAIN recordings_underway :
       recordings_underway[i].pool = recordings_underway[j].pool => i = j

\* In a program that records no graphs the allocator never dereferences a
\* deleted Block.
NoUseAfterFree == ~undefined

-----------------------------------------------------------------------------
(* The refinement of AbstractAllocator. *)

Request ==
  IF op.pc \in {"process_events", "find_free_block", "malloc", "synchronize",
                "free_cached_blocks", "retry", "split"}
  THEN [queue |-> op.queue, size |-> op.asize] ELSE NULL

Live == {[base |-> a, size |-> block[allocated_blocks[a]].size,
          queue |-> block[allocated_blocks[a]].queue,
          uses |-> block[allocated_blocks[a]].queue_uses] : a \in DOMAIN allocated_blocks}

\* The uses whose event is not complete, or is yet to be inserted.
Pending ==
  LET used(b, q) == [base |-> block[b].buffer, size |-> block[b].size, queue |-> q]
      waiting == {i \in DOMAIN dpcpp_events : ~dpcpp_events[i].done}
  IN  {used(dpcpp_events[i].block, dpcpp_events[i].queue) : i \in waiting}
      \cup {used(op.block, q) : q \in op.todo}

Abstract == INSTANCE AbstractAllocator
              WITH None <- NULL, request <- Request, live <- Live, pending <- Pending

\* The allocator implements AbstractAllocator: memory it returns fits the
\* request and overlaps neither memory in use nor memory freed while another
\* queue may still work on it, through splitting, merging, caching,
\* out-of-order events, retries and emptyCache.
ImplementsAbstract == Abstract!Spec

-----------------------------------------------------------------------------
(* The inductive invariant behind TypeOK, NoOverlap, BlocksTileSegments,    *)
(* EventBlocksHeld, OnePlace and GraphPoolsReferenced.                      *)

SegmentsApart(segs) ==
  \A s, t \in segs :
    /\ s.size > 0
    /\ s # t => ~Overlap(s.base, s.size, t.base, t.size)

Places ==
  /\ \A a \in DOMAIN allocated_blocks :
       /\ allocated_blocks[a] \in DOMAIN block
       /\ block[allocated_blocks[a]].buffer = a
       /\ block[allocated_blocks[a]].allocated
  /\ \A b \in DOMAIN block :
       IF block[b].allocated
       THEN /\ block[b].buffer \in DOMAIN allocated_blocks
            /\ allocated_blocks[block[b].buffer] = b
       ELSE block[b].queue_uses = {}
  /\ \A k \in PoolKey : \A b \in pool[k] \cap DOMAIN block :
       /\ ~block[b].allocated
       /\ block[b].event_cnt = 0
       /\ block[b].pool_type = k[2]
       /\ \A l \in PoolKey : b \in pool[l] => l = k

EventsCounted ==
  /\ \A i \in DOMAIN dpcpp_events :
       /\ dpcpp_events[i].block \in DOMAIN block
       /\ ~block[dpcpp_events[i].block].allocated
       /\ \A j \in DOMAIN dpcpp_events :
            /\ dpcpp_events[i].block = dpcpp_events[j].block
            /\ dpcpp_events[i].queue = dpcpp_events[j].queue
            => i = j
  /\ \A b \in DOMAIN block : block[b].event_cnt = Cardinality(EventQueues(b))

\* The operation in flight and the block in its hands.
InHand ==
  /\ op.pc \in {"process_events", "find_free_block", "malloc", "synchronize",
                "free_cached_blocks", "retry", "split"} =>
       op.device \in Device /\ op.queue \in Queue
  /\ op.pc \notin {"split", "insert_events"} => op.block = NULL
  /\ op.pc \in {"split", "insert_events"} =>
       /\ op.block \in DOMAIN block
       /\ ~block[op.block].allocated
       /\ \A k \in PoolKey : op.block \notin pool[k]
  /\ op.pc = "split" =>
       /\ block[op.block].event_cnt = 0
       /\ block[op.block].device = op.device
       /\ block[op.block].queue = op.queue
       /\ block[op.block].pool_type = PoolTypeOf(OpSize)
       /\ block[op.block].size >= OpSize
  /\ op.pc = "insert_events" =>
       op.todo # {} /\ op.todo \cap EventQueues(op.block) = {}

Safe ==
  /\ Linked(block) /\ InSegments(block, segment) /\ Apart(block)
  /\ SegmentsApart(segment) /\ Places /\ EventsCounted /\ InHand

IInv == TypeOK /\ GraphPoolsReferenced /\ (~undefined => Safe)
=============================================================================
