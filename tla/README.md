# A TLA+ verification of Intel Extension for PyTorch's runtime

Intel Extension for PyTorch is mostly numeric code: operators, fusions, graph
rewriting. This project is about the part that is not: the runtime that shares
memory, locks, threads and processes between them. Its modules model that
runtime from the source, TLC checks them on small instances, and TLAPS proves
the central invariants for all instances.

Paths below are relative to the repository.

## Inventory

| Component | State | Operations | Hard part |
|---|---|---|---|
| XPU caching allocator, `csrc/gpu/runtime/CachingDeviceAllocator.{cpp,h}` | blocks in linked lists, free pools, allocated blocks, pending events, private pools of graphs, statistics | `malloc`, `free`, `recordQueue`, `emptyCache`, `beginAllocateToPool`, `endAllocateToPool`, `releasePool` | memory other queues still use, split and merge, retry at capacity, pools that die before their tensors |
| XPU graphs, `csrc/gpu/runtime/XPUGraph.cpp` | a recording queue (a reference), the pool, two flags | constructor, `begin_recording`, `end_recording`, `replay`, `reset`, destructor | recordings that fail half way, pools shared by graphs, the queue that is captured |
| Allocator front end, `csrc/gpu/aten/core/Allocator.cpp` | none | `allocate`, `recordStream` | the device of a queue and the current device |
| Read-write mutex, `csrc/cpu/utils/rw_lock.h` | two counters, a flag, two condition variables | `lock_read`, `unlock_read`, `lock_write`, `unlock_write` | lost wake-ups, barging, starvation |
| Packed LSTM weights, `csrc/cpu/aten/WeightPack.cpp` | a map under the read-write mutex | look up two weights, pack, store two weights | check-then-act over several lock acquisitions |
| Task executor, `csrc/cpu/runtime/TaskExecutor.cpp` | queue, stop flag, worker thread | submit, `stop_executor` | notification after unlock, stop against submit |
| TaskModule, `intel_extension_for_pytorch/csrc/cpu/TaskModule.cpp` | the module, arguments of a Python call | `run_async`, `run_sync`, `FutureTensor::get`, destructor | the interpreter lock (GIL), arguments kept in members |
| Task for C++ functions, `csrc/cpu/runtime/Task.h` | a function | `operator()` | arguments captured by reference |
| MultiStream, `intel_extension_for_pytorch/cpu/runtime/multi_stream.py` | one Task per stream, split indices, inputs and output kept between calls | constructor, `forward`, the benchmark variant | uneven splits, a stream that fails, work left by an abandoned call |
| CPU pool, `csrc/cpu/runtime/CPUPool.cpp`, `cpu/runtime/cpupool.py` | OpenMP masks, a thread's cached core list | filter, pin, pin context | a cache that is not restored with the masks |
| Shared-memory all-reduce, `csrc/cpu/aten/kernels/SHMAllreduceAddKrnl.cpp`, `csrc/cpu/comm/shm_reduction.h` | a state per rank, a flag per rank and block, the shared buffer | `reduceAdd` | processes that only spin on flags, reset of the flags between calls |
| Messenger, `csrc/cpu/comm/messager.h` | communicator, rank, size | `reduceAdd` and other collectives | choice of path |
| LRU cache, oneDNN graph kernels, launcher, dispatch | see PROJECT.json | | |

Interactions: XPU graphs call the allocator; the weight cache uses the
read-write mutex; `TaskModule` and `Task` share an executor with its worker;
MultiStream runs several Tasks, pinned to parts of a CPU pool, which may share a
model and so the weight cache;
ranks of a tensor-parallel run interact through shared memory only.

The hazards each part is exposed to are in `PROJECT.json`, each at its line and
with the properties that would catch it going wrong.

## Modules

How they are composed: `XPUGraph` extends `CachingDeviceAllocator` and joins its
actions; `WeightPack` extends `ReadWriteMutex`; `MultiStream` extends `CPUPool`
and uses a Task only as `AsyncTask` promises, which `TaskExecutor` is shown to
implement. `AbstractAllocator` and `AsyncTask` are the abstract specifications;
the `MC*` modules hold the instances, the `*Proofs` modules the theorems.

### CachingDeviceAllocator and AbstractAllocator

One recursive mutex serialises the public operations, so the model has one
operation in flight, `op`, with a program counter. `malloc` and `emptyCache`
wait for events or test them while the device goes on completing them, so they
are sequences of steps between which `EventComplete` (the device) may act;
`free` is one step, or one per event it inserts.

| Model | Code |
|---|---|
| `block` | the `Block` objects that exist, by address |
| `pool[<<owner, type>>]` | `small_blocks`, `large_blocks` of the allocator (`NULL`) and of each `PrivatePool` |
| `allocated_blocks`, `dpcpp_events` | the members of that name; an event has a flag `done` the device sets |
| `graph_pools`, `graph_pools_freeable`, `recordings_underway` | the members of that name; a recording's `filter` is the queue object it accepts at the moment |
| `recorded` | how many `XPUGraphImpl`s own a recording in each pool |
| `segment` | what the SYCL runtime has handed out |
| `device_stats` | `Stat::current`; the AGGREGATE entry is the sum of both pool types |
| `undefined` | the code has dereferenced a deleted `Block` or a destroyed pool |

The order of actions in a `malloc` is that of the code: `ProcessEvent`*,
`ProcessEventsEnd` (which may throw for stateful addressing), `FindFreeBlock` or
`FindNothing`, `AllocSegment` or `AllocFails`; after a failure
`SynchronizeEvent`*, `SynchronizeEnd`, `FreeSegment`*, `FreeCachedBlocks`, and
the second try, `AllocSegment` or `OutOfMemory`; and at the end `Split`, which
is everything from the owner assignment to the return. `FreeBlock` is
`free_block` with both calls of `try_merge_blocks`.

`CachedBlocksBound` is the empty set: `find_cached_blocks_bound` assigns its two
iterator parameters, which are passed by value. An execution that reaches
undefined behaviour stops there (`Undefined`), and nothing is claimed of it, but
`NoUseAfterFree` says that it does not happen in a program without graphs. With
them it does: `free_cached_blocks` destroys a private pool whose graphs are gone
while tensors in it may live, and loses the blocks the pool caches.

There are two specifications. `Spec` is the allocator with any user of its
private pools; queues enter and leave the Recording state outside the mutex
(`QueueStateChanges`). `PlainSpec` is a program that records no graph. What
`CachingDeviceAllocatorProofs` proves of `Spec` holds of it by
`PlainImpliesSpec`; what is true only without graphs is proved of it in
`PlainAllocatorProofs`.

`AbstractAllocator` is what callers may rely on: a request is granted memory
that is large enough, belongs to its queue, and overlaps neither memory in use
nor memory that was freed while another queue still works on it. In
`ImplementsAbstract`, `live` is the allocated blocks, `pending` the events in
`dpcpp_events` the device has not completed, and `request` the `malloc` in
flight; pools, lists, segments and retries are stuttering steps.

### XPUGraph

Graph objects on top of the allocator. `at` is where an object is, with the two
moments at which another thread's `malloc` sees it half way: `"beginning"`, when
the pool has its entry and the queue is not yet in the Recording state, and
`"ending"`. `recording_queue_` is a reference, so a `sycl::queue` object (its
address, `QueueObject`) and the queue it holds (`queue_of`) are told apart:
`begin_recording` assigns through the reference. The filter compares addresses,
blocks compare queues. `EndRecording` has the three ways `end_recording` ends:
well, with an exception of `finalize`, or with the failed check of the generator.
What is left to the caller is in `BeginSetup` and `reset`: an instance whose
recording failed is not recorded again, two recordings do not share a queue, and
no instance is reset while it records. The two small tensors `begin_recording`
allocates for the generator are allocations like any other, which `AllocatorStep`
takes at any time.

### ReadWriteMutex and WeightPack

`at[t]` is where a thread is: outside, blocked in a condition variable
(`wait_*`), out of it but without `m_mutex` (`woken_*`), or inside. A function
of the class is one step up to its wait. `Spurious` wakes a thread nobody
notified; no fairness is assumed of it, so no liveness rests on it.

`WeightPack` instantiates `ReadWriteMutex` on its own variables: every access to
the cache is a lock step of the mutex joined with the step of
`lstm_packed_weight` it belongs to. A cached tensor is identified with the
thread that packed it. The map is keyed by `TensorImpl*` and holds a weak
reference, which keeps the address from being reused, so keys are layers and
weights. Layers of `Opaque` are those whose expected format is opaque.

### TaskExecutor and AsyncTask

The worker (`worker`), clients (`client`) and the GIL. Sections under
`worker_mutex` are steps; the notification after the unlock is another.
`kind = "python"` is a Python module: `run_async` keeps the GIL to its end and
stores the arguments in members, and the worker takes the GIL to call the
module; Python code of the module may yield the GIL (`WorkerYields`).
`kind = "script"` is a script module, which gets a stack of its own.
`kind = "cpp"` is `Task.h`, whose lambda captures the arguments by reference: they
are surely there until `operator()` returns (`InCall`). After that the call may find
anything, also while the submitter waits in `get`, as temporaries are gone by then;
no property says what a C++ function is run on. A submission is identified with its input. `submitted` and `done` are history. `run_sync` is
`run_async` followed by `get`. `AsyncTask` is a queue and a list of finished
inputs; `ImplementsAsyncTask` maps the queue to the task in the worker's hands
followed by `tasks`.

### MultiStream and CPUPool

The caller's thread is in a `phase` of the constructor or of `forward` with its
loop variable `stream_id`; Tasks run their queues at any speed, and each run
returns or raises. Tensors are slices of the rows of a numbered call, so rows of
another call, or in another order, are seen as such. `args_streams_input`,
`output`, the Tasks' queues and the split indices persist between calls as in the
code; in particular a call that raises leaves them as they are. The hint is one
position that is split and one that is not. `CPUPool` is the thread's masks, which
belong to the OpenMP library, and `current_cpu_core_list`, the extension's copy of
what it last pinned; leaving a pin context restores the masks only, which the
history variable `left_pin` records.

### ShmAllReduce

Each rank is a process with a place `at`, a loop index over ranks and, for the
OpenMP loops, what is left to do for each block. Each access to a shared state or
flag is a step and so is the copy or addition of a block; blocks are taken in any
order and any number at a time, which covers every OpenMP schedule. Contents of a
block are the list of addends, each tagged with rank and call, so a sum is right
only if each addend is there once and in order. The fences and x86's ordering of
stores are taken to make the flags sequentially consistent. Flags of blocks
beyond `MAX_SHM_BLOCK_COUNT` lie in the data that follows them: setting one may
overwrite an element, reading one may give anything.

## Runs

Passing runs:

- `allocator`: a program without graphs; two devices, each at capacity, and three
  queues that use each other's memory. A block of queue 1 may wait for queues 2 and
  3, whose events complete in either order, and the retry takes the events of one
  device out of the middle of the deque. Disjointness, tiling, one place for each block, no
  lost block, coalescing, exact statistics, no use after free, `emptyCache`
  releasing everything releasable, every call returning, and the refinement.
- `xpu_graph`: two graph objects on two streams and one pool they share, with
  failing ends, resets and destructions, and allocations at capacity that destroy
  freed pools. `UsesAllocatorAsSpecified` is the composition property: every step
  is one of the allocator's `Spec`, so the theorems on it hold here.
- `weight_pack`: three threads, two layers, one of them opaque, spurious
  wake-ups; the lock's properties and the cache's. Threads that miss together all
  pack, and the losers return copies of their own; `WarmCallsHit` says that this
  ends there: a call that begins with both weights cached does not pack again.
- `task_executor`: two clients, three submissions, all kinds of task, stop at
  any moment. Clients may stop for good, so deadlock is not an error; that nobody
  hangs is `FuturesReady` and `ClientsReturn`.
- `multi_stream`: pools of one, two and three usable cores, one to three streams,
  two calls with 0 to 5 rows, all modes, models that raise, one pin context.
  `OwnRowsInOrder` is about calls with at least one row: a call without rows, after
  one that raised, may return what that one has left. `SyncOnItsCores` exempts a
  thread that has left a pin context, whose cached list is then stale.
- `shm_all_reduce`: four ranks, four calls with three blocks, one block of the
  other block size, a tensor that goes through oneCCL, and two blocks. The
  behaviour ends after the last call; `AllEnd` says that it gets there.

Runs that end in a violation, each a disagreement between the code and what the
repository says of it:

- `graph_memory`: memory of a graph in use is cached in the shared pools, because
  the block returned after a split has no owner.
- `out_of_memory`: `malloc` gives up although the device's cache holds a whole
  segment, because the range passed to `free_blocks` is empty.
- `capture_queue`: a graph constructed on one stream and recorded on another, as
  the Python context manager does, does not serve the recorded stream from its
  pool, because `recording_queue_` is a reference. `CapturedByObject`, in the
  passing run, says what the code does instead.
- `weight_pack_check`: a `TORCH_CHECK` fails when two threads run a layer for the
  first time at once.
- `task_input`: a Python module is run on the arguments of a later submission.
- `shm_overflow`: a tensor within `MAX_SHM_SIZE` has more blocks than flags, and
  the sum is corrupted.

### Bounds and why they are enough

- Sizes keep the ratios of the source (`kSmallBuffer = 2 kSmallSize`,
  `kLargeBuffer = 2 kMinLargeAlloc`, `kRoundLarge = kSmallBuffer`), so each
  branch of the size rules, splits of both kinds and remainders of zero, exactly
  the limit and more occur. `ASize` has a small request and a large one, which
  stateful addressing refuses on the device of `Has2DBlockArray`.
- `MaxActive` (2) bounds the blocks in use or waiting for events. Two are enough
  for a free block between two used ones, for both merges at once, and for a
  block waiting while its neighbours are freed. `Bases` and `Capacity` bound the
  memory, and `BlockId` is large enough that `new` never fails.
- Queues: in `allocator`, queues 1 and 2 allocate, one on each device; memory of
  queue 1 is used by queues 2 and 3, memory of queue 2 by queue 1 and not by queue 3
  (`NeverUsed`). So a block waits for up to two queues, one of its own device and
  one of the other, and the deque mixes events of both devices. Queue 3 does not allocate: two queues of one device
  differ for the pools only, which the theorems cover for any queues.
- `MaxGraphs` (2) bounds the references to a pool: one graph released while
  another lives, and the reference leaked by a recording that throws.
- Threads: three make a waiting writer, one inside and a waiting reader, and two
  that miss together; the theorems on the lock are for any number.
- Graphs: two objects make a pool that is shared, refused and outlived; the sizes
  of that run leave room for one segment, so that every second `malloc` retries.
- Streams: three cores over two streams and five rows over two or three streams
  have remainders; two calls are enough for one to inherit the other's leftovers.
- The all-reduce has four ranks, so that two ranks in the middle of the chain
  wait for each other, and enough calls for a fast rank to be one call ahead with
  another number of blocks.

### Fairness

- `OpStep`, weakly: the thread that holds the allocator's mutex runs on.
  `EventComplete`, weakly: the device finishes submitted work. Both are needed,
  as the retry waits for events with the mutex held.
- `Wake` and `Unlock` of the read-write mutex, weakly: `std::mutex` lets a woken
  thread in, and holders leave. Nobody is obliged to call.
- In `TaskExecutor`, strongly for the worker and each client: the GIL, for which
  they compete, is handed over on request after CPython's switch interval. With
  weak fairness a client whose submissions are rejected for ever would keep the
  worker from it.
- The caller of a MultiStreamModule, weakly, and the Tasks together, weakly: a
  Task runs what it was given, which is `FuturesReady` of `TaskExecutor`.
- Ranks, weakly: processes that spin.

## Proofs

`CachingDeviceAllocatorProofs` proves, for all constants that satisfy
`SizesAssumption`, `NullAssumption` and `TopologyAssumption`, that `IInv` is an
invariant, and from it `TypeOK`, `NoOverlap`, `BlocksTileSegments`, `OnePlace`,
`EventBlocksHeld` and `GraphPoolsReferenced`; and on top of it `StatsMatch`.

None of these is inductive alone. `IInv` is `TypeOK`, `GraphPoolsReferenced`
and, while nothing undefined has happened, the conjunction of

- `Linked`: neighbours point at each other, are adjacent, and agree on device,
  queue and pool type: a merge takes over a range that touches its own;
- `InSegments` and `SegmentsApart`: blocks lie in segments, the ends of lists are
  the ends of segments, and segments do not overlap: a new segment is disjoint
  from all blocks, and a block without neighbours is a segment;
- `Apart`: the ranges of blocks are disjoint;
- `Places`: `allocated_blocks` is exactly the allocated blocks, and a block in a
  pool is free, has no pending event, has the pool's type and is in no other pool;
- `EventsCounted`: at most one event for each block and queue, and `m_event_cnt`
  is their number: the last event frees the block, and no earlier one does;
- `InHand`: the block an operation holds between two of its steps is in no pool,
  and in `Split` it has the operation's device, queue and type and is large
  enough: the remainder is not negative.

The assumptions on sizes say that a segment is at least as large as the request
it is made for. The proof has a lemma for each action and, under it, a step for
each conjunct; what `free_block` does is split into lemmas on one merge, on the
composition of two, and on `FreeBlock` in the setting of its callers.

`StatsMatch` compares the eight counters of a device and pool type with the
blocks, in every state and not only between operations. The bytes of a set of
blocks are the number of addresses they cover, which is the sum of their sizes as
blocks do not overlap; so all counters are cardinalities, and how one changes
follows from the theorems on finite sets, without an induction over a sum.
`StatsInv` carries along that blocks and addresses are finitely many. The step
with the most parts is `free_block`: its counters are read before the merges and
written after them, so in between the freed block counts as active and is hidden
from the inactive ones (`busy` and `hidden` of `RowFits`), and a merge keeps the
addresses while it takes an inactive block away (`Swallows`, `Absorbs`). While
`free` inserts events its block counts as active although it has no event yet;
that is the set `Inserting`. `NoCounterNegative` is `update_stat`'s assertion.

`PlainAllocatorProofs` is about programs without graphs. `NoUseAfterFree`,
`NoLostBlock` and `Coalesced` are false with graphs, since a destroyed private
pool takes its list of blocks with it, so they need facts that `IInv` does not
have. `PlainInv` says that nothing undefined has happened, that no recording is
underway and no pool is freeable, and

- `Owned`: every block belongs to the allocator's own pools, and these list only
  blocks that exist: `free` follows no dangling pointer;
- `Listed`: a block that is neither in use nor waiting for events is in a pool,
  the block in the operation's hands apart;
- `Joined`: no two neighbours are mergeable, the block whose events are being
  inserted apart, which counts none of them yet: a merge makes a block whose
  neighbours were the far neighbours of those it joined, and these are not free;
- `Covered`: every segment begins with a block. When `free_blocks` finds nothing
  left, the block at the beginning of a segment is either in use or a free part
  of it, whose neighbour is then in use, as no events are pending. That is
  `EmptyCacheReleases`.

`AllocatorImplementsAbstract` is a step simulation on top of both invariants.
`Malloc` maps to `Request`; `Split` to `Grant`, whose memory is large enough by
`InHand` and apart from what is in use or pending by `Apart` and `EventsCounted`;
`OutOfMemory` and the refusal of stateful addressing to `Refuse`; `recordQueue` to
`Use`; `free` to `Give` with the queues recorded on the block; and
`EventComplete` to `Finish`. All other steps change neither the
allocated blocks, nor the pending work, nor the request. `RequestAssumption` says
that a request is not `NULL`, which stands for none.

`XPUGraphProofs` carries these results over to programs with graphs. Its
invariant `GraphInv` adds to the types of the objects that one that records owns
nothing yet, and `OwnersCounted`. `GraphsUseAllocator` then shows that every step is one of
the allocator's `Spec`; only `reset` needs an argument, that the pool it releases
has an owner. `GraphPoolsReferenced`, `NoOverlap` and `StatsMatch` then follow from
the allocator's theorems.
`CapturedByObject` needs the recordings underway tied to the objects that record,
in both directions, which is `Filters`: each entry belongs to one graph that
captures and accepts its queue object exactly while the SYCL graph records; each
such graph has its entry; and no two share a pool or an object. `malloc` takes
the first entry that accepts, and so finds the only one.

`ReadWriteMutexProofs` proves `MutualExclusion`, `CountersMatch` and
`NoLostWakeup` for any finite set of threads. Their conjunction with `LockTypeOK`
is inductive: the counters say who is inside, which is what the conditions test,
and the wake-up condition is kept because whoever makes a condition true notifies.
`LockNoDeadlock` follows: while a thread wants the lock, one is inside or awake.

`WeightPackProofs` shows that the cache uses the lock as specified, and proves
`CachedTogether` and `WarmCallsHit`. `CachedTogether` is not inductive; `CacheInv`
adds that a half entry has a thread about to store the other half, that a thread
at its second store has made the first, and that a thread is in the lock only in
steps that are under it. `WarmCallsHit` rests on `NeverReplaced`, that `emplace`
leaves an entry alone, and on `WarmInv`: the weights of a call that began with both
cached still are, and what it has looked up so far was a hit.

`TaskExecutorProofs` proves `NoLostWakeup`, `StopDrains` and the refinement
`ImplementsAsyncTask`, for any clients, submissions and kinds. `IInv` adds to the
types `Accounted`, that every accepted input is ready, in the worker's hands or in
the queue: that is what makes an exit with an empty queue a drained one. Each
action maps to a step of `AsyncTask`: `Emplace` to `Submit`, `WorkerReturn` to
`Finish`, `stop_executor` to `Close`, and all others to a stutter, `WorkerCheck`
because it moves the head of the queue to the worker's hands. `ExecutorNoDeadlock` says that while a client is in
a call or an accepted task is unfinished, the guard of a step of the worker or of a
client holds. It needs `GilInv`, that whoever holds the GIL does not wait, and
`WaitInv`, that a client joins only after it has set `stop` and gets only what was
accepted; with `NoLostWakeup` and `Accounted`, a sleeping worker then has a
notification coming or nothing to do, and in that case what clients wait for is
ready.

`MultiStreamProofs` proves `CoresPartitioned` and `RowsPartitioned` for every list
of cores, number of streams and batch. The invariant of both loops says that the
first `j` slices tile the things up to the current end and that this end is
`j * each` plus the smaller of `j` and `extra`; after the last iteration that is
everything, by the definition of quotient and remainder. `OwnRowsInOrder` is
proved on top of it from `Collecting`: an entry of the call in progress in a
Task's queue is the input of its stream, and older entries have older call
numbers, so they never fill a future of this call; a future that is ready has its
stream's input; and the output holds the inputs of the streams collected so far.
`SyncOnItsCores` follows from `PinKnown`: the list the thread is believed to be
pinned to is right unless a pin context was left.

`ShmAllReduceProofs` proves `TypeOK`, `AllReduced`, `NoStaleFlag` and
`ExclusiveBlock` for any number of ranks, calls, sizes and blocks, under one
hypothesis, `FlagsSuffice`: each call over shared memory has a flag for each of
its blocks. The code does not ensure it, and `shm_overflow` shows what happens
without; the instance of `shm_all_reduce` satisfies it. Ranks are in different
calls at once, so the invariant is stated around one call, `Epoch`, which owns the
shared buffer: that of the last rank, or the next while the last rank is in
oneCCL. `Rounds` says that a rank is before it (with nothing but oneCCL calls in
between), in it, or at most one call past it, and then still waiting.
`StatesFit` gives the value of each state from where its rank is; `Waiting` what
the loops over ranks have seen so far; `CopyFirst` that nobody adds before rank 0
has copied; `Chain` that a block holds the first `k` addends and that exactly the
ranks up to `k - 1` have added; `Flags` and `FlagsUp` that a flag is up exactly from
its owner's raising it to its successor's clearing it; and `Received` what was
copied out. `NoStaleFlag` and `ExclusiveBlock` follow from `Chain` and `Flags`.
`ShmNoDeadlock` finds the rank that can go on: the one furthest behind, if it is
before the epoch; rank 0 until it has copied; then a rank that waits for the copy,
or else the first that still adds, whose predecessor's flag is up by `FlagsUp`; and
once the last rank has added, itself or the rank it waits for.

The three deadlock theorems state the guards of the steps explicitly
(`CanStep`, `WorkerCanStep`, `ClientCanStep`), since the prover has no `ENABLED`.

Only model-checked: liveness under fairness, which the prover does not treat
(`CallsReturn`, `CallsEnd`, `FuturesReady`, `ClientsReturn`, `ForwardEnds`,
`AllEnd`). Every invariant, every other action property and every refinement
that a passing run checks is also proved.

## Not modelled

Of modelled components: `Stat::peak`, `allocated` and `freed`, the snapshot and
`cacheInfo` of the allocator; `replay` and the Philox offsets of graphs, recording
again on an instance that failed, and resetting one that records; nested hints of
MultiStream and the aliasing of what it returns; oneDNN's packing; reference
counts of Python objects; MPI and oneCCL beyond the fact that a collective waits
for all ranks; mapping of shared memory; the OpenMP runtime.

Left out entirely: the allocator's front end and the LRU cache of primitives,
which are single-step wrappers and containers; the oneDNN graph kernels, whose
partitioning is a compiler; operators, kernels, graph passes, quantization,
optimisers, the launcher and the dispatch by ISA, which are numeric, pure I/O, or
table lookups. They are nearly all of the repository's lines: its state machines
with concurrency or failure are the ones above.

## Plan

What is left: `Stat::peak`, `allocated` and `freed` of the allocator, and the
Philox offsets of graphs over replays.
