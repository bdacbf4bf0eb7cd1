------------------------------ MODULE XPUGraph ------------------------------
(***************************************************************************)
(* XPU graphs, csrc/gpu/runtime/XPUGraph.cpp, on top of the caching        *)
(* allocator: graph objects are constructed, record, are replayed and      *)
(* reset, while any thread allocates and frees.                            *)
(*                                                                         *)
(* recording_queue_ is a reference, bound by the constructor to the        *)
(* sycl::queue object of the stream that is current then.  begin_recording *)
(* assigns THROUGH it: that object becomes a copy of the queue current     *)
(* now.  The filter given to the allocator compares addresses, blocks      *)
(* compare queues, so objects and the queues they hold are told apart.     *)
(***************************************************************************)
EXTENDS CachingDeviceAllocator

CONSTANTS
  Graph,       \* addresses of XPUGraphImpl objects
  HeldQueue    \* the queue each object holds at first

\* Any object may come to hold any queue, and malloc and recordQueue may be
\* called with it.
ASSUME GraphAssumption ==
  /\ IsFiniteSet(Graph)
  /\ HeldQueue \in [QueueObject -> Queue]
  /\ \A o \in QueueObject, q \in Queue : <<DeviceOf[q], o, q>> \in CallSite
  /\ NeverUsed = {}

VARIABLES
  queue_of,            \* the SYCL queue each object holds
  graph,               \* the XPUGraphImpl objects
  _xpu_graphs_debug

ownVars == <<queue_of, graph, _xpu_graphs_debug>>

\* at: "gone" before the constructor and after the destructor; "idle";
\* "beginning" between beginAllocateToPool and the SYCL graph's
\* begin_recording; "recording"; "ending" between the SYCL graph's
\* end_recording and endAllocateToPool.
Gone == [at |-> "gone", recording_queue_ |-> NULL, mempool_id_ |-> NULL,
         has_graph_ |-> FALSE, has_graph_exec_ |-> FALSE]

GraphInit ==
  /\ Init
  /\ queue_of = HeldQueue
  /\ graph = [g \in Graph |-> Gone]
  /\ _xpu_graphs_debug = FALSE

\* XPUGraphImpl(), with the stream of object o current.
Construct(g, o) ==
  /\ graph[g].at = "gone"
  /\ graph' = [graph EXCEPT ![g] = [Gone EXCEPT !.at = "idle", !.recording_queue_ = o]]
  /\ UNCHANGED <<vars, queue_of, _xpu_graphs_debug>>

enable_debug_mode ==
  /\ ~_xpu_graphs_debug
  /\ _xpu_graphs_debug' = TRUE
  /\ UNCHANGED <<vars, queue_of, graph>>

Capturing(g) == graph[g].at \in {"beginning", "recording", "ending"}

\* What begin_recording checks and assigns before it calls the allocator, with
\* object o current.  The caller's part: a SYCL queue records into one graph
\* at a time, two captures do not share a reference, and an instance whose
\* recording failed is not recorded again.
BeginSetup(g, o) ==
  /\ graph[g].at = "idle" /\ ~graph[g].has_graph_exec_
  /\ ~graph[g].has_graph_
  /\ \A h \in Graph : Capturing(h) =>
       /\ graph[h].recording_queue_ # graph[g].recording_queue_
       /\ queue_of[graph[h].recording_queue_] # queue_of[o]
  /\ queue_of' = [queue_of EXCEPT ![graph[g].recording_queue_] = queue_of[o]]

\* Mutant: recording starts although the pool already has a recording.
BeginRecording_Twice(g, o, m) ==
  /\ BeginSetup(g, o)
  /\ BeginAllocateToPool(m)
  /\ graph' = [graph EXCEPT ![g].mempool_id_ = m, ![g].at = "beginning"]
  /\ UNCHANGED _xpu_graphs_debug

\* begin_recording(pool) up to the call of the SYCL graph: m is a new id, the
\* pool of another graph or a handle.  A second recording into one pool is
\* counted and refused.  The event queries it waits for have no source here.
BeginRecording(g, o, m) ==
  /\ BeginSetup(g, o)
  /\ BeginAllocateToPool(m)
  /\ graph' = [graph EXCEPT ![g].mempool_id_ = m,
                            ![g].at = IF Recording(m) THEN "idle" ELSE "beginning"]
  /\ UNCHANGED _xpu_graphs_debug

\* The handle of a pool whose last graph is gone, and which is still there.
BeginRefused(g, o, m) ==
  /\ BeginSetup(g, o)
  /\ At("idle")
  /\ m \in graph_pools_freeable
  /\ graph' = [graph EXCEPT ![g].mempool_id_ = m]
  /\ UNCHANGED <<vars, _xpu_graphs_debug>>

\* graph_->begin_recording: the queue is in the Recording state.
StartRecording(g) ==
  /\ graph[g].at = "beginning"
  /\ FilterChanges(graph[g].mempool_id_, graph[g].recording_queue_)
  /\ graph' = [graph EXCEPT ![g].at = "recording"]
  /\ UNCHANGED <<queue_of, _xpu_graphs_debug>>

\* end_recording, with object o current, up to the SYCL graph's end_recording.
\* On another queue it throws and changes nothing.
StopRecording(g, o) ==
  /\ graph[g].at = "recording"
  /\ queue_of[o] = queue_of[graph[g].recording_queue_]
  /\ FilterChanges(graph[g].mempool_id_, NULL)
  /\ graph' = [graph EXCEPT ![g].at = "ending"]
  /\ UNCHANGED <<queue_of, _xpu_graphs_debug>>

\* The rest of end_recording.  finalize may throw, and so may the check of the
\* generator; graph_ is kept then, and in debug mode.
EndRecording(g, outcome) ==
  /\ graph[g].at = "ending"
  /\ EndAllocateToPool(graph[g].mempool_id_)
  /\ graph' = [graph EXCEPT
       ![g].at = "idle",
       ![g].has_graph_ = (outcome # "ok" \/ _xpu_graphs_debug),
       ![g].has_graph_exec_ = (outcome # "finalize throws")]
  /\ UNCHANGED <<queue_of, _xpu_graphs_debug>>

\* Mutant: has_graph_exec_ stays set.
reset_KeepsFlags(g, at) ==
  /\ graph[g].at = "idle"
  /\ IF graph[g].has_graph_ \/ graph[g].has_graph_exec_
     THEN releasePool(graph[g].mempool_id_)
     ELSE UNCHANGED vars
  /\ graph' = [graph EXCEPT ![g].has_graph_ = FALSE]
  /\ UNCHANGED <<queue_of, _xpu_graphs_debug>>

\* reset, and the destructor, which calls it: the object is idle or gone then.
\* The caller does neither during a recording.
reset(g, at) ==
  /\ graph[g].at = "idle"
  /\ IF graph[g].has_graph_ \/ graph[g].has_graph_exec_
     THEN releasePool(graph[g].mempool_id_)
     ELSE UNCHANGED vars
  /\ graph' = [graph EXCEPT ![g] =
       IF at = "gone" THEN Gone
       ELSE [@ EXCEPT !.has_graph_ = FALSE, !.has_graph_exec_ = FALSE]]
  /\ UNCHANGED <<queue_of, _xpu_graphs_debug>>

-----------------------------------------------------------------------------
\* Callers reach a queue through its object.
QueueCall(o) ==
  LET q == queue_of[o]
  IN  \/ \E n \in ASize : Malloc(DeviceOf[q], o, q, n)
      \/ \E a \in DOMAIN allocated_blocks : RecordQueue(a, q)

AllocatorStep ==
  /\ \/ \E o \in QueueObject : QueueCall(o)
     \/ \E a \in DOMAIN allocated_blocks : Free(a) \/ FreeUsed(a)
     \/ EmptyCache
     \/ OpStep
     \/ EventComplete
     \/ Undefined
  /\ UNCHANGED ownVars

Outcome == {"ok", "finalize throws", "generator differs"}

GraphStep ==
  \/ \E g \in Graph, o \in QueueObject :
       \/ Construct(g, o)
       \/ \E m \in Mempool : BeginRecording(g, o, m) \/ BeginRefused(g, o, m)
       \/ StopRecording(g, o)
  \/ \E g \in Graph :
       \/ StartRecording(g)
       \/ \E outcome \in Outcome : EndRecording(g, outcome)
       \/ \E at \in {"idle", "gone"} : reset(g, at)
  \/ enable_debug_mode

GraphNext == AllocatorStep \/ GraphStep

graphSpecVars == <<vars, ownVars>>

GraphSpec == GraphInit /\ [][GraphNext]_graphSpecVars
-----------------------------------------------------------------------------
\* Graphs use the allocator as its specification says: every step is a step of
\* the allocator or leaves it alone.  In particular a pool is released once
\* for each recording that ended, in whatever way, and never by a graph
\* that did not record; so what is proved of the allocator holds here.
UsesAllocatorAsSpecified == Spec

Owners(m) == {g \in Graph : /\ graph[g].mempool_id_ = m
                            /\ graph[g].has_graph_ \/ graph[g].has_graph_exec_}

\* recorded counts the graphs that will release their pool, exactly: no end of
\* a recording, good or bad, and no reset loses a reference or gives one back
\* twice.
OwnersCounted == \A m \in Mempool : recorded[m] = Cardinality(Owners(m))

\* malloc serves an object from a private pool exactly while a graph records on
\* that object, and from that graph's pool.
CapturedByObject ==
  [][op.pc = "process_events" /\ op'.pc = "find_free_block" =>
       LET capturing == {g \in Graph : /\ graph[g].at = "recording"
                                       /\ graph[g].recording_queue_ = op.object}
       IN  IF capturing = {} THEN op'.owner = NULL
           ELSE \E g \in capturing : op'.owner = graph[g].mempool_id_]_graphSpecVars

\* "allocated private memory pool should also be binding to this queue": an
\* allocation for a queue that is being recorded comes from the recording's
\* private pool.
CapturedByQueue ==
  [][op.pc = "process_events" /\ op'.pc = "find_free_block" =>
       \A g \in Graph :
         graph[g].at = "recording" /\ queue_of[graph[g].recording_queue_] = op.queue =>
           op'.owner = graph[g].mempool_id_]_graphSpecVars
=============================================================================
