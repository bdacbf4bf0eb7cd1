--------------------------- MODULE XPUGraphProofs ---------------------------
(* Graphs on top of the allocator, for any graphs, queues, pools and sizes: *)
(* every step of GraphSpec is a step the allocator's Spec allows, so the    *)
(* theorems of CachingDeviceAllocatorProofs hold with graphs; the owners of *)
(* a pool are counted exactly; malloc finds the private pool of the graph   *)
(* that records on its object.                                              *)
(*                                                                          *)
(* The only step of the refinement that needs an argument is reset:         *)
(* ReleasePool asks that the pool has an owner, which OwnersCounted says of *)
(* the graph's own pool.                                                    *)
EXTENDS XPUGraph, CachingDeviceAllocatorProofs

Impl ==
  [at : {"gone", "idle", "beginning", "recording", "ending"},
   recording_queue_ : QueueObject \cup {NULL}, mempool_id_ : Mempool \cup {NULL},
   has_graph_ : BOOLEAN, has_graph_exec_ : BOOLEAN]

Owns(i) == i.has_graph_ \/ i.has_graph_exec_

\* An object that exists refers to a queue object; one that is gone or records
\* owns nothing; one that records or owns has a pool.
GraphTyped ==
  /\ queue_of \in [QueueObject -> Queue]
  /\ graph \in [Graph -> Impl]
  /\ _xpu_graphs_debug \in BOOLEAN
  /\ \A g \in Graph :
       /\ graph[g].at # "gone" => graph[g].recording_queue_ \in QueueObject
       /\ graph[g].at = "gone" => ~Owns(graph[g])
       /\ Capturing(g) => ~Owns(graph[g]) /\ graph[g].mempool_id_ \in Mempool
       /\ Owns(graph[g]) => graph[g].mempool_id_ \in Mempool

GraphInv == GraphTyped /\ OwnersCounted

\* The owners of a pool are finitely many.
LEMMA OwnersFinite ==
  ASSUME NEW m \in Mempool
  PROVE  /\ IsFiniteSet(Owners(m)) /\ Cardinality(Owners(m)) \in Nat
         /\ Owners(m) # {} => Cardinality(Owners(m)) > 0
<1>1. IsFiniteSet(Owners(m))
  BY GraphAssumption, FS_Subset DEF Owners
<1>2. Cardinality(Owners(m)) \in Nat /\ (Cardinality(Owners(m)) = 0 <=> Owners(m) = {})
  BY <1>1, FS_CardinalityType, FS_EmptySet
<1> QED
  BY <1>1, <1>2

\* What callers of the allocator, the operation in flight and the device do is
\* a step of the allocator.
LEMMA AllocatorSteps ==
  ASSUME GraphTyped, AllocatorStep
  PROVE  PlainNext \/ Undefined
<1>1. ASSUME NEW o \in QueueObject, QueueCall(o) PROVE Call
  <2> DEFINE q == queue_of[o]
  <2>1. q \in Queue
    BY DEF GraphTyped
  <2>2. ASSUME NEW n \in ASize, Malloc(DeviceOf[q], o, q, n) PROVE Call
    <3> DEFINE c == <<DeviceOf[q], o, q>>
    <3>1. c \in CallSite /\ c[1] = DeviceOf[q] /\ c[2] = o /\ c[3] = q
      BY <2>1, GraphAssumption
    <3>2. Malloc(c[1], c[2], c[3], n)
      BY <2>2, <3>1
    <3> QED
      BY <3>1, <3>2 DEF Call
  <2>3. ASSUME NEW a \in DOMAIN allocated_blocks, RecordQueue(a, q) PROVE Call
    BY <2>1, <2>3, GraphAssumption DEF Call
  <2> QED
    BY <1>1, <2>2, <2>3 DEF QueueCall
<1>2. ASSUME NEW a \in DOMAIN allocated_blocks, Free(a) \/ FreeUsed(a) PROVE Call
  BY <1>2 DEF Call
<1>3. EmptyCache => Call
  BY DEF Call
<1> QED
  BY <1>1, <1>2, <1>3 DEF AllocatorStep, PlainNext

\* Every step of graphs and programs is a step of the allocator or leaves it
\* alone.
LEMMA GraphStepIsStep ==
  ASSUME GraphInv, [GraphNext]_graphSpecVars
  PROVE  [Next]_vars
<1> USE DEF GraphInv
<1>1. CASE UNCHANGED graphSpecVars
  BY <1>1 DEF graphSpecVars
<1>2. CASE AllocatorStep
  BY <1>2, AllocatorSteps DEF Next
<1>3. CASE enable_debug_mode
  BY <1>3 DEF enable_debug_mode
<1>4. ASSUME NEW g \in Graph, NEW o \in QueueObject, Construct(g, o) PROVE [Next]_vars
  BY <1>4 DEF Construct
<1>5. ASSUME NEW g \in Graph, NEW o \in QueueObject, NEW m \in Mempool,
             BeginRecording(g, o, m) \/ BeginRefused(g, o, m)
      PROVE  [Next]_vars
  BY <1>5 DEF BeginRecording, BeginRefused, Next, GraphCall
<1>6. ASSUME NEW g \in Graph, NEW o \in QueueObject, StopRecording(g, o) PROVE [Next]_vars
  <2>1. graph[g].mempool_id_ \in Mempool
    BY <1>6 DEF StopRecording, GraphTyped, Capturing
  <2> QED
    BY <1>6, <2>1 DEF StopRecording, Next, QueueStateChanges
<1>7. ASSUME NEW g \in Graph, StartRecording(g) PROVE [Next]_vars
  <2>1. graph[g].mempool_id_ \in Mempool /\ graph[g].recording_queue_ \in QueueObject
    BY <1>7 DEF StartRecording, GraphTyped, Capturing
  <2> QED
    BY <1>7, <2>1 DEF StartRecording, Next, QueueStateChanges
<1>8. ASSUME NEW g \in Graph, NEW outcome \in Outcome, EndRecording(g, outcome)
      PROVE  [Next]_vars
  <2>1. graph[g].mempool_id_ \in Mempool
    BY <1>8 DEF EndRecording, GraphTyped, Capturing
  <2> QED
    BY <1>8, <2>1 DEF EndRecording, Next, GraphCall
<1>9. ASSUME NEW g \in Graph, NEW at \in {"idle", "gone"}, reset(g, at) PROVE [Next]_vars
  <2>1. CASE ~Owns(graph[g])
    BY <1>9, <2>1 DEF reset, Owns
  <2>2. CASE Owns(graph[g])
    <3> DEFINE m == graph[g].mempool_id_
    <3>1. m \in Mempool /\ g \in Owners(m)
      BY <2>2 DEF GraphTyped, Owners, Owns
    <3>2. recorded[m] > 0
      BY <3>1, OwnersFinite DEF OwnersCounted
    <3>3. releasePool(m)
      BY <1>9, <2>2 DEF reset, Owns
    <3> QED
      BY <3>1, <3>2, <3>3 DEF Next, GraphCall, ReleasePool
  <2> QED
    BY <2>1, <2>2
<1> QED
  BY <1>1, <1>2, <1>3, <1>4, <1>5, <1>6, <1>7, <1>8, <1>9 DEF GraphNext, GraphStep

\* Only graphs change the number of owners of a pool.
LEMMA RecordedKept ==
  ASSUME PlainNext \/ Undefined
  PROVE  recorded' = recorded
<1>1. Call => recorded' = recorded
  BY DEF Call, Malloc, Free, FreeUsed, RecordQueue, EmptyCache, FreeBlock, graphVars
<1>2. MallocStep => recorded' = recorded
  BY DEF MallocStep, ProcessEvent, EventDone, FreeBlock, ProcessEventsEnd, FindFreeBlock,
         FindNothing, AllocSegment, AllocFails, SynchronizeEvent,
         SynchronizeEnd, FreeSegment, FreeCachedBlocks, OutOfMemory, Split, graphVars
<1>3. InsertEvent \/ EmptyCacheEnd \/ EventComplete \/ Undefined => recorded' = recorded
  BY DEF InsertEvent, EmptyCacheEnd, EventComplete, Undefined, graphVars, vars
<1> QED
  BY <1>1, <1>2, <1>3 DEF PlainNext, OpStep

\* The owners of a pool when object g becomes i and the others stay.
LEMMA OwnersAfter ==
  ASSUME GraphTyped, NEW g \in Graph, NEW i \in Impl, graph' = [graph EXCEPT ![g] = i],
         NEW m \in Mempool
  PROVE  Owners(m)' = IF Owns(i) /\ i.mempool_id_ = m THEN Owners(m) \cup {g}
                                                      ELSE Owners(m) \ {g}
  BY DEF GraphTyped, Owners, Owns

\* A step that neither makes nor ends an owner.
LEMMA OwnerUnchanged ==
  ASSUME GraphInv, NEW g \in Graph, NEW i \in Impl, graph' = [graph EXCEPT ![g] = i],
         ~Owns(graph[g]), ~Owns(i), recorded' = recorded
  PROVE  OwnersCounted'
<1> SUFFICES ASSUME NEW m \in Mempool PROVE recorded'[m] = Cardinality(Owners(m)')
  BY DEF OwnersCounted
<1>1. Owners(m)' = Owners(m) \ {g}
  BY OwnersAfter DEF GraphInv
<1>2. g \notin Owners(m)
  BY DEF Owners, Owns
<1>3. Owners(m)' = Owners(m)
  BY <1>1, <1>2
<1> QED
  BY <1>3 DEF GraphInv, OwnersCounted

\* The part of GraphTyped about the objects, when g becomes i.
LEMMA TypedAfter ==
  ASSUME GraphTyped, NEW g \in Graph, NEW i \in Impl, graph' = [graph EXCEPT ![g] = i],
         queue_of' \in [QueueObject -> Queue], _xpu_graphs_debug' = _xpu_graphs_debug,
         i.at # "gone" => i.recording_queue_ \in QueueObject, i.at = "gone" => ~Owns(i),
         i.at \in {"beginning", "recording", "ending"} => ~Owns(i) /\ i.mempool_id_ \in Mempool,
         Owns(i) => i.mempool_id_ \in Mempool
  PROVE  GraphTyped'
<1>1. graph' \in [Graph -> Impl] /\ graph'[g] = i /\ \A h \in Graph \ {g} : graph'[h] = graph[h]
  BY DEF GraphTyped
<1> QED
  BY <1>1 DEF GraphTyped, Capturing

\* The end of a recording, however it ends, makes the graph an owner.
LEMMA EndRecordingStep ==
  ASSUME GraphInv, TypeOK, NEW g \in Graph, NEW outcome \in Outcome, EndRecording(g, outcome)
  PROVE  GraphInv'
<1> DEFINE m == graph[g].mempool_id_
           i == [graph[g] EXCEPT !.at = "idle",
                   !.has_graph_ = (outcome # "ok" \/ _xpu_graphs_debug),
                   !.has_graph_exec_ = (outcome # "finalize throws")]
<1>1. graph[g] \in Impl /\ graph' = [graph EXCEPT ![g] = i] /\ UNCHANGED <<queue_of, _xpu_graphs_debug>>
  BY DEF EndRecording, GraphInv, GraphTyped, Impl
<1>2. i \in Impl /\ i.at = "idle" /\ i.mempool_id_ = m
      /\ i.recording_queue_ = graph[g].recording_queue_
  BY <1>1 DEF Impl, GraphInv, GraphTyped
<1>3. Owns(i)
  BY <1>1 DEF Owns, Outcome, Impl, GraphInv, GraphTyped
<1>4. m \in Mempool /\ ~Owns(graph[g]) /\ graph[g].recording_queue_ \in QueueObject
  BY DEF EndRecording, GraphInv, GraphTyped, Capturing
<1>5. GraphTyped'
  <2> HIDE DEF i
  <2> QED
    BY <1>1, <1>2, <1>3, <1>4, TypedAfter DEF GraphInv, GraphTyped
<1>6. OwnersCounted'
  <2> SUFFICES ASSUME NEW n \in Mempool PROVE recorded'[n] = Cardinality(Owners(n)')
    BY DEF OwnersCounted
  <2>1. Owners(n)' = IF m = n THEN Owners(n) \cup {g} ELSE Owners(n) \ {g}
    <3> HIDE DEF i
    <3> QED
      BY <1>1, <1>2, <1>3, OwnersAfter DEF GraphInv
  <2>2. g \notin Owners(n)
    BY <1>4 DEF Owners, Owns
  <2>3. recorded' = [recorded EXCEPT ![m] = @ + 1] /\ recorded \in [Mempool -> Nat]
    BY DEF EndRecording, EndAllocateToPool, TypeOK
  <2>4. recorded[n] = Cardinality(Owners(n))
    BY DEF GraphInv, OwnersCounted
  <2>5. CASE n = m
    <3>1. Cardinality(Owners(n) \cup {g}) = Cardinality(Owners(n)) + 1
      BY <2>2, OwnersFinite, FS_AddElement
    <3> QED
      BY <2>1, <2>3, <2>4, <2>5, <3>1
  <2>6. CASE n # m
    BY <1>4, <2>1, <2>2, <2>3, <2>4, <2>6
  <2> QED
    BY <2>5, <2>6
<1> QED
  BY <1>5, <1>6 DEF GraphInv

\* reset and the destructor end the ownership they find, once.
LEMMA ResetGraph ==
  ASSUME GraphInv, TypeOK, NEW g \in Graph, NEW at \in {"idle", "gone"}, reset(g, at)
  PROVE  GraphInv'
<1> DEFINE m == graph[g].mempool_id_
           i == IF at = "gone" THEN Gone
                ELSE [graph[g] EXCEPT !.has_graph_ = FALSE, !.has_graph_exec_ = FALSE]
<1>1. graph[g] \in Impl /\ graph' = [graph EXCEPT ![g] = i] /\ UNCHANGED <<queue_of, _xpu_graphs_debug>>
  BY DEF reset, GraphInv, GraphTyped
<1>2. /\ i \in Impl /\ ~Owns(i) /\ i.at \in {"idle", "gone"}
      /\ i.at # "gone" => i.recording_queue_ = graph[g].recording_queue_
  BY <1>1 DEF Impl, Gone, Owns, reset
<1>3. graph[g].recording_queue_ \in QueueObject
  BY DEF reset, GraphInv, GraphTyped
<1>4. GraphTyped'
  <2> HIDE DEF i
  <2> QED
    BY <1>1, <1>2, <1>3, TypedAfter DEF GraphInv, GraphTyped
<1>5. OwnersCounted'
  <2>1. CASE ~Owns(graph[g])
    <3>1. recorded' = recorded
      BY <2>1 DEF reset, Owns, vars
    <3> HIDE DEF i
    <3> QED
      BY <1>1, <1>2, <2>1, <3>1, OwnerUnchanged
  <2>2. CASE Owns(graph[g])
    <3> SUFFICES ASSUME NEW n \in Mempool PROVE recorded'[n] = Cardinality(Owners(n)')
      BY DEF OwnersCounted
    <3>1. Owners(n)' = Owners(n) \ {g}
      <4> HIDE DEF i
      <4> QED
        BY <1>1, <1>2, OwnersAfter DEF GraphInv
    <3>2. m \in Mempool /\ (g \in Owners(n) <=> n = m)
      BY <2>2 DEF GraphInv, GraphTyped, Owners, Owns
    <3>3. recorded' = [recorded EXCEPT ![m] = @ - 1] /\ recorded \in [Mempool -> Nat]
      BY <2>2 DEF reset, releasePool, Owns, TypeOK
    <3>4. recorded[n] = Cardinality(Owners(n))
      BY DEF GraphInv, OwnersCounted
    <3>5. CASE n = m
      <4>1. Cardinality(Owners(n) \ {g}) = Cardinality(Owners(n)) - 1
        BY <3>2, <3>5, OwnersFinite, FS_RemoveElement
      <4> QED
        BY <3>1, <3>3, <3>4, <3>5, <4>1
    <3>6. CASE n # m
      BY <3>1, <3>2, <3>3, <3>4, <3>6
    <3> QED
      BY <3>5, <3>6
  <2> QED
    BY <2>1, <2>2
<1> QED
  BY <1>4, <1>5 DEF GraphInv

\* Recording starts, is refused, or goes on: the objects change, the owners of
\* pools do not.
LEMMA BeginRecordingStep ==
  ASSUME GraphInv, NEW g \in Graph, NEW o \in QueueObject, NEW m \in Mempool,
         BeginRecording(g, o, m) \/ BeginRefused(g, o, m)
  PROVE  GraphInv'
<1>1. /\ graph[g].at = "idle" /\ ~Owns(graph[g]) /\ graph[g] \in Impl
      /\ graph[g].recording_queue_ \in QueueObject
  BY DEF BeginRecording, BeginRefused, BeginSetup, Owns, GraphInv, GraphTyped
<1>2. recorded' = recorded
  BY DEF BeginRecording, BeginRefused, BeginAllocateToPool, vars
<1>3. queue_of' \in [QueueObject -> Queue] /\ UNCHANGED _xpu_graphs_debug
  BY <1>1 DEF BeginRecording, BeginRefused, BeginSetup, GraphInv, GraphTyped
<1>4. PICK place \in {"idle", "beginning"} :
        graph' = [graph EXCEPT ![g] = [graph[g] EXCEPT !.mempool_id_ = m, !.at = place]]
  <2>1. CASE BeginRecording(g, o, m)
    BY <1>1, <2>1 DEF BeginRecording, GraphInv, GraphTyped, Impl
  <2>2. CASE BeginRefused(g, o, m)
    <3>1. [graph[g] EXCEPT !.mempool_id_ = m] = [graph[g] EXCEPT !.mempool_id_ = m, !.at = "idle"]
      BY <1>1 DEF Impl
    <3> QED
      BY <2>2, <3>1 DEF BeginRefused
  <2> QED
    BY <2>1, <2>2
<1> DEFINE i == [graph[g] EXCEPT !.mempool_id_ = m, !.at = place]
<1>5. /\ i \in Impl /\ ~Owns(i) /\ i.mempool_id_ = m
      /\ i.recording_queue_ \in QueueObject
  BY <1>1 DEF Impl, Owns
<1> HIDE DEF i
<1>6. graph' = [graph EXCEPT ![g] = i]
  BY <1>4 DEF i
<1>7. GraphTyped'
  BY <1>3, <1>5, <1>6, TypedAfter DEF GraphInv
<1>8. OwnersCounted'
  BY <1>1, <1>2, <1>5, <1>6, OwnerUnchanged
<1> QED
  BY <1>7, <1>8 DEF GraphInv

\* Construction, and the queue entering and leaving the Recording state.
LEMMA PlaceStep ==
  ASSUME GraphInv, NEW g \in Graph, NEW o \in QueueObject,
         Construct(g, o) \/ StartRecording(g) \/ StopRecording(g, o)
  PROVE  GraphInv'
<1>1. graph[g] \in Impl /\ UNCHANGED <<queue_of, _xpu_graphs_debug, recorded>>
  BY DEF Construct, StartRecording, StopRecording, FilterChanges, GraphInv, GraphTyped, vars
<1>2. CASE Construct(g, o)
  <2> DEFINE i == [Gone EXCEPT !.at = "idle", !.recording_queue_ = o]
  <2>1. graph' = [graph EXCEPT ![g] = i]
    BY <1>2 DEF Construct
  <2>2. i \in Impl /\ ~Owns(i) /\ i.at = "idle" /\ i.recording_queue_ = o
    BY DEF Impl, Owns, Gone
  <2> HIDE DEF i
  <2>3. GraphTyped'
    BY <1>1, <2>1, <2>2, TypedAfter DEF GraphInv, GraphTyped
  <2>4. CASE Owns(graph[g])
    <3> SUFFICES FALSE
      OBVIOUS
    <3> QED
      BY <1>2, <2>4 DEF Construct, GraphInv, GraphTyped
  <2>5. CASE ~Owns(graph[g])
    BY <1>1, <2>1, <2>2, <2>3, <2>5, OwnerUnchanged DEF GraphInv
  <2> QED
    BY <2>4, <2>5
<1>3. CASE StartRecording(g) \/ StopRecording(g, o)
  <2>1. /\ ~Owns(graph[g]) /\ graph[g].mempool_id_ \in Mempool
        /\ graph[g].recording_queue_ \in QueueObject
    BY <1>3 DEF StartRecording, StopRecording, GraphInv, GraphTyped, Capturing
  <2>2. PICK place \in {"recording", "ending"} :
          graph' = [graph EXCEPT ![g] = [graph[g] EXCEPT !.at = place]]
    BY <1>3 DEF StartRecording, StopRecording
  <2> DEFINE i == [graph[g] EXCEPT !.at = place]
  <2>3. /\ i \in Impl /\ ~Owns(i) /\ i.mempool_id_ \in Mempool
        /\ i.recording_queue_ \in QueueObject
    BY <1>1, <2>1 DEF Impl, Owns
  <2> HIDE DEF i
  <2>4. graph' = [graph EXCEPT ![g] = i]
    BY <2>2 DEF i
  <2>5. GraphTyped'
    BY <1>1, <2>3, <2>4, TypedAfter DEF GraphInv, GraphTyped
  <2> QED
    BY <1>1, <2>1, <2>3, <2>4, <2>5, OwnerUnchanged DEF GraphInv
<1> QED
  BY <1>2, <1>3

\* Every step keeps the types of the objects and the count of owners.
LEMMA GraphInvStep ==
  ASSUME GraphInv, TypeOK, [GraphNext]_graphSpecVars
  PROVE  GraphInv'
<1>1. CASE UNCHANGED <<ownVars, recorded>>
  BY <1>1 DEF GraphInv, ownVars, GraphTyped, OwnersCounted, Owners, Capturing
<1>2. CASE UNCHANGED graphSpecVars
  BY <1>1, <1>2 DEF graphSpecVars, vars
<1>3. CASE AllocatorStep
  <2>1. recorded' = recorded
    BY <1>3, AllocatorSteps, RecordedKept DEF GraphInv
  <2> QED
    BY <1>1, <1>3, <2>1 DEF AllocatorStep
<1>4. CASE enable_debug_mode
  BY <1>4 DEF enable_debug_mode, GraphInv, GraphTyped, OwnersCounted, Owners, Capturing, vars
<1>5. ASSUME NEW g \in Graph, NEW o \in QueueObject,
             Construct(g, o) \/ StartRecording(g) \/ StopRecording(g, o)
      PROVE  GraphInv'
  BY <1>5, PlaceStep
<1>6. ASSUME NEW g \in Graph, StartRecording(g) PROVE GraphInv'
  <2>1. graph[g].recording_queue_ \in QueueObject
    BY <1>6 DEF StartRecording, GraphInv, GraphTyped
  <2> QED
    BY <1>5, <1>6, <2>1
<1>7. ASSUME NEW g \in Graph, NEW o \in QueueObject, NEW m \in Mempool,
             BeginRecording(g, o, m) \/ BeginRefused(g, o, m)
      PROVE  GraphInv'
  BY <1>7, BeginRecordingStep
<1>8. ASSUME NEW g \in Graph, NEW outcome \in Outcome, EndRecording(g, outcome) PROVE GraphInv'
  BY <1>8, EndRecordingStep
<1>9. ASSUME NEW g \in Graph, NEW at \in {"idle", "gone"}, reset(g, at) PROVE GraphInv'
  BY <1>9, ResetGraph
<1> QED
  BY <1>2, <1>3, <1>4, <1>5, <1>6, <1>7, <1>8, <1>9 DEF GraphNext, GraphStep

\* Initially no object exists and no pool has an owner.
LEMMA InitGraph == GraphInit => GraphInv
<1> SUFFICES ASSUME GraphInit PROVE GraphInv
  OBVIOUS
<1>1. GraphTyped
  BY GraphAssumption DEF GraphInit, GraphTyped, Gone, Impl, Owns, Capturing
<1>2. \A m \in Mempool : Owners(m) = {}
  BY DEF GraphInit, Owners, Gone
<1>3. OwnersCounted
  BY <1>2, FS_EmptySet DEF GraphInit, Init, OwnersCounted
<1> QED
  BY <1>1, <1>3 DEF GraphInv

\* The invariant of graphs and the allocator's hold together.
THEOREM GraphsInvariant == GraphSpec => [](GraphInv /\ IInv)
<1>1. GraphInit => GraphInv /\ IInv
  BY InitGraph, InitInvariant DEF GraphInit
<1>2. ASSUME GraphInv, IInv, [GraphNext]_graphSpecVars PROVE GraphInv' /\ IInv'
  <2>1. TypeOK
    BY <1>2 DEF IInv
  <2>2. GraphInv'
    BY <1>2, <2>1, GraphInvStep
  <2>3. [Next]_vars
    BY <1>2, GraphStepIsStep
  <2> QED
    BY <1>2, <2>2, <2>3, NextInvariant
<1> QED
  BY <1>1, <1>2, PTL DEF GraphSpec

\* Graphs use the allocator as its specification says, for any graphs, pools
\* and interleaving: in particular reset releases a pool only if it owns it.
THEOREM GraphsUseAllocator == GraphSpec => UsesAllocatorAsSpecified
<1>1. GraphInit => Init
  BY DEF GraphInit
<1>2. GraphInv /\ [GraphNext]_graphSpecVars => [Next]_vars
  BY GraphStepIsStep
<1> QED
  BY <1>1, <1>2, GraphsInvariant, PTL DEF GraphSpec, Spec, UsesAllocatorAsSpecified

\* recorded is the number of graphs that will release each pool.
THEOREM OwnersExact == GraphSpec => []OwnersCounted
<1>1. GraphInv => OwnersCounted
  BY DEF GraphInv
<1> QED
  BY <1>1, GraphsInvariant, PTL

\* With graphs too, no two blocks ever cover the same memory.
THEOREM GraphMemoryDisjoint == GraphSpec => []NoOverlap
  BY GraphsUseAllocator, MemoryDisjoint, PTL DEF UsesAllocatorAsSpecified

\* With graphs too, the counters are exactly those of the blocks, while the
\* pools of the recordings are used, shared and destroyed.
THEOREM GraphStatsExact == GraphSpec => []StatsMatch
  BY GraphsUseAllocator, StatsExact, PTL DEF UsesAllocatorAsSpecified

-----------------------------------------------------------------------------
(* Where malloc looks during a recording. *)

\* The inductive invariant behind CapturedByObject.  Every recording underway
\* is that of one graph, and its filter accepts the graph's queue object
\* exactly while the SYCL graph records; every graph that captures has its
\* recording; no two share a pool or an object.
Recorder(g, i) ==
  /\ Capturing(g)
  /\ recordings_underway[i].pool = graph[g].mempool_id_
  /\ recordings_underway[i].filter =
       IF graph[g].at = "recording" THEN graph[g].recording_queue_ ELSE NULL

Filters ==
  /\ \A i \in DOMAIN recordings_underway : \E g \in Graph : Recorder(g, i)
  /\ \A g \in Graph : Capturing(g) => Recording(graph[g].mempool_id_)
  /\ \A g, h \in Graph : Capturing(g) /\ Capturing(h) /\ g # h =>
       /\ graph[g].mempool_id_ # graph[h].mempool_id_
       /\ graph[g].recording_queue_ # graph[h].recording_queue_
  /\ op.pc = "process_events" => op.object \in QueueObject

\* Only graphs start, end and filter recordings.
LEMMA RecordingsKept ==
  ASSUME PlainNext \/ Undefined
  PROVE  recordings_underway' = recordings_underway
<1>1. Call => recordings_underway' = recordings_underway
  BY DEF Call, Malloc, Free, FreeUsed, RecordQueue, EmptyCache, FreeBlock, graphVars
<1>2. MallocStep => recordings_underway' = recordings_underway
  BY DEF MallocStep, ProcessEvent, EventDone, FreeBlock, ProcessEventsEnd, FindFreeBlock,
         FindNothing, AllocSegment, AllocFails, SynchronizeEvent,
         SynchronizeEnd, FreeSegment, FreeCachedBlocks, OutOfMemory, Split, graphVars
<1>3. InsertEvent \/ EmptyCacheEnd \/ EventComplete \/ Undefined =>
        recordings_underway' = recordings_underway
  BY DEF InsertEvent, EmptyCacheEnd, EventComplete, Undefined, graphVars, vars
<1> QED
  BY <1>1, <1>2, <1>3 DEF PlainNext, OpStep

\* malloc starts with an object, and keeps it while it looks at the events; its
\* search starts when it has looked.
LEMMA SearchStarts ==
  ASSUME TypeOK, PlainNext \/ Undefined
  PROVE  /\ op'.pc = "process_events" =>
              \/ op.pc = "process_events" /\ op'.object = op.object
              \/ op'.object \in QueueObject
         /\ op.pc = "process_events" /\ op'.pc = "find_free_block" =>
              op'.owner = PrivatePool(op.object)
<1>0. op \in Op /\ Idle.pc = "idle"
  BY DEF TypeOK, Idle
<1>1. CASE op' = op
  BY <1>1
<1>2. ASSUME NEW c \in CallSite, NEW n \in ASize, Malloc(c[1], c[2], c[3], n)
      PROVE  op'.pc = "process_events" /\ op'.object \in QueueObject
  <2>1. c[2] \in QueueObject
    BY TopologyAssumption
  <2> QED
    BY <1>2, <2>1 DEF Malloc, Idle
<1>3. CASE ProcessEventsEnd
  <2>1. CASE Return
    BY <1>0, <2>1 DEF Return
  <2>2. CASE op' = [op EXCEPT !.pc = "find_free_block", !.owner = PrivatePool(op.object)]
    BY <1>0, <2>2 DEF Op
  <2> QED
    BY <1>3, <2>1, <2>2 DEF ProcessEventsEnd
<1>4. CASE FindNothing \/ AllocFails \/ FreeCachedBlocks
  <2>1. op'.pc \in {"malloc", "synchronize", "retry"}
    BY <1>0, <1>4 DEF FindNothing, AllocFails, FreeCachedBlocks, Goto, Op
  <2> QED
    BY <2>1
<1>5. CASE FindFreeBlock \/ AllocSegment
  <2>1. op'.pc = "split"
    BY <1>0, <1>5 DEF FindFreeBlock, AllocSegment, Op
  <2> QED
    BY <2>1
<1>6. CASE SynchronizeEnd
  <2>1. op'.pc \in {"free_cached_blocks", "empty_free"}
    BY <1>0, <1>6 DEF SynchronizeEnd, Goto, Op
  <2> QED
    BY <2>1
<1>7. CASE OutOfMemory \/ Split \/ EmptyCacheEnd
  <2>1. op'.pc = "idle"
    BY <1>0, <1>7 DEF OutOfMemory, Split, EmptyCacheEnd, Return
  <2> QED
    BY <2>1
<1>8. CASE InsertEvent
  <2>1. op'.pc \in {"idle", "insert_events"}
    BY <1>0, <1>8 DEF InsertEvent, Op, At
  <2> QED
    BY <2>1
<1>9. ASSUME NEW a \in DOMAIN allocated_blocks, FreeUsed(a)
      PROVE  op'.pc = "insert_events"
  BY <1>9 DEF FreeUsed, Idle
<1>10. EmptyCache => op'.pc = "empty_synchronize"
  BY DEF EmptyCache, Idle
<1>11. CASE ProcessEvent \/ SynchronizeEvent \/ FreeSegment \/ EventComplete \/ Undefined
  <2>1. op' = op
    BY <1>11 DEF ProcessEvent, SynchronizeEvent, FreeSegment, EventComplete, Undefined, vars
  <2> QED
    BY <1>1, <2>1
<1>12. ASSUME NEW a \in DOMAIN allocated_blocks, Free(a) \/ \E q \in Queue : RecordQueue(a, q)
       PROVE  op' = op
  BY <1>12 DEF Free, RecordQueue
<1>13. CASE Call
  <2>1. CASE EmptyCache
    BY <1>10, <2>1
  <2>2. ASSUME NEW c \in CallSite, NEW n \in ASize, Malloc(c[1], c[2], c[3], n)
        PROVE  op'.pc = "process_events" /\ op'.object \in QueueObject
    BY <1>2, <2>2
  <2>3. ASSUME NEW a \in DOMAIN allocated_blocks, FreeUsed(a) PROVE op'.pc = "insert_events"
    BY <1>9, <2>3
  <2> QED
    BY <1>1, <1>12, <1>13, <2>1, <2>2, <2>3 DEF Call
<1> QED
  BY <1>3, <1>4, <1>5, <1>6, <1>7, <1>8, <1>11, <1>13 DEF PlainNext, OpStep, MallocStep

\* A graph that captures neither before nor after a step.
LEMMA FiltersKept ==
  ASSUME GraphTyped, Filters, NEW g \in Graph, NEW i \in Impl, graph' = [graph EXCEPT ![g] = i],
         ~Capturing(g), i.at \notin {"beginning", "recording", "ending"},
         UNCHANGED <<recordings_underway, op>>
  PROVE  Filters'
<1>1. graph'[g] = i /\ \A h \in Graph \ {g} : graph'[h] = graph[h]
  BY DEF GraphTyped
<1>2. /\ ~Capturing(g)' /\ \A h \in Graph \ {g} : Capturing(h)' <=> Capturing(h)
  BY <1>1 DEF Capturing
<1>3. \A k \in DOMAIN recordings_underway : \A h \in Graph : Recorder(h, k) => Recorder(h, k)'
  BY <1>1, <1>2 DEF Recorder
<1>4. \A k \in DOMAIN recordings_underway' : \E h \in Graph : Recorder(h, k)'
  BY <1>3 DEF Filters
<1>5. \A h \in Graph : Capturing(h)' => Recording(graph[h].mempool_id_)'
  BY <1>1, <1>2 DEF Filters, Recording
<1>6. \A x, y \in Graph : Capturing(x)' /\ Capturing(y)' /\ x # y =>
        /\ graph'[x].mempool_id_ # graph'[y].mempool_id_
        /\ graph'[x].recording_queue_ # graph'[y].recording_queue_
  BY <1>1, <1>2 DEF Filters
<1> QED
  BY <1>4, <1>5, <1>6 DEF Filters

\* A recording starts: the first of its pool, on an object of its own.
LEMMA BeginFilters ==
  ASSUME GraphInv, TypeOK, Filters, NEW g \in Graph, NEW o \in QueueObject, NEW m \in Mempool,
         BeginRecording(g, o, m), ~Recording(m)
  PROVE  Filters'
<1> DEFINE r == recordings_underway
           new == [pool |-> m, filter |-> NULL]
           i == [graph[g] EXCEPT !.mempool_id_ = m, !.at = "beginning"]
<1>1. /\ graph[g].at = "idle" /\ graph[g] \in Impl /\ graph \in [Graph -> Impl]
      /\ r \in Seq(Underway) /\ op' = op
  BY DEF BeginRecording, BeginSetup, BeginAllocateToPool, GraphInv, GraphTyped, TypeOK
<1>2. graph' = [graph EXCEPT ![g] = i] /\ recordings_underway' = Append(r, new)
  BY <1>1 DEF BeginRecording, BeginAllocateToPool, Impl
<1>3. /\ i.at = "beginning" /\ i.mempool_id_ = m
      /\ i.recording_queue_ = graph[g].recording_queue_
  BY <1>1 DEF Impl
<1>4. graph'[g] = i /\ \A h \in Graph \ {g} : graph'[h] = graph[h]
  BY <1>1, <1>2
<1> HIDE DEF i
<1>5. /\ Capturing(g)' /\ ~Capturing(g)
      /\ \A h \in Graph \ {g} : Capturing(h)' <=> Capturing(h)
  BY <1>1, <1>3, <1>4 DEF Capturing
<1>6. /\ DOMAIN r = 1 .. Len(r) /\ Len(r) \in Nat /\ DOMAIN r' = 1 .. Len(r) + 1
      /\ r'[Len(r) + 1] = new /\ \A k \in 1 .. Len(r) : r'[k] = r[k]
  BY <1>1, <1>2
<1>7. \A k \in DOMAIN r' : \E h \in Graph : Recorder(h, k)'
  <2> SUFFICES ASSUME NEW k \in DOMAIN r' PROVE \E h \in Graph : Recorder(h, k)'
    OBVIOUS
  <2>1. CASE k = Len(r) + 1
    <3>1. Recorder(g, k)'
      BY <1>3, <1>4, <1>5, <1>6, <2>1 DEF Recorder
    <3> QED
      BY <3>1
  <2>2. CASE k # Len(r) + 1
    <3>1. k \in DOMAIN r /\ r'[k] = r[k]
      BY <1>6, <2>2
    <3>2. PICK h \in Graph : Recorder(h, k)
      BY <3>1 DEF Filters
    <3>3. h # g
      BY <1>5, <3>2 DEF Recorder
    <3>4. Recorder(h, k)'
      BY <1>4, <1>5, <3>1, <3>2, <3>3 DEF Recorder
    <3> QED
      BY <3>4
  <2> QED
    BY <2>1, <2>2
<1>8. \A h \in Graph : Capturing(h)' => Recording(graph[h].mempool_id_)'
  <2> SUFFICES ASSUME NEW h \in Graph, Capturing(h)' PROVE Recording(graph[h].mempool_id_)'
    OBVIOUS
  <2>1. CASE h = g
    <3>1. Len(r) + 1 \in DOMAIN r' /\ r'[Len(r) + 1].pool = graph'[h].mempool_id_
      BY <1>3, <1>4, <1>6, <2>1
    <3> QED
      BY <3>1 DEF Recording
  <2>2. CASE h # g
    <3>1. PICK k \in DOMAIN r : r[k].pool = graph[h].mempool_id_
      BY <1>5, <2>2 DEF Filters, Recording
    <3>2. k \in DOMAIN r' /\ r'[k].pool = graph'[h].mempool_id_
      BY <1>4, <1>6, <2>2, <3>1
    <3> QED
      BY <3>2 DEF Recording
  <2> QED
    BY <2>1, <2>2
<1>9. ASSUME NEW h \in Graph \ {g}, Capturing(h)
      PROVE  graph[h].mempool_id_ # m /\ graph[h].recording_queue_ # graph[g].recording_queue_
  BY <1>9 DEF Filters, BeginRecording, BeginSetup
<1>10. \A x, y \in Graph : Capturing(x)' /\ Capturing(y)' /\ x # y =>
         /\ graph'[x].mempool_id_ # graph'[y].mempool_id_
         /\ graph'[x].recording_queue_ # graph'[y].recording_queue_
  <2> SUFFICES ASSUME NEW x \in Graph, NEW y \in Graph, Capturing(x)', Capturing(y)', x # y
               PROVE  /\ graph'[x].mempool_id_ # graph'[y].mempool_id_
                      /\ graph'[x].recording_queue_ # graph'[y].recording_queue_
    OBVIOUS
  <2>1. CASE x = g
    BY <1>3, <1>4, <1>5, <1>9, <2>1
  <2>2. CASE y = g
    BY <1>3, <1>4, <1>5, <1>9, <2>2
  <2>3. CASE x # g /\ y # g
    BY <1>4, <1>5, <2>3 DEF Filters
  <2> QED
    BY <2>1, <2>2, <2>3
<1> QED
  BY <1>1, <1>7, <1>8, <1>10 DEF Filters

\* The queue enters or leaves the Recording state, and the filter with it.
LEMMA StateFilters ==
  ASSUME GraphInv, TypeOK, Filters, NEW g \in Graph, NEW o \in QueueObject,
         StartRecording(g) \/ StopRecording(g, o)
  PROVE  Filters'
<1> DEFINE r == recordings_underway
           m == graph[g].mempool_id_
<1>1. PICK place \in {"recording", "ending"} :
        /\ graph' = [graph EXCEPT ![g] = [graph[g] EXCEPT !.at = place]]
        /\ FilterChanges(m, IF place = "recording" THEN graph[g].recording_queue_ ELSE NULL)
  BY DEF StartRecording, StopRecording
<1> DEFINE f == IF place = "recording" THEN graph[g].recording_queue_ ELSE NULL
<1>2. Capturing(g) /\ graph \in [Graph -> Impl] /\ graph[g] \in Impl /\ r \in Seq(Underway)
  BY DEF StartRecording, StopRecording, Capturing, GraphInv, GraphTyped, TypeOK
<1>3. /\ op' = op /\ DOMAIN r' = DOMAIN r
      /\ \A k \in DOMAIN r : r'[k] = IF r[k].pool = m THEN [pool |-> m, filter |-> f] ELSE r[k]
  BY <1>1 DEF FilterChanges
<1>4. \A k \in DOMAIN r : r'[k].pool = r[k].pool
  BY <1>3
<1>5. /\ \A h \in Graph \ {g} : graph'[h] = graph[h]
      /\ graph'[g].at = place /\ graph'[g].mempool_id_ = m
      /\ graph'[g].recording_queue_ = graph[g].recording_queue_
  BY <1>1, <1>2 DEF Impl
<1>6. \A h \in Graph : /\ Capturing(h)' <=> Capturing(h)
                       /\ graph'[h].mempool_id_ = graph[h].mempool_id_
                       /\ graph'[h].recording_queue_ = graph[h].recording_queue_
  BY <1>2, <1>5 DEF Capturing
<1>7. \A k \in DOMAIN r' : \E h \in Graph : Recorder(h, k)'
  <2> SUFFICES ASSUME NEW k \in DOMAIN r PROVE \E h \in Graph : Recorder(h, k)'
    BY <1>3
  <2>1. CASE r[k].pool = m
    <3>1. r'[k].pool = m /\ r'[k].filter = f
      BY <1>3, <2>1
    <3>2. Recorder(g, k)'
      BY <1>2, <1>5, <1>6, <3>1 DEF Recorder
    <3> QED
      BY <3>2
  <2>2. CASE r[k].pool # m
    <3>1. PICK h \in Graph : Recorder(h, k)
      BY DEF Filters
    <3>2. h # g /\ r'[k] = r[k]
      BY <1>3, <2>2, <3>1 DEF Recorder
    <3>3. Recorder(h, k)'
      BY <1>5, <1>6, <3>1, <3>2 DEF Recorder
    <3> QED
      BY <3>3
  <2> QED
    BY <2>1, <2>2
<1>8. \A h \in Graph : Capturing(h)' => Recording(graph[h].mempool_id_)'
  <2>1. \A p : Recording(p) => \E k \in DOMAIN r' : r'[k].pool = p
    BY <1>3, <1>4 DEF Recording
  <2> QED
    BY <1>6, <2>1 DEF Filters, Recording
<1>9. \A x, y \in Graph : Capturing(x)' /\ Capturing(y)' /\ x # y =>
        /\ graph'[x].mempool_id_ # graph'[y].mempool_id_
        /\ graph'[x].recording_queue_ # graph'[y].recording_queue_
  BY <1>6 DEF Filters
<1> QED
  BY <1>3, <1>7, <1>8, <1>9 DEF Filters

\* A recording ends: its entry, and no other, is removed.
LEMMA EndFilters ==
  ASSUME GraphInv, TypeOK, GraphPoolsReferenced, Filters, NEW g \in Graph,
         NEW outcome \in Outcome, EndRecording(g, outcome)
  PROVE  Filters'
<1> DEFINE r == recordings_underway
           m == graph[g].mempool_id_
<1>1. PICK n \in DOMAIN r : r[n].pool = m /\ r' = Without(r, n)
  BY DEF EndRecording, EndAllocateToPool
<1>2. /\ Capturing(g) /\ graph \in [Graph -> Impl] /\ r \in Seq(Underway) /\ op' = op
      /\ \A j, k \in DOMAIN r : r[j].pool = r[k].pool => j = k
  BY DEF EndRecording, EndAllocateToPool, Capturing, GraphInv, GraphTyped, TypeOK,
         GraphPoolsReferenced
<1>3. graph'[g].at = "idle" /\ \A h \in Graph \ {g} : graph'[h] = graph[h]
  BY <1>2 DEF EndRecording, Impl
<1>4. /\ ~Capturing(g)' /\ \A h \in Graph \ {g} : Capturing(h)' <=> Capturing(h)
  BY <1>3 DEF Capturing
<1>5. /\ Len(r) \in Nat /\ DOMAIN r = 1 .. Len(r) /\ DOMAIN r' = 1 .. Len(r) - 1
      /\ \A k \in DOMAIN r' : r'[k] = r[IF k < n THEN k ELSE k + 1]
  BY <1>1, <1>2 DEF Without
<1>6. ASSUME NEW k \in DOMAIN r' PROVE \E j \in DOMAIN r : j # n /\ r'[k] = r[j]
  <2>1. CASE k < n
    BY <1>5, <2>1
  <2>2. CASE ~(k < n)
    <3>1. k + 1 \in DOMAIN r /\ k + 1 # n /\ r'[k] = r[k + 1]
      BY <1>5, <2>2
    <3> QED
      BY <3>1
  <2> QED
    BY <2>1, <2>2
<1>7. ASSUME NEW j \in DOMAIN r, j # n PROVE \E k \in DOMAIN r' : r'[k] = r[j]
  <2>1. CASE j < n
    <3>1. j \in DOMAIN r' /\ r'[j] = r[j]
      BY <1>5, <2>1
    <3> QED
      BY <3>1
  <2>2. CASE j > n
    <3>1. j - 1 \in DOMAIN r' /\ ~(j - 1 < n) /\ (j - 1) + 1 = j
      BY <1>5, <2>2
    <3>2. r'[j - 1] = r[j]
      BY <1>5, <3>1
    <3> QED
      BY <3>1, <3>2
  <2> QED
    BY <1>5, <1>7, <2>1, <2>2
<1>8. \A k \in DOMAIN r' : \E h \in Graph : Recorder(h, k)'
  <2> SUFFICES ASSUME NEW k \in DOMAIN r' PROVE \E h \in Graph : Recorder(h, k)'
    OBVIOUS
  <2>1. PICK j \in DOMAIN r : j # n /\ r'[k] = r[j]
    BY <1>6
  <2>2. PICK h \in Graph : Recorder(h, j)
    BY DEF Filters
  <2>3. h # g
    BY <1>1, <1>2, <2>1, <2>2 DEF Recorder
  <2>4. Recorder(h, k)'
    BY <1>3, <1>4, <2>1, <2>2, <2>3 DEF Recorder
  <2> QED
    BY <2>4
<1>9. \A h \in Graph : Capturing(h)' => Recording(graph[h].mempool_id_)'
  <2> SUFFICES ASSUME NEW h \in Graph, Capturing(h)' PROVE Recording(graph[h].mempool_id_)'
    OBVIOUS
  <2>1. h # g /\ Capturing(h) /\ graph'[h] = graph[h]
    BY <1>3, <1>4
  <2>2. PICK j \in DOMAIN r : r[j].pool = graph[h].mempool_id_
    BY <2>1 DEF Filters, Recording
  <2>3. j # n
    BY <1>1, <1>2, <2>1, <2>2 DEF Filters
  <2>4. PICK k \in DOMAIN r' : r'[k] = r[j]
    BY <1>7, <2>3
  <2> QED
    BY <2>1, <2>2, <2>4 DEF Recording
<1>10. \A x, y \in Graph : Capturing(x)' /\ Capturing(y)' /\ x # y =>
         /\ graph'[x].mempool_id_ # graph'[y].mempool_id_
         /\ graph'[x].recording_queue_ # graph'[y].recording_queue_
  BY <1>3, <1>4 DEF Filters
<1> QED
  BY <1>2, <1>8, <1>9, <1>10 DEF Filters

\* Every step keeps the filters and the recordings in step with the graphs.
LEMMA FiltersStep ==
  ASSUME GraphInv, IInv, Filters, [GraphNext]_graphSpecVars
  PROVE  Filters'
<1>0. TypeOK /\ GraphTyped /\ GraphPoolsReferenced
  BY DEF IInv, GraphInv
<1>1. ASSUME UNCHANGED <<graph, recordings_underway>>,
             op'.pc = "process_events" => op'.object \in QueueObject
      PROVE  Filters'
  BY <1>1 DEF Filters, Recorder, Capturing, Recording
<1>2. CASE UNCHANGED graphSpecVars \/ enable_debug_mode
  <2>1. UNCHANGED <<graph, recordings_underway, op>>
    BY <1>2 DEF graphSpecVars, vars, ownVars, enable_debug_mode
  <2> QED
    BY <1>1, <2>1 DEF Filters
<1>3. CASE AllocatorStep
  <2>1. PlainNext \/ Undefined
    BY <1>0, <1>3, AllocatorSteps
  <2>2. UNCHANGED <<graph, recordings_underway>>
    BY <1>3, <2>1, RecordingsKept DEF AllocatorStep, ownVars
  <2>3. op'.pc = "process_events" => op'.object \in QueueObject
    BY <1>0, <2>1, SearchStarts DEF Filters
  <2> QED
    BY <1>1, <2>2, <2>3
<1>4. ASSUME NEW g \in Graph, NEW o \in QueueObject, Construct(g, o) PROVE Filters'
  <2> DEFINE i == [Gone EXCEPT !.at = "idle", !.recording_queue_ = o]
  <2>1. i \in Impl /\ i.at = "idle"
    BY DEF Impl, Gone
  <2>2. /\ graph' = [graph EXCEPT ![g] = i] /\ UNCHANGED <<recordings_underway, op>>
        /\ ~Capturing(g)
    BY <1>4 DEF Construct, vars, Capturing
  <2> HIDE DEF i
  <2> QED
    BY <1>0, <2>1, <2>2, FiltersKept
<1>5. ASSUME NEW g \in Graph, NEW o \in QueueObject, NEW m \in Mempool,
             BeginRecording(g, o, m) \/ BeginRefused(g, o, m)
      PROVE  Filters'
  <2>1. CASE BeginRecording(g, o, m) /\ ~Recording(m)
    BY <1>0, <2>1, BeginFilters
  <2>2. CASE BeginRefused(g, o, m) \/ (BeginRecording(g, o, m) /\ Recording(m))
    <3> DEFINE i == [graph[g] EXCEPT !.mempool_id_ = m, !.at = "idle"]
    <3>1. graph[g] \in Impl /\ graph[g].at = "idle" /\ ~Capturing(g)
      BY <1>0, <2>2 DEF BeginRefused, BeginRecording, BeginSetup, GraphTyped, Capturing
    <3>2. i \in Impl /\ i.at = "idle"
      BY <3>1 DEF Impl
    <3>3. graph' = [graph EXCEPT ![g] = i]
      <4>1. [graph[g] EXCEPT !.mempool_id_ = m] = i
        BY <3>1 DEF Impl
      <4> QED
        BY <1>0, <2>2, <4>1 DEF BeginRefused, BeginRecording, GraphTyped
    <3>4. UNCHANGED <<recordings_underway, op>>
      BY <2>2 DEF BeginRefused, BeginRecording, BeginAllocateToPool, vars
    <3> HIDE DEF i
    <3> QED
      BY <1>0, <3>1, <3>2, <3>3, <3>4, FiltersKept
  <2> QED
    BY <1>5, <2>1, <2>2
<1>6. ASSUME NEW g \in Graph, NEW o \in QueueObject, StartRecording(g) \/ StopRecording(g, o)
      PROVE  Filters'
  BY <1>0, <1>6, StateFilters
<1>7. ASSUME NEW g \in Graph, StartRecording(g) PROVE Filters'
  <2>1. graph[g].recording_queue_ \in QueueObject
    BY <1>0, <1>7 DEF StartRecording, GraphTyped
  <2> QED
    BY <1>6, <1>7, <2>1
<1>8. ASSUME NEW g \in Graph, NEW outcome \in Outcome, EndRecording(g, outcome) PROVE Filters'
  BY <1>0, <1>8, EndFilters
<1>9. ASSUME NEW g \in Graph, NEW at \in {"idle", "gone"}, reset(g, at) PROVE Filters'
  <2> DEFINE i == IF at = "gone" THEN Gone
                  ELSE [graph[g] EXCEPT !.has_graph_ = FALSE, !.has_graph_exec_ = FALSE]
  <2>1. graph[g] \in Impl /\ graph[g].at = "idle" /\ ~Capturing(g)
    BY <1>0, <1>9 DEF reset, GraphTyped, Capturing
  <2>2. i \in Impl /\ i.at \in {"idle", "gone"}
    BY <2>1 DEF Impl, Gone
  <2>3. graph' = [graph EXCEPT ![g] = i]
    BY <1>9 DEF reset
  <2>4. UNCHANGED <<recordings_underway, op>>
    BY <1>9 DEF reset, releasePool, vars
  <2> HIDE DEF i
  <2> QED
    BY <1>0, <2>1, <2>2, <2>3, <2>4, FiltersKept
<1> QED
  BY <1>2, <1>3, <1>4, <1>5, <1>6, <1>7, <1>8, <1>9 DEF GraphNext, GraphStep

\* What malloc finds for an object: the pool of the graph that records on it.
LEMMA PoolOfObject ==
  ASSUME GraphInv, IInv, Filters, NEW o \in QueueObject
  PROVE  LET capturing == {g \in Graph : /\ graph[g].at = "recording"
                                         /\ graph[g].recording_queue_ = o}
         IN  IF capturing = {} THEN PrivatePool(o) = NULL
             ELSE \E g \in capturing : PrivatePool(o) = graph[g].mempool_id_
<1> DEFINE capturing == {g \in Graph : /\ graph[g].at = "recording"
                                       /\ graph[g].recording_queue_ = o}
           r == recordings_underway
           matching == {i \in DOMAIN r : r[i].filter = o}
           last == {i \in matching : \A j \in matching : j <= i}
<1>1. PrivatePool(o) = IF last = {} THEN NULL ELSE r[CHOOSE i \in last : TRUE].pool
  BY DEF PrivatePool
<1>2. o # NULL
  BY NullAssumption
<1>3. ASSUME NEW i \in matching
      PROVE  \E g \in capturing : r[i].pool = graph[g].mempool_id_
  <2>1. PICK g \in Graph : Recorder(g, i)
    BY DEF Filters
  <2>2. g \in capturing /\ r[i].pool = graph[g].mempool_id_
    BY <1>2, <2>1 DEF Recorder
  <2> QED
    BY <2>2
<1>4. CASE capturing = {}
  <2>1. last = {}
    BY <1>3, <1>4
  <2> QED
    BY <1>1, <1>4, <2>1
<1>5. CASE capturing # {}
  <2>1. PICK g \in capturing : TRUE
    BY <1>5
  <2>2. Capturing(g) /\ g \in Graph
    BY DEF Capturing
  <2>3. PICK i \in DOMAIN r : r[i].pool = graph[g].mempool_id_
    BY <2>2 DEF Filters, Recording
  <2>4. i \in matching
    <3>1. PICK h \in Graph : Recorder(h, i)
      BY DEF Filters
    <3>2. h = g
      BY <2>2, <2>3, <3>1 DEF Filters, Recorder
    <3> QED
      BY <2>1, <3>1, <3>2 DEF Recorder
  <2>5. ASSUME NEW j \in matching PROVE j = i
    <3>1. PICK h \in capturing : r[j].pool = graph[h].mempool_id_
      BY <1>3
    <3>2. h = g
      BY <2>1, <2>2, <3>1 DEF Filters, Capturing
    <3> QED
      BY <2>3, <3>1, <3>2 DEF IInv, GraphPoolsReferenced
  <2>6. i <= i
    BY DEF IInv, TypeOK
  <2>7. last = {i}
    BY <2>4, <2>5, <2>6
  <2>8. (CHOOSE k \in last : TRUE) = i
    BY <2>7
  <2>9. PrivatePool(o) = graph[g].mempool_id_
    BY <1>1, <2>3, <2>7, <2>8
  <2> QED
    BY <1>5, <2>1, <2>9
<1> QED
  BY <1>4, <1>5

\* malloc serves an object from a private pool exactly while a graph records on
\* that object, and from that graph's pool, for any graphs, objects and pools
\* and however recordings begin and end around it.
THEOREM ObjectCaptured == GraphSpec => CapturedByObject
<1> DEFINE Step == op.pc = "process_events" /\ op'.pc = "find_free_block" =>
             LET capturing == {g \in Graph : /\ graph[g].at = "recording"
                                             /\ graph[g].recording_queue_ = op.object}
             IN  IF capturing = {} THEN op'.owner = NULL
                 ELSE \E g \in capturing : op'.owner = graph[g].mempool_id_
<1>1. GraphInit => Filters
  <2> SUFFICES ASSUME GraphInit PROVE Filters
    OBVIOUS
  <2>1. DOMAIN recordings_underway = {} /\ op.pc = "idle"
    BY DEF GraphInit, Init, Idle
  <2>2. \A g \in Graph : ~Capturing(g)
    BY DEF GraphInit, Gone, Capturing
  <2> QED
    BY <2>1, <2>2 DEF Filters
<1>2. GraphInv /\ IInv /\ Filters /\ [GraphNext]_graphSpecVars => Filters'
  BY FiltersStep
<1>3. ASSUME GraphInv, IInv, Filters, [GraphNext]_graphSpecVars PROVE [Step]_graphSpecVars
  <2> SUFFICES ASSUME GraphNext, op.pc = "process_events", op'.pc = "find_free_block"
               PROVE  Step
    BY <1>3
  <2>1. AllocatorStep
    <3>1. op' # op
      OBVIOUS
    <3>2. GraphStep => op' = op
      BY DEF GraphStep, Construct, BeginRecording, BeginAllocateToPool, BeginRefused,
             StopRecording, StartRecording, FilterChanges, EndRecording, EndAllocateToPool,
             reset, releasePool, enable_debug_mode, vars
    <3> QED
      BY <3>1, <3>2 DEF GraphNext
  <2>2. op'.owner = PrivatePool(op.object)
    BY <1>3, <2>1, AllocatorSteps, SearchStarts DEF IInv, GraphInv
  <2>3. op.object \in QueueObject
    BY <1>3 DEF Filters
  <2> QED
    BY <1>3, <2>2, <2>3, PoolOfObject
<1> QED
  BY <1>1, <1>2, <1>3, GraphsInvariant, PTL DEF GraphSpec, CapturedByObject
=============================================================================
