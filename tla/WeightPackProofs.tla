-------------------------- MODULE WeightPackProofs --------------------------
(* The cache of packed weights, for any threads and layers: it uses the     *)
(* lock as ReadWriteMutex specifies, leaves no half entry behind, and is    *)
(* used once it is filled.  CachedTogether is not inductive: what keeps it  *)
(* is that a half entry has a thread that will store the other half         *)
(* (Pairing), and that a thread holds or awaits the lock only in the steps  *)
(* that are under it (InStep).                                              *)
EXTENDS WeightPack, ReadWriteMutexProofs

\* Where a thread is in the lock fits where it is in the call.
InStep ==
  \A t \in Thread :
    /\ at[t] \in {"wait_read", "woken_read", "reading"} => step[t] \in {"read_ih", "read_hh"}
    /\ at[t] \in {"wait_write", "woken_write", "writing"} => step[t] \in {"write_ih", "write_hh"}

\* The first weight is stored before the second, and while only it is there,
\* a thread is about to store the second.
Pairing ==
  \A l \in Lstm :
    /\ cached_weights[<<l, "hh">>] # Empty => cached_weights[<<l, "ih">>] # Empty
    /\ cached_weights[<<l, "ih">>] # Empty /\ cached_weights[<<l, "hh">>] = Empty =>
         \E t \in Thread : layer[t] = l /\ step[t] = "write_hh"

\* A thread at its second store has made the first.
FirstStored ==
  \A t \in Thread : step[t] = "write_hh" => cached_weights[<<layer[t], "ih">>] # Empty

CacheInv == TypeOK /\ InStep /\ Pairing /\ FirstStored

\* Steps of the cache are steps of the lock, or leave it alone.
LEMMA LockStep == [Next]_vars => [LockNext]_lockVars
<1> SUFFICES ASSUME [Next]_vars PROVE [LockNext]_lockVars
  OBVIOUS
<1>1. CASE UNCHANGED vars
  BY <1>1 DEF vars
<1>2. ASSUME NEW t \in Thread,
             Continue(t) \/ WokenSpuriously(t) \/ \E l \in Lstm : lstm_packed_weight(t, l)
      PROVE  [LockNext]_lockVars
  <2>1. CASE LockForRead(t) \/ LockForWrite(t) \/ Woken(t) \/ WokenSpuriously(t)
    BY <2>1 DEF LockForRead, LockForWrite, Woken, WokenSpuriously, LockNext
  <2>2. CASE read_cached_weights(t) \/ write_cached_weights(t)
    BY <2>2 DEF read_cached_weights, write_cached_weights, LockNext, Unlock
  <2>3. CASE CheckFails(t) \/ ReturnWeights(t) \/ Pack(t) \/ Caught(t)
    BY <2>3 DEF CheckFails, ReturnWeights, Pack, Caught
  <2>4. CASE \E l \in Lstm : lstm_packed_weight(t, l)
    BY <2>4 DEF lstm_packed_weight
  <2> QED
    BY <1>2, <2>1, <2>2, <2>3, <2>4 DEF Continue
<1> QED
  BY <1>1, <1>2 DEF Next

\* The threads of the cache use its lock as ReadWriteMutex specifies, so what
\* is proved of the lock holds here.
THEOREM UsesLock == Spec => LockSpec
<1>1. Init => LockInit
  BY DEF Init
<1> QED
  BY <1>1, LockStep, PTL DEF Spec, LockSpec

\* A thread that stores a weight of the cache is alone in the lock: no other
\* thread stores or looks up at the same time.
THEOREM StoresAlone == Spec => []MutualExclusion
  BY UsesLock, WritersAlone, PTL

\* Initially nothing is cached and nobody is in a call.
LEMMA InitCache == Init => CacheInv
<1> SUFFICES ASSUME Init PROVE CacheInv
  OBVIOUS
<1>1. TypeOK
  <2>1. LockTypeOK
    BY InitIInv DEF Init, IInv
  <2>2. \A t \in Thread : layer[t] \in Lstm
    BY LayersAssumption DEF Init
  <2> QED
    BY <2>1, <2>2 DEF Init, TypeOK, Step
<1>2. InStep
  BY DEF Init, LockInit, InStep
<1>3. Pairing /\ FirstStored
  BY DEF Init, Pairing, FirstStored, Key, Weight
<1> QED
  BY <1>1, <1>2, <1>3 DEF CacheInv

\* Steps of the lock that are no part of a lookup or a store: a thread enters,
\* waits or wakes up.
LEMMA LockOnly ==
  ASSUME CacheInv, LockTypeOK', NEW t \in Thread,
         LockForRead(t) \/ LockForWrite(t) \/ Woken(t) \/ WokenSpuriously(t)
  PROVE  CacheInv'
<1>1. UNCHANGED <<cached_weights, step, layer, found, warm>>
  BY DEF LockForRead, LockForWrite, Woken, WokenSpuriously
<1>2. TypeOK'
  BY <1>1 DEF CacheInv, TypeOK
<1>3. Pairing' /\ FirstStored'
  BY <1>1 DEF CacheInv, Pairing, FirstStored
<1>4. InStep'
  <2> USE DEF CacheInv, TypeOK, LockTypeOK, InStep
  <2>1. CASE LockForRead(t)
    BY <1>1, <2>1 DEF LockForRead, lock_read, TryRead
  <2>2. CASE LockForWrite(t)
    BY <1>1, <2>2 DEF LockForWrite, lock_write, TryWrite
  <2>3. CASE Woken(t)
    BY <1>1, <2>3 DEF Woken, Wake, WakeRead, WakeWrite, TryRead, TryWrite
  <2>4. CASE WokenSpuriously(t)
    BY <1>1, <2>4 DEF WokenSpuriously, Spurious
  <2> QED
    BY <2>1, <2>2, <2>3, <2>4
<1> QED
  BY <1>2, <1>3, <1>4 DEF CacheInv

\* Steps outside the lock: a call, the check of what was found, the packing.
LEMMA OutsideLock ==
  ASSUME CacheInv, NEW t \in Thread,
         \/ CheckFails(t) \/ ReturnWeights(t) \/ Pack(t) \/ Caught(t)
         \/ \E l \in Lstm : lstm_packed_weight(t, l)
  PROVE  CacheInv'
<1>1. UNCHANGED <<lockVars, cached_weights>>
  BY DEF CheckFails, ReturnWeights, Pack, Caught, lstm_packed_weight
<1>2. PICK s \in Step : Goto(t, s) /\ s # "write_hh"
  BY DEF CheckFails, ReturnWeights, Pack, Caught, lstm_packed_weight, Step
<1>3. step[t] \in {"idle", "check", "thrown"}
  BY DEF CheckFails, ReturnWeights, Pack, Caught, lstm_packed_weight
<1>4. /\ layer' \in [Thread -> Lstm]
      /\ \A u \in Thread \ {t} : layer'[u] = layer[u] /\ step'[u] = step[u]
  BY <1>2 DEF CheckFails, ReturnWeights, Pack, Caught, lstm_packed_weight, CacheInv, TypeOK, Goto
<1>5. step'[t] = s /\ step' \in [Thread -> Step]
  BY <1>2 DEF CacheInv, TypeOK, Goto
<1>6. TypeOK'
  <2>1. found' \in [Thread -> [Weight -> Thread \cup {Empty}]]
    BY DEF CheckFails, ReturnWeights, Pack, Caught, lstm_packed_weight, CacheInv, TypeOK
  <2>2. LockTypeOK'
    BY <1>1 DEF CacheInv, TypeOK, LockTypeOK, lockVars
  <2>3. warm' \subseteq Thread
    BY DEF CheckFails, ReturnWeights, Pack, Caught, lstm_packed_weight, CacheInv, TypeOK
  <2> QED
    BY <1>1, <1>4, <1>5, <2>1, <2>2, <2>3 DEF CacheInv, TypeOK
<1>7. InStep'
  BY <1>1, <1>3, <1>4, <1>5 DEF CacheInv, InStep, lockVars
<1>8. Pairing'
  <2> SUFFICES ASSUME NEW m \in Lstm, cached_weights[<<m, "ih">>] # Empty,
                      cached_weights[<<m, "hh">>] = Empty
               PROVE  \E u \in Thread : layer'[u] = m /\ step'[u] = "write_hh"
    BY <1>1 DEF CacheInv, Pairing
  <2>1. PICK u \in Thread : layer[u] = m /\ step[u] = "write_hh"
    BY DEF CacheInv, Pairing
  <2> QED
    BY <1>3, <1>4, <2>1
<1>9. FirstStored'
  BY <1>1, <1>2, <1>4, <1>5 DEF CacheInv, FirstStored
<1> QED
  BY <1>6, <1>7, <1>8, <1>9 DEF CacheInv

\* A lookup, which ends with unlock_read.
LEMMA Lookup ==
  ASSUME CacheInv, LockTypeOK', NEW t \in Thread, read_cached_weights(t)
  PROVE  CacheInv'
<1>1. at[t] = "reading" /\ step[t] \in {"read_ih", "read_hh"}
  BY DEF read_cached_weights, unlock_read, CacheInv, InStep
<1>2. UNCHANGED <<cached_weights, layer, warm>>
  BY DEF read_cached_weights
<1>3. /\ step' \in [Thread -> Step] /\ step'[t] \in {"read_hh", "check"}
      /\ \A u \in Thread \ {t} : step'[u] = step[u]
  BY DEF read_cached_weights, Goto, CacheInv, TypeOK, Step
<1>4. TypeOK'
  <2>1. found' \in [Thread -> [Weight -> Thread \cup {Empty}]]
    BY LayersAssumption DEF read_cached_weights, CacheInv, TypeOK, Weight, Key
  <2> QED
    BY <1>2, <1>3, <2>1 DEF CacheInv, TypeOK
<1>5. InStep'
  <2>1. /\ at'[t] = "out"
        /\ \A u \in Thread \ {t} :
             at'[u] = at[u] \/ (at[u] = "wait_write" /\ at'[u] = "woken_write")
    BY DEF read_cached_weights, unlock_read, NotifyOneWriter, In, CacheInv, TypeOK, LockTypeOK
  <2> QED
    BY <1>3, <2>1 DEF CacheInv, InStep
<1>6. Pairing' /\ FirstStored'
  BY <1>1, <1>2, <1>3 DEF CacheInv, Pairing, FirstStored
<1> QED
  BY <1>4, <1>5, <1>6 DEF CacheInv

\* A store, which ends with unlock_write.
LEMMA Store ==
  ASSUME CacheInv, LockTypeOK', NEW t \in Thread, write_cached_weights(t)
  PROVE  CacheInv'
<1> DEFINE l == layer[t]
<1> USE DEF CacheInv
<1>1. at[t] = "writing" /\ step[t] \in {"write_ih", "write_hh"}
  BY DEF write_cached_weights, unlock_write, InStep
<1>2. l \in Lstm /\ UNCHANGED <<layer, found, warm>>
  BY DEF write_cached_weights, TypeOK
<1>3. /\ step' \in [Thread -> Step]
      /\ step'[t] = IF step[t] = "write_ih" THEN "write_hh" ELSE "idle"
      /\ \A u \in Thread \ {t} : step'[u] = step[u]
  BY DEF write_cached_weights, Goto, TypeOK, Step
<1>4. InStep'
  <2>1. /\ at'[t] = "out"
        /\ \A u \in Thread \ {t} :
             \/ at'[u] = at[u]
             \/ at[u] = "wait_write" /\ at'[u] = "woken_write"
             \/ at[u] = "wait_read" /\ at'[u] = "woken_read"
    BY DEF write_cached_weights, unlock_write, NotifyOneWriter, In, TypeOK, LockTypeOK
  <2> QED
    BY <1>3, <2>1 DEF InStep
<1>5. CASE step[t] = "write_ih"
  <2>1. cached_weights' = Emplaced(<<l, "ih">>, t)
    BY <1>5 DEF write_cached_weights
  <2>2. /\ cached_weights' \in [Key -> Thread \cup {Empty}]
        /\ cached_weights'[<<l, "ih">>] # Empty
        /\ \A k \in Key : k # <<l, "ih">> => cached_weights'[k] = cached_weights[k]
    BY <2>1, <1>2, LayersAssumption DEF Emplaced, TypeOK, Key, Weight
  <2>3. \A m \in Lstm :
          /\ cached_weights'[<<m, "hh">>] = cached_weights[<<m, "hh">>]
          /\ m # l => cached_weights'[<<m, "ih">>] = cached_weights[<<m, "ih">>]
    BY <2>2 DEF Key, Weight
  <2>4. TypeOK'
    BY <1>2, <1>3, <2>2 DEF TypeOK
  <2>5. Pairing'
    <3>1. \A m \in Lstm : cached_weights'[<<m, "hh">>] # Empty => cached_weights'[<<m, "ih">>] # Empty
      BY <2>2, <2>3 DEF Pairing
    <3>2. ASSUME NEW m \in Lstm, cached_weights'[<<m, "ih">>] # Empty,
                 cached_weights'[<<m, "hh">>] = Empty
          PROVE  \E u \in Thread : layer'[u] = m /\ step'[u] = "write_hh"
      <4>1. CASE m = l
        BY <1>2, <1>3, <1>5, <4>1
      <4>2. CASE m # l
        <5>1. PICK u \in Thread : layer[u] = m /\ step[u] = "write_hh"
          BY <2>3, <3>2, <4>2 DEF Pairing
        <5> QED
          BY <1>2, <1>3, <4>2, <5>1
      <4> QED
        BY <4>1, <4>2
    <3> QED
      BY <3>1, <3>2 DEF Pairing
  <2>6. FirstStored'
    BY <1>2, <1>3, <1>5, <2>2, <2>3 DEF FirstStored, TypeOK
  <2> QED
    BY <1>4, <2>4, <2>5, <2>6
<1>6. CASE step[t] = "write_hh"
  <2>1. cached_weights' = Emplaced(<<l, "hh">>, t)
    BY <1>6 DEF write_cached_weights
  <2>2. /\ cached_weights' \in [Key -> Thread \cup {Empty}]
        /\ cached_weights'[<<l, "hh">>] # Empty
        /\ \A k \in Key : k # <<l, "hh">> => cached_weights'[k] = cached_weights[k]
    BY <2>1, <1>2, LayersAssumption DEF Emplaced, TypeOK, Key, Weight
  <2>3. \A m \in Lstm :
          /\ cached_weights'[<<m, "ih">>] = cached_weights[<<m, "ih">>]
          /\ m # l => cached_weights'[<<m, "hh">>] = cached_weights[<<m, "hh">>]
    BY <2>2 DEF Key, Weight
  <2>4. TypeOK'
    BY <1>2, <1>3, <2>2 DEF TypeOK
  <2>5. Pairing'
    <3>1. \A m \in Lstm : cached_weights'[<<m, "hh">>] # Empty => cached_weights'[<<m, "ih">>] # Empty
      BY <1>6, <2>3 DEF Pairing, FirstStored
    <3>2. ASSUME NEW m \in Lstm, cached_weights'[<<m, "ih">>] # Empty,
                 cached_weights'[<<m, "hh">>] = Empty
          PROVE  \E u \in Thread : layer'[u] = m /\ step'[u] = "write_hh"
      <4>1. m # l
        BY <2>2, <3>2
      <4>2. PICK u \in Thread : layer[u] = m /\ step[u] = "write_hh"
        BY <2>3, <3>2, <4>1 DEF Pairing
      <4> QED
        BY <1>2, <1>3, <4>1, <4>2
    <3> QED
      BY <3>1, <3>2 DEF Pairing
  <2>6. FirstStored'
    BY <1>2, <1>3, <1>6, <2>3 DEF FirstStored, TypeOK
  <2> QED
    BY <1>4, <2>4, <2>5, <2>6
<1> QED
  BY <1>1, <1>5, <1>6

\* Every step keeps the invariant, in the states the lock can be in.
LEMMA NextCache == CacheInv /\ IInv' /\ [Next]_vars => CacheInv'
<1> SUFFICES ASSUME CacheInv, IInv', [Next]_vars PROVE CacheInv'
  OBVIOUS
<1>1. LockTypeOK'
  BY DEF IInv
<1>2. CASE UNCHANGED vars
  BY <1>1, <1>2 DEF vars, lockVars, CacheInv, TypeOK, LockTypeOK, InStep, Pairing, FirstStored
<1>3. ASSUME NEW t \in Thread,
             Continue(t) \/ WokenSpuriously(t) \/ \E l \in Lstm : lstm_packed_weight(t, l)
      PROVE  CacheInv'
  BY <1>1, <1>3, LockOnly, OutsideLock, Lookup, Store DEF Continue
<1> QED
  BY <1>2, <1>3 DEF Next

\* Half entries are being completed, in every reachable state.
THEOREM CacheInvariant == Spec => []CacheInv
  BY InitCache, NextCache, UsesLock, LockInvariant, PTL DEF Spec

\* While no thread is storing weights of a layer, both are cached or neither
\* is, for any number of threads and layers.
THEOREM NoHalfEntry == Spec => []CachedTogether
<1>1. CacheInv => CachedTogether
  BY DEF CacheInv, Pairing, CachedTogether
<1> QED
  BY <1>1, CacheInvariant, PTL

\* write_cached_weights never replaces or removes a packed weight.
LEMMA NeverReplaced ==
  ASSUME CacheInv, [Next]_vars, NEW k \in Key, cached_weights[k] # Empty
  PROVE  cached_weights'[k] = cached_weights[k]
<1>1. CASE UNCHANGED cached_weights
  BY <1>1
<1>2. ASSUME NEW t \in Thread, write_cached_weights(t)
      PROVE  cached_weights'[k] = cached_weights[k]
  BY <1>2 DEF write_cached_weights, Emplaced, CacheInv, TypeOK
<1>3. UNCHANGED cached_weights \/ \E t \in Thread : write_cached_weights(t)
  BY DEF vars, Next, Continue, LockForRead, LockForWrite, read_cached_weights, CheckFails,
         ReturnWeights, Pack, Caught, Woken, WokenSpuriously, lstm_packed_weight
<1> QED
  BY <1>1, <1>2, <1>3

\* A thread whose call began with both weights cached has found what it has
\* looked up so far, and will find the rest.
WarmThread(t) ==
  step[t] # "idle" =>
    /\ Cached(layer[t])
    /\ step[t] \in {"read_ih", "read_hh", "check"}
    /\ step[t] \in {"read_hh", "check"} => found[t]["ih"] # Empty
    /\ step[t] = "check" => found[t]["hh"] # Empty

WarmInv == \A t \in warm : WarmThread(t)

\* A thread's own steps keep it so.
LEMMA OwnStep ==
  ASSUME CacheInv, NEW t \in Thread, t \in warm => WarmThread(t),
         Continue(t) \/ WokenSpuriously(t) \/ \E l \in Lstm : lstm_packed_weight(t, l),
         t \in warm', step'[t] # "idle" => Cached(layer[t])'
  PROVE  WarmThread(t)'
<1> USE DEF CacheInv, TypeOK
<1>1. CASE LockForRead(t) \/ LockForWrite(t) \/ Woken(t) \/ WokenSpuriously(t)
  BY <1>1 DEF LockForRead, LockForWrite, Woken, WokenSpuriously, WarmThread, Cached
<1>2. CASE read_cached_weights(t)
  <2>1. t \in warm /\ layer[t] \in Lstm /\ UNCHANGED <<cached_weights, layer>>
    BY <1>2 DEF read_cached_weights
  <2>2. at[t] = "reading" /\ step[t] \in {"read_ih", "read_hh"}
    BY <1>2 DEF read_cached_weights, unlock_read, InStep
  <2>3. Cached(layer[t])
    BY <2>1, <2>2 DEF WarmThread
  <2>4. CASE step[t] = "read_ih"
    BY <1>2, <2>1, <2>3, <2>4 DEF read_cached_weights, WarmThread, Cached, Weight, Goto
  <2>5. CASE step[t] = "read_hh"
    BY <1>2, <2>1, <2>3, <2>5 DEF read_cached_weights, WarmThread, Cached, Weight, Goto
  <2> QED
    BY <2>2, <2>4, <2>5
<1>3. CASE CheckFails(t) \/ Pack(t)
  BY <1>3 DEF CheckFails, Pack, WarmThread, Weight
<1>4. CASE ReturnWeights(t) \/ Caught(t)
  BY <1>4 DEF ReturnWeights, Caught, WarmThread, Goto
<1>5. CASE write_cached_weights(t)
  BY <1>5 DEF write_cached_weights, unlock_write, InStep, WarmThread
<1>6. ASSUME NEW l \in Lstm, lstm_packed_weight(t, l) PROVE WarmThread(t)'
  BY <1>6 DEF lstm_packed_weight, WarmThread, Goto
<1> QED
  BY <1>1, <1>2, <1>3, <1>4, <1>5, <1>6 DEF Continue

\* What is cached stays cached, so the steps of other threads change nothing.
LEMMA NextWarm == CacheInv /\ CacheInv' /\ WarmInv /\ [Next]_vars => WarmInv'
<1> SUFFICES ASSUME CacheInv, CacheInv', WarmInv, [Next]_vars, NEW u \in warm'
             PROVE  WarmThread(u)'
  BY DEF WarmInv
<1>1. \A l \in Lstm : Cached(l) => Cached(l)'
  <2> SUFFICES ASSUME NEW l \in Lstm, Cached(l), NEW w \in Weight
               PROVE  cached_weights'[<<l, w>>] # Empty
    BY DEF Cached
  <2>1. <<l, w>> \in Key /\ cached_weights[<<l, w>>] # Empty
    BY DEF Key, Cached
  <2> QED
    BY <2>1, NeverReplaced
<1>2. CASE UNCHANGED vars
  BY <1>2 DEF vars, WarmInv, WarmThread, Cached
<1>3. ASSUME NEW t \in Thread,
             Continue(t) \/ WokenSpuriously(t) \/ \E l \in Lstm : lstm_packed_weight(t, l)
      PROVE  WarmThread(u)'
  <2>1. u \in Thread /\ layer[u] \in Lstm
    BY DEF CacheInv, TypeOK
  <2>2. CASE u # t
    <3>1. u \in warm /\ step'[u] = step[u] /\ layer'[u] = layer[u] /\ found'[u] = found[u]
      BY <1>3, <2>1, <2>2
         DEF CacheInv, TypeOK, Continue, LockForRead, LockForWrite, read_cached_weights, CheckFails,
             ReturnWeights, Pack, write_cached_weights, Caught, Woken, WokenSpuriously,
             lstm_packed_weight, Goto
    <3>2. WarmThread(u)
      BY <3>1 DEF WarmInv
    <3> QED
      BY <1>1, <2>1, <3>1, <3>2 DEF WarmThread, Cached
  <2>3. CASE u = t
    <3>1. u \in warm => WarmThread(u)
      BY DEF WarmInv
    <3>2. CASE \E l \in Lstm : lstm_packed_weight(t, l)
      <4>1. PICK l \in Lstm : lstm_packed_weight(t, l)
        BY <3>2
      <4>2. Cached(l) /\ layer'[t] = l
        BY <2>3, <4>1 DEF lstm_packed_weight, CacheInv, TypeOK
      <4> QED
        BY <1>1, <1>3, <2>3, <3>1, <4>2, OwnStep DEF Cached
    <3>3. CASE Continue(t) \/ WokenSpuriously(t)
      <4>1. u \in warm /\ layer' = layer
        BY <3>3 DEF Continue, LockForRead, LockForWrite, read_cached_weights, CheckFails,
             ReturnWeights, Pack, write_cached_weights, Caught, Woken, WokenSpuriously
      <4>2. step[u] # "idle" => Cached(layer[u])
        BY <3>1, <4>1 DEF WarmThread
      <4>3. step[u] = "idle" => step'[u] = "idle"
        BY <2>3, <3>3 DEF Continue, LockForRead, LockForWrite, read_cached_weights, CheckFails,
             ReturnWeights, Pack, write_cached_weights, Caught, Woken, WokenSpuriously,
             unlock_read, unlock_write, CacheInv, InStep
      <4>4. step'[u] # "idle" => Cached(layer[u])'
        BY <1>1, <2>1, <4>1, <4>2, <4>3 DEF Cached
      <4> QED
        BY <1>3, <2>3, <3>1, <4>4, OwnStep
    <3> QED
      BY <1>3, <3>2, <3>3
  <2> QED
    BY <2>2, <2>3
<1> QED
  BY <1>2, <1>3 DEF Next

\* A call that begins when both weights of its layer are cached finds both and
\* neither throws nor packs again, for any number of threads and layers.
THEOREM WarmHits == Spec => []WarmCallsHit
<1>1. Init => WarmInv
  BY DEF Init, WarmInv
<1>2. WarmInv => WarmCallsHit
  BY DEF WarmInv, WarmThread, WarmCallsHit
<1> QED
  BY <1>1, <1>2, NextWarm, CacheInvariant, PTL DEF Spec
=============================================================================
