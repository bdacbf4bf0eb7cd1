----------------------------- MODULE WeightPack -----------------------------
(***************************************************************************)
(* The cache of packed LSTM weights, csrc/cpu/aten/WeightPack.cpp: threads *)
(* that run inference on shared LSTM layers look both weights up under the *)
(* read lock, pack on a miss, and store each weight under the write lock.  *)
(* The lock is ReadWriteMutex, whose functions are steps of these threads. *)
(***************************************************************************)
EXTENDS ReadWriteMutex

CONSTANTS
  Lstm,      \* LSTM layers: each has the two weights of Weight
  Opaque,    \* layers whose expected descriptors are opaque (rnn_packed)
  Empty      \* the default constructed ideep::tensor

ASSUME LayersAssumption == Lstm # {} /\ Opaque \subseteq Lstm /\ Empty \notin Thread

VARIABLES
  cached_weights,   \* <<layer, weight>> |-> the thread that packed it
  step,             \* where each thread is in get_lstm_packed_weight
  layer,            \* the layer it runs
  found,            \* what its two lookups returned
  warm              \* history: threads whose call began with both weights cached

vars == <<lockVars, cached_weights, step, layer, found, warm>>

Weight == {"ih", "hh"}
Key == Lstm \X Weight
Step == {"idle", "read_ih", "read_hh", "check", "write_ih", "write_hh", "thrown"}

Init ==
  /\ LockInit
  /\ cached_weights = [k \in Key |-> Empty]
  /\ step = [t \in Thread |-> "idle"]
  /\ layer = [t \in Thread |-> CHOOSE l \in Lstm : TRUE]
  /\ found = [t \in Thread |-> [w \in Weight |-> Empty]]
  /\ warm = {}

Goto(t, s) == step' = [step EXCEPT ![t] = s]

Cached(l) == \A w \in Weight : cached_weights[<<l, w>>] # Empty

\* A call for layer l.
lstm_packed_weight(t, l) ==
  /\ step[t] = "idle"
  /\ Goto(t, "read_ih")
  /\ layer' = [layer EXCEPT ![t] = l]
  /\ found' = [found EXCEPT ![t] = [w \in Weight |-> Empty]]
  /\ warm' = IF Cached(l) THEN warm \cup {t} ELSE warm \ {t}
  /\ UNCHANGED <<lockVars, cached_weights>>

\* UniqueReadLock's constructor calls lock_read, UniqueWriteLock's lock_write.
LockForRead(t) ==
  /\ step[t] \in {"read_ih", "read_hh"}
  /\ lock_read(t)
  /\ UNCHANGED <<cached_weights, step, layer, found, warm>>

LockForWrite(t) ==
  /\ step[t] \in {"write_ih", "write_hh"}
  /\ lock_write(t)
  /\ UNCHANGED <<cached_weights, step, layer, found, warm>>

Woken(t) == Wake(t) /\ UNCHANGED <<cached_weights, step, layer, found, warm>>

WokenSpuriously(t) == Spurious(t) /\ UNCHANGED <<cached_weights, step, layer, found, warm>>

\* The lookup, and the lock's destructor.
read_cached_weights(t) ==
  /\ unlock_read(t)
  /\ LET w == IF step[t] = "read_ih" THEN "ih" ELSE "hh"
     IN  found' = [found EXCEPT ![t][w] = cached_weights[<<layer[t], w>>]]
  /\ Goto(t, IF step[t] = "read_ih" THEN "read_hh" ELSE "check")
  /\ UNCHANGED <<cached_weights, layer, warm>>

\* The TORCH_CHECK fails: one weight is cached and the other is not.
CheckFails(t) ==
  /\ step[t] = "check"
  /\ (found[t]["ih"] = Empty) # (found[t]["hh"] = Empty)
  /\ Goto(t, "thrown")
  /\ UNCHANGED <<lockVars, cached_weights, layer, found, warm>>

\* A hit returns the cached tensors; opaque formats are never cached.
ReturnWeights(t) ==
  /\ step[t] = "check"
  /\ \/ \A w \in Weight : found[t][w] # Empty
     \/ (\A w \in Weight : found[t][w] = Empty) /\ layer[t] \in Opaque
  /\ Goto(t, "idle")
  /\ UNCHANGED <<lockVars, cached_weights, layer, found, warm>>

\* A miss: both weights are reordered, outside the lock.
Pack(t) ==
  /\ step[t] = "check"
  /\ \A w \in Weight : found[t][w] = Empty
  /\ layer[t] \notin Opaque
  /\ Goto(t, "write_ih")
  /\ UNCHANGED <<lockVars, cached_weights, layer, found, warm>>

\* Mutant: a store that finds an element removes it.
Emplaced_Erases(k, t) == [cached_weights EXCEPT ![k] = IF @ = Empty THEN t ELSE Empty]

\* emplace keeps the element that is there.
Emplaced(k, t) == [cached_weights EXCEPT ![k] = IF @ = Empty THEN t ELSE @]

\* Mutant: the second weight is not stored.
write_cached_weights_First(t) ==
  /\ unlock_write(t)
  /\ cached_weights' = Emplaced(<<layer[t], "ih">>, t)
  /\ Goto(t, "idle")
  /\ UNCHANGED <<layer, found, warm>>

write_cached_weights(t) ==
  /\ unlock_write(t)
  /\ cached_weights' =
       Emplaced(<<layer[t], IF step[t] = "write_ih" THEN "ih" ELSE "hh">>, t)
  /\ Goto(t, IF step[t] = "write_ih" THEN "write_hh" ELSE "idle")
  /\ UNCHANGED <<layer, found, warm>>

\* The caller of a call that threw may call again.
Caught(t) ==
  /\ step[t] = "thrown"
  /\ Goto(t, "idle")
  /\ UNCHANGED <<lockVars, cached_weights, layer, found, warm>>

Continue(t) ==
  \/ LockForRead(t) \/ LockForWrite(t) \/ read_cached_weights(t)
  \/ CheckFails(t) \/ ReturnWeights(t) \/ Pack(t) \/ write_cached_weights(t)
  \/ Caught(t) \/ Woken(t)

Next ==
  \E t \in Thread :
    Continue(t) \/ WokenSpuriously(t) \/ \E l \in Lstm : lstm_packed_weight(t, l)

Spec == Init /\ [][Next]_vars

\* A thread in a call keeps running.
FairSpec == Spec /\ \A t \in Thread : WF_vars(Continue(t))
-----------------------------------------------------------------------------
TypeOK ==
  /\ LockTypeOK
  /\ cached_weights \in [Key -> Thread \cup {Empty}]
  /\ step \in [Thread -> Step]
  /\ layer \in [Thread -> Lstm]
  /\ found \in [Thread -> [Weight -> Thread \cup {Empty}]]
  /\ warm \subseteq Thread

\* Whenever no thread is storing weights of a layer, both of them are cached
\* or neither is: neither a call that throws at its check nor one that loses
\* the race leaves a half entry that would make every later call throw.
CachedTogether ==
  \A l \in Lstm :
    (\A t \in Thread : layer[t] = l => step[t] \notin {"write_ih", "write_hh"}) =>
      (cached_weights[<<l, "ih">>] = Empty <=> cached_weights[<<l, "hh">>] = Empty)

\* A call that begins when both weights of its layer are cached finds both: it
\* neither throws nor packs the layer once more, whatever calls that missed
\* together still store.  As a thread that has packed a layer leaves both
\* weights cached, no thread packs a layer twice: the copies that the losers of
\* the race return are the only ones beside the cached weights.
WarmCallsHit ==
  \A t \in warm : step[t] \notin {"write_ih", "write_hh", "thrown"}

\* Every call returns or throws, whatever the other threads do.
CallsEnd == \A t \in Thread : step[t] # "idle" ~> step[t] = "idle"

\* The assertion of lstm_packed_weight: a caller finds both weights or none.
BothOrNeither == \A t \in Thread : step[t] # "thrown"
=============================================================================
