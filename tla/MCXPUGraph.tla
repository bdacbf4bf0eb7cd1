----------------------------- MODULE MCXPUGraph -----------------------------
(* Small instances of XPUGraph: one device, a default stream and a side     *)
(* stream, two graph objects that may share pools.                          *)
EXTENDS XPUGraph, TLC

OneDevice == {0}
OneDeviceOf == [q \in Queue |-> 0]
AnyQueue == {0} \X QueueObject \X Queue
OwnQueue == [o \in QueueObject |-> o]
TightCapacity == [d \in Device |-> 8]
Symmetric == Permutations(Graph)
=============================================================================
