---------------------------- MODULE MCAllocator ----------------------------
(* Small instances of CachingDeviceAllocator.  The sizes keep the ratios of *)
(* the source: kSmallBuffer = 2 kSmallSize, kLargeBuffer = 2 kMinLargeAlloc, *)
(* kRoundLarge = kSmallBuffer.                                               *)
EXTENDS CachingDeviceAllocator

OneDevice == {0}
OneDeviceOf == [q \in Queue |-> 0]
TwoDevices == {0, 1}
TwoDevicesOf == [q \in Queue |-> (q - 1) % 2]

\* Queues 1 and 2 allocate, each on its device.  Queues 2 and 3 use memory of
\* queue 1, and queue 1 uses memory of queue 2.
TwoCallSites == {<<0, 1, 1>>, <<1, 2, 2>>}
ThirdOnFirst == {<<2, 3>>}

OwnDevice == {<<DeviceOf[q], q, q>> : q \in Queue}
TightCapacity == [d \in Device |-> 16]
=============================================================================
