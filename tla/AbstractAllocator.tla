--------------------------- MODULE AbstractAllocator ---------------------------
(***************************************************************************)
(* What a caching device allocator promises its callers, without blocks,   *)
(* pools, lists, events or segments: memory handed out is large enough,    *)
(* for the queue that asked, and used by nobody else.  Memory that was     *)
(* freed while other queues may still work on it counts as used until     *)
(* they are done.                                                          *)
(***************************************************************************)
EXTENDS Naturals

CONSTANTS
  Queue,
  ASize,    \* sizes that are asked for
  None      \* no request

VARIABLES
  request,    \* the call of malloc being served: [queue, size], or None
  live,       \* memory in the hands of callers: [base, size, queue, uses]
  pending     \* [base, size, queue]: freed, the queue may still work on it

vars == <<request, live, pending>>

Memory == [base : Nat, size : Nat, queue : Queue, uses : SUBSET Queue]

Apart(r, s) == r.base + r.size <= s.base \/ s.base + s.size <= r.base

Init == request = None /\ live = {} /\ pending = {}

Request(q, n) ==
  /\ request = None
  /\ request' = [queue |-> q, size |-> n]
  /\ UNCHANGED <<live, pending>>

\* malloc returns memory.
Grant(r) ==
  /\ request # None
  /\ r.queue = request.queue /\ r.size >= request.size /\ r.uses = {}
  /\ \A s \in live \cup pending : Apart(r, s)
  /\ live' = live \cup {r}
  /\ request' = None
  /\ UNCHANGED pending

\* malloc throws.
Refuse ==
  /\ request # None
  /\ request' = None
  /\ UNCHANGED <<live, pending>>

\* recordQueue: another queue works on the memory.
Use(r, q) ==
  /\ request = None
  /\ live' = (live \ {r}) \cup {[r EXCEPT !.uses = @ \cup {q}]}
  /\ UNCHANGED <<request, pending>>

\* free.
Give(r) ==
  /\ request = None
  /\ live' = live \ {r}
  /\ pending' = pending \cup {[base |-> r.base, size |-> r.size, queue |-> q] : q \in r.uses}
  /\ UNCHANGED request

\* The device finishes work it was given before the free, at any time.
Finish(works) ==
  /\ pending' = pending \ works
  /\ UNCHANGED <<request, live>>

Next ==
  \/ \E q \in Queue, n \in ASize : Request(q, n)
  \/ \E r \in live' : r \in Memory /\ Grant(r)
  \/ Refuse
  \/ \E r \in live : Give(r) \/ (\E q \in Queue \ {r.queue} : Use(r, q))
  \/ \E works \in SUBSET pending : Finish(works)

Spec == Init /\ [][Next]_vars
================================================================================
