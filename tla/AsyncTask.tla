------------------------------ MODULE AsyncTask ------------------------------
(***************************************************************************)
(* What a Task promises those who submit to it, without the worker thread, *)
(* its lock, its condition variable or the interpreter lock: inputs are    *)
(* accepted until the task is closed, and those accepted are run once      *)
(* each, in the order in which they were accepted, also after closing.     *)
(***************************************************************************)
EXTENDS Sequences

CONSTANT Input

VARIABLES
  queue,     \* accepted and not finished
  ready,     \* finished, in order: their futures are ready
  closed

vars == <<queue, ready, closed>>

Init == queue = <<>> /\ ready = <<>> /\ closed = FALSE

Submit(i) ==
  /\ ~closed
  /\ queue' = Append(queue, i)
  /\ UNCHANGED <<ready, closed>>

Finish ==
  /\ queue # <<>>
  /\ ready' = Append(ready, Head(queue))
  /\ queue' = Tail(queue)
  /\ UNCHANGED closed

Close ==
  /\ closed' = TRUE
  /\ UNCHANGED <<queue, ready>>

Next == Finish \/ Close \/ \E i \in Input : Submit(i)

Spec == Init /\ [][Next]_vars
==============================================================================
