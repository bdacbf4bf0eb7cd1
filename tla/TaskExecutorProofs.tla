-------------------------- MODULE TaskExecutorProofs --------------------------
(***************************************************************************)
(* Proofs about TaskExecutor, for any clients, inputs and kinds of task:   *)
(* the executor implements AsyncTask, its worker misses no wake-up,        *)
(* stopping it drops nothing, and there is no deadlock.                    *)
(***************************************************************************)
EXTENDS TaskExecutor, TLAPS

(* Sequences. *)

\* A sequence is its head followed by its tail.
LEMMA HeadThenTail ==
  ASSUME NEW S, NEW q \in Seq(S), q # <<>>
  PROVE  /\ Head(q) \in S /\ Tail(q) \in Seq(S)
         /\ <<Head(q)>> \o Tail(q) = <<>> \o q
<1>1. Head(q) \in S /\ Tail(q) \in Seq(S) /\ Len(q) \in Nat \ {0}
  OBVIOUS
<1>2. Len(<<Head(q)>> \o Tail(q)) = Len(<<>> \o q)
  BY <1>1
<1>3. ASSUME NEW i \in 1 .. Len(q) PROVE (<<Head(q)>> \o Tail(q))[i] = (<<>> \o q)[i]
  BY <1>1
<1> QED
  BY <1>1, <1>2, <1>3

\* The first of a sequence and the rest.
LEMMA FirstAndRest ==
  ASSUME NEW S, NEW q \in Seq(S), NEW x \in S
  PROVE  /\ <<x>> \o q # <<>> /\ Head(<<x>> \o q) = x /\ Tail(<<x>> \o q) = <<>> \o q
<1>1. <<x>> \o q \in Seq(S) /\ Len(<<x>> \o q) = Len(q) + 1 /\ Len(q) \in Nat
  OBVIOUS
<1>2. (<<x>> \o q)[1] = x
  BY <1>1
<1>3. ASSUME NEW i \in 1 .. Len(q) PROVE Tail(<<x>> \o q)[i] = (<<>> \o q)[i]
  BY <1>1
<1> QED
  BY <1>1, <1>2, <1>3

\* Appending after a prefix.
LEMMA AppendAfter ==
  ASSUME NEW S, NEW p \in Seq(S), NEW q \in Seq(S), NEW x \in S
  PROVE  p \o Append(q, x) = Append(p \o q, x)
<1>1. /\ Len(p) \in Nat /\ Len(q) \in Nat
      /\ Len(p \o Append(q, x)) = Len(p) + Len(q) + 1
      /\ Len(Append(p \o q, x)) = Len(p) + Len(q) + 1
  OBVIOUS
<1>2. ASSUME NEW i \in 1 .. Len(p) + Len(q) + 1
      PROVE  (p \o Append(q, x))[i] = Append(p \o q, x)[i]
  BY <1>1
<1> QED
  BY <1>1, <1>2

\* What an appended sequence holds.
LEMMA RangeOfAppend ==
  ASSUME NEW S, NEW q \in Seq(S), NEW x
  PROVE  Range(Append(q, x)) = Range(q) \cup {x}
<1>1. /\ DOMAIN Append(q, x) = 1 .. Len(q) + 1 /\ DOMAIN q = 1 .. Len(q) /\ Len(q) \in Nat
      /\ \A i \in 1 .. Len(q) : Append(q, x)[i] = q[i]
      /\ Append(q, x)[Len(q) + 1] = x
  OBVIOUS
<1> QED
  BY <1>1 DEF Range

\* What a sequence holds is its head and what its tail holds.
LEMMA RangeOfTail ==
  ASSUME NEW S, NEW q \in Seq(S), q # <<>>
  PROVE  Range(q) = {Head(q)} \cup Range(Tail(q))
<1>1. /\ DOMAIN q = 1 .. Len(q) /\ Len(q) \in Nat \ {0}
      /\ DOMAIN Tail(q) = 1 .. Len(q) - 1
      /\ Head(q) = q[1]
      /\ \A i \in 1 .. Len(q) - 1 : Tail(q)[i] = q[i + 1]
  OBVIOUS
<1>2. ASSUME NEW i \in 1 .. Len(q) PROVE q[i] \in {Head(q)} \cup Range(Tail(q))
  <2>1. CASE i = 1
    BY <1>1, <2>1
  <2>2. CASE i # 1
    <3>1. i - 1 \in 1 .. Len(q) - 1 /\ q[i] = Tail(q)[i - 1]
      BY <1>1, <2>2
    <3> QED
      BY <1>1, <3>1 DEF Range
  <2> QED
    BY <2>1, <2>2
<1>3. Head(q) \in Range(q)
  BY <1>1 DEF Range
<1>4. ASSUME NEW i \in 1 .. Len(q) - 1 PROVE Tail(q)[i] \in Range(q)
  <2>1. i + 1 \in 1 .. Len(q) /\ Tail(q)[i] = q[i + 1]
    BY <1>1
  <2> QED
    BY <1>1, <2>1 DEF Range
<1>5. Range(q) \subseteq {Head(q)} \cup Range(Tail(q))
  BY <1>1, <1>2 DEF Range
<1>6. Range(Tail(q)) \subseteq Range(q)
  BY <1>1, <1>4 DEF Range
<1> QED
  BY <1>3, <1>5, <1>6
-----------------------------------------------------------------------------
(* The invariant. *)

\* It holds initially.
LEMMA InitInvariant == Init => IInv
<1> SUFFICES ASSUME Init PROVE IInv
  OBVIOUS
<1>1. TypeOK
  <2>1. /\ client \in [Client -> [at : Place, input : Input \cup {NULL}]]
        /\ \A c \in Client : client[c].at # "submit"
    BY DEF Init, Place
  <2>2. worker \in [at : {"check", "wait", "exited"}, task : {NULL}]
    BY DEF Init
  <2>3. tasks \in Seq(Input) /\ submitted \in Seq(Input) /\ done \in Seq(Ran)
    BY DEF Init
  <2> QED
    BY <2>1, <2>2, <2>3 DEF Init, TypeOK
<1>2. Range(submitted) = {}
  <2>1. submitted = <<>> /\ DOMAIN submitted = {}
    BY DEF Init
  <2> QED
    BY <2>1 DEF Range
<1> QED
  BY <1>1, <1>2 DEF Init, IInv, Accounted, NoLostWakeup

\* The worker's section under worker_mutex keeps the invariant.
LEMMA CheckStep == ASSUME IInv, WorkerCheck PROVE IInv'
<1>1. TypeOK /\ worker.at = "check" /\ worker.task = NULL /\ InWorker = <<>>
  BY DEF IInv, TypeOK, WorkerCheck, InWorker
<1>2. CASE WorkerExits /\ worker' = [worker EXCEPT !.at = "exited"] /\ UNCHANGED tasks
  <2>1. InWorker' = <<>>
    BY <1>1, <1>2 DEF InWorker, TypeOK
  <2>2. TypeOK'
    BY <1>1, <1>2 DEF TypeOK, WorkerCheck
  <2>3. Accounted'
    BY <1>1, <1>2, <2>1 DEF IInv, Accounted, Ready, WorkerCheck
  <2> QED
    BY <1>1, <1>2, <2>2, <2>3 DEF IInv, NoLostWakeup, WorkerCheck, WorkerExits, TypeOK
<1>3. CASE /\ tasks # <<>> /\ worker' = [at |-> "call", task |-> Head(tasks)]
           /\ tasks' = Tail(tasks)
  <2>1. Head(tasks) \in Input /\ Tail(tasks) \in Seq(Input)
    BY <1>1, <1>3, HeadThenTail DEF TypeOK
  <2>2. TypeOK'
    BY <1>1, <1>3, <2>1 DEF TypeOK, WorkerCheck
  <2>3. InWorker' = <<Head(tasks)>>
    BY <1>3 DEF InWorker
  <2>4. Range(tasks) = {Head(tasks)} \cup Range(tasks')
    BY <1>1, <1>3, RangeOfTail DEF TypeOK
  <2>5. Accounted'
    BY <1>1, <2>3, <2>4 DEF IInv, Accounted, Ready, WorkerCheck
  <2> QED
    BY <1>3, <2>2, <2>5 DEF IInv, NoLostWakeup
<1>4. CASE ~stop /\ tasks = <<>> /\ worker' = [worker EXCEPT !.at = "wait"] /\ UNCHANGED tasks
  <2>1. InWorker' = <<>>
    BY <1>1, <1>4 DEF InWorker, TypeOK
  <2>2. TypeOK'
    BY <1>1, <1>4 DEF TypeOK, WorkerCheck
  <2>3. Accounted'
    BY <1>1, <1>4, <2>1 DEF IInv, Accounted, Ready, WorkerCheck
  <2> QED
    BY <1>1, <1>4, <2>2, <2>3 DEF IInv, NoLostWakeup, WorkerCheck, TypeOK
<1> QED
  BY <1>2, <1>3, <1>4 DEF WorkerCheck

\* The worker's other steps.
LEMMA WorkerRunsStep ==
  ASSUME IInv, WorkerCall \/ WorkerReturn \/ WorkerYields \/ WorkerSpurious
  PROVE  IInv'
<1>1. TypeOK
  BY DEF IInv
<1>2. CASE WorkerCall
  <2>1. PICK on \in Arguments(worker.task) :
          worker' = [at |-> "return", task |-> [task |-> worker.task, on |-> on]]
    BY <1>2 DEF WorkerCall
  <2>2. worker.task \in Input /\ worker.at = "call"
    BY <1>1, <1>2 DEF WorkerCall, TypeOK
  <2>3. on \in Input \cup {NULL}
    BY <1>1, <2>1, <2>2, InputAssumption DEF Arguments, TypeOK
  <2>4. TypeOK'
    BY <1>1, <1>2, <2>1, <2>2, <2>3 DEF TypeOK, WorkerCall, Ran
  <2>5. InWorker' = InWorker
    BY <2>1, <2>2 DEF InWorker
  <2> QED
    BY <1>2, <2>1, <2>4, <2>5 DEF IInv, Accounted, Ready, NoLostWakeup, WorkerCall
<1>3. CASE WorkerReturn
  <2>1. worker.task \in Ran /\ worker.at = "return"
    BY <1>1, <1>3 DEF WorkerReturn, TypeOK
  <2>2. TypeOK'
    BY <1>1, <1>3, <2>1 DEF TypeOK, WorkerReturn
  <2>3. InWorker = <<worker.task.task>> /\ InWorker' = <<>>
    BY <1>3, <2>1 DEF InWorker, WorkerReturn
  <2>4. /\ \A i \in Input : Ready(i) => \E k \in DOMAIN done' : done'[k].task = i
        /\ \E k \in DOMAIN done' : done'[k].task = worker.task.task
    <3>1. /\ DOMAIN done = 1 .. Len(done) /\ DOMAIN done' = 1 .. Len(done) + 1
          /\ Len(done) \in Nat /\ done'[Len(done) + 1] = worker.task
          /\ \A k \in 1 .. Len(done) : done'[k] = done[k]
      BY <1>1, <1>3, <2>1 DEF WorkerReturn, TypeOK
    <3> QED
      BY <3>1 DEF Ready
  <2>5. Accounted'
    <3> SUFFICES ASSUME NEW i \in Range(submitted)
                 PROVE  (\E k \in DOMAIN done' : done'[k].task = i) \/ i \in Range(tasks)
      BY <1>3 DEF Accounted, WorkerReturn, Ready
    <3>0. i \in Input
      BY <1>1 DEF TypeOK, Range
    <3>1. CASE InWorker = <<i>>
      BY <2>3, <2>4, <3>1
    <3>2. CASE InWorker # <<i>>
      BY <2>4, <3>0, <3>2 DEF IInv, Accounted
    <3> QED
      BY <3>1, <3>2
  <2> QED
    BY <1>3, <2>2, <2>5 DEF IInv, NoLostWakeup, WorkerReturn
<1>4. CASE WorkerYields
  <2>1. TypeOK'
    BY <1>1, <1>4 DEF TypeOK, WorkerYields
  <2> QED
    BY <1>4, <2>1 DEF IInv, Accounted, Ready, InWorker, NoLostWakeup, WorkerYields
<1>5. CASE WorkerSpurious
  <2>1. TypeOK'
    BY <1>1, <1>5 DEF TypeOK, WorkerSpurious
  <2>2. InWorker' = InWorker /\ worker'.at = "check"
    BY <1>1, <1>5 DEF InWorker, WorkerSpurious, TypeOK
  <2> QED
    BY <1>5, <2>1, <2>2 DEF IInv, Accounted, Ready, NoLostWakeup, WorkerSpurious
<1> QED
  BY <1>2, <1>3, <1>4, <1>5

\* The client's step changes neither the worker nor what is queued.
LEMMA ClientMoves ==
  ASSUME IInv, TypeOK', UNCHANGED <<tasks, stop, worker, submitted, done>>,
         \A c \in Client : client[c].at \in {"notify", "stop_notify"} => client'[c] = client[c]
  PROVE  IInv'
<1>1. InWorker' = InWorker /\ Accounted'
  BY DEF IInv, Accounted, Ready, InWorker
<1>2. NoLostWakeup'
  BY DEF IInv, NoLostWakeup
<1> QED
  BY <1>1, <1>2 DEF IInv

\* A notification wakes the worker if it waits.
LEMMA NotifyStep ==
  ASSUME IInv, NEW c \in Client, Notify(c) \/ StopNotify(c)
  PROVE  IInv'
<1>1. TypeOK
  BY DEF IInv
<1>2. /\ UNCHANGED <<kind, tasks, stop, args, submitted, done>> /\ WorkerNotified
      /\ client' = [client EXCEPT ![c].at = "future"] \/ client' = [client EXCEPT ![c].at = "join"]
  BY DEF Notify, StopNotify, Goto
<1>3. TypeOK'
  <2>1. /\ client' \in [Client -> [at : Place, input : Input \cup {NULL}]]
        /\ \A x \in Client : client'[x].at = "submit" => client'[x].input \in Input
    BY <1>1, <1>2 DEF TypeOK, Place
  <2>2. worker' \in [at : {"check", "wait", "exited"}, task : {NULL}]
                    \cup [at : {"call"}, task : Input] \cup [at : {"return"}, task : Ran]
    BY <1>1, <1>2 DEF TypeOK, WorkerNotified
  <2> QED
    BY <1>1, <1>2, <2>1, <2>2 DEF TypeOK
<1>4. InWorker' = InWorker /\ worker'.at # "wait"
  BY <1>1, <1>2 DEF TypeOK, WorkerNotified, InWorker
<1>5. Accounted'
  BY <1>2, <1>4 DEF IInv, Accounted, Ready
<1>6. worker'.at = "exited" => stop' /\ tasks' = <<>>
  BY <1>1, <1>2 DEF IInv, WorkerNotified, TypeOK
<1> QED
  BY <1>3, <1>4, <1>5, <1>6 DEF IInv, NoLostWakeup

\* The submitter's section under worker_mutex.
LEMMA EmplaceStep == ASSUME IInv, NEW c \in Client, Emplace(c) PROVE IInv'
<1>1. TypeOK /\ client[c].at = "submit" /\ client[c].input \in Input
  BY DEF IInv, TypeOK, Emplace
<1>2. CASE stop
  <2>1. TypeOK'
    <3>1. /\ client' = [client EXCEPT ![c] = [at |-> "out", input |-> NULL]]
          /\ UNCHANGED <<kind, tasks, stop, worker, args, submitted, done>>
      BY <1>2 DEF Emplace
    <3>2. /\ client' \in [Client -> [at : Place, input : Input \cup {NULL}]]
          /\ \A x \in Client : client'[x].at = "submit" => client'[x].input \in Input
      BY <1>1, <3>1 DEF TypeOK, Place
    <3> QED
      BY <1>1, <3>1, <3>2 DEF TypeOK
  <2> QED
    BY <1>1, <1>2, <2>1, ClientMoves DEF Emplace, TypeOK
<1>3. CASE ~stop
  <2> DEFINE i == client[c].input
  <2>1. /\ tasks' = Append(tasks, i) /\ submitted' = Append(submitted, i)
        /\ client' = [client EXCEPT ![c].at = "notify"]
        /\ UNCHANGED <<kind, stop, worker, args, done>>
    BY <1>3 DEF Emplace, Goto
  <2>2. TypeOK'
    <3>1. /\ client' \in [Client -> [at : Place, input : Input \cup {NULL}]]
          /\ \A x \in Client : client'[x].at = "submit" => client'[x].input \in Input
      BY <1>1, <2>1 DEF TypeOK, Place
    <3>2. tasks' \in Seq(Input) /\ submitted' \in Seq(Input)
      BY <1>1, <2>1 DEF TypeOK
    <3> QED
      BY <1>1, <2>1, <3>1, <3>2 DEF TypeOK
  <2>3. client'[c].at = "notify"
    BY <1>1, <2>1 DEF TypeOK
  <2>4. Range(tasks') = Range(tasks) \cup {i} /\ Range(submitted') = Range(submitted) \cup {i}
    BY <1>1, <2>1, RangeOfAppend DEF TypeOK
  <2>5. InWorker' = InWorker
    BY <2>1 DEF InWorker
  <2>6. Accounted'
    BY <2>1, <2>4, <2>5 DEF IInv, Accounted, Ready
  <2>7. NoLostWakeup'
    BY <2>3 DEF NoLostWakeup
  <2> QED
    BY <1>3, <2>1, <2>2, <2>6, <2>7 DEF IInv
<1> QED
  BY <1>2, <1>3

\* The section of stop_executor under worker_mutex.
LEMMA StopStep == ASSUME IInv, NEW c \in Client, stop_executor(c) PROVE IInv'
<1>1. TypeOK
  BY DEF IInv
<1>2. TypeOK' /\ client'[c].at = "stop_notify"
  BY <1>1 DEF TypeOK, stop_executor, Goto, Place
<1>3. InWorker' = InWorker /\ Accounted'
  BY DEF IInv, Accounted, Ready, InWorker, stop_executor
<1> QED
  BY <1>2, <1>3 DEF IInv, NoLostWakeup, stop_executor

\* The clients' other steps.
LEMMA OtherClientSteps ==
  ASSUME IInv, NEW c \in Client,
         \/ \E i \in Input : run_async(c, i)
         \/ get(c) \/ GetReturns(c) \/ KeepFuture(c) \/ Join(c)
  PROVE  IInv'
<1>1. TypeOK
  BY DEF IInv
<1>2. ASSUME NEW i \in Input, run_async(c, i) PROVE IInv'
  <2>1. TypeOK'
    BY <1>1, <1>2 DEF TypeOK, run_async, Place
  <2> QED
    BY <1>1, <1>2, <2>1, ClientMoves DEF run_async, TypeOK
<1>3. CASE get(c)
  <2>1. TypeOK'
    BY <1>1, <1>3 DEF TypeOK, get, Goto, Place
  <2> QED
    BY <1>1, <1>3, <2>1, ClientMoves DEF get, Goto, TypeOK
<1>4. CASE GetReturns(c) \/ KeepFuture(c)
  <2>1. TypeOK'
    BY <1>1, <1>4 DEF TypeOK, GetReturns, KeepFuture, Place
  <2> QED
    BY <1>1, <1>4, <2>1, ClientMoves DEF GetReturns, KeepFuture, TypeOK
<1>5. CASE Join(c)
  <2>1. TypeOK'
    BY <1>1, <1>5 DEF TypeOK, Join, Goto, Place
  <2> QED
    BY <1>1, <1>5, <2>1, ClientMoves DEF Join, Goto, TypeOK
<1> QED
  BY <1>2, <1>3, <1>4, <1>5

\* Every step keeps the invariant.
LEMMA NextInvariant == IInv /\ [Next]_vars => IInv'
<1> SUFFICES ASSUME IInv, [Next]_vars PROVE IInv'
  OBVIOUS
<1>1. CASE WorkerStep \/ WorkerSpurious \/ WorkerYields
  BY <1>1, CheckStep, WorkerRunsStep DEF WorkerStep
<1>2. ASSUME NEW c \in Client,
             \/ \E i \in Input : run_async(c, i)
             \/ ClientStep(c) \/ get(c) \/ KeepFuture(c) \/ stop_executor(c)
      PROVE  IInv'
  BY <1>2, NotifyStep, EmplaceStep, StopStep, OtherClientSteps DEF ClientStep
<1>3. CASE UNCHANGED vars
  <2>1. TypeOK' /\ Accounted' /\ NoLostWakeup'
    BY <1>3 DEF vars, IInv, TypeOK, Accounted, NoLostWakeup, Ready, InWorker
  <2> QED
    BY <1>3, <2>1 DEF IInv, vars
<1> QED
  BY <1>1, <1>2, <1>3 DEF Next

\* The invariant holds in every reachable state.
THEOREM ExecutorInvariant == Spec => []IInv
  BY InitInvariant, NextInvariant, PTL DEF Spec

\* The worker never sleeps through a submission or a stop, although clients
\* notify it after they have released worker_mutex.
THEOREM WakeupsArrive == Spec => []NoLostWakeup
<1>1. IInv => NoLostWakeup
  BY DEF IInv
<1> QED
  BY <1>1, ExecutorInvariant, PTL

\* Stopping drops nothing: once the worker has exited every accepted
\* submission is finished.
THEOREM StoppedDrained == Spec => []StopDrains
<1>1. IInv => StopDrains
  <2> SUFFICES ASSUME IInv, worker.at = "exited" PROVE
                 stop /\ tasks = <<>> /\ \A i \in Range(submitted) : Ready(i)
    BY DEF StopDrains
  <2>1. stop /\ tasks = <<>> /\ InWorker = <<>>
    BY DEF IInv, InWorker
  <2>2. Range(tasks) = {}
    <3>1. DOMAIN tasks = {}
      BY <2>1
    <3> QED
      BY <3>1 DEF Range
  <2>3. \A i : <<i>> # <<>>
    OBVIOUS
  <2> QED
    BY <2>1, <2>2, <2>3 DEF IInv, Accounted
<1> QED
  BY <1>1, ExecutorInvariant, PTL
-----------------------------------------------------------------------------
(* The refinement. *)

Queued == InWorker \o tasks
Finished == [k \in DOMAIN done |-> done[k].task]

\* A step that changes none of what AsyncTask sees.
LEMMA Unseen ==
  ASSUME UNCHANGED <<tasks, stop, done>>, InWorker' = InWorker
  PROVE  [Task!Next]_(Task!vars)
  BY DEF Task!vars

\* Every step of the executor is a step of AsyncTask or leaves it as it is.
LEMMA NextRefines == IInv /\ [Next]_vars => [Task!Next]_(Task!vars)
<1> SUFFICES ASSUME IInv, [Next]_vars PROVE [Task!Next]_(Task!vars)
  OBVIOUS
<1>0. TypeOK
  BY DEF IInv
<1>1. CASE WorkerCheck
  <2>1. InWorker = <<>> /\ worker.task = NULL
    BY <1>0, <1>1 DEF WorkerCheck, InWorker, TypeOK
  <2>2. CASE UNCHANGED tasks /\ worker' \in {[worker EXCEPT !.at = "exited"], [worker EXCEPT !.at = "wait"]}
    <3>1. InWorker' = <<>>
      BY <1>0, <2>2 DEF InWorker, TypeOK
    <3> QED
      BY <1>1, <2>1, <2>2, <3>1, Unseen DEF WorkerCheck
  <2>3. CASE /\ tasks # <<>> /\ worker' = [at |-> "call", task |-> Head(tasks)]
             /\ tasks' = Tail(tasks)
    <3>1. InWorker' = <<Head(tasks)>>
      BY <2>3 DEF InWorker
    <3>2. (InWorker \o tasks)' = InWorker \o tasks
      BY <1>0, <2>1, <2>3, <3>1, HeadThenTail DEF TypeOK
    <3> QED
      BY <1>1, <3>2 DEF Task!vars, WorkerCheck
  <2> QED
    BY <1>1, <2>2, <2>3 DEF WorkerCheck
<1>2. CASE WorkerCall \/ WorkerSpurious \/ WorkerYields
  <2>1. InWorker' = InWorker
    BY <1>0, <1>2 DEF WorkerCall, WorkerSpurious, WorkerYields, InWorker, TypeOK
  <2> QED
    BY <1>2, <2>1, Unseen DEF WorkerCall, WorkerSpurious, WorkerYields
<1>3. CASE WorkerReturn
  <2>1. worker.task \in Ran /\ worker.at = "return"
    BY <1>0, <1>3 DEF WorkerReturn, TypeOK
  <2>2. InWorker = <<worker.task.task>> /\ InWorker' = <<>> /\ worker.task.task \in Input
    BY <1>3, <2>1 DEF InWorker, WorkerReturn, Ran
  <2>3. /\ Queued # <<>> /\ Head(Queued) = worker.task.task /\ Tail(Queued) = Queued'
    BY <1>0, <1>3, <2>2, FirstAndRest DEF Queued, WorkerReturn, TypeOK
  <2>4. Finished' = Append(Finished, worker.task.task)
    <3>1. /\ DOMAIN done = 1 .. Len(done) /\ Len(done) \in Nat
          /\ done' = Append(done, worker.task)
      BY <1>0, <1>3 DEF WorkerReturn, TypeOK
    <3>2. /\ DOMAIN done' = 1 .. Len(done) + 1 /\ done'[Len(done) + 1] = worker.task
          /\ \A k \in 1 .. Len(done) : done'[k] = done[k] /\ done[k] \in Ran
      BY <1>0, <2>1, <3>1 DEF TypeOK
    <3>3. Finished \in Seq(Input) /\ Len(Finished) = Len(done)
      BY <3>1, <3>2 DEF Finished, Ran
    <3>4. /\ DOMAIN Finished' = 1 .. Len(done) + 1
          /\ \A k \in 1 .. Len(done) : Finished'[k] = Finished[k]
          /\ Finished'[Len(done) + 1] = worker.task.task
      BY <3>1, <3>2 DEF Finished
    <3>5. Finished' \in Seq(Input)
      BY <2>2, <3>1, <3>2, <3>4 DEF Finished, Ran
    <3> QED
      BY <2>2, <3>1, <3>3, <3>4, <3>5
  <2>5. stop' = stop
    BY <1>3 DEF WorkerReturn
  <2> QED
    BY <2>3, <2>4, <2>5 DEF Queued, Finished, Task!Next, Task!Finish
<1>4. ASSUME NEW c \in Client, Emplace(c) PROVE [Task!Next]_(Task!vars)
  <2>1. InWorker' = InWorker /\ UNCHANGED <<stop, done>>
    BY <1>4 DEF Emplace, InWorker
  <2>2. CASE stop
    BY <1>4, <2>1, <2>2, Unseen DEF Emplace
  <2>3. CASE ~stop
    <3>1. client[c].input \in Input /\ tasks' = Append(tasks, client[c].input)
      BY <1>0, <1>4, <2>3 DEF Emplace, TypeOK
    <3>2. InWorker \in Seq(Input)
      BY <1>0 DEF InWorker, TypeOK, Ran
    <3>3. Queued' = Append(Queued, client[c].input)
      BY <1>0, <2>1, <3>1, <3>2, AppendAfter DEF Queued, TypeOK
    <3>4. Task!Submit(client[c].input)
      BY <2>1, <2>3, <3>3 DEF Queued, Task!Submit
    <3> QED
      BY <3>1, <3>4 DEF Task!Next
  <2> QED
    BY <2>2, <2>3
<1>5. ASSUME NEW c \in Client, Notify(c) \/ StopNotify(c) PROVE [Task!Next]_(Task!vars)
  <2>1. InWorker' = InWorker /\ UNCHANGED <<tasks, stop, done>>
    BY <1>0, <1>5 DEF Notify, StopNotify, WorkerNotified, InWorker, TypeOK
  <2> QED
    BY <2>1, Unseen
<1>6. ASSUME NEW c \in Client, stop_executor(c) PROVE [Task!Next]_(Task!vars)
  <2>1. InWorker' = InWorker /\ UNCHANGED <<tasks, done>> /\ stop' = TRUE
    BY <1>6 DEF stop_executor, InWorker
  <2> QED
    BY <2>1 DEF Task!Next, Task!Close
<1>7. ASSUME NEW c \in Client,
             \/ \E i \in Input : run_async(c, i)
             \/ get(c) \/ GetReturns(c) \/ KeepFuture(c) \/ Join(c)
      PROVE  [Task!Next]_(Task!vars)
  <2>1. InWorker' = InWorker /\ UNCHANGED <<tasks, stop, done>>
    BY <1>7 DEF run_async, get, GetReturns, KeepFuture, Join, InWorker
  <2> QED
    BY <2>1, Unseen
<1>8. CASE UNCHANGED vars
  <2>1. InWorker' = InWorker /\ UNCHANGED <<tasks, stop, done>>
    BY <1>8 DEF vars, InWorker
  <2> QED
    BY <2>1, Unseen
<1> QED
  BY <1>1, <1>2, <1>3, <1>4, <1>5, <1>6, <1>7, <1>8 DEF Next, WorkerStep, ClientStep

\* The executor implements AsyncTask: submissions are run once each and in the
\* order they were accepted, whatever the clients, and none is accepted after
\* stop_executor.
THEOREM ImplementsTask == Spec => ImplementsAsyncTask
<1>1. Init => Task!Init
  <2> SUFFICES ASSUME Init PROVE Task!Init
    OBVIOUS
  <2>1. InWorker = <<>> /\ tasks = <<>> /\ done = <<>> /\ stop = FALSE
    BY DEF Init, InWorker
  <2>2. DOMAIN done = {}
    BY <2>1
  <2>3. [k \in DOMAIN done |-> done[k].task] = <<>>
    BY <2>2
  <2> QED
    BY <2>1, <2>3 DEF Task!Init
<1> QED
  BY <1>1, NextRefines, ExecutorInvariant, PTL DEF Spec, ImplementsAsyncTask, Task!Spec
-----------------------------------------------------------------------------
(* Nobody waits for everybody.  The worker waits for the GIL and for work,   *)
(* get for the worker and then the GIL, and the destructor for the worker.   *)
(* That each of them goes on in the end is liveness and left to TLC; that    *)
(* someone can always go on is an invariant.                                 *)

\* The guards of WorkerStep and ClientStep.
WorkerCanStep ==
  \/ worker.at = "check"
  \/ worker.at = "call" /\ (Eager => gil = NULL)
  \/ worker.at = "return" /\ (Eager => gil \in {Worker, NULL})

ClientCanStep(c) ==
  \/ client[c].at \in {"submit", "notify", "stop_notify"}
  \/ client[c].at = "get" /\ Ready(client[c].input) /\ gil = NULL
  \/ client[c].at = "join" /\ worker.at = "exited"

\* While a client is in a call or an accepted task is not finished, the worker or
\* a client can go on.
NoDeadlock ==
  (\E c \in Client : client[c].at \notin {"out", "future"})
    \/ (\E i \in Range(submitted) : ~Ready(i)) =>
  WorkerCanStep \/ \E c \in Client : ClientCanStep(c)

\* Whoever holds the GIL does not wait for anything.
GilInv ==
  \/ gil = NULL
  \/ gil = Worker /\ worker.at = "return"
  \/ \E c \in Client : gil = c /\ client[c].at \in {"submit", "notify"}

\* A client that joins the worker has told it to stop, and one that waits for
\* a future waits for an accepted task.
WaitInv ==
  \A c \in Client :
    /\ client[c].at \in {"stop_notify", "join"} => stop
    /\ client[c].at \in {"notify", "future", "get"} => client[c].input \in Range(submitted)

\* run_async takes the GIL when it is free and holds it until it returns.
LEMMA GilStep == TypeOK /\ GilInv /\ [Next]_vars => GilInv'
<1> SUFFICES ASSUME TypeOK, GilInv, [Next]_vars PROVE GilInv'
  OBVIOUS
<1>1. CASE UNCHANGED vars
  BY <1>1 DEF GilInv, vars
<1>2. CASE WorkerCheck \/ WorkerSpurious
  BY <1>2 DEF GilInv, WorkerCheck, WorkerSpurious
<1>3. CASE WorkerCall
  <2>1. worker'.at = "return" /\ UNCHANGED client
    BY <1>3 DEF WorkerCall
  <2>2. worker.at = "call"
    BY <1>3 DEF WorkerCall
  <2>3. gil' = gil \/ gil' = Worker
    BY <1>3 DEF WorkerCall
  <2> QED BY <2>1, <2>2, <2>3 DEF GilInv
<1>4. CASE WorkerReturn \/ WorkerYields
  BY <1>4 DEF GilInv, WorkerReturn, WorkerYields
<1>5. ASSUME NEW c \in Client, NEW i \in Input, run_async(c, i) PROVE GilInv'
  BY <1>5 DEF GilInv, run_async, TypeOK
<1>6. ASSUME NEW c \in Client, Emplace(c) PROVE GilInv'
  <2>1. \A x \in Client \ {c} : client'[x] = client[x]
    BY <1>6 DEF Emplace, Goto, TypeOK
  <2>2. UNCHANGED worker
    BY <1>6 DEF Emplace
  <2>3. gil' = NULL \/ (gil' = gil /\ (gil = c => client'[c].at = "notify"))
    BY <1>6 DEF Emplace, Goto, GilReleasedBy, TypeOK
  <2> QED BY <2>1, <2>2, <2>3 DEF GilInv
<1>7. ASSUME NEW c \in Client, Notify(c) \/ StopNotify(c) PROVE GilInv'
  <2>1. \A x \in Client \ {c} : client'[x] = client[x]
    BY <1>7 DEF Notify, StopNotify, Goto, TypeOK
  <2>2. worker' = worker \/ worker.at = "wait"
    BY <1>7 DEF Notify, StopNotify, WorkerNotified
  <2>3. gil' = NULL \/ gil' = gil
    BY <1>7 DEF Notify, StopNotify, GilReleasedBy
  <2>4. gil' = NULL \/ gil' # c \/ client[c].at = "stop_notify"
    BY <1>7 DEF Notify, StopNotify, GilReleasedBy
  <2> QED BY <2>1, <2>2, <2>3, <2>4 DEF GilInv
<1>8. ASSUME NEW c \in Client,
             GetReturns(c) \/ Join(c) \/ get(c) \/ KeepFuture(c) \/ stop_executor(c)
      PROVE  GilInv'
  <2>1. \A x \in Client \ {c} : client'[x] = client[x]
    BY <1>8 DEF GetReturns, Join, get, KeepFuture, stop_executor, Goto, TypeOK
  <2>2. UNCHANGED worker /\ (gil' = NULL \/ gil' = gil)
    BY <1>8 DEF GetReturns, Join, get, KeepFuture, stop_executor, GilReleasedBy
  <2>3. client[c].at \notin {"submit", "notify"}
    BY <1>8 DEF GetReturns, Join, get, KeepFuture, stop_executor
  <2> QED BY <2>1, <2>2, <2>3 DEF GilInv
<1> QED
  BY <1>1, <1>2, <1>3, <1>4, <1>5, <1>6, <1>7, <1>8 DEF Next, WorkerStep, ClientStep

\* Nobody reopens the executor, and an accepted submission stays one.
LEMMA WaitStep == TypeOK /\ WaitInv /\ [Next]_vars => WaitInv'
<1> SUFFICES ASSUME TypeOK, WaitInv, [Next]_vars PROVE WaitInv'
  OBVIOUS
<1>1. CASE UNCHANGED <<client, stop, submitted>>
  BY <1>1 DEF WaitInv
<1>2. ASSUME NEW c \in Client,
             \/ \E i \in Input : run_async(c, i)
             \/ Notify(c) \/ GetReturns(c) \/ StopNotify(c) \/ Join(c) \/ get(c)
             \/ KeepFuture(c)
      PROVE  WaitInv'
  <2>1. UNCHANGED <<stop, submitted>> /\ \A x \in Client \ {c} : client'[x] = client[x]
    BY <1>2 DEF run_async, Notify, GetReturns, StopNotify, Join, get, KeepFuture, Goto, TypeOK
  <2>2. \/ client'[c].at \in {"submit", "out"}
        \/ /\ client[c].at \in {"notify", "future"} /\ client'[c].input = client[c].input
           /\ client'[c].at \in {"future", "get"}
        \/ client[c].at = "stop_notify" /\ client'[c].at = "join"
    BY <1>2 DEF run_async, Notify, GetReturns, StopNotify, Join, get, KeepFuture, Goto, TypeOK
  <2> QED BY <2>1, <2>2 DEF WaitInv
<1>3. ASSUME NEW c \in Client, stop_executor(c) PROVE WaitInv'
  <2>1. /\ stop' = TRUE /\ UNCHANGED submitted /\ client'[c].at = "stop_notify"
        /\ \A x \in Client \ {c} : client'[x] = client[x]
    BY <1>3 DEF stop_executor, Goto, TypeOK
  <2> QED BY <2>1 DEF WaitInv
<1>4. ASSUME NEW c \in Client, Emplace(c) PROVE WaitInv'
  <2>1. UNCHANGED stop /\ \A x \in Client \ {c} : client'[x] = client[x]
    BY <1>4 DEF Emplace, Goto, TypeOK
  <2>2. CASE stop
    <3>1. UNCHANGED submitted /\ client'[c].at = "out"
      BY <1>4, <2>2 DEF Emplace, TypeOK
    <3> QED BY <2>1, <3>1 DEF WaitInv
  <2>3. CASE ~stop
    <3>1. /\ submitted' = Append(submitted, client[c].input)
          /\ client'[c].at = "notify" /\ client'[c].input = client[c].input
      BY <1>4, <2>3 DEF Emplace, Goto, TypeOK
    <3>2. Range(submitted') = Range(submitted) \cup {client[c].input}
      BY <3>1, RangeOfAppend DEF TypeOK
    <3> QED BY <2>1, <3>1, <3>2 DEF WaitInv
  <2> QED BY <2>2, <2>3
<1>5. CASE WorkerStep \/ WorkerSpurious \/ WorkerYields
  BY <1>5, <1>1 DEF WorkerStep, WorkerCheck, WorkerCall, WorkerReturn, WorkerSpurious, WorkerYields
<1>6. CASE UNCHANGED vars
  BY <1>6, <1>1 DEF vars
<1> QED
  BY <1>2, <1>3, <1>4, <1>5, <1>6 DEF Next, ClientStep

\* With the GIL free, a worker that cannot go on waits for work or has exited,
\* and what a client waits for is there.
LEMMA GilFree ==
  ASSUME IInv, WaitInv, gil = NULL
  PROVE  NoDeadlock
<1>1. TypeOK /\ Accounted /\ NoLostWakeup /\ (worker.at = "exited" => stop /\ tasks = <<>>)
  BY DEF IInv
<1>2. CASE worker.at \in {"check", "call", "return"}
  BY <1>2 DEF NoDeadlock, WorkerCanStep
<1>3. CASE worker.at = "wait" /\ (stop \/ tasks # <<>>)
  BY <1>1, <1>3 DEF NoLostWakeup, NoDeadlock, ClientCanStep
<1>4. CASE worker.at \in {"wait", "exited"} /\ tasks = <<>>
           /\ (worker.at = "wait" => ~stop)
  <2>1. Range(tasks) = {} /\ InWorker = <<>>
    <3>1. DOMAIN tasks = {}
      BY <1>4
    <3> QED BY <1>4, <3>1 DEF Range, InWorker
  <2>2. \A i : <<>> # <<i>>
    OBVIOUS
  <2>3. \A i \in Range(submitted) : Ready(i)
    BY <1>1, <2>1, <2>2 DEF Accounted
  <2>4. ASSUME NEW c \in Client, client[c].at \notin {"out", "future"}
        PROVE  ClientCanStep(c)
    <3>1. client[c].at \in Place
      BY <1>1 DEF TypeOK
    <3>2. client[c].at = "get" => Ready(client[c].input)
      BY <2>3 DEF WaitInv
    <3>3. client[c].at = "join" => worker.at = "exited"
      BY <1>4 DEF WaitInv
    <3> QED BY <2>4, <3>1, <3>2, <3>3 DEF ClientCanStep, Place
  <2> QED BY <2>3, <2>4 DEF NoDeadlock
<1>5. worker.at \in {"check", "call", "return", "wait", "exited"}
  BY <1>1 DEF TypeOK
<1> QED BY <1>1, <1>2, <1>3, <1>4, <1>5

\* No deadlock between the worker, the clients that wait for it and the GIL, for
\* any number of clients and submissions: get waits without the GIL, and the
\* destructor releases it before it joins.
THEOREM ExecutorNoDeadlock == Spec => []NoDeadlock
<1>1. Init => GilInv /\ WaitInv
  <2> SUFFICES ASSUME Init PROVE GilInv /\ WaitInv
    OBVIOUS
  <2>1. \A c \in Client : client[c].at = "out"
    BY DEF Init
  <2> QED BY <2>1 DEF Init, GilInv, WaitInv
<1>2. IInv => TypeOK
  BY DEF IInv
<1>3. ASSUME IInv, GilInv, WaitInv PROVE NoDeadlock
  <2>1. CASE gil = NULL
    BY <1>3, <2>1, GilFree
  <2>2. CASE gil = Worker /\ worker.at = "return"
    BY <2>2 DEF NoDeadlock, WorkerCanStep
  <2>3. CASE \E c \in Client : gil = c /\ client[c].at \in {"submit", "notify"}
    BY <2>3 DEF NoDeadlock, ClientCanStep
  <2> QED BY <1>3, <2>1, <2>2, <2>3 DEF GilInv
<1> QED
  BY <1>1, <1>2, <1>3, GilStep, WaitStep, ExecutorInvariant, PTL DEF Spec
===============================================================================
