---------------------------- MODULE TaskExecutor ----------------------------
(***************************************************************************)
(* The asynchronous task runtime: csrc/cpu/runtime/TaskExecutor.cpp, its   *)
(* worker thread, and intel_extension_for_pytorch/csrc/cpu/TaskModule.cpp, *)
(* which submits calls of a module to it, and csrc/cpu/runtime/Task.h,     *)
(* which does the same for C++ functions.                                  *)
(*                                                                         *)
(* worker_mutex is held over short sections only; each is one step.  The   *)
(* worker's wait and the clients' notifications, which come after their    *)
(* unlock, are separate steps.  Python's interpreter lock (GIL) is held by *)
(* clients of an eager module until run_async returns, and by the worker   *)
(* while it calls an eager module.  A submission is identified with the    *)
(* input it passes.                                                        *)
(***************************************************************************)
EXTENDS Naturals, Sequences, FiniteSets, SequencesExt

CONSTANTS
  Client,    \* threads that submit, wait and stop
  Input,     \* the inputs submitted, one for each submission
  Kind,      \* of what is run: "script" and "python" modules, "cpp" functions
  NULL

ASSUME InputAssumption == Kind \subseteq {"script", "python", "cpp"} /\ NULL \notin Input \cup Client

Worker == "worker"

VARIABLES
  tasks,      \* the queue
  stop,
  worker,     \* [at, task]: the worker thread
  args,       \* TaskModule::args and kwargs, of the last eager submission
  client,     \* [at, input] of each client
  gil,        \* who holds the interpreter lock
  submitted,  \* history: the inputs emplaced, in order
  kind,       \* which constructor made the TaskModule
  done        \* history: [task, on]: futures made ready and the input used

vars == <<kind, tasks, stop, worker, args, client, gil, submitted, done>>

Eager == kind = "python"

Goto(c, place) == client' = [client EXCEPT ![c].at = place]

Init ==
  /\ kind \in Kind
  /\ tasks = <<>>
  /\ stop = FALSE
  /\ worker = [at |-> "check", task |-> NULL]
  /\ args = NULL
  /\ client = [c \in Client |-> [at |-> "out", input |-> NULL]]
  /\ gil = NULL
  /\ submitted = <<>>
  /\ done = <<>>

-----------------------------------------------------------------------------
(* The worker. *)

\* Mutant: stops although tasks are queued.
WorkerExits_Drops == stop

\* The loop ends when it is told to stop and nothing is left.
WorkerExits == stop /\ tasks = <<>>

\* Mutant: the task is not popped.
WorkerCheck_NoPop ==
  /\ worker.at = "check"
  /\ \/ WorkerExits /\ worker' = [worker EXCEPT !.at = "exited"]
     \/ tasks # <<>> /\ worker' = [at |-> "call", task |-> Head(tasks)]
     \/ ~stop /\ tasks = <<>> /\ worker' = [worker EXCEPT !.at = "wait"]
  /\ UNCHANGED <<kind, tasks, stop, args, client, gil, submitted, done>>

\* Under worker_mutex: the wait's predicate, the exit and the pop.
WorkerCheck ==
  /\ worker.at = "check"
  /\ \/ /\ WorkerExits
        /\ worker' = [worker EXCEPT !.at = "exited"]
        /\ UNCHANGED tasks
     \/ /\ ~WorkerExits
        /\ tasks # <<>>
        /\ worker' = [at |-> "call", task |-> Head(tasks)]
        /\ tasks' = Tail(tasks)
     \/ /\ ~stop /\ tasks = <<>>
        /\ worker' = [worker EXCEPT !.at = "wait"]
        /\ UNCHANGED tasks
  /\ UNCHANGED <<kind, stop, args, client, gil, submitted, done>>

\* A spurious wake-up of worker_condition.
WorkerSpurious ==
  /\ worker.at = "wait"
  /\ worker' = [worker EXCEPT !.at = "check"]
  /\ UNCHANGED <<kind, tasks, stop, args, client, gil, submitted, done>>

\* A C++ function's arguments are captured by reference, and its submitter may
\* have passed temporaries: they are surely there until operator() returns.
InCall(i) == \E c \in Client : client[c].input = i /\ client[c].at \in {"submit", "notify"}

\* What the call of task i finds as its arguments: an eager module the members
\* of the TaskModule, a script module the stack it was given, a C++ function
\* whatever is now where the submitter's objects were.
Arguments(i) ==
  CASE kind = "python" -> {args}
    [] kind = "script" -> {i}
    [] kind = "cpp" -> IF InCall(i) THEN {i} ELSE Input

\* The task starts, an eager module with the GIL.
WorkerCall ==
  /\ worker.at = "call"
  /\ Eager => gil = NULL
  /\ gil' = IF Eager THEN Worker ELSE gil
  /\ \E on \in Arguments(worker.task) :
       worker' = [at |-> "return", task |-> [task |-> worker.task, on |-> on]]
  /\ UNCHANGED <<kind, tasks, stop, args, client, submitted, done>>

\* Python code of the module lets other threads run.
WorkerYields ==
  /\ worker.at = "return"
  /\ gil = Worker
  /\ gil' = NULL
  /\ UNCHANGED <<kind, tasks, stop, worker, args, client, submitted, done>>

\* The task ends, the GIL is released and the future is ready.
WorkerReturn ==
  /\ worker.at = "return"
  /\ Eager => gil \in {Worker, NULL}
  /\ gil' = IF gil = Worker THEN NULL ELSE gil
  /\ done' = Append(done, worker.task)
  /\ worker' = [at |-> "check", task |-> NULL]
  /\ UNCHANGED <<kind, tasks, stop, args, client, submitted>>

-----------------------------------------------------------------------------
(* run_async, FutureTensor::get and run_sync. *)

Used == {client[c].input : c \in Client} \cup Range(submitted)

\* The call, up to the lock: an eager module's arguments become members.
run_async(c, i) ==
  /\ client[c].at = "out"
  /\ i \notin Used
  /\ gil = NULL
  /\ gil' = IF Eager THEN c ELSE NULL
  /\ args' = IF Eager THEN i ELSE args
  /\ client' = [client EXCEPT ![c] = [at |-> "submit", input |-> i]]
  /\ UNCHANGED <<kind, tasks, stop, worker, submitted, done>>

GilReleasedBy(c) == gil' = IF gil = c THEN NULL ELSE gil

\* Mutant: the stop flag is not looked at.
Emplace_Stopped(c) ==
  /\ client[c].at = "submit"
  /\ tasks' = Append(tasks, client[c].input)
  /\ submitted' = Append(submitted, client[c].input)
  /\ Goto(c, "notify")
  /\ UNCHANGED <<kind, gil, stop, worker, args, done>>

\* The section under worker_mutex: throws when the executor is stopped.
Emplace(c) ==
  /\ client[c].at = "submit"
  /\ IF stop
     THEN /\ client' = [client EXCEPT ![c] = [at |-> "out", input |-> NULL]]
          /\ GilReleasedBy(c)
          /\ UNCHANGED <<tasks, submitted>>
     ELSE /\ tasks' = Append(tasks, client[c].input)
          /\ submitted' = Append(submitted, client[c].input)
          /\ Goto(c, "notify")
          /\ UNCHANGED gil
  /\ UNCHANGED <<kind, stop, worker, args, done>>

WorkerNotified == worker' = IF worker.at = "wait"
                            THEN [worker EXCEPT !.at = "check"] ELSE worker

\* Mutant: no notification.
Notify_Silent(c) ==
  /\ client[c].at = "notify"
  /\ GilReleasedBy(c)
  /\ Goto(c, "future")
  /\ UNCHANGED <<kind, tasks, stop, worker, args, submitted, done>>

\* notify_one, after the unlock; the client now has the future.
Notify(c) ==
  /\ client[c].at = "notify"
  /\ WorkerNotified
  /\ GilReleasedBy(c)
  /\ Goto(c, "future")
  /\ UNCHANGED <<kind, tasks, stop, args, submitted, done>>

\* The client calls get(), which waits with the GIL released ...
get(c) ==
  /\ client[c].at = "future"
  /\ Goto(c, "get")
  /\ UNCHANGED <<kind, tasks, stop, worker, args, gil, submitted, done>>

Ready(i) == \E k \in DOMAIN done : done[k].task = i

\* ... and returns the result.
GetReturns(c) ==
  /\ client[c].at = "get"
  /\ Ready(client[c].input)
  /\ gil = NULL
  /\ client' = [client EXCEPT ![c] = [at |-> "out", input |-> NULL]]
  /\ UNCHANGED <<kind, tasks, stop, worker, args, gil, submitted, done>>

\* The client goes on and keeps the future for later, or drops it.
KeepFuture(c) ==
  /\ client[c].at = "future"
  /\ client' = [client EXCEPT ![c] = [at |-> "out", input |-> NULL]]
  /\ UNCHANGED <<kind, tasks, stop, worker, args, gil, submitted, done>>

-----------------------------------------------------------------------------
(* stop_executor, from ~TaskModule or by a client; ~TaskModule releases the *)
(* GIL before it.                                                           *)

\* Mutant: the destructor keeps the GIL.
stop_executor_KeepsGil(c) ==
  /\ client[c].at = "out"
  /\ gil = NULL
  /\ gil' = IF stop THEN NULL ELSE c
  /\ stop' = TRUE
  /\ Goto(c, IF stop THEN "out" ELSE "stop_notify")
  /\ UNCHANGED <<kind, tasks, worker, args, submitted, done>>

\* Under worker_mutex; the first caller will join the worker.
stop_executor(c) ==
  /\ client[c].at = "out"
  /\ ~stop
  /\ gil = NULL
  /\ stop' = TRUE
  /\ Goto(c, "stop_notify")
  /\ UNCHANGED <<kind, tasks, worker, args, gil, submitted, done>>

\* notify_all, after the unlock.
StopNotify(c) ==
  /\ client[c].at = "stop_notify"
  /\ WorkerNotified
  /\ Goto(c, "join")
  /\ UNCHANGED <<kind, tasks, stop, args, gil, submitted, done>>

Join(c) ==
  /\ client[c].at = "join"
  /\ worker.at = "exited"
  /\ Goto(c, "out")
  /\ GilReleasedBy(c)
  /\ UNCHANGED <<kind, tasks, stop, worker, args, submitted, done>>

-----------------------------------------------------------------------------
WorkerStep == WorkerCheck \/ WorkerCall \/ WorkerReturn

ClientStep(c) ==
  \/ Emplace(c) \/ Notify(c) \/ GetReturns(c) \/ StopNotify(c) \/ Join(c)

Next ==
  \/ WorkerStep \/ WorkerSpurious \/ WorkerYields
  \/ \E c \in Client :
       \/ \E i \in Input : run_async(c, i)
       \/ ClientStep(c) \/ get(c) \/ KeepFuture(c) \/ stop_executor(c)

Spec == Init /\ [][Next]_vars

\* Threads run on, and the GIL is handed to those that want it.
FairSpec ==
  /\ Spec
  /\ SF_vars(WorkerStep)
  /\ \A c \in Client : SF_vars(ClientStep(c))
-----------------------------------------------------------------------------
Place == {"out", "submit", "notify", "future", "get", "stop_notify", "join"}

Ran == [task : Input, on : Input \cup {NULL}]

TypeOK ==
  /\ kind \in Kind
  /\ tasks \in Seq(Input)
  /\ stop \in BOOLEAN
  /\ worker \in [at : {"check", "wait", "exited"}, task : {NULL}]
                \cup [at : {"call"}, task : Input] \cup [at : {"return"}, task : Ran]
  /\ args \in Input \cup {NULL}
  /\ client \in [Client -> [at : Place, input : Input \cup {NULL}]]
  /\ \A c \in Client : client[c].at = "submit" => client[c].input \in Input
  /\ submitted \in Seq(Input)
  /\ done \in Seq(Ran)

InWorker ==
  CASE worker.at = "call"   -> <<worker.task>>
    [] worker.at = "return" -> <<worker.task.task>>
    [] OTHER -> <<>>

Task ==
  INSTANCE AsyncTask WITH queue <- InWorker \o tasks,
                          ready <- [k \in DOMAIN done |-> done[k].task],
                          closed <- stop

\* The executor implements AsyncTask: every accepted submission is run exactly
\* once, in the order the clients got worker_mutex, none is accepted after
\* stop_executor, and those accepted before are not dropped.
ImplementsAsyncTask == Task!Spec

\* Stopping drops nothing: when the worker has exited, and so when
\* stop_executor's join returns, every future that was handed out is ready,
\* and no submission can be accepted any more.
StopDrains ==
  worker.at = "exited" => stop /\ tasks = <<>> /\ \A i \in Range(submitted) : Ready(i)

\* No wake-up is lost although clients notify after they unlock: a worker
\* that waits while it should not has a notification coming.
NoLostWakeup ==
  worker.at = "wait" /\ (stop \/ tasks # <<>>) =>
    \E c \in Client : client[c].at \in {"notify", "stop_notify"}

\* What was accepted is finished, running or queued.
Accounted ==
  \A i \in Range(submitted) : Ready(i) \/ InWorker = <<i>> \/ i \in Range(tasks)

\* The inductive invariant behind StopDrains and NoLostWakeup.
IInv ==
  /\ TypeOK /\ Accounted /\ NoLostWakeup
  /\ worker.at = "exited" => stop /\ tasks = <<>>

\* Every accepted submission is run: its future becomes ready.
FuturesReady == \A i \in Input : i \in Range(submitted) ~> Ready(i)

\* Neither get() nor the destructor hangs, also with a Python module whose
\* queued calls need the GIL.
ClientsReturn ==
  \A c \in Client : client[c].at \in {"get", "join"} ~> client[c].at = "out"

\* The sub-thread executes the input that was submitted.
RunsItsInput == \A k \in DOMAIN done : done[k].on = done[k].task
=============================================================================
