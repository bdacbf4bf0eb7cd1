----------------------------- MODULE MultiStream -----------------------------
(***************************************************************************)
(* MultiStreamModule of cpu/runtime/multi_stream.py: a module that splits  *)
(* the batch of a forward call over Tasks with cores of their own, and     *)
(* concatenates their outputs.  A Task is modelled by what AsyncTask       *)
(* promises: an unbounded queue, run in order, each entry once.            *)
(*                                                                         *)
(* A hint is abstracted to one position that is split (or concatenated)    *)
(* and one that is not.  A tensor is a slice [call, start, end]: the rows  *)
(* start .. end - 1 of the input of forward call number call, and a        *)
(* model's output on a slice is that slice.                                *)
(***************************************************************************)
EXTENDS Integers, CPUPool

CONSTANTS
  CoreLists,    \* the lists pools are made with
  Streams,      \* the values of num_streams; 0 stands for "AUTO"
  Mode,         \* "concat", "raw" (concat_output is off), "benchmark"
  Batches,      \* batch sizes
  MaxCalls,     \* bound: forward calls
  MaxPins       \* bound: nested pin contexts

\* The second conjunct holds of every set of lists: a filtered list is a list.
ASSUME StreamsAssumption ==
  /\ Streams \subseteq Nat /\ Batches \subseteq Nat
  /\ \A l \in CoreLists : filter_cores_by_thread_affinity(l) \in Seq(Available)
  /\ Mode \subseteq {"concat", "raw", "benchmark"}
  /\ MaxCalls \in Nat /\ MaxPins \in Nat

VARIABLES
  mode, core_list, num_streams,
  tasks,                \* for each stream, the slice of core_list its Task has
  phase,                \* where the caller's thread is
  stream_id,            \* its loop variable
  split,                \* [start, end, each, extra]: the loop that splits
  batch,                \* split_size
  used_num_streams,
  args_streams_input,   \* for each stream, the slice it is given
  queue,                \* for each Task, the slices submitted and not yet run
  future,               \* results_raw_future: [status, rows] for each stream
  output,               \* self.output: [is, chunks, copy]
  calls,                \* forward calls so far
  result,               \* [status, chunks, copy] of the last one
  ran_on                \* the masks a synchronous forward ran the model with

constructed == <<mode, core_list, num_streams, tasks>>
forwardVars == <<phase, stream_id, split, batch, used_num_streams, args_streams_input>>
vars == <<cpuVars, constructed, forwardVars, queue, future, output, calls, result, ran_on>>

Least(a, b) == IF a < b THEN a ELSE b
Stream == 0 .. num_streams - 1
NoSlice == [call |-> 0, start |-> 0, end |-> 0]
NoFuture == [status |-> "none", rows |-> NoSlice]
Cores == Len(core_list)
-----------------------------------------------------------------------------
(* The constructor. *)

\* Mutant: the remainder is dropped.
Divided_NoExtra(n, k) == [start |-> 0, end |-> 0, each |-> n \div k, extra |-> 0]

\* The shares of n things over k streams, before the loop.
Divided(n, k) == [start |-> 0, end |-> 0, each |-> n \div k, extra |-> n % k]

\* update_split_idx, and the body of the constructor's loop.
Advanced(s, j) ==
  [s EXCEPT !.start = s.end, !.end = s.end + s.each + (IF j < s.extra THEN 1 ELSE 0)]

SliceOf(s, call) == [call |-> call, start |-> s.start, end |-> s.end]

Init ==
  /\ CPUInit
  /\ mode \in Mode
  /\ core_list \in {filter_cores_by_thread_affinity(l) : l \in CoreLists} \ {<<>>}
  /\ \E n \in Streams : num_streams = IF n = 0 THEN Cores ELSE Least(n, Cores)
  /\ tasks = [s \in Stream |-> NoSlice]
  /\ phase = IF num_streams = 1 THEN "idle" ELSE "construct"
  /\ stream_id = 0
  /\ split = Divided(Cores, num_streams)
  /\ batch = 0
  /\ used_num_streams = num_streams
  /\ args_streams_input = [s \in Stream |-> NoSlice]
  /\ queue = [s \in Stream |-> <<>>]
  /\ future = [s \in Stream |-> NoFuture]
  /\ output = [is |-> "hint", chunks |-> <<>>, copy |-> NoSlice]
  /\ calls = 0
  /\ result = [status |-> "none", chunks |-> <<>>, copy |-> NoSlice]
  /\ ran_on = affinity

\* One iteration: a Task on the next cores.
MakeTask ==
  /\ phase = "construct"
  /\ LET s == Advanced(split, stream_id)
     IN  /\ tasks' = [tasks EXCEPT ![stream_id] = SliceOf(s, 0)]
         /\ split' = s
  /\ stream_id' = stream_id + 1
  /\ phase' = IF stream_id' < num_streams THEN "construct" ELSE "idle"
  /\ UNCHANGED <<cpuVars, mode, core_list, num_streams, batch, used_num_streams,
                 args_streams_input, queue, future, output, calls, result, ran_on>>
-----------------------------------------------------------------------------
(* forward. *)

\* Mutant: a small batch is handed to all the streams.
init_forward_status_AllStreams(b) ==
  /\ split' = Advanced(Divided(b, num_streams), 0)
  /\ used_num_streams' = num_streams

\* Every stream gets its share; a batch smaller than the streams has one row
\* for each of the first ones.
init_forward_status(b) ==
  IF b >= num_streams
  THEN /\ split' = Advanced(Divided(b, num_streams), 0)
       /\ used_num_streams' = num_streams
  ELSE /\ split' = Advanced([start |-> 0, end |-> 0, each |-> 1, extra |-> 0], 0)
       /\ used_num_streams' = b

\* An indexing slice does not reach past the end.
Clipped(s, call, b) ==
  [call |-> call, start |-> s.start, end |-> Least(s.end, b)]

\* The call, up to stream 0's input: reset_forward_status and the first
\* recursion of _get_input_for_each_stream.
forward(b) ==
  /\ phase = "idle" /\ num_streams > 1 /\ mode # "benchmark"
  /\ calls < MaxCalls
  /\ calls' = calls + 1
  /\ batch' = b
  /\ init_forward_status(b)
  /\ args_streams_input' = [args_streams_input EXCEPT ![0] = Clipped(split', calls', b)]
  /\ phase' = "split"
  /\ stream_id' = 1
  /\ future' = [s \in Stream |-> NoFuture]
  /\ UNCHANGED <<cpuVars, constructed, queue, output, result, ran_on>>

\* The inputs of the other streams, in the order of their numbers.
SplitInput ==
  /\ phase = "split" /\ stream_id < used_num_streams
  /\ split' = Advanced(split, stream_id)
  /\ args_streams_input' =
       [args_streams_input EXCEPT ![stream_id] = Clipped(split', calls, batch)]
  /\ stream_id' = stream_id + 1
  /\ UNCHANGED <<cpuVars, constructed, phase, batch, used_num_streams, queue, future,
                 output, calls, result, ran_on>>

\* _MultiStreamBenchmarkModule: each stream runs the whole input.
ForwardBenchmark(b) ==
  /\ phase = "idle" /\ num_streams > 1 /\ mode = "benchmark"
  /\ calls < MaxCalls
  /\ calls' = calls + 1
  /\ batch' = b
  /\ used_num_streams' = num_streams
  /\ args_streams_input' =
       [s \in Stream |-> [call |-> calls', start |-> 0, end |-> b]]
  /\ phase' = "submit"
  /\ stream_id' = 0
  /\ future' = [s \in Stream |-> NoFuture]
  /\ UNCHANGED <<cpuVars, constructed, split, queue, output, result, ran_on>>

LoopEnds(from, to) ==
  /\ phase = from /\ stream_id >= used_num_streams
  /\ phase' = to
  /\ stream_id' = 0
  /\ UNCHANGED <<cpuVars, constructed, split, batch, used_num_streams, args_streams_input,
                 queue, future, output, calls, result, ran_on>>

\* tasks[stream_id](...): run_async of the stream's Task.
Submit ==
  /\ phase = "submit" /\ stream_id < used_num_streams
  /\ queue' = [queue EXCEPT ![stream_id] = Append(@, args_streams_input[stream_id])]
  /\ future' = [future EXCEPT ![stream_id].status = "pending"]
  /\ stream_id' = stream_id + 1
  /\ UNCHANGED <<cpuVars, constructed, phase, split, batch, used_num_streams,
                 args_streams_input, output, calls, result, ran_on>>

\* Mutant: the entry is read and not taken off the queue.
RunTask_NotPopped(s, status) ==
  /\ queue[s] # <<>>
  /\ LET job == Head(queue[s])
     IN  future' = [future EXCEPT ![s] =
                      IF @.status = "pending" /\ job.call = calls
                      THEN [status |-> status, rows |-> job] ELSE @]
  /\ UNCHANGED <<queue, cpuVars, constructed, forwardVars, output, calls, result, ran_on>>

\* A Task runs its oldest entry.  The model returns or raises; the future of an
\* entry whose forward has given up is gone.
RunTask(s, status) ==
  /\ queue[s] # <<>>
  /\ LET job == Head(queue[s])
     IN  future' = [future EXCEPT ![s] =
                      IF @.status = "pending" /\ job.call = calls
                      THEN [status |-> status, rows |-> job] ELSE @]
  /\ queue' = [queue EXCEPT ![s] = Tail(@)]
  /\ UNCHANGED <<cpuVars, constructed, forwardVars, output, calls, result, ran_on>>

\* Mutant: the list of an earlier call is not replaced.
_generate_outputs_NoReset(rows) ==
  output' = [is |-> "list",
             chunks |-> IF output.is = "list" THEN Append(output.chunks, rows) ELSE <<rows>>,
             copy |-> IF stream_id = 0 THEN rows ELSE output.copy]

\* Stream 0 starts a new list and gives the position that is not concatenated.
_generate_outputs(rows) ==
  output' = [is |-> "list",
             chunks |-> IF stream_id = 0 THEN <<rows>> ELSE Append(output.chunks, rows),
             copy |-> IF stream_id = 0 THEN rows ELSE output.copy]

\* get() of the stream's future, in the order of the streams; without
\* concatenation the outputs are listed in results_raw, here in output too.
Get ==
  /\ phase = "get" /\ stream_id < used_num_streams
  /\ future[stream_id].status = "ok"
  /\ _generate_outputs(future[stream_id].rows)
  /\ stream_id' = stream_id + 1
  /\ UNCHANGED <<cpuVars, constructed, phase, split, batch, used_num_streams,
                 args_streams_input, queue, future, calls, result, ran_on>>

\* The exception of the model leaves forward; the other streams run on.
GetRaises ==
  /\ phase = "get" /\ stream_id < used_num_streams
  /\ future[stream_id].status = "error"
  /\ result' = [result EXCEPT !.status = "raised"]
  /\ phase' = "idle"
  /\ UNCHANGED <<cpuVars, constructed, stream_id, split, batch, used_num_streams,
                 args_streams_input, queue, future, output, calls, ran_on>>

\* _concat_output_for_each_stream and the return.  With no stream used,
\* torch.cat meets what an earlier call has left: a list of tensors, or
\* something it raises on.  results_raw and the benchmark's list are local.
Return ==
  /\ phase = "get" /\ stream_id >= used_num_streams
  /\ CASE mode = "concat" /\ output.is = "list" ->
            /\ result' = [status |-> "returned", chunks |-> output.chunks, copy |-> output.copy]
            /\ output' = [output EXCEPT !.is = "tensor"]
       [] mode = "concat" /\ output.is # "list" ->
            /\ result' = [result EXCEPT !.status = "raised"]
            /\ UNCHANGED output
       [] mode = "raw" ->
            /\ result' = [status |-> "returned", copy |-> output.copy,
                          chunks |-> IF used_num_streams = 0 THEN <<>> ELSE output.chunks]
            /\ UNCHANGED output
       [] mode = "benchmark" ->
            /\ result' = [status |-> "returned", copy |-> output.copy,
                          chunks |-> <<output.chunks[1]>>]
            /\ UNCHANGED output
  /\ phase' = "idle"
  /\ UNCHANGED <<cpuVars, constructed, stream_id, split, batch, used_num_streams,
                 args_streams_input, queue, future, calls, ran_on>>

\* One stream: the model runs in the caller's thread, pinned first unless it is
\* believed to be pinned already.
ForwardSync(b, status) ==
  /\ phase = "idle" /\ num_streams = 1
  /\ calls < MaxCalls
  /\ calls' = calls + 1
  /\ batch' = b
  /\ IF is_same_core_affinity_setting(core_list)
     THEN UNCHANGED <<affinity, current_cpu_core_list, left_pin>>
     ELSE _pin_cpu_cores(core_list)
  /\ ran_on' = affinity'
  /\ LET rows == [call |-> calls', start |-> 0, end |-> b]
     IN  result' = IF status = "ok"
                   THEN [status |-> "returned", chunks |-> <<rows>>, copy |-> rows]
                   ELSE [result EXCEPT !.status = "raised"]
  /\ UNCHANGED <<previous_cpu_pool, constructed, phase, stream_id, split, used_num_streams,
                 args_streams_input, queue, future, output>>

\* The caller enters or leaves a pin context between two calls.
Pin(l) ==
  /\ phase = "idle" /\ Len(previous_cpu_pool) < MaxPins
  /\ filter_cores_by_thread_affinity(l) # <<>>
  /\ PinEnter(filter_cores_by_thread_affinity(l))
  /\ UNCHANGED <<constructed, forwardVars, queue, future, output, calls, result, ran_on>>

Unpin ==
  /\ phase = "idle"
  /\ PinExit
  /\ UNCHANGED <<constructed, forwardVars, queue, future, output, calls, result, ran_on>>

-----------------------------------------------------------------------------
Continue ==
  \/ MakeTask \/ SplitInput \/ Submit \/ Get \/ GetRaises \/ Return
  \/ LoopEnds("split", "submit") \/ LoopEnds("submit", "get")

Outcome == {"ok", "error"}

RunTasks(s) == \E status \in Outcome : RunTask(s, status)

Next ==
  \/ Continue
  \/ \E s \in Stream : RunTasks(s)
  \/ \E b \in Batches :
       \/ forward(b) \/ ForwardBenchmark(b)
       \/ \E status \in Outcome : ForwardSync(b, status)
  \/ \E l \in CoreLists : Pin(l)
  \/ Unpin

Spec == Init /\ [][Next]_vars

\* The caller's thread runs on while it is not waiting, and every Task runs
\* what it was given (FuturesReady of TaskExecutor).
FairSpec ==
  /\ Spec
  /\ WF_vars(Continue)
  /\ WF_vars(\E s \in Stream : RunTasks(s))
-----------------------------------------------------------------------------
\* slices[0 .. n - 1] are total things in their order, each once, and no two
\* shares differ by more than one; nobody's share is empty.
Tiles(slices, n, total) ==
  /\ slices[0].start = 0 /\ slices[n - 1].end = total
  /\ \A s \in 0 .. n - 2 : slices[s + 1].start = slices[s].end
  /\ \A s, t \in 0 .. n - 1 :
       /\ slices[s].start < slices[s].end
       /\ slices[s].end - slices[s].start <= slices[t].end - slices[t].start + 1

\* The constructor gives each core of the pool to exactly one stream and every
\* stream a core, whether or not the streams divide the cores, and also when
\* unavailable cores were filtered out or more streams than cores were asked.
CoresPartitioned ==
  phase # "construct" /\ num_streams > 1 => Tiles(tasks, num_streams, Cores)

\* When a forward call starts to submit, the streams it uses have its rows in
\* order, each row once, with a balanced share; no stream that is used still
\* has the input of an earlier call, whatever that call's batch was and
\* however it ended.
RowsPartitioned ==
  phase = "submit" /\ mode # "benchmark" /\ batch > 0 =>
    /\ used_num_streams = Least(batch, num_streams)
    /\ Tiles(args_streams_input, used_num_streams, batch)
    /\ \A s \in 0 .. used_num_streams - 1 : args_streams_input[s].call = calls

\* What forward returns for an input with at least one row is the output on
\* all the rows of that input, in order, although streams finish in any order,
\* an earlier call may have raised half way with its tasks still queued, and
\* the output list and the inputs are kept between calls.  An input without
\* rows uses no stream, and after a call that raised forward may return for it
\* the rows that call has left in output.
OwnRowsInOrder ==
  phase = "idle" /\ result.status = "returned" /\ batch > 0 =>
    LET n == Len(result.chunks) IN
    /\ n > 0
    /\ result.copy.call = calls
    /\ \A k \in 1 .. n :
         /\ result.chunks[k].call = calls
         /\ result.chunks[k].start = IF k = 1 THEN 0 ELSE result.chunks[k - 1].end
    /\ result.chunks[n].end = batch

\* Every forward call returns or raises: no stream is waited for that was given
\* nothing, also behind tasks an abandoned call has left in the queues.
ForwardEnds == phase # "idle" ~> phase = "idle"

\* "If the main thread's core affinity has been changed, we should set it
\* again": a synchronous forward runs the model on the module's own cores,
\* whatever other pools the thread was pinned to before, with one exception.
\* Leaving a pin context restores the mask and not the list the thread is
\* believed to be pinned to, so until the thread is pinned again forward may
\* trust a stale list.
SyncOnItsCores ==
  [][calls' # calls /\ num_streams = 1 /\ ~left_pin => ran_on' = PinnedTo(core_list)]_vars
=============================================================================
