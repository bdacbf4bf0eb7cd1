------------------------- MODULE MultiStreamProofs -------------------------
(***************************************************************************)
(* Proofs about MultiStream, for every number of cores, streams and rows:  *)
(* the division of cores and rows over the streams, what forward returns,  *)
(* and the cores a synchronous forward runs on.  The loops that divide     *)
(* keep running indices; the proofs follow them with the closed form of    *)
(* the indices, Pos.                                                       *)
(***************************************************************************)
EXTENDS MultiStream, TLAPS

\* Where the share of stream k starts, with `each' for everyone and one more
\* for the first `extra' streams.
Pos(each, extra, k) == k * each + Least(k, extra)

\* slices[0 .. k - 1] are as the loops compute them.
Shares(slices, each, extra, k) ==
  \A s \in 0 .. k - 1 : /\ slices[s].start = Pos(each, extra, s)
                        /\ slices[s].end = Pos(each, extra, s + 1)

\* The running indices after k iterations.
Running(s, each, extra, k) ==
  /\ s.each = each /\ s.extra = extra
  /\ s.end = Pos(each, extra, k)

EachCore == Cores \div num_streams
ExtraCore == Cores % num_streams
EachRow == IF batch >= num_streams THEN batch \div num_streams ELSE 1
ExtraRow == IF batch >= num_streams THEN batch % num_streams ELSE 0

Slice == [call : Nat, start : Nat, end : Nat]
Splitting == [start : Nat, end : Nat, each : Nat, extra : Nat]

\* What the loops rely on and keep.
Typed ==
  /\ core_list \in Seq(Available)
  /\ num_streams \in Nat \ {0} /\ num_streams <= Cores
  /\ phase \in {"construct", "idle", "split", "submit", "get"}
  /\ phase # "idle" => num_streams > 1
  /\ stream_id \in Nat
  /\ split \in Splitting
  /\ batch \in Nat
  /\ used_num_streams \in Nat /\ used_num_streams <= num_streams
  /\ calls \in Nat
  /\ tasks \in [Stream -> Slice]
  /\ args_streams_input \in [Stream -> Slice]

CoresShared ==
  IF phase = "construct"
  THEN /\ stream_id < num_streams
       /\ Running(split, EachCore, ExtraCore, stream_id)
       /\ Shares(tasks, EachCore, ExtraCore, stream_id)
  ELSE num_streams > 1 => Shares(tasks, EachCore, ExtraCore, num_streams)

RowsShared ==
  phase \in {"split", "submit"} /\ mode # "benchmark" /\ batch > 0 =>
    LET k == IF phase = "split" THEN stream_id ELSE used_num_streams IN
    /\ used_num_streams = Least(batch, num_streams)
    /\ k \in 1 .. used_num_streams
    /\ phase = "split" => Running(split, EachRow, ExtraRow, k)
    /\ Shares(args_streams_input, EachRow, ExtraRow, k)
    /\ \A s \in 0 .. k - 1 : args_streams_input[s].call = calls

Partitioning == Typed /\ CoresShared /\ RowsShared
-----------------------------------------------------------------------------
(* Arithmetic. *)

\* Pos is a natural number and starts at zero.
LEMMA PosType ==
  ASSUME NEW e \in Nat, NEW x \in Nat, NEW k \in Nat
  PROVE  Pos(e, x, k) \in Nat /\ Pos(e, x, 0) = 0
<1>1. k * e \in Nat /\ 0 * e = 0
  OBVIOUS
<1>2. Least(k, x) \in Nat /\ Least(0, x) = 0
  BY DEF Least
<1> QED
  BY <1>1, <1>2 DEF Pos

\* One iteration of either loop advances Pos by a share.
LEMMA PosNext ==
  ASSUME NEW e \in Nat, NEW x \in Nat, NEW k \in Nat
  PROVE  Pos(e, x, k + 1) = Pos(e, x, k) + e + (IF k < x THEN 1 ELSE 0)
<1>1. (k + 1) * e = k * e + e
  OBVIOUS
<1>2. Least(k + 1, x) = Least(k, x) + (IF k < x THEN 1 ELSE 0)
  BY DEF Least
<1>3. k * e \in Nat /\ Least(k, x) \in Nat
  BY DEF Least
<1> QED
  BY <1>1, <1>2, <1>3 DEF Pos

\* No share ends after the last one.
LEMMA PosMonotone ==
  ASSUME NEW e \in Nat, NEW x \in Nat, NEW n \in Nat, NEW k \in 0 .. n
  PROVE  Pos(e, x, k) <= Pos(e, x, n)
<1>1. k * e <= n * e
  <2>1. PICK d \in Nat : n = k + d
    OBVIOUS
  <2>2. (k + d) * e = k * e + d * e
    OBVIOUS
  <2>3. d * e \in Nat /\ k * e \in Nat
    OBVIOUS
  <2> QED
    BY <2>1, <2>2, <2>3
<1>2. Least(k, x) <= Least(n, x)
  BY DEF Least
<1>3. k * e \in Nat /\ n * e \in Nat /\ Least(k, x) \in Nat /\ Least(n, x) \in Nat
  BY DEF Least
<1> QED
  BY <1>1, <1>2, <1>3 DEF Pos

\* The shares of n things over k streams add up to n.
LEMMA DividedAll ==
  ASSUME NEW n \in Nat, NEW k \in Nat \ {0}, k <= n
  PROVE  /\ n \div k \in Nat \ {0} /\ n % k \in Nat
         /\ Pos(n \div k, n % k, k) = n
<1>1. n \div k \in Nat /\ n % k \in 0 .. k - 1
  OBVIOUS
<1>2. n = k * (n \div k) + (n % k)
  OBVIOUS
<1>3. n \div k # 0
  BY <1>1, <1>2
<1>4. Least(k, n % k) = n % k
  BY <1>1 DEF Least
<1> QED
  BY <1>1, <1>2, <1>3, <1>4 DEF Pos

\* One row for each of n streams is n rows.
LEMMA OneEach ==
  ASSUME NEW n \in Nat
  PROVE  Pos(1, 0, n) = n
BY DEF Pos, Least

\* Shares computed by the loops tile what is divided.
LEMMA SharesTile ==
  ASSUME NEW slices, NEW n \in Nat \ {0}, NEW e \in Nat \ {0}, NEW x \in Nat,
         Shares(slices, e, x, n)
  PROVE  Tiles(slices, n, Pos(e, x, n))
<1>1. slices[0].start = 0
  <2>1. Pos(e, x, 0) = 0
    BY PosType
  <2>2. 0 \in 0 .. n - 1
    OBVIOUS
  <2> QED
    BY <2>1, <2>2 DEF Shares
<1>2. slices[n - 1].end = Pos(e, x, n)
  <2>1. n - 1 \in 0 .. n - 1 /\ (n - 1) + 1 = n
    OBVIOUS
  <2> QED
    BY <2>1 DEF Shares
<1>3. ASSUME NEW s \in 0 .. n - 2
      PROVE  slices[s + 1].start = slices[s].end
  BY s \in 0 .. n - 1, s + 1 \in 0 .. n - 1 DEF Shares
<1>4. ASSUME NEW s \in 0 .. n - 1
      PROVE  /\ slices[s].start \in Nat /\ slices[s].end \in Nat
             /\ slices[s].end = slices[s].start + e + (IF s < x THEN 1 ELSE 0)
  <2>1. slices[s].start = Pos(e, x, s) /\ slices[s].end = Pos(e, x, s + 1)
    BY DEF Shares
  <2>2. s \in Nat /\ s + 1 \in Nat
    OBVIOUS
  <2>3. Pos(e, x, s) \in Nat /\ Pos(e, x, s + 1) \in Nat
    BY <2>2, PosType
  <2>4. Pos(e, x, s + 1) = Pos(e, x, s) + e + (IF s < x THEN 1 ELSE 0)
    BY <2>2, PosNext
  <2> QED
    BY <2>1, <2>3, <2>4
<1>5. ASSUME NEW s \in 0 .. n - 1, NEW t \in 0 .. n - 1
      PROVE  /\ slices[s].start < slices[s].end
             /\ slices[s].end - slices[s].start <= slices[t].end - slices[t].start + 1
  <2>1. slices[s].end - slices[s].start \in {e, e + 1}
    BY <1>4
  <2>2. slices[t].end - slices[t].start \in {e, e + 1}
    BY <1>4
  <2>3. slices[s].start < slices[s].end
    BY <1>4
  <2> QED
    BY <2>1, <2>2, <2>3
<1> QED
  BY <1>1, <1>2, <1>3, <1>5 DEF Tiles

\* An iteration adds the next share to those before it.
LEMMA SharesGrow ==
  ASSUME NEW slices, NEW e \in Nat, NEW x \in Nat, NEW k \in Nat, NEW n \in Nat,
         k < n, NEW new,
         DOMAIN slices = 0 .. n - 1,
         Shares(slices, e, x, k),
         new.start = Pos(e, x, k), new.end = Pos(e, x, k + 1)
  PROVE  Shares([slices EXCEPT ![k] = new], e, x, k + 1)
BY DEF Shares

\* One iteration of a loop, from the running indices to the next ones.
LEMMA AdvancedRunning ==
  ASSUME NEW s \in Splitting,
         NEW e \in Nat, NEW x \in Nat, NEW k \in Nat, Running(s, e, x, k)
  PROVE  /\ Advanced(s, k) \in Splitting
         /\ Advanced(s, k).each = e /\ Advanced(s, k).extra = x
         /\ Advanced(s, k).start = Pos(e, x, k)
         /\ Advanced(s, k).end = Pos(e, x, k + 1)
<1>1. Pos(e, x, k) \in Nat /\ Pos(e, x, k + 1) \in Nat
  BY k + 1 \in Nat, PosType
<1>2. Pos(e, x, k + 1) = Pos(e, x, k) + e + (IF k < x THEN 1 ELSE 0)
  BY PosNext
<1>3. s.end = Pos(e, x, k) /\ s.each = e /\ s.extra = x
  BY DEF Running
<1>4. /\ Advanced(s, k).each = e /\ Advanced(s, k).extra = x
      /\ Advanced(s, k).start = Pos(e, x, k)
  BY <1>3 DEF Advanced, Splitting
<1>5. Advanced(s, k).end = s.end + s.each + (IF k < s.extra THEN 1 ELSE 0)
  BY DEF Advanced, Splitting
<1>6. Advanced(s, k).end = Pos(e, x, k + 1)
  BY <1>1, <1>2, <1>3, <1>5
<1>7. s.end + s.each + (IF k < s.extra THEN 1 ELSE 0) \in Nat
  BY DEF Splitting
<1>8. Advanced(s, k) \in Splitting
  BY <1>7 DEF Advanced, Splitting
<1> QED
  BY <1>4, <1>6, <1>8
-----------------------------------------------------------------------------
(* The loops. *)

\* The constructor is about to make the first Task.
LEMMA InitPartitions == Init => Partitioning
<1> SUFFICES ASSUME Init PROVE Partitioning
  OBVIOUS
<1>1. core_list \in Seq(Available) /\ Cores \in Nat \ {0}
  BY StreamsAssumption DEF Init, Cores
<1>2. num_streams \in Nat \ {0} /\ num_streams <= Cores
  BY <1>1, StreamsAssumption DEF Init, Least
<1>3. EachCore \in Nat \ {0} /\ ExtraCore \in Nat
  BY <1>1, <1>2, DividedAll DEF EachCore, ExtraCore
<1>4. split = [start |-> 0, end |-> 0, each |-> EachCore, extra |-> ExtraCore]
  BY DEF Init, Divided, EachCore, ExtraCore
<1>5. Typed
  <2>1. split \in Splitting
    BY <1>3, <1>4 DEF Splitting
  <2>2. NoSlice \in Slice
    BY DEF NoSlice, Slice
  <2>3. tasks \in [Stream -> Slice] /\ args_streams_input \in [Stream -> Slice]
    BY <2>2 DEF Init
  <2>4. /\ phase \in {"construct", "idle", "split", "submit", "get"}
        /\ phase # "idle" => num_streams > 1
    BY <1>2 DEF Init
  <2> QED
    BY <1>1, <1>2, <2>1, <2>3, <2>4 DEF Typed, Init
<1>6. CoresShared
  <2>1. CASE phase = "construct"
    <3>1. Pos(EachCore, ExtraCore, 0) = 0
      BY <1>3, PosType
    <3>2. Running(split, EachCore, ExtraCore, stream_id)
      BY <1>4, <3>1 DEF Running, Init
    <3>3. Shares(tasks, EachCore, ExtraCore, stream_id)
      BY DEF Shares, Init
    <3> QED
      BY <1>2, <2>1, <3>2, <3>3 DEF CoresShared, Init
  <2>2. CASE phase # "construct"
    BY <1>2, <2>2 DEF CoresShared, Init
  <2> QED
    BY <2>1, <2>2
<1>7. RowsShared
  BY DEF RowsShared, Init
<1> QED
  BY <1>5, <1>6, <1>7 DEF Partitioning

\* What an action leaves alone in order to leave the division of cores alone.
LEMMA CoresKept ==
  ASSUME CoresShared, phase # "construct", phase' # "construct",
         UNCHANGED constructed
  PROVE  CoresShared'
BY DEF CoresShared, constructed, Shares, EachCore, ExtraCore, Cores, Pos

\* The shares of the rows of a batch, before the first iteration.
LEMMA RowShares ==
  ASSUME NEW b \in Nat \ {0}, NEW n \in Nat \ {0},
         NEW e, NEW x,
         e = (IF b >= n THEN b \div n ELSE 1),
         x = (IF b >= n THEN b % n ELSE 0)
  PROVE  /\ e \in Nat \ {0} /\ x \in Nat
         /\ Least(b, n) \in 1 .. n
         /\ Pos(e, x, Least(b, n)) = b
<1>1. CASE b >= n
  <2>1. e = b \div n /\ x = b % n /\ Least(b, n) = n
    BY <1>1 DEF Least
  <2> QED
    BY <1>1, <2>1, DividedAll
<1>2. CASE b < n
  <2>1. e = 1 /\ x = 0 /\ Least(b, n) = b
    BY <1>2 DEF Least
  <2> QED
    BY <1>2, <2>1, OneEach
<1> QED
  BY <1>1, <1>2

\* A Task more: the constructor's loop.
LEMMA MakeTaskPartitions == Partitioning /\ MakeTask => Partitioning'
<1> SUFFICES ASSUME Typed, CoresShared, MakeTask PROVE Partitioning'
  BY DEF Partitioning
<1> DEFINE k == stream_id
           s == Advanced(split, k)
<1>1. /\ phase = "construct" /\ k \in Nat /\ k < num_streams
      /\ num_streams \in Nat \ {0} /\ Cores \in Nat /\ num_streams <= Cores
      /\ split \in Splitting
      /\ Running(split, EachCore, ExtraCore, k)
      /\ Shares(tasks, EachCore, ExtraCore, k)
  BY DEF MakeTask, Typed, CoresShared, Cores
<1>2. EachCore \in Nat \ {0} /\ ExtraCore \in Nat /\ k \in Nat
  BY <1>1, DividedAll DEF EachCore, ExtraCore
<1>3. /\ s \in Splitting
      /\ s.each = EachCore /\ s.extra = ExtraCore
      /\ s.start = Pos(EachCore, ExtraCore, k)
      /\ s.end = Pos(EachCore, ExtraCore, k + 1)
  <2>1. /\ split \in Splitting /\ Running(split, EachCore, ExtraCore, k)
        /\ EachCore \in Nat /\ ExtraCore \in Nat /\ k \in Nat
    BY <1>1, <1>2
  <2>2. /\ Advanced(split, k) \in Splitting
        /\ Advanced(split, k).each = EachCore /\ Advanced(split, k).extra = ExtraCore
        /\ Advanced(split, k).start = Pos(EachCore, ExtraCore, k)
        /\ Advanced(split, k).end = Pos(EachCore, ExtraCore, k + 1)
    BY <2>1, AdvancedRunning, SMT
  <2> QED
    BY <2>2
<1>4. /\ tasks' = [tasks EXCEPT ![k] = SliceOf(s, 0)]
      /\ split' = s /\ stream_id' = k + 1
      /\ phase' = IF k + 1 < num_streams THEN "construct" ELSE "idle"
      /\ UNCHANGED <<mode, core_list, num_streams, batch, used_num_streams,
                     args_streams_input, calls>>
  BY DEF MakeTask
<1>5. EachCore' = EachCore /\ ExtraCore' = ExtraCore /\ Cores' = Cores /\ Stream' = Stream
  BY <1>4 DEF EachCore, ExtraCore, Cores, Stream
<1>6. SliceOf(s, 0) \in Slice
  <2>1. s.start \in Nat /\ s.end \in Nat
    BY <1>3 DEF Splitting
  <2> QED
    BY <2>1 DEF SliceOf, Slice
<1>7. Typed'
  <2>1. tasks' \in [Stream -> Slice]
    BY <1>4, <1>6 DEF Typed
  <2>2. k + 1 \in Nat
    BY <1>1
  <2>3. phase' \in {"construct", "idle"} /\ num_streams > 1
    BY <1>1, <1>4 DEF Typed
  <2> QED
    BY <1>3, <1>4, <1>5, <2>1, <2>2, <2>3 DEF Typed
<1>8. Shares(tasks', EachCore, ExtraCore, k + 1)
  <2>1. DOMAIN tasks = 0 .. num_streams - 1
    BY DEF Typed, Stream
  <2>2. /\ SliceOf(s, 0).start = Pos(EachCore, ExtraCore, k)
        /\ SliceOf(s, 0).end = Pos(EachCore, ExtraCore, k + 1)
    BY <1>3 DEF SliceOf
  <2> QED
    BY <1>1, <1>2, <1>4, <2>1, <2>2, SharesGrow
<1>9. CoresShared'
  <2>1. Running(split', EachCore, ExtraCore, k + 1)
    BY <1>3, <1>4 DEF Running
  <2>2. CASE k + 1 < num_streams
    BY <1>4, <1>5, <1>8, <2>1, <2>2 DEF CoresShared
  <2>3. CASE ~(k + 1 < num_streams)
    <3>1. k + 1 = num_streams
      BY <1>1, <2>3
    <3> QED
      BY <1>4, <1>5, <1>8, <2>3, <3>1 DEF CoresShared
  <2> QED
    BY <2>2, <2>3
<1>10. RowsShared'
  BY <1>4 DEF RowsShared
<1> QED
  BY <1>7, <1>9, <1>10 DEF Partitioning

\* A call: the share of stream 0.
LEMMA ForwardPartitions ==
  ASSUME Partitioning, NEW b \in Batches, forward(b)
  PROVE  Partitioning'
<1>1. /\ Typed /\ CoresShared
      /\ phase = "idle" /\ num_streams > 1 /\ num_streams \in Nat \ {0}
      /\ b \in Nat /\ calls \in Nat
      /\ calls' = calls + 1 /\ batch' = b /\ phase' = "split" /\ stream_id' = 1
      /\ args_streams_input' = [args_streams_input EXCEPT ![0] = Clipped(split', calls', b)]
      /\ UNCHANGED constructed
  BY StreamsAssumption DEF Partitioning, forward, Typed
<1> DEFINE e == IF b >= num_streams THEN b \div num_streams ELSE 1
           x == IF b >= num_streams THEN b % num_streams ELSE 0
<1>2. /\ e \in Nat /\ x \in Nat
      /\ split' = Advanced([start |-> 0, end |-> 0, each |-> e, extra |-> x], 0)
      /\ used_num_streams' = Least(b, num_streams)
  <2>1. CASE b >= num_streams
    <3>1. e = b \div num_streams /\ x = b % num_streams
      BY <2>1
    <3>2. e \in Nat /\ x \in Nat
      BY <1>1, <2>1, <3>1, DividedAll
    <3>3. Least(b, num_streams) = num_streams
      BY <1>1, <2>1 DEF Least
    <3> QED
      BY <2>1, <3>1, <3>2, <3>3 DEF forward, init_forward_status, Divided
  <2>2. CASE ~(b >= num_streams)
    BY <1>1, <2>2 DEF forward, init_forward_status, Divided, Least
  <2> QED
    BY <2>1, <2>2
<1>3. /\ split' \in Splitting
      /\ split'.each = e /\ split'.extra = x /\ split'.start = 0
      /\ split'.end = Pos(e, x, 1)
  <2> DEFINE first == [start |-> 0, end |-> 0, each |-> e, extra |-> x]
  <2> HIDE DEF e, x
  <2>1. first \in Splitting
    BY <1>2 DEF Splitting
  <2>2. Pos(e, x, 0) = 0
    BY <1>2, PosType
  <2>3. Running(first, e, x, 0)
    BY <2>2 DEF Running
  <2>4. /\ Advanced(first, 0) \in Splitting
        /\ Advanced(first, 0).each = e /\ Advanced(first, 0).extra = x
        /\ Advanced(first, 0).start = Pos(e, x, 0)
        /\ Advanced(first, 0).end = Pos(e, x, 0 + 1)
    BY <1>2, <2>1, <2>3, AdvancedRunning
  <2> QED
    BY <1>2, <2>2, <2>4
<1>4. /\ EachRow' = e /\ ExtraRow' = x /\ Cores' = Cores /\ Stream' = Stream
      /\ num_streams' = num_streams
  BY <1>1 DEF EachRow, ExtraRow, Cores, Stream, constructed
<1>5. Clipped(split', calls', b) \in Slice
  <2>1. split'.start \in Nat /\ split'.end \in Nat
    BY <1>3 DEF Splitting
  <2>2. Least(split'.end, b) \in Nat
    BY <1>1, <2>1 DEF Least
  <2> QED
    BY <1>1, <2>1, <2>2 DEF Clipped, Slice
<1>6. Typed'
  <2>1. used_num_streams' \in Nat /\ used_num_streams' <= num_streams
    BY <1>1, <1>2 DEF Least
  <2>2. args_streams_input' \in [Stream -> Slice]
    BY <1>1, <1>5 DEF Typed
  <2>3. calls' \in Nat /\ stream_id' \in Nat
    BY <1>1
  <2> QED
    BY <1>1, <1>3, <1>4, <2>1, <2>2, <2>3 DEF Typed, constructed
<1>7. CoresShared'
  BY <1>1, CoresKept
<1>8. RowsShared'
  <2> SUFFICES ASSUME b > 0 PROVE RowsShared'
    BY <1>1 DEF RowsShared
  <2>1. /\ e \in Nat \ {0} /\ Least(b, num_streams) \in 1 .. num_streams
        /\ Pos(e, x, Least(b, num_streams)) = b
    BY <1>1, RowShares
  <2>2. Pos(e, x, 0) = 0 /\ Pos(e, x, 1) \in Nat
    BY <1>2, PosType
  <2>3. Pos(e, x, 1) <= b
    <3>1. 1 \in 0 .. Least(b, num_streams) /\ Least(b, num_streams) \in Nat
      BY <2>1
    <3> QED
      BY <1>2, <2>1, <3>1, PosMonotone
  <2>4. Running(split', e, x, 1)
    BY <1>3 DEF Running
  <2>5. /\ args_streams_input'[0].start = 0 /\ args_streams_input'[0].end = Pos(e, x, 1)
        /\ args_streams_input'[0].call = calls'
    <3>1. 0 \in Stream
      BY <1>1 DEF Stream
    <3>2. args_streams_input'[0] = Clipped(split', calls', b)
      BY <1>1, <3>1 DEF Typed
    <3>3. split'.end = Pos(e, x, 1) /\ Least(split'.end, b) = split'.end
      BY <1>1, <1>2, <1>3, <2>2, <2>3 DEF Least
    <3> QED
      BY <1>3, <3>2, <3>3 DEF Clipped
  <2>6. Shares(args_streams_input', e, x, 1)
    <3>1. ASSUME NEW s \in 0 .. 1 - 1 PROVE s = 0
      OBVIOUS
    <3> QED
      BY <2>2, <2>5, <3>1 DEF Shares
  <2>7. \A s \in 0 .. 1 - 1 : args_streams_input'[s].call = calls'
    <3>1. ASSUME NEW s \in 0 .. 1 - 1 PROVE s = 0
      OBVIOUS
    <3> QED
      BY <2>5, <3>1
  <2> QED
    BY <1>1, <1>2, <1>4, <2>1, <2>4, <2>6, <2>7 DEF RowsShared
<1> QED
  BY <1>6, <1>7, <1>8 DEF Partitioning

\* Another iteration of the loop that splits the rows.
LEMMA SplitPartitions == Partitioning /\ SplitInput => Partitioning'
<1> SUFFICES ASSUME Partitioning, SplitInput PROVE Partitioning'
  OBVIOUS
<1>1. /\ Typed /\ CoresShared /\ RowsShared
      /\ phase = "split" /\ stream_id \in Nat /\ stream_id < used_num_streams
      /\ num_streams \in Nat \ {0} /\ num_streams > 1
      /\ used_num_streams \in Nat /\ used_num_streams <= num_streams
      /\ split \in Splitting /\ batch \in Nat /\ calls \in Nat
      /\ stream_id' = stream_id + 1
      /\ split' = Advanced(split, stream_id)
      /\ args_streams_input' =
           [args_streams_input EXCEPT ![stream_id] = Clipped(split', calls, batch)]
      /\ UNCHANGED <<constructed, phase, batch, used_num_streams, calls>>
  BY DEF Partitioning, SplitInput, Typed
<1>2. /\ EachRow' = EachRow /\ ExtraRow' = ExtraRow /\ Cores' = Cores /\ Stream' = Stream
      /\ num_streams' = num_streams /\ mode' = mode
  BY <1>1 DEF EachRow, ExtraRow, Cores, Stream, constructed
<1>3. split' \in Splitting
  <2>1. /\ split.end \in Nat /\ split.each \in Nat
        /\ split.end + split.each + (IF stream_id < split.extra THEN 1 ELSE 0) \in Nat
    BY <1>1 DEF Splitting
  <2> QED
    BY <1>1, <2>1 DEF Advanced, Splitting
<1>4. Clipped(split', calls, batch) \in Slice
  <2>1. split'.start \in Nat /\ split'.end \in Nat
    BY <1>3 DEF Splitting
  <2>2. Least(split'.end, batch) \in Nat
    BY <1>1, <2>1 DEF Least
  <2> QED
    BY <1>1, <2>1, <2>2 DEF Clipped, Slice
<1>5. Typed'
  <2>1. args_streams_input' \in [Stream -> Slice]
    BY <1>1, <1>4 DEF Typed
  <2>2. stream_id' \in Nat
    BY <1>1
  <2> QED
    BY <1>1, <1>2, <1>3, <2>1, <2>2 DEF Typed, constructed
<1>6. CoresShared'
  BY <1>1, CoresKept
<1>7. RowsShared'
  <2> SUFFICES ASSUME mode # "benchmark", batch > 0 PROVE RowsShared'
    BY <1>1, <1>2 DEF RowsShared
  <2>1. /\ EachRow \in Nat \ {0} /\ ExtraRow \in Nat
        /\ Pos(EachRow, ExtraRow, Least(batch, num_streams)) = batch
    <3>1. /\ EachRow = (IF batch >= num_streams THEN batch \div num_streams ELSE 1)
          /\ ExtraRow = (IF batch >= num_streams THEN batch % num_streams ELSE 0)
      BY DEF EachRow, ExtraRow
    <3>2. batch \in Nat \ {0} /\ num_streams \in Nat \ {0}
      BY <1>1
    <3> QED
      BY <3>1, <3>2, RowShares
  <2>2. /\ used_num_streams = Least(batch, num_streams)
        /\ stream_id \in 1 .. used_num_streams
        /\ Running(split, EachRow, ExtraRow, stream_id)
        /\ Shares(args_streams_input, EachRow, ExtraRow, stream_id)
        /\ \A s \in 0 .. stream_id - 1 : args_streams_input[s].call = calls
    BY <1>1 DEF RowsShared
  <2>3. /\ split'.each = EachRow /\ split'.extra = ExtraRow
        /\ split'.start = Pos(EachRow, ExtraRow, stream_id)
        /\ split'.end = Pos(EachRow, ExtraRow, stream_id + 1)
    BY <1>1, <2>1, <2>2, AdvancedRunning
  <2>4. Pos(EachRow, ExtraRow, stream_id + 1) <= batch
    <3>1. stream_id + 1 \in 0 .. used_num_streams
      BY <1>1
    <3> QED
      BY <1>1, <2>1, <2>2, <3>1, PosMonotone
  <2>5. Pos(EachRow, ExtraRow, stream_id + 1) \in Nat
    BY <1>1, <2>1, stream_id + 1 \in Nat, PosType
  <2> DEFINE new == Clipped(split', calls, batch)
  <2>6. /\ new.start = Pos(EachRow, ExtraRow, stream_id)
        /\ new.end = Pos(EachRow, ExtraRow, stream_id + 1)
        /\ new.call = calls
    <3>1. Least(split'.end, batch) = split'.end
      BY <1>1, <2>3, <2>4, <2>5 DEF Least
    <3> QED
      BY <2>3, <3>1 DEF Clipped
  <2>7. DOMAIN args_streams_input = 0 .. num_streams - 1 /\ stream_id < num_streams
    BY <1>1 DEF Typed, Stream
  <2>8. Shares(args_streams_input', EachRow, ExtraRow, stream_id + 1)
    <3> HIDE DEF new
    <3>1. args_streams_input' = [args_streams_input EXCEPT ![stream_id] = new]
      BY <1>1 DEF new
    <3>2. /\ EachRow \in Nat /\ ExtraRow \in Nat /\ stream_id \in Nat /\ num_streams \in Nat
          /\ stream_id < num_streams
      BY <1>1, <2>1
    <3>3. Shares([args_streams_input EXCEPT ![stream_id] = new],
                 EachRow, ExtraRow, stream_id + 1)
      BY <2>2, <2>6, <2>7, <3>2, SharesGrow
    <3> QED
      BY <3>1, <3>3
  <2>9. \A s \in 0 .. (stream_id + 1) - 1 : args_streams_input'[s].call = calls
    <3> HIDE DEF new
    <3>1. args_streams_input' = [args_streams_input EXCEPT ![stream_id] = new]
      BY <1>1 DEF new
    <3> QED
      BY <1>1, <2>2, <2>6, <2>7, <3>1
  <2>10. Running(split', EachRow, ExtraRow, stream_id + 1)
    BY <2>3 DEF Running
  <2>11. stream_id + 1 \in 1 .. used_num_streams
    BY <1>1
  <2> QED
    BY <1>1, <1>2, <2>2, <2>8, <2>9, <2>10, <2>11 DEF RowsShared
<1> QED
  BY <1>5, <1>6, <1>7 DEF Partitioning

\* The benchmark's calls are not split.
LEMMA BenchmarkPartitions ==
  ASSUME Partitioning, NEW b \in Batches, ForwardBenchmark(b)
  PROVE  Partitioning'
<1>1. /\ Typed /\ CoresShared
      /\ phase = "idle" /\ num_streams > 1 /\ num_streams \in Nat \ {0}
      /\ mode = "benchmark" /\ b \in Nat /\ calls \in Nat
      /\ calls' = calls + 1 /\ batch' = b /\ phase' = "submit" /\ stream_id' = 0
      /\ used_num_streams' = num_streams
      /\ args_streams_input' = [s \in Stream |-> [call |-> calls', start |-> 0, end |-> b]]
      /\ UNCHANGED <<constructed, split>>
  BY StreamsAssumption DEF Partitioning, ForwardBenchmark, Typed
<1>2. Cores' = Cores /\ Stream' = Stream /\ mode' = mode
  BY <1>1 DEF Cores, Stream, constructed
<1>3. Typed'
  <2>1. args_streams_input' \in [Stream -> Slice]
    BY <1>1 DEF Slice
  <2>2. calls' \in Nat
    BY <1>1
  <2> QED
    BY <1>1, <1>2, <2>1, <2>2 DEF Typed, constructed
<1>4. CoresShared'
  BY <1>1, CoresKept
<1>5. RowsShared'
  BY <1>1, <1>2 DEF RowsShared
<1> QED
  BY <1>3, <1>4, <1>5 DEF Partitioning

\* The end of a loop; after the splitting one all rows are shared out.
LEMMA LoopEndPartitions ==
  ASSUME Partitioning,
         \/ LoopEnds("split", "submit")
         \/ LoopEnds("submit", "get")
  PROVE  Partitioning'
<1>1. /\ Typed /\ CoresShared /\ RowsShared
      /\ phase \in {"split", "submit"} /\ phase' \in {"submit", "get"}
      /\ phase' = "submit" => phase = "split"
      /\ stream_id \in Nat /\ used_num_streams \in Nat /\ num_streams \in Nat
      /\ stream_id >= used_num_streams /\ stream_id' = 0
      /\ UNCHANGED <<constructed, split, batch, used_num_streams, args_streams_input, calls>>
  BY DEF Partitioning, LoopEnds, Typed
<1>2. /\ EachRow' = EachRow /\ ExtraRow' = ExtraRow /\ Cores' = Cores /\ Stream' = Stream
      /\ num_streams' = num_streams /\ mode' = mode
  BY <1>1 DEF EachRow, ExtraRow, Cores, Stream, constructed
<1>3. Typed'
  BY <1>1, <1>2 DEF Typed, constructed
<1>4. CoresShared'
  BY <1>1, CoresKept
<1>5. RowsShared'
  <2>1. CASE phase' = "get"
    BY <2>1 DEF RowsShared
  <2>2. CASE phase' = "submit" /\ mode # "benchmark" /\ batch > 0
    <3>1. /\ used_num_streams = Least(batch, num_streams)
          /\ stream_id \in 1 .. used_num_streams
          /\ Shares(args_streams_input, EachRow, ExtraRow, stream_id)
          /\ \A s \in 0 .. stream_id - 1 : args_streams_input[s].call = calls
      BY <1>1, <2>2 DEF RowsShared
    <3>2. stream_id = used_num_streams
      BY <1>1, <3>1
    <3> QED
      BY <1>1, <1>2, <2>2, <3>1, <3>2 DEF RowsShared
  <2>3. CASE phase' = "submit" /\ ~(mode # "benchmark" /\ batch > 0)
    BY <1>1, <1>2, <2>3 DEF RowsShared
  <2> QED
    BY <1>1, <2>1, <2>2, <2>3
<1> QED
  BY <1>3, <1>4, <1>5 DEF Partitioning

\* The other steps divide nothing.
LEMMA OtherStepsPartition ==
  ASSUME Partitioning,
         UNCHANGED <<constructed, split, used_num_streams, args_streams_input>>,
         \/ UNCHANGED <<phase, stream_id, batch, calls>>
         \/ /\ phase \in {"submit", "get"} /\ phase' = phase
            /\ stream_id' = stream_id + 1 /\ UNCHANGED <<batch, calls>>
         \/ phase = "get" /\ phase' = "idle" /\ UNCHANGED <<stream_id, batch, calls>>
         \/ /\ phase = "idle" /\ phase' = "idle" /\ UNCHANGED stream_id
            /\ batch' \in Nat /\ calls' \in Nat
  PROVE  Partitioning'
<1>1. /\ EachCore' = EachCore /\ ExtraCore' = ExtraCore /\ Cores' = Cores /\ Stream' = Stream
      /\ num_streams' = num_streams /\ mode' = mode /\ tasks' = tasks
  BY DEF EachCore, ExtraCore, Cores, Stream, constructed
<1>2. Typed'
  <2>1. stream_id' \in Nat /\ batch' \in Nat /\ calls' \in Nat
    BY DEF Partitioning, Typed
  <2>2. /\ phase' \in {"construct", "idle", "split", "submit", "get"}
        /\ phase' # "idle" => num_streams > 1
    BY DEF Partitioning, Typed
  <2> QED
    BY <1>1, <2>1, <2>2 DEF Partitioning, Typed, constructed
<1>3. CoresShared'
  <2>1. CASE phase = "construct"
    BY <1>1, <2>1 DEF Partitioning, CoresShared
  <2>2. CASE phase # "construct"
    <3>1. phase' # "construct"
      BY <2>2
    <3> QED
      BY <2>2, <3>1, CoresKept DEF Partitioning
  <2> QED
    BY <2>1, <2>2
<1>4. RowsShared'
  <2>1. CASE UNCHANGED <<phase, stream_id, batch, calls>>
    <3>1. EachRow' = EachRow /\ ExtraRow' = ExtraRow
      BY <1>1, <2>1 DEF EachRow, ExtraRow
    <3> QED
      BY <1>1, <2>1, <3>1 DEF Partitioning, RowsShared
  <2>2. CASE phase \in {"submit", "get"} /\ phase' = phase /\ UNCHANGED <<batch, calls>>
    <3>1. EachRow' = EachRow /\ ExtraRow' = ExtraRow
      BY <1>1, <2>2 DEF EachRow, ExtraRow
    <3> QED
      BY <1>1, <2>2, <3>1 DEF Partitioning, RowsShared
  <2>3. CASE phase' = "idle"
    BY <2>3 DEF RowsShared
  <2> QED
    BY <2>1, <2>2, <2>3
<1> QED
  BY <1>2, <1>3, <1>4 DEF Partitioning

\* Every step of the module keeps the division.
LEMMA NextPartitions == Partitioning /\ [Next]_vars => Partitioning'
<1> SUFFICES ASSUME Partitioning, [Next]_vars PROVE Partitioning'
  OBVIOUS
<1>1. CASE MakeTask
  BY <1>1, MakeTaskPartitions
<1>2. CASE SplitInput
  BY <1>2, SplitPartitions
<1>3. CASE LoopEnds("split", "submit") \/ LoopEnds("submit", "get")
  BY <1>3, LoopEndPartitions
<1>4. CASE Submit
  BY <1>4, OtherStepsPartition DEF Submit
<1>5. CASE Get
  BY <1>5, OtherStepsPartition DEF Get
<1>6. CASE GetRaises
  BY <1>6, OtherStepsPartition DEF GetRaises
<1>7. CASE Return
  BY <1>7, OtherStepsPartition DEF Return
<1>8. ASSUME NEW s \in Stream, RunTasks(s) PROVE Partitioning'
  BY <1>8, OtherStepsPartition DEF RunTasks, RunTask, forwardVars
<1>9. ASSUME NEW b \in Batches, forward(b) PROVE Partitioning'
  BY <1>9, ForwardPartitions
<1>10. ASSUME NEW b \in Batches, ForwardBenchmark(b) PROVE Partitioning'
  BY <1>10, BenchmarkPartitions
<1>11. ASSUME NEW b \in Batches, NEW status \in Outcome, ForwardSync(b, status)
       PROVE  Partitioning'
  <2>1. b \in Nat /\ calls + 1 \in Nat
    BY StreamsAssumption DEF Partitioning, Typed
  <2> QED
    BY <1>11, <2>1, OtherStepsPartition DEF ForwardSync
<1>12. ASSUME NEW l \in CoreLists, Pin(l) PROVE Partitioning'
  BY <1>12, OtherStepsPartition DEF Pin, forwardVars
<1>13. CASE Unpin
  BY <1>13, OtherStepsPartition DEF Unpin, forwardVars
<1>14. CASE UNCHANGED vars
  BY <1>14, OtherStepsPartition DEF vars, forwardVars
<1> QED
  BY <1>1, <1>2, <1>3, <1>4, <1>5, <1>6, <1>7, <1>8, <1>9, <1>10, <1>11, <1>12, <1>13,
     <1>14 DEF Next, Continue

\* The division follows its closed form in every reachable state.
THEOREM AlwaysPartitioned == Spec => []Partitioning
BY InitPartitions, NextPartitions, PTL DEF Spec

\* The constructor (multi_stream.py, __init__) gives each core to exactly one
\* stream, evenly, for every pool and every number of streams.
THEOREM CoresDivided == Spec => []CoresPartitioned
<1>1. Partitioning => CoresPartitioned
  <2> SUFFICES ASSUME Typed, CoresShared, phase # "construct", num_streams > 1
               PROVE  Tiles(tasks, num_streams, Cores)
    BY DEF Partitioning, CoresPartitioned
  <2>1. num_streams \in Nat \ {0} /\ Cores \in Nat /\ num_streams <= Cores
    BY DEF Typed, Cores
  <2>2. /\ EachCore \in Nat \ {0} /\ ExtraCore \in Nat
        /\ Pos(EachCore, ExtraCore, num_streams) = Cores
    BY <2>1, DividedAll DEF EachCore, ExtraCore
  <2>3. Shares(tasks, EachCore, ExtraCore, num_streams)
    BY DEF CoresShared
  <2>4. Tiles(tasks, num_streams, Pos(EachCore, ExtraCore, num_streams))
    BY <2>1, <2>2, <2>3, SharesTile
  <2> QED
    BY <2>2, <2>4
<1> QED
  BY <1>1, AlwaysPartitioned, PTL

\* Every forward call (_get_input_for_each_stream) hands all rows of its own
\* input to the streams, in order, each row once and evenly, for every batch
\* size, whatever earlier calls have left in the inputs kept for each stream.
THEOREM RowsDivided == Spec => []RowsPartitioned
<1>1. Partitioning => RowsPartitioned
  <2> SUFFICES ASSUME Typed, RowsShared, phase = "submit", mode # "benchmark", batch > 0
               PROVE  /\ used_num_streams = Least(batch, num_streams)
                      /\ Tiles(args_streams_input, used_num_streams, batch)
                      /\ \A s \in 0 .. used_num_streams - 1 :
                           args_streams_input[s].call = calls
    BY DEF Partitioning, RowsPartitioned
  <2>1. /\ used_num_streams = Least(batch, num_streams)
        /\ used_num_streams \in Nat \ {0}
        /\ Shares(args_streams_input, EachRow, ExtraRow, used_num_streams)
        /\ \A s \in 0 .. used_num_streams - 1 : args_streams_input[s].call = calls
    BY DEF RowsShared, Typed
  <2>2. /\ EachRow \in Nat \ {0} /\ ExtraRow \in Nat
        /\ Pos(EachRow, ExtraRow, used_num_streams) = batch
    <3>1. /\ EachRow = (IF batch >= num_streams THEN batch \div num_streams ELSE 1)
          /\ ExtraRow = (IF batch >= num_streams THEN batch % num_streams ELSE 0)
      BY DEF EachRow, ExtraRow
    <3>2. batch \in Nat \ {0} /\ num_streams \in Nat \ {0}
      BY DEF Typed
    <3> QED
      BY <2>1, <3>1, <3>2, RowShares
  <2>3. Tiles(args_streams_input, used_num_streams, Pos(EachRow, ExtraRow, used_num_streams))
    BY <2>1, <2>2, SharesTile
  <2> QED
    BY <2>1, <2>2, <2>3
<1> QED
  BY <1>1, AlwaysPartitioned, PTL
-----------------------------------------------------------------------------
(* The streams' results. *)

Future == [status : {"none", "pending", "ok", "error"}, rows : Slice]

CollectTyped ==
  /\ mode \in {"concat", "raw", "benchmark"}
  /\ queue \in [Stream -> Seq(Slice)]
  /\ future \in [Stream -> Future]
  /\ output \in [is : {"hint", "list", "tensor"}, chunks : Seq(Slice), copy : Slice]
  /\ phase = "construct" => batch = 0
  /\ phase = "split" => mode # "benchmark" /\ (batch = 0 => used_num_streams = 0)
  /\ phase \in {"submit", "get"} => stream_id <= used_num_streams

\* What the streams in use were given stays until the call ends.
InputsHeld ==
  phase \in {"submit", "get"} =>
    /\ \A s \in 0 .. used_num_streams - 1 : args_streams_input[s].call = calls
    /\ batch > 0 =>
         /\ used_num_streams \in 1 .. num_streams
         /\ IF mode = "benchmark"
            THEN \A s \in 0 .. used_num_streams - 1 :
                   args_streams_input[s].start = 0 /\ args_streams_input[s].end = batch
            ELSE /\ used_num_streams = Least(batch, num_streams)
                 /\ Shares(args_streams_input, EachRow, ExtraRow, used_num_streams)

\* An entry of the call in progress is the input of its stream; the others are
\* of earlier calls.
QueuesHold ==
  \A s \in Stream : \A k \in 1 .. Len(queue[s]) :
    /\ queue[s][k].call <= calls
    /\ queue[s][k].call = calls =>
         phase \in {"submit", "get", "idle"} /\ queue[s][k] = args_streams_input[s]

\* A future that is ready has the rows of its stream.
FuturesHold ==
  \A s \in Stream :
    /\ phase = "split" => future[s].status = "none"
    /\ phase \in {"submit", "get"} /\ future[s].status = "ok" =>
         future[s].rows = args_streams_input[s]

\* What has been collected: the rows of the streams up to stream_id, in order.
OutputHolds ==
  phase = "get" /\ stream_id > 0 =>
    /\ output.is = "list" /\ Len(output.chunks) = stream_id
    /\ \A k \in 1 .. stream_id : output.chunks[k] = args_streams_input[k - 1]
    /\ output.copy = args_streams_input[0]

\* The inductive invariant behind OwnRowsInOrder, on top of Partitioning.
Collecting ==
  /\ CollectTyped /\ InputsHeld /\ QueuesHold /\ FuturesHold /\ OutputHolds
  /\ OwnRowsInOrder

\* The list the thread is believed to be pinned to is right, unless a pin
\* context was left since.
PinKnown ==
  ~left_pin /\ current_cpu_core_list # Unpinned => affinity = PinnedTo(current_cpu_core_list)

\* Nothing is queued, ready or returned when the module is made.
LEMMA InitCollects == Init => Collecting
<1> SUFFICES ASSUME Init PROVE Collecting
  OBVIOUS
<1>1. NoSlice \in Slice /\ NoFuture \in Future
  BY DEF NoSlice, Slice, NoFuture, Future
<1>2. mode \in {"concat", "raw", "benchmark"}
  BY StreamsAssumption DEF Init
<1>3. phase \in {"construct", "idle"} /\ batch = 0
  BY DEF Init
<1>4. output \in [is : {"hint", "list", "tensor"}, chunks : Seq(Slice), copy : Slice]
  BY <1>1 DEF Init
<1>5. queue \in [Stream -> Seq(Slice)] /\ future \in [Stream -> Future]
  BY <1>1 DEF Init
<1>6. CollectTyped
  BY <1>2, <1>3, <1>4, <1>5 DEF CollectTyped
<1>7. QueuesHold
  BY DEF QueuesHold, Init
<1> QED
  BY <1>3, <1>6, <1>7 DEF Collecting, InputsHeld, FuturesHold, OutputHolds, OwnRowsInOrder

\* A step that leaves the calls, their inputs, the queues and the futures alone
\* and does not start a phase.
LEMMA CollectKept ==
  ASSUME Typed, Collecting,
         UNCHANGED <<mode, num_streams, phase, stream_id, batch, used_num_streams,
                     args_streams_input, queue, future, output, calls, result>>
  PROVE  Collecting'
<1>1. Stream' = Stream /\ EachRow' = EachRow /\ ExtraRow' = ExtraRow
  BY DEF Stream, EachRow, ExtraRow
<1>2. CollectTyped' /\ QueuesHold' /\ FuturesHold' /\ OutputHolds'
  BY <1>1 DEF Collecting, CollectTyped, QueuesHold, FuturesHold, OutputHolds
<1>3. InputsHeld' /\ OwnRowsInOrder'
  BY <1>1 DEF Collecting, InputsHeld, OwnRowsInOrder
<1> QED
  BY <1>2, <1>3 DEF Collecting

\* The constructor's loop collects nothing.
LEMMA MakeTaskCollects == ASSUME Typed, Collecting, MakeTask PROVE Collecting'
<1>1. /\ phase = "construct" /\ phase' \in {"construct", "idle"} /\ batch = 0
      /\ UNCHANGED <<mode, num_streams, batch, args_streams_input, queue, future, output,
                     calls, result>>
  BY DEF MakeTask, Collecting, CollectTyped
<1>2. Stream' = Stream
  BY <1>1 DEF Stream
<1>3. CollectTyped'
  BY <1>1, <1>2 DEF Collecting, CollectTyped
<1>4. QueuesHold'
  BY <1>1, <1>2 DEF Collecting, QueuesHold
<1> QED
  BY <1>1, <1>3, <1>4 DEF Collecting, InputsHeld, FuturesHold, OutputHolds, OwnRowsInOrder

\* A new call: what is queued is of earlier calls from now on.
LEMMA CallCollects ==
  ASSUME Partitioning, Collecting, Partitioning', NEW b \in Batches,
         forward(b) \/ ForwardBenchmark(b)
  PROVE  Collecting'
<1>1. /\ Typed /\ phase = "idle" /\ calls \in Nat /\ calls' = calls + 1 /\ batch' = b
      /\ b \in Nat /\ num_streams \in Nat /\ num_streams > 1
      /\ future' = [s \in Stream |-> NoFuture]
      /\ UNCHANGED <<mode, num_streams, queue, output, result>>
      /\ \/ phase' = "split" /\ mode # "benchmark"
         \/ /\ phase' = "submit" /\ mode = "benchmark" /\ stream_id' = 0
            /\ used_num_streams' = num_streams
            /\ args_streams_input' =
                 [s \in Stream |-> [call |-> calls', start |-> 0, end |-> b]]
  BY StreamsAssumption DEF Partitioning, Typed, forward, ForwardBenchmark, constructed
<1>2. Stream' = Stream
  BY <1>1 DEF Stream
<1>3. NoFuture \in Future /\ NoFuture.status = "none"
  BY DEF NoFuture, Future, NoSlice, Slice
<1>4. CollectTyped'
  <2>1. future' \in [Stream -> Future]
    BY <1>1, <1>3
  <2>2. phase' \in {"submit", "get"} => stream_id' <= used_num_streams'
    BY <1>1
  <2>3. phase' = "split" /\ b = 0 => used_num_streams' = 0
    BY <1>1 DEF forward, ForwardBenchmark, init_forward_status
  <2> QED
    BY <1>1, <1>2, <2>1, <2>2, <2>3 DEF Collecting, CollectTyped
<1>5. QueuesHold'
  <2> SUFFICES ASSUME NEW s \in Stream, NEW k \in 1 .. Len(queue[s])
               PROVE  queue[s][k].call <= calls + 1 /\ queue[s][k].call # calls + 1
    BY <1>1, <1>2 DEF QueuesHold
  <2>1. queue[s] \in Seq(Slice) /\ queue[s][k].call <= calls
    BY DEF Collecting, CollectTyped, QueuesHold
  <2>2. queue[s][k] \in Slice
    BY <2>1
  <2>3. queue[s][k].call \in Nat
    BY <2>2 DEF Slice
  <2> QED
    BY <1>1, <2>1, <2>3
<1>6. FuturesHold'
  BY <1>1, <1>2, <1>3 DEF FuturesHold
<1>7. InputsHeld'
  <2>1. CASE phase' = "split"
    BY <2>1 DEF InputsHeld
  <2>2. CASE phase' = "submit"
    <3>1. /\ used_num_streams' = num_streams /\ mode' = "benchmark"
          /\ \A s \in 0 .. num_streams - 1 :
               args_streams_input'[s] = [call |-> calls', start |-> 0, end |-> b]
      BY <1>1, <2>2 DEF Stream
    <3> QED
      BY <1>1, <3>1 DEF InputsHeld
  <2> QED
    BY <1>1, <2>1, <2>2
<1> QED
  BY <1>1, <1>4, <1>5, <1>6, <1>7 DEF Collecting, OutputHolds, OwnRowsInOrder

\* The loop that splits: nothing of this call is queued yet.
LEMMA SplitCollects == ASSUME Typed, Collecting, SplitInput PROVE Collecting'
<1>1. /\ phase = "split" /\ phase' = "split"
      /\ UNCHANGED <<mode, num_streams, batch, used_num_streams, queue, future, output, calls,
                     result>>
  BY DEF SplitInput, constructed
<1>2. Stream' = Stream
  BY <1>1 DEF Stream
<1>3. CollectTyped'
  BY <1>1, <1>2 DEF Collecting, CollectTyped
<1>4. QueuesHold' /\ FuturesHold'
  BY <1>1, <1>2 DEF Collecting, QueuesHold, FuturesHold
<1> QED
  BY <1>1, <1>3, <1>4 DEF Collecting, InputsHeld, OutputHolds, OwnRowsInOrder

\* The end of a loop: every stream in use has been given something.
LEMMA LoopEndCollects ==
  ASSUME Partitioning, Collecting, LoopEnds("split", "submit") \/ LoopEnds("submit", "get"),
         Partitioning'
  PROVE  Collecting'
<1>1. /\ Typed /\ phase \in {"split", "submit"} /\ phase' \in {"submit", "get"} /\ stream_id' = 0
      /\ phase' = "get" => phase = "submit"
      /\ phase' = "submit" => phase = "split"
      /\ UNCHANGED <<mode, num_streams, batch, used_num_streams, args_streams_input, queue,
                     future, output, calls, result>>
  BY DEF LoopEnds, constructed, Partitioning
<1>2. Stream' = Stream /\ EachRow' = EachRow /\ ExtraRow' = ExtraRow
  BY <1>1 DEF Stream, EachRow, ExtraRow
<1>3. CollectTyped'
  BY <1>1, <1>2 DEF Collecting, CollectTyped, Typed
<1>4. QueuesHold' /\ FuturesHold'
  BY <1>1, <1>2 DEF Collecting, QueuesHold, FuturesHold
<1>5. InputsHeld'
  <2>1. CASE phase' = "get"
    BY <1>1, <1>2, <2>1 DEF Collecting, InputsHeld
  <2>2. CASE phase' = "submit" /\ mode # "benchmark" /\ batch > 0
    <3>1. /\ used_num_streams' = Least(batch, num_streams)'
          /\ used_num_streams' \in 1 .. used_num_streams'
          /\ Shares(args_streams_input, EachRow, ExtraRow, used_num_streams)'
          /\ \A s \in 0 .. used_num_streams - 1 : args_streams_input'[s].call = calls'
      BY <1>1, <2>2 DEF Partitioning, RowsShared
    <3>2. used_num_streams \in 1 .. num_streams
      BY <1>1, <3>1 DEF Typed
    <3> QED
      BY <1>1, <2>2, <3>1, <3>2 DEF InputsHeld
  <2>3. CASE phase' = "submit" /\ ~(batch > 0)
    <3>1. used_num_streams = 0
      BY <1>1, <2>3 DEF Collecting, CollectTyped, Typed
    <3> QED
      BY <1>1, <2>3, <3>1 DEF InputsHeld
  <2>4. CASE phase = "split" /\ mode = "benchmark"
    BY <2>4 DEF Collecting, CollectTyped
  <2> QED
    BY <1>1, <2>1, <2>2, <2>3, <2>4
<1> QED
  BY <1>1, <1>3, <1>4, <1>5 DEF Collecting, OutputHolds, OwnRowsInOrder

\* A stream is given its input.
LEMMA SubmitCollects == ASSUME Typed, Collecting, Submit PROVE Collecting'
<1> DEFINE t == stream_id
           job == args_streams_input[t]
<1>1. /\ phase = "submit" /\ phase' = "submit" /\ t \in Nat /\ t < used_num_streams
      /\ used_num_streams \in Nat /\ num_streams \in Nat /\ used_num_streams <= num_streams
      /\ calls \in Nat /\ stream_id' = t + 1
      /\ queue' = [queue EXCEPT ![t] = Append(queue[t], job)]
      /\ future' = [future EXCEPT ![t].status = "pending"]
      /\ UNCHANGED <<mode, num_streams, batch, used_num_streams, args_streams_input, output,
                     calls, result>>
  BY DEF Submit, Typed, constructed
<1>2. /\ Stream' = Stream /\ EachRow' = EachRow /\ ExtraRow' = ExtraRow /\ t \in Stream
  BY <1>1 DEF Stream, EachRow, ExtraRow
<1>3. /\ queue \in [Stream -> Seq(Slice)] /\ future \in [Stream -> Future] /\ job \in Slice
      /\ queue[t] \in Seq(Slice)
  BY <1>2 DEF Collecting, CollectTyped, Typed
<1>4. InputsHeld'
  BY <1>1, <1>2 DEF Collecting, InputsHeld
<1>5. /\ queue' \in [Stream -> Seq(Slice)] /\ queue'[t] = Append(queue[t], job)
      /\ \A s \in Stream : s # t => queue'[s] = queue[s]
  BY <1>1, <1>2, <1>3
<1>6. /\ future' \in [Stream -> Future] /\ future'[t].status = "pending"
      /\ \A s \in Stream : s # t => future'[s] = future[s]
  BY <1>1, <1>2, <1>3 DEF Future
<1>7. CollectTyped'
  BY <1>1, <1>2, <1>5, <1>6 DEF Collecting, CollectTyped
<1>8. job.call <= calls
  <2>1. t \in 0 .. used_num_streams - 1
    BY <1>1
  <2> QED
    BY <1>1, <2>1 DEF Collecting, InputsHeld
<1>9. QueuesHold'
  <2> SUFFICES ASSUME NEW s \in Stream, NEW k \in 1 .. Len(queue'[s])
               PROVE  /\ queue'[s][k].call <= calls
                      /\ queue'[s][k].call = calls => queue'[s][k] = args_streams_input[s]
    BY <1>1, <1>2 DEF QueuesHold
  <2>1. CASE s # t
    BY <1>1, <1>5, <2>1 DEF Collecting, QueuesHold
  <2>2. CASE s = t /\ k \in 1 .. Len(queue[t])
    <3>1. queue'[s][k] = queue[t][k]
      <4> HIDE DEF t, job
      <4>1. ASSUME NEW q \in Seq(Slice), NEW i \in 1 .. Len(q) PROVE Append(q, job)[i] = q[i]
        OBVIOUS
      <4> QED
        BY <1>3, <1>5, <2>2, <4>1
    <3> QED
      BY <1>1, <1>2, <2>2, <3>1 DEF Collecting, QueuesHold
  <2>3. CASE s = t /\ k \notin 1 .. Len(queue[t])
    <3>1. queue'[s][k] = job
      BY <1>3, <1>5, <2>3
    <3> QED
      BY <1>8, <2>3, <3>1
  <2> QED
    BY <2>1, <2>2, <2>3
<1>10. FuturesHold'
  BY <1>1, <1>2, <1>6 DEF Collecting, FuturesHold
<1> QED
  BY <1>1, <1>4, <1>7, <1>9, <1>10 DEF Collecting, OutputHolds, OwnRowsInOrder

\* A Task runs an entry: the future of this call gets the rows of its stream,
\* and an entry an abandoned call has left makes no future of this one ready.
LEMMA RunCollects ==
  ASSUME Typed, Collecting, NEW t \in Stream, NEW status \in Outcome, RunTask(t, status)
  PROVE  Collecting'
<1> DEFINE job == Head(queue[t])
<1>1. /\ queue[t] # <<>>
      /\ future' = [future EXCEPT ![t] = IF @.status = "pending" /\ job.call = calls
                                         THEN [status |-> status, rows |-> job] ELSE @]
      /\ queue' = [queue EXCEPT ![t] = Tail(queue[t])]
      /\ UNCHANGED <<mode, num_streams, phase, stream_id, batch, used_num_streams,
                     args_streams_input, output, calls, result>>
  BY DEF RunTask, constructed, forwardVars
<1>2. /\ Stream' = Stream /\ EachRow' = EachRow /\ ExtraRow' = ExtraRow
      /\ UNCHANGED <<phase, args_streams_input, calls>>
  BY <1>1 DEF Stream, EachRow, ExtraRow
<1>3. /\ queue \in [Stream -> Seq(Slice)] /\ future \in [Stream -> Future]
      /\ queue[t] \in Seq(Slice)
  BY DEF Collecting, CollectTyped
<1>4. /\ Len(queue[t]) \in Nat \ {0} /\ job = queue[t][1] /\ job \in Slice
      /\ Tail(queue[t]) \in Seq(Slice) /\ Len(Tail(queue[t])) = Len(queue[t]) - 1
      /\ \A k \in 1 .. Len(queue[t]) - 1 : Tail(queue[t])[k] = queue[t][k + 1]
  BY <1>1, <1>3
<1>5. /\ queue' \in [Stream -> Seq(Slice)] /\ queue'[t] = Tail(queue[t])
      /\ \A s \in Stream : s # t => queue'[s] = queue[s]
  BY <1>1, <1>3, <1>4
<1>6. /\ future'[t] = IF future[t].status = "pending" /\ job.call = calls
                      THEN [status |-> status, rows |-> job] ELSE future[t]
      /\ \A s \in Stream : s # t => future'[s] = future[s]
      /\ future' \in [Stream -> Future]
  <2> HIDE DEF job
  <2>1. [status |-> status, rows |-> job] \in Future
    BY <1>4 DEF Outcome, Future
  <2> QED
    BY <1>1, <1>3, <2>1
<1>7. CollectTyped'
  BY <1>1, <1>2, <1>5, <1>6 DEF Collecting, CollectTyped
<1>8. QueuesHold'
  <2> SUFFICES ASSUME NEW s \in Stream, NEW k \in 1 .. Len(queue'[s])
               PROVE  /\ queue'[s][k].call <= calls
                      /\ queue'[s][k].call = calls =>
                           /\ phase \in {"submit", "get", "idle"}
                           /\ queue'[s][k] = args_streams_input[s]
    BY <1>2 DEF QueuesHold
  <2>1. CASE s # t
    BY <1>5, <2>1 DEF Collecting, QueuesHold
  <2>2. CASE s = t
    <3> HIDE DEF job
    <3>0. Len(queue'[s]) = Len(queue[t]) - 1
      BY <1>4, <1>5, <2>2
    <3>1. k \in 1 .. Len(queue[t]) - 1
      BY <3>0
    <3>2. k + 1 \in 1 .. Len(queue[t]) /\ queue'[s][k] = queue[t][k + 1]
      BY <1>4, <1>5, <2>2, <3>1
    <3> QED
      BY <2>2, <3>2 DEF Collecting, QueuesHold
  <2> QED
    BY <2>1, <2>2
<1>9. FuturesHold'
  <2>1. job.call = calls => phase \in {"submit", "get", "idle"} /\ job = args_streams_input[t]
    <3>1. 1 \in 1 .. Len(queue[t])
      BY <1>4
    <3> QED
      BY <1>4, <3>1 DEF Collecting, QueuesHold
  <2> HIDE DEF job
  <2> SUFFICES ASSUME NEW s \in Stream
               PROVE  /\ phase = "split" => future'[s].status = "none"
                      /\ phase \in {"submit", "get"} /\ future'[s].status = "ok" =>
                           future'[s].rows = args_streams_input[s]
    BY <1>1, <1>2 DEF FuturesHold
  <2>2. /\ phase = "split" => future[s].status = "none"
        /\ phase \in {"submit", "get"} /\ future[s].status = "ok" =>
             future[s].rows = args_streams_input[s]
    BY DEF Collecting, FuturesHold
  <2>3. CASE s = t /\ future[t].status = "pending" /\ job.call = calls
    BY <1>6, <2>1, <2>2, <2>3
  <2>4. CASE ~(s = t /\ future[t].status = "pending" /\ job.call = calls)
    BY <1>6, <2>2, <2>4
  <2> QED
    BY <2>3, <2>4
<1>10. InputsHeld' /\ OutputHolds' /\ OwnRowsInOrder'
  BY <1>1, <1>2 DEF Collecting, InputsHeld, OutputHolds, OwnRowsInOrder
<1> QED
  BY <1>7, <1>8, <1>9, <1>10 DEF Collecting

\* The output of the next stream is added; stream 0's starts a new list.
LEMMA GetCollects == ASSUME Typed, Collecting, Get PROVE Collecting'
<1> DEFINE t == stream_id
           rows == future[t].rows
<1>1. /\ phase = "get" /\ phase' = "get" /\ t \in Nat /\ t < used_num_streams
      /\ used_num_streams \in Nat /\ num_streams \in Nat /\ used_num_streams <= num_streams
      /\ stream_id' = t + 1 /\ future[t].status = "ok"
      /\ output' = [is |-> "list",
                    chunks |-> IF t = 0 THEN <<rows>> ELSE Append(output.chunks, rows),
                    copy |-> IF t = 0 THEN rows ELSE output.copy]
      /\ UNCHANGED <<mode, num_streams, batch, used_num_streams, args_streams_input, queue,
                     future, calls, result>>
  BY DEF Get, Typed, constructed, _generate_outputs
<1>2. /\ Stream' = Stream /\ EachRow' = EachRow /\ ExtraRow' = ExtraRow /\ t \in Stream
  BY <1>1 DEF Stream, EachRow, ExtraRow
<1>3. rows = args_streams_input[t] /\ rows \in Slice
  BY <1>1, <1>2 DEF Collecting, FuturesHold, Typed
<1>4. /\ output.chunks \in Seq(Slice) /\ output.copy \in Slice
  BY DEF Collecting, CollectTyped
<1> HIDE DEF rows
<1>5. /\ output'.is = "list"
      /\ output'.chunks = IF t = 0 THEN <<rows>> ELSE Append(output.chunks, rows)
      /\ output'.copy = IF t = 0 THEN rows ELSE output.copy
      /\ output' \in [is : {"hint", "list", "tensor"}, chunks : Seq(Slice), copy : Slice]
  BY <1>1, <1>3, <1>4
<1>6. CollectTyped'
  BY <1>1, <1>2, <1>5 DEF Collecting, CollectTyped
<1>7. OutputHolds'
  <2>1. CASE t = 0
    <3>1. output'.chunks = <<rows>> /\ output'.copy = rows /\ stream_id' = 1
      BY <1>1, <1>5, <2>1
    <3>2. Len(output'.chunks) = 1 /\ output'.chunks[1] = rows
      BY <3>1
    <3>3. \A k \in 1 .. 1 : output'.chunks[k] = args_streams_input[k - 1]
      BY <1>3, <2>1, <3>2
    <3> QED
      BY <1>1, <1>3, <1>5, <2>1, <3>1, <3>2, <3>3 DEF OutputHolds
  <2>2. CASE t # 0
    <3>1. /\ Len(output.chunks) = t /\ output.copy = args_streams_input[0]
          /\ \A k \in 1 .. t : output.chunks[k] = args_streams_input[k - 1]
      BY <1>1, <2>2 DEF Collecting, OutputHolds
    <3>2. /\ Len(output'.chunks) = t + 1 /\ output'.chunks[t + 1] = rows
          /\ \A k \in 1 .. t : output'.chunks[k] = output.chunks[k]
      BY <1>3, <1>4, <1>5, <2>2, <3>1
    <3>3. \A k \in 1 .. t + 1 : output'.chunks[k] = args_streams_input[k - 1]
      <4> SUFFICES ASSUME NEW k \in 1 .. t + 1
                   PROVE  output'.chunks[k] = args_streams_input[k - 1]
        OBVIOUS
      <4>1. CASE k = t + 1
        BY <1>1, <1>3, <3>2, <4>1
      <4>2. CASE k # t + 1
        BY <1>1, <3>1, <3>2, <4>2
      <4> QED
        BY <4>1, <4>2
    <3> QED
      BY <1>1, <1>5, <2>2, <3>1, <3>2, <3>3 DEF OutputHolds
  <2> QED
    BY <2>1, <2>2
<1>8. InputsHeld' /\ QueuesHold' /\ FuturesHold'
  BY <1>1, <1>2 DEF Collecting, InputsHeld, QueuesHold, FuturesHold
<1> QED
  BY <1>1, <1>6, <1>7, <1>8 DEF Collecting, OwnRowsInOrder

\* The end of a call leaves the queues as they are.
LEMMA EndKeepsQueues ==
  ASSUME Typed, Collecting, phase = "get", phase' = "idle",
         output' \in [is : {"hint", "list", "tensor"}, chunks : Seq(Slice), copy : Slice],
         UNCHANGED <<mode, num_streams, batch, args_streams_input, queue, future, calls>>
  PROVE  /\ CollectTyped' /\ InputsHeld' /\ QueuesHold' /\ FuturesHold' /\ OutputHolds'
<1>1. Stream' = Stream
  BY DEF Stream
<1>2. CollectTyped'
  BY <1>1 DEF Collecting, CollectTyped
<1>3. QueuesHold'
  BY <1>1 DEF Collecting, QueuesHold
<1> QED
  BY <1>2, <1>3 DEF InputsHeld, FuturesHold, OutputHolds

\* An exception of the model: nothing is returned.
LEMMA RaiseCollects == ASSUME Typed, Collecting, GetRaises PROVE Collecting'
<1>1. /\ phase = "get" /\ phase' = "idle" /\ result' = [result EXCEPT !.status = "raised"]
      /\ UNCHANGED <<mode, num_streams, batch, args_streams_input, queue, future, output, calls>>
  BY DEF GetRaises, constructed
<1>2. output' \in [is : {"hint", "list", "tensor"}, chunks : Seq(Slice), copy : Slice]
  BY <1>1 DEF Collecting, CollectTyped
<1>3. result'.status # "returned"
  BY <1>1
<1> QED
  BY <1>1, <1>2, <1>3, EndKeepsQueues DEF Collecting, OwnRowsInOrder

\* The return: the list holds the outputs of all the streams in use.
LEMMA ReturnCollects == ASSUME Partitioning, Collecting, Return PROVE Collecting'
<1> DEFINE n == used_num_streams
<1>1. /\ Typed /\ phase = "get" /\ phase' = "idle" /\ stream_id >= n /\ stream_id \in Nat
      /\ n \in Nat /\ num_streams \in Nat \ {0} /\ batch \in Nat /\ calls \in Nat
      /\ UNCHANGED <<mode, num_streams, batch, args_streams_input, queue, future, calls>>
  BY DEF Return, constructed, Partitioning, Typed
<1>2. stream_id = n /\ mode \in {"concat", "raw", "benchmark"}
  BY <1>1 DEF Collecting, CollectTyped
<1>3. output \in [is : {"hint", "list", "tensor"}, chunks : Seq(Slice), copy : Slice]
  BY DEF Collecting, CollectTyped
<1>4. output' \in [is : {"hint", "list", "tensor"}, chunks : Seq(Slice), copy : Slice]
  <2>1. output' = output \/ output' = [output EXCEPT !.is = "tensor"]
    BY <1>2 DEF Return
  <2> QED
    BY <1>3, <2>1
<1>5. OwnRowsInOrder'
  <2> SUFFICES ASSUME result'.status = "returned", batch > 0
               PROVE  /\ Len(result'.chunks) > 0
                      /\ result'.copy.call = calls
                      /\ \A k \in 1 .. Len(result'.chunks) :
                           /\ result'.chunks[k].call = calls
                           /\ result'.chunks[k].start =
                                IF k = 1 THEN 0 ELSE result'.chunks[k - 1].end
                      /\ result'.chunks[Len(result'.chunks)].end = batch
    BY <1>1 DEF OwnRowsInOrder
  <2>1. /\ n \in 1 .. num_streams
        /\ \A s \in 0 .. n - 1 : args_streams_input[s].call = calls
        /\ IF mode = "benchmark"
           THEN \A s \in 0 .. n - 1 :
                  args_streams_input[s].start = 0 /\ args_streams_input[s].end = batch
           ELSE n = Least(batch, num_streams) /\ Shares(args_streams_input, EachRow, ExtraRow, n)
    BY <1>1 DEF Collecting, InputsHeld
  <2>2. /\ output.is = "list" /\ Len(output.chunks) = n
        /\ \A k \in 1 .. n : output.chunks[k] = args_streams_input[k - 1]
        /\ output.copy = args_streams_input[0]
    BY <1>1, <1>2, <2>1 DEF Collecting, OutputHolds
  <2>3. result'.copy = args_streams_input[0] /\ result'.copy.call = calls
    <3>1. result'.copy = output.copy
      <4>1. CASE mode = "concat"
        BY <2>2, <4>1 DEF Return
      <4>2. CASE mode = "raw"
        BY <4>2 DEF Return
      <4>3. CASE mode = "benchmark"
        BY <4>3 DEF Return
      <4> QED
        BY <1>2, <4>1, <4>2, <4>3
    <3>2. 0 \in 0 .. n - 1
      BY <2>1
    <3> QED
      BY <2>1, <2>2, <3>1, <3>2
  <2>4. CASE mode = "benchmark"
    <3>1. result'.chunks = <<output.chunks[1]>> /\ 1 \in 1 .. n /\ 0 \in 0 .. n - 1
      BY <2>1, <2>4 DEF Return
    <3>2. Len(result'.chunks) = 1 /\ result'.chunks[1] = args_streams_input[0]
      BY <2>2, <3>1
    <3>3. /\ args_streams_input[0].call = calls
          /\ args_streams_input[0].start = 0 /\ args_streams_input[0].end = batch
      BY <2>1, <2>4, <3>1
    <3> QED
      BY <2>3, <3>2, <3>3
  <2>5. CASE mode # "benchmark"
    <3>1. result'.chunks = output.chunks
      <4>1. CASE mode = "concat"
        BY <2>2, <4>1 DEF Return
      <4>2. CASE mode = "raw"
        BY <2>1, <4>2 DEF Return
      <4> QED
        BY <1>2, <2>5, <4>1, <4>2
    <3>2. /\ EachRow \in Nat \ {0} /\ ExtraRow \in Nat
          /\ Pos(EachRow, ExtraRow, n) = batch
      <4>1. /\ EachRow = (IF batch >= num_streams THEN batch \div num_streams ELSE 1)
            /\ ExtraRow = (IF batch >= num_streams THEN batch % num_streams ELSE 0)
        BY DEF EachRow, ExtraRow
      <4>2. batch \in Nat \ {0} /\ num_streams \in Nat \ {0}
        BY <1>1
      <4> QED
        BY <2>1, <2>5, <4>1, <4>2, RowShares
    <3>3. ASSUME NEW k \in 1 .. n
          PROVE  /\ output.chunks[k].call = calls
                 /\ output.chunks[k].start = Pos(EachRow, ExtraRow, k - 1)
                 /\ output.chunks[k].end = Pos(EachRow, ExtraRow, k)
      <4>1. k - 1 \in 0 .. n - 1 /\ (k - 1) + 1 = k
        BY <2>1
      <4>2. output.chunks[k] = args_streams_input[k - 1]
        BY <2>2
      <4> QED
        BY <2>1, <2>5, <4>1, <4>2 DEF Shares
    <3>4. Pos(EachRow, ExtraRow, 0) = 0
      BY <3>2, PosType
    <3>5. ASSUME NEW k \in 1 .. n
          PROVE  output.chunks[k].start = IF k = 1 THEN 0 ELSE output.chunks[k - 1].end
      <4>1. CASE k = 1
        BY <3>3, <3>4, <4>1
      <4>2. CASE k # 1
        <5>1. k - 1 \in 1 .. n
          BY <2>1, <4>2
        <5> QED
          BY <3>3, <4>2, <5>1
      <4> QED
        BY <4>1, <4>2
    <3>6. n \in 1 .. n /\ n > 0
      BY <2>1
    <3> QED
      BY <2>2, <2>3, <3>1, <3>2, <3>3, <3>5, <3>6
  <2> QED
    BY <2>4, <2>5
<1> QED
  BY <1>1, <1>4, <1>5, EndKeepsQueues DEF Collecting

\* One stream: the result is the output on the whole input.
LEMMA SyncCollects ==
  ASSUME Typed, Collecting, NEW b \in Batches, NEW status \in Outcome, ForwardSync(b, status)
  PROVE  Collecting'
<1> DEFINE rows == [call |-> calls', start |-> 0, end |-> b]
<1>1. /\ phase = "idle" /\ phase' = "idle" /\ calls \in Nat /\ calls' = calls + 1 /\ batch' = b
      /\ result' = IF status = "ok"
                   THEN [status |-> "returned", chunks |-> <<rows>>, copy |-> rows]
                   ELSE [result EXCEPT !.status = "raised"]
      /\ UNCHANGED <<mode, num_streams, args_streams_input, queue, future, output>>
  BY DEF ForwardSync, constructed, Typed
<1>2. Stream' = Stream
  BY <1>1 DEF Stream
<1>3. CollectTyped'
  BY <1>1, <1>2 DEF Collecting, CollectTyped
<1>4. QueuesHold'
  <2> SUFFICES ASSUME NEW s \in Stream, NEW k \in 1 .. Len(queue[s])
               PROVE  queue[s][k].call <= calls + 1 /\ queue[s][k].call # calls + 1
    BY <1>1, <1>2 DEF QueuesHold
  <2>1. queue[s] \in Seq(Slice) /\ queue[s][k].call <= calls
    BY DEF Collecting, CollectTyped, QueuesHold
  <2>2. queue[s][k] \in Slice
    BY <2>1
  <2>3. queue[s][k].call \in Nat
    BY <2>2 DEF Slice
  <2> QED
    BY <1>1, <2>1, <2>3
<1>5. OwnRowsInOrder'
  <2>1. CASE status = "ok"
    <3>1. /\ result'.chunks = <<rows>> /\ result'.copy = rows
          /\ rows.call = calls' /\ rows.start = 0 /\ rows.end = b
      BY <1>1, <2>1
    <3> HIDE DEF rows
    <3>2. Len(result'.chunks) = 1 /\ result'.chunks[1] = rows
      BY <3>1
    <3> QED
      BY <1>1, <3>1, <3>2 DEF OwnRowsInOrder
  <2>2. CASE status # "ok"
    <3>1. result'.status # "returned"
      BY <1>1, <2>2 DEF Collecting
    <3> QED
      BY <3>1 DEF OwnRowsInOrder
  <2> QED
    BY <2>1, <2>2
<1> QED
  BY <1>1, <1>3, <1>4, <1>5 DEF Collecting, InputsHeld, FuturesHold, OutputHolds

\* Every step keeps what is collected in order.
LEMMA NextCollects ==
  Partitioning /\ Collecting /\ [Next]_vars /\ Partitioning' => Collecting'
<1> SUFFICES ASSUME Partitioning, Collecting, [Next]_vars, Partitioning' PROVE Collecting'
  OBVIOUS
<1>0. Typed
  BY DEF Partitioning
<1>1. CASE Continue
  BY <1>0, <1>1, MakeTaskCollects, SplitCollects, SubmitCollects, GetCollects, RaiseCollects,
     ReturnCollects, LoopEndCollects DEF Continue
<1>2. ASSUME NEW s \in Stream, RunTasks(s) PROVE Collecting'
  BY <1>0, <1>2, RunCollects DEF RunTasks
<1>3. ASSUME NEW b \in Batches, forward(b) \/ ForwardBenchmark(b) PROVE Collecting'
  BY <1>3, CallCollects
<1>4. ASSUME NEW b \in Batches, NEW status \in Outcome, ForwardSync(b, status)
      PROVE  Collecting'
  BY <1>0, <1>4, SyncCollects
<1>5. ASSUME (\E l \in CoreLists : Pin(l)) \/ Unpin PROVE Collecting'
  BY <1>0, <1>5, CollectKept DEF Pin, Unpin, constructed, forwardVars
<1>6. CASE UNCHANGED vars
  BY <1>0, <1>6, CollectKept DEF vars, constructed, forwardVars
<1> QED
  BY <1>1, <1>2, <1>3, <1>4, <1>5, <1>6 DEF Next

\* What forward returns is the output on all the rows of its own input, in
\* order, for every pool, number of streams, batch size and mode, although the
\* streams finish in any order and an earlier call may have raised half way
\* with its tasks still queued.
THEOREM OwnRows == Spec => []OwnRowsInOrder
<1>1. Collecting => OwnRowsInOrder
  BY DEF Collecting
<1> QED
  BY <1>1, InitCollects, NextCollects, AlwaysPartitioned, PTL DEF Spec
-----------------------------------------------------------------------------
(* The cores of a synchronous forward. *)

\* Every step keeps the copy of the list right.
LEMMA NextPins == PinKnown /\ [Next]_vars => PinKnown'
<1> SUFFICES ASSUME PinKnown, [Next]_vars PROVE PinKnown'
  OBVIOUS
<1>1. CASE UNCHANGED <<affinity, current_cpu_core_list, left_pin>>
  BY <1>1 DEF PinKnown, PinnedTo
<1>2. ASSUME NEW l, _pin_cpu_cores(l) PROVE PinKnown'
  BY <1>2 DEF PinKnown, _pin_cpu_cores, PinnedTo
<1>3. CASE left_pin'
  BY <1>3 DEF PinKnown
<1>4. ASSUME NEW b \in Batches, NEW status \in Outcome, ForwardSync(b, status) PROVE PinKnown'
  BY <1>1, <1>2, <1>4 DEF ForwardSync
<1>5. ASSUME NEW l \in CoreLists, Pin(l) PROVE PinKnown'
  BY <1>2, <1>5 DEF Pin, PinEnter
<1>6. CASE Unpin
  BY <1>3, <1>6 DEF Unpin, PinExit
<1>7. CASE Continue
  BY <1>1, <1>7 DEF Continue, MakeTask, SplitInput, Submit, Get, GetRaises, Return, LoopEnds,
                    cpuVars
<1>8. ASSUME NEW s \in Stream, RunTasks(s) PROVE PinKnown'
  BY <1>1, <1>8 DEF RunTasks, RunTask, cpuVars
<1>9. ASSUME NEW b \in Batches, forward(b) \/ ForwardBenchmark(b) PROVE PinKnown'
  BY <1>1, <1>9 DEF forward, ForwardBenchmark, cpuVars
<1>10. CASE UNCHANGED vars
  BY <1>1, <1>10 DEF vars, cpuVars
<1> QED
  BY <1>4, <1>5, <1>6, <1>7, <1>8, <1>9, <1>10 DEF Next

\* A synchronous forward (multi_stream.py, the branch for one stream) runs the
\* model on the module's own cores whatever pools the thread was pinned to
\* before, unless a pin context was left since: the list it skips pinning for
\* is then the one the masks have.
THEOREM SyncPinned == Spec => SyncOnItsCores
<1>1. Init => PinKnown
  BY DEF Init, CPUInit, PinKnown
<1>2. Partitioning /\ PinKnown /\ [Next]_vars =>
        [calls' # calls /\ num_streams = 1 /\ ~left_pin => ran_on' = PinnedTo(core_list)]_vars
  <2> SUFFICES ASSUME Partitioning, PinKnown, Next, calls' # calls, num_streams = 1, ~left_pin
               PROVE  ran_on' = PinnedTo(core_list)
    OBVIOUS
  <2>1. core_list # Unpinned
    BY CoresAssumption DEF Partitioning, Typed
  <2>2. PICK b \in Batches, status \in Outcome : ForwardSync(b, status)
    <3>1. ~Continue
      BY DEF Continue, MakeTask, SplitInput, Submit, Get, GetRaises, Return, LoopEnds
    <3>2. ASSUME NEW s \in Stream PROVE ~RunTasks(s)
      BY DEF RunTasks, RunTask
    <3>3. ASSUME NEW b \in Batches PROVE ~forward(b) /\ ~ForwardBenchmark(b)
      BY DEF forward, ForwardBenchmark
    <3>4. ~Unpin /\ \A l \in CoreLists : ~Pin(l)
      BY DEF Pin, Unpin
    <3> QED
      BY <3>1, <3>2, <3>3, <3>4 DEF Next
  <2>3. CASE is_same_core_affinity_setting(core_list)
    BY <2>1, <2>2, <2>3 DEF ForwardSync, is_same_core_affinity_setting, PinKnown
  <2>4. CASE ~is_same_core_affinity_setting(core_list)
    BY <2>2, <2>4 DEF ForwardSync, _pin_cpu_cores
  <2> QED
    BY <2>3, <2>4
<1> QED
  BY <1>1, <1>2, NextPins, AlwaysPartitioned, PTL DEF Spec, SyncOnItsCores
=============================================================================
