---------------------------- MODULE ShmAllReduce ----------------------------
(***************************************************************************)
(* The all-reduce of tensor-parallel ranks over shared memory:             *)
(* reduceAdd_impl of csrc/cpu/aten/kernels/SHMAllreduceAddKrnl.cpp, with   *)
(* the choice of path and block size of csrc/cpu/comm/messager.h and       *)
(* shm_reduction.h.  Ranks are processes that share `states`,              *)
(* `block_states` and `address` and only spin on them.                     *)
(*                                                                         *)
(* Every access to a shared flag, and the copy or addition of a block, is  *)
(* a step; the blocks of an OpenMP loop are processed in any order, and    *)
(* any number of them at a time.  The contents of a block are the list of  *)
(* the addends, so that sums are compared down to their order.             *)
(***************************************************************************)
EXTENDS Naturals, Sequences

CONSTANTS
  RankSize,
  Numel,             \* elements of the tensor of each successive call
  SHM_BLOCK_SIZE_L, SHM_BLOCK_SIZE_S, SmallNumel, MAX_SHM_BLOCK_COUNT

ASSUME ShmAssumption ==
  /\ RankSize \in Nat \ {0, 1}
  /\ Numel \in Seq(Nat \ {0})
  /\ {SHM_BLOCK_SIZE_L, SHM_BLOCK_SIZE_S, MAX_SHM_BLOCK_COUNT} \subseteq Nat \ {0}
  /\ SmallNumel \in Nat

Rank == 0..(RankSize - 1)
Last == RankSize - 1
Round == 1..Len(Numel)

FloatBytes == 4

\* Messenger::reduceAdd: tensors over MAX_SHM_SIZE go through oneCCL.
UsesShm(n) == Numel[n] <= SHM_BLOCK_SIZE_S * MAX_SHM_BLOCK_COUNT

BlockSize(n) == IF Numel[n] < SmallNumel THEN SHM_BLOCK_SIZE_S ELSE SHM_BLOCK_SIZE_L

NBlocks(n) == (Numel[n] + BlockSize(n) - 1) \div BlockSize(n)
Blocks(n) == 0..(NBlocks(n) - 1)
AnyBlock == UNION {Blocks(n) : n \in Round}

VARIABLES
  states,        \* rank |-> its shm_state
  block_states,  \* <<block, rank>> |-> COPY_ADD_DONE?
  address,       \* block |-> the addends in it
  round,         \* the call each rank is in
  at,            \* where it is in the call
  index,         \* its loop index over ranks
  work,          \* block |-> what is left to do in its loop over blocks
  recv           \* block |-> contents of its receive buffer

vars == <<states, block_states, address, round, at, index, work, recv>>

Loop(n, stage) == [b \in Blocks(n) |-> stage]

Init ==
  /\ states = [r \in Rank |-> "INIT"]
  /\ block_states = [f \in AnyBlock \X Rank |-> FALSE]
  /\ address = [b \in AnyBlock |-> <<>>]
  /\ round = [r \in Rank |-> 1]
  /\ at = [r \in Rank |-> "call"]
  /\ index = [r \in Rank |-> 0]
  /\ work = [r \in Rank |-> Loop(1, "move")]
  /\ recv = [r \in Rank |-> [b \in AnyBlock |-> <<>>]]

Goto(r, place) == at' = [at EXCEPT ![r] = place]

At(r, place) == round[r] \in Round /\ at[r] = place

\* The loop over blocks that comes next.
Prepare(r, stage) == work' = [work EXCEPT ![r] = Loop(round[r], stage)]

LoopDone(r) == \A b \in DOMAIN work[r] : work[r][b] = "done"

\* The addends in the order of the ranks.
Sum(n) == [i \in 1..RankSize |-> <<i - 1, n>>]

Return(r) ==
  /\ round' = [round EXCEPT ![r] = @ + 1]
  /\ Goto(r, "call")

\* oneCCL: a collective returns to nobody before everybody has called it.
ccl_allreduce_add(r) ==
  /\ At(r, "call") /\ ~UsesShm(round[r])
  /\ \A q \in Rank : round[q] >= round[r]
  /\ recv' = [recv EXCEPT ![r] =
       [b \in AnyBlock |-> IF b \in Blocks(round[r]) THEN Sum(round[r]) ELSE @[b]]]
  /\ Return(r)
  /\ UNCHANGED <<states, block_states, address, index, work>>

reduceAdd(r) ==
  /\ At(r, "call") /\ UsesShm(round[r])
  /\ Goto(r, "wait_init")
  /\ index' = [index EXCEPT ![r] = IF r = 0 THEN 1 ELSE r]
  /\ UNCHANGED <<states, block_states, address, round, work, recv>>

\* Mutant: rank 0 does not wait for the previous call to end.
WaitInit_Skip(r) ==
  /\ At(r, "wait_init")
  /\ IF r = 0 THEN Goto(r, "copy") ELSE states[r] = "INIT" /\ Goto(r, "wait_copy")
  /\ Prepare(r, "move")
  /\ UNCHANGED <<states, block_states, address, round, index, recv>>

\* Mutant: rank 0's loop runs one rank too far.
WaitInit_OffByOne(r) ==
  /\ At(r, "wait_init")
  /\ states[index[r]] = "INIT"
  /\ IF r = 0 /\ index[r] <= Last
     THEN /\ index' = [index EXCEPT ![r] = @ + 1]
          /\ UNCHANGED <<at, work>>
     ELSE /\ Goto(r, IF r = 0 THEN "copy" ELSE "wait_copy")
          /\ Prepare(r, "move")
          /\ UNCHANGED index
  /\ UNCHANGED <<states, block_states, address, round, recv>>

\* Rank 0 waits for INIT of the others one by one, another rank for its own.
WaitInit(r) ==
  /\ At(r, "wait_init")
  /\ states[index[r]] = "INIT"
  /\ IF r = 0 /\ index[r] < Last
     THEN /\ index' = [index EXCEPT ![r] = @ + 1]
          /\ UNCHANGED <<at, work>>
     ELSE /\ Goto(r, IF r = 0 THEN "copy" ELSE "wait_copy")
          /\ Prepare(r, "move")
          /\ UNCHANGED index
  /\ UNCHANGED <<states, block_states, address, round, recv>>

\* multiThreadCopy into the shared buffer, a block at a time.
CopyIn(r) ==
  /\ At(r, "copy")
  /\ \E b \in DOMAIN work[r] :
       /\ work[r][b] = "move"
       /\ address' = [address EXCEPT ![b] = <<<<r, round[r]>>>>]
       /\ work' = [work EXCEPT ![r][b] = "done"]
  /\ UNCHANGED <<states, block_states, round, at, index, recv>>

\* Rank 0 has copied all of its tensor; the others wait for that.
Rank0Copied(r) ==
  \/ At(r, "copy") /\ LoopDone(r)
  \/ At(r, "wait_copy") /\ states[0] = "RANK0_COPY"

\* states_ptr[rank] = RANK0_COPY.
Publish(r) ==
  /\ Rank0Copied(r)
  /\ states' = [states EXCEPT ![r] = "RANK0_COPY"]
  /\ Goto(r, IF r = 0 THEN "wait_last" ELSE "add")
  /\ Prepare(r, IF r = 0 THEN "move" ELSE "add")
  /\ UNCHANGED <<block_states, address, round, index, recv>>

\* Flags exist for MAX_SHM_BLOCK_COUNT blocks; the shared buffer follows
\* them, so the flag of a block beyond lies in the data of another block.
InBounds(b) == b < MAX_SHM_BLOCK_COUNT

AliasedBlock(n, b, r) ==
  ((b - MAX_SHM_BLOCK_COUNT) * RankSize + r) \div (FloatBytes * BlockSize(n))

\* A flag is set: beyond the flags a byte of an element is overwritten, with
\* a value that may happen to be the one it had.
SetFlag(n, b, r, value) ==
  IF InBounds(b)
  THEN /\ block_states' = [block_states EXCEPT ![<<b, r>>] = value]
       /\ UNCHANGED address
  ELSE /\ UNCHANGED block_states
       /\ \/ address' = [address EXCEPT ![AliasedBlock(n, b, r)] = <<"overwritten">>]
          \/ UNCHANGED address

\* Mutant: no rank waits for its predecessor.
Turn_Skip(r, b) == TRUE

\* wait_block_until: rank 1 never waits, the others for their predecessor.
\* Beyond the flags the byte read is data.
Turn(r, b) == r = 1 \/ ~InBounds(b) \/ block_states[b, r - 1]

\* add_ker on the shared block, then the two flags, in this order.
AddBlock(r) ==
  /\ At(r, "add")
  /\ \E b \in DOMAIN work[r] :
       /\ work[r][b] = "add" /\ Turn(r, b)
       /\ address' = [address EXCEPT ![b] = Append(@, <<r, round[r]>>)]
       /\ work' = [work EXCEPT ![r][b] = "clear"]
  /\ UNCHANGED <<states, block_states, round, at, index, recv>>

\* Mutant: the predecessor's flag stays set.
ClearFlag_Keep(r) ==
  /\ At(r, "add")
  /\ \E b \in DOMAIN work[r] :
       work[r][b] = "clear" /\ work' = [work EXCEPT ![r][b] = "set"]
  /\ UNCHANGED <<states, block_states, address, round, at, index, recv>>

ClearFlag(r) ==
  /\ At(r, "add")
  /\ \E b \in DOMAIN work[r] :
       /\ work[r][b] = "clear"
       /\ SetFlag(round[r], b, r - 1, FALSE)
       /\ work' = [work EXCEPT ![r][b] = "set"]
  /\ UNCHANGED <<states, round, at, index, recv>>

RaiseFlag(r) ==
  /\ At(r, "add")
  /\ \E b \in DOMAIN work[r] :
       /\ work[r][b] = "set"
       /\ SetFlag(round[r], b, r, TRUE)
       /\ work' = [work EXCEPT ![r][b] = "done"]
  /\ UNCHANGED <<states, round, at, index, recv>>

\* states_ptr[rank] = RANKX_COPY_ADD.
AddDone(r) ==
  /\ At(r, "add") /\ LoopDone(r)
  /\ states' = [states EXCEPT ![r] = "RANKX_COPY_ADD"]
  /\ Goto(r, "wait_last")
  /\ Prepare(r, "move")
  /\ UNCHANGED <<block_states, address, round, index, recv>>

WaitLast(r) ==
  /\ At(r, "wait_last")
  /\ states[Last] = "RANKX_COPY_ADD"
  /\ Goto(r, "broadcast")
  /\ UNCHANGED <<states, block_states, address, round, index, work, recv>>

\* multiThreadCopy out of the shared buffer.
CopyOut(r) ==
  /\ At(r, "broadcast")
  /\ \E b \in DOMAIN work[r] :
       /\ work[r][b] = "move"
       /\ recv' = [recv EXCEPT ![r][b] = address[b]]
       /\ work' = [work EXCEPT ![r][b] = "done"]
  /\ UNCHANGED <<states, block_states, address, round, at, index>>

\* All ranks but the last: states_ptr[rank] = BROADCAST, and return.
Broadcast(r) ==
  /\ At(r, "broadcast") /\ LoopDone(r) /\ r # Last
  /\ states' = [states EXCEPT ![r] = "BROADCAST"]
  /\ Return(r)
  /\ UNCHANGED <<block_states, address, index, work, recv>>

\* Mutant: the last rank resets without waiting for the others.
LastCopied_NoWait(r) ==
  /\ At(r, "broadcast") /\ LoopDone(r) /\ r = Last
  /\ Goto(r, "reset")
  /\ index' = [index EXCEPT ![r] = 0]
  /\ UNCHANGED <<states, block_states, address, round, work, recv>>

LastCopied(r) ==
  /\ At(r, "broadcast") /\ LoopDone(r) /\ r = Last
  /\ Goto(r, "wait_broadcast")
  /\ index' = [index EXCEPT ![r] = 0]
  /\ UNCHANGED <<states, block_states, address, round, work, recv>>

\* The last rank waits for BROADCAST of all others, one by one.
WaitBroadcast(r) ==
  /\ At(r, "wait_broadcast")
  /\ states[index[r]] = "BROADCAST"
  /\ IF index[r] < Last - 1
     THEN /\ index' = [index EXCEPT ![r] = @ + 1]
          /\ UNCHANGED at
     ELSE /\ index' = [index EXCEPT ![r] = 0]
          /\ Goto(r, "reset")
  /\ UNCHANGED <<states, block_states, address, round, work, recv>>

\* It sets all states to INIT, rank 0's first and its own last.
Reset(r) ==
  /\ At(r, "reset")
  /\ states' = [states EXCEPT ![index[r]] = "INIT"]
  /\ IF index[r] < Last
     THEN index' = [index EXCEPT ![r] = @ + 1] /\ UNCHANGED <<at, round>>
     ELSE Return(r) /\ UNCHANGED index
  /\ UNCHANGED <<block_states, address, work, recv>>

RankStep(r) ==
  \/ ccl_allreduce_add(r) \/ reduceAdd(r) \/ WaitInit(r) \/ CopyIn(r)
  \/ Publish(r) \/ AddBlock(r) \/ ClearFlag(r) \/ RaiseFlag(r) \/ AddDone(r)
  \/ WaitLast(r) \/ CopyOut(r) \/ Broadcast(r) \/ LastCopied(r)
  \/ WaitBroadcast(r) \/ Reset(r)

Next == \E r \in Rank : RankStep(r)

Spec == Init /\ [][Next]_vars

\* Every rank makes the same sequence of calls and keeps running.
FairSpec == Spec /\ \A r \in Rank : WF_vars(RankStep(r))
-----------------------------------------------------------------------------
State == {"INIT", "RANK0_COPY", "RANKX_COPY_ADD", "BROADCAST"}

TypeOK ==
  /\ states \in [Rank -> State]
  /\ block_states \in [AnyBlock \X Rank -> BOOLEAN]
  /\ DOMAIN address = AnyBlock
  /\ round \in [Rank -> Round \cup {Len(Numel) + 1}]
  /\ index \in [Rank -> Rank]
  /\ \A r \in Rank :
       work[r] \in [DOMAIN work[r] -> {"move", "add", "clear", "set", "done"}]

\* A rank that returns from a call has the sum of all ranks' tensors of that
\* call in every block, each addend once and in rank order (so all ranks hold
\* bitwise the same floats), although slow ranks may still be in the call and
\* fast ones in the next.
AllReduced ==
  \A r \in Rank :
    at[r] = "call" /\ round[r] > 1 =>
      \A b \in Blocks(round[r] - 1) : recv[r][b] = Sum(round[r] - 1)

\* A raised flag that a rank waits for says that its owner, in its current
\* call, was the last to add to the block, or that the waiting rank is just
\* about to clear it: no flag of an earlier call, perhaps one with other
\* blocks, lets a rank add before its predecessor.
NoStaleFlag ==
  \A b \in AnyBlock, r \in Rank \ {Last} :
    block_states[b, r] =>
      LET last == address[b][Len(address[b])]
      IN  \/ last = <<r, round[r]>>
          \/ last = <<r + 1, round[r + 1]>> /\ work[r + 1][b] = "clear"

\* Rank r may write block b of the shared buffer now.
Writes(r, b) ==
  \/ At(r, "copy")
  \/ At(r, "add") /\ b \in DOMAIN work[r] /\ work[r][b] = "add" /\ Turn(r, b)

\* While a rank copies a block in or adds to it, no other rank writes it, and
\* no rank is copying results out.
ExclusiveBlock ==
  \A r, q \in Rank, b \in AnyBlock :
    r # q /\ Writes(r, b) => ~Writes(q, b) /\ ~At(q, "broadcast")

\* All calls end: no rank spins for ever on a flag that was reset too early.
AllEnd == <>(\A r \in Rank : round[r] > Len(Numel))
=============================================================================
