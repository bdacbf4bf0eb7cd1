------------------------- MODULE ShmAllReduceProofs -------------------------
(***************************************************************************)
(* The all-reduce over shared memory is right for every number of ranks,   *)
(* every sequence of calls and every block size, as long as no call has    *)
(* more blocks than there are flags (the run shm_overflow shows what       *)
(* happens otherwise).                                                     *)
(*                                                                         *)
(* Ranks may be in different calls.  Epoch is the call that owns the       *)
(* shared buffer; a rank is before it (in oneCCL), in it, or past it (it   *)
(* has returned and waits for the last rank to reset the states).          *)
(***************************************************************************)
EXTENDS ShmAllReduce, Integers, SequenceTheorems, WellFoundedInduction, TLAPS

\* Every call over shared memory has a flag for each of its blocks.
FlagsSuffice == \A n \in Round : UsesShm(n) => NBlocks(n) <= MAX_SHM_BLOCK_COUNT

Ccl(n) == n \in Round /\ ~UsesShm(n)

\* The last rank is the last to leave a call over shared memory; while it is
\* in oneCCL the others may be in the next call already.
Epoch == IF Ccl(round[Last]) THEN round[Last] + 1 ELSE round[Last]

\* Places of a rank that has added, and of one that has not started.
After == {"wait_last", "broadcast", "wait_broadcast", "reset"}
Before == {"call", "wait_init", "wait_copy"}

Place == Before \cup After \cup {"copy", "add"}

\* How far rank q is with block b: "add" before it has added.
Stage(q, b) ==
  IF round[q] > Epoch \/ (round[q] = Epoch /\ at[q] \in After) THEN "done"
  ELSE IF round[q] = Epoch /\ at[q] = "add" THEN work[q][b] ELSE "add"

\* Rank 0 has copied its tensor into the shared buffer.
Copied == round[0] > Epoch \/ (round[0] = Epoch /\ at[0] \in After)

\* The last rank has added all its blocks, and still is in the call.
LastAdded == round[Last] = Epoch /\ at[Last] \in After

\* The last rank has set the state of rank q to INIT again.
WasReset(q) == at[Last] = "reset" /\ q < index[Last]

\* The first k addends.
Addends(n, k) == [i \in 1..k |-> <<i - 1, n>>]

-----------------------------------------------------------------------------
Types ==
  /\ states \in [Rank -> State]
  /\ block_states \in [AnyBlock \X Rank -> BOOLEAN]
  /\ DOMAIN address = AnyBlock
  /\ round \in [Rank -> Round \cup {Len(Numel) + 1}]
  /\ at \in [Rank -> Place]
  /\ index \in [Rank -> Rank]
  /\ DOMAIN work = Rank
  /\ \A r \in Rank :
       work[r] \in [DOMAIN work[r] -> {"move", "add", "clear", "set", "done"}]
  /\ DOMAIN recv = Rank
  /\ \A r \in Rank : DOMAIN recv[r] = AnyBlock

\* Where a rank can be, and what its loop works on there.
Places ==
  \A r \in Rank :
    /\ at[r] # "call" => round[r] \in Round /\ UsesShm(round[r])
    /\ at[r] = "copy" => r = 0
    /\ at[r] \in {"wait_copy", "add"} => r # 0
    /\ at[r] \in {"wait_broadcast", "reset"} => r = Last
    /\ at[r] \in {"copy", "add", "wait_last", "broadcast"} =>
         DOMAIN work[r] = Blocks(round[r])
    /\ at[r] \in {"copy", "broadcast"} =>
         \A b \in DOMAIN work[r] : work[r][b] \in {"move", "done"}
    /\ at[r] = "wait_last" => \A b \in DOMAIN work[r] : work[r][b] = "move"
    /\ at[r] = "add" => \A b \in DOMAIN work[r] : work[r][b] # "move"

\* Before, in and past the epoch.
Rounds ==
  \A r \in Rank :
    /\ round[r] <= Epoch + 1
    /\ round[r] < Epoch => \A n \in round[r]..(Epoch - 1) : Ccl(n)
    /\ round[r] > Epoch => r # Last /\ LastAdded /\ at[r] \in Before
    /\ round[r] = Epoch /\ at[r] = "broadcast" => LastAdded

\* The value of a rank's state follows from where it is.
StatesFit ==
  \A r \in Rank :
    /\ round[r] < Epoch => states[r] = "INIT"
    /\ round[r] = Epoch =>
         /\ at[r] \in Before \cup {"copy"} => states[r] = "INIT"
         /\ at[r] = "add" => states[r] = "RANK0_COPY"
         /\ at[r] \in After =>
              states[r] = IF r = 0 THEN "RANK0_COPY" ELSE "RANKX_COPY_ADD"
    /\ round[r] > Epoch =>
         /\ states[r] = IF WasReset(r) THEN "INIT" ELSE "BROADCAST"
         /\ at[r] = "wait_copy" => WasReset(r)

\* What the loops over ranks have established so far.
Waiting ==
  /\ \A r \in Rank \ {0} : at[r] = "wait_init" => index[r] = r
  /\ at[0] = "wait_init" =>
       index[0] > 0 /\ \A q \in 1..(index[0] - 1) : states[q] = "INIT"
  /\ at[0] = "copy" => \A q \in Rank : states[q] = "INIT"
  /\ at[Last] = "wait_broadcast" =>
       index[Last] < Last /\ \A q \in 0..(index[Last] - 1) : round[q] > Epoch
  /\ at[Last] = "reset" => \A q \in 0..(Last - 1) : round[q] > Epoch

\* Nobody adds before rank 0 has copied.
CopyFirst ==
  /\ round[0] = Epoch /\ at[0] = "copy" =>
       \A b \in Blocks(Epoch) : work[0][b] = "done" => address[b] = Addends(Epoch, 1)
  /\ ~Copied => \A q \in Rank \ {0} : round[q] <= Epoch /\ at[q] \in Before

\* The chain of additions to a block.
Chain ==
  Copied => \A b \in Blocks(Epoch) :
    /\ \E k \in 1..RankSize : address[b] = Addends(Epoch, k)
    /\ \A q \in Rank \ {0} : q < Len(address[b]) <=> Stage(q, b) # "add"
    /\ \A q \in Rank \ {0} : q + 1 < Len(address[b]) => Stage(q, b) = "done"

\* A flag is up from its owner's raising it to its successor's clearing it.
Flags ==
  \A b \in AnyBlock, q \in Rank \ {Last} :
    block_states[b, q] =>
      /\ Copied /\ b \in Blocks(Epoch) /\ q # 0
      /\ Stage(q, b) = "done" /\ Stage(q + 1, b) \in {"add", "clear"}

FlagsUp ==
  Copied => \A b \in Blocks(Epoch), q \in Rank \ {0, Last} :
    Stage(q, b) = "done" /\ Stage(q + 1, b) \in {"add", "clear"} => block_states[b, q]

\* What a rank has copied out.
Received ==
  \A r \in Rank :
    /\ at[r] = "broadcast" =>
         \A b \in Blocks(round[r]) : work[r][b] = "done" => recv[r][b] = Sum(round[r])
    /\ at[r] \in {"wait_broadcast", "reset"} =>
         \A b \in Blocks(round[r]) : recv[r][b] = Sum(round[r])

IInv == /\ Types /\ Places /\ Rounds /\ StatesFit /\ Waiting
        /\ CopyFirst /\ Chain /\ Flags /\ FlagsUp /\ Received /\ AllReduced

-----------------------------------------------------------------------------
(* Facts about the constants. *)

LEMMA RankFacts ==
  /\ RankSize \in Nat /\ Last \in Nat /\ Last + 1 = RankSize
  /\ 0 \in Rank /\ 1 \in Rank /\ Last \in Rank /\ Last # 0
  /\ \A r : r \in Rank <=> r \in Nat /\ r <= Last
  BY ShmAssumption DEF Rank, Last

LEMMA NextRank ==
  /\ \A q \in Rank \ {Last} : q + 1 \in Rank \ {0}
  /\ \A q \in Rank \ {0} : q - 1 \in Rank \ {Last} /\ (q - 1) + 1 = q
  /\ \A q \in Rank : q + 1 # q /\ \A r \in Rank : q + 1 = r => q = r - 1
  BY ShmAssumption DEF Rank, Last

LEMMA RoundFacts ==
  /\ Len(Numel) \in Nat
  /\ \A n : n \in Round <=> n \in Nat /\ 1 <= n /\ n <= Len(Numel)
  BY ShmAssumption DEF Round

\* A positive number of elements fills at least one block.
LEMMA DivAtLeastOne ==
  ASSUME NEW a \in Nat \ {0}, NEW d \in Nat \ {0}
  PROVE  (a + d - 1) \div d >= 1 /\ (a + d - 1) \div d \in Nat
<1> DEFINE c == (a + d - 1) \div d
<1>1. c \in Int /\ a + d - 1 < d * c + d
  BY SMT
<1>2. CASE c < 1
  <2>1. d * c <= 0
    BY <1>1, <1>2
  <2> QED BY <1>1, <2>1
<1> QED BY <1>1, <1>2

\* Every call has a block.
LEMMA BlocksFacts ==
  ASSUME NEW n \in Round
  PROVE  /\ 0 \in Blocks(n) /\ Blocks(n) \subseteq AnyBlock
         /\ NBlocks(n) \in Nat
         /\ \A b \in Blocks(n) : b \in Nat /\ b < NBlocks(n)
<1>1. Numel[n] \in Nat \ {0} /\ BlockSize(n) \in Nat \ {0}
  BY ShmAssumption DEF Round, BlockSize
<1>2. NBlocks(n) >= 1 /\ NBlocks(n) \in Nat
  BY <1>1, DivAtLeastOne DEF NBlocks
<1>3. Blocks(n) \subseteq AnyBlock
  BY DEF AnyBlock
<1> QED BY <1>2, <1>3 DEF Blocks

-----------------------------------------------------------------------------
LEMMA InitInvariant == Init => IInv
<1> SUFFICES ASSUME Init PROVE IInv
  OBVIOUS
<1> USE RankFacts, RoundFacts
<1>0. 1 \in Round \cup {Len(Numel) + 1}
  OBVIOUS
<1>1. Types
  BY <1>0 DEF Init, Types, State, Place, Before, After, Loop
<1>2. \A r \in Rank : at[r] = "call" /\ round[r] = 1 /\ states[r] = "INIT"
  BY DEF Init
<1>3. Epoch \in {1, 2} /\ (Epoch = 2 => Ccl(1)) /\ (\A r \in Rank : round[r] <= Epoch)
  BY <1>2 DEF Epoch
<1>4. ~Copied
  BY <1>2, <1>3 DEF Copied, After
<1>5. Places /\ Received /\ AllReduced
  BY <1>2 DEF Places, Received, AllReduced
<1>6. Rounds
  BY <1>2, <1>3 DEF Rounds
<1>7. StatesFit /\ Waiting
  BY <1>2, <1>3 DEF StatesFit, Waiting, After
<1>8. CopyFirst /\ Chain /\ FlagsUp
  BY <1>2, <1>3, <1>4 DEF CopyFirst, Chain, FlagsUp, Before
<1>9. Flags
  BY DEF Init, Flags
<1> QED
  BY <1>1, <1>5, <1>6, <1>7, <1>8, <1>9 DEF IInv

\* Steps that neither touch the shared buffer and its flags nor move a rank
\* over a block.
LEMMA ChainUnchanged ==
  ASSUME Chain, Flags, FlagsUp, UNCHANGED <<address, block_states>>,
         Epoch' = Epoch, Copied' = Copied,
         \A q \in Rank \ {0}, b \in Blocks(Epoch) : Stage(q, b)' = Stage(q, b)
  PROVE  Chain' /\ Flags' /\ FlagsUp'
<1> USE RankFacts
<1>1. Chain'
  BY DEF Chain
<1>2. \A q \in Rank \ {Last} : q + 1 \in Rank \ {0}
  BY NextRank
<1>3. Flags'
  <2> SUFFICES ASSUME NEW b \in AnyBlock, NEW q \in Rank \ {Last}, block_states[b, q]
               PROVE  /\ Copied /\ b \in Blocks(Epoch) /\ q # 0
                      /\ Stage(q, b)' = "done" /\ Stage(q + 1, b)' \in {"add", "clear"}
    BY DEF Flags
  <2>1. /\ Copied /\ b \in Blocks(Epoch) /\ q # 0
        /\ Stage(q, b) = "done" /\ Stage(q + 1, b) \in {"add", "clear"}
    BY DEF Flags
  <2>2. q \in Rank \ {0} /\ q + 1 \in Rank \ {0}
    BY <1>2, <2>1
  <2>3. Stage(q, b)' = Stage(q, b) /\ Stage(q + 1, b)' = Stage(q + 1, b)
    BY <2>1, <2>2, Zenon
  <2> QED BY <2>1, <2>3
<1>4. FlagsUp'
  BY <1>2 DEF FlagsUp
<1> QED BY <1>1, <1>3, <1>4

LEMMA RoundTypes ==
  ASSUME Types
  PROVE  Epoch \in Nat /\ \A q \in Rank : round[q] \in Nat
<1>1. \A q \in Rank : round[q] \in Nat
  BY RoundFacts DEF Types
<1> QED BY <1>1, RankFacts DEF Epoch

\* reduceAdd enters the call.
LEMMA ReduceAddStep ==
  ASSUME IInv, NEW r \in Rank, reduceAdd(r)
  PROVE  IInv'
<1> USE RankFacts, RoundFacts
<1>0. /\ Types /\ Places /\ Rounds /\ StatesFit /\ Waiting
      /\ CopyFirst /\ Chain /\ Flags /\ FlagsUp /\ Received /\ AllReduced
  BY DEF IInv
<1>1. /\ at[r] = "call" /\ round[r] \in Round /\ UsesShm(round[r])
      /\ at' = [at EXCEPT ![r] = "wait_init"]
      /\ index' = [index EXCEPT ![r] = IF r = 0 THEN 1 ELSE r]
      /\ UNCHANGED <<states, block_states, address, round, work, recv>>
  BY DEF reduceAdd, At, Goto
<1>2. Epoch' = Epoch /\ Epoch \in Nat /\ \A q \in Rank : round[q] \in Nat
  BY <1>0, <1>1, RoundTypes DEF Epoch
<1>3. Types'
  <2>1. at' \in [Rank -> Place]
    BY <1>0, <1>1 DEF Types, Place, Before
  <2>2. index' \in [Rank -> Rank]
    BY <1>0, <1>1 DEF Types
  <2> QED BY <1>0, <1>1, <2>1, <2>2 DEF Types
<1>4. \A q \in Rank : q # r => at'[q] = at[q] /\ index'[q] = index[q]
  BY <1>0, <1>1 DEF Types
<1>5. at'[r] = "wait_init" /\ index'[r] = IF r = 0 THEN 1 ELSE r
  BY <1>0, <1>1 DEF Types
<1>6. Places'
  BY <1>0, <1>1, <1>4, <1>5 DEF Places
<1>7. LastAdded' = LastAdded /\ Copied' = Copied
  BY <1>1, <1>2, <1>4, <1>5 DEF LastAdded, Copied, After
<1>8. Rounds'
  BY <1>0, <1>1, <1>2, <1>4, <1>5, <1>7 DEF Rounds, Before
<1>9. \A q \in Rank : WasReset(q)' = WasReset(q)
  BY <1>0, <1>1, <1>4, <1>5 DEF WasReset
<1>10. StatesFit'
  BY <1>0, <1>1, <1>2, <1>4, <1>5, <1>9 DEF StatesFit, Before, After
<1>11. Waiting'
  BY <1>0, <1>1, <1>2, <1>4, <1>5 DEF Waiting
<1>12. CopyFirst'
  BY <1>0, <1>1, <1>2, <1>4, <1>5, <1>7 DEF CopyFirst, Before
<1>13. \A q \in Rank \ {0}, b \in Blocks(Epoch) : Stage(q, b)' = Stage(q, b)
  BY <1>1, <1>2, <1>4, <1>5 DEF Stage, After
<1>14. Chain' /\ Flags' /\ FlagsUp'
  BY <1>0, <1>1, <1>2, <1>7, <1>13, ChainUnchanged
<1>15. Received' /\ AllReduced'
  BY <1>0, <1>1, <1>4, <1>5 DEF Received, AllReduced
<1> QED
  BY <1>3, <1>6, <1>8, <1>10, <1>11, <1>12, <1>14, <1>15 DEF IInv

\* The place of a rank tells the call it is in.
LEMMA PlaceRound ==
  ASSUME IInv, NEW r \in Rank
  PROVE  /\ at[r] \notin Before => round[r] = Epoch
         /\ round[r] < Epoch => at[r] = "call"
         /\ round[Last] <= Epoch
<1> USE RankFacts, RoundFacts
<1>0. Types /\ Places /\ Rounds
  BY DEF IInv
<1>1. Epoch \in Nat /\ round[r] \in Nat /\ round[Last] \in Nat
  BY <1>0, RoundTypes
<1>2. round[r] < Epoch => at[r] = "call"
  <2>1. round[r] < Epoch => Ccl(round[r])
    BY <1>0, <1>1 DEF Rounds
  <2> QED BY <1>0, <2>1 DEF Places, Ccl
<1>3. round[r] > Epoch => at[r] \in Before
  BY <1>0 DEF Rounds
<1>4. round[Last] <= Epoch
  BY <1>0, <1>1 DEF Rounds
<1> QED BY <1>1, <1>2, <1>3, <1>4 DEF Before

\* A rank that waits for INIT and sees it.
LEMMA WaitInitStep ==
  ASSUME IInv, NEW r \in Rank, WaitInit(r)
  PROVE  IInv'
<1> USE RankFacts, RoundFacts
<1>0. /\ Types /\ Places /\ Rounds /\ StatesFit /\ Waiting
      /\ CopyFirst /\ Chain /\ Flags /\ FlagsUp /\ Received /\ AllReduced
  BY DEF IInv
<1>1. /\ at[r] = "wait_init" /\ round[r] \in Round /\ states[index[r]] = "INIT"
      /\ UNCHANGED <<states, block_states, address, round, recv>>
  BY DEF WaitInit, At
<1>2. Epoch' = Epoch /\ Epoch \in Nat /\ \A q \in Rank : round[q] \in Nat
  BY <1>0, <1>1, RoundTypes DEF Epoch
<1>3. CASE r = 0 /\ index[r] < Last
  <2>1. index' = [index EXCEPT ![0] = @ + 1] /\ UNCHANGED <<at, work>>
    BY <1>3 DEF WaitInit
  <2>2. index' \in [Rank -> Rank]
    <3>1. index[0] \in Rank /\ index[0] < Last
      BY <1>0, <1>3 DEF Types
    <3>2. index[0] + 1 \in Rank
      BY <3>1
    <3> QED BY <1>0, <2>1, <3>1, <3>2 DEF Types
  <2>3. Types'
    BY <1>0, <1>1, <2>1, <2>2 DEF Types
  <2>4. index'[0] = index[0] + 1 /\ \A q \in Rank : q # 0 => index'[q] = index[q]
    BY <1>0, <2>1 DEF Types
  <2>5. index[0] \in Nat
    BY <1>0 DEF Types
  <2>6. Waiting'
    BY <1>0, <1>1, <1>2, <1>3, <2>1, <2>4, <2>5 DEF Waiting
  <2>7. Copied' = Copied /\ LastAdded' = LastAdded /\ \A q \in Rank : WasReset(q)' = WasReset(q)
    BY <1>1, <1>2, <2>1, <2>4 DEF Copied, LastAdded, WasReset
  <2>8. Places' /\ Rounds' /\ CopyFirst'
    BY <1>0, <1>1, <1>2, <2>1, <2>7 DEF Places, Rounds, CopyFirst
  <2>9. StatesFit'
    BY <1>0, <1>1, <1>2, <2>1, <2>7 DEF StatesFit
  <2>10. \A q \in Rank \ {0}, b \in Blocks(Epoch) : Stage(q, b)' = Stage(q, b)
    BY <1>1, <1>2, <2>1 DEF Stage
  <2>11. Chain' /\ Flags' /\ FlagsUp'
    BY <1>0, <1>1, <1>2, <2>7, <2>10, ChainUnchanged
  <2>12. Received' /\ AllReduced'
    BY <1>0, <1>1, <2>1 DEF Received, AllReduced
  <2> QED BY <2>3, <2>6, <2>8, <2>9, <2>11, <2>12 DEF IInv
<1>4. CASE ~(r = 0 /\ index[r] < Last)
  <2>1. /\ at' = [at EXCEPT ![r] = IF r = 0 THEN "copy" ELSE "wait_copy"]
        /\ work' = [work EXCEPT ![r] = Loop(round[r], "move")]
        /\ UNCHANGED index
    BY <1>4 DEF WaitInit, Goto, Prepare
  <2>2. Types'
    <3>1. at' \in [Rank -> Place]
      BY <1>0, <2>1 DEF Types, Place, Before
    <3>2. DOMAIN work' = Rank /\ \A q \in Rank :
            work'[q] \in [DOMAIN work'[q] -> {"move", "add", "clear", "set", "done"}]
      BY <1>0, <2>1 DEF Types, Loop
    <3> QED BY <1>0, <1>1, <2>1, <3>1, <3>2 DEF Types
  <2>3. \A q \in Rank : q # r => at'[q] = at[q] /\ work'[q] = work[q]
    BY <1>0, <2>1 DEF Types
  <2>4. /\ at'[r] = IF r = 0 THEN "copy" ELSE "wait_copy"
        /\ DOMAIN work'[r] = Blocks(round[r]) /\ \A b \in Blocks(round[r]) : work'[r][b] = "move"
    BY <1>0, <2>1 DEF Types, Loop
  <2>5. Places'
    BY <1>0, <1>1, <2>3, <2>4 DEF Places
  <2>6. LastAdded' = LastAdded /\ Copied' = Copied /\ \A q \in Rank : WasReset(q)' = WasReset(q)
    <3>1. at[r] \notin After /\ at'[r] \notin After /\ at[r] # "reset" /\ at'[r] # "reset"
      BY <1>1, <2>4 DEF After
    <3> QED BY <1>1, <1>2, <2>1, <2>3, <3>1 DEF LastAdded, Copied, WasReset
  <2>7. ASSUME r = 0 PROVE round[0] = Epoch /\ \A q \in Rank : states[q] = "INIT"
    <3>1. index[0] = Last
      BY <1>0, <1>4, <2>7 DEF Types
    <3>2. \A q \in Rank \ {0} : states[q] = "INIT"
      BY <1>0, <1>1, <2>7, <3>1 DEF Waiting
    <3>3. ~LastAdded
      BY <1>0, <3>2 DEF LastAdded, StatesFit
    <3>4. round[0] = Epoch
      BY <1>0, <1>1, <1>2, <2>7, <3>3, PlaceRound DEF Rounds
    <3> QED BY <1>0, <1>1, <2>7, <3>2, <3>4 DEF StatesFit, Before
  <2>8. ASSUME r # 0 PROVE states[r] = "INIT"
    BY <1>0, <1>1, <2>8 DEF Waiting
  <2>9. Rounds'
    BY <1>0, <1>1, <1>2, <2>3, <2>4, <2>6, <2>7 DEF Rounds, Before
  <2>10. StatesFit'
    <3> SUFFICES ASSUME NEW q \in Rank
                 PROVE  (/\ round[q] < Epoch => states[q] = "INIT"
                         /\ round[q] = Epoch =>
                             /\ at[q] \in Before \cup {"copy"} => states[q] = "INIT"
                             /\ at[q] = "add" => states[q] = "RANK0_COPY"
                             /\ at[q] \in After =>
                                  states[q] = IF q = 0 THEN "RANK0_COPY" ELSE "RANKX_COPY_ADD"
                         /\ round[q] > Epoch =>
                             /\ states[q] = IF WasReset(q) THEN "INIT" ELSE "BROADCAST"
                             /\ at[q] = "wait_copy" => WasReset(q))'
      BY DEF StatesFit
    <3>1. CASE q # r
      BY <1>0, <1>1, <1>2, <2>3, <2>6, <3>1 DEF StatesFit
    <3>2. CASE q = r
      BY <1>0, <1>1, <1>2, <2>4, <2>6, <2>7, <2>8, <3>2 DEF StatesFit, Before, After
    <3> QED BY <3>1, <3>2
  <2>11. Waiting'
    BY <1>0, <1>1, <1>2, <2>1, <2>3, <2>4, <2>7 DEF Waiting
  <2>12. CopyFirst'
    BY <1>0, <1>1, <1>2, <2>3, <2>4, <2>6, <2>7 DEF CopyFirst, Before
  <2>13. \A q \in Rank \ {0}, b \in Blocks(Epoch) : Stage(q, b)' = Stage(q, b)
    BY <1>1, <1>2, <2>3, <2>4 DEF Stage, After
  <2>14. Chain' /\ Flags' /\ FlagsUp'
    BY <1>0, <1>1, <1>2, <2>6, <2>13, ChainUnchanged
  <2>15. Received' /\ AllReduced'
    BY <1>0, <1>1, <2>3, <2>4 DEF Received, AllReduced
  <2> QED BY <2>2, <2>5, <2>9, <2>10, <2>11, <2>12, <2>14, <2>15 DEF IInv
<1> QED BY <1>3, <1>4

LEMMA AddendsFacts ==
  ASSUME NEW n, NEW k \in Nat \ {0}
  PROVE  /\ <<<<0, n>>>> = Addends(n, 1)
         /\ Len(Addends(n, k)) = k
         /\ Append(Addends(n, k), <<k, n>>) = Addends(n, k + 1)
         /\ Addends(n, k)[k] = <<k - 1, n>>
<1>1. <<<<0, n>>>> = Addends(n, 1)
  BY DEF Addends
<1>2. Addends(n, k) \in Seq({<<i - 1, n>> : i \in 1..(k + 1)}) /\ Len(Addends(n, k)) = k
  <2> DEFINE T == {<<i - 1, n>> : i \in 1..(k + 1)}
  <2>1. Addends(n, k) \in [1..k -> T]
    BY DEF Addends
  <2>2. Addends(n, k) \in Seq(T)
    BY <2>1, SeqDef
  <2> QED BY <2>1, <2>2
<1>3. Append(Addends(n, k), <<k, n>>) = Addends(n, k + 1)
  BY <1>2 DEF Addends
<1> QED BY <1>1, <1>2, <1>3 DEF Addends

\* Rank 0 copies a block in.
LEMMA CopyInStep ==
  ASSUME IInv, NEW r \in Rank, CopyIn(r)
  PROVE  IInv'
<1> USE RankFacts, RoundFacts
<1>0. /\ Types /\ Places /\ Rounds /\ StatesFit /\ Waiting
      /\ CopyFirst /\ Chain /\ Flags /\ FlagsUp /\ Received /\ AllReduced
  BY DEF IInv
<1>1. PICK b \in DOMAIN work[r] :
        /\ address' = [address EXCEPT ![b] = <<<<r, round[r]>>>>]
        /\ work' = [work EXCEPT ![r][b] = "done"]
  BY DEF CopyIn
<1>2. /\ at[r] = "copy" /\ round[r] \in Round
      /\ UNCHANGED <<states, block_states, round, at, index, recv>>
  BY DEF CopyIn, At
<1>3. Epoch' = Epoch /\ Epoch \in Nat /\ \A q \in Rank : round[q] \in Nat
  BY <1>0, <1>2, RoundTypes DEF Epoch
<1>4. r = 0 /\ round[0] = Epoch /\ DOMAIN work[0] = Blocks(Epoch)
  BY <1>0, <1>2, PlaceRound DEF Places, Before
<1>5. /\ \A q \in Rank : q # 0 => work'[q] = work[q]
      /\ DOMAIN work'[0] = DOMAIN work[0] /\ work'[0][b] = "done"
      /\ \A c \in DOMAIN work[0] : c # b => work'[0][c] = work[0][c]
  BY <1>0, <1>1, <1>4 DEF Types
<1>6. /\ DOMAIN address' = AnyBlock /\ address'[b] = Addends(Epoch, 1)
      /\ \A c \in AnyBlock : c # b => address'[c] = address[c]
  <2>1. Blocks(Epoch) \subseteq AnyBlock
    BY <1>2, <1>4, BlocksFacts
  <2> QED BY <1>0, <1>1, <1>4, <2>1, AddendsFacts DEF Types
<1>7. Types'
  <2>1. DOMAIN work' = Rank /\ \A q \in Rank :
          work'[q] \in [DOMAIN work'[q] -> {"move", "add", "clear", "set", "done"}]
    BY <1>0, <1>1, <1>4, <1>5 DEF Types
  <2> QED BY <1>0, <1>2, <1>6, <2>1 DEF Types
<1>8. Places'
  BY <1>0, <1>2, <1>4, <1>5 DEF Places
<1>9. ~Copied /\ ~Copied' /\ LastAdded' = LastAdded /\ \A q \in Rank : WasReset(q)' = WasReset(q)
  BY <1>2, <1>3, <1>4 DEF Copied, LastAdded, WasReset, After
<1>10. Rounds' /\ Waiting'
  BY <1>0, <1>2, <1>3, <1>9 DEF Rounds, Waiting
<1>11. StatesFit'
  BY <1>0, <1>2, <1>3, <1>9 DEF StatesFit
<1>12. CopyFirst'
  <2>1. Blocks(Epoch) \subseteq AnyBlock
    BY <1>2, <1>4, BlocksFacts
  <2> QED BY <1>0, <1>2, <1>3, <1>4, <1>5, <1>6, <1>9, <2>1 DEF CopyFirst
<1>13. Chain' /\ FlagsUp'
  BY <1>9 DEF Chain, FlagsUp
<1>14. Flags'
  BY <1>0, <1>2, <1>9 DEF Flags
<1>15. Received' /\ AllReduced'
  BY <1>0, <1>2, <1>4, <1>5 DEF Received, AllReduced
<1> QED
  BY <1>7, <1>8, <1>10, <1>11, <1>12, <1>13, <1>14, <1>15 DEF IInv

\* A rank publishes that rank 0's tensor is in the buffer.
LEMMA PublishStep ==
  ASSUME IInv, NEW r \in Rank, Publish(r)
  PROVE  IInv'
<1> USE RankFacts, RoundFacts
<1>0. /\ Types /\ Places /\ Rounds /\ StatesFit /\ Waiting
      /\ CopyFirst /\ Chain /\ Flags /\ FlagsUp /\ Received /\ AllReduced
  BY DEF IInv
<1>1. /\ round[r] \in Round
      /\ \/ at[r] = "copy" /\ LoopDone(r)
         \/ at[r] = "wait_copy" /\ states[0] = "RANK0_COPY"
      /\ states' = [states EXCEPT ![r] = "RANK0_COPY"]
      /\ at' = [at EXCEPT ![r] = IF r = 0 THEN "wait_last" ELSE "add"]
      /\ work' = [work EXCEPT ![r] = Loop(round[r], IF r = 0 THEN "move" ELSE "add")]
      /\ UNCHANGED <<block_states, address, round, index, recv>>
  BY DEF Publish, Rank0Copied, At, Goto, Prepare
<1>2. Epoch' = Epoch /\ Epoch \in Nat /\ \A q \in Rank : round[q] \in Nat
  BY <1>0, <1>1, RoundTypes DEF Epoch
<1>3. at[r] = IF r = 0 THEN "copy" ELSE "wait_copy"
  BY <1>0, <1>1 DEF Places
<1>4. UsesShm(round[r])
  BY <1>0, <1>3 DEF Places
<1>5. Types'
  <2>1. at' \in [Rank -> Place] /\ states' \in [Rank -> State]
    BY <1>0, <1>1 DEF Types, Place, After, State
  <2>2. DOMAIN work' = Rank /\ \A q \in Rank :
          work'[q] \in [DOMAIN work'[q] -> {"move", "add", "clear", "set", "done"}]
    BY <1>0, <1>1 DEF Types, Loop
  <2> QED BY <1>0, <1>1, <2>1, <2>2 DEF Types
<1>6. \A q \in Rank : q # r => at'[q] = at[q] /\ work'[q] = work[q] /\ states'[q] = states[q]
  BY <1>0, <1>1 DEF Types
<1>7. /\ at'[r] = IF r = 0 THEN "wait_last" ELSE "add"
      /\ states'[r] = "RANK0_COPY" /\ DOMAIN work'[r] = Blocks(round[r])
      /\ \A b \in Blocks(round[r]) : work'[r][b] = IF r = 0 THEN "move" ELSE "add"
  BY <1>0, <1>1 DEF Types, Loop
<1>8. Places'
  BY <1>0, <1>1, <1>4, <1>6, <1>7 DEF Places
<1>9. ASSUME r # 0 PROVE round[0] = Epoch /\ at[0] \in After
  <2>1. states[0] = "RANK0_COPY"
    BY <1>1, <1>3, <1>9
  <2>2. round[0] = Epoch
    BY <1>0, <1>2, <2>1 DEF StatesFit
  <2>3. at[0] \in Place /\ at[0] # "add"
    BY <1>0 DEF Types, Places
  <2> QED BY <1>0, <2>1, <2>2, <2>3 DEF StatesFit, Place
<1>10. round[r] = Epoch
  <2>1. CASE r = 0
    BY <1>3, <2>1, PlaceRound DEF Before
  <2>2. CASE r # 0
    <3>1. at[Last] # "reset"
      BY <1>0, <1>2, <1>9, <2>2 DEF Waiting
    <3>2. ~(round[r] > Epoch)
      BY <1>0, <1>3, <2>2, <3>1 DEF StatesFit, WasReset
    <3> QED BY <1>2, <1>3, <2>2, <3>2, PlaceRound
  <2> QED BY <2>1, <2>2
<1>11. Copied'
  BY <1>1, <1>2, <1>6, <1>7, <1>9, <1>10 DEF Copied, After
<1>12. LastAdded' = LastAdded /\ \A q \in Rank : WasReset(q)' = WasReset(q)
  BY <1>1, <1>2, <1>3, <1>6, <1>7 DEF LastAdded, WasReset, After
<1>13. Rounds'
  BY <1>0, <1>1, <1>2, <1>6, <1>7, <1>10, <1>12 DEF Rounds, Before
<1>14. StatesFit'
  BY <1>0, <1>1, <1>2, <1>6, <1>7, <1>10, <1>12 DEF StatesFit, Before, After
<1>15. Waiting'
  <2>1. at'[0] # "wait_init" /\ at'[0] # "copy"
    BY <1>6, <1>7, <1>9 DEF After
  <2> QED BY <1>0, <1>1, <1>2, <1>6, <1>7, <2>1 DEF Waiting
<1>16. CopyFirst'
  BY <1>2, <1>7, <1>6, <1>9, <1>11 DEF CopyFirst, After
<1>17. \A q \in Rank \ {0}, b \in Blocks(Epoch) : Stage(q, b)' = Stage(q, b)
  BY <1>1, <1>2, <1>3, <1>6, <1>7, <1>10 DEF Stage, After
<1>18. Chain' /\ Flags' /\ FlagsUp'
  <2>1. CASE r # 0
    BY <1>0, <1>1, <1>2, <1>9, <1>11, <1>17, <2>1, ChainUnchanged DEF Copied
  <2>2. CASE r = 0
    <3>1. ~Copied
      BY <1>2, <1>3, <1>10, <2>2 DEF Copied, After
    <3>2. \A b \in Blocks(Epoch) : address[b] = Addends(Epoch, 1)
      BY <1>0, <1>1, <1>3, <1>10, <2>2 DEF CopyFirst, LoopDone, Places
    <3>3. \A q \in Rank \ {0} : round[q] <= Epoch /\ at[q] \in Before
      BY <1>0, <3>1 DEF CopyFirst
    <3>4. \A q \in Rank \ {0}, b \in Blocks(Epoch) : Stage(q, b)' = "add"
      BY <1>2, <1>17, <3>3 DEF Stage, Before, After
    <3>5. \A b \in Blocks(Epoch) : Len(address[b]) = 1
      BY <3>2, AddendsFacts
    <3>6. Chain'
      <4> SUFFICES ASSUME NEW b \in Blocks(Epoch)
                   PROVE  /\ \E k \in 1..RankSize : address'[b] = Addends(Epoch, k)
                          /\ \A q \in Rank \ {0} :
                               /\ q < Len(address'[b]) <=> Stage(q, b)' # "add"
                               /\ q + 1 < Len(address'[b]) => Stage(q, b)' = "done"
        BY <1>2 DEF Chain
      <4>1. address'[b] = Addends(Epoch, 1) /\ 1 \in 1..RankSize /\ Len(address'[b]) = 1
        BY <1>1, <3>2, <3>5
      <4> QED BY <3>4, <4>1
    <3>7. Flags' /\ FlagsUp'
      BY <1>0, <1>1, <1>2, <3>1, <3>4 DEF Flags, FlagsUp
    <3> QED BY <3>6, <3>7
  <2> QED BY <2>1, <2>2
<1>19. Received' /\ AllReduced'
  BY <1>0, <1>1, <1>6, <1>7 DEF Received, AllReduced
<1> QED
  BY <1>5, <1>8, <1>13, <1>14, <1>15, <1>16, <1>18, <1>19 DEF IInv

\* The blocks a rank adds to have flags.
LEMMA AddFacts ==
  ASSUME IInv, FlagsSuffice, NEW r \in Rank, At(r, "add"), NEW b \in DOMAIN work[r]
  PROVE  /\ r # 0 /\ r - 1 \in Rank /\ round[r] = Epoch /\ Epoch \in Round /\ Copied
         /\ DOMAIN work[r] = Blocks(Epoch) /\ b \in Blocks(Epoch) /\ b \in AnyBlock
         /\ InBounds(b) /\ Stage(r, b) = work[r][b]
<1> USE RankFacts, RoundFacts
<1>0. Types /\ Places /\ CopyFirst
  BY DEF IInv
<1>1. at[r] = "add" /\ round[r] \in Round
  BY DEF At
<1>2. round[r] = Epoch /\ UsesShm(Epoch) /\ r # 0 /\ DOMAIN work[r] = Blocks(Epoch)
  BY <1>0, <1>1, PlaceRound DEF Places, Before
<1>3. Copied
  BY <1>0, <1>1, <1>2 DEF CopyFirst, Before
<1>4. InBounds(b) /\ b \in AnyBlock
  BY <1>1, <1>2, BlocksFacts, ShmAssumption DEF FlagsSuffice, InBounds
<1>5. Stage(r, b) = work[r][b]
  BY <1>0, <1>1, <1>2, RoundTypes DEF Stage, After
<1>6. r - 1 \in Rank
  BY <1>2
<1> QED BY <1>1, <1>2, <1>3, <1>4, <1>5, <1>6

\* A step of a rank in its loop over blocks that moves one of them on leaves
\* everything but the chain and the flags alone.
LEMMA BlockStep ==
  ASSUME IInv, FlagsSuffice, NEW r \in Rank, At(r, "add"), NEW b \in DOMAIN work[r],
         NEW to \in {"clear", "set", "done"},
         work' = [work EXCEPT ![r][b] = to],
         UNCHANGED <<states, round, at, index, recv>>
  PROVE  /\ Epoch' = Epoch /\ Copied'
         /\ Stage(r, b)' = to
         /\ \A q \in Rank, c \in Blocks(Epoch) : q # r \/ c # b => Stage(q, c)' = Stage(q, c)
         /\ (DOMAIN address' = AnyBlock /\ block_states' \in [AnyBlock \X Rank -> BOOLEAN] => Types')
         /\ Places' /\ Rounds' /\ StatesFit' /\ Waiting' /\ CopyFirst' /\ Received' /\ AllReduced'
<1> USE RankFacts, RoundFacts
<1>0. /\ Types /\ Places /\ Rounds /\ StatesFit /\ Waiting
      /\ CopyFirst /\ Chain /\ Flags /\ FlagsUp /\ Received /\ AllReduced
  BY DEF IInv
<1>1. /\ r # 0 /\ round[r] = Epoch /\ Copied /\ at[r] = "add"
      /\ DOMAIN work[r] = Blocks(Epoch) /\ b \in Blocks(Epoch)
  BY AddFacts DEF At
<1>2. Epoch' = Epoch /\ Epoch \in Nat /\ \A q \in Rank : round[q] \in Nat
  BY <1>0, RoundTypes DEF Epoch
<1>3. /\ \A q \in Rank : q # r => work'[q] = work[q]
      /\ DOMAIN work'[r] = DOMAIN work[r] /\ work'[r][b] = to
      /\ \A c \in DOMAIN work[r] : c # b => work'[r][c] = work[r][c]
  BY <1>0 DEF Types
<1>4. Copied'
  BY <1>1, <1>2 DEF Copied
<1>5. Stage(r, b)' = to
  BY <1>1, <1>2, <1>3 DEF Stage, After
<1>6. \A q \in Rank, c \in Blocks(Epoch) : q # r \/ c # b => Stage(q, c)' = Stage(q, c)
  BY <1>1, <1>2, <1>3 DEF Stage
<1>7. DOMAIN address' = AnyBlock /\ block_states' \in [AnyBlock \X Rank -> BOOLEAN] => Types'
  <2>1. DOMAIN work' = Rank /\ \A q \in Rank :
          work'[q] \in [DOMAIN work'[q] -> {"move", "add", "clear", "set", "done"}]
    BY <1>0, <1>3 DEF Types
  <2> QED BY <1>0, <2>1 DEF Types
<1>8. Places'
  BY <1>0, <1>1, <1>3 DEF Places
<1>9. LastAdded' = LastAdded /\ \A q \in Rank : WasReset(q)' = WasReset(q)
  BY <1>2 DEF LastAdded, WasReset
<1>10. Rounds' /\ Waiting'
  BY <1>0, <1>2, <1>9 DEF Rounds, Waiting
<1>11. StatesFit'
  BY <1>0, <1>2, <1>9 DEF StatesFit
<1>12. CopyFirst'
  <2>1. ~(round[0] = Epoch /\ at[0] = "copy")
    BY <1>0, <1>1, <1>2 DEF Copied, After
  <2> QED BY <1>2, <1>4, <2>1 DEF CopyFirst
<1>13. Received' /\ AllReduced'
  BY <1>0, <1>1, <1>3 DEF Received, AllReduced
<1> QED
  BY <1>2, <1>4, <1>5, <1>6, <1>7, <1>8, <1>10, <1>11, <1>12, <1>13

\* What the chain says of one block.
LEMMA ChainAt ==
  ASSUME IInv, Copied, NEW b \in Blocks(Epoch)
  PROVE  /\ Len(address[b]) \in 1..RankSize
         /\ address[b] = Addends(Epoch, Len(address[b]))
         /\ \A q \in Rank \ {0} : q < Len(address[b]) <=> Stage(q, b) # "add"
         /\ \A q \in Rank \ {0} : q + 1 < Len(address[b]) => Stage(q, b) = "done"
<1>1. Chain
  BY DEF IInv
<1>2. PICK k \in 1..RankSize : address[b] = Addends(Epoch, k)
  BY <1>1 DEF Chain
<1>3. Len(address[b]) = k
  BY <1>2, AddendsFacts, RankFacts
<1> QED BY <1>1, <1>2, <1>3 DEF Chain

\* Whose turn it is: the ranks before r have added, r and the others have not.
LEMMA TurnFacts ==
  ASSUME IInv, FlagsSuffice, NEW r \in Rank, At(r, "add"), NEW b \in DOMAIN work[r],
         work[r][b] = "add", Turn(r, b)
  PROVE  /\ Len(address[b]) = r
         /\ \A q \in Rank \ {0} : q < r => Stage(q, b) = "done"
<1> USE RankFacts
<1>1. /\ r # 0 /\ r - 1 \in Rank /\ Copied /\ InBounds(b)
      /\ b \in Blocks(Epoch) /\ b \in AnyBlock /\ Stage(r, b) = "add"
  BY AddFacts
<1>2. /\ Len(address[b]) \in 1..RankSize
      /\ \A q \in Rank \ {0} : q < Len(address[b]) <=> Stage(q, b) # "add"
      /\ \A q \in Rank \ {0} : q + 1 < Len(address[b]) => Stage(q, b) = "done"
  BY <1>1, ChainAt
<1>3. ~(r < Len(address[b]))
  BY <1>1, <1>2
<1>4. CASE r = 1
  <2>1. Len(address[b]) = 1
    <3>1. Len(address[b]) \in Nat /\ Len(address[b]) >= 1
      BY <1>2
    <3>2. ~(1 < Len(address[b]))
      BY <1>3, <1>4
    <3>3. \A n \in Nat : n >= 1 /\ ~(1 < n) => n = 1
      OBVIOUS
    <3> QED BY <3>1, <3>2, <3>3, Zenon
  <2>2. \A q \in Rank \ {0} : ~(q < 1)
    OBVIOUS
  <2> QED BY <1>4, <2>1, <2>2
<1>5. CASE r # 1
  <2>1. block_states[b, r - 1]
    BY <1>1, <1>5 DEF Turn
  <2>2. Stage(r - 1, b) = "done"
    BY <1>1, <2>1, NextRank DEF IInv, Flags
  <2>3. Len(address[b]) = r
    BY <1>1, <1>2, <1>3, <1>5, <2>2
  <2>4. ASSUME NEW q \in Rank \ {0}, q < r PROVE Stage(q, b) = "done"
    <3>1. CASE q = r - 1
      BY <2>2, <3>1
    <3>2. CASE q # r - 1
      BY <1>2, <2>3, <2>4, <3>2
    <3> QED BY <3>1, <3>2
  <2> QED BY <2>3, <2>4
<1> QED BY <1>4, <1>5

\* A rank adds its tensor to a block.
LEMMA AddBlockStep ==
  ASSUME IInv, FlagsSuffice, NEW r \in Rank, AddBlock(r)
  PROVE  IInv'
<1> USE RankFacts
<1>1. At(r, "add") /\ UNCHANGED <<states, block_states, round, at, index, recv>>
  BY DEF AddBlock
<1>2. PICK b \in DOMAIN work[r] :
        /\ work[r][b] = "add" /\ Turn(r, b)
        /\ address' = [address EXCEPT ![b] = Append(@, <<r, round[r]>>)]
        /\ work' = [work EXCEPT ![r][b] = "clear"]
  BY DEF AddBlock
<1>3. /\ r # 0 /\ round[r] = Epoch /\ Copied /\ Epoch \in Round
      /\ b \in Blocks(Epoch) /\ b \in AnyBlock /\ Stage(r, b) = "add"
  BY <1>1, <1>2, AddFacts
<1>4. /\ Epoch' = Epoch /\ Copied'
      /\ Stage(r, b)' = "clear"
      /\ \A q \in Rank, c \in Blocks(Epoch) : q # r \/ c # b => Stage(q, c)' = Stage(q, c)
      /\ (DOMAIN address' = AnyBlock /\ block_states' \in [AnyBlock \X Rank -> BOOLEAN] => Types')
      /\ Places' /\ Rounds' /\ StatesFit' /\ Waiting' /\ CopyFirst' /\ Received' /\ AllReduced'
  BY <1>1, <1>2, BlockStep
<1>5. Types'
  BY <1>1, <1>2, <1>4 DEF IInv, Types
<1>6. /\ Len(address[b]) = r /\ address[b] = Addends(Epoch, r)
      /\ \A q \in Rank \ {0} : q < r => Stage(q, b) = "done"
  <2>1. Len(address[b]) = r /\ \A q \in Rank \ {0} : q < r => Stage(q, b) = "done"
    BY <1>1, <1>2, TurnFacts
  <2> QED BY <1>3, <2>1, ChainAt
<1>7. /\ address'[b] = Addends(Epoch, r + 1) /\ Len(address'[b]) = r + 1
      /\ \A c \in AnyBlock : c # b => address'[c] = address[c]
  <2>1. DOMAIN address = AnyBlock
    BY DEF IInv, Types
  <2>2. address'[b] = Append(Addends(Epoch, r), <<r, Epoch>>)
    BY <1>2, <1>3, <1>6, <2>1
  <2>3. address'[b] = Addends(Epoch, r + 1)
    BY <1>3, <2>2, AddendsFacts
  <2>4. Len(address'[b]) = r + 1
    BY <2>3, AddendsFacts
  <2> QED BY <1>2, <2>1, <2>3, <2>4
<1>8. \A q \in Rank \ {0} : r < q => Stage(q, b) = "add"
  BY <1>3, <1>6, ChainAt
<1>9. Chain'
  <2> SUFFICES ASSUME NEW c \in Blocks(Epoch)
               PROVE  /\ \E k \in 1..RankSize : address'[c] = Addends(Epoch, k)
                      /\ \A q \in Rank \ {0} :
                           /\ q < Len(address'[c]) <=> Stage(q, c)' # "add"
                           /\ q + 1 < Len(address'[c]) => Stage(q, c)' = "done"
    BY <1>4 DEF Chain
  <2>1. CASE c = b
    <3>1. r + 1 \in 1..RankSize
      OBVIOUS
    <3>2. \A q \in Rank \ {0} : q # r => Stage(q, b)' = IF q < r THEN "done" ELSE "add"
      BY <1>3, <1>4, <1>6, <1>8
    <3> QED BY <1>4, <1>7, <2>1, <3>1, <3>2
  <2>2. CASE c # b
    <3>1. address'[c] = address[c]
      BY <1>3, <1>7, <2>2, BlocksFacts
    <3>2. \A q \in Rank \ {0} : Stage(q, c)' = Stage(q, c)
      BY <1>4, <2>2
    <3>3. Chain
      BY DEF IInv
    <3> QED BY <1>3, <3>1, <3>2, <3>3 DEF Chain
  <2> QED BY <2>1, <2>2
<1>10. Flags'
  <2> SUFFICES ASSUME NEW c \in AnyBlock, NEW q \in Rank \ {Last}, block_states[c, q]
               PROVE  /\ c \in Blocks(Epoch) /\ q # 0
                      /\ Stage(q, c)' = "done" /\ Stage(q + 1, c)' \in {"add", "clear"}
    BY <1>1, <1>4 DEF Flags
  <2>1. /\ c \in Blocks(Epoch) /\ q # 0
        /\ Stage(q, c) = "done" /\ Stage(q + 1, c) \in {"add", "clear"}
    BY DEF IInv, Flags
  <2>2. q + 1 \in Rank
    BY NextRank
  <2>3. CASE c # b
    BY <1>4, <2>1, <2>2, <2>3
  <2>4. CASE c = b
    <3>1. q # r
      BY <1>3, <2>1, <2>4
    <3> QED BY <1>4, <2>1, <2>2, <2>4, <3>1
  <2> QED BY <2>3, <2>4
<1>11. FlagsUp'
  <2> SUFFICES ASSUME NEW c \in Blocks(Epoch), NEW q \in Rank \ {0, Last},
                      Stage(q, c)' = "done", Stage(q + 1, c)' \in {"add", "clear"}
               PROVE  block_states[c, q]
    BY <1>1, <1>4 DEF FlagsUp
  <2>1. q + 1 \in Rank
    BY NextRank
  <2>2. Stage(q, c) = "done" /\ Stage(q + 1, c) \in {"add", "clear"}
    <3>1. CASE c # b
      BY <1>4, <2>1, <3>1
    <3>2. CASE c = b
      BY <1>3, <1>4, <2>1, <3>2
    <3> QED BY <3>1, <3>2
  <2> QED BY <1>3, <2>2 DEF IInv, FlagsUp
<1> QED
  BY <1>4, <1>5, <1>9, <1>10, <1>11 DEF IInv

\* A rank clears or raises a flag of a block it has added to.
LEMMA ChainKept ==
  ASSUME IInv, NEW r \in Rank \ {0}, NEW b \in Blocks(Epoch), Copied, Copied', Epoch' = Epoch,
         UNCHANGED address, Stage(r, b) \in {"clear", "set"}, Stage(r, b)' \in {"set", "done"},
         \A q \in Rank, c \in Blocks(Epoch) : q # r \/ c # b => Stage(q, c)' = Stage(q, c)
  PROVE  Chain'
<1> USE RankFacts
<1> SUFFICES ASSUME NEW c \in Blocks(Epoch)
             PROVE  /\ \E k \in 1..RankSize : address[c] = Addends(Epoch, k)
                    /\ \A q \in Rank \ {0} :
                         /\ q < Len(address[c]) <=> Stage(q, c)' # "add"
                         /\ q + 1 < Len(address[c]) => Stage(q, c)' = "done"
  BY DEF Chain
<1>1. Chain
  BY DEF IInv
<1>2. \E k \in 1..RankSize : address[c] = Addends(Epoch, k)
  BY <1>1 DEF Chain
<1>3. ASSUME NEW q \in Rank \ {0}
      PROVE  /\ q < Len(address[c]) <=> Stage(q, c)' # "add"
             /\ q + 1 < Len(address[c]) => Stage(q, c)' = "done"
  <2>1. CASE q # r \/ c # b
    BY <1>1, <1>3, <2>1 DEF Chain
  <2>2. CASE q = r /\ c = b
    BY <1>1, <1>3, <2>2 DEF Chain
  <2> QED BY <2>1, <2>2
<1> QED BY <1>2, <1>3

\* A rank clears its predecessor's flag.
LEMMA ClearFlagStep ==
  ASSUME IInv, FlagsSuffice, NEW r \in Rank, ClearFlag(r)
  PROVE  IInv'
<1> USE RankFacts
<1>1. At(r, "add") /\ UNCHANGED <<states, round, at, index, recv>>
  BY DEF ClearFlag
<1>2. PICK b \in DOMAIN work[r] :
        /\ work[r][b] = "clear" /\ SetFlag(round[r], b, r - 1, FALSE)
        /\ work' = [work EXCEPT ![r][b] = "set"]
  BY DEF ClearFlag
<1>3. /\ r # 0 /\ r - 1 \in Rank /\ round[r] = Epoch /\ Copied /\ Epoch \in Round
      /\ b \in Blocks(Epoch) /\ b \in AnyBlock /\ InBounds(b) /\ Stage(r, b) = "clear"
  BY <1>1, <1>2, AddFacts
<1>4. /\ Epoch' = Epoch /\ Copied'
      /\ Stage(r, b)' = "set"
      /\ \A q \in Rank, c \in Blocks(Epoch) : q # r \/ c # b => Stage(q, c)' = Stage(q, c)
      /\ (DOMAIN address' = AnyBlock /\ block_states' \in [AnyBlock \X Rank -> BOOLEAN] => Types')
      /\ Places' /\ Rounds' /\ StatesFit' /\ Waiting' /\ CopyFirst' /\ Received' /\ AllReduced'
  BY <1>1, <1>2, BlockStep
<1>5. block_states' = [block_states EXCEPT ![<<b, r - 1>>] = FALSE] /\ UNCHANGED address
  BY <1>2, <1>3 DEF SetFlag
<1>6. block_states \in [AnyBlock \X Rank -> BOOLEAN] /\ DOMAIN address = AnyBlock
  BY DEF IInv, Types
<1>7. Types'
  BY <1>3, <1>4, <1>5, <1>6
<1>8. Chain'
  BY <1>3, <1>4, <1>5, ChainKept
<1>9. Flags'
  <2> SUFFICES ASSUME NEW c \in AnyBlock, NEW q \in Rank \ {Last}, block_states'[c, q]
               PROVE  /\ c \in Blocks(Epoch) /\ q # 0
                      /\ Stage(q, c)' = "done" /\ Stage(q + 1, c)' \in {"add", "clear"}
    BY <1>4 DEF Flags
  <2>1. block_states[c, q] /\ (c # b \/ q # r - 1)
    BY <1>3, <1>5, <1>6
  <2>2. /\ c \in Blocks(Epoch) /\ q # 0
        /\ Stage(q, c) = "done" /\ Stage(q + 1, c) \in {"add", "clear"}
    BY <2>1 DEF IInv, Flags
  <2>3. q + 1 \in Rank /\ (q + 1 = r => q = r - 1)
    BY NextRank
  <2>4. CASE c # b
    BY <1>4, <2>2, <2>3, <2>4
  <2>5. CASE c = b
    <3>1. q # r /\ q + 1 # r
      BY <1>3, <2>1, <2>2, <2>3, <2>5
    <3> QED BY <1>4, <2>2, <2>3, <2>5, <3>1
  <2> QED BY <2>4, <2>5
<1>10. FlagsUp'
  <2> SUFFICES ASSUME NEW c \in Blocks(Epoch), NEW q \in Rank \ {0, Last},
                      Stage(q, c)' = "done", Stage(q + 1, c)' \in {"add", "clear"}
               PROVE  block_states'[c, q]
    BY <1>4 DEF FlagsUp
  <2>1. q + 1 \in Rank /\ c \in AnyBlock
    BY <1>3, NextRank, BlocksFacts
  <2>2. c # b \/ (q # r /\ q + 1 # r)
    BY <1>4
  <2>3. Stage(q, c) = "done" /\ Stage(q + 1, c) \in {"add", "clear"}
    BY <1>4, <2>1, <2>2
  <2>4. block_states[c, q]
    BY <1>3, <2>3 DEF IInv, FlagsUp
  <2>5. <<c, q>> # <<b, r - 1>>
    BY <1>3, <2>2, NextRank
  <2> QED BY <1>5, <1>6, <2>1, <2>4, <2>5
<1> QED
  BY <1>4, <1>7, <1>8, <1>9, <1>10 DEF IInv

\* A rank raises its flag for its successor.
LEMMA RaiseFlagStep ==
  ASSUME IInv, FlagsSuffice, NEW r \in Rank, RaiseFlag(r)
  PROVE  IInv'
<1> USE RankFacts
<1>1. At(r, "add") /\ UNCHANGED <<states, round, at, index, recv>>
  BY DEF RaiseFlag
<1>2. PICK b \in DOMAIN work[r] :
        /\ work[r][b] = "set" /\ SetFlag(round[r], b, r, TRUE)
        /\ work' = [work EXCEPT ![r][b] = "done"]
  BY DEF RaiseFlag
<1>3. /\ r # 0 /\ round[r] = Epoch /\ Copied /\ Epoch \in Round
      /\ b \in Blocks(Epoch) /\ b \in AnyBlock /\ InBounds(b) /\ Stage(r, b) = "set"
  BY <1>1, <1>2, AddFacts
<1>4. /\ Epoch' = Epoch /\ Copied'
      /\ Stage(r, b)' = "done"
      /\ \A q \in Rank, c \in Blocks(Epoch) : q # r \/ c # b => Stage(q, c)' = Stage(q, c)
      /\ (DOMAIN address' = AnyBlock /\ block_states' \in [AnyBlock \X Rank -> BOOLEAN] => Types')
      /\ Places' /\ Rounds' /\ StatesFit' /\ Waiting' /\ CopyFirst' /\ Received' /\ AllReduced'
  BY <1>1, <1>2, BlockStep
<1>5. block_states' = [block_states EXCEPT ![<<b, r>>] = TRUE] /\ UNCHANGED address
  BY <1>2, <1>3 DEF SetFlag
<1>6. block_states \in [AnyBlock \X Rank -> BOOLEAN] /\ DOMAIN address = AnyBlock
  BY DEF IInv, Types
<1>7. Types'
  BY <1>3, <1>4, <1>5, <1>6
<1>8. Chain'
  BY <1>3, <1>4, <1>5, ChainKept
<1>9. Flags'
  <2> SUFFICES ASSUME NEW c \in AnyBlock, NEW q \in Rank \ {Last}, block_states'[c, q]
               PROVE  /\ c \in Blocks(Epoch) /\ q # 0
                      /\ Stage(q, c)' = "done" /\ Stage(q + 1, c)' \in {"add", "clear"}
    BY <1>4 DEF Flags
  <2>1. q + 1 \in Rank \ {0}
    BY NextRank
  <2>2. CASE c = b /\ q = r
    <3>1. /\ Len(address[b]) \in 1..RankSize
          /\ r + 1 < Len(address[b]) <=> Stage(r + 1, b) # "add"
          /\ r + 1 < Len(address[b]) => Stage(r, b) = "done"
      BY <1>3, <2>1, <2>2, ChainAt
    <3>2. Stage(r + 1, b) = "add"
      BY <1>3, <3>1
    <3>3. r + 1 \in Rank /\ r + 1 # r
      BY <2>1, <2>2, NextRank
    <3> QED BY <1>3, <1>4, <2>2, <3>2, <3>3
  <2>3. CASE ~(c = b /\ q = r)
    <3>1. block_states[c, q]
      BY <1>3, <1>5, <1>6, <2>3
    <3>2. /\ c \in Blocks(Epoch) /\ q # 0
          /\ Stage(q, c) = "done" /\ Stage(q + 1, c) \in {"add", "clear"}
      BY <3>1 DEF IInv, Flags
    <3>3. c # b \/ (q # r /\ q + 1 # r)
      BY <1>3, <2>3, <3>2
    <3> QED BY <1>4, <2>1, <3>2, <3>3
  <2> QED BY <2>2, <2>3
<1>10. FlagsUp'
  <2> SUFFICES ASSUME NEW c \in Blocks(Epoch), NEW q \in Rank \ {0, Last},
                      Stage(q, c)' = "done", Stage(q + 1, c)' \in {"add", "clear"}
               PROVE  block_states'[c, q]
    BY <1>4 DEF FlagsUp
  <2>1. q + 1 \in Rank /\ c \in AnyBlock
    BY <1>3, NextRank, BlocksFacts
  <2>2. CASE c = b /\ q = r
    BY <1>3, <1>5, <1>6, <2>2
  <2>3. CASE ~(c = b /\ q = r)
    <3>1. c # b \/ (q # r /\ q + 1 # r)
      BY <1>4, <2>3
    <3>2. Stage(q, c) = "done" /\ Stage(q + 1, c) \in {"add", "clear"}
      BY <1>4, <2>1, <3>1
    <3>3. block_states[c, q]
      BY <1>3, <3>2 DEF IInv, FlagsUp
    <3> QED BY <1>5, <1>6, <2>1, <2>3, <3>3
  <2> QED BY <2>2, <2>3
<1> QED
  BY <1>4, <1>7, <1>8, <1>9, <1>10 DEF IInv

\* A rank has added all its blocks.
LEMMA AddDoneStep ==
  ASSUME IInv, NEW r \in Rank, AddDone(r)
  PROVE  IInv'
<1> USE RankFacts, RoundFacts
<1>0. /\ Types /\ Places /\ Rounds /\ StatesFit /\ Waiting
      /\ CopyFirst /\ Chain /\ Flags /\ FlagsUp /\ Received /\ AllReduced
  BY DEF IInv
<1>1. /\ round[r] \in Round /\ at[r] = "add" /\ LoopDone(r)
      /\ states' = [states EXCEPT ![r] = "RANKX_COPY_ADD"]
      /\ at' = [at EXCEPT ![r] = "wait_last"]
      /\ work' = [work EXCEPT ![r] = Loop(round[r], "move")]
      /\ UNCHANGED <<block_states, address, round, index, recv>>
  BY DEF AddDone, At, Goto, Prepare
<1>2. Epoch' = Epoch /\ Epoch \in Nat /\ \A q \in Rank : round[q] \in Nat
  BY <1>0, <1>1, RoundTypes DEF Epoch
<1>3. r # 0 /\ UsesShm(round[r]) /\ DOMAIN work[r] = Blocks(round[r]) /\ round[r] = Epoch
  BY <1>0, <1>1, PlaceRound DEF Places, Before
<1>4. Types'
  <2>1. at' \in [Rank -> Place] /\ states' \in [Rank -> State]
    BY <1>0, <1>1 DEF Types, Place, After, State
  <2>2. DOMAIN work' = Rank /\ \A q \in Rank :
          work'[q] \in [DOMAIN work'[q] -> {"move", "add", "clear", "set", "done"}]
    BY <1>0, <1>1 DEF Types, Loop
  <2> QED BY <1>0, <1>1, <2>1, <2>2 DEF Types
<1>5. \A q \in Rank : q # r => at'[q] = at[q] /\ work'[q] = work[q] /\ states'[q] = states[q]
  BY <1>0, <1>1 DEF Types
<1>6. /\ at'[r] = "wait_last" /\ states'[r] = "RANKX_COPY_ADD"
      /\ DOMAIN work'[r] = Blocks(round[r]) /\ \A b \in Blocks(round[r]) : work'[r][b] = "move"
  BY <1>0, <1>1 DEF Types, Loop
<1>7. Places'
  BY <1>0, <1>1, <1>3, <1>5, <1>6 DEF Places
<1>8. Copied /\ Copied'
  BY <1>0, <1>1, <1>2, <1>3, <1>5 DEF CopyFirst, Copied, Before
<1>9. (LastAdded => LastAdded') /\ \A q \in Rank : WasReset(q)' = WasReset(q)
  BY <1>1, <1>2, <1>5, <1>6 DEF LastAdded, WasReset, After
<1>10. Rounds'
  BY <1>0, <1>1, <1>2, <1>3, <1>5, <1>6, <1>9 DEF Rounds, Before
<1>11. StatesFit'
  BY <1>0, <1>1, <1>2, <1>3, <1>5, <1>6, <1>9 DEF StatesFit, Before, After
<1>12. states[r] = "RANK0_COPY"
  BY <1>0, <1>1, <1>3 DEF StatesFit
<1>13. Waiting'
  BY <1>0, <1>1, <1>2, <1>3, <1>5, <1>6, <1>12 DEF Waiting
<1>14. CopyFirst'
  BY <1>2, <1>3, <1>5, <1>8 DEF CopyFirst, Copied, After
<1>15. \A q \in Rank \ {0}, b \in Blocks(Epoch) : Stage(q, b)' = Stage(q, b)
  BY <1>1, <1>2, <1>3, <1>5, <1>6 DEF Stage, After, LoopDone
<1>16. Chain' /\ Flags' /\ FlagsUp'
  BY <1>0, <1>1, <1>2, <1>8, <1>15, ChainUnchanged
<1>17. Received' /\ AllReduced'
  BY <1>0, <1>1, <1>5, <1>6 DEF Received, AllReduced
<1> QED
  BY <1>4, <1>7, <1>10, <1>11, <1>13, <1>14, <1>16, <1>17 DEF IInv

\* The state RANKX_COPY_ADD of the last rank tells that it has added.
LEMMA LastAddedState ==
  ASSUME IInv, states[Last] = "RANKX_COPY_ADD"
  PROVE  LastAdded
<1> USE RankFacts
<1>0. Types /\ StatesFit
  BY DEF IInv
<1>1. round[Last] <= Epoch /\ Epoch \in Nat /\ round[Last] \in Nat
  BY <1>0, PlaceRound, RoundTypes
<1>2. round[Last] = Epoch
  BY <1>0, <1>1 DEF StatesFit
<1>3. at[Last] \in Place
  BY <1>0 DEF Types
<1> QED BY <1>0, <1>2, <1>3 DEF StatesFit, LastAdded, Place

\* Then every block holds the whole sum.
LEMMA SumReady ==
  ASSUME IInv, LastAdded, NEW b \in Blocks(Epoch)
  PROVE  Copied /\ address[b] = Sum(Epoch)
<1> USE RankFacts
<1>1. Copied
  BY DEF IInv, CopyFirst, LastAdded, Before, After
<1>2. Stage(Last, b) = "done"
  BY DEF LastAdded, Stage
<1>3. /\ Len(address[b]) \in 1..RankSize /\ Last < Len(address[b])
      /\ address[b] = Addends(Epoch, Len(address[b]))
  BY <1>1, <1>2, ChainAt
<1>4. Len(address[b]) = RankSize
  BY <1>3
<1> QED BY <1>1, <1>3, <1>4 DEF Sum, Addends

\* A rank sees that the last rank has added.
LEMMA WaitLastStep ==
  ASSUME IInv, NEW r \in Rank, WaitLast(r)
  PROVE  IInv'
<1> USE RankFacts, RoundFacts
<1>0. /\ Types /\ Places /\ Rounds /\ StatesFit /\ Waiting
      /\ CopyFirst /\ Chain /\ Flags /\ FlagsUp /\ Received /\ AllReduced
  BY DEF IInv
<1>1. /\ round[r] \in Round /\ at[r] = "wait_last" /\ states[Last] = "RANKX_COPY_ADD"
      /\ at' = [at EXCEPT ![r] = "broadcast"]
      /\ UNCHANGED <<states, block_states, address, round, index, work, recv>>
  BY DEF WaitLast, At, Goto
<1>2. Epoch' = Epoch /\ Epoch \in Nat /\ \A q \in Rank : round[q] \in Nat
  BY <1>0, <1>1, RoundTypes DEF Epoch
<1>3. LastAdded /\ round[r] = Epoch
  BY <1>1, LastAddedState, PlaceRound DEF Before
<1>4. Types'
  <2>1. at' \in [Rank -> Place]
    BY <1>0, <1>1 DEF Types, Place, After
  <2> QED BY <1>0, <1>1, <2>1 DEF Types
<1>5. (\A q \in Rank : q # r => at'[q] = at[q]) /\ at'[r] = "broadcast"
  BY <1>0, <1>1 DEF Types
<1>6. Places'
  BY <1>0, <1>1, <1>5 DEF Places
<1>7. /\ LastAdded' = LastAdded /\ Copied' = Copied
      /\ \A q \in Rank : WasReset(q)' = WasReset(q)
  <2>1. at[r] \in After /\ at'[r] \in After /\ at[r] # "reset" /\ at'[r] # "reset"
    BY <1>1, <1>5 DEF After
  <2> QED BY <1>1, <1>2, <1>5, <2>1 DEF LastAdded, Copied, WasReset
<1>8. Rounds'
  BY <1>0, <1>1, <1>2, <1>3, <1>5, <1>7 DEF Rounds
<1>9. StatesFit'
  BY <1>0, <1>1, <1>2, <1>5, <1>7 DEF StatesFit, Before, After
<1>10. Waiting'
  BY <1>0, <1>1, <1>2, <1>5 DEF Waiting
<1>11. CopyFirst'
  BY <1>0, <1>1, <1>2, <1>3, <1>5, <1>7, SumReady, BlocksFacts DEF CopyFirst
<1>12. \A q \in Rank \ {0}, b \in Blocks(Epoch) : Stage(q, b)' = Stage(q, b)
  BY <1>1, <1>2, <1>5 DEF Stage, After
<1>13. Chain' /\ Flags' /\ FlagsUp'
  BY <1>0, <1>1, <1>2, <1>7, <1>12, ChainUnchanged
<1>14. Received' /\ AllReduced'
  BY <1>0, <1>1, <1>5 DEF Received, AllReduced, Places
<1> QED
  BY <1>4, <1>6, <1>8, <1>9, <1>10, <1>11, <1>13, <1>14 DEF IInv

\* A rank copies a block out.
LEMMA CopyOutStep ==
  ASSUME IInv, NEW r \in Rank, CopyOut(r)
  PROVE  IInv'
<1> USE RankFacts, RoundFacts
<1>0. /\ Types /\ Places /\ Rounds /\ StatesFit /\ Waiting
      /\ CopyFirst /\ Chain /\ Flags /\ FlagsUp /\ Received /\ AllReduced
  BY DEF IInv
<1>1. PICK b \in DOMAIN work[r] :
        /\ recv' = [recv EXCEPT ![r][b] = address[b]]
        /\ work' = [work EXCEPT ![r][b] = "done"]
  BY DEF CopyOut
<1>2. /\ at[r] = "broadcast" /\ round[r] \in Round
      /\ UNCHANGED <<states, block_states, address, round, at, index>>
  BY DEF CopyOut, At
<1>3. Epoch' = Epoch /\ Epoch \in Nat /\ \A q \in Rank : round[q] \in Nat
  BY <1>0, <1>2, RoundTypes DEF Epoch
<1>4. round[r] = Epoch /\ LastAdded /\ DOMAIN work[r] = Blocks(Epoch)
  BY <1>0, <1>2, PlaceRound DEF Places, Rounds, Before
<1>5. address[b] = Sum(Epoch)
  BY <1>4, SumReady
<1>6. /\ \A q \in Rank : q # r => work'[q] = work[q] /\ recv'[q] = recv[q]
      /\ DOMAIN work'[r] = DOMAIN work[r] /\ work'[r][b] = "done"
      /\ \A c \in DOMAIN work[r] : c # b => work'[r][c] = work[r][c]
  BY <1>0, <1>1 DEF Types
<1>7. /\ DOMAIN recv' = Rank /\ DOMAIN recv'[r] = AnyBlock /\ recv'[r][b] = Sum(Epoch)
      /\ \A c \in AnyBlock : c # b => recv'[r][c] = recv[r][c]
  <2>1. b \in AnyBlock
    BY <1>2, <1>4, BlocksFacts
  <2> QED BY <1>0, <1>1, <1>5, <2>1 DEF Types
<1>8. Types'
  <2>1. DOMAIN work' = Rank /\ \A q \in Rank :
          work'[q] \in [DOMAIN work'[q] -> {"move", "add", "clear", "set", "done"}]
    BY <1>0, <1>1, <1>6 DEF Types
  <2> QED BY <1>0, <1>2, <1>6, <1>7, <2>1 DEF Types
<1>9. Places'
  BY <1>0, <1>2, <1>6 DEF Places
<1>10. /\ LastAdded' = LastAdded /\ Copied' = Copied
       /\ \A q \in Rank : WasReset(q)' = WasReset(q)
  BY <1>2, <1>3 DEF LastAdded, Copied, WasReset
<1>11. Rounds' /\ Waiting'
  BY <1>0, <1>2, <1>3, <1>10 DEF Rounds, Waiting
<1>12. StatesFit'
  BY <1>0, <1>2, <1>3, <1>10 DEF StatesFit
<1>13. CopyFirst'
  BY <1>0, <1>2, <1>3, <1>6, <1>10 DEF CopyFirst
<1>14. \A q \in Rank \ {0}, c \in Blocks(Epoch) : Stage(q, c)' = Stage(q, c)
  BY <1>2, <1>3, <1>6 DEF Stage
<1>15. Chain' /\ Flags' /\ FlagsUp'
  BY <1>0, <1>2, <1>3, <1>10, <1>14, ChainUnchanged
<1>16. Received'
  <2>1. Blocks(Epoch) \subseteq AnyBlock
    BY <1>2, <1>4, BlocksFacts
  <2> QED BY <1>0, <1>2, <1>4, <1>6, <1>7, <2>1 DEF Received
<1>17. AllReduced'
  BY <1>0, <1>2, <1>6 DEF AllReduced
<1> QED
  BY <1>8, <1>9, <1>11, <1>12, <1>13, <1>15, <1>16, <1>17 DEF IInv

\* A rank other than the last returns.
LEMMA BroadcastStep ==
  ASSUME IInv, NEW r \in Rank, Broadcast(r)
  PROVE  IInv'
<1> USE RankFacts, RoundFacts
<1>0. /\ Types /\ Places /\ Rounds /\ StatesFit /\ Waiting
      /\ CopyFirst /\ Chain /\ Flags /\ FlagsUp /\ Received /\ AllReduced
  BY DEF IInv
<1>1. /\ round[r] \in Round /\ at[r] = "broadcast" /\ LoopDone(r) /\ r # Last
      /\ states' = [states EXCEPT ![r] = "BROADCAST"]
      /\ round' = [round EXCEPT ![r] = @ + 1]
      /\ at' = [at EXCEPT ![r] = "call"]
      /\ UNCHANGED <<block_states, address, index, work, recv>>
  BY DEF Broadcast, At, Return, Goto
<1>2. /\ \A q \in Rank : q # r => /\ at'[q] = at[q] /\ round'[q] = round[q]
                                 /\ states'[q] = states[q]
      /\ at'[r] = "call" /\ round'[r] = round[r] + 1 /\ states'[r] = "BROADCAST"
  BY <1>0, <1>1 DEF Types
<1>3. Epoch' = Epoch /\ Epoch \in Nat /\ \A q \in Rank : round[q] \in Nat
  BY <1>0, <1>1, <1>2, RoundTypes DEF Epoch
<1>4. round[r] = Epoch /\ LastAdded /\ DOMAIN work[r] = Blocks(Epoch)
  BY <1>0, <1>1, PlaceRound DEF Places, Rounds, Before
<1>5. Types'
  <2>1. at' \in [Rank -> Place] /\ states' \in [Rank -> State]
    BY <1>0, <1>1 DEF Types, Place, Before, State
  <2>2. round' \in [Rank -> Round \cup {Len(Numel) + 1}]
    <3>1. round[r] + 1 \in Round \cup {Len(Numel) + 1}
      BY <1>1
    <3> QED BY <1>0, <1>1, <3>1 DEF Types
  <2> QED BY <1>0, <1>1, <2>1, <2>2 DEF Types
<1>6. Places'
  BY <1>0, <1>1, <1>2 DEF Places
<1>7. LastAdded' = LastAdded /\ \A q \in Rank : WasReset(q)' = WasReset(q)
  BY <1>1, <1>2, <1>3 DEF LastAdded, WasReset
<1>8. at[Last] # "reset"
  BY <1>0, <1>1, <1>3, <1>4 DEF Waiting
<1>9. Rounds'
  BY <1>0, <1>1, <1>2, <1>3, <1>4, <1>7 DEF Rounds, Before
<1>10. StatesFit'
  BY <1>0, <1>2, <1>3, <1>4, <1>7, <1>8 DEF StatesFit, WasReset
<1>11. states[r] # "INIT"
  BY <1>0, <1>1, <1>4 DEF StatesFit, After
<1>12. Waiting'
  BY <1>0, <1>1, <1>2, <1>3, <1>4, <1>11 DEF Waiting
<1>13. Copied /\ Copied'
  BY <1>1, <1>2, <1>3, <1>4, SumReady, BlocksFacts DEF Copied
<1>14. CopyFirst'
  BY <1>0, <1>1, <1>2, <1>3, <1>13 DEF CopyFirst
<1>15. \A q \in Rank \ {0}, b \in Blocks(Epoch) : Stage(q, b)' = Stage(q, b)
  BY <1>1, <1>2, <1>3, <1>4 DEF Stage, After
<1>16. Chain' /\ Flags' /\ FlagsUp'
  BY <1>0, <1>1, <1>3, <1>13, <1>15, ChainUnchanged
<1>17. \A b \in Blocks(Epoch) : recv[r][b] = Sum(Epoch)
  BY <1>0, <1>1, <1>4 DEF Received, LoopDone
<1>18. Received'
  BY <1>0, <1>1, <1>2 DEF Received
<1>19. AllReduced'
  <2>1. round'[r] - 1 = Epoch
    BY <1>2, <1>3, <1>4
  <2> QED BY <1>0, <1>1, <1>2, <1>17, <2>1 DEF AllReduced
<1> QED
  BY <1>5, <1>6, <1>9, <1>10, <1>12, <1>14, <1>16, <1>18, <1>19 DEF IInv

\* The last rank has its result.
LEMMA LastCopiedStep ==
  ASSUME IInv, NEW r \in Rank, LastCopied(r)
  PROVE  IInv'
<1> USE RankFacts, RoundFacts
<1>0. /\ Types /\ Places /\ Rounds /\ StatesFit /\ Waiting
      /\ CopyFirst /\ Chain /\ Flags /\ FlagsUp /\ Received /\ AllReduced
  BY DEF IInv
<1>1. /\ round[Last] \in Round /\ at[Last] = "broadcast" /\ LoopDone(Last) /\ r = Last
      /\ at' = [at EXCEPT ![Last] = "wait_broadcast"]
      /\ index' = [index EXCEPT ![Last] = 0]
      /\ UNCHANGED <<states, block_states, address, round, work, recv>>
  BY DEF LastCopied, At, Goto
<1>2. Epoch' = Epoch /\ Epoch \in Nat /\ \A q \in Rank : round[q] \in Nat
  BY <1>0, <1>1, RoundTypes DEF Epoch
<1>3. /\ \A q \in Rank : q # Last => at'[q] = at[q] /\ index'[q] = index[q]
      /\ at'[Last] = "wait_broadcast" /\ index'[Last] = 0
  BY <1>0, <1>1 DEF Types
<1>4. round[Last] = Epoch /\ LastAdded /\ DOMAIN work[Last] = Blocks(Epoch)
  BY <1>0, <1>1, PlaceRound DEF Places, Rounds, Before
<1>5. Types'
  <2>1. at' \in [Rank -> Place] /\ index' \in [Rank -> Rank]
    BY <1>0, <1>1 DEF Types, Place, After
  <2> QED BY <1>0, <1>1, <2>1 DEF Types
<1>6. Places'
  BY <1>0, <1>1, <1>3 DEF Places
<1>7. /\ LastAdded' = LastAdded /\ Copied' = Copied
      /\ \A q \in Rank : WasReset(q)' = WasReset(q)
  <2>1. at[Last] \in After /\ at'[Last] \in After /\ at[Last] # "reset" /\ at'[Last] # "reset"
    BY <1>1, <1>3 DEF After
  <2> QED BY <1>1, <1>2, <1>3, <2>1 DEF LastAdded, Copied, WasReset
<1>8. Rounds'
  BY <1>0, <1>1, <1>2, <1>3, <1>7 DEF Rounds
<1>9. StatesFit'
  BY <1>0, <1>1, <1>2, <1>3, <1>7 DEF StatesFit, Before, After
<1>10. Waiting'
  BY <1>0, <1>1, <1>2, <1>3 DEF Waiting
<1>11. CopyFirst'
  BY <1>0, <1>1, <1>2, <1>3, <1>4, <1>7, SumReady, BlocksFacts DEF CopyFirst
<1>12. \A q \in Rank \ {0}, b \in Blocks(Epoch) : Stage(q, b)' = Stage(q, b)
  BY <1>1, <1>2, <1>3 DEF Stage, After
<1>13. Chain' /\ Flags' /\ FlagsUp'
  BY <1>0, <1>1, <1>2, <1>7, <1>12, ChainUnchanged
<1>14. \A b \in Blocks(Epoch) : recv[Last][b] = Sum(Epoch)
  BY <1>0, <1>1, <1>4 DEF Received, LoopDone
<1>15. Received'
  BY <1>0, <1>1, <1>3, <1>4, <1>14 DEF Received
<1>16. AllReduced'
  BY <1>0, <1>1, <1>3 DEF AllReduced
<1> QED
  BY <1>5, <1>6, <1>8, <1>9, <1>10, <1>11, <1>13, <1>15, <1>16 DEF IInv

\* The last rank sees BROADCAST of a rank.
LEMMA WaitBroadcastStep ==
  ASSUME IInv, NEW r \in Rank, WaitBroadcast(r)
  PROVE  IInv'
<1> USE RankFacts, RoundFacts
<1>0. /\ Types /\ Places /\ Rounds /\ StatesFit /\ Waiting
      /\ CopyFirst /\ Chain /\ Flags /\ FlagsUp /\ Received /\ AllReduced
  BY DEF IInv
<1>1. /\ round[r] \in Round /\ at[r] = "wait_broadcast" /\ states[index[r]] = "BROADCAST"
      /\ UNCHANGED <<states, block_states, address, round, work, recv>>
  BY DEF WaitBroadcast, At
<1>2. r = Last /\ UsesShm(round[Last])
  BY <1>0, <1>1 DEF Places
<1>3. Epoch' = Epoch /\ Epoch \in Nat /\ \A q \in Rank : round[q] \in Nat
  BY <1>0, <1>1, RoundTypes DEF Epoch
<1>4. LastAdded
  BY <1>1, <1>2, PlaceRound DEF LastAdded, Before, After
<1>5. index[Last] \in Rank /\ index[Last] < Last
  BY <1>0, <1>1, <1>2 DEF Types, Waiting
<1>6. round[index[Last]] > Epoch
  <2> DEFINE q == index[Last]
  <2>1. q \in Rank /\ states[q] = "BROADCAST"
    BY <1>1, <1>2, <1>5
  <2>2. at[q] \in Place /\ round[q] \in Nat
    BY <1>0, <1>3, <2>1 DEF Types
  <2> HIDE DEF q
  <2>3. ~(round[q] < Epoch) /\ ~(round[q] = Epoch)
    BY <1>0, <2>1, <2>2 DEF StatesFit, Place
  <2>4. round[q] > Epoch
    BY <1>3, <2>2, <2>3
  <2> QED BY <2>4 DEF q
<1>7. \A q \in 0..index[Last] : round[q] > Epoch
  BY <1>0, <1>1, <1>2, <1>5, <1>6 DEF Waiting
<1>8. /\ at' \in [Rank -> Place] /\ index' \in [Rank -> Rank]
      /\ \A q \in Rank : q # Last => at'[q] = at[q] /\ index'[q] = index[q]
      /\ IF index[Last] < Last - 1
         THEN at'[Last] = "wait_broadcast" /\ index'[Last] = index[Last] + 1
         ELSE at'[Last] = "reset" /\ index'[Last] = 0
  <2>1. CASE index[Last] < Last - 1
    <3>1. index' = [index EXCEPT ![Last] = @ + 1] /\ at' = at
      BY <1>2, <2>1 DEF WaitBroadcast
    <3>2. index[Last] + 1 \in Rank
      BY <1>5
    <3> QED BY <1>0, <1>1, <1>2, <2>1, <3>1, <3>2 DEF Types
  <2>2. CASE ~(index[Last] < Last - 1)
    <3>1. index' = [index EXCEPT ![Last] = 0] /\ at' = [at EXCEPT ![Last] = "reset"]
      BY <1>2, <2>2 DEF WaitBroadcast, Goto
    <3> QED BY <1>0, <2>2, <3>1 DEF Types, Place, After
  <2> QED BY <2>1, <2>2
<1> DEFINE Moved == /\ \A q \in Rank : q # Last => at'[q] = at[q] /\ index'[q] = index[q]
                    /\ at'[Last] \in {"wait_broadcast", "reset"}
<1>8a. Moved
  BY <1>8
<1>9. Types'
  BY <1>0, <1>1, <1>8 DEF Types
<1>10. Places'
  BY <1>0, <1>1, <1>2, <1>8a DEF Places
<1>11. /\ LastAdded' = LastAdded /\ Copied' = Copied
       /\ \A q \in Rank : WasReset(q)' = WasReset(q)
  <2>1. at[Last] \in After /\ at'[Last] \in After /\ at[Last] # "reset"
    BY <1>1, <1>2, <1>8 DEF After
  <2>2. \A q \in Rank : ~WasReset(q) /\ ~WasReset(q)'
    BY <1>5, <1>8, <2>1 DEF WasReset
  <2>3. \A q \in Rank : WasReset(q)' = WasReset(q)
    BY <2>2 DEF WasReset
  <2>4. LastAdded' = LastAdded
    BY <1>1, <1>3, <2>1 DEF LastAdded
  <2>5. Copied' = Copied
    BY <1>1, <1>3, <1>8a, <2>1 DEF Copied
  <2> QED BY <2>3, <2>4, <2>5
<1>12. Rounds'
  BY <1>0, <1>1, <1>2, <1>3, <1>8, <1>11 DEF Rounds
<1>13. StatesFit'
  BY <1>0, <1>1, <1>2, <1>3, <1>8, <1>11 DEF StatesFit, Before, After
<1>14. Waiting'
  <2>1. at'[Last] = "wait_broadcast" =>
          index'[Last] < Last /\ \A q \in 0..(index'[Last] - 1) : round[q] > Epoch
    <3> SUFFICES ASSUME at'[Last] = "wait_broadcast"
                 PROVE  index'[Last] < Last /\ \A q \in 0..(index'[Last] - 1) : round[q] > Epoch
      OBVIOUS
    <3>1. index[Last] < Last - 1 /\ index'[Last] = index[Last] + 1
      BY <1>8
    <3>2. index'[Last] < Last /\ index'[Last] - 1 = index[Last]
      BY <1>5, <3>1
    <3> QED BY <1>7, <3>2
  <2>2. at'[Last] = "reset" => \A q \in 0..(Last - 1) : round[q] > Epoch
    BY <1>5, <1>7, <1>8
  <2>3. at'[Last] # "wait_init" /\ at'[0] = at[0] /\ index'[0] = index[0]
    BY <1>8
  <2> QED BY <1>0, <1>1, <1>3, <1>8, <2>1, <2>2, <2>3 DEF Waiting
<1>15. CopyFirst'
  BY <1>0, <1>1, <1>2, <1>3, <1>4, <1>8, <1>11, PlaceRound, SumReady, BlocksFacts
     DEF CopyFirst, LastAdded
<1>16. \A q \in Rank \ {0}, b \in Blocks(Epoch) : Stage(q, b)' = Stage(q, b)
  <2>1. at[Last] \in After /\ at'[Last] \in After
    BY <1>1, <1>2, <1>8 DEF After
  <2> QED BY <1>1, <1>3, <1>4, <1>8, <2>1 DEF Stage, LastAdded
<1>17. Chain' /\ Flags' /\ FlagsUp'
  BY <1>0, <1>1, <1>3, <1>11, <1>16, ChainUnchanged
<1>18. Received' /\ AllReduced'
  BY <1>0, <1>1, <1>2, <1>8a DEF Received, AllReduced
<1> QED
  BY <1>9, <1>10, <1>12, <1>13, <1>14, <1>15, <1>17, <1>18 DEF IInv

\* The last rank resets the state of another rank.
LEMMA ResetStep ==
  ASSUME IInv, NEW r \in Rank, Reset(r), index[r] < Last
  PROVE  IInv'
<1> USE RankFacts, RoundFacts
<1>0. /\ Types /\ Places /\ Rounds /\ StatesFit /\ Waiting
      /\ CopyFirst /\ Chain /\ Flags /\ FlagsUp /\ Received /\ AllReduced
  BY DEF IInv
<1> DEFINE k == index[Last]
<1>1. /\ round[r] \in Round /\ at[r] = "reset"
      /\ UNCHANGED <<block_states, address, round, at, work, recv>>
  BY DEF Reset, At
<1>2. r = Last /\ UsesShm(round[Last])
  BY <1>0, <1>1 DEF Places
<1>3. Epoch' = Epoch /\ Epoch \in Nat /\ \A q \in Rank : round[q] \in Nat
  BY <1>0, <1>1, RoundTypes DEF Epoch
<1>4. LastAdded
  BY <1>1, <1>2, PlaceRound DEF LastAdded, Before, After
<1>5. k \in Rank /\ k < Last /\ k + 1 \in Rank
  <2>1. k \in Rank /\ k < Last
    BY <1>0, <1>2 DEF Types
  <2> QED BY <2>1, NextRank
<1>6. states' = [states EXCEPT ![k] = "INIT"] /\ index' = [index EXCEPT ![Last] = k + 1]
  BY <1>2 DEF Reset
<1> HIDE DEF k
<1>7. /\ states'[k] = "INIT" /\ \A q \in Rank : q # k => states'[q] = states[q]
      /\ index'[Last] = k + 1 /\ \A q \in Rank : q # Last => index'[q] = index[q]
  BY <1>0, <1>5, <1>6 DEF Types
<1>8. Types'
  <2>1. states' \in [Rank -> State] /\ index' \in [Rank -> Rank]
    BY <1>0, <1>5, <1>6 DEF Types, State
  <2> QED BY <1>0, <1>1, <2>1 DEF Types
<1>9. \A q \in 0..(Last - 1) : round[q] > Epoch
  BY <1>0, <1>1, <1>2 DEF Waiting
<1>10. Places'
  BY <1>0, <1>1 DEF Places
<1>11. LastAdded' = LastAdded /\ Copied' = Copied
  BY <1>1, <1>3 DEF LastAdded, Copied
<1>12. Rounds'
  BY <1>0, <1>1, <1>3, <1>11 DEF Rounds
<1>13. StatesFit'
  <2>1. /\ \A q \in Rank : WasReset(q) <=> q < k
        /\ \A q \in Rank : WasReset(q)' <=> q < k + 1
    BY <1>1, <1>2, <1>7 DEF WasReset, k
  <2>2. round[Last] = Epoch /\ \A q \in Rank : q # Last => round[q] > Epoch
    BY <1>4, <1>9 DEF LastAdded
  <2> SUFFICES ASSUME NEW q \in Rank
               PROVE  (/\ round[q] < Epoch => states[q] = "INIT"
                       /\ round[q] = Epoch =>
                           /\ at[q] \in Before \cup {"copy"} => states[q] = "INIT"
                           /\ at[q] = "add" => states[q] = "RANK0_COPY"
                           /\ at[q] \in After =>
                                states[q] = IF q = 0 THEN "RANK0_COPY" ELSE "RANKX_COPY_ADD"
                       /\ round[q] > Epoch =>
                           /\ states[q] = IF WasReset(q) THEN "INIT" ELSE "BROADCAST"
                           /\ at[q] = "wait_copy" => WasReset(q))'
    BY DEF StatesFit
  <2>3. CASE q = Last
    BY <1>0, <1>1, <1>3, <1>5, <1>7, <2>2, <2>3 DEF StatesFit
  <2>4. CASE q # Last
    <3>1. round[q] > Epoch /\ round'[q] = round[q]
      BY <1>1, <2>2, <2>4
    <3>2. CASE q = k
      <4>1. WasReset(q)'
        BY <1>5, <2>1, <3>2
      <4> QED BY <1>1, <1>3, <1>7, <3>1, <3>2, <4>1
    <3>3. CASE q # k
      <4>1. WasReset(q)' <=> WasReset(q)
        BY <1>5, <2>1, <3>3
      <4> QED BY <1>0, <1>1, <1>3, <1>7, <3>1, <3>3, <4>1 DEF StatesFit
    <3> QED BY <3>2, <3>3
  <2> QED BY <2>3, <2>4
<1>14. Waiting'
  <2>1. /\ at'[Last] = "reset" /\ at'[0] # "copy"
    <3>1. round[0] > Epoch
      BY <1>9
    <3>2. at[0] \in Before
      BY <1>0, <3>1 DEF Rounds
    <3> QED BY <1>1, <1>2, <3>2 DEF Before
  <2>2. \A q \in Rank \ {0} : at'[q] = "wait_init" => index'[q] = q
    BY <1>0, <1>1, <1>7, <2>1 DEF Waiting
  <2>3. at'[0] = "wait_init" =>
          index'[0] > 0 /\ \A q \in 1..(index'[0] - 1) : states'[q] = "INIT"
    <3>1. index'[0] = index[0] /\ index[0] \in Rank
      BY <1>0, <1>7 DEF Types
    <3>2. \A q \in 1..(index[0] - 1) : q \in Rank
      BY <3>1
    <3>3. at[0] = "wait_init" =>
            index[0] > 0 /\ \A q \in 1..(index[0] - 1) : states[q] = "INIT"
      BY <1>0 DEF Waiting
    <3> QED BY <1>1, <1>7, <3>1, <3>2, <3>3
  <2>4. \A q \in 0..(Last - 1) : round'[q] > Epoch'
    BY <1>1, <1>3, <1>9
  <2> QED BY <2>1, <2>2, <2>3, <2>4 DEF Waiting
<1>15. CopyFirst'
  BY <1>0, <1>1, <1>3, <1>11 DEF CopyFirst
<1>16. \A q \in Rank \ {0}, b \in Blocks(Epoch) : Stage(q, b)' = Stage(q, b)
  BY <1>1, <1>3 DEF Stage
<1>17. Chain' /\ Flags' /\ FlagsUp'
  BY <1>0, <1>1, <1>3, <1>11, <1>16, ChainUnchanged
<1>18. Received' /\ AllReduced'
  BY <1>0, <1>1 DEF Received, AllReduced
<1> QED
  BY <1>8, <1>10, <1>12, <1>13, <1>14, <1>15, <1>17, <1>18 DEF IInv

\* At the start of a call no rank has copied or added, and no flag is up.
Fresh ==
  /\ Types /\ Places /\ Received /\ AllReduced
  /\ \A q \in Rank : round[q] <= Epoch /\ at[q] \in Before /\ states[q] = "INIT"
  /\ \A q \in Rank : round[q] < Epoch => \A n \in round[q]..(Epoch - 1) : Ccl(n)
  /\ \A q \in Rank \ {0} : at[q] = "wait_init" => index[q] = q
  /\ at[0] = "wait_init" => index[0] > 0
  /\ \A b \in AnyBlock, q \in Rank \ {Last} : ~block_states[b, q]

LEMMA FreshInvariant == Fresh => IInv
<1> USE RankFacts
<1> SUFFICES ASSUME Fresh PROVE IInv
  OBVIOUS
<1>0. /\ Types /\ Places /\ Received /\ AllReduced
      /\ \A q \in Rank : round[q] <= Epoch /\ at[q] \in Before /\ states[q] = "INIT"
      /\ \A q \in Rank : round[q] < Epoch => \A n \in round[q]..(Epoch - 1) : Ccl(n)
      /\ \A q \in Rank \ {0} : at[q] = "wait_init" => index[q] = q
      /\ at[0] = "wait_init" => index[0] > 0
  BY Zenon DEF Fresh
<1>1. Epoch \in Nat /\ \A q \in Rank : round[q] \in Nat /\ index[q] \in Rank
  <2>1. \A q \in Rank : round[q] \in Nat /\ index[q] \in Rank
    BY <1>0, RoundFacts DEF Types
  <2> QED BY <2>1, RoundFacts DEF Epoch
<1>2. ~Copied /\ ~LastAdded
  BY <1>0, <1>1 DEF Copied, LastAdded, Before, After
<1>3. Rounds
  BY <1>0, <1>1 DEF Rounds, Before
<1>4. StatesFit
  BY <1>0, <1>1 DEF StatesFit, Before, After
<1>5. Waiting
  <2>1. \A q \in 1..(index[0] - 1) : q \in Rank
    BY <1>1
  <2> QED BY <1>0, <2>1 DEF Waiting, Before
<1>6. CopyFirst /\ Chain /\ FlagsUp
  BY <1>0, <1>2 DEF CopyFirst, Chain, FlagsUp, Before
<1>7. Flags
  BY DEF Flags, Fresh
<1> QED BY <1>0, <1>3, <1>4, <1>5, <1>6, <1>7 DEF IInv

LEMMA FreshCall == Fresh' => IInv'
  BY FreshInvariant, PTL

\* The last rank resets its own state and returns: the call is over.
LEMMA LastResetStep ==
  ASSUME IInv, NEW r \in Rank, Reset(r), ~(index[r] < Last)
  PROVE  IInv'
<1> USE RankFacts, RoundFacts
<1>0. /\ Types /\ Places /\ Rounds /\ StatesFit /\ Waiting
      /\ CopyFirst /\ Chain /\ Flags /\ FlagsUp /\ Received /\ AllReduced
  BY DEF IInv
<1>1. /\ round[r] \in Round /\ at[r] = "reset"
      /\ UNCHANGED <<block_states, address, index, work, recv>>
  BY DEF Reset, At
<1>2. r = Last /\ UsesShm(round[Last])
  BY <1>0, <1>1 DEF Places
<1>3. Epoch \in Nat /\ (\A q \in Rank : round[q] \in Nat) /\ round[Last] = Epoch
  BY <1>0, <1>1, <1>2, RoundTypes, PlaceRound DEF Before
<1>4. index[Last] = Last
  BY <1>0, <1>2 DEF Types
<1>5. /\ states' = [states EXCEPT ![Last] = "INIT"]
      /\ round' = [round EXCEPT ![Last] = @ + 1]
      /\ at' = [at EXCEPT ![Last] = "call"]
  BY <1>2, <1>4 DEF Reset, Return, Goto
<1>6. /\ \A q \in Rank : q # Last => /\ at'[q] = at[q] /\ round'[q] = round[q]
                                    /\ states'[q] = states[q]
      /\ at'[Last] = "call" /\ round'[Last] = Epoch + 1 /\ states'[Last] = "INIT"
  BY <1>0, <1>3, <1>5 DEF Types
<1>7. \A q \in Rank : q # Last => /\ round[q] = Epoch + 1 /\ at[q] \in Before
                                /\ states[q] = "INIT"
  <2> SUFFICES ASSUME NEW q \in Rank, q # Last
               PROVE  round[q] = Epoch + 1 /\ at[q] \in Before /\ states[q] = "INIT"
    OBVIOUS
  <2>1. round[q] > Epoch
    BY <1>0, <1>1, <1>2 DEF Waiting
  <2>2. round[q] = Epoch + 1 /\ at[q] \in Before
    BY <1>0, <1>3, <2>1 DEF Rounds
  <2>3. WasReset(q)
    BY <1>1, <1>2, <1>4 DEF WasReset
  <2> QED BY <1>0, <2>1, <2>2, <2>3 DEF StatesFit
<1>8. Types'
  <2>1. at' \in [Rank -> Place] /\ states' \in [Rank -> State]
    BY <1>0, <1>5 DEF Types, Place, Before, State
  <2>2. round' \in [Rank -> Round \cup {Len(Numel) + 1}]
    <3>1. round[Last] + 1 \in Round \cup {Len(Numel) + 1}
      BY <1>1, <1>2
    <3> QED BY <1>0, <1>5, <3>1 DEF Types
  <2> QED BY <1>0, <1>1, <2>1, <2>2 DEF Types
<1>9. Places'
  BY <1>0, <1>1, <1>6 DEF Places
<1>10. Received'
  BY <1>0, <1>1, <1>6 DEF Received
<1>11. AllReduced'
  <2>1. \A b \in Blocks(Epoch) : recv[Last][b] = Sum(Epoch)
    BY <1>0, <1>1, <1>2, <1>3 DEF Received
  <2>2. round'[Last] - 1 = Epoch
    BY <1>3, <1>6
  <2> QED BY <1>0, <1>1, <1>6, <2>1, <2>2 DEF AllReduced
<1>12. \A q \in Rank : round'[q] = Epoch + 1 /\ at'[q] \in Before /\ states'[q] = "INIT"
  BY <1>6, <1>7 DEF Before
<1>13. \/ Epoch' = Epoch + 1
       \/ Epoch' = Epoch + 2 /\ Ccl(Epoch + 1)
  BY <1>3, <1>6 DEF Epoch
<1>14. \A q \in Rank : /\ round'[q] <= Epoch'
                       /\ round'[q] < Epoch' => \A n \in round'[q]..(Epoch' - 1) : Ccl(n)
  BY <1>3, <1>12, <1>13
<1>15. /\ \A q \in Rank \ {0} : at'[q] = "wait_init" => index'[q] = q
       /\ at'[0] = "wait_init" => index'[0] > 0
  BY <1>0, <1>1, <1>6 DEF Waiting
<1>16. \A p \in Rank, b \in AnyBlock : Stage(p, b) = "done"
  <2> SUFFICES ASSUME NEW p \in Rank, NEW b \in AnyBlock PROVE Stage(p, b) = "done"
    OBVIOUS
  <2>1. CASE p = Last
    BY <1>1, <1>2, <1>3, <2>1 DEF Stage, After
  <2>2. CASE p # Last
    <3>1. round[p] > Epoch
      BY <1>3, <1>7, <2>2
    <3> QED BY <3>1 DEF Stage
  <2> QED BY <2>1, <2>2
<1>17. \A b \in AnyBlock, q \in Rank \ {Last} : ~block_states'[b, q]
  <2> SUFFICES ASSUME NEW b \in AnyBlock, NEW q \in Rank \ {Last}, block_states[b, q]
               PROVE  FALSE
    BY <1>1
  <2>1. Stage(q + 1, b) \in {"add", "clear"}
    BY <1>0 DEF Flags
  <2>2. q + 1 \in Rank
    BY NextRank
  <2> QED BY <1>16, <2>1, <2>2
<1>18. Fresh'
  BY <1>8, <1>9, <1>10, <1>11, <1>12, <1>14, <1>15, <1>17 DEF Fresh
<1> QED BY <1>18, FreshCall

\* A rank in oneCCL is before the epoch.
LEMMA CclRound ==
  ASSUME IInv, NEW r \in Rank, At(r, "call"), ~UsesShm(round[r]),
         \A q \in Rank : round[q] >= round[r]
  PROVE  round[r] < Epoch
<1> USE RankFacts, RoundFacts
<1>1. Epoch \in Nat /\ \A q \in Rank : round[q] \in Nat
  BY RoundTypes DEF IInv
<1>2. round[Last] <= Epoch /\ round[Last] >= round[r]
  BY PlaceRound
<1>3. CASE round[r] = Epoch
  <2>1. round[Last] = round[r]
    BY <1>1, <1>2, <1>3
  <2>2. Ccl(round[Last])
    BY <2>1 DEF Ccl, At
  <2>3. Epoch = round[Last] + 1
    BY <2>2 DEF Epoch
  <2> QED BY <1>1, <1>3, <2>1, <2>3
<1> QED BY <1>1, <1>2, <1>3

\* What an all-reduce by oneCCL does to the rank's state.
LEMMA CclFacts ==
  ASSUME IInv, NEW r \in Rank, ccl_allreduce_add(r)
  PROVE  /\ round[r] \in Round /\ ~UsesShm(round[r]) /\ at[r] = "call" /\ at' = at
         /\ \A q \in Rank : round[q] >= round[r]
         /\ \A q \in Rank : q # r => round'[q] = round[q] /\ recv'[q] = recv[q]
         /\ round'[r] = round[r] + 1 /\ round[r] < Epoch
         /\ \A b \in Blocks(round[r]) : recv'[r][b] = Sum(round[r])
         /\ UNCHANGED <<states, block_states, address, index, work>>
         /\ Types' /\ Places' /\ Received' /\ AllReduced'
<1> USE RankFacts, RoundFacts
<1>0. Types /\ Places /\ Received /\ AllReduced
  BY DEF IInv
<1> DEFINE sums == [b \in AnyBlock |->
             IF b \in Blocks(round[r]) THEN Sum(round[r]) ELSE recv[r][b]]
<1>1. /\ round[r] \in Round /\ ~UsesShm(round[r]) /\ at[r] = "call"
      /\ \A q \in Rank : round[q] >= round[r]
      /\ round' = [round EXCEPT ![r] = @ + 1] /\ at' = [at EXCEPT ![r] = "call"]
      /\ UNCHANGED <<states, block_states, address, index, work>>
  BY DEF ccl_allreduce_add, At, Return, Goto
<1>2. recv' = [recv EXCEPT ![r] = sums]
  BY DEF ccl_allreduce_add
<1>3. at' = at
  BY <1>0, <1>1 DEF Types
<1>4. round[r] < Epoch
  BY CclRound DEF ccl_allreduce_add
<1>5. /\ \A q \in Rank : q # r => round'[q] = round[q]
      /\ round'[r] = round[r] + 1
  BY <1>0, <1>1 DEF Types
<1>6. Blocks(round[r]) \subseteq AnyBlock
  BY <1>1, BlocksFacts
<1>7. /\ DOMAIN sums = AnyBlock
      /\ \A b \in Blocks(round[r]) : sums[b] = Sum(round[r])
  BY <1>6
<1> HIDE DEF sums
<1>8. /\ DOMAIN recv' = Rank /\ recv'[r] = sums
      /\ \A q \in Rank : q # r => recv'[q] = recv[q]
  BY <1>0, <1>2 DEF Types
<1>9. Types'
  <2>1. round' \in [Rank -> Round \cup {Len(Numel) + 1}]
    <3>1. round[r] + 1 \in Round \cup {Len(Numel) + 1}
      BY <1>1
    <3> QED BY <1>0, <1>1, <3>1 DEF Types
  <2>2. \A q \in Rank : DOMAIN recv'[q] = AnyBlock
    BY <1>0, <1>7, <1>8 DEF Types
  <2> QED BY <1>0, <1>1, <1>3, <1>8, <2>1, <2>2 DEF Types
<1>10. Places'
  BY <1>0, <1>1, <1>3, <1>5 DEF Places
<1>11. Received'
  BY <1>0, <1>1, <1>3, <1>5, <1>8 DEF Received
<1>12. AllReduced'
  <2>1. round'[r] - 1 = round[r]
    BY <1>1, <1>5
  <2> QED BY <1>0, <1>3, <1>5, <1>7, <1>8, <2>1 DEF AllReduced
<1> QED
  BY <1>1, <1>3, <1>4, <1>5, <1>7, <1>8, <1>9, <1>10, <1>11, <1>12

\* The epoch stays, unless the last rank enters another call to oneCCL.
LEMMA CclSameEpoch ==
  ASSUME IInv, NEW r \in Rank, ccl_allreduce_add(r), Epoch' = Epoch
  PROVE  IInv'
<1> USE RankFacts, RoundFacts
<1>0. /\ Types /\ Places /\ Rounds /\ StatesFit /\ Waiting
      /\ CopyFirst /\ Chain /\ Flags /\ FlagsUp /\ Received /\ AllReduced
  BY DEF IInv
<1>1. /\ at[r] = "call" /\ at' = at /\ round[r] < Epoch
      /\ \A q \in Rank : q # r => round'[q] = round[q]
      /\ round'[r] = round[r] + 1
      /\ UNCHANGED <<states, block_states, address, index, work>>
      /\ Types' /\ Places' /\ Received' /\ AllReduced'
  BY CclFacts
<1>2. Epoch \in Nat /\ \A q \in Rank : round[q] \in Nat
  BY <1>0, RoundTypes
<1>3. round'[r] <= Epoch
  BY <1>1, <1>2
<1>4. (LastAdded' <=> LastAdded) /\ (Copied' <=> Copied)
  BY <1>1, <1>2, <1>3 DEF LastAdded, Copied, After
<1>5. Rounds'
  <2>1. round'[r] < Epoch => \A n \in round'[r]..(Epoch - 1) : Ccl(n)
    BY <1>0, <1>1, <1>2 DEF Rounds
  <2> QED BY <1>0, <1>1, <1>2, <1>3, <1>4, <2>1 DEF Rounds
<1>6. \A q \in Rank : WasReset(q)' = WasReset(q)
  BY <1>1 DEF WasReset
<1>7. StatesFit'
  BY <1>0, <1>1, <1>2, <1>3, <1>6 DEF StatesFit, Before, After
<1>8. Waiting'
  <2>1. \A q \in Rank : round[q] > Epoch => round'[q] > Epoch'
    BY <1>1, <1>2
  <2>2. index[Last] \in Rank
    BY <1>0 DEF Types
  <2>3. at[Last] = "wait_broadcast" =>
          \A q \in 0..(index[Last] - 1) : q \in Rank /\ round[q] > Epoch
    BY <1>0, <2>2 DEF Waiting
  <2>4. at[Last] = "reset" => \A q \in 0..(Last - 1) : q \in Rank /\ round[q] > Epoch
    BY <1>0 DEF Waiting
  <2> QED BY <1>0, <1>1, <2>1, <2>3, <2>4 DEF Waiting
<1>9. CopyFirst'
  BY <1>0, <1>1, <1>2, <1>3, <1>4 DEF CopyFirst, Before
<1>10. \A q \in Rank \ {0}, b \in Blocks(Epoch) : Stage(q, b)' = Stage(q, b)
  BY <1>1, <1>2, <1>3 DEF Stage, After
<1>11. Copied' = Copied
  BY <1>4 DEF Copied
<1>12. Chain' /\ Flags' /\ FlagsUp'
  BY <1>0, <1>1, <1>10, <1>11, ChainUnchanged
<1> QED
  BY <1>1, <1>5, <1>7, <1>8, <1>9, <1>12 DEF IInv

\* The last rank goes from one call to oneCCL to the next.
LEMMA CclNextEpoch ==
  ASSUME IInv, ccl_allreduce_add(Last), Ccl(Epoch)
  PROVE  IInv'
<1> USE RankFacts, RoundFacts
<1>0. /\ Types /\ Places /\ Rounds /\ StatesFit /\ Waiting
      /\ CopyFirst /\ Chain /\ Flags /\ FlagsUp /\ Received /\ AllReduced
  BY DEF IInv
<1>1. /\ at[Last] = "call" /\ at' = at /\ round[Last] < Epoch
      /\ round[Last] \in Round /\ ~UsesShm(round[Last])
      /\ \A q \in Rank : round[q] >= round[Last]
      /\ \A q \in Rank : q # Last => round'[q] = round[q]
      /\ round'[Last] = round[Last] + 1
      /\ UNCHANGED <<states, block_states, address, index, work>>
      /\ Types' /\ Places' /\ Received' /\ AllReduced'
  BY CclFacts
<1>2. Epoch \in Nat /\ \A q \in Rank : round[q] \in Nat
  BY <1>0, RoundTypes
<1>3. Ccl(round[Last]) /\ Epoch = round[Last] + 1
  BY <1>1 DEF Ccl, Epoch
<1>4. Epoch' = Epoch + 1
  <2>1. Epoch' = IF Ccl(round'[Last]) THEN round'[Last] + 1 ELSE round'[Last]
    BY DEF Epoch, Ccl
  <2> QED BY <1>1, <1>3, <2>1
<1>5. ~LastAdded
  BY <1>1 DEF LastAdded, After
<1>6. \A q \in Rank : round[q] <= Epoch
  BY <1>0, <1>2, <1>5 DEF Rounds
<1>7. \A q \in Rank : at[q] = "call" /\ states[q] = "INIT"
  <2> SUFFICES ASSUME NEW q \in Rank PROVE at[q] = "call" /\ states[q] = "INIT"
    OBVIOUS
  <2>1. CASE round[q] < Epoch
    BY <1>0, <2>1, PlaceRound DEF StatesFit
  <2>2. CASE round[q] = Epoch
    <3>1. at[q] = "call"
      BY <1>0, <2>2 DEF Places, Ccl
    <3> QED BY <1>0, <2>2, <3>1 DEF StatesFit, Before
  <2> QED BY <1>2, <1>6, <2>1, <2>2
<1>8. ~Copied
  BY <1>2, <1>6, <1>7 DEF Copied, After
<1>9. \A b \in AnyBlock, q \in Rank \ {Last} : ~block_states'[b, q]
  BY <1>0, <1>1, <1>8 DEF Flags
<1>10. \A q \in Rank : round'[q] <= Epoch' /\ at'[q] \in Before /\ states'[q] = "INIT"
  BY <1>1, <1>2, <1>3, <1>4, <1>6, <1>7 DEF Before
<1>11. \A q \in Rank : round'[q] < Epoch' => \A n \in round'[q]..(Epoch' - 1) : Ccl(n)
  <2>1. \A q \in Rank : round'[q] \in {round[Last], Epoch}
    BY <1>1, <1>2, <1>3, <1>6
  <2>2. \A n \in round[Last]..Epoch : n = round[Last] \/ n = Epoch
    BY <1>2, <1>3
  <2>3. \A n \in round[Last]..Epoch : Ccl(n)
    BY <1>3, <2>2
  <2>4. Epoch' - 1 = Epoch /\ Epoch..Epoch \subseteq round[Last]..Epoch
    BY <1>2, <1>3, <1>4
  <2>5. \A m \in {round[Last], Epoch} : \A n \in m..Epoch : Ccl(n)
    BY <2>3, <2>4
  <2> QED BY <2>1, <2>4, <2>5
<1>12. /\ \A q \in Rank \ {0} : at'[q] = "wait_init" => index'[q] = q
       /\ at'[0] = "wait_init" => index'[0] > 0
  BY <1>1, <1>7
<1>13. Fresh'
  BY <1>1, <1>9, <1>10, <1>11, <1>12 DEF Fresh
<1> QED BY <1>13, FreshCall

LEMMA CclStep ==
  ASSUME IInv, NEW r \in Rank, ccl_allreduce_add(r)
  PROVE  IInv'
<1> USE RankFacts
<1>1. /\ round[r] \in Round /\ ~UsesShm(round[r])
      /\ \A q \in Rank : q # r => round'[q] = round[q]
      /\ round'[r] = round[r] + 1
  BY CclFacts
<1>2. /\ Epoch = IF Ccl(round[Last]) THEN round[Last] + 1 ELSE round[Last]
      /\ Epoch' = IF Ccl(round'[Last]) THEN round'[Last] + 1 ELSE round'[Last]
  BY DEF Epoch, Ccl
<1>3. CASE r # Last
  BY <1>1, <1>2, <1>3, CclSameEpoch
<1>4. CASE r = Last
  <2>1. Ccl(round[Last]) /\ round'[Last] = Epoch
    BY <1>1, <1>2, <1>4 DEF Ccl
  <2>2. CASE Ccl(Epoch)
    BY <1>4, <2>2, CclNextEpoch
  <2>3. CASE ~Ccl(Epoch)
    <3>1. Epoch' = Epoch
      BY <1>2, <2>1, <2>3
    <3> QED BY <3>1, CclSameEpoch
  <2> QED BY <2>2, <2>3
<1> QED BY <1>3, <1>4
-----------------------------------------------------------------------------
LEMMA NextInvariant ==
  ASSUME IInv, FlagsSuffice, [Next]_vars
  PROVE  IInv'
<1>1. CASE UNCHANGED vars
  <2> USE <1>1 DEF vars
  <2>0. /\ Types /\ Places /\ Rounds /\ StatesFit /\ Waiting
        /\ CopyFirst /\ Chain /\ Flags /\ FlagsUp /\ Received /\ AllReduced
    BY DEF IInv
  <2>1. Epoch' = Epoch
    BY DEF Epoch
  <2>2. Copied' = Copied /\ LastAdded' = LastAdded
    BY <2>1 DEF Copied, LastAdded
  <2>3. Types' /\ Places' /\ Received' /\ AllReduced'
    BY <2>0 DEF Types, Places, Received, AllReduced
  <2>4. Rounds' /\ Waiting' /\ CopyFirst'
    BY <2>0, <2>1, <2>2 DEF Rounds, Waiting, CopyFirst
  <2>5. StatesFit'
    BY <2>0, <2>1 DEF StatesFit, WasReset
  <2>6. \A q \in Rank \ {0}, b \in Blocks(Epoch) : Stage(q, b)' = Stage(q, b)
    BY <2>1 DEF Stage
  <2>7. Chain' /\ Flags' /\ FlagsUp'
    BY <2>0, <2>1, <2>2, <2>6, ChainUnchanged
  <2> QED BY <2>3, <2>4, <2>5, <2>7 DEF IInv
<1>2. CASE Next
  <2> SUFFICES ASSUME NEW r \in Rank, RankStep(r) PROVE IInv'
    BY <1>2 DEF Next
  <2>1. CASE ccl_allreduce_add(r)
    BY <2>1, CclStep
  <2>2. CASE reduceAdd(r)
    BY <2>2, ReduceAddStep
  <2>3. CASE WaitInit(r)
    BY <2>3, WaitInitStep
  <2>4. CASE CopyIn(r)
    BY <2>4, CopyInStep
  <2>5. CASE Publish(r)
    BY <2>5, PublishStep
  <2>6. CASE AddBlock(r)
    BY <2>6, AddBlockStep
  <2>7. CASE ClearFlag(r)
    BY <2>7, ClearFlagStep
  <2>8. CASE RaiseFlag(r)
    BY <2>8, RaiseFlagStep
  <2>9. CASE AddDone(r)
    BY <2>9, AddDoneStep
  <2>10. CASE WaitLast(r)
    BY <2>10, WaitLastStep
  <2>11. CASE CopyOut(r)
    BY <2>11, CopyOutStep
  <2>12. CASE Broadcast(r)
    BY <2>12, BroadcastStep
  <2>13. CASE LastCopied(r)
    BY <2>13, LastCopiedStep
  <2>14. CASE WaitBroadcast(r)
    BY <2>14, WaitBroadcastStep
  <2>15. CASE Reset(r)
    <3>1. CASE index[r] < Last
      BY <2>15, <3>1, ResetStep
    <3>2. CASE ~(index[r] < Last)
      BY <2>15, <3>2, LastResetStep
    <3> QED BY <3>1, <3>2
  <2> QED
    BY <2>1, <2>2, <2>3, <2>4, <2>5, <2>6, <2>7, <2>8, <2>9, <2>10, <2>11, <2>12,
       <2>13, <2>14, <2>15 DEF RankStep
<1> QED BY <1>1, <1>2

\* The inductive invariant: the epoch, where the ranks are around it, and the
\* chain of additions to each block.
THEOREM ShmInvariant ==
  ASSUME FlagsSuffice
  PROVE  Spec => []IInv
<1>1. IInv /\ [Next]_vars => IInv'
  BY NextInvariant
<1> QED BY <1>1, InitInvariant, PTL DEF Spec

\* The states, the flags, the buffers and the loops of all ranks keep their
\* types.
THEOREM ShmTypeCorrect ==
  ASSUME FlagsSuffice
  PROVE  Spec => []TypeOK
<1>1. IInv => TypeOK
  BY DEF IInv, Types, TypeOK
<1> QED BY <1>1, ShmInvariant, PTL

\* Every rank returns from every call with the sum of all ranks' tensors of that
\* call, in rank order, for any number of ranks and any sequence of calls over
\* shared memory and oneCCL, each of any number of blocks of any size.
THEOREM ShmReducesAll ==
  ASSUME FlagsSuffice
  PROVE  Spec => []AllReduced
<1>1. IInv => AllReduced
  BY DEF IInv
<1> QED BY <1>1, ShmInvariant, PTL

\* The addend on top of a block that is not full.
LEMMA LastAddend ==
  ASSUME IInv, Copied, NEW b \in Blocks(Epoch), NEW q \in Rank, Len(address[b]) = q + 1
  PROVE  address[b][Len(address[b])] = <<q, Epoch>>
<1>1. q + 1 \in Nat \ {0} /\ (q + 1) - 1 = q
  BY RankFacts
<1>2. address[b] = Addends(Epoch, q + 1)
  BY ChainAt
<1> QED BY <1>1, <1>2, AddendsFacts

\* The owner of a raised flag was the last to add, or its successor is about to
\* clear it.
LEMMA StaleFlagCases ==
  ASSUME IInv, Copied, NEW b \in Blocks(Epoch), NEW q \in Rank \ {0}, q + 1 \in Rank \ {0},
         Stage(q, b) = "done", Stage(q + 1, b) \in {"add", "clear"}
  PROVE  LET last == address[b][Len(address[b])]
         IN  \/ last = <<q, round[q]>>
             \/ last = <<q + 1, round[q + 1]>> /\ work[q + 1][b] = "clear"
<1> USE RankFacts
<1> DEFINE len == Len(address[b])
<1>0. Types /\ Places /\ Rounds
  BY DEF IInv
<1>1. /\ len \in 1..RankSize
      /\ \A p \in Rank \ {0} : p < len <=> Stage(p, b) # "add"
      /\ \A p \in Rank \ {0} : p + 1 < len => Stage(p, b) = "done"
  BY ChainAt
<1> HIDE DEF len
<1>2. Epoch \in Nat /\ \A p \in Rank : round[p] \in Nat
  BY <1>0, RoundTypes
<1>3. q < len
  BY <1>1
<1>4. CASE Stage(q + 1, b) = "add"
  <2>1. ~(q + 1 < len)
    BY <1>1, <1>4
  <2>2. len = q + 1
    BY <1>1, <1>3, <2>1
  <2>3. round[q] = Epoch
    <3>1. ~(round[q] < Epoch)
      BY <1>2 DEF Stage
    <3>2. ~LastAdded
      <4> SUFFICES ASSUME LastAdded PROVE FALSE
        OBVIOUS
      <4>1. address[b] = Addends(Epoch, RankSize)
        BY SumReady DEF Sum, Addends
      <4>2. len = RankSize
        BY <4>1, AddendsFacts DEF len
      <4> QED BY <2>2, <4>2
    <3>3. ~(round[q] > Epoch)
      BY <1>0, <3>2 DEF Rounds
    <3> QED BY <1>2, <3>1, <3>3
  <2> QED BY <2>2, <2>3, LastAddend DEF len
<1>5. CASE Stage(q + 1, b) = "clear"
  <2>1. q + 1 < len /\ ~((q + 1) + 1 < len)
    BY <1>1, <1>5
  <2>2. len = (q + 1) + 1
    BY <1>1, <2>1
  <2>3. round[q + 1] = Epoch /\ work[q + 1][b] = "clear"
    BY <1>5 DEF Stage
  <2> QED BY <2>2, <2>3, LastAddend DEF len
<1> QED BY <1>4, <1>5

LEMMA InvariantFlags == IInv => NoStaleFlag
<1> SUFFICES ASSUME IInv, NEW b \in AnyBlock, NEW q \in Rank \ {Last}, block_states[b, q]
             PROVE  LET last == address[b][Len(address[b])]
                    IN  \/ last = <<q, round[q]>>
                        \/ last = <<q + 1, round[q + 1]>> /\ work[q + 1][b] = "clear"
  BY DEF NoStaleFlag
<1>1. /\ Copied /\ b \in Blocks(Epoch) /\ q # 0
      /\ Stage(q, b) = "done" /\ Stage(q + 1, b) \in {"add", "clear"}
  BY DEF IInv, Flags
<1>2. q \in Rank \ {0} /\ q + 1 \in Rank \ {0}
  BY <1>1, NextRank
<1> QED BY <1>1, <1>2, StaleFlagCases

\* No flag of an earlier call, or of a call with other blocks, lets a rank add
\* before its predecessor has.
THEOREM ShmNoStaleFlag ==
  ASSUME FlagsSuffice
  PROVE  Spec => []NoStaleFlag
  BY ShmInvariant, InvariantFlags, PTL

LEMMA CopyExcludes ==
  ASSUME IInv, NEW r \in Rank, NEW q \in Rank, NEW b, r # q, At(r, "copy")
  PROVE  r = 0 /\ ~Copied /\ ~Writes(q, b) /\ ~At(q, "broadcast")
<1>1. r = 0 /\ round[0] = Epoch /\ at[0] = "copy"
  BY PlaceRound DEF IInv, Places, At, Before
<1>2. Epoch \in Nat
  BY RoundTypes DEF IInv
<1>3. ~Copied
  BY <1>1, <1>2 DEF Copied, After
<1>4. at[q] \in Before
  BY <1>1, <1>3 DEF IInv, CopyFirst
<1> QED BY <1>1, <1>3, <1>4 DEF Writes, At, Before

LEMMA InvariantExclusive ==
  ASSUME IInv, FlagsSuffice
  PROVE  ExclusiveBlock
<1> SUFFICES ASSUME NEW r \in Rank, NEW q \in Rank, NEW b \in AnyBlock, r # q, Writes(r, b)
             PROVE  ~Writes(q, b) /\ ~At(q, "broadcast")
  BY DEF ExclusiveBlock
<1>1. CASE At(r, "copy")
  BY <1>1, CopyExcludes
<1>2. CASE At(r, "add") /\ b \in DOMAIN work[r] /\ work[r][b] = "add" /\ Turn(r, b)
  <2>1. Copied /\ b \in Blocks(Epoch)
    BY <1>2, AddFacts
  <2>2. Len(address[b]) = r
    BY <1>2, TurnFacts
  <2>3. ~At(q, "copy")
    BY <2>1, CopyExcludes
  <2>4. ~(At(q, "add") /\ b \in DOMAIN work[q] /\ work[q][b] = "add" /\ Turn(q, b))
    BY <2>2, TurnFacts
  <2>5. ~At(q, "broadcast")
    <3> SUFFICES ASSUME At(q, "broadcast") PROVE FALSE
      OBVIOUS
    <3>1. LastAdded
      BY PlaceRound DEF IInv, Rounds, At, Before
    <3>2. address[b] = Addends(Epoch, RankSize)
      BY <2>1, <3>1, SumReady DEF Sum, Addends
    <3>3. Len(address[b]) = RankSize
      BY <3>2, AddendsFacts, RankFacts
    <3> QED BY <2>2, <3>3, RankFacts
  <2> QED BY <2>3, <2>4, <2>5 DEF Writes
<1> QED BY <1>1, <1>2 DEF Writes

\* No two ranks write a block at a time, and none while a rank copies results
\* out.
THEOREM ShmExclusiveBlock ==
  ASSUME FlagsSuffice
  PROVE  Spec => []ExclusiveBlock
<1>1. IInv => ExclusiveBlock
  BY InvariantExclusive
<1> QED BY <1>1, ShmInvariant, PTL

-----------------------------------------------------------------------------
(* Nobody waits for everybody.  Under fairness that is liveness, which is   *)
(* left to TLC; that some rank can always go on is an invariant.            *)

\* The guards of the steps of rank r: what its loops spin on is there.
CanStep(r) ==
  \/ At(r, "call") /\ (UsesShm(round[r]) \/ \A q \in Rank : round[q] >= round[r])
  \/ At(r, "wait_init") /\ states[index[r]] = "INIT"
  \/ At(r, "copy")
  \/ At(r, "wait_copy") /\ states[0] = "RANK0_COPY"
  \/ /\ At(r, "add")
     /\ \/ LoopDone(r)
        \/ \E b \in DOMAIN work[r] : \/ work[r][b] \in {"clear", "set"}
                                     \/ work[r][b] = "add" /\ Turn(r, b)
  \/ At(r, "wait_last") /\ states[Last] = "RANKX_COPY_ADD"
  \/ At(r, "broadcast")
  \/ At(r, "wait_broadcast") /\ states[index[r]] = "BROADCAST"
  \/ At(r, "reset")

\* While a rank has calls left, some rank can go on.
NoDeadlock == (\E r \in Rank : round[r] \in Round) => \E r \in Rank : CanStep(r)

\* A nonempty set of numbers has a least one.
LEMMA LeastNumber ==
  ASSUME NEW S \in SUBSET Nat, S # {}
  PROVE  \E m \in S : \A n \in S : m <= n
<1> DEFINE R == OpToRel(<, Nat)
<1>1. \A x, y \in Nat : <<y, x>> \in R <=> y < x
  BY DEF OpToRel
<1>2. IsWellFoundedOn(R, Nat)
  BY NatLessThanWellFounded
<1> HIDE DEF R
<1>3. PICK x \in S : \A y \in S : ~(<<y, x>> \in R)
  BY <1>2, WFMin
<1>4. \A y \in S : ~(y < x) /\ y \in Nat /\ x \in Nat
  BY <1>1, <1>3
<1> QED BY <1>4

\* If a rank has yet to make a call before the epoch, the one that is furthest
\* behind can: oneCCL has all the others.
LEMMA FurthestBehind ==
  ASSUME IInv, NEW r \in Rank, round[r] < Epoch
  PROVE  \E q \in Rank : CanStep(q)
<1> USE RankFacts, RoundFacts
<1>0. Types /\ Rounds
  BY DEF IInv
<1>1. Epoch \in Nat /\ \A q \in Rank : round[q] \in Nat
  BY <1>0, RoundTypes
<1> DEFINE R == {round[q] : q \in Rank}
<1>2. PICK n \in R : \A k \in R : n <= k
  <2>1. R \in SUBSET Nat /\ R # {}
    BY <1>1
  <2> HIDE DEF R
  <2> QED BY <2>1, LeastNumber
<1>3. PICK q \in Rank : n = round[q]
  BY <1>2
<1>4. \A k \in Rank : round[q] <= round[k]
  BY <1>2, <1>3
<1>5. round[q] < Epoch
  BY <1>1, <1>4
<1>6. Ccl(round[q]) /\ at[q] = "call"
  BY <1>0, <1>1, <1>5, PlaceRound DEF Rounds
<1>7. CanStep(q)
  BY <1>1, <1>4, <1>6 DEF CanStep, At, Ccl
<1> QED BY <1>7

\* Everybody has reached the epoch, and it is not the end.
LEMMA EpochReached ==
  ASSUME IInv, NEW r \in Rank, round[r] \in Round, \A q \in Rank : round[q] >= Epoch
  PROVE  round[Last] = Epoch /\ Epoch \in Round /\ UsesShm(Epoch)
<1> USE RankFacts, RoundFacts
<1>0. Types /\ Rounds
  BY DEF IInv
<1>1. Epoch \in Nat /\ \A q \in Rank : round[q] \in Nat
  BY <1>0, RoundTypes
<1>2. round[Last] = Epoch
  BY <1>1, PlaceRound
<1>3. ~Ccl(Epoch)
  BY <1>1, <1>2 DEF Epoch
<1>4. Epoch \in Round
  BY <1>0, <1>1, <1>2 DEF Types
<1> QED BY <1>2, <1>3, <1>4 DEF Ccl

\* Until rank 0 has copied, it can go on.
LEMMA Rank0GoesOn ==
  ASSUME IInv, Epoch \in Round, UsesShm(Epoch), \A q \in Rank : round[q] >= Epoch, ~Copied
  PROVE  CanStep(0)
<1> USE RankFacts, RoundFacts
<1>0. Types /\ Places /\ StatesFit /\ Waiting /\ CopyFirst
  BY DEF IInv
<1>1. Epoch \in Nat /\ \A q \in Rank : round[q] \in Nat
  BY <1>0, RoundTypes
<1>2. round[0] = Epoch /\ at[0] \in {"call", "wait_init", "copy"}
  BY <1>0, <1>1 DEF Copied, Types, Place, Before, Places
<1>3. CASE at[0] = "wait_init"
  <2>1. index[0] \in Rank \ {0}
    BY <1>0, <1>3 DEF Types, Waiting
  <2>2. round[index[0]] = Epoch /\ at[index[0]] \in Before
    BY <1>0, <1>1, <2>1 DEF CopyFirst
  <2>3. states[index[0]] = "INIT"
    BY <1>0, <2>1, <2>2 DEF StatesFit
  <2> QED BY <1>2, <1>3, <2>3 DEF CanStep, At
<1> QED BY <1>2, <1>3 DEF CanStep, At

\* A rank of the epoch that has not begun to add can go on once rank 0 has
\* copied, until the last rank has added.
LEMMA FollowerGoesOn ==
  ASSUME IInv, Epoch \in Round, UsesShm(Epoch), Copied, states[0] = "RANK0_COPY",
         NEW r \in Rank \ {0}, round[r] = Epoch, at[r] \in Before
  PROVE  CanStep(r)
<1>0. StatesFit /\ Waiting
  BY DEF IInv
<1>1. states[r] = "INIT"
  BY <1>0 DEF StatesFit
<1>2. at[r] = "wait_init" => index[r] = r
  BY <1>0 DEF Waiting
<1> QED BY <1>1, <1>2 DEF CanStep, At, Before

\* Among ranks that add, the first one has its turn in every block.
LEMMA FirstAdderGoesOn ==
  ASSUME IInv, Epoch \in Round, Copied, NEW r \in Rank, round[r] = Epoch, at[r] = "add",
         \A q \in Rank \ {0} : q < r => round[q] = Epoch /\ at[q] \in After
  PROVE  CanStep(r)
<1> USE RankFacts
<1>0. Types /\ Places /\ FlagsUp
  BY DEF IInv
<1>1. r # 0 /\ DOMAIN work[r] = Blocks(Epoch)
  BY <1>0 DEF Places
<1>2. CASE LoopDone(r)
  BY <1>2 DEF CanStep, At
<1>3. CASE ~LoopDone(r)
  <2>1. PICK b \in DOMAIN work[r] : work[r][b] # "done"
    BY <1>3 DEF LoopDone
  <2>2. work[r][b] \in {"add", "clear", "set"}
    <3>1. work[r][b] \in {"move", "add", "clear", "set", "done"}
      BY <1>0 DEF Types
    <3>2. work[r][b] # "move"
      BY <1>0 DEF Places
    <3> QED BY <2>1, <3>1, <3>2
  <2>3. CASE work[r][b] = "add"
    <3>1. Stage(r, b) = "add"
      <4>1. ~(round[r] > Epoch)
        BY <1>0, RoundTypes
      <4> QED BY <2>3, <4>1 DEF Stage, After
    <3>2. CASE r = 1
      BY <2>3, <3>2 DEF CanStep, At, Turn
    <3>3. CASE r # 1
      <4>1. r - 1 \in Rank \ {0, Last} /\ (r - 1) + 1 = r /\ r - 1 < r
        BY <1>1, <3>3
      <4>2. Stage(r - 1, b) = "done"
        BY <4>1 DEF Stage
      <4>3. block_states[b, r - 1]
        BY <1>0, <1>1, <3>1, <4>1, <4>2 DEF FlagsUp
      <4> QED BY <2>3, <4>3 DEF CanStep, At, Turn
    <3> QED BY <3>2, <3>3
  <2> QED BY <2>2, <2>3 DEF CanStep, At
<1> QED BY <1>2, <1>3

\* While the last rank has not added, a rank that waits or adds can go on.
LEMMA AddersGoOn ==
  ASSUME IInv, Epoch \in Round, UsesShm(Epoch), round[Last] = Epoch,
         \A q \in Rank : round[q] >= Epoch, Copied, ~LastAdded
  PROVE  \E r \in Rank : CanStep(r)
<1> USE RankFacts
<1>0. Types /\ Places /\ Rounds /\ StatesFit
  BY DEF IInv
<1>1. Epoch \in Nat /\ \A q \in Rank : round[q] \in Nat
  BY <1>0, RoundTypes
<1>2. \A q \in Rank : round[q] = Epoch
  BY <1>0, <1>1 DEF Rounds
<1>3. states[0] = "RANK0_COPY"
  <2>1. at[0] \in After
    BY <1>1, <1>2 DEF Copied
  <2> QED BY <1>0, <1>2, <2>1 DEF StatesFit
<1>4. CASE \E q \in Rank \ {0} : at[q] \in Before
  BY <1>2, <1>3, <1>4, FollowerGoesOn
<1>5. CASE \A q \in Rank \ {0} : at[q] \notin Before
  <2>1. \A q \in Rank \ {0} : at[q] \in After \cup {"add"}
    BY <1>0, <1>5 DEF Types, Place, Places
  <2> DEFINE R == {q \in Rank \ {0} : at[q] = "add"}
  <2>2. Last \in R
    BY <2>1 DEF LastAdded
  <2>3. PICK r \in R : \A q \in R : r <= q
    <3>1. R \in SUBSET Nat /\ R # {}
      BY <2>2
    <3> HIDE DEF R
    <3> QED BY <3>1, LeastNumber
  <2>4. \A q \in Rank \ {0} : q < r => q \notin R
    BY <2>3
  <2>5. \A q \in Rank \ {0} : q < r => round[q] = Epoch /\ at[q] \in After
    BY <1>2, <2>1, <2>4
  <2>6. r \in Rank /\ round[r] = Epoch /\ at[r] = "add"
    BY <1>2, <2>3
  <2> QED BY <2>5, <2>6, FirstAdderGoesOn
<1> QED BY <1>4, <1>5

\* Once the last rank has added, so have all; it waits only for ranks that
\* can go on.
LEMMA LastGoesOn ==
  ASSUME IInv, Epoch \in Round, UsesShm(Epoch), LastAdded,
         \A q \in Rank : round[q] >= Epoch
  PROVE  \E r \in Rank : CanStep(r)
<1> USE RankFacts
<1>0. Types /\ Places /\ Rounds /\ StatesFit /\ Waiting
  BY DEF IInv
<1>1. Epoch \in Nat /\ \A q \in Rank : round[q] \in Nat
  BY <1>0, RoundTypes
<1>2. round[Last] = Epoch /\ at[Last] \in After /\ states[Last] = "RANKX_COPY_ADD"
  BY <1>0 DEF LastAdded, StatesFit
<1>3. CASE at[Last] # "wait_broadcast"
  BY <1>2, <1>3 DEF CanStep, At, After
<1>4. CASE at[Last] = "wait_broadcast"
  <2> DEFINE i == index[Last]
  <2>1. i \in Rank /\ i < Last
    BY <1>0, <1>4 DEF Types, Waiting
  <2> HIDE DEF i
  <2>2. CASE round[i] > Epoch
    <3>1. states[i] = "BROADCAST"
      BY <1>0, <1>4, <2>1, <2>2 DEF StatesFit, WasReset
    <3> QED BY <1>2, <1>4, <3>1 DEF CanStep, At, i
  <2>3. CASE ~(round[i] > Epoch)
    <3>1. round[i] = Epoch
      BY <1>1, <2>1, <2>3
    <3>2. Copied /\ \A b \in Blocks(Epoch) : i # 0 => Stage(i, b) = "done"
      <4>1. Copied
        BY DEF IInv, CopyFirst, LastAdded, Before, After
      <4>2. ASSUME NEW b \in Blocks(Epoch), i # 0 PROVE Stage(i, b) = "done"
        <5>1. Stage(Last, b) = "done"
          BY <1>2 DEF Stage
        <5>2. Last < Len(address[b]) /\ Len(address[b]) \in Nat
          BY <4>1, <5>1, ChainAt
        <5>3. i + 1 < Len(address[b]) /\ i \in Rank \ {0}
          BY <2>1, <4>2, <5>2
        <5> QED BY <4>1, <5>3, ChainAt
      <4> QED BY <4>1, <4>2
    <3>3. at[i] \in {"add", "wait_last", "broadcast"}
      <4>1. CASE i = 0
        <5>1. at[i] \in After
          BY <1>1, <3>1, <3>2, <4>1 DEF Copied
        <5> QED BY <1>0, <2>1, <5>1 DEF After, Places
      <4>2. CASE i # 0
        <5>1. Stage(i, 0) = "done"
          BY <3>2, <4>2, BlocksFacts
        <5>2. at[i] \in After \cup {"add"}
          BY <1>1, <3>1, <5>1 DEF Stage
        <5> QED BY <1>0, <2>1, <5>2 DEF After, Places
      <4> QED BY <4>1, <4>2
    <3>4. at[i] = "add" => LoopDone(i)
      <4> SUFFICES ASSUME at[i] = "add", NEW b \in DOMAIN work[i] PROVE work[i][b] = "done"
        BY DEF LoopDone
      <4>1. i # 0 /\ b \in Blocks(Epoch)
        BY <1>0, <2>1, <3>1 DEF Places
      <4>2. Stage(i, b) = "done"
        BY <3>2, <4>1
      <4> QED BY <2>3, <3>1, <4>2 DEF Stage, After
    <3>5. CanStep(i)
      BY <1>2, <3>1, <3>3, <3>4 DEF CanStep, At
    <3> QED BY <2>1, <3>5
  <2> QED BY <2>2, <2>3
<1> QED BY <1>3, <1>4

\* No deadlock, for any number of ranks and any sequence of calls: in every state
\* in which a rank has calls left, what some rank spins on is there already.
THEOREM ShmNoDeadlock ==
  ASSUME FlagsSuffice
  PROVE  Spec => []NoDeadlock
<1>1. ASSUME IInv PROVE NoDeadlock
  <2> SUFFICES ASSUME NEW r \in Rank, round[r] \in Round
      PROVE  \E q \in Rank : CanStep(q)
    BY DEF NoDeadlock
  <2>0. Epoch \in Nat /\ \A q \in Rank : round[q] \in Nat
    BY <1>1, RoundTypes DEF IInv
  <2>1. CASE \E q \in Rank : round[q] < Epoch
    BY <1>1, <2>1, FurthestBehind
  <2>2. CASE \A q \in Rank : round[q] >= Epoch
    <3>1. round[Last] = Epoch /\ Epoch \in Round /\ UsesShm(Epoch)
      BY <1>1, <2>2, EpochReached
    <3>2. CASE ~Copied
      BY <1>1, <2>2, <3>1, <3>2, RankFacts, Rank0GoesOn
    <3>3. CASE Copied /\ ~LastAdded
      BY <1>1, <2>2, <3>1, <3>3, AddersGoOn
    <3>4. CASE LastAdded
      BY <1>1, <2>2, <3>1, <3>4, LastGoesOn
    <3> QED BY <3>2, <3>3, <3>4
  <2> QED BY <2>0, <2>1, <2>2
<1> QED BY <1>1, ShmInvariant, PTL
=============================================================================
