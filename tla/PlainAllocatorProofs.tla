----------------------- MODULE PlainAllocatorProofs -----------------------
(***************************************************************************)
(* A program that records no graphs: PlainSpec.  Without private pools the *)
(* allocator never touches a deleted Block, loses no memory, keeps free    *)
(* memory coalesced, lets emptyCache release all of it, and implements     *)
(* AbstractAllocator.                                                      *)
(***************************************************************************)
EXTENDS CachingDeviceAllocatorProofs

\* All blocks belong to the allocator's own pools, which list no deleted Block.
Owned(pools, blocks) ==
  /\ \A b \in DOMAIN blocks : blocks[b].owner = NULL
  /\ \A k \in PoolKey : pools[k] \subseteq DOMAIN blocks /\ (k[1] # NULL => pools[k] = {})

\* A block that is neither allocated nor waiting for events is listed by a pool.
Listed(pools, blocks, hand) ==
  \A b \in DOMAIN blocks \ hand :
    \/ blocks[b].allocated
    \/ blocks[b].event_cnt > 0
    \/ \E k \in PoolKey : b \in pools[k]

\* No two neighbours are free.
Joined(blocks, hand) ==
  \A b \in DOMAIN blocks \ hand :
    blocks[b].next # NULL /\ blocks[b].next \notin hand =>
      ~(Mergeable(blocks, b) /\ Mergeable(blocks, blocks[b].next))

\* Every segment begins with a block.
Covered(blocks, segs) == \A s \in segs : \E b \in DOMAIN blocks : blocks[b].buffer = s.base

PlainInv ==
  /\ ~undefined
  /\ recordings_underway = <<>> /\ graph_pools_freeable = {} /\ op.owner = NULL
  /\ op.pc # "insert_events" => op.todo = {}
  /\ op.pc = "empty_free" => dpcpp_events = <<>>
  /\ Owned(pool, block) /\ Listed(pool, block, {op.block})
  /\ Joined(block, Inserting) /\ Covered(block, segment)
-----------------------------------------------------------------------------
(* Merging, continued: where the links of the merged blocks lead. *)

LEMMA MergeNextLinks ==
  ASSUME NEW blocks, BlockMap(blocks), NEW segs \in SUBSET Segment, Tiling(blocks, segs),
         NEW d \in DOMAIN blocks, NEW src, src = blocks[d].next, Mergeable(blocks, src)
  PROVE  LET m == TryMerge(blocks, d, src)
         IN  /\ m[d].next = blocks[src].next /\ m[d].buffer = blocks[d].buffer
             /\ \A x \in DOMAIN m : x # d => m[x].next = blocks[x].next
<1> DEFINE m == TryMerge(blocks, d, src)
           o == blocks[src].next
<1>1. DOMAIN m = DOMAIN blocks \ {src} /\ d # src /\ src \in DOMAIN blocks
  BY MergeNext
<1>2. \A x \in DOMAIN blocks : blocks[x] \in Block
  BY DEF BlockMap
<1>3. blocks[d].prev # src
  <2>1. SUFFICES ASSUME blocks[d].prev = src PROVE FALSE
    OBVIOUS
  <2>2. blocks[src].next = d /\ src # NULL
    BY <2>1 DEF Tiling, Linked, Mergeable
  <2>3. d # NULL
    BY NullAssumption DEF BlockMap
  <2>4. /\ blocks[src].buffer = blocks[d].buffer + blocks[d].size
        /\ blocks[d].buffer = blocks[src].buffer + blocks[src].size
        /\ blocks[d].size > 0 /\ blocks[src].size > 0
    BY <1>1, <2>2, <2>3 DEF Tiling, Linked
  <2>5. /\ blocks[d].buffer \in Nat /\ blocks[d].size \in Nat
        /\ blocks[src].buffer \in Nat /\ blocks[src].size \in Nat
    BY <1>1, <1>2 DEF Block
  <2> QED BY <2>4, <2>5
<1>4. m = [x \in DOMAIN blocks \ {src} |->
             IF x = d THEN [blocks[x] EXCEPT !.size = blocks[d].size + blocks[src].size,
                                             !.next = o]
             ELSE IF x = o THEN [blocks[x] EXCEPT !.prev = d]
             ELSE blocks[x]]
  BY <1>3 DEF TryMerge
<1> HIDE DEF m
<1>5. m[d] = [blocks[d] EXCEPT !.size = blocks[d].size + blocks[src].size, !.next = o]
  BY <1>1, <1>4
<1>6. m[d].next = o /\ m[d].buffer = blocks[d].buffer
  BY <1>2, <1>5 DEF Block
<1>7. ASSUME NEW x \in DOMAIN m, x # d PROVE m[x].next = blocks[x].next
  <2>1. CASE x = o
    <3>1. m[x] = [blocks[x] EXCEPT !.prev = d] /\ blocks[x] \in Block
      BY <1>1, <1>2, <1>4, <1>7, <2>1
    <3> QED BY <3>1 DEF Block
  <2>2. CASE x # o
    BY <1>4, <1>7, <2>2
  <2> QED BY <2>1, <2>2
<1> QED BY <1>6, <1>7 DEF m

LEMMA MergePrevLinks ==
  ASSUME NEW blocks, BlockMap(blocks), NEW segs \in SUBSET Segment, Tiling(blocks, segs),
         NEW d \in DOMAIN blocks, NEW src, src = blocks[d].prev, Mergeable(blocks, src)
  PROVE  LET m == TryMerge(blocks, d, src)
         IN  /\ m[d].prev = blocks[src].prev /\ m[d].buffer = blocks[src].buffer
             /\ \A x \in DOMAIN m : x # d =>
                  m[x].next = IF x = blocks[src].prev THEN d ELSE blocks[x].next
<1> DEFINE m == TryMerge(blocks, d, src)
           o == blocks[src].prev
<1>1. DOMAIN m = DOMAIN blocks \ {src} /\ d # src /\ src \in DOMAIN blocks
  BY MergePrev
<1>2. \A x \in DOMAIN blocks : blocks[x] \in Block
  BY DEF BlockMap
<1>4. m = [x \in DOMAIN blocks \ {src} |->
             IF x = d THEN [blocks[x] EXCEPT !.size = blocks[d].size + blocks[src].size,
                                             !.prev = o, !.buffer = blocks[src].buffer]
             ELSE IF x = o THEN [blocks[x] EXCEPT !.next = d]
             ELSE blocks[x]]
  BY DEF TryMerge
<1> HIDE DEF m
<1>5. m[d] = [blocks[d] EXCEPT !.size = blocks[d].size + blocks[src].size,
                               !.prev = o, !.buffer = blocks[src].buffer]
  BY <1>1, <1>4
<1>6. m[d].prev = o /\ m[d].buffer = blocks[src].buffer
  BY <1>2, <1>5 DEF Block
<1>7. ASSUME NEW x \in DOMAIN m, x # d
      PROVE  m[x].next = IF x = o THEN d ELSE blocks[x].next
  <2>1. CASE x = o
    <3>1. m[x] = [blocks[x] EXCEPT !.next = d] /\ blocks[x] \in Block
      BY <1>1, <1>2, <1>4, <1>7, <2>1
    <3> QED BY <2>1, <3>1 DEF Block
  <2>2. CASE x # o
    BY <1>4, <1>7, <2>2
  <2> QED BY <2>1, <2>2
<1> QED BY <1>6, <1>7 DEF m

\* Merging keeps every block's being free or not.
LEMMA KeptMergeable ==
  ASSUME NEW blocks, NEW m, NEW d, Kept(blocks, m, d)
  PROVE  \A x \in DOMAIN m : x # NULL => (Mergeable(m, x) <=> Mergeable(blocks, x))
  BY DEF Kept, Mergeable

\* Neighbours point at each other.
LEMMA LinkedFacts ==
  ASSUME NEW blocks, BlockMap(blocks), Linked(blocks), NEW x \in DOMAIN blocks
  PROVE  /\ x # NULL /\ blocks[x].size > 0
         /\ blocks[x].next # NULL =>
              blocks[x].next \in DOMAIN blocks /\ blocks[blocks[x].next].prev = x
         /\ blocks[x].prev # NULL =>
              blocks[x].prev \in DOMAIN blocks /\ blocks[blocks[x].prev].next = x
  BY NullAssumption DEF Linked, BlockMap

\* The first half of free_block's merging leaves no free block before b.
LEMMA JoinPrev ==
  ASSUME NEW blocks, BlockMap(blocks), NEW segs \in SUBSET Segment, Tiling(blocks, segs),
         NEW b \in DOMAIN blocks, Joined(blocks, {b})
  PROVE  LET m == TryMerge(blocks, b, blocks[b].prev)
         IN  /\ Joined(m, {b}) /\ b \in DOMAIN m /\ m[b].next = blocks[b].next
             /\ BlockMap(m) /\ Tiling(m, segs) /\ Kept(blocks, m, b)
             /\ m[b].prev # NULL => ~Mergeable(m, m[b].prev)
<1> DEFINE p == blocks[b].prev
           o == blocks[p].prev
           m == TryMerge(blocks, b, p)
<1>1. CASE ~Mergeable(blocks, p)
  <2>1. m = blocks
    BY <1>1 DEF TryMerge
  <2>2. Kept(blocks, blocks, b)
    BY DEF Kept
  <2> QED BY <1>1, <2>1, <2>2
<1>2. CASE Mergeable(blocks, p)
  <2>1. /\ DOMAIN m = DOMAIN blocks \ {p} /\ b # p /\ p \in DOMAIN blocks
        /\ BlockMap(m) /\ Tiling(m, segs) /\ Kept(blocks, m, b)
        /\ m[b].next = blocks[b].next
    BY <1>2, MergePrev
  <2>2. /\ m[b].prev = o
        /\ \A x \in DOMAIN m : x # b => m[x].next = IF x = o THEN b ELSE blocks[x].next
    BY <1>2, MergePrevLinks
  <2> HIDE DEF m
  <2>3. Linked(blocks) /\ Linked(m) /\ b \in DOMAIN m
    BY <2>1 DEF Tiling
  <2>4. \A x \in DOMAIN m : x # NULL /\ (Mergeable(m, x) <=> Mergeable(blocks, x))
    BY <2>1, <2>3, KeptMergeable, LinkedFacts
  <2>5. o # NULL => o \in DOMAIN m /\ o # b /\ ~Mergeable(m, o)
    <3> SUFFICES ASSUME o # NULL PROVE o \in DOMAIN m /\ o # b /\ ~Mergeable(m, o)
      OBVIOUS
    <3>1. o \in DOMAIN blocks /\ blocks[o].next = p
      BY <2>1, <2>3, LinkedFacts
    <3>2. blocks[p].next = b /\ p # NULL
      BY <2>1, <2>3, LinkedFacts
    <3>3. o \in DOMAIN m
      BY <2>1, <2>2, <2>3, LinkedFacts
    <3>4. o # b
      <4> SUFFICES ASSUME o = b PROVE FALSE
        OBVIOUS
      <4>1. m[o].next = o /\ o # NULL
        <5>1. m[b].prev = b /\ b # NULL
          BY <2>2
        <5> QED BY <2>1, <2>3, <5>1, LinkedFacts
      <4>2. m[o].next # NULL => m[m[o].next].buffer = m[o].buffer + m[o].size /\ m[o].size > 0
        BY <2>3, <3>3 DEF Linked
      <4>3. m[o].buffer \in Nat /\ m[o].size \in Nat
        BY <2>1, <3>3 DEF BlockMap, Block
      <4> QED BY <4>1, <4>2, <4>3
    <3>5. ~Mergeable(blocks, o)
      BY <1>2, <2>1, <3>1, <3>2, <3>4 DEF Joined
    <3> QED BY <2>4, <3>3, <3>4, <3>5
  <2>6. Joined(m, {b})
    <3> SUFFICES ASSUME NEW x \in DOMAIN m \ {b}, m[x].next # NULL, m[x].next # b,
                        Mergeable(m, x), Mergeable(m, m[x].next)
                 PROVE  FALSE
      BY DEF Joined
    <3>1. x # o /\ m[x].next = blocks[x].next
      BY <2>2
    <3>2. blocks[x].next \in DOMAIN m
      BY <2>1, <2>3, <3>1, LinkedFacts
    <3>3. Mergeable(blocks, x) /\ Mergeable(blocks, blocks[x].next)
      BY <2>4, <3>1, <3>2
    <3> QED BY <2>1, <3>1, <3>3 DEF Joined
  <2> QED BY <2>1, <2>2, <2>3, <2>5, <2>6 DEF m
<1> QED BY <1>1, <1>2

\* free_block leaves no two free neighbours.
LEMMA MergeJoins ==
  ASSUME NEW blocks, BlockMap(blocks), NEW segs \in SUBSET Segment, Tiling(blocks, segs),
         NEW b \in DOMAIN blocks, Joined(blocks, {b})
  PROVE  Joined(Merge(blocks, b), {})
<1> DEFINE m1 == TryMerge(blocks, b, blocks[b].prev)
           n  == m1[b].next
           m  == TryMerge(m1, b, n)
<1>1. /\ Joined(m1, {b}) /\ b \in DOMAIN m1 /\ m1[b].next = blocks[b].next
      /\ BlockMap(m1) /\ Tiling(m1, segs)
      /\ m1[b].prev # NULL => ~Mergeable(m1, m1[b].prev)
  BY JoinPrev
<1>2. Merge(blocks, b) = m
  BY <1>1 DEF Merge
<1> HIDE DEF m1
<1>3. Linked(m1)
  BY <1>1 DEF Tiling
<1>4. CASE ~Mergeable(m1, n)
  <2>1. m = m1
    BY <1>4 DEF TryMerge
  <2> SUFFICES ASSUME NEW x \in DOMAIN m1, m1[x].next # NULL,
                      Mergeable(m1, x), Mergeable(m1, m1[x].next)
               PROVE  FALSE
    BY <1>2, <2>1 DEF Joined
  <2>2. x # b
    BY <1>4
  <2>3. m1[x].next # b
    BY <1>1, <1>3, LinkedFacts
  <2> QED BY <1>1, <2>2, <2>3 DEF Joined
<1>5. CASE Mergeable(m1, n)
  <2>1. /\ DOMAIN m = DOMAIN m1 \ {n} /\ b # n /\ n \in DOMAIN m1
        /\ BlockMap(m) /\ Tiling(m, segs) /\ Kept(m1, m, b)
        /\ m[b].prev = m1[b].prev
    BY <1>1, <1>5, MergeNext
  <2>2. /\ m[b].next = m1[n].next
        /\ \A x \in DOMAIN m : x # b => m[x].next = m1[x].next
    BY <1>1, <1>5, MergeNextLinks
  <2> HIDE DEF m
  <2>3. Linked(m)
    BY <2>1 DEF Tiling
  <2>4. \A x \in DOMAIN m : Mergeable(m, x) => Mergeable(m1, x)
    BY <2>1, <2>3, KeptMergeable, LinkedFacts
  <2> SUFFICES ASSUME NEW x \in DOMAIN m, m[x].next # NULL,
                      Mergeable(m, x), Mergeable(m, m[x].next)
               PROVE  FALSE
    BY <1>2 DEF Joined
  <2>5. m[x].next \in DOMAIN m /\ m[m[x].next].prev = x
    BY <2>1, <2>3, LinkedFacts
  <2>6. CASE x = b
    <3>1. m1[n].next # NULL /\ m1[n].next # b /\ Mergeable(m1, m1[n].next)
      <4>1. m1[n].next = m[b].next
        BY <2>2
      <4>2. m[b].next # b
        <5>1. m[m[b].next].buffer = m[b].buffer + m[b].size /\ m[b].size > 0
          BY <2>3, <2>6 DEF Linked
        <5>2. m[b].buffer \in Nat /\ m[b].size \in Nat
          BY <2>1, <2>6 DEF BlockMap, Block
        <5> QED BY <5>1, <5>2
      <4> QED BY <2>4, <2>5, <2>6, <4>1, <4>2
    <3> QED BY <1>1, <1>5, <2>1, <3>1 DEF Joined
  <2>7. CASE x # b
    <3>1. m[x].next = m1[x].next /\ Mergeable(m1, x) /\ Mergeable(m1, m1[x].next)
      BY <2>2, <2>4, <2>5, <2>7
    <3>2. CASE m1[x].next = b
      <4>1. m[b].prev = x
        BY <2>5, <3>1, <3>2
      <4>2. m1[b].prev = x /\ x # NULL
        BY <2>1, <2>3, <4>1, LinkedFacts
      <4> QED BY <1>1, <3>1, <4>2
    <3>3. CASE m1[x].next # b
      BY <1>1, <2>1, <2>7, <3>1, <3>3 DEF Joined
    <3> QED BY <3>2, <3>3
  <2> QED BY <2>6, <2>7
<1> QED BY <1>4, <1>5
\* Only the first block of a segment begins at its base.
LEMMA NotBase ==
  ASSUME NEW blocks, BlockMap(blocks), NEW segs \in SUBSET Segment, Tiling(blocks, segs),
         NEW x \in DOMAIN blocks, blocks[x].prev # NULL, NEW s \in segs
  PROVE  blocks[x].buffer # s.base
<1>1. PICK t \in segs : Within(blocks[x], t)
  BY DEF Tiling, InSegments
<1>2. s.base \in Nat /\ s.size \in Nat /\ t.base \in Nat /\ t.size \in Nat
  BY DEF Segment
<1>3. blocks[x].buffer \in Nat /\ blocks[x].size \in Nat /\ blocks[x].size > 0
  BY DEF BlockMap, Block, Tiling, Linked
<1>4. s.size > 0 /\ (s # t => ~Overlap(s.base, s.size, t.base, t.size))
  BY DEF Tiling, SegmentsApart
<1>5. /\ t.base <= blocks[x].buffer /\ blocks[x].buffer + blocks[x].size <= t.base + t.size
      /\ blocks[x].buffer # t.base
  BY <1>1 DEF Within
<1> QED BY <1>2, <1>3, <1>4, <1>5 DEF Overlap

\* Merging does not uncover the base of a segment.
LEMMA MergeCovers ==
  ASSUME NEW blocks, BlockMap(blocks), NEW segs \in SUBSET Segment, Tiling(blocks, segs),
         NEW b \in DOMAIN blocks, Covered(blocks, segs)
  PROVE  Covered(Merge(blocks, b), segs)
<1> DEFINE p  == blocks[b].prev
           m1 == TryMerge(blocks, b, p)
           n  == m1[b].next
           m  == TryMerge(m1, b, n)
<1>1. /\ Covered(m1, segs) /\ b \in DOMAIN m1 /\ m1[b].next = blocks[b].next
      /\ BlockMap(m1) /\ Tiling(m1, segs)
  <2>1. CASE ~Mergeable(blocks, p)
    <3>1. m1 = blocks
      BY <2>1 DEF TryMerge
    <3> QED BY <3>1
  <2>2. CASE Mergeable(blocks, p)
    <3>1. /\ DOMAIN m1 = DOMAIN blocks \ {p} /\ b # p /\ p \in DOMAIN blocks
          /\ BlockMap(m1) /\ Tiling(m1, segs) /\ Kept(blocks, m1, b)
          /\ m1[b].next = blocks[b].next
      BY <2>2, MergePrev
    <3>2. m1[b].buffer = blocks[p].buffer
      BY <2>2, MergePrevLinks
    <3>3. p # NULL
      BY <2>2 DEF Mergeable
    <3> HIDE DEF m1
    <3>4. ASSUME NEW s \in segs PROVE \E x \in DOMAIN m1 : m1[x].buffer = s.base
      <4>1. PICK x \in DOMAIN blocks : blocks[x].buffer = s.base
        BY DEF Covered
      <4>2. x # b
        BY <3>3, <4>1, NotBase
      <4>3. CASE x = p
        BY <3>1, <3>2, <4>1, <4>3
      <4>4. CASE x # p
        BY <3>1, <4>1, <4>2, <4>4 DEF Kept
      <4> QED BY <4>3, <4>4
    <3> QED BY <3>1, <3>4 DEF Covered
  <2> QED BY <2>1, <2>2
<1>2. Merge(blocks, b) = m
  BY <1>1 DEF Merge
<1> HIDE DEF m1
<1>3. CASE ~Mergeable(m1, n)
  <2>1. m = m1
    BY <1>3 DEF TryMerge
  <2> QED BY <1>1, <1>2, <2>1
<1>4. CASE Mergeable(m1, n)
  <2>1. /\ DOMAIN m = DOMAIN m1 \ {n} /\ b # n /\ n \in DOMAIN m1
        /\ BlockMap(m) /\ Tiling(m, segs) /\ Kept(m1, m, b)
    BY <1>1, <1>4, MergeNext
  <2>2. m[b].buffer = m1[b].buffer
    BY <1>1, <1>4, MergeNextLinks
  <2>3. m1[n].prev # NULL
    <3>1. n # NULL
      BY <1>4 DEF Mergeable
    <3>2. m1[n].prev = b /\ b # NULL
      BY <1>1, <3>1, LinkedFacts DEF Tiling
    <3> QED BY <3>2
  <2> HIDE DEF m
  <2>4. ASSUME NEW s \in segs PROVE \E x \in DOMAIN m : m[x].buffer = s.base
    <3>1. PICK x \in DOMAIN m1 : m1[x].buffer = s.base
      BY <1>1 DEF Covered
    <3>2. x # n
      BY <1>1, <2>1, <2>3, <3>1, NotBase
    <3> QED BY <2>1, <2>2, <3>1, <3>2 DEF Kept
  <2> QED BY <1>2, <2>4 DEF Covered
<1> QED BY <1>3, <1>4

\* free_block in a program without graphs: no deleted Block is touched, and the
\* block is listed and merged with its free neighbours.
LEMMA FreeBlockPlain ==
  ASSUME segment \subseteq Segment, pool \in [PoolKey -> SUBSET BlockId],
         NEW blocks, BlockMap(blocks), Tiling(blocks, segment), NEW stats,
         NEW b \in DOMAIN blocks, PoolsFit(pool, blocks),
         Owned(pool, blocks), Listed(pool, blocks, {b}), Joined(blocks, {b}),
         Covered(blocks, segment), FreeBlock(blocks, stats, b)
  PROVE  /\ ~undefined' /\ block' = Merge(blocks, b)
         /\ Owned(pool', block') /\ Listed(pool', block', {}) /\ Joined(block', {})
         /\ Covered(block', segment)
         /\ Kept(blocks, block', b) /\ b \in DOMAIN block'
         /\ \A x \in DOMAIN blocks \ DOMAIN block' :
              ~blocks[x].allocated /\ blocks[x].event_cnt = 0
<1> DEFINE type == blocks[b].pool_type
           key  == <<NULL, type>>
           m    == Merge(blocks, b)
           gone == DOMAIN blocks \ DOMAIN m
<1>1. blocks[b].owner = NULL /\ NULL # Destroyed
  BY NullAssumption DEF Owned
<1>2. /\ undefined' = Dangles(key, blocks) /\ block' = m
      /\ pool' = [pool EXCEPT ![key] = (@ \ gone) \cup {b}]
  BY <1>1 DEF FreeBlock, PoolAfterFree
<1>3. /\ b \in DOMAIN m /\ BlockMap(m) /\ Tiling(m, segment) /\ Kept(blocks, m, b)
      /\ \A x \in gone : /\ x = blocks[b].prev \/ x = blocks[b].next
                         /\ ~blocks[x].allocated /\ blocks[x].event_cnt = 0
  BY MergeBoth
<1>4. Joined(m, {}) /\ Covered(m, segment)
  BY MergeJoins, MergeCovers
<1> HIDE DEF m
<1>5. type \in PoolType /\ key \in PoolKey
  BY DEF BlockMap, Block, PoolKey, Owner
<1>6. ~undefined'
  BY <1>2, <1>5 DEF Dangles, Owned
<1>7. \A x \in gone : blocks[x].pool_type = type /\ x \in DOMAIN blocks
  <2> SUFFICES ASSUME NEW x \in gone PROVE blocks[x].pool_type = type
    OBVIOUS
  <2>1. x # NULL
    BY NullAssumption DEF BlockMap
  <2>2. CASE x = blocks[b].next
    BY <2>1, <2>2 DEF Tiling, Linked
  <2>3. CASE x = blocks[b].prev
    <3>1. blocks[x].next = b /\ b # NULL
      BY <2>1, <2>3, LinkedFacts DEF Tiling
    <3> QED BY <3>1 DEF Tiling, Linked
  <2> QED BY <1>3, <2>2, <2>3
<1>8. \A k \in PoolKey : k # key => pool'[k] = pool[k]
  BY <1>2
<1>9. pool'[key] = (pool[key] \ gone) \cup {b}
  BY <1>2, <1>5
<1>10. ASSUME NEW k \in PoolKey
       PROVE  pool'[k] \subseteq DOMAIN m /\ (k[1] # NULL => pool'[k] = {})
  <2>1. CASE k = key
    <3>1. pool[key] \subseteq DOMAIN blocks
      BY <1>5 DEF Owned
    <3> QED BY <1>3, <1>9, <2>1, <3>1
  <2>2. CASE k # key
    <3>1. pool'[k] = pool[k] /\ pool[k] \subseteq DOMAIN blocks /\ (k[1] # NULL => pool[k] = {})
      BY <1>8, <2>2 DEF Owned
    <3>2. ASSUME NEW x \in pool[k] PROVE x \notin gone
      <4>1. k[1] = NULL /\ x \in DOMAIN blocks /\ blocks[x].pool_type = k[2]
        BY <3>1, <3>2 DEF PoolsFit
      <4>2. k[2] # type
        BY <2>2, <4>1 DEF PoolKey
      <4> QED BY <1>7, <4>1, <4>2
    <3> QED BY <3>1, <3>2
  <2> QED BY <2>1, <2>2
<1>11. Owned(pool', m)
  BY <1>3, <1>10 DEF Owned, Kept
<1>12. Listed(pool', m, {})
  <2> SUFFICES ASSUME NEW x \in DOMAIN m, ~m[x].allocated, ~(m[x].event_cnt > 0)
               PROVE  \E k \in PoolKey : x \in pool'[k]
    BY DEF Listed
  <2>1. CASE x = b
    BY <1>5, <1>9, <2>1
  <2>2. CASE x # b
    <3>1. x \in DOMAIN blocks /\ ~blocks[x].allocated /\ ~(blocks[x].event_cnt > 0)
      BY <1>3 DEF Kept
    <3>2. PICK k \in PoolKey : x \in pool[k]
      BY <2>2, <3>1 DEF Listed
    <3>3. x \in pool'[k]
      BY <1>8, <1>9, <3>2
    <3> QED BY <3>3
  <2> QED BY <2>1, <2>2
<1> QED BY <1>2, <1>3, <1>4, <1>6, <1>11, <1>12 DEF m
-----------------------------------------------------------------------------
(* The steps of a program that records no graphs. *)

\* Steps that only move the operation.
LEMMA PlainMove ==
  ASSUME PlainInv, op.pc # "insert_events",
         UNCHANGED <<block, pool, dpcpp_events, segment, graphVars>>, ~undefined',
         op'.owner = NULL, op'.todo = {}, op'.block = op.block,
         op'.pc \notin {"insert_events", "empty_free"}
  PROVE  PlainInv'
  BY DEF PlainInv, Inserting, graphVars

LEMMA MovesPlain ==
  ASSUME TypeOK, Safe, PlainInv,
         \/ \E d \in Device, o \in QueueObject, q \in Queue, n \in Nat : Malloc(d, o, q, n)
         \/ ProcessEventsEnd \/ FindNothing \/ AllocFails \/ OutOfMemory
         \/ EmptyCache \/ EmptyCacheEnd
  PROVE  PlainInv'
<1>1. /\ op \in Op /\ op.owner = NULL /\ recordings_underway = <<>>
      /\ \A k \in PoolKey : pool[k] \subseteq DOMAIN block
  BY DEF TypeOK, PlainInv, Owned
<1>2. op.pc \notin {"split", "insert_events"} => op.block = NULL /\ op.todo = {}
  BY DEF Safe, InHand, PlainInv
<1>3. op.pc \notin {"split", "insert_events"}
  BY DEF Malloc, ProcessEventsEnd, FindNothing, AllocFails, OutOfMemory, EmptyCache,
         EmptyCacheEnd, At
<1>4. UNCHANGED <<block, pool, dpcpp_events, segment, graphVars>>
  BY DEF Malloc, ProcessEventsEnd, FindNothing, AllocFails, OutOfMemory, EmptyCache,
         EmptyCacheEnd
<1>5. /\ op'.owner = NULL /\ op'.todo = {} /\ op'.block = NULL
      /\ op'.pc \notin {"insert_events", "empty_free"}
  <2>1. ASSUME NEW d, NEW o, NEW q, NEW n, Malloc(d, o, q, n)
        PROVE  /\ op'.owner = NULL /\ op'.todo = {} /\ op'.block = NULL
               /\ op'.pc \notin {"insert_events", "empty_free"}
    BY <2>1 DEF Malloc, Idle
  <2>2. CASE ProcessEventsEnd
    <3>1. PrivatePool(op.object) = NULL
      BY <1>1 DEF PrivatePool
    <3>2. op' = Idle \/ op' = [op EXCEPT !.pc = "find_free_block", !.owner = NULL]
      BY <2>2, <3>1 DEF ProcessEventsEnd, Return
    <3>3. CASE op' = Idle
      BY <3>3 DEF Idle
    <3>4. CASE op' = [op EXCEPT !.pc = "find_free_block", !.owner = NULL]
      BY <1>1, <1>2, <1>3, <3>4 DEF Op
    <3> QED BY <3>2, <3>3, <3>4
  <2>3. CASE FindNothing \/ AllocFails
    BY <1>1, <1>2, <1>3, <2>3 DEF FindNothing, AllocFails, Goto, Op
  <2>4. CASE OutOfMemory \/ EmptyCache \/ EmptyCacheEnd
    BY <2>4 DEF OutOfMemory, EmptyCache, EmptyCacheEnd, Return, Idle
  <2> QED BY <2>1, <2>2, <2>3, <2>4
<1>6. ~undefined'
  <2>1. ~undefined
    BY DEF PlainInv
  <2>2. CASE FindNothing
    <3>1. OpKey \in PoolKey
      BY OpKeyType
    <3> QED BY <1>1, <2>2, <3>1 DEF FindNothing, Dangles
  <2>3. CASE EmptyCacheEnd
    <3>1. \A t \in PoolType : <<NULL, t>> \in PoolKey
      BY DEF PoolKey, Owner
    <3>2. FreeRange = UNION {pool[<<NULL, t>>] : t \in PoolType}
      BY <2>3 DEF FreeRange, EmptyCacheEnd, At
    <3>3. FreeRange \ DOMAIN block = {}
      BY <1>1, <3>1, <3>2
    <3> QED BY <2>3, <3>3 DEF EmptyCacheEnd
  <2> QED BY <2>1, <2>2, <2>3 DEF Malloc, ProcessEventsEnd, AllocFails, OutOfMemory, EmptyCache
<1> QED BY <1>2, <1>3, <1>4, <1>5, <1>6, PlainMove

LEMMA EventCompletePlain ==
  ASSUME PlainInv, EventComplete
  PROVE  PlainInv'
<1>1. dpcpp_events # <<>>
  BY DEF EventComplete
<1>2. UNCHANGED <<block, pool, allocated_blocks, segment, graphVars, device_stats, op, undefined>>
  BY DEF EventComplete
<1> QED BY <1>1, <1>2 DEF PlainInv, Inserting, graphVars

LEMMA SynchronizeEndPlain ==
  ASSUME TypeOK, Safe, PlainInv, SynchronizeEnd
  PROVE  PlainInv'
<1>1. /\ op.pc \in {"synchronize", "empty_synchronize"}
      /\ \A i \in DOMAIN dpcpp_events : ~Awaited(i)
      /\ dpcpp_events' = [i \in DOMAIN dpcpp_events |->
           [dpcpp_events[i] EXCEPT
              !.done = @ \/ DeviceOf[dpcpp_events[i].queue] = op.device]]
      /\ op' = [op EXCEPT !.pc = IF op.pc = "synchronize" THEN "free_cached_blocks"
                                                        ELSE "empty_free"]
      /\ UNCHANGED <<block, pool, segment, graphVars, undefined>>
  BY DEF SynchronizeEnd, At, Goto
<1>2. /\ op'.owner = op.owner /\ op'.todo = op.todo /\ op'.block = op.block
      /\ op'.pc \in {"free_cached_blocks", "empty_free"}
      /\ op'.pc = "empty_free" => op.pc = "empty_synchronize"
  <2>1. op \in Op
    BY DEF TypeOK
  <2> QED BY <1>1, <2>1 DEF Op
<1>3. op'.pc = "empty_free" => dpcpp_events' = <<>>
  <2> SUFFICES ASSUME op.pc = "empty_synchronize" PROVE dpcpp_events' = <<>>
    BY <1>2
  <2>1. dpcpp_events \in Seq(Event)
    BY DEF TypeOK
  <2>2. DOMAIN dpcpp_events = {}
    BY <1>1 DEF Awaited
  <2>3. dpcpp_events = <<>>
    BY <2>1, <2>2
  <2> QED BY <1>1, <2>3
<1> QED BY <1>1, <1>2, <1>3 DEF PlainInv, Inserting, graphVars

LEMMA FindFreeBlockPlain ==
  ASSUME TypeOK, Safe, PlainInv, FindFreeBlock
  PROVE  PlainInv'
<1>1. PICK b \in BestFits(OpKey) :
        /\ pool' = [pool EXCEPT ![OpKey] = @ \ {b}]
        /\ op' = [op EXCEPT !.pc = "split", !.block = b]
  BY DEF FindFreeBlock
<1>2. /\ op.pc = "find_free_block"
      /\ UNCHANGED <<block, dpcpp_events, segment, graphVars, undefined>>
  BY DEF FindFreeBlock, At
<1>3. OpKey \in PoolKey /\ op \in Op /\ pool \in [PoolKey -> SUBSET BlockId]
  BY OpKeyType DEF TypeOK
<1>4. /\ op'.owner = op.owner /\ op'.todo = op.todo /\ op'.block = b /\ op'.pc = "split"
  BY <1>1, <1>3 DEF Op
<1>5. op.block = NULL
  BY <1>2 DEF Safe, InHand
<1>6. \A k \in PoolKey : pool'[k] \subseteq pool[k] /\ pool[k] \ {b} \subseteq pool'[k]
  BY <1>1, <1>3
<1>7. Owned(pool', block')
  BY <1>2, <1>6 DEF PlainInv, Owned
<1>8. Listed(pool', block', {b})
  <2>1. \A x \in DOMAIN block : x # NULL
    BY NullAssumption DEF TypeOK
  <2>2. Listed(pool, block, {NULL})
    BY <1>5 DEF PlainInv
  <2> QED BY <1>2, <1>6, <2>1, <2>2 DEF Listed
<1> QED BY <1>2, <1>4, <1>7, <1>8 DEF PlainInv, Inserting, graphVars

LEMMA FreeCachedBlocksPlain ==
  ASSUME TypeOK, Safe, PlainInv, FreeCachedBlocks
  PROVE  PlainInv' /\ block' = block
<1>1. graph_pools_freeable = {} /\ op \in Op /\ BlockMap(block)
      /\ pool \in [PoolKey -> SUBSET BlockId]
  BY DEF PlainInv, TypeOK, BlockMap
<1>2. /\ block' = [b \in DOMAIN block |->
           IF block[b].owner \in graph_pools_freeable
           THEN [block[b] EXCEPT !.owner = Destroyed] ELSE block[b]]
      /\ pool' = [k \in PoolKey |-> IF k[1] \in graph_pools_freeable THEN {} ELSE pool[k]]
      /\ graph_pools_freeable' = {} /\ op' = [op EXCEPT !.pc = "retry"]
      /\ UNCHANGED <<dpcpp_events, segment, recordings_underway, undefined>>
      /\ op.pc = "free_cached_blocks"
  BY DEF FreeCachedBlocks, Goto, At
<1>3. block' = block
  BY <1>1, <1>2 DEF BlockMap
<1>4. pool' = pool
  BY <1>1, <1>2
<1>5. op'.owner = op.owner /\ op'.todo = op.todo /\ op'.block = op.block /\ op'.pc = "retry"
  BY <1>1, <1>2 DEF Op
<1>6. PlainInv'
  BY <1>2, <1>3, <1>4, <1>5 DEF PlainInv, Inserting
<1> QED BY <1>3, <1>6

\* The step keeps the range of block x and what is recorded of its use.
Steady(x) ==
  /\ x \in DOMAIN block' /\ block'[x].buffer = block[x].buffer
  /\ block'[x].size = block[x].size /\ block'[x].queue = block[x].queue
  /\ block'[x].queue_uses = block[x].queue_uses

LEMMA FreeSegmentPlain ==
  ASSUME TypeOK, Safe, PlainInv, FreeSegment
  PROVE  /\ PlainInv'
         /\ \A x \in DOMAIN block : block[x].allocated \/ block[x].event_cnt > 0 => Steady(x)
<1>1. PICK b \in FreeableBlocks(FreeRange) :
        /\ segment' = {s \in segment : s.base # block[b].buffer}
        /\ block' = [x \in DOMAIN block \ {b} |-> block[x]]
        /\ pool' = [k \in PoolKey |-> pool[k] \ {b}]
  BY DEF FreeSegment
<1>2. /\ UNCHANGED <<dpcpp_events, graphVars, op, undefined>>
      /\ op.pc \in {"empty_free", "free_cached_blocks"}
  BY DEF FreeSegment, At
<1>3. b \in DOMAIN block /\ b \in FreeRange
  BY DEF FreeableBlocks
<1>4. \E k \in PoolKey : b \in pool[k]
  <2>1. b \in UNION {pool[<<NULL, t>>] : t \in PoolType}
    BY <1>3 DEF FreeRange, CachedBlocksBound
  <2>2. PICK t \in PoolType : b \in pool[<<NULL, t>>]
    BY <2>1
  <2>3. <<NULL, t>> \in PoolKey
    BY DEF PoolKey, Owner
  <2> QED BY <2>2, <2>3
<1>5. ~block[b].allocated /\ block[b].event_cnt = 0
  BY <1>3, <1>4, SafeParts DEF PoolsFit
<1>6. /\ DOMAIN block' = DOMAIN block \ {b}
      /\ \A x \in DOMAIN block' : block'[x] = block[x]
  BY <1>1
<1>7. \A x \in DOMAIN block : block[x].allocated \/ block[x].event_cnt > 0 => Steady(x)
  BY <1>5, <1>6 DEF Steady
<1>8. Owned(pool', block') /\ Listed(pool', block', {op'.block})
  BY <1>1, <1>2, <1>6 DEF PlainInv, Owned, Listed
<1>9. Joined(block', {})
  <2>1. Joined(block, {})
    BY <1>2 DEF PlainInv, Inserting
  <2>2. Linked(block') /\ BlockMap(block')
    BY FreeSegmentStep DEF Safe, TypeOK, BlockMap
  <2>3. \A x \in DOMAIN block' : block'[x].next # NULL =>
          block'[x].next = block[x].next /\ block'[x].next \in DOMAIN block'
    BY <1>6, <2>2, LinkedFacts
  <2> QED BY <1>6, <2>1, <2>3 DEF Joined, Mergeable
<1>10. Covered(block', segment')
  BY <1>1, <1>6 DEF PlainInv, Covered
<1> QED BY <1>2, <1>7, <1>8, <1>9, <1>10 DEF PlainInv, Inserting, graphVars

LEMMA AllocSegmentPlain ==
  ASSUME TypeOK, Safe, PlainInv, AllocSegment
  PROVE  PlainInv' /\ \A x \in DOMAIN block : Steady(x)
<1> DEFINE size == AllocSize(OpSize)
           type == PoolTypeOf(OpSize)
           id   == CHOOSE i \in FreeIds : TRUE
<1>1. id \in BlockId /\ id \notin DOMAIN block
  <2>1. id \in FreeIds
    BY DEF AllocSegment
  <2> QED BY <2>1 DEF FreeIds
<1> HIDE DEF id, size, type
<1>2. PICK base \in SyclAddresses(size) :
        /\ segment' = segment \cup
             {[base |-> base, size |-> size, device |-> op.device, owner |-> OpKey[1]]}
        /\ block' = [x \in DOMAIN block \cup {id} |->
             IF x = id THEN NewBlock(op.device, op.queue, size, type, base) ELSE block[x]]
        /\ op' = [op EXCEPT !.pc = "split", !.block = id]
  BY DEF AllocSegment, id, size, type
<1>3. /\ UNCHANGED <<pool, dpcpp_events, graphVars, undefined>>
      /\ op.pc \in {"malloc", "retry"} /\ op \in Op /\ op.block = NULL
  BY DEF AllocSegment, At, TypeOK, Safe, InHand
<1>4. /\ op'.pc = "split" /\ op'.block = id /\ op'.owner = op.owner /\ op'.todo = op.todo
  BY <1>2, <1>3 DEF Op
<1>5. /\ DOMAIN block' = DOMAIN block \cup {id}
      /\ \A x \in DOMAIN block : block'[x] = block[x]
      /\ block'[id].buffer = base /\ block'[id].next = NULL /\ block'[id].owner = NULL
  BY <1>1, <1>2 DEF NewBlock
<1>6. \A x \in DOMAIN block : Steady(x)
  BY <1>5 DEF Steady
<1>7. Owned(pool', block')
  BY <1>3, <1>5 DEF PlainInv, Owned
<1>8. Listed(pool', block', {id})
  <2>1. \A x \in DOMAIN block : x # NULL
    BY NullAssumption DEF TypeOK
  <2> QED BY <1>3, <1>5, <2>1 DEF PlainInv, Listed
<1>9. Joined(block', {})
  <2>1. Joined(block, {})
    BY <1>3 DEF PlainInv, Inserting
  <2>2. \A x \in DOMAIN block : block[x].next # NULL => block[x].next \in DOMAIN block
    BY DEF Safe, Linked
  <2> QED BY <1>5, <2>1, <2>2 DEF Joined, Mergeable
<1>10. Covered(block', segment')
  <2>1. ASSUME NEW s \in segment' PROVE \E x \in DOMAIN block' : block'[x].buffer = s.base
    <3>1. CASE s \in segment
      BY <1>5, <3>1 DEF PlainInv, Covered
    <3>2. CASE s \notin segment
      <4>1. s.base = base
        BY <1>2, <2>1, <3>2
      <4> QED BY <1>5, <4>1
    <3> QED BY <3>1, <3>2
  <2> QED BY <2>1 DEF Covered
<1> QED BY <1>3, <1>4, <1>6, <1>7, <1>8, <1>9, <1>10 DEF PlainInv, Inserting, graphVars

\* Neighbours stay apart when no other block becomes free.
LEMMA JoinedSame ==
  ASSUME NEW blocks, NEW m, NEW hand, NEW other, Joined(blocks, hand), Linked(blocks),
         DOMAIN m = DOMAIN blocks,
         \A x \in DOMAIN blocks : m[x].next = blocks[x].next,
         \A x \in DOMAIN blocks \ other : x \in hand \/ Mergeable(blocks, x)
                                        \/ ~Mergeable(m, x),
         \A x \in hand \ other : ~Mergeable(m, x)
  PROVE  Joined(m, other)
<1> SUFFICES ASSUME NEW x \in DOMAIN blocks \ other, blocks[x].next # NULL,
                    blocks[x].next \notin other, Mergeable(m, x), Mergeable(m, blocks[x].next)
             PROVE  FALSE
  BY DEF Joined
<1>1. blocks[x].next \in DOMAIN blocks
  BY DEF Linked
<1>2. x \notin hand /\ blocks[x].next \notin hand
  BY <1>1
<1>3. Mergeable(blocks, x) /\ Mergeable(blocks, blocks[x].next)
  BY <1>1, <1>2
<1> QED BY <1>2, <1>3 DEF Joined
\* Bookkeeping fields do not matter to who owns and covers the memory.
LEMMA SameOwned ==
  ASSUME NEW blocks, NEW m, NEW pools, NEW segs, Owned(pools, blocks), Covered(blocks, segs),
         DOMAIN m = DOMAIN blocks,
         \A x \in DOMAIN blocks : m[x].buffer = blocks[x].buffer /\ m[x].owner = blocks[x].owner
  PROVE  Owned(pools, m) /\ Covered(m, segs)
  BY DEF Owned, Covered

LEMMA RecordQueuePlain ==
  ASSUME TypeOK, Safe, PlainInv, NEW buffer \in DOMAIN allocated_blocks, NEW q \in Queue,
         RecordQueue(buffer, q)
  PROVE  /\ PlainInv' /\ \A x \in DOMAIN block : x # allocated_blocks[buffer] => Steady(x)
         /\ allocated_blocks[buffer] \in DOMAIN block'
         /\ block'[allocated_blocks[buffer]] =
              [block[allocated_blocks[buffer]] EXCEPT !.queue_uses = @ \cup {q}]
<1> DEFINE b == allocated_blocks[buffer]
<1>1. /\ block' = [block EXCEPT ![b].queue_uses = @ \cup {q}] /\ op.pc = "idle"
      /\ UNCHANGED <<pool, dpcpp_events, segment, graphVars, op, undefined>>
  BY DEF RecordQueue, At
<1>2. b \in DOMAIN block /\ block[b] \in Block /\ Linked(block)
  BY ReleasedFacts DEF Safe
<1>3. /\ DOMAIN block' = DOMAIN block
      /\ block'[b] = [block[b] EXCEPT !.queue_uses = block[b].queue_uses \cup {q}]
      /\ \A x \in DOMAIN block : x # b => block'[x] = block[x]
  BY <1>1, <1>2
<1>4. \A x \in DOMAIN block :
        /\ block'[x].buffer = block[x].buffer /\ block'[x].owner = block[x].owner
        /\ block'[x].allocated = block[x].allocated /\ block'[x].next = block[x].next
        /\ block'[x].event_cnt = block[x].event_cnt
  BY <1>2, <1>3 DEF Block
<1>5. Owned(pool, block') /\ Covered(block', segment)
  BY <1>3, <1>4, SameOwned DEF PlainInv
<1>6. Listed(pool, block', {op.block})
  BY <1>3, <1>4 DEF PlainInv, Listed
<1>7. Joined(block', {})
  <2>1. Joined(block, {})
    BY <1>1 DEF PlainInv, Inserting
  <2> QED BY <1>2, <1>3, <1>4, <2>1, JoinedSame DEF Mergeable
<1>8. PlainInv'
  BY <1>1, <1>5, <1>6, <1>7 DEF PlainInv, Inserting, graphVars
<1>9. \A x \in DOMAIN block : x # b => Steady(x)
  BY <1>3 DEF Steady
<1> QED BY <1>2, <1>3, <1>8, <1>9

LEMMA FreeUsedPlain ==
  ASSUME TypeOK, Safe, PlainInv, NEW buffer \in DOMAIN allocated_blocks, FreeUsed(buffer)
  PROVE  /\ PlainInv' /\ \A x \in DOMAIN block : x # allocated_blocks[buffer] => Steady(x)
         /\ op'.block = allocated_blocks[buffer]
         /\ op'.todo = block[allocated_blocks[buffer]].queue_uses
         /\ op'.pc = "insert_events"
         /\ allocated_blocks[buffer] \in DOMAIN block'
         /\ block'[allocated_blocks[buffer]].buffer = block[allocated_blocks[buffer]].buffer
         /\ block'[allocated_blocks[buffer]].size = block[allocated_blocks[buffer]].size
<1> DEFINE b == allocated_blocks[buffer]
<1>1. /\ block' = Released(b) /\ op.pc = "idle"
      /\ op' = [Idle EXCEPT !.pc = "insert_events", !.block = b, !.todo = block[b].queue_uses]
      /\ UNCHANGED <<pool, dpcpp_events, segment, graphVars, undefined>>
  BY DEF FreeUsed, At
<1>2. /\ op'.pc = "insert_events" /\ op'.block = b /\ op'.todo = block[b].queue_uses
      /\ op'.owner = NULL
  BY <1>1 DEF Idle
<1>3. /\ b \in DOMAIN block /\ SameShape(block, Released(b))
      /\ \A x \in DOMAIN block :
              /\ Released(b)[x].event_cnt = block[x].event_cnt
              /\ Released(b)[x].owner = block[x].owner
              /\ Released(b)[x].allocated = (block[x].allocated /\ x # b)
              /\ Released(b)[x].queue_uses = IF x = b THEN {} ELSE block[x].queue_uses
  BY ReleasedFacts
<1>4. /\ DOMAIN block' = DOMAIN block
      /\ \A x \in DOMAIN block :
           /\ block'[x].buffer = block[x].buffer /\ block'[x].owner = block[x].owner
           /\ block'[x].size = block[x].size /\ block'[x].queue = block[x].queue
           /\ block'[x].next = block[x].next /\ block'[x].event_cnt = block[x].event_cnt
           /\ x # b => /\ block'[x].allocated = block[x].allocated
                       /\ block'[x].queue_uses = block[x].queue_uses
  <2>1. ASSUME NEW x \in DOMAIN block, x # b
        PROVE  block'[x].allocated = block[x].allocated
    <3>1. block[x].allocated \in BOOLEAN
      BY DEF TypeOK, Block
    <3> QED BY <1>1, <1>3, <2>1, <3>1
  <2> QED BY <1>1, <1>3, <2>1 DEF SameShape
<1>5. Owned(pool, block') /\ Covered(block', segment)
  BY <1>4, SameOwned DEF PlainInv
<1>6. Listed(pool, block', {b})
  <2>1. op.block = NULL /\ \A x \in DOMAIN block : x # NULL
    BY <1>1, NullAssumption DEF Safe, InHand, TypeOK
  <2> QED BY <1>4, <2>1 DEF PlainInv, Listed
<1>7. Joined(block', {b})
  <2>1. Joined(block, {}) /\ Linked(block)
    BY <1>1 DEF PlainInv, Inserting, Safe
  <2> QED BY <1>4, <2>1, JoinedSame DEF Mergeable
<1>8. PlainInv'
  BY <1>1, <1>2, <1>5, <1>6, <1>7 DEF PlainInv, Inserting, graphVars
<1>9. \A x \in DOMAIN block : x # b => Steady(x)
  BY <1>4 DEF Steady
<1> QED BY <1>2, <1>3, <1>4, <1>8, <1>9

LEMMA InsertEventPlain ==
  ASSUME TypeOK, Safe, PlainInv, InsertEvent
  PROVE  PlainInv' /\ \A x \in DOMAIN block : Steady(x)
<1> DEFINE b == op.block
<1>1. PICK q \in op.todo :
       /\ dpcpp_events' = Append(dpcpp_events, [block |-> b, queue |-> q, done |-> FALSE])
       /\ block' = [block EXCEPT ![b].event_cnt = @ + 1]
       /\ op' = IF op.todo = {q} THEN Idle ELSE [op EXCEPT !.todo = @ \ {q}]
  BY DEF InsertEvent
<1>2. /\ op.pc = "insert_events" /\ UNCHANGED <<pool, segment, graphVars, undefined>>
  BY DEF InsertEvent, At
<1>3. b \in DOMAIN block /\ block[b] \in Block /\ block[b].event_cnt \in Nat /\ op \in Op
  BY <1>2 DEF Safe, InHand, TypeOK, Block
<1>4. /\ DOMAIN block' = DOMAIN block
      /\ block'[b] = [block[b] EXCEPT !.event_cnt = block[b].event_cnt + 1]
      /\ \A x \in DOMAIN block : x # b => block'[x] = block[x]
  BY <1>1, <1>3
<1>5. /\ \A x \in DOMAIN block :
           /\ block'[x].buffer = block[x].buffer /\ block'[x].owner = block[x].owner
           /\ block'[x].size = block[x].size /\ block'[x].queue = block[x].queue
           /\ block'[x].next = block[x].next /\ block'[x].queue_uses = block[x].queue_uses
           /\ block'[x].allocated = block[x].allocated
           /\ x # b => block'[x].event_cnt = block[x].event_cnt
      /\ block'[b].event_cnt = block[b].event_cnt + 1
  BY <1>3, <1>4 DEF Block
<1>6. block'[b].event_cnt > 0
  BY <1>3, <1>5
<1>7. Owned(pool, block') /\ Covered(block', segment)
  BY <1>4, <1>5, SameOwned DEF PlainInv
<1>8. Listed(pool, block', {})
  BY <1>4, <1>5, <1>6 DEF PlainInv, Listed
<1>9. Joined(block', {})
  <2>1. Joined(block, {b}) /\ Linked(block)
    BY <1>2 DEF PlainInv, Inserting, Safe
  <2>2. ~Mergeable(block', b)
    BY <1>6 DEF Mergeable
  <2>3. \A x \in DOMAIN block : x # b => (Mergeable(block', x) => Mergeable(block, x))
    BY <1>5 DEF Mergeable
  <2> QED BY <1>4, <1>5, <2>1, <2>2, <2>3, JoinedSame
<1>10. \A h : Listed(pool, block', {h}) /\ Joined(block', {h})
  BY <1>8, <1>9 DEF Listed, Joined
<1>11. op' = Idle \/ (op'.pc = "insert_events" /\ op'.owner = op.owner)
  BY <1>1, <1>2, <1>3 DEF Op
<1>12. PlainInv'
  <2>1. CASE op' = Idle
    BY <1>2, <1>7, <1>9, <1>10, <2>1 DEF PlainInv, Inserting, graphVars, Idle
  <2>2. CASE op'.pc = "insert_events" /\ op'.owner = op.owner
    BY <1>2, <1>7, <1>10, <2>2 DEF PlainInv, Inserting, graphVars
  <2> QED BY <1>11, <2>1, <2>2
<1>13. \A x \in DOMAIN block : Steady(x)
  BY <1>4, <1>5 DEF Steady
<1> QED BY <1>12, <1>13
LEMMA FreePlain ==
  ASSUME TypeOK, Safe, PlainInv, NEW buffer \in DOMAIN allocated_blocks, Free(buffer)
  PROVE  /\ PlainInv'
         /\ \A x \in DOMAIN block :
              /\ block[x].allocated \/ block[x].event_cnt > 0
              /\ x # allocated_blocks[buffer]
              => Steady(x)
<1> DEFINE b == allocated_blocks[buffer]
           rel == Released(b)
<1>1. /\ FreeBlock(rel, FreeStats(b), b) /\ op.pc = "idle"
      /\ UNCHANGED <<dpcpp_events, segment, graphVars, op>>
  BY DEF Free, At
<1>2. /\ b \in DOMAIN block /\ SameShape(block, rel) /\ BlockMap(rel)
      /\ Tiling(rel, segment) /\ PoolsFit(pool, rel)
      /\ \A x \in DOMAIN block :
              /\ rel[x].event_cnt = block[x].event_cnt
              /\ rel[x].owner = block[x].owner
              /\ rel[x].allocated = (block[x].allocated /\ x # b)
              /\ rel[x].queue_uses = IF x = b THEN {} ELSE block[x].queue_uses
  BY ReleasedFacts
<1>3. \A x \in DOMAIN block : x # b => rel[x].allocated = block[x].allocated
  <2>1. \A x \in DOMAIN block : block[x].allocated \in BOOLEAN
    BY DEF TypeOK, Block
  <2> QED BY <1>2, <2>1
<1> HIDE DEF rel
<1>4. /\ DOMAIN rel = DOMAIN block
      /\ \A x \in DOMAIN block :
           /\ rel[x].buffer = block[x].buffer /\ rel[x].owner = block[x].owner
           /\ rel[x].size = block[x].size /\ rel[x].queue = block[x].queue
           /\ rel[x].next = block[x].next
  BY <1>2 DEF SameShape
<1>5. Owned(pool, rel) /\ Covered(rel, segment)
  BY <1>4, SameOwned DEF PlainInv
<1>6. Listed(pool, rel, {b})
  <2>1. op.block = NULL /\ \A x \in DOMAIN block : x # NULL
    BY <1>1, NullAssumption DEF Safe, InHand, TypeOK
  <2> QED BY <1>2, <1>3, <1>4, <2>1 DEF PlainInv, Listed
<1>7. Joined(rel, {b})
  <2>1. Joined(block, {}) /\ Linked(block)
    BY <1>1 DEF PlainInv, Inserting, Safe
  <2> QED BY <1>2, <1>3, <1>4, <2>1, JoinedSame DEF Mergeable
<1>8. segment \subseteq Segment /\ pool \in [PoolKey -> SUBSET BlockId]
  BY DEF TypeOK
<1>9. /\ ~undefined'
      /\ Owned(pool', block') /\ Listed(pool', block', {}) /\ Joined(block', {})
      /\ Covered(block', segment) /\ Kept(rel, block', b)
      /\ \A x \in DOMAIN rel \ DOMAIN block' : ~rel[x].allocated /\ rel[x].event_cnt = 0
  <2>1. b \in DOMAIN rel
    BY <1>2, <1>4
  <2> QED BY <1>1, <1>2, <1>5, <1>6, <1>7, <1>8, <2>1, FreeBlockPlain
<1>10. PlainInv'
  <2>1. Listed(pool', block', {op'.block})
    BY <1>9 DEF Listed
  <2> QED BY <1>1, <1>9, <2>1 DEF PlainInv, Inserting, graphVars
<1>11. ASSUME NEW x \in DOMAIN block, x # b, block[x].allocated \/ block[x].event_cnt > 0
       PROVE  Steady(x)
  <2>1. x \in DOMAIN block'
    <3>1. x \in DOMAIN rel /\ (rel[x].allocated \/ rel[x].event_cnt > 0)
      BY <1>2, <1>3, <1>4, <1>11
    <3> QED BY <1>9, <3>1
  <2>2. /\ block'[x].buffer = rel[x].buffer /\ block'[x].size = rel[x].size
        /\ block'[x].queue = rel[x].queue /\ block'[x].queue_uses = rel[x].queue_uses
    BY <1>9, <1>11, <2>1 DEF Kept
  <2>3. rel[x].queue_uses = block[x].queue_uses
    BY <1>2, <1>11
  <2> QED BY <1>4, <2>1, <2>2, <2>3 DEF Steady
<1> QED BY <1>10, <1>11

LEMMA EventDonePlain ==
  ASSUME TypeOK, Safe, PlainInv, op.block = NULL,
         op.pc \notin {"split", "insert_events", "empty_free"},
         NEW i \in DOMAIN dpcpp_events,
         EventDone(dpcpp_events[i].block),
         dpcpp_events' = Without(dpcpp_events, i),
         UNCHANGED <<allocated_blocks, segment, graphVars, op>>
  PROVE  /\ PlainInv' /\ \A x \in DOMAIN block : block[x].allocated => Steady(x)
         /\ \A j \in DOMAIN dpcpp_events' :
              /\ \E k \in DOMAIN dpcpp_events : dpcpp_events'[j] = dpcpp_events[k]
              /\ Steady(dpcpp_events'[j].block)
<1> DEFINE b == dpcpp_events[i].block
           dec == [block EXCEPT ![b].event_cnt = @ - 1]
<1>1. /\ Tiling(block, segment) /\ PoolsFit(pool, block)
      /\ EventsFit(dpcpp_events, block)
  BY SafeParts
<1>2. /\ BlockMap(block) /\ segment \subseteq Segment /\ dpcpp_events \in Seq(Event)
      /\ pool \in [PoolKey -> SUBSET BlockId]
  BY DEF TypeOK, BlockMap
<1>3. \A j \in DOMAIN dpcpp_events' : \E k \in DOMAIN dpcpp_events : dpcpp_events'[j] = dpcpp_events[k]
  BY <1>1, <1>2, WithoutEvent DEF EventsFit
<1>4. /\ b \in DOMAIN block /\ ~block[b].allocated /\ block[b] \in Block
      /\ block[b].event_cnt \in Nat /\ block[b].event_cnt > 0
  BY <1>1, <1>2, EventCountPositive DEF EventsFit, BlockMap, Block
<1>5. /\ DOMAIN dec = DOMAIN block
      /\ dec[b] = [block[b] EXCEPT !.event_cnt = block[b].event_cnt - 1]
      /\ \A x \in DOMAIN block : x # b => dec[x] = block[x]
  BY <1>4
<1>6. dec[b] \in Block
  BY <1>4, <1>5 DEF Block
<1>7. BlockMap(dec)
  <2>1. dec \in [DOMAIN dec -> Block]
    BY <1>2, <1>5, <1>6 DEF BlockMap
  <2> QED BY <2>1, <1>2, <1>5 DEF BlockMap
<1>8. \A x \in DOMAIN block :
         /\ dec[x].device = block[x].device /\ dec[x].queue = block[x].queue
         /\ dec[x].queue_uses = block[x].queue_uses /\ dec[x].size = block[x].size
         /\ dec[x].pool_type = block[x].pool_type /\ dec[x].buffer = block[x].buffer
         /\ dec[x].allocated = block[x].allocated /\ dec[x].prev = block[x].prev
         /\ dec[x].next = block[x].next /\ dec[x].owner = block[x].owner
         /\ dec[x].event_cnt = IF x = b THEN block[b].event_cnt - 1 ELSE block[x].event_cnt
  BY <1>4, <1>5 DEF Block
<1>9. EventDone(b) /\ (dec[b].event_cnt = 0 => FreeBlock(dec, device_stats, b))
      /\ (dec[b].event_cnt # 0 => block' = dec /\ UNCHANGED <<pool, undefined>>)
  BY DEF EventDone
<1> HIDE DEF dec
<1>10. SameShape(block, dec)
  BY <1>5, <1>8 DEF SameShape
<1>11. Tiling(dec, segment)
  BY <1>1, <1>10, TilingSameShape
<1>12. \A k \in PoolKey : b \notin pool[k]
  BY <1>1, <1>4 DEF PoolsFit
<1>13. PoolsFit(pool, dec)
  BY <1>1, <1>5, <1>12 DEF PoolsFit
<1>14. Owned(pool, dec) /\ Covered(dec, segment)
  BY <1>5, <1>8, SameOwned DEF PlainInv
<1>15. Listed(pool, dec, {b})
  <2>1. \A x \in DOMAIN block : x # NULL
    BY <1>2, NullAssumption DEF BlockMap
  <2> QED BY <1>5, <2>1 DEF PlainInv, Listed
<1>16. Joined(block, {}) /\ Linked(block)
  BY <1>1 DEF PlainInv, Inserting, Tiling
<1>17. ASSUME NEW j \in DOMAIN dpcpp_events'
       PROVE  /\ dpcpp_events'[j].block \in DOMAIN dec
              /\ dec[dpcpp_events'[j].block].event_cnt > 0
  <2>1. TypeOK' /\ dpcpp_events' = Without(dpcpp_events, i)
    BY EventDoneStep DEF PlainInv
  <2>2. dpcpp_events' \in Seq(Event) /\ dpcpp_events'[j] \in Event
    BY <2>1 DEF TypeOK
  <2>3. PICK k \in DOMAIN dpcpp_events : dpcpp_events'[j] = dpcpp_events[k]
    BY <1>3
  <2>4. dpcpp_events'[j].block \in DOMAIN block
    BY <1>1, <2>3 DEF EventsFit
  <2>5. CASE dpcpp_events'[j].block # b
    BY <1>1, <1>2, <1>5, <2>3, <2>4, <2>5, EventCountPositive
  <2>6. CASE dpcpp_events'[j].block = b
    <3>1. QueuesIn(dpcpp_events', b) = QueuesIn(dpcpp_events, b) \ {dpcpp_events[i].queue}
      BY <1>1, <1>2, WithoutEvent DEF EventsFit
    <3>2. dpcpp_events[i].queue \in QueuesIn(dpcpp_events, b)
      <4>1. dpcpp_events[i] \in Event
        BY <1>2
      <4> QED BY <4>1 DEF QueuesIn, Event
    <3>3. dec[b].event_cnt = Cardinality(QueuesIn(dpcpp_events', b))
      <4>1. block[b].event_cnt = Cardinality(QueuesIn(dpcpp_events, b))
        BY <1>1, <1>4 DEF EventsFit
      <4>2. Cardinality(QueuesIn(dpcpp_events, b) \ {dpcpp_events[i].queue})
              = Cardinality(QueuesIn(dpcpp_events, b)) - 1
        BY <3>2, QueueCount
      <4> QED BY <1>4, <1>8, <3>1, <4>1, <4>2
    <3>4. dpcpp_events'[j].queue \in QueuesIn(dpcpp_events', b)
      BY <2>2, <2>6 DEF QueuesIn, Event
    <3>5. Cardinality(QueuesIn(dpcpp_events', b)) > 0
      BY <3>4, QueueCount
    <3> QED BY <1>4, <1>5, <2>6, <3>3, <3>5
  <2> QED BY <2>5, <2>6
<1>18. CASE dec[b].event_cnt = 0
  <2>1. Joined(dec, {b})
    BY <1>5, <1>8, <1>16, JoinedSame DEF Mergeable
  <2>2. /\ ~undefined'
        /\ Owned(pool', block') /\ Listed(pool', block', {}) /\ Joined(block', {})
        /\ Covered(block', segment) /\ Kept(dec, block', b)
        /\ \A x \in DOMAIN dec \ DOMAIN block' : ~dec[x].allocated /\ dec[x].event_cnt = 0
    <3>1. b \in DOMAIN dec /\ FreeBlock(dec, device_stats, b)
      BY <1>4, <1>5, <1>9, <1>18
    <3> QED BY <1>2, <1>7, <1>11, <1>13, <1>14, <1>15, <2>1, <3>1, FreeBlockPlain
  <2>3. PlainInv'
    <3>1. Listed(pool', block', {op'.block})
      BY <2>2 DEF Listed
    <3> QED BY <2>2, <3>1 DEF PlainInv, Inserting, graphVars
  <2>4. ASSUME NEW x \in DOMAIN dec, dec[x].allocated \/ dec[x].event_cnt > 0
        PROVE  Steady(x)
    <3>1. x \in DOMAIN block' /\ x # b
      BY <1>4, <1>8, <1>18, <2>2, <2>4
    <3>2. /\ block'[x].buffer = dec[x].buffer /\ block'[x].size = dec[x].size
          /\ block'[x].queue = dec[x].queue /\ block'[x].queue_uses = dec[x].queue_uses
      BY <2>2, <3>1 DEF Kept
    <3> QED BY <1>5, <1>8, <3>1, <3>2 DEF Steady
  <2> QED BY <1>3, <1>5, <1>8, <1>17, <2>3, <2>4
<1>19. CASE dec[b].event_cnt # 0
  <2>1. block' = dec /\ UNCHANGED <<pool, undefined>>
    BY <1>9, <1>19
  <2>2. \A x \in DOMAIN dec : Steady(x)
    BY <1>5, <1>8, <2>1 DEF Steady
  <2>3. Joined(dec, {})
    <3>1. ~Mergeable(dec, b)
      BY <1>19 DEF Mergeable
    <3>2. \A x \in DOMAIN block : x # b => (Mergeable(dec, x) => Mergeable(block, x))
      BY <1>5 DEF Mergeable
    <3> QED BY <1>5, <1>8, <1>16, <3>1, <3>2, JoinedSame
  <2>4. Listed(pool, dec, {op.block})
    <3>1. dec[b].event_cnt > 0
      BY <1>4, <1>8, <1>19
    <3> QED BY <1>15, <3>1 DEF Listed
  <2>5. PlainInv'
    BY <1>14, <2>1, <2>3, <2>4 DEF PlainInv, Inserting, graphVars
  <2> QED BY <1>3, <1>5, <1>17, <2>2, <2>5
<1> QED BY <1>18, <1>19
\* What the end of malloc does to the blocks: the block in hand is returned, or
\* a new block id is cut off its front and it goes back to its pool.
LEMMA SplitPlain ==
  ASSUME TypeOK, Safe, PlainInv, Split
  PROVE  /\ PlainInv' /\ \A x \in DOMAIN block : x # op.block => Steady(x)
         /\ \E id \in DOMAIN block' :
              /\ id \in DOMAIN block => id = op.block
              /\ block'[id].buffer = block[op.block].buffer
              /\ block'[id].size >= OpSize /\ block'[id].queue = op.queue
              /\ block'[id].queue_uses = {}
              /\ allocated_blocks' =
                   [a \in DOMAIN allocated_blocks \cup {block'[id].buffer} |->
                      IF a = block'[id].buffer THEN id ELSE allocated_blocks[a]]
<1> DEFINE b    == op.block
           old  == [block[b] EXCEPT !.owner = OpKey[1]]
           cut  == ShouldSplit(old, OpSize)
           id   == IF cut THEN CHOOSE i \in FreeIds : TRUE ELSE b
           made == IF cut
                   THEN [NewBlock(op.device, op.queue, OpSize, OpKey[2], old.buffer)
                           EXCEPT !.prev = old.prev, !.next = b, !.allocated = TRUE]
                   ELSE [old EXCEPT !.allocated = TRUE]
           rest == [old EXCEPT !.prev = id, !.buffer = old.buffer + OpSize,
                               !.size = old.size - OpSize]
<1>1. /\ Tiling(block, segment) /\ AllocFits(allocated_blocks, block) /\ PoolsFit(pool, block)
      /\ InHand
  BY SafeParts
<1>2. /\ BlockMap(block) /\ op \in Op /\ pool \in [PoolKey -> SUBSET BlockId]
  BY DEF TypeOK, BlockMap
<1>3. /\ op.pc = "split" /\ b \in DOMAIN block /\ ~block[b].allocated
      /\ block[b].event_cnt = 0 /\ block[b].queue = op.queue /\ block[b].size >= OpSize
  BY <1>1 DEF Split, At, InHand
<1>4. /\ OpSize \in Nat /\ OpKey \in PoolKey /\ OpKey[1] = NULL
  BY <1>2, OpSizeType, OpKeyType DEF PlainInv, OpKey
<1>5. /\ block[b] \in Block /\ block[b].owner = NULL /\ block[b].queue_uses = {}
      /\ block[b].size \in Nat /\ block[b].buffer \in Nat
  BY <1>1, <1>2, <1>3 DEF BlockMap, AllocFits, PlainInv, Owned, Block
<1>6. old = block[b]
  BY <1>4, <1>5 DEF Block
<1>7. /\ cut => FreeIds # {}
      /\ block' = [x \in DOMAIN block \cup {id} |->
              CASE x = id -> made
                [] x # id /\ x = b -> rest
                [] x # id /\ x # b /\ x = old.prev /\ cut ->
                     [block[x] EXCEPT !.next = id]
                [] OTHER -> block[x]]
      /\ pool' = IF cut THEN [pool EXCEPT ![OpKey] = @ \cup {b}] ELSE pool
      /\ allocated_blocks' =
              [a \in DOMAIN allocated_blocks \cup {made.buffer} |->
                 IF a = made.buffer THEN id ELSE allocated_blocks[a]]
      /\ undefined' = (cut /\ Dangles(OpKey, block))
      /\ op' = Idle
      /\ UNCHANGED <<dpcpp_events, segment, graphVars>>
  BY DEF Split, Return
<1>8. cut \in BOOLEAN
  BY <1>4, <1>5, <1>6, SplitBoolean
<1>9. /\ cut => id \in BlockId /\ id \notin DOMAIN block
      /\ ~cut => id = b
  BY <1>7 DEF FreeIds
<1>10. /\ made.buffer = block[b].buffer /\ made.allocated /\ made.owner = NULL
       /\ made.queue = op.queue /\ made.queue_uses = {}
       /\ cut => made.size = OpSize /\ made.next = b
       /\ ~cut => made.size = block[b].size /\ made.next = block[b].next
  <2>1. CASE cut
    <3>1. made = [device |-> op.device, queue |-> op.queue, queue_uses |-> {}, size |-> OpSize,
                  pool_type |-> OpKey[2], buffer |-> block[b].buffer, allocated |-> TRUE,
                  prev |-> block[b].prev, next |-> b, event_cnt |-> 0, owner |-> NULL]
      BY <1>6, <2>1 DEF NewBlock
    <3> HIDE DEF made, old, cut
    <3> QED BY <2>1, <3>1
  <2>2. CASE ~cut
    <3>1. made = [block[b] EXCEPT !.allocated = TRUE]
      BY <1>6, <2>2
    <3> HIDE DEF made, old, cut
    <3> QED BY <1>3, <1>5, <2>2, <3>1 DEF Block
  <2> QED BY <2>1, <2>2
<1>11. /\ rest.next = block[b].next /\ rest.owner = NULL
       /\ ~rest.allocated /\ rest.event_cnt = 0
  <2> HIDE DEF old, id
  <2>1. rest = [block[b] EXCEPT !.prev = id, !.buffer = block[b].buffer + OpSize,
                                !.size = block[b].size - OpSize]
    BY <1>6
  <2> HIDE DEF rest
  <2> QED BY <1>3, <1>5, <2>1 DEF Block
<1> HIDE DEF rest, made, id, cut, old
<1>12. /\ DOMAIN block' = DOMAIN block \cup {id} /\ block'[id] = made
       /\ cut => block'[b] = rest
       /\ \A x \in DOMAIN block : x # b =>
            block'[x] = IF x = block[b].prev /\ cut THEN [block[x] EXCEPT !.next = id] ELSE block[x]
  <2>1. cut => b # id
    BY <1>3, <1>9
  <2>2. \A x \in DOMAIN block : x # b => x # id
    BY <1>9
  <2> QED BY <1>3, <1>6, <1>7, <2>1, <2>2
<1>13. \A x \in DOMAIN block : x # b =>
         /\ block'[x].buffer = block[x].buffer /\ block'[x].size = block[x].size
         /\ block'[x].queue = block[x].queue /\ block'[x].queue_uses = block[x].queue_uses
         /\ block'[x].allocated = block[x].allocated /\ block'[x].event_cnt = block[x].event_cnt
         /\ block'[x].owner = block[x].owner
         /\ block'[x].next = IF x = block[b].prev /\ cut THEN id ELSE block[x].next
  <2> SUFFICES ASSUME NEW x \in DOMAIN block, x # b
      PROVE  /\ block'[x].buffer = block[x].buffer /\ block'[x].size = block[x].size
             /\ block'[x].queue = block[x].queue /\ block'[x].queue_uses = block[x].queue_uses
             /\ block'[x].allocated = block[x].allocated /\ block'[x].event_cnt = block[x].event_cnt
             /\ block'[x].owner = block[x].owner
             /\ block'[x].next = IF x = block[b].prev /\ cut THEN id ELSE block[x].next
    OBVIOUS
  <2>1. block[x] \in Block
    BY <1>2 DEF BlockMap
  <2>2. CASE x = block[b].prev /\ cut
    <3>1. block'[x] = [block[x] EXCEPT !.next = id]
      BY <1>12, <2>2
    <3> QED BY <2>1, <2>2, <3>1 DEF Block
  <2>3. CASE ~(x = block[b].prev /\ cut)
    BY <1>12, <2>3
  <2> QED BY <2>2, <2>3
<1>14. \A x \in DOMAIN block : x # b => Steady(x)
  BY <1>12, <1>13 DEF Steady
<1>15. /\ \A k \in PoolKey : pool'[k] \subseteq pool[k] \cup {b}
       /\ \A k \in PoolKey : pool[k] \subseteq pool'[k] /\ (k # OpKey => pool'[k] = pool[k])
       /\ cut => b \in pool'[OpKey]
  BY <1>2, <1>4, <1>7, <1>8
<1>16. Owned(pool', block')
  <2>1. \A x \in DOMAIN block' : block'[x].owner = NULL
    <3>1. \A x \in DOMAIN block : block[x].owner = NULL
      BY DEF PlainInv, Owned
    <3> QED BY <1>8, <1>9, <1>10, <1>11, <1>12, <1>13, <3>1
  <2>2. \A k \in PoolKey : pool'[k] \subseteq DOMAIN block'
    BY <1>3, <1>12, <1>15 DEF PlainInv, Owned
  <2>3. \A k \in PoolKey : k[1] # NULL => pool'[k] = {}
    BY <1>4, <1>15 DEF PlainInv, Owned
  <2> QED BY <2>1, <2>2, <2>3 DEF Owned
<1>17. ~undefined'
  BY <1>4, <1>7 DEF PlainInv, Owned, Dangles
<1>18. Listed(pool', block', {})
  <2> SUFFICES ASSUME NEW x \in DOMAIN block', ~block'[x].allocated, ~(block'[x].event_cnt > 0)
               PROVE  \E k \in PoolKey : x \in pool'[k]
    BY DEF Listed
  <2>1. x # id
    BY <1>10, <1>12
  <2>2. CASE x = b
    BY <1>4, <1>8, <1>9, <1>15, <2>1, <2>2
  <2>3. CASE x # b
    <3>1. x \in DOMAIN block /\ ~block[x].allocated /\ ~(block[x].event_cnt > 0)
      BY <1>12, <1>13, <2>1, <2>3
    <3>2. PICK k \in PoolKey : x \in pool[k]
      BY <2>3, <3>1 DEF PlainInv, Listed
    <3> QED BY <1>15, <3>2
  <2> QED BY <2>2, <2>3
<1>19. Joined(block', {})
  <2> SUFFICES ASSUME NEW x \in DOMAIN block', block'[x].next # NULL,
                      Mergeable(block', x), Mergeable(block', block'[x].next)
               PROVE  FALSE
    BY DEF Joined
  <2>1. x # id /\ block'[x].next # id
    BY <1>10, <1>12 DEF Mergeable
  <2>2. x \in DOMAIN block /\ block'[x].next = block[x].next
    BY <1>8, <1>9, <1>11, <1>12, <1>13, <2>1
  <2>3. block[x].next \in DOMAIN block /\ x # NULL
    BY <1>1, <1>2, <2>2, LinkedFacts DEF Tiling
  <2>4. \A y \in DOMAIN block : Mergeable(block', y) => Mergeable(block, y)
    BY <1>3, <1>13 DEF Mergeable
  <2>5. Joined(block, {})
    BY <1>3 DEF PlainInv, Inserting
  <2> QED BY <2>2, <2>3, <2>4, <2>5 DEF Joined
<1>20. Covered(block', segment')
  <2> SUFFICES ASSUME NEW s \in segment PROVE \E x \in DOMAIN block' : block'[x].buffer = s.base
    BY <1>7 DEF Covered
  <2>1. PICK x \in DOMAIN block : block[x].buffer = s.base
    BY DEF PlainInv, Covered
  <2>2. CASE x = b
    BY <1>10, <1>12, <2>1, <2>2
  <2>3. CASE x # b
    BY <1>12, <1>13, <2>1, <2>3
  <2> QED BY <2>2, <2>3
<1>21. PlainInv'
  <2>1. Listed(pool', block', {op'.block})
    BY <1>18 DEF Listed
  <2> QED BY <1>7, <1>16, <1>17, <1>19, <1>20, <2>1 DEF PlainInv, Inserting, graphVars, Idle
<1>22. /\ id \in DOMAIN block' /\ (id \in DOMAIN block => id = b)
       /\ block'[id].buffer = block[b].buffer
       /\ block'[id].size >= OpSize /\ block'[id].queue = op.queue
       /\ block'[id].queue_uses = {}
  BY <1>3, <1>4, <1>5, <1>8, <1>9, <1>10, <1>12
<1>23. allocated_blocks' =
         [a \in DOMAIN allocated_blocks \cup {block'[id].buffer} |->
            IF a = block'[id].buffer THEN id ELSE allocated_blocks[a]]
  BY <1>7, <1>12
<1> QED BY <1>14, <1>21, <1>22, <1>23
LEMMA EventStepsPlain ==
  ASSUME TypeOK, Safe, PlainInv, ProcessEvent \/ SynchronizeEvent
  PROVE  /\ PlainInv' /\ \A x \in DOMAIN block : block[x].allocated => Steady(x)
         /\ \A j \in DOMAIN dpcpp_events' :
              /\ \E k \in DOMAIN dpcpp_events : dpcpp_events'[j] = dpcpp_events[k]
              /\ Steady(dpcpp_events'[j].block)
<1>1. /\ op.pc \in {"process_events", "synchronize", "empty_synchronize"}
      /\ op.block = NULL /\ UNCHANGED <<allocated_blocks, segment, graphVars, op>>
  BY DEF ProcessEvent, SynchronizeEvent, At, Safe, InHand
<1>2. \E i \in DOMAIN dpcpp_events :
        EventDone(dpcpp_events[i].block) /\ dpcpp_events' = Without(dpcpp_events, i)
  <2>1. CASE ProcessEvent
    <3>1. dpcpp_events \in Seq(Event) /\ dpcpp_events # <<>>
      BY <2>1 DEF ProcessEvent, TypeOK
    <3>2. 1 \in DOMAIN dpcpp_events
      BY <3>1
    <3> QED BY <2>1, <3>2 DEF ProcessEvent
  <2>2. CASE SynchronizeEvent
    BY <2>2 DEF SynchronizeEvent
  <2> QED BY <2>1, <2>2
<1>3. PICK i \in DOMAIN dpcpp_events :
        EventDone(dpcpp_events[i].block) /\ dpcpp_events' = Without(dpcpp_events, i)
  BY <1>2
<1> QED BY <1>1, <1>3, EventDonePlain

\* Which calls of malloc there are.
LEMMA CallsOfMalloc ==
  ASSUME NEW c \in CallSite, NEW n \in ASize
  PROVE  c[1] \in Device /\ c[2] \in QueueObject /\ c[3] \in Queue /\ n \in Nat
  BY TopologyAssumption

\* PlainInv is inductive, given the invariant of the allocator.
LEMMA PlainStep ==
  ASSUME IInv, PlainInv, [PlainNext]_vars
  PROVE  PlainInv'
<1>1. TypeOK /\ Safe
  BY DEF IInv, PlainInv
<1>2. CASE UNCHANGED vars
  BY <1>2 DEF vars, PlainInv, Inserting
<1>3. ASSUME NEW c \in CallSite, NEW n \in ASize, Malloc(c[1], c[2], c[3], n) PROVE PlainInv'
  BY <1>1, <1>3, CallsOfMalloc, MovesPlain
<1>4. CASE ProcessEventsEnd \/ FindNothing \/ AllocFails \/ OutOfMemory
           \/ EmptyCache \/ EmptyCacheEnd
  BY <1>1, <1>4, MovesPlain
<1>5. CASE ProcessEvent \/ SynchronizeEvent
  BY <1>1, <1>5, EventStepsPlain
<1>6. CASE FindFreeBlock
  BY <1>1, <1>6, FindFreeBlockPlain
<1>7. CASE AllocSegment
  BY <1>1, <1>7, AllocSegmentPlain
<1>8. CASE SynchronizeEnd
  BY <1>1, <1>8, SynchronizeEndPlain
<1>9. CASE FreeSegment
  BY <1>1, <1>9, FreeSegmentPlain
<1>10. CASE FreeCachedBlocks
  BY <1>1, <1>10, FreeCachedBlocksPlain
<1>11. CASE Split
  BY <1>1, <1>11, SplitPlain
<1>12. CASE InsertEvent
  BY <1>1, <1>12, InsertEventPlain
<1>13. CASE EventComplete
  BY <1>13, EventCompletePlain
<1>14. ASSUME NEW a \in DOMAIN allocated_blocks, Free(a) PROVE PlainInv'
  BY <1>1, <1>14, FreePlain
<1>15. ASSUME NEW a \in DOMAIN allocated_blocks, FreeUsed(a) PROVE PlainInv'
  BY <1>1, <1>15, FreeUsedPlain
<1>16. ASSUME NEW a \in DOMAIN allocated_blocks, NEW q \in Queue, RecordQueue(a, q)
       PROVE  PlainInv'
  BY <1>1, <1>16, RecordQueuePlain
<1> QED
  BY <1>2, <1>3, <1>4, <1>5, <1>6, <1>7, <1>8, <1>9, <1>10, <1>11, <1>12, <1>13, <1>14,
     <1>15, <1>16 DEF PlainNext, Call, OpStep, MallocStep

LEMMA InitPlain == Init => PlainInv
<1> SUFFICES ASSUME Init PROVE PlainInv
  OBVIOUS
<1>1. op.pc = "idle" /\ op.owner = NULL /\ op.todo = {}
  BY DEF Init, Idle
<1>2. Owned(pool, block) /\ Listed(pool, block, {op.block}) /\ Joined(block, {})
      /\ Covered(block, segment)
  BY DEF Init, Owned, Listed, Joined, Covered
<1> QED BY <1>1, <1>2 DEF Init, PlainInv, Inserting

\* The inductive invariant of a program that records no graphs.
THEOREM PlainInvariant == PlainSpec => [](IInv /\ PlainInv)
<1>1. PlainSpec => []IInv
  BY PlainImpliesSpec, AllocatorInvariant, PTL
<1>2. IInv /\ PlainInv /\ [PlainNext]_vars => PlainInv'
  BY PlainStep
<1> QED BY <1>1, <1>2, InitPlain, PTL DEF PlainSpec

\* Without graphs no deleted Block is ever dereferenced: neither by the
\* comparisons of a std::set lookup nor through m_owner_private_pool.
THEOREM NothingDangles == PlainSpec => []NoUseAfterFree
<1>1. PlainInv => NoUseAfterFree
  BY DEF PlainInv, NoUseAfterFree
<1> QED BY <1>1, PlainInvariant, PTL

\* Without graphs every Block that is free is listed by a pool, so malloc or
\* emptyCache can get at it.
THEOREM NothingLost == PlainSpec => []NoLostBlock
<1>1. PlainInv => NoLostBlock
  BY DEF PlainInv, NoLostBlock, Listed
<1> QED BY <1>1, PlainInvariant, PTL

\* Without graphs no two free neighbours remain when an operation returns.
THEOREM FragmentsCoalesced == PlainSpec => []Coalesced
<1>1. PlainInv => Coalesced
  BY DEF PlainInv, Coalesced, Joined, Inserting
<1> QED BY <1>1, PlainInvariant, PTL
\* The state in which free_blocks has nothing left to free: each segment begins
\* with a block that is allocated, or whose successor is.
LEMMA EmptiedSegment ==
  ASSUME TypeOK, Safe, PlainInv, op.pc = "empty_free", FreeableBlocks(FreeRange) = {},
         NEW s \in segment
  PROVE  \E b \in DOMAIN block :
           /\ block[b].allocated
           /\ s.base <= block[b].buffer /\ block[b].buffer < s.base + s.size
<1>1. /\ Tiling(block, segment) /\ EventsFit(dpcpp_events, block)
      /\ BlockMap(block) /\ segment \subseteq Segment
  BY SafeParts DEF TypeOK, BlockMap
<1>2. \A x \in DOMAIN block : block[x].event_cnt = 0 /\ x # NULL
  <2>1. \A x : QueuesIn(dpcpp_events, x) = {}
    BY DEF PlainInv, QueuesIn
  <2> QED BY <1>1, <2>1, QueueCount, NullAssumption DEF EventsFit, BlockMap
<1>3. PICK b \in DOMAIN block : block[b].buffer = s.base
  BY DEF PlainInv, Covered
<1>4. PICK t \in segment : Within(block[b], t)
  BY <1>1 DEF Tiling, InSegments
<1>5. s.base \in Nat /\ s.size \in Nat /\ t.base \in Nat /\ t.size \in Nat /\ s.size > 0
  BY <1>1 DEF Segment, Tiling, SegmentsApart
<1>6. block[b].buffer \in Nat /\ block[b].size \in Nat /\ block[b].size > 0
  BY <1>1 DEF BlockMap, Block, Tiling, Linked
<1>7. s = t
  <2>1. s # t => ~Overlap(s.base, s.size, t.base, t.size)
    BY <1>1 DEF Tiling, SegmentsApart
  <2> QED BY <1>3, <1>4, <1>5, <1>6, <2>1 DEF Within, Overlap
<1>8. CASE block[b].allocated
  <2>1. s.base <= block[b].buffer /\ block[b].buffer < s.base + s.size
    BY <1>3, <1>5
  <2> QED BY <1>8, <2>1
<1>9. CASE ~block[b].allocated
  <2>1. block[b].prev = NULL
    BY <1>3, <1>4, <1>7 DEF Within
  <2>2. \E k \in PoolKey : b \in pool[k]
    <3>1. op.block = NULL
      BY DEF Safe, InHand
    <3>2. Listed(pool, block, {op.block})
      BY DEF PlainInv
    <3>3. b \in DOMAIN block \ {op.block} /\ ~(block[b].event_cnt > 0)
      BY <1>2, <3>1
    <3> QED BY <1>9, <3>2, <3>3 DEF Listed
  <2>3. b \in FreeRange
    <3>1. PICK k \in PoolKey : b \in pool[k]
      BY <2>2
    <3>2. k[1] = NULL
      BY <3>1 DEF PlainInv, Owned
    <3>3. k = <<NULL, k[2]>> /\ k[2] \in PoolType
      BY <3>2 DEF PoolKey
    <3> QED BY <3>1, <3>3 DEF FreeRange
  <2>4. block[b].next # NULL
    BY <2>1, <2>3 DEF FreeableBlocks, IsSplit
  <2> DEFINE n == block[b].next
  <2>5. n \in DOMAIN block /\ block[n].allocated
    <3>1. n \in DOMAIN block
      BY <1>1, <2>4 DEF Tiling, Linked
    <3>2. Joined(block, {})
      BY DEF PlainInv, Inserting
    <3>3. ~Mergeable(block, n)
      BY <1>2, <1>9, <2>4, <3>2 DEF Joined, Mergeable
    <3> QED BY <1>2, <3>1, <3>3 DEF Mergeable
  <2>6. PICK u \in segment : Within(block[n], u)
    BY <1>1, <2>5 DEF Tiling, InSegments
  <2>7. u = s
    BY <1>1, <1>4, <1>7, <2>4, <2>6, SameSegment
  <2>8. block[n].buffer \in Nat /\ block[n].size \in Nat /\ block[n].size > 0
    BY <1>1, <2>5 DEF BlockMap, Block, Tiling, Linked
  <2>9. s.base <= block[n].buffer /\ block[n].buffer < s.base + s.size
    BY <1>5, <2>6, <2>7, <2>8 DEF Within
  <2> QED BY <2>5, <2>9
<1> QED BY <1>8, <1>9

\* Without graphs emptyCache releases all unoccupied memory: when it returns
\* every segment has an allocated block.
THEOREM EmptyCacheReleasesAll == PlainSpec => EmptyCacheReleases
<1>1. ASSUME IInv, PlainInv, [PlainNext]_vars
      PROVE  [op.pc = "empty_free" /\ op'.pc = "idle" /\ ~undefined' =>
               \A s \in segment' : s.owner = NULL => \E b \in DOMAIN block' :
                 /\ block'[b].allocated
                 /\ s.base <= block'[b].buffer /\ block'[b].buffer < s.base + s.size]_vars
  <2> SUFFICES ASSUME PlainNext, op.pc = "empty_free", op'.pc = "idle", NEW s \in segment'
               PROVE  \E b \in DOMAIN block' :
                        /\ block'[b].allocated
                        /\ s.base <= block'[b].buffer /\ block'[b].buffer < s.base + s.size
    BY <1>1
  <2>1. op' # op
    OBVIOUS
  <2>2. EmptyCacheEnd
    BY <2>1 DEF PlainNext, Call, OpStep, MallocStep, Malloc, Free, FreeUsed, RecordQueue,
         EmptyCache, ProcessEvent, ProcessEventsEnd, FindFreeBlock, FindNothing,
         AllocSegment, AllocFails, SynchronizeEvent, SynchronizeEnd, FreeSegment,
         FreeCachedBlocks, OutOfMemory, Split, InsertEvent, EventComplete, At
  <2>3. FreeableBlocks(FreeRange) = {} /\ block' = block /\ segment' = segment
    BY <2>2 DEF EmptyCacheEnd
  <2>4. TypeOK /\ Safe
    BY <1>1 DEF IInv, PlainInv
  <2> QED BY <1>1, <2>3, <2>4, EmptiedSegment
<1> QED BY <1>1, PlainInvariant, PTL DEF PlainSpec, EmptyCacheReleases
-----------------------------------------------------------------------------
(* The refinement of AbstractAllocator: what a step does to the request,   *)
(* the live memory and the pending work.                                   *)

\* The memory behind a key of allocated_blocks.
MemoryAt(blocks, alloc, a) ==
  [base |-> a, size |-> blocks[alloc[a]].size, queue |-> blocks[alloc[a]].queue,
   uses |-> blocks[alloc[a]].queue_uses]

\* Work of queue q on block x.
WorkOn(blocks, x, q) == [base |-> blocks[x].buffer, size |-> blocks[x].size, queue |-> q]

LEMMA LiveElements ==
  /\ \A r : r \in Live <=> \E a \in DOMAIN allocated_blocks : r = MemoryAt(block, allocated_blocks, a)
  /\ \A r : r \in Live' <=> \E a \in DOMAIN allocated_blocks' : r = MemoryAt(block', allocated_blocks', a)
  BY DEF Live, MemoryAt

LEMMA PendingElements ==
  /\ \A w : w \in Pending <=>
       \/ \E i \in DOMAIN dpcpp_events :
            /\ ~dpcpp_events[i].done
            /\ w = WorkOn(block, dpcpp_events[i].block, dpcpp_events[i].queue)
       \/ \E q \in op.todo : w = WorkOn(block, op.block, q)
  /\ \A w : w \in Pending' <=>
       \/ \E i \in DOMAIN dpcpp_events' :
            /\ ~dpcpp_events'[i].done
            /\ w = WorkOn(block', dpcpp_events'[i].block, dpcpp_events'[i].queue)
       \/ \E q \in op'.todo : w = WorkOn(block', op'.block, q)
  BY DEF Pending, WorkOn

\* A step that leaves the allocated blocks alone changes nothing for callers.
LEMMA LiveSame ==
  ASSUME TypeOK, Safe, allocated_blocks' = allocated_blocks,
         \A x \in DOMAIN block : block[x].allocated => Steady(x)
  PROVE  Live' = Live
<1>1. \A a \in DOMAIN allocated_blocks :
        allocated_blocks[a] \in DOMAIN block /\ block[allocated_blocks[a]].allocated
  BY SafeParts DEF AllocFits
<1>2. \A a \in DOMAIN allocated_blocks : MemoryAt(block', allocated_blocks', a) = MemoryAt(block, allocated_blocks, a)
  BY <1>1 DEF MemoryAt, Steady
<1> QED BY <1>2, LiveElements

\* A step that consumes or completes events, or inserts one that was to be
\* inserted, adds no work.
LEMMA PendingShrinks ==
  ASSUME \A q \in op'.todo : q \in op.todo /\ op'.block = op.block /\ Steady(op.block),
         \A j \in DOMAIN dpcpp_events' : ~dpcpp_events'[j].done =>
           /\ Steady(dpcpp_events'[j].block)
           /\ \/ \E k \in DOMAIN dpcpp_events :
                   /\ ~dpcpp_events[k].done
                   /\ dpcpp_events[k].block = dpcpp_events'[j].block
                   /\ dpcpp_events[k].queue = dpcpp_events'[j].queue
              \/ dpcpp_events'[j].block = op.block /\ dpcpp_events'[j].queue \in op.todo
  PROVE  Pending' \subseteq Pending
<1> SUFFICES ASSUME NEW w \in Pending' PROVE w \in Pending
  OBVIOUS
<1>1. ASSUME NEW j \in DOMAIN dpcpp_events', ~dpcpp_events'[j].done,
             w = WorkOn(block', dpcpp_events'[j].block, dpcpp_events'[j].queue)
      PROVE  w \in Pending
  <2>1. w = WorkOn(block, dpcpp_events'[j].block, dpcpp_events'[j].queue)
    BY <1>1 DEF WorkOn, Steady
  <2> QED BY <1>1, <2>1, PendingElements
<1>2. ASSUME NEW q \in op'.todo, w = WorkOn(block', op'.block, q)
      PROVE  w \in Pending
  <2>1. w = WorkOn(block, op.block, q) /\ q \in op.todo
    BY <1>2 DEF WorkOn, Steady
  <2> QED BY <2>1, PendingElements
<1> QED BY <1>1, <1>2, PendingElements

\* A step that leaves the events and their blocks alone leaves the work alone.
LEMMA PendingSame ==
  ASSUME op.todo = {}, op'.todo = {}, dpcpp_events' = dpcpp_events,
         \A i \in DOMAIN dpcpp_events : Steady(dpcpp_events[i].block)
  PROVE  Pending' = Pending
<1>1. \A i \in DOMAIN dpcpp_events : \A q :
        WorkOn(block', dpcpp_events[i].block, q) = WorkOn(block, dpcpp_events[i].block, q)
  BY DEF WorkOn, Steady
<1>2. \A w : w \in Pending <=>
        \E i \in DOMAIN dpcpp_events :
          /\ ~dpcpp_events[i].done
          /\ w = WorkOn(block, dpcpp_events[i].block, dpcpp_events[i].queue)
  BY PendingElements
<1>3. \A w : w \in Pending' <=>
        \E i \in DOMAIN dpcpp_events :
          /\ ~dpcpp_events[i].done
          /\ w = WorkOn(block', dpcpp_events[i].block, dpcpp_events[i].queue)
  BY PendingElements
<1>4. \A w : w \in Pending' <=> w \in Pending
  BY <1>1, <1>2, <1>3
<1> QED BY <1>4

\* Finished work is a step of the abstract allocator.
LEMMA FinishWork ==
  ASSUME Request' = Request, Live' = Live, Pending' \subseteq Pending
  PROVE  Abstract!Next
<1>1. Pending' = Pending \ (Pending \ Pending')
  OBVIOUS
<1>2. Abstract!Finish(Pending \ Pending')
  BY <1>1 DEF Abstract!Finish
<1>3. Pending \ Pending' \in SUBSET Pending
  OBVIOUS
<1> QED BY <1>2, <1>3 DEF Abstract!Next
\* The blocks of events are neither allocated nor in the hands of malloc.
LEMMA EventBlocks ==
  ASSUME TypeOK, Safe, NEW i \in DOMAIN dpcpp_events
  PROVE  /\ dpcpp_events[i].block \in DOMAIN block
         /\ ~block[dpcpp_events[i].block].allocated
         /\ block[dpcpp_events[i].block].event_cnt > 0
         /\ op.pc = "split" => dpcpp_events[i].block # op.block
<1>1. EventsFit(dpcpp_events, block) /\ dpcpp_events \in Seq(Event)
  BY SafeParts DEF TypeOK
<1>2. /\ dpcpp_events[i].block \in DOMAIN block
      /\ block[dpcpp_events[i].block].event_cnt > 0
  BY <1>1, EventCountPositive
<1>3. ~block[dpcpp_events[i].block].allocated
  BY <1>1 DEF EventsFit
<1>4. op.pc = "split" => block[op.block].event_cnt = 0
  BY DEF Safe, InHand
<1> QED BY <1>2, <1>3, <1>4

\* The pcs of malloc.
Serving == {"process_events", "find_free_block", "malloc", "synchronize",
            "free_cached_blocks", "retry", "split"}

\* A step of malloc that keeps the arguments keeps the request.
LEMMA RequestSame ==
  ASSUME \/ op.pc \in Serving /\ op'.pc \in Serving /\ op'.queue = op.queue /\ op'.asize = op.asize
         \/ op.pc \notin Serving /\ op'.pc \notin Serving
  PROVE  Request' = Request
  BY DEF Request, Serving

\* A request is not None.
LEMMA RequestReal ==
  ASSUME TypeOK, Safe, op.pc \in Serving
  PROVE  Request = [queue |-> op.queue, size |-> op.asize] /\ Request # NULL
<1>1. op.queue \in Queue /\ op.asize \in Nat
  BY DEF TypeOK, Op, Safe, InHand, Serving
<1>2. Request = [queue |-> op.queue, size |-> op.asize]
  BY DEF Request, Serving
<1> QED BY <1>1, <1>2, RequestAssumption

\* Steps on blocks nobody uses, and steps that only move the operation.
LEMMA InternalSteps ==
  ASSUME TypeOK, Safe, PlainInv,
         \/ FindFreeBlock \/ FindNothing \/ AllocSegment \/ AllocFails
         \/ FreeSegment \/ FreeCachedBlocks \/ EmptyCache \/ EmptyCacheEnd
         \/ ProcessEventsEnd /\ ~OverStatefulLimit
  PROVE  Abstract!Next
<1>1. op \in Op /\ op.todo = {}
  <2>1. op.pc # "insert_events"
    BY DEF FindFreeBlock, FindNothing, AllocSegment, AllocFails, FreeSegment,
           FreeCachedBlocks, EmptyCache, EmptyCacheEnd, ProcessEventsEnd, At
  <2> QED BY <2>1 DEF TypeOK, PlainInv
<1>2. allocated_blocks' = allocated_blocks /\ dpcpp_events' = dpcpp_events
  BY DEF FindFreeBlock, FindNothing, AllocSegment, AllocFails, FreeSegment,
         FreeCachedBlocks, EmptyCache, EmptyCacheEnd, ProcessEventsEnd
<1>3. \A x \in DOMAIN block : block[x].allocated \/ block[x].event_cnt > 0 => Steady(x)
  <2>1. CASE AllocSegment \/ FreeSegment
    BY <2>1, AllocSegmentPlain, FreeSegmentPlain
  <2>2. CASE ~(AllocSegment \/ FreeSegment)
    <3>1. block' = block
      BY <2>2, FreeCachedBlocksPlain DEF FindFreeBlock, FindNothing, AllocFails, EmptyCache,
           EmptyCacheEnd, ProcessEventsEnd
    <3> QED BY <3>1 DEF Steady
  <2> QED BY <2>1, <2>2
<1>4. /\ op'.todo = {}
      /\ \/ op.pc \in Serving /\ op'.pc \in Serving
            /\ op'.queue = op.queue /\ op'.asize = op.asize
         \/ op.pc \notin Serving /\ op'.pc \notin Serving
  <2>1. CASE FindFreeBlock
    <3>1. PICK b \in BestFits(OpKey) : op' = [op EXCEPT !.pc = "split", !.block = b]
      BY <2>1 DEF FindFreeBlock
    <3>2. op.pc = "find_free_block"
      BY <2>1 DEF FindFreeBlock, At
    <3> QED BY <1>1, <3>1, <3>2 DEF Op, Serving
  <2>2. CASE FindNothing \/ AllocFails \/ FreeCachedBlocks
    BY <1>1, <2>2 DEF FindNothing, AllocFails, FreeCachedBlocks, Goto, At, Op, Serving
  <2>3. CASE AllocSegment
    <3>1. PICK id : op' = [op EXCEPT !.pc = "split", !.block = id]
      BY <2>3 DEF AllocSegment
    <3>2. op.pc \in {"malloc", "retry"}
      BY <2>3 DEF AllocSegment, At
    <3> QED BY <1>1, <3>1, <3>2 DEF Op, Serving
  <2>4. CASE FreeSegment
    BY <1>1, <2>4 DEF FreeSegment
  <2>5. CASE EmptyCache \/ EmptyCacheEnd
    BY <1>1, <2>5 DEF EmptyCache, EmptyCacheEnd, Return, Idle, At, Serving
  <2>6. CASE ProcessEventsEnd /\ ~OverStatefulLimit
    <3>1. /\ op' = [op EXCEPT !.pc = "find_free_block", !.owner = PrivatePool(op.object)]
          /\ op.pc = "process_events"
      BY <2>6 DEF ProcessEventsEnd, At
    <3> QED BY <1>1, <3>1 DEF Op, Serving
  <2> QED BY <2>1, <2>2, <2>3, <2>4, <2>5, <2>6
<1>5. Request' = Request
  BY <1>4, RequestSame
<1>6. Live' = Live
  BY <1>2, <1>3, LiveSame
<1>7. Pending' = Pending
  <2>1. \A i \in DOMAIN dpcpp_events : Steady(dpcpp_events[i].block)
    BY <1>3, EventBlocks
  <2> QED BY <1>1, <1>2, <1>4, <2>1, PendingSame
<1> QED BY <1>5, <1>6, <1>7, FinishWork

\* The device, process_events and synchronize_and_free_events finish work.
LEMMA EventSteps ==
  ASSUME TypeOK, Safe, PlainInv, ProcessEvent \/ SynchronizeEvent
  PROVE  Abstract!Next
<1>1. /\ op' = op /\ allocated_blocks' = allocated_blocks /\ op.pc # "insert_events"
  BY DEF ProcessEvent, SynchronizeEvent, At
<1>2. op.todo = {}
  BY <1>1 DEF PlainInv
<1>3. /\ \A x \in DOMAIN block : block[x].allocated => Steady(x)
      /\ \A j \in DOMAIN dpcpp_events' :
           /\ \E k \in DOMAIN dpcpp_events : dpcpp_events'[j] = dpcpp_events[k]
           /\ Steady(dpcpp_events'[j].block)
  BY EventStepsPlain
<1>4. Pending' \subseteq Pending
  BY <1>1, <1>2, <1>3, PendingShrinks
<1>5. Live' = Live
  BY <1>1, <1>3, LiveSame
<1>6. Request' = Request
  BY <1>1 DEF Request
<1> QED BY <1>4, <1>5, <1>6, FinishWork

LEMMA DoneSteps ==
  ASSUME TypeOK, Safe, PlainInv, SynchronizeEnd
  PROVE  Abstract!Next
<1>1. op \in Op /\ dpcpp_events \in Seq(Event)
  BY DEF TypeOK
<1>2. /\ op.pc \in {"synchronize", "empty_synchronize"}
      /\ dpcpp_events' = [i \in DOMAIN dpcpp_events |->
           [dpcpp_events[i] EXCEPT
              !.done = @ \/ DeviceOf[dpcpp_events[i].queue] = op.device]]
      /\ op' = [op EXCEPT !.pc = IF op.pc = "synchronize" THEN "free_cached_blocks"
                                                        ELSE "empty_free"]
      /\ UNCHANGED <<block, allocated_blocks>>
  BY DEF SynchronizeEnd, At, Goto
<1>3. /\ op'.todo = {} /\ op.todo = {}
      /\ \/ op.pc \in Serving /\ op'.pc \in Serving
            /\ op'.queue = op.queue /\ op'.asize = op.asize
         \/ op.pc \notin Serving /\ op'.pc \notin Serving
  BY <1>1, <1>2 DEF PlainInv, Op, Serving
<1>4. \A j \in DOMAIN dpcpp_events' :
        /\ j \in DOMAIN dpcpp_events
        /\ dpcpp_events[j].done => dpcpp_events'[j].done
        /\ dpcpp_events[j].block = dpcpp_events'[j].block
        /\ dpcpp_events[j].queue = dpcpp_events'[j].queue
  <2> SUFFICES ASSUME NEW j \in DOMAIN dpcpp_events'
      PROVE  /\ j \in DOMAIN dpcpp_events
             /\ dpcpp_events[j].done => dpcpp_events'[j].done
             /\ dpcpp_events[j].block = dpcpp_events'[j].block
             /\ dpcpp_events[j].queue = dpcpp_events'[j].queue
    OBVIOUS
  <2> DEFINE e == dpcpp_events[j]
             due == DeviceOf[e.queue] = op.device
  <2>1. j \in DOMAIN dpcpp_events /\ dpcpp_events'[j] = [e EXCEPT !.done = e.done \/ due]
    BY <1>2
  <2>2. e \in Event
    BY <1>1, <2>1
  <2> HIDE DEF e, due
  <2>3. /\ dpcpp_events'[j].block = e.block /\ dpcpp_events'[j].queue = e.queue
        /\ dpcpp_events'[j].done = (e.done \/ due)
    BY <2>1, <2>2 DEF Event
  <2> QED BY <2>1, <2>3 DEF e
<1>5. \A x \in DOMAIN block : Steady(x)
  BY <1>2 DEF Steady
<1>6. Pending' \subseteq Pending
  <2>1. \A j \in DOMAIN dpcpp_events : dpcpp_events[j].block \in DOMAIN block
    BY EventBlocks
  <2> QED BY <1>3, <1>4, <1>5, <2>1, PendingShrinks
<1>7. Request' = Request /\ Live' = Live
  BY <1>2, <1>3, <1>5, RequestSame, LiveSame
<1> QED BY <1>6, <1>7, FinishWork
LEMMA CompleteSteps ==
  ASSUME TypeOK, Safe, PlainInv, EventComplete
  PROVE  Abstract!Next
<1>1. dpcpp_events \in Seq(Event)
  BY DEF TypeOK
<1>2. PICK i \in DOMAIN dpcpp_events : dpcpp_events' = [dpcpp_events EXCEPT ![i].done = TRUE]
  BY DEF EventComplete
<1>3. UNCHANGED <<block, allocated_blocks, op>>
  BY DEF EventComplete
<1>4. \A j \in DOMAIN dpcpp_events' :
        /\ j \in DOMAIN dpcpp_events
        /\ ~dpcpp_events'[j].done => dpcpp_events'[j] = dpcpp_events[j]
  <2> SUFFICES ASSUME NEW j \in DOMAIN dpcpp_events'
      PROVE  /\ j \in DOMAIN dpcpp_events
             /\ ~dpcpp_events'[j].done => dpcpp_events'[j] = dpcpp_events[j]
    OBVIOUS
  <2>1. j \in DOMAIN dpcpp_events /\ dpcpp_events[j] \in Event
    BY <1>1, <1>2
  <2>2. CASE j = i
    <3>1. dpcpp_events'[j] = [dpcpp_events[j] EXCEPT !.done = TRUE]
      BY <1>2, <2>1, <2>2
    <3>2. dpcpp_events'[j].done
      BY <2>1, <3>1 DEF Event
    <3> QED BY <2>1, <3>2
  <2>3. CASE j # i
    BY <1>2, <2>1, <2>3
  <2> QED BY <2>2, <2>3
<1>5. \A x \in DOMAIN block : Steady(x)
  BY <1>3 DEF Steady
<1>6. Pending' \subseteq Pending
  <2>1. \A j \in DOMAIN dpcpp_events : dpcpp_events[j].block \in DOMAIN block
    BY EventBlocks
  <2>2. op.todo # {} => op.block \in DOMAIN block
    BY DEF PlainInv, Safe, InHand
  <2> QED BY <1>3, <1>4, <1>5, <2>1, <2>2, PendingShrinks
<1>7. Request' = Request /\ Live' = Live
  BY <1>3, <1>5, LiveSame DEF Request
<1> QED BY <1>6, <1>7, FinishWork

LEMMA InsertSteps ==
  ASSUME TypeOK, Safe, PlainInv, InsertEvent
  PROVE  Abstract!Next
<1>1. PICK q \in op.todo :
       /\ dpcpp_events' = Append(dpcpp_events, [block |-> op.block, queue |-> q, done |-> FALSE])
       /\ op' = IF op.todo = {q} THEN Idle ELSE [op EXCEPT !.todo = @ \ {q}]
  BY DEF InsertEvent
<1>2. /\ op.pc = "insert_events" /\ allocated_blocks' = allocated_blocks
      /\ dpcpp_events \in Seq(Event) /\ op \in Op /\ op.block \in DOMAIN block
  BY DEF InsertEvent, At, TypeOK, Safe, InHand
<1>3. \A x \in DOMAIN block : Steady(x)
  BY InsertEventPlain
<1>4. \A j \in DOMAIN dpcpp_events' :
        \/ j \in DOMAIN dpcpp_events /\ dpcpp_events'[j] = dpcpp_events[j]
        \/ dpcpp_events'[j].block = op.block /\ dpcpp_events'[j].queue = q
  BY <1>1, <1>2
<1>5. /\ op'.pc \notin Serving
      /\ \A p \in op'.todo : p \in op.todo /\ op'.block = op.block
  <2>1. CASE op.todo = {q}
    BY <1>1, <2>1 DEF Idle, Serving
  <2>2. CASE op.todo # {q}
    BY <1>1, <1>2, <2>2 DEF Op, Serving
  <2> QED BY <2>1, <2>2
<1>6. Pending' \subseteq Pending
  <2>1. \A j \in DOMAIN dpcpp_events : dpcpp_events[j].block \in DOMAIN block
    BY EventBlocks
  <2> QED BY <1>2, <1>3, <1>4, <1>5, <2>1, PendingShrinks
<1>7. Request' = Request /\ Live' = Live
  BY <1>2, <1>3, <1>5, RequestSame, LiveSame DEF Serving
<1> QED BY <1>6, <1>7, FinishWork

\* malloc is called: a request.  malloc throws: the request is refused.
LEMMA RequestSteps ==
  ASSUME TypeOK, Safe, PlainInv,
         \/ \E c \in CallSite, n \in ASize : Malloc(c[1], c[2], c[3], n)
         \/ ProcessEventsEnd /\ OverStatefulLimit
         \/ OutOfMemory
  PROVE  Abstract!Next
<1>1. UNCHANGED <<block, allocated_blocks, dpcpp_events>> /\ op.pc # "insert_events"
  BY DEF Malloc, ProcessEventsEnd, OutOfMemory, At
<1>2. op.todo = {}
  BY <1>1 DEF PlainInv
<1>3. op'.todo = {}
  <2>1. ASSUME NEW c \in CallSite, NEW n \in ASize, Malloc(c[1], c[2], c[3], n)
        PROVE  op'.todo = {}
    BY <2>1 DEF Malloc, Idle
  <2>2. CASE ProcessEventsEnd /\ OverStatefulLimit
    BY <2>2 DEF ProcessEventsEnd, Return, Idle
  <2>3. CASE OutOfMemory
    BY <2>3 DEF OutOfMemory, Return, Idle
  <2> QED BY <2>1, <2>2, <2>3
<1>4. Live' = Live /\ Pending' = Pending
  BY <1>1, <1>2, <1>3 DEF Live, Pending
<1>5. ASSUME NEW c \in CallSite, NEW n \in ASize, Malloc(c[1], c[2], c[3], n)
      PROVE  Abstract!Next
  <2>1. Request = NULL
    BY <1>5 DEF Malloc, At, Request
  <2>2. Request' = [queue |-> c[3], size |-> n] /\ c[3] \in Queue
    BY <1>5, CallsOfMalloc DEF Malloc, Request, Idle
  <2>3. Abstract!Request(c[3], n)
    BY <1>4, <2>1, <2>2 DEF Abstract!Request
  <2> QED BY <2>2, <2>3 DEF Abstract!Next
<1>6. CASE (ProcessEventsEnd /\ OverStatefulLimit) \/ OutOfMemory
  <2>1. op.pc \in Serving /\ op' = Idle
    BY <1>6 DEF ProcessEventsEnd, OutOfMemory, At, Return, Serving
  <2>2. Request # NULL
    BY <2>1, RequestReal
  <2>3. Request' = NULL
    BY <2>1 DEF Request, Idle
  <2>4. Abstract!Refuse
    BY <1>4, <2>2, <2>3 DEF Abstract!Refuse
  <2> QED BY <2>4 DEF Abstract!Next
<1> QED BY <1>5, <1>6
\* What callers hold, in terms of the blocks.
LEMMA LiveBlocks ==
  ASSUME TypeOK, Safe, NEW a \in DOMAIN allocated_blocks
  PROVE  /\ allocated_blocks[a] \in DOMAIN block /\ block[allocated_blocks[a]].allocated
         /\ block[allocated_blocks[a]].buffer = a /\ a \in Nat
         /\ block[allocated_blocks[a]].size \in Nat /\ block[allocated_blocks[a]].size > 0
         /\ op.pc = "split" => allocated_blocks[a] # op.block
  BY SafeParts DEF AllocFits, TypeOK, Block, Safe, Linked, InHand

\* malloc returns: the memory is apart from all that is in use.
LEMMA GrantStep ==
  ASSUME TypeOK, Safe, PlainInv, TypeOK', Safe', Split
  PROVE  Abstract!Next
<1>1. /\ op.pc = "split" /\ op' = Idle /\ dpcpp_events' = dpcpp_events /\ op \in Op
  BY DEF Split, At, Return, TypeOK
<1>2. \A x \in DOMAIN block : x # op.block => Steady(x)
  BY SplitPlain
<1>3. PICK id \in DOMAIN block' :
        /\ id \in DOMAIN block => id = op.block
        /\ block'[id].buffer = block[op.block].buffer
        /\ block'[id].size >= OpSize /\ block'[id].queue = op.queue
        /\ block'[id].queue_uses = {}
        /\ allocated_blocks' =
             [a \in DOMAIN allocated_blocks \cup {block'[id].buffer} |->
                IF a = block'[id].buffer THEN id ELSE allocated_blocks[a]]
  BY SplitPlain
<1> DEFINE r == [base |-> block'[id].buffer, size |-> block'[id].size,
                 queue |-> op.queue, uses |-> {}]
<1>4. /\ block'[id].buffer \in Nat /\ block'[id].size \in Nat /\ block'[id].size > 0
      /\ op.queue \in Queue
  <2>1. block'[id] \in Block /\ block'[id].size > 0
    BY DEF TypeOK, Safe, Linked
  <2>2. op.queue \in Queue
    BY <1>1 DEF Safe, InHand
  <2> QED BY <2>1, <2>2 DEF Block
<1>5. r \in Abstract!Memory
  BY <1>4 DEF Abstract!Memory
<1>6. block'[id].size >= op.asize
  <2>1. OpSize >= op.asize /\ OpSize \in Nat /\ op.asize \in Nat
    <3>1. op.asize \in Nat /\ kMinBlockSize \in Nat \ {0}
      BY <1>1, SizesAssumption DEF Op
    <3> QED BY <3>1, RoundUpBound DEF OpSize, RoundSize
  <2> QED BY <1>3, <1>4, <2>1
<1>7. Request = [queue |-> op.queue, size |-> op.asize] /\ Request # NULL
  BY <1>1, RequestReal DEF Serving
<1>8. Request' = NULL
  BY <1>1 DEF Request, Idle
<1>9. ASSUME NEW x \in DOMAIN block, x # op.block
      PROVE  /\ block[x].buffer + block[x].size <= block'[id].buffer
                \/ block'[id].buffer + block'[id].size <= block[x].buffer
             /\ block[x].buffer # block'[id].buffer
  <2>1. x # id /\ Steady(x)
    BY <1>2, <1>3, <1>9
  <2>2. ~Overlap(block'[id].buffer, block'[id].size, block'[x].buffer, block'[x].size)
    BY <2>1 DEF Safe, Apart, Steady
  <2>3. block[x].buffer \in Nat /\ block[x].size \in Nat /\ block[x].size > 0
    BY DEF TypeOK, Block, Safe, Linked
  <2>4. block'[x].buffer = block[x].buffer /\ block'[x].size = block[x].size
    BY <2>1 DEF Steady
  <2> QED BY <1>4, <2>2, <2>3, <2>4 DEF Overlap
<1>10. ASSUME NEW s \in Live \cup Pending PROVE Abstract!Apart(r, s)
  <2>1. ASSUME NEW x \in DOMAIN block, x # op.block, s.base = block[x].buffer, s.size = block[x].size
        PROVE  Abstract!Apart(r, s)
    BY <1>9, <2>1 DEF Abstract!Apart
  <2>2. CASE s \in Live
    <3>1. PICK a \in DOMAIN allocated_blocks : s = MemoryAt(block, allocated_blocks, a)
      BY <2>2, LiveElements
    <3>2. /\ allocated_blocks[a] \in DOMAIN block /\ allocated_blocks[a] # op.block
          /\ block[allocated_blocks[a]].buffer = a
      BY <1>1, LiveBlocks
    <3>3. s.base = a /\ s.size = block[allocated_blocks[a]].size
      BY <3>1 DEF MemoryAt
    <3> QED BY <2>1, <3>2, <3>3
  <2>3. CASE s \in Pending
    <3>1. op.todo = {}
      BY <1>1 DEF PlainInv
    <3>2. PICK i \in DOMAIN dpcpp_events :
            s = WorkOn(block, dpcpp_events[i].block, dpcpp_events[i].queue)
      BY <2>3, <3>1, PendingElements
    <3>3. dpcpp_events[i].block \in DOMAIN block /\ dpcpp_events[i].block # op.block
      BY <1>1, EventBlocks
    <3>4. s.base = block[dpcpp_events[i].block].buffer /\ s.size = block[dpcpp_events[i].block].size
      BY <3>2 DEF WorkOn
    <3> QED BY <2>1, <3>3, <3>4
  <2> QED BY <2>2, <2>3
<1>11. Live' = Live \cup {r}
  <2>1. /\ block'[id].buffer \notin DOMAIN allocated_blocks
        /\ DOMAIN allocated_blocks' = DOMAIN allocated_blocks \cup {block'[id].buffer}
        /\ allocated_blocks'[block'[id].buffer] = id
        /\ \A a \in DOMAIN allocated_blocks : allocated_blocks'[a] = allocated_blocks[a]
    <3>1. ASSUME NEW a \in DOMAIN allocated_blocks PROVE a # block'[id].buffer
      BY <1>1, <1>9, LiveBlocks
    <3> QED BY <1>3, <3>1
  <2>2. MemoryAt(block', allocated_blocks', block'[id].buffer) = r
    BY <1>3, <2>1 DEF MemoryAt
  <2>3. ASSUME NEW a \in DOMAIN allocated_blocks
        PROVE  MemoryAt(block', allocated_blocks', a) = MemoryAt(block, allocated_blocks, a)
    <3>1. Steady(allocated_blocks[a])
      BY <1>1, <1>2, LiveBlocks
    <3> QED BY <2>1, <3>1 DEF MemoryAt, Steady
  <2> HIDE DEF r
  <2>4. \A s : s \in Live' <=> s \in Live \/ s = r
    BY <2>1, <2>2, <2>3, LiveElements
  <2> QED BY <2>4
<1>12. Pending' = Pending
  <2>1. \A i \in DOMAIN dpcpp_events : Steady(dpcpp_events[i].block)
    BY <1>1, <1>2, EventBlocks
  <2>2. op.todo = {} /\ op'.todo = {}
    BY <1>1 DEF PlainInv, Idle
  <2> QED BY <1>1, <2>1, <2>2, PendingSame
<1>13. Abstract!Grant(r)
  <2>1. r.queue = Request.queue /\ r.size >= Request.size /\ r.uses = {}
    BY <1>6, <1>7
  <2> HIDE DEF r
  <2> QED BY <1>7, <1>8, <1>10, <1>11, <1>12, <2>1 DEF Abstract!Grant
<1> HIDE DEF r
<1>14. r \in Live'
  BY <1>11
<1> QED BY <1>5, <1>13, <1>14 DEF Abstract!Next
\* Taking a key out of allocated_blocks takes its memory out of the live memory.
LEMMA LiveWithout ==
  ASSUME TypeOK, Safe, NEW buffer \in DOMAIN allocated_blocks,
         allocated_blocks' = [a \in DOMAIN allocated_blocks \ {buffer} |-> allocated_blocks[a]],
         \A x \in DOMAIN block :
           block[x].allocated /\ x # allocated_blocks[buffer] => Steady(x)
  PROVE  /\ MemoryAt(block, allocated_blocks, buffer) \in Live
         /\ Live' = Live \ {MemoryAt(block, allocated_blocks, buffer)}
<1> DEFINE r == MemoryAt(block, allocated_blocks, buffer)
<1>1. /\ DOMAIN allocated_blocks' = DOMAIN allocated_blocks \ {buffer}
      /\ \A a \in DOMAIN allocated_blocks' : allocated_blocks'[a] = allocated_blocks[a]
  OBVIOUS
<1>2. \A a \in DOMAIN allocated_blocks : MemoryAt(block, allocated_blocks, a).base = a
  BY DEF MemoryAt
<1>3. \A a \in DOMAIN allocated_blocks' :
        MemoryAt(block', allocated_blocks', a) = MemoryAt(block, allocated_blocks, a)
  <2> SUFFICES ASSUME NEW a \in DOMAIN allocated_blocks'
      PROVE  MemoryAt(block', allocated_blocks', a) = MemoryAt(block, allocated_blocks, a)
    OBVIOUS
  <2>1. a \in DOMAIN allocated_blocks /\ a # buffer
    BY <1>1
  <2>2. allocated_blocks[a] # allocated_blocks[buffer]
    BY <2>1, LiveBlocks
  <2>3. Steady(allocated_blocks[a])
    BY <2>1, <2>2, LiveBlocks
  <2> QED BY <1>1, <2>3 DEF MemoryAt, Steady
<1> HIDE DEF r
<1>4. r \in Live /\ r.base = buffer
  BY <1>2, LiveElements DEF r
<1>5. \A s : s \in Live' <=> s \in Live /\ s # r
  <2>1. \A a \in DOMAIN allocated_blocks :
          MemoryAt(block, allocated_blocks, a) = r <=> a = buffer
    BY <1>2, <1>4 DEF r
  <2> QED BY <1>1, <1>3, <2>1, LiveElements
<1> QED BY <1>4, <1>5 DEF r

\* free: the uses of other queues become pending work.
LEMMA GiveStep ==
  ASSUME TypeOK, Safe, PlainInv, NEW buffer \in DOMAIN allocated_blocks,
         Free(buffer) \/ FreeUsed(buffer)
  PROVE  Abstract!Next
<1> DEFINE b == allocated_blocks[buffer]
           r == MemoryAt(block, allocated_blocks, buffer)
           given == {[base |-> r.base, size |-> r.size, queue |-> q] : q \in r.uses}
<1>1. /\ op.pc = "idle" /\ dpcpp_events' = dpcpp_events
      /\ allocated_blocks' = [a \in DOMAIN allocated_blocks \ {buffer} |-> allocated_blocks[a]]
  BY DEF Free, FreeUsed, At
<1>2. \A x \in DOMAIN block :
        (block[x].allocated \/ block[x].event_cnt > 0) /\ x # b => Steady(x)
  BY FreePlain, FreeUsedPlain
<1>3. b \in DOMAIN block /\ block[b].allocated /\ block[b].buffer = buffer
  BY LiveBlocks
<1>4. r \in Live /\ Live' = Live \ {r}
  BY <1>1, <1>2, LiveWithout
<1>5. r.base = block[b].buffer /\ r.size = block[b].size /\ r.uses = block[b].queue_uses
  BY <1>3 DEF MemoryAt
<1> HIDE DEF r
<1>6. op.todo = {}
  BY <1>1 DEF PlainInv
<1>7. \A i \in DOMAIN dpcpp_events : Steady(dpcpp_events[i].block)
  <2>1. \A i \in DOMAIN dpcpp_events : dpcpp_events[i].block # b
    BY <1>3, EventBlocks
  <2> QED BY <1>2, <2>1, EventBlocks
<1>8. Request = NULL
  BY <1>1 DEF Request
<1>9. Request' = NULL /\ Pending' = Pending \cup given
  <2>1. CASE Free(buffer)
    <3>1. op' = op /\ block[b].queue_uses = {}
      BY <2>1 DEF Free
    <3>2. Pending' = Pending
      BY <1>1, <1>6, <1>7, <3>1, PendingSame
    <3>3. given = {}
      BY <1>5, <3>1
    <3>4. Request' = NULL
      BY <1>1, <3>1 DEF Request
    <3> QED BY <3>2, <3>3, <3>4
  <2>2. CASE FreeUsed(buffer)
    <3>1. /\ op'.block = b /\ op'.todo = block[b].queue_uses /\ op'.pc = "insert_events"
          /\ block'[b].buffer = block[b].buffer /\ block'[b].size = block[b].size
      BY <2>2, FreeUsedPlain
    <3>2. Request' = NULL
      BY <3>1 DEF Request
    <3>3. \A w : w \in Pending <=>
            \E i \in DOMAIN dpcpp_events :
              /\ ~dpcpp_events[i].done
              /\ w = WorkOn(block, dpcpp_events[i].block, dpcpp_events[i].queue)
      BY <1>6, PendingElements
    <3>4. \A w : w \in Pending' <=>
            \/ \E i \in DOMAIN dpcpp_events :
                 /\ ~dpcpp_events[i].done
                 /\ w = WorkOn(block', dpcpp_events[i].block, dpcpp_events[i].queue)
            \/ \E q \in block[b].queue_uses : w = WorkOn(block', b, q)
      BY <1>1, <3>1, PendingElements
    <3>5. \A i \in DOMAIN dpcpp_events : \A q :
            WorkOn(block', dpcpp_events[i].block, q) = WorkOn(block, dpcpp_events[i].block, q)
      BY <1>7 DEF WorkOn, Steady
    <3>6. \A w : w \in given <=> \E q \in block[b].queue_uses : w = WorkOn(block', b, q)
      BY <1>5, <3>1 DEF WorkOn
    <3> HIDE DEF given
    <3>7. \A w : w \in Pending' <=> w \in Pending \/ w \in given
      BY <3>3, <3>4, <3>5, <3>6
    <3> QED BY <3>2, <3>7
  <2> QED BY <2>1, <2>2
<1>10. Abstract!Give(r)
  BY <1>4, <1>8, <1>9 DEF Abstract!Give
<1> QED BY <1>4, <1>10 DEF Abstract!Next

\* recordQueue: another queue uses the memory.
LEMMA UseStep ==
  ASSUME TypeOK, Safe, PlainInv, NEW buffer \in DOMAIN allocated_blocks, NEW q \in Queue,
         RecordQueue(buffer, q)
  PROVE  Abstract!Next
<1> DEFINE b == allocated_blocks[buffer]
           r == MemoryAt(block, allocated_blocks, buffer)
           s == [r EXCEPT !.uses = r.uses \cup {q}]
<1>1. /\ op.pc = "idle" /\ UNCHANGED <<dpcpp_events, allocated_blocks, op>>
      /\ q # block[b].queue
  BY DEF RecordQueue, At
<1>2. /\ \A x \in DOMAIN block : x # b => Steady(x)
      /\ block'[b] = [block[b] EXCEPT !.queue_uses = @ \cup {q}]
  BY RecordQueuePlain
<1>3. b \in DOMAIN block /\ block[b].allocated /\ block[b] \in Block
  BY LiveBlocks DEF TypeOK
<1>4. /\ block'[b].queue_uses = block[b].queue_uses \cup {q}
      /\ block'[b].size = block[b].size /\ block'[b].queue = block[b].queue
  BY <1>2, <1>3 DEF Block
<1>5. \A a \in DOMAIN allocated_blocks : a # buffer =>
        /\ MemoryAt(block', allocated_blocks, a) = MemoryAt(block, allocated_blocks, a)
        /\ MemoryAt(block, allocated_blocks, a) # r
  <2> SUFFICES ASSUME NEW a \in DOMAIN allocated_blocks, a # buffer
      PROVE  /\ MemoryAt(block', allocated_blocks, a) = MemoryAt(block, allocated_blocks, a)
             /\ MemoryAt(block, allocated_blocks, a) # r
    OBVIOUS
  <2>1. allocated_blocks[a] # b
    BY LiveBlocks
  <2>2. Steady(allocated_blocks[a])
    BY <1>2, <2>1, LiveBlocks
  <2>3. MemoryAt(block, allocated_blocks, a).base = a /\ r.base = buffer
    BY DEF MemoryAt
  <2> HIDE DEF r
  <2>4. MemoryAt(block', allocated_blocks, a) = MemoryAt(block, allocated_blocks, a)
    BY <2>2 DEF MemoryAt, Steady
  <2> QED BY <2>3, <2>4
<1>6. MemoryAt(block', allocated_blocks, buffer) = s
  BY <1>4 DEF MemoryAt
<1>7. r \in Live /\ r.queue = block[b].queue
  BY LiveElements DEF MemoryAt
<1> HIDE DEF r
<1>8. Live' = (Live \ {r}) \cup {s}
  <2> HIDE DEF s
  <2>1. \A m : m \in Live' <=> \E a \in DOMAIN allocated_blocks : m = MemoryAt(block', allocated_blocks, a)
    BY <1>1, LiveElements
  <2>2. \A m : m \in Live' <=> (m \in Live /\ m # r) \/ m = s
    BY <1>5, <1>6, <2>1, LiveElements DEF r
  <2> QED BY <2>2
<1>9. Pending' = Pending
  <2>1. \A i \in DOMAIN dpcpp_events : Steady(dpcpp_events[i].block)
    BY <1>2, <1>3, EventBlocks
  <2>2. op.todo = {} /\ op'.todo = {}
    BY <1>1 DEF PlainInv
  <2> QED BY <1>1, <2>1, <2>2, PendingSame
<1>10. Request = NULL /\ Request' = NULL
  BY <1>1 DEF Request
<1>11. Abstract!Use(r, q) /\ q \in Queue \ {r.queue}
  BY <1>1, <1>7, <1>8, <1>9, <1>10 DEF Abstract!Use
<1> QED BY <1>7, <1>11 DEF Abstract!Next

\* A program that records no graphs sees an AbstractAllocator: the memory
\* malloc returns fits the request and is apart from all memory in use and all
\* memory on which another queue may still work.
THEOREM AllocatorImplementsAbstract == PlainSpec => ImplementsAbstract
<1>1. Init => Abstract!Init
  <2> SUFFICES ASSUME Init PROVE Abstract!Init
    OBVIOUS
  <2>1. Request = NULL /\ op.todo = {}
    BY DEF Init, Request, Idle
  <2>2. Live = {}
    BY DEF Init, Live
  <2>3. Pending = {}
    BY <2>1 DEF Init, Pending
  <2> QED BY <2>1, <2>2, <2>3 DEF Abstract!Init
<1>2. ASSUME IInv, PlainInv, IInv', PlainInv', [PlainNext]_vars
      PROVE  [Abstract!Next]_(Abstract!vars)
  <2>1. TypeOK /\ Safe /\ TypeOK' /\ Safe'
    BY <1>2 DEF IInv, PlainInv
  <2>2. CASE UNCHANGED vars
    BY <2>2 DEF vars, Abstract!vars, Request, Live, Pending
  <2>3. CASE \/ FindFreeBlock \/ FindNothing \/ AllocSegment \/ AllocFails
             \/ FreeSegment \/ FreeCachedBlocks \/ EmptyCache \/ EmptyCacheEnd
             \/ ProcessEventsEnd /\ ~OverStatefulLimit
    BY <1>2, <2>1, <2>3, InternalSteps
  <2>4. CASE \/ \E c \in CallSite, n \in ASize : Malloc(c[1], c[2], c[3], n)
             \/ ProcessEventsEnd /\ OverStatefulLimit
             \/ OutOfMemory
    BY <1>2, <2>1, <2>4, RequestSteps
  <2>5. CASE ProcessEvent \/ SynchronizeEvent
    BY <1>2, <2>1, <2>5, EventSteps
  <2>6. CASE SynchronizeEnd \/ EventComplete \/ InsertEvent
    BY <1>2, <2>1, <2>6, DoneSteps, CompleteSteps, InsertSteps
  <2>7. CASE Split
    BY <1>2, <2>1, <2>7, GrantStep
  <2>8. ASSUME NEW a \in DOMAIN allocated_blocks, Free(a) \/ FreeUsed(a) PROVE Abstract!Next
    BY <1>2, <2>1, <2>8, GiveStep
  <2>9. ASSUME NEW a \in DOMAIN allocated_blocks, NEW q \in Queue, RecordQueue(a, q)
        PROVE  Abstract!Next
    BY <1>2, <2>1, <2>9, UseStep
  <2> QED
    BY <1>2, <2>2, <2>3, <2>4, <2>5, <2>6, <2>7, <2>8, <2>9
       DEF PlainNext, Call, OpStep, MallocStep
<1> QED BY <1>1, <1>2, PlainInvariant, PTL DEF PlainSpec, ImplementsAbstract, Abstract!Spec
=============================================================================
