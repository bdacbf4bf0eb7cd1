------------------- MODULE CachingDeviceAllocatorProofs -------------------
EXTENDS CachingDeviceAllocator, FiniteSetTheorems, TLAPS

\* A set of Block objects.
BlockMap(blocks) ==
  DOMAIN blocks \subseteq BlockId /\ blocks \in [DOMAIN blocks -> Block]

\* The blocks tile the segments.
Tiling(blocks, segs) ==
  Linked(blocks) /\ InSegments(blocks, segs) /\ Apart(blocks) /\ SegmentsApart(segs)

\* m consists of blocks of `blocks` whose bookkeeping is untouched and that,
\* except for dst, kept their range.
Kept(blocks, m, dst) ==
  /\ DOMAIN m \subseteq DOMAIN blocks
  /\ \A x \in DOMAIN m :
       /\ m[x].device = blocks[x].device
       /\ m[x].queue = blocks[x].queue
       /\ m[x].queue_uses = blocks[x].queue_uses
       /\ m[x].pool_type = blocks[x].pool_type
       /\ m[x].allocated = blocks[x].allocated
       /\ m[x].event_cnt = blocks[x].event_cnt
       /\ m[x].owner = blocks[x].owner
       /\ x # dst => m[x].buffer = blocks[x].buffer /\ m[x].size = blocks[x].size

-----------------------------------------------------------------------------
\* Two blocks linked by m_next lie in the same segment.
LEMMA SameSegment ==
  ASSUME NEW blocks, BlockMap(blocks), NEW segs \in SUBSET Segment,
         Tiling(blocks, segs),
         NEW b \in DOMAIN blocks, blocks[b].next # NULL,
         NEW s \in segs, Within(blocks[b], s),
         NEW t \in segs, Within(blocks[blocks[b].next], t)
  PROVE  s = t
<1> DEFINE n == blocks[b].next
<1>1. n \in DOMAIN blocks /\ blocks[n].buffer = blocks[b].buffer + blocks[b].size
      /\ blocks[n].size > 0 /\ blocks[b].size > 0
  BY DEF Tiling, Linked
<1>2. /\ blocks[b].buffer \in Nat /\ blocks[b].size \in Nat
      /\ blocks[n].buffer \in Nat /\ blocks[n].size \in Nat
  BY <1>1 DEF BlockMap, Block
<1>3. s.base \in Nat /\ s.size \in Nat /\ t.base \in Nat /\ t.size \in Nat
  BY DEF Segment
<1>4. Overlap(s.base, s.size, t.base, t.size)
  BY <1>1, <1>2, <1>3 DEF Within, Overlap
<1> QED
  BY <1>4 DEF Tiling, SegmentsApart

\* try_merge_blocks with the m_next neighbour.
LEMMA MergeNext ==
  ASSUME NEW blocks, BlockMap(blocks), NEW segs \in SUBSET Segment,
         Tiling(blocks, segs),
         NEW d \in DOMAIN blocks, NEW src, src = blocks[d].next,
         Mergeable(blocks, src)
  PROVE  LET m == TryMerge(blocks, d, src)
         IN  /\ DOMAIN m = DOMAIN blocks \ {src}
             /\ d # src /\ src \in DOMAIN blocks
             /\ BlockMap(m) /\ Tiling(m, segs) /\ Kept(blocks, m, d)
             /\ m[d].prev = blocks[d].prev
<1> DEFINE m == TryMerge(blocks, d, src)
           o == blocks[src].next
<1>1. /\ src # NULL /\ src \in DOMAIN blocks /\ blocks[src].prev = d
      /\ blocks[src].buffer = blocks[d].buffer + blocks[d].size
      /\ blocks[src].size > 0 /\ blocks[d].size > 0
      /\ blocks[src].device = blocks[d].device
      /\ blocks[src].queue = blocks[d].queue
      /\ blocks[src].pool_type = blocks[d].pool_type
  BY DEF Tiling, Linked, Mergeable
<1>2. \A x \in DOMAIN blocks : blocks[x] \in Block
  BY DEF BlockMap
<1>3. \A x \in DOMAIN blocks : blocks[x].buffer \in Nat /\ blocks[x].size \in Nat
  BY <1>2 DEF Block
<1>4. d # src
  BY <1>1, <1>3
<1>5. o # NULL => /\ o \in DOMAIN blocks /\ blocks[o].prev = src
                  /\ blocks[o].buffer = blocks[src].buffer + blocks[src].size
                  /\ o # src /\ o # d
                  /\ blocks[o].device = blocks[src].device
                  /\ blocks[o].queue = blocks[src].queue
                  /\ blocks[o].pool_type = blocks[src].pool_type
  BY <1>1, <1>3 DEF Tiling, Linked
<1>6. blocks[d].prev # src
  <2>1. SUFFICES ASSUME blocks[d].prev = src PROVE FALSE
    OBVIOUS
  <2>2. blocks[src].next = d
    BY <1>1, <2>1 DEF Tiling, Linked
  <2> QED
    BY <1>5, <2>2, <1>1, NullAssumption DEF BlockMap
<1>7. m = [x \in DOMAIN blocks \ {src} |->
             IF x = d THEN [blocks[x] EXCEPT !.size = blocks[d].size + blocks[src].size,
                                             !.next = o]
             ELSE IF x = o THEN [blocks[x] EXCEPT !.prev = d]
             ELSE blocks[x]]
  BY <1>6 DEF TryMerge
<1> HIDE DEF m
<1>8. DOMAIN m = DOMAIN blocks \ {src}
  BY <1>7
<1>9. /\ d \in DOMAIN m
      /\ m[d] = [blocks[d] EXCEPT !.size = blocks[d].size + blocks[src].size, !.next = o]
  BY <1>4, <1>7
<1>10. o # NULL => o \in DOMAIN m /\ m[o] = [blocks[o] EXCEPT !.prev = d]
  BY <1>5, <1>7
<1>11. \A x \in DOMAIN m : x # d /\ x # o => m[x] = blocks[x]
  BY <1>7
<1>12. BlockMap(m)
  <2>a. blocks[d] \in Block /\ blocks[src] \in Block
    BY <1>1, <1>2
  <2>b. blocks[d].size + blocks[src].size \in Nat /\ o \in BlockId \cup {NULL}
    BY <2>a DEF Block
  <2>1. m[d] \in Block
    BY <2>a, <2>b, <1>9 DEF Block
  <2>2. o # NULL => m[o] \in Block
    BY <1>2, <1>5, <1>10 DEF Block, BlockMap
  <2>3. \A x \in DOMAIN m : m[x] \in Block
    BY <2>1, <2>2, <1>2, <1>8, <1>11, <1>10, <1>5, NullAssumption DEF BlockMap
  <2>4. m = [x \in DOMAIN m |-> m[x]]
    BY <1>7
  <2> QED
    BY <2>3, <2>4, <1>8 DEF BlockMap
<1>13. /\ m[d].size = blocks[d].size + blocks[src].size
       /\ m[d].buffer = blocks[d].buffer
       /\ m[d].next = o
       /\ m[d].prev = blocks[d].prev
       /\ m[d].device = blocks[d].device
       /\ m[d].queue = blocks[d].queue
       /\ m[d].queue_uses = blocks[d].queue_uses
       /\ m[d].pool_type = blocks[d].pool_type
       /\ m[d].allocated = blocks[d].allocated
       /\ m[d].event_cnt = blocks[d].event_cnt
       /\ m[d].owner = blocks[d].owner
  BY <1>9, <1>2 DEF Block
<1>14. o # NULL =>
       /\ m[o].size = blocks[o].size
       /\ m[o].buffer = blocks[o].buffer
       /\ m[o].next = blocks[o].next
       /\ m[o].prev = d
       /\ m[o].device = blocks[o].device
       /\ m[o].queue = blocks[o].queue
       /\ m[o].queue_uses = blocks[o].queue_uses
       /\ m[o].pool_type = blocks[o].pool_type
       /\ m[o].allocated = blocks[o].allocated
       /\ m[o].event_cnt = blocks[o].event_cnt
       /\ m[o].owner = blocks[o].owner
  BY <1>10, <1>5, <1>2 DEF Block
<1>15. NULL \notin DOMAIN blocks
  BY NullAssumption DEF BlockMap
<1>16. Kept(blocks, m, d)
  <2>1. ASSUME NEW x \in DOMAIN m, x # d, x # o PROVE m[x] = blocks[x]
    BY <2>1, <1>11
  <2> QED
    BY <1>8, <1>13, <1>14, <1>15, <2>1 DEF Kept
<1>17. Linked(m)
  <2> SUFFICES ASSUME NEW x \in DOMAIN m
      PROVE  /\ m[x].size > 0
             /\ m[x].next # NULL =>
                 /\ m[x].next \in DOMAIN m
                 /\ m[m[x].next].prev = x
                 /\ m[m[x].next].buffer = m[x].buffer + m[x].size
                 /\ m[m[x].next].device = m[x].device
                 /\ m[m[x].next].queue = m[x].queue
                 /\ m[m[x].next].pool_type = m[x].pool_type
             /\ m[x].prev # NULL => m[x].prev \in DOMAIN m /\ m[m[x].prev].next = x
    BY DEF Linked
  <2>0. x \in DOMAIN blocks /\ x # src
    BY <1>8
  <2>1. CASE x = d
    <3>1. m[x].size > 0
      BY <2>1, <1>13, <1>1, <1>3
    <3>2. m[x].next # NULL =>
                 /\ m[x].next \in DOMAIN m
                 /\ m[m[x].next].prev = x
                 /\ m[m[x].next].buffer = m[x].buffer + m[x].size
                 /\ m[m[x].next].device = m[x].device
                 /\ m[m[x].next].queue = m[x].queue
                 /\ m[m[x].next].pool_type = m[x].pool_type
      BY <2>1, <1>13, <1>14, <1>5, <1>10, <1>1, <1>3
    <3>3. m[x].prev # NULL => m[x].prev \in DOMAIN m /\ m[m[x].prev].next = x
      <4>1. m[x].prev # NULL => m[x].prev \in DOMAIN blocks /\ blocks[m[x].prev].next = x
        BY <2>1, <1>13 DEF Tiling, Linked
      <4>2. m[x].prev # NULL => m[x].prev # src
        BY <2>1, <1>13, <1>6
      <4> QED
        BY <4>1, <4>2, <1>8, <1>11, <1>13, <1>14, <1>5, <1>1, <1>4, <2>1
    <3> QED BY <3>1, <3>2, <3>3
  <2>2. CASE x # d
    <3>1. /\ m[x].size = blocks[x].size /\ m[x].buffer = blocks[x].buffer
          /\ m[x].device = blocks[x].device /\ m[x].queue = blocks[x].queue
          /\ m[x].pool_type = blocks[x].pool_type
          /\ m[x].next = blocks[x].next
          /\ m[x].prev = IF x = o THEN d ELSE blocks[x].prev
      BY <2>2, <1>11, <1>14, <1>15, <2>0
    <3>2. blocks[x].next # src
      BY <2>2, <1>1, <2>0 DEF Tiling, Linked
    <3>3. blocks[x].next = o => o = NULL
      BY <2>0, <1>5 DEF Tiling, Linked
    <3>4. m[x].next # NULL =>
                 /\ m[x].next \in DOMAIN m
                 /\ m[m[x].next].prev = x
                 /\ m[m[x].next].buffer = m[x].buffer + m[x].size
                 /\ m[m[x].next].device = m[x].device
                 /\ m[m[x].next].queue = m[x].queue
                 /\ m[m[x].next].pool_type = m[x].pool_type
      <4>1. SUFFICES ASSUME m[x].next # NULL PROVE
                 /\ m[x].next \in DOMAIN m
                 /\ m[m[x].next].prev = x
                 /\ m[m[x].next].buffer = m[x].buffer + m[x].size
                 /\ m[m[x].next].device = m[x].device
                 /\ m[m[x].next].queue = m[x].queue
                 /\ m[m[x].next].pool_type = m[x].pool_type
        OBVIOUS
      <4> DEFINE y == blocks[x].next
      <4>2. /\ y \in DOMAIN blocks /\ blocks[y].prev = x
            /\ blocks[y].buffer = blocks[x].buffer + blocks[x].size
            /\ blocks[y].device = blocks[x].device
            /\ blocks[y].queue = blocks[x].queue
            /\ blocks[y].pool_type = blocks[x].pool_type
        BY <4>1, <3>1, <2>0 DEF Tiling, Linked
      <4>3. y \in DOMAIN m /\ y # o
        BY <4>1, <4>2, <3>1, <3>2, <3>3, <1>8
      <4>4. CASE y = d
        BY <4>1, <4>2, <4>3, <4>4, <3>1, <1>13
      <4>5. CASE y # d
        BY <4>1, <4>2, <4>3, <4>5, <3>1, <1>11
      <4> QED BY <4>4, <4>5
    <3>5. m[x].prev # NULL => m[x].prev \in DOMAIN m /\ m[m[x].prev].next = x
      <4>1. CASE x = o
        BY <4>1, <3>1, <1>9, <1>13
      <4>2. CASE x # o
        <5>1. SUFFICES ASSUME blocks[x].prev # NULL
              PROVE blocks[x].prev \in DOMAIN m /\ m[blocks[x].prev].next = x
          BY <4>2, <3>1
        <5>2. blocks[x].prev \in DOMAIN blocks /\ blocks[blocks[x].prev].next = x
          BY <5>1, <2>0 DEF Tiling, Linked
        <5>3. blocks[x].prev # src /\ blocks[x].prev # d
          BY <5>2, <4>2, <2>0
        <5>4. blocks[x].prev \in DOMAIN m /\ blocks[x].prev # d
          BY <5>2, <5>3, <1>8
        <5>5. m[blocks[x].prev].next = blocks[blocks[x].prev].next
          BY <5>4, <1>11, <1>14, <5>1
        <5> QED BY <5>2, <5>4, <5>5
      <4> QED BY <4>1, <4>2
    <3>6. m[x].size > 0
      BY <3>1, <2>0 DEF Tiling, Linked
    <3> QED BY <3>4, <3>5, <3>6
  <2> QED BY <2>1, <2>2
<1>18. InSegments(m, segs)
  <2> SUFFICES ASSUME NEW x \in DOMAIN m
      PROVE  \E s \in segs : Within(m[x], s)
    BY DEF InSegments
  <2>0. x \in DOMAIN blocks /\ x # src
    BY <1>8
  <2>1. PICK s \in segs : Within(blocks[x], s)
    BY <2>0 DEF Tiling, InSegments
  <2>2. CASE x = d
    <3>1. PICK t \in segs : Within(blocks[src], t)
      BY <1>1 DEF Tiling, InSegments
    <3>2. s = t
      BY <2>2, <2>1, <3>1, <1>1, SameSegment
    <3>3. s.base \in Nat /\ s.size \in Nat
      BY DEF Segment
    <3>4. Within(m[d], s)
      BY <2>1, <2>2, <3>1, <3>2, <3>3, <1>1, <1>3, <1>13 DEF Within
    <3> QED BY <3>4, <2>2
  <2>3. CASE x # d /\ x = o
    <3>1. blocks[x].prev # NULL
      BY <2>3, <2>0, <1>5, <1>15, <1>1
    <3>2. Within(m[x], s)
      BY <2>1, <2>3, <2>0, <3>1, <1>14, <1>15, <1>9, <1>8 DEF Within
    <3> QED BY <3>2
  <2>4. CASE x # d /\ x # o
    BY <2>4, <2>1, <1>11
  <2> QED BY <2>2, <2>3, <2>4
<1>19. Apart(m)
  <2> SUFFICES ASSUME NEW x \in DOMAIN m, NEW y \in DOMAIN m, x # y
      PROVE  ~Overlap(m[x].buffer, m[x].size, m[y].buffer, m[y].size)
    BY DEF Apart
  <2>0. x \in DOMAIN blocks /\ x # src /\ y \in DOMAIN blocks /\ y # src
    BY <1>8
  <2>1. /\ ~Overlap(blocks[x].buffer, blocks[x].size, blocks[y].buffer, blocks[y].size)
        /\ ~Overlap(blocks[src].buffer, blocks[src].size, blocks[y].buffer, blocks[y].size)
        /\ ~Overlap(blocks[x].buffer, blocks[x].size, blocks[src].buffer, blocks[src].size)
    BY <2>0, <1>1 DEF Tiling, Apart
  <2>2. /\ x # d => m[x].buffer = blocks[x].buffer /\ m[x].size = blocks[x].size
        /\ y # d => m[y].buffer = blocks[y].buffer /\ m[y].size = blocks[y].size
    BY <1>16 DEF Kept
  <2>3. /\ blocks[x].buffer \in Nat /\ blocks[x].size \in Nat
        /\ blocks[y].buffer \in Nat /\ blocks[y].size \in Nat
        /\ blocks[src].buffer \in Nat /\ blocks[src].size \in Nat
        /\ blocks[x].size > 0 /\ blocks[y].size > 0
    BY <1>3, <2>0, <1>1 DEF Tiling, Linked
  <2>4. CASE x = d
    BY <2>4, <2>1, <2>2, <2>3, <1>13, <1>1 DEF Overlap
  <2>5. CASE y = d
    BY <2>5, <2>1, <2>2, <2>3, <1>13, <1>1 DEF Overlap
  <2>6. CASE x # d /\ y # d
    BY <2>6, <2>1, <2>2
  <2> QED BY <2>4, <2>5, <2>6
<1> QED
  BY <1>1, <1>4, <1>8, <1>12, <1>13, <1>16, <1>17, <1>18, <1>19 DEF Tiling, m

\* try_merge_blocks with the m_prev neighbour.
LEMMA MergePrev ==
  ASSUME NEW blocks, BlockMap(blocks), NEW segs \in SUBSET Segment,
         Tiling(blocks, segs),
         NEW d \in DOMAIN blocks, NEW src, src = blocks[d].prev,
         Mergeable(blocks, src)
  PROVE  LET m == TryMerge(blocks, d, src)
         IN  /\ DOMAIN m = DOMAIN blocks \ {src}
             /\ d # src /\ src \in DOMAIN blocks
             /\ BlockMap(m) /\ Tiling(m, segs) /\ Kept(blocks, m, d)
             /\ m[d].next = blocks[d].next
<1> DEFINE m == TryMerge(blocks, d, src)
           o == blocks[src].prev
<1>1. /\ src # NULL /\ src \in DOMAIN blocks /\ blocks[src].next = d
      /\ blocks[d].buffer = blocks[src].buffer + blocks[src].size
      /\ blocks[src].size > 0 /\ blocks[d].size > 0
      /\ blocks[src].device = blocks[d].device
      /\ blocks[src].queue = blocks[d].queue
      /\ blocks[src].pool_type = blocks[d].pool_type
  <2>1. src # NULL /\ src \in DOMAIN blocks /\ blocks[src].next = d
    BY DEF Tiling, Linked, Mergeable
  <2>2. d # NULL
    BY NullAssumption DEF BlockMap
  <2> QED
    BY <2>1, <2>2 DEF Tiling, Linked
<1>2. \A x \in DOMAIN blocks : blocks[x] \in Block
  BY DEF BlockMap
<1>3. \A x \in DOMAIN blocks : blocks[x].buffer \in Nat /\ blocks[x].size \in Nat
  BY <1>2 DEF Block
<1>4. d # src
  BY <1>1, <1>3
<1>5. o # NULL => /\ o \in DOMAIN blocks /\ blocks[o].next = src
                  /\ blocks[src].buffer = blocks[o].buffer + blocks[o].size
                  /\ o # src /\ o # d
                  /\ blocks[o].device = blocks[src].device
                  /\ blocks[o].queue = blocks[src].queue
                  /\ blocks[o].pool_type = blocks[src].pool_type
  BY <1>1, <1>3 DEF Tiling, Linked
<1>6. blocks[d].next # src
  <2>1. SUFFICES ASSUME blocks[d].next = src PROVE FALSE
    OBVIOUS
  <2>2. blocks[src].prev = d
    BY <1>1, <2>1 DEF Tiling, Linked
  <2> QED
    BY <1>5, <2>2, <1>1, NullAssumption DEF BlockMap
<1>7. m = [x \in DOMAIN blocks \ {src} |->
             IF x = d THEN [blocks[x] EXCEPT !.size = blocks[d].size + blocks[src].size,
                                             !.prev = o,
                                             !.buffer = blocks[src].buffer]
             ELSE IF x = o THEN [blocks[x] EXCEPT !.next = d]
             ELSE blocks[x]]
  BY DEF TryMerge
<1> HIDE DEF m
<1>8. DOMAIN m = DOMAIN blocks \ {src}
  BY <1>7
<1>9. /\ d \in DOMAIN m
      /\ m[d] = [blocks[d] EXCEPT !.size = blocks[d].size + blocks[src].size, !.prev = o,
                              !.buffer = blocks[src].buffer]
  BY <1>4, <1>7
<1>10. o # NULL => o \in DOMAIN m /\ m[o] = [blocks[o] EXCEPT !.next = d]
  BY <1>5, <1>7
<1>11. \A x \in DOMAIN m : x # d /\ x # o => m[x] = blocks[x]
  BY <1>7
<1>12. BlockMap(m)
  <2>a. blocks[d] \in Block /\ blocks[src] \in Block
    BY <1>1, <1>2
  <2>b. blocks[d].size + blocks[src].size \in Nat /\ o \in BlockId \cup {NULL}
        /\ blocks[src].buffer \in Nat
    BY <2>a DEF Block
  <2>1. m[d] \in Block
    BY <2>a, <2>b, <1>9 DEF Block
  <2>2. o # NULL => m[o] \in Block
    BY <1>2, <1>5, <1>10 DEF Block, BlockMap
  <2>3. \A x \in DOMAIN m : m[x] \in Block
    BY <2>1, <2>2, <1>2, <1>8, <1>11, <1>10, <1>5, NullAssumption DEF BlockMap
  <2>4. m = [x \in DOMAIN m |-> m[x]]
    BY <1>7
  <2> QED
    BY <2>3, <2>4, <1>8 DEF BlockMap
<1>13. /\ m[d].size = blocks[d].size + blocks[src].size
       /\ m[d].buffer = blocks[src].buffer
       /\ m[d].prev = o
       /\ m[d].next = blocks[d].next
       /\ m[d].device = blocks[d].device
       /\ m[d].queue = blocks[d].queue
       /\ m[d].queue_uses = blocks[d].queue_uses
       /\ m[d].pool_type = blocks[d].pool_type
       /\ m[d].allocated = blocks[d].allocated
       /\ m[d].event_cnt = blocks[d].event_cnt
       /\ m[d].owner = blocks[d].owner
  BY <1>9, <1>2 DEF Block
<1>14. o # NULL =>
       /\ m[o].size = blocks[o].size
       /\ m[o].buffer = blocks[o].buffer
       /\ m[o].prev = blocks[o].prev
       /\ m[o].next = d
       /\ m[o].device = blocks[o].device
       /\ m[o].queue = blocks[o].queue
       /\ m[o].queue_uses = blocks[o].queue_uses
       /\ m[o].pool_type = blocks[o].pool_type
       /\ m[o].allocated = blocks[o].allocated
       /\ m[o].event_cnt = blocks[o].event_cnt
       /\ m[o].owner = blocks[o].owner
  BY <1>10, <1>5, <1>2 DEF Block
<1>15. NULL \notin DOMAIN blocks
  BY NullAssumption DEF BlockMap
<1>16. Kept(blocks, m, d)
  <2>1. ASSUME NEW x \in DOMAIN m, x # d, x # o PROVE m[x] = blocks[x]
    BY <2>1, <1>11
  <2> QED
    BY <1>8, <1>13, <1>14, <1>15, <2>1 DEF Kept
<1>17. Linked(m)
  <2> SUFFICES ASSUME NEW x \in DOMAIN m
      PROVE  /\ m[x].size > 0
             /\ m[x].next # NULL =>
                 /\ m[x].next \in DOMAIN m
                 /\ m[m[x].next].prev = x
                 /\ m[m[x].next].buffer = m[x].buffer + m[x].size
                 /\ m[m[x].next].device = m[x].device
                 /\ m[m[x].next].queue = m[x].queue
                 /\ m[m[x].next].pool_type = m[x].pool_type
             /\ m[x].prev # NULL => m[x].prev \in DOMAIN m /\ m[m[x].prev].next = x
    BY DEF Linked
  <2>0. x \in DOMAIN blocks /\ x # src
    BY <1>8
  <2>1. CASE x = d
    <3>1. m[x].size > 0
      BY <2>1, <1>13, <1>1, <1>3
    <3>2. m[x].prev # NULL => m[x].prev \in DOMAIN m /\ m[m[x].prev].next = x
      BY <2>1, <1>13, <1>14, <1>5, <1>10
    <3>3. m[x].next # NULL =>
                 /\ m[x].next \in DOMAIN m
                 /\ m[m[x].next].prev = x
                 /\ m[m[x].next].buffer = m[x].buffer + m[x].size
                 /\ m[m[x].next].device = m[x].device
                 /\ m[m[x].next].queue = m[x].queue
                 /\ m[m[x].next].pool_type = m[x].pool_type
      <4>1. SUFFICES ASSUME blocks[d].next # NULL PROVE
                 /\ m[x].next \in DOMAIN m
                 /\ m[m[x].next].prev = x
                 /\ m[m[x].next].buffer = m[x].buffer + m[x].size
                 /\ m[m[x].next].device = m[x].device
                 /\ m[m[x].next].queue = m[x].queue
                 /\ m[m[x].next].pool_type = m[x].pool_type
        BY <2>1, <1>13
      <4> DEFINE y == blocks[d].next
      <4>2. /\ y \in DOMAIN blocks /\ blocks[y].prev = d
            /\ blocks[y].buffer = blocks[d].buffer + blocks[d].size
            /\ blocks[y].device = blocks[d].device
            /\ blocks[y].queue = blocks[d].queue
            /\ blocks[y].pool_type = blocks[d].pool_type
            /\ blocks[y].size > 0
        BY <4>1 DEF Tiling, Linked
      <4>3. y \in DOMAIN m /\ y # d
        BY <4>2, <1>3, <1>6, <1>8, <1>1
      <4>4. y # o
        BY <4>2, <4>1, <1>5, <1>1, <1>3
      <4>5. m[y] = blocks[y]
        BY <4>3, <4>4, <1>11
      <4>6. m[x].buffer + m[x].size = blocks[d].buffer + blocks[d].size
        BY <2>1, <1>13, <1>1, <1>3
      <4> QED
        BY <4>2, <4>3, <4>5, <4>6, <1>13, <2>1
    <3> QED BY <3>1, <3>2, <3>3
  <2>2. CASE x # d
    <3>1. /\ m[x].size = blocks[x].size /\ m[x].buffer = blocks[x].buffer
          /\ m[x].device = blocks[x].device /\ m[x].queue = blocks[x].queue
          /\ m[x].pool_type = blocks[x].pool_type
          /\ m[x].prev = blocks[x].prev
          /\ m[x].next = IF x = o THEN d ELSE blocks[x].next
      BY <2>2, <1>11, <1>14, <1>15, <2>0
    <3>2. blocks[x].prev # src
      BY <2>2, <1>1, <2>0 DEF Tiling, Linked
    <3>3. blocks[x].prev = o => o = NULL
      BY <2>0, <1>5 DEF Tiling, Linked
    <3>4. m[x].prev # NULL => m[x].prev \in DOMAIN m /\ m[m[x].prev].next = x
      <4>1. SUFFICES ASSUME blocks[x].prev # NULL
            PROVE blocks[x].prev \in DOMAIN m /\ m[blocks[x].prev].next = x
        BY <3>1
      <4> DEFINE y == blocks[x].prev
      <4>2. y \in DOMAIN blocks /\ blocks[y].next = x
        BY <4>1, <2>0 DEF Tiling, Linked
      <4>3. y \in DOMAIN m /\ y # o
        BY <4>1, <4>2, <3>2, <3>3, <1>8
      <4>4. CASE y = d
        BY <4>2, <4>3, <4>4, <1>13
      <4>5. CASE y # d
        BY <4>2, <4>3, <4>5, <1>11
      <4> QED BY <4>4, <4>5
    <3>5. m[x].next # NULL =>
                 /\ m[x].next \in DOMAIN m
                 /\ m[m[x].next].prev = x
                 /\ m[m[x].next].buffer = m[x].buffer + m[x].size
                 /\ m[m[x].next].device = m[x].device
                 /\ m[m[x].next].queue = m[x].queue
                 /\ m[m[x].next].pool_type = m[x].pool_type
      <4>1. CASE x = o
        <5>1. /\ o # NULL /\ m[x].next = d /\ d \in DOMAIN m /\ m[d].prev = o
              /\ m[d].buffer = blocks[src].buffer
          BY <4>1, <3>1, <1>9, <1>13, <1>15, <2>0
        <5>2. blocks[src].buffer = blocks[x].buffer + blocks[x].size
          BY <4>1, <5>1, <1>5
        <5>3. /\ m[d].device = m[x].device /\ m[d].queue = m[x].queue
              /\ m[d].pool_type = m[x].pool_type
          BY <4>1, <5>1, <3>1, <1>5, <1>1, <1>13
        <5> QED BY <4>1, <5>1, <5>2, <5>3, <3>1
      <4>2. CASE x # o
        <5>1. SUFFICES ASSUME blocks[x].next # NULL PROVE
                 /\ m[x].next \in DOMAIN m
                 /\ m[m[x].next].prev = x
                 /\ m[m[x].next].buffer = m[x].buffer + m[x].size
                 /\ m[m[x].next].device = m[x].device
                 /\ m[m[x].next].queue = m[x].queue
                 /\ m[m[x].next].pool_type = m[x].pool_type
          BY <4>2, <3>1
        <5> DEFINE y == blocks[x].next
        <5>2. /\ y \in DOMAIN blocks /\ blocks[y].prev = x
              /\ blocks[y].buffer = blocks[x].buffer + blocks[x].size
              /\ blocks[y].device = blocks[x].device
              /\ blocks[y].queue = blocks[x].queue
              /\ blocks[y].pool_type = blocks[x].pool_type
          BY <5>1, <2>0 DEF Tiling, Linked
        <5>3. y # src /\ y # d
          BY <5>2, <4>2, <2>0
        <5>4. y \in DOMAIN m
          BY <5>2, <5>3, <1>8
        <5>5. /\ m[y].prev = blocks[y].prev /\ m[y].buffer = blocks[y].buffer
              /\ m[y].device = blocks[y].device /\ m[y].queue = blocks[y].queue
              /\ m[y].pool_type = blocks[y].pool_type
          BY <5>1, <5>3, <5>4, <1>11, <1>14
        <5> QED BY <5>2, <5>4, <5>5, <3>1, <4>2
      <4> QED BY <4>1, <4>2
    <3>6. m[x].size > 0
      BY <3>1, <2>0 DEF Tiling, Linked
    <3> QED BY <3>4, <3>5, <3>6
  <2> QED BY <2>1, <2>2
<1>18. InSegments(m, segs)
  <2> SUFFICES ASSUME NEW x \in DOMAIN m
      PROVE  \E s \in segs : Within(m[x], s)
    BY DEF InSegments
  <2>0. x \in DOMAIN blocks /\ x # src
    BY <1>8
  <2>1. PICK s \in segs : Within(blocks[x], s)
    BY <2>0 DEF Tiling, InSegments
  <2>2. CASE x = d
    <3>1. PICK t \in segs : Within(blocks[src], t)
      BY <1>1 DEF Tiling, InSegments
    <3>2. s = t
      <4>1. blocks[src].next # NULL /\ Within(blocks[blocks[src].next], s)
        BY <2>2, <2>1, <1>1, <1>15
      <4> QED
        BY <4>1, <3>1, <1>1, SameSegment
    <3>3. s.base \in Nat /\ s.size \in Nat
      BY DEF Segment
    <3>4. Within(m[d], s)
      BY <2>1, <2>2, <3>1, <3>2, <3>3, <1>1, <1>3, <1>13 DEF Within
    <3> QED BY <3>4, <2>2
  <2>3. CASE x # d /\ x = o
    <3>1. blocks[x].next # NULL
      BY <2>3, <2>0, <1>5, <1>15, <1>1
    <3>2. Within(m[x], s)
      BY <2>1, <2>3, <2>0, <3>1, <1>14, <1>15, <1>9, <1>8 DEF Within
    <3> QED BY <3>2
  <2>4. CASE x # d /\ x # o
    BY <2>4, <2>1, <1>11
  <2> QED BY <2>2, <2>3, <2>4
<1>19. Apart(m)
  <2> SUFFICES ASSUME NEW x \in DOMAIN m, NEW y \in DOMAIN m, x # y
      PROVE  ~Overlap(m[x].buffer, m[x].size, m[y].buffer, m[y].size)
    BY DEF Apart
  <2>0. x \in DOMAIN blocks /\ x # src /\ y \in DOMAIN blocks /\ y # src
    BY <1>8
  <2>1. /\ ~Overlap(blocks[x].buffer, blocks[x].size, blocks[y].buffer, blocks[y].size)
        /\ ~Overlap(blocks[src].buffer, blocks[src].size, blocks[y].buffer, blocks[y].size)
        /\ ~Overlap(blocks[x].buffer, blocks[x].size, blocks[src].buffer, blocks[src].size)
    BY <2>0, <1>1 DEF Tiling, Apart
  <2>2. /\ x # d => m[x].buffer = blocks[x].buffer /\ m[x].size = blocks[x].size
        /\ y # d => m[y].buffer = blocks[y].buffer /\ m[y].size = blocks[y].size
    BY <1>16 DEF Kept
  <2>3. /\ blocks[x].buffer \in Nat /\ blocks[x].size \in Nat
        /\ blocks[y].buffer \in Nat /\ blocks[y].size \in Nat
        /\ blocks[src].buffer \in Nat /\ blocks[src].size \in Nat
        /\ blocks[x].size > 0 /\ blocks[y].size > 0
    BY <1>3, <2>0, <1>1 DEF Tiling, Linked
  <2>4. CASE x = d
    BY <2>4, <2>1, <2>2, <2>3, <1>13, <1>1 DEF Overlap
  <2>5. CASE y = d
    BY <2>5, <2>1, <2>2, <2>3, <1>13, <1>1 DEF Overlap
  <2>6. CASE x # d /\ y # d
    BY <2>6, <2>1, <2>2
  <2> QED BY <2>4, <2>5, <2>6
<1> QED
  BY <1>1, <1>4, <1>8, <1>12, <1>13, <1>16, <1>17, <1>18, <1>19 DEF Tiling, m

\* Both candidates of free_block.
LEMMA MergeBoth ==
  ASSUME NEW blocks, BlockMap(blocks), NEW segs \in SUBSET Segment,
         Tiling(blocks, segs),
         NEW b \in DOMAIN blocks
  PROVE  LET m == Merge(blocks, b)
         IN  /\ b \in DOMAIN m
             /\ BlockMap(m) /\ Tiling(m, segs) /\ Kept(blocks, m, b)
             /\ \A x \in DOMAIN blocks \ DOMAIN m :
                  /\ x = blocks[b].prev \/ x = blocks[b].next
                  /\ ~blocks[x].allocated /\ blocks[x].event_cnt = 0
<1> DEFINE p  == blocks[b].prev
           n  == blocks[b].next
           m1 == TryMerge(blocks, b, p)
           m  == Merge(blocks, b)
<1>1. m = TryMerge(m1, b, n)
  BY DEF Merge
<1>2. /\ b \in DOMAIN m1 /\ BlockMap(m1) /\ Tiling(m1, segs) /\ Kept(blocks, m1, b)
      /\ m1[b].next = n
      /\ \A x \in DOMAIN blocks \ DOMAIN m1 :
           x = p /\ ~blocks[x].allocated /\ blocks[x].event_cnt = 0
  <2>1. CASE Mergeable(blocks, p)
    <3>1. /\ DOMAIN m1 = DOMAIN blocks \ {p} /\ b # p /\ p \in DOMAIN blocks
          /\ BlockMap(m1) /\ Tiling(m1, segs) /\ Kept(blocks, m1, b)
          /\ m1[b].next = n
      BY <2>1, MergePrev
    <3>2. ~blocks[p].allocated /\ blocks[p].event_cnt = 0
      BY <2>1 DEF Mergeable
    <3> HIDE DEF m1
    <3> QED BY <3>1, <3>2
  <2>2. CASE ~Mergeable(blocks, p)
    <3>1. m1 = blocks
      BY <2>2 DEF TryMerge
    <3>2. Kept(blocks, blocks, b)
      BY DEF Kept
    <3> QED BY <3>1, <3>2
  <2> QED BY <2>1, <2>2
<1> HIDE DEF m1
<1>3. CASE Mergeable(m1, n)
  <2>1. /\ DOMAIN m = DOMAIN m1 \ {n} /\ b # n /\ n \in DOMAIN m1
        /\ BlockMap(m) /\ Tiling(m, segs) /\ Kept(m1, m, b)
    BY <1>1, <1>2, <1>3, MergeNext
  <2> HIDE DEF m
  <2>2. Kept(blocks, m, b)
    BY <1>2, <2>1 DEF Kept
  <2>3. ~blocks[n].allocated /\ blocks[n].event_cnt = 0
    BY <1>2, <1>3, <2>1 DEF Kept, Mergeable
  <2>4. \A x \in DOMAIN blocks \ DOMAIN m :
          (x = p \/ x = n) /\ ~blocks[x].allocated /\ blocks[x].event_cnt = 0
    BY <1>2, <2>1, <2>3
  <2>5. b \in DOMAIN m
    BY <1>2, <2>1
  <2> QED BY <2>1, <2>2, <2>4, <2>5 DEF m
<1>4. CASE ~Mergeable(m1, n)
  <2>1. m = m1
    BY <1>1, <1>4 DEF TryMerge
  <2> QED BY <1>2, <2>1
<1> QED BY <1>3, <1>4

-----------------------------------------------------------------------------
\* update_stat_array keeps the counters integers.
LEMMA UpdateStatsType ==
  ASSUME NEW stats \in Stats, NEW dev \in Device, NEW type \in PoolType,
         NEW amount, \A n \in StatName : n \in DOMAIN amount => amount[n] \in Int
  PROVE  UpdateStats(stats, dev, type, amount) \in Stats
<1> DEFINE add(n) == IF n \in DOMAIN amount THEN amount[n] ELSE 0
           row == [n \in StatName |-> stats[dev][type][n] + add(n)]
<1>1. \A n \in StatName : add(n) \in Int
  OBVIOUS
<1> HIDE DEF add
<1>2. row \in [StatName -> Int]
  BY <1>1 DEF Stats
<1>3. UpdateStats(stats, dev, type, amount) = [stats EXCEPT ![dev][type] = row]
  BY DEF UpdateStats, add
<1> QED
  BY <1>2, <1>3 DEF Stats

\* What the pools say of the blocks they list.
PoolsFit(pools, blocks) ==
  \A k \in PoolKey : \A b \in pools[k] \cap DOMAIN blocks :
    /\ ~blocks[b].allocated
    /\ blocks[b].event_cnt = 0
    /\ blocks[b].pool_type = k[2]
    /\ \A l \in PoolKey : b \in pools[l] => l = k

\* free_block: it may run into undefined behaviour, and otherwise keeps the
\* tiling, only removes free blocks and leaves b in one pool.
LEMMA FreeBlockStep ==
  ASSUME segment \subseteq Segment,
         pool \in [PoolKey -> SUBSET BlockId],
         NEW blocks, BlockMap(blocks), Tiling(blocks, segment),
         NEW stats \in Stats,
         NEW b \in DOMAIN blocks,
         ~blocks[b].allocated, blocks[b].event_cnt = 0,
         PoolsFit(pool, blocks), \A k \in PoolKey : b \notin pool[k],
         FreeBlock(blocks, stats, b)
  PROVE  /\ BlockMap(block') /\ pool' \in [PoolKey -> SUBSET BlockId]
         /\ device_stats' \in Stats /\ undefined' \in BOOLEAN
         /\ ~undefined' => /\ Tiling(block', segment)
                           /\ Kept(blocks, block', b)
                           /\ b \in DOMAIN block'
                           /\ PoolsFit(pool', block')
                           /\ \A x \in DOMAIN blocks \ DOMAIN block' :
                                ~blocks[x].allocated /\ blocks[x].event_cnt = 0
<1> DEFINE key  == <<blocks[b].owner, blocks[b].pool_type>>
           m    == Merge(blocks, b)
           gone == DOMAIN blocks \ DOMAIN m
<1>1. CASE blocks[b].owner = Destroyed
  BY <1>1 DEF FreeBlock
<1>2. CASE blocks[b].owner # Destroyed
  <2>1. /\ b \in DOMAIN m
        /\ BlockMap(m) /\ Tiling(m, segment) /\ Kept(blocks, m, b)
        /\ \A x \in gone : /\ x = blocks[b].prev \/ x = blocks[b].next
                           /\ ~blocks[x].allocated /\ blocks[x].event_cnt = 0
    BY MergeBoth
  <2> HIDE DEF m
  <2>2. blocks[b] \in Block /\ m[b] \in Block
    BY <2>1 DEF BlockMap
  <2>3. key \in PoolKey /\ blocks[b].pool_type \in PoolType /\ blocks[b].device \in Device
    BY <1>2, <2>2 DEF Block, PoolKey, Owner
  <2>4. /\ block' = m
        /\ pool' = [pool EXCEPT ![key] = (@ \ gone) \cup {b}]
        /\ undefined' = Dangles(key, blocks)
    BY <1>2 DEF FreeBlock, PoolAfterFree, m
  <2>5. undefined' \in BOOLEAN
    BY <2>4 DEF Dangles
  <2>6. pool' \in [PoolKey -> SUBSET BlockId]
    BY <2>3, <2>4 DEF BlockMap
  <2>7. device_stats' \in Stats
    <3> DEFINE amount ==
                [inactive_split |->
                   (IF IsSplit(m[b]) THEN 1 ELSE 0) - Cardinality(gone),
                 inactive_split_bytes |->
                   (IF IsSplit(m[b]) THEN m[b].size ELSE 0) - (m[b].size - blocks[b].size),
                 active |-> -1,
                 active_bytes |-> -blocks[b].size]
    <3>1. device_stats' = UpdateStats(stats, blocks[b].device, blocks[b].pool_type, amount)
      BY <1>2 DEF FreeBlock, m
    <3>2. Cardinality(gone) \in Nat
      <4>1. gone \subseteq {blocks[b].prev, blocks[b].next}
        BY <2>1
      <4>2. IsFiniteSet({blocks[b].prev, blocks[b].next})
        <5>1. IsFiniteSet({blocks[b].prev}) /\ IsFiniteSet({blocks[b].next})
          BY FS_Singleton
        <5>2. IsFiniteSet({blocks[b].prev} \cup {blocks[b].next})
          BY <5>1, FS_Union
        <5>3. {blocks[b].prev, blocks[b].next} = {blocks[b].prev} \cup {blocks[b].next}
          OBVIOUS
        <5> QED BY <5>2, <5>3
      <4> QED BY <4>1, <4>2, FS_Subset, FS_CardinalityType
    <3>3. m[b].size \in Nat /\ blocks[b].size \in Nat
      BY <2>2 DEF Block
    <3>4. \A n \in StatName : n \in DOMAIN amount => amount[n] \in Int
      <4>1. /\ (IF IsSplit(m[b]) THEN 1 ELSE 0) - Cardinality(gone) \in Int
            /\ (IF IsSplit(m[b]) THEN m[b].size ELSE 0) - (m[b].size - blocks[b].size) \in Int
            /\ -1 \in Int /\ -blocks[b].size \in Int
        BY <3>2, <3>3
      <4> QED BY <4>1
    <3> HIDE DEF amount
    <3> QED BY <3>1, <3>4, <2>3, UpdateStatsType
  <2>8. PoolsFit(pool', block')
    <3> SUFFICES ASSUME NEW k \in PoolKey, NEW c \in pool'[k] \cap DOMAIN block'
        PROVE  /\ ~block'[c].allocated /\ block'[c].event_cnt = 0
               /\ block'[c].pool_type = k[2]
               /\ \A l \in PoolKey : c \in pool'[l] => l = k
      BY DEF PoolsFit
    <3>1. c \in DOMAIN m /\ c \in DOMAIN blocks /\ block'[c] = m[c]
      BY <2>1, <2>4 DEF Kept
    <3>2. /\ m[c].allocated = blocks[c].allocated /\ m[c].event_cnt = blocks[c].event_cnt
          /\ m[c].pool_type = blocks[c].pool_type
      BY <2>1, <3>1 DEF Kept
    <3>3. CASE c = b
      <4>1. \A l \in PoolKey : c \in pool'[l] => l = key
        BY <3>3, <2>4, <2>3
      <4>2. k = key
        BY <4>1
      <4> QED BY <3>1, <3>2, <3>3, <4>1, <4>2
    <3>4. CASE c # b
      <4>1. \A l \in PoolKey : c \in pool'[l] => c \in pool[l]
        BY <3>4, <2>4, <2>3
      <4> QED BY <3>1, <3>2, <4>1 DEF PoolsFit
    <3> QED BY <3>3, <3>4
  <2> QED BY <2>1, <2>4, <2>5, <2>6, <2>7, <2>8
<1> QED BY <1>1, <1>2

-----------------------------------------------------------------------------
(* The event deque. *)

\* No two events of one block on one queue.
DistinctEvents(events) ==
  \A i, j \in DOMAIN events :
    events[i].block = events[j].block /\ events[i].queue = events[j].queue => i = j

\* Removing event i removes its queue from the queues of its block.
LEMMA WithoutEvent ==
  ASSUME NEW events \in Seq(Event), NEW i \in DOMAIN events, DistinctEvents(events)
  PROVE  LET rest == Without(events, i)
         IN  /\ rest \in Seq(Event)
             /\ DistinctEvents(rest)
             /\ \A j \in DOMAIN rest : \E k \in DOMAIN events : rest[j] = events[k]
             /\ \A b : QueuesIn(rest, b) =
                  IF b = events[i].block
                  THEN QueuesIn(events, b) \ {events[i].queue}
                  ELSE QueuesIn(events, b)
<1> DEFINE rest == Without(events, i)
           len == Len(events)
           old(j) == IF j < i THEN j ELSE j + 1
<1>1. len \in Nat /\ DOMAIN events = 1..len /\ i \in 1..len
  OBVIOUS
<1>2. DOMAIN rest = 1..(len - 1) /\ rest \in Seq(Event)
  BY <1>1 DEF Without
<1>3. ASSUME NEW j \in 1..(len - 1)
      PROVE  old(j) \in 1..len /\ old(j) # i /\ rest[j] = events[old(j)]
  BY <1>1 DEF Without
<1>4. ASSUME NEW k \in 1..len, k # i
      PROVE  \E j \in 1..(len - 1) : rest[j] = events[k]
  <2>1. CASE k < i
    <3>1. k \in 1..(len - 1) /\ rest[k] = events[k]
      BY <2>1, <1>1 DEF Without
    <3> QED BY <3>1
  <2>2. CASE k > i
    <3>1. k - 1 \in 1..(len - 1) /\ rest[k - 1] = events[k]
      BY <2>2, <1>1 DEF Without
    <3> QED BY <3>1
  <2> QED BY <2>1, <2>2, <1>1, <1>4
<1> HIDE DEF rest
<1>5. DistinctEvents(rest)
  <2> SUFFICES ASSUME NEW j \in 1..(len - 1), NEW k \in 1..(len - 1),
                      rest[j].block = rest[k].block, rest[j].queue = rest[k].queue
               PROVE  j = k
    BY <1>2 DEF DistinctEvents
  <2>1. /\ old(j) \in 1..len /\ rest[j] = events[old(j)]
        /\ old(k) \in 1..len /\ rest[k] = events[old(k)]
    BY <1>3
  <2>2. old(j) = old(k)
    BY <2>1, <1>1 DEF DistinctEvents
  <2> QED BY <2>2, <1>1
<1>6. \A j \in DOMAIN rest : \E k \in DOMAIN events : rest[j] = events[k]
  BY <1>1, <1>2, <1>3
<1>7. ASSUME NEW b
      PROVE  QueuesIn(rest, b) =
                  IF b = events[i].block
                  THEN QueuesIn(events, b) \ {events[i].queue}
                  ELSE QueuesIn(events, b)
  <2>1. ASSUME NEW q \in QueuesIn(rest, b)
        PROVE  /\ q \in QueuesIn(events, b)
               /\ b = events[i].block => q # events[i].queue
    <3>1. q \in Queue /\ \E j \in DOMAIN rest : rest[j].block = b /\ rest[j].queue = q
      BY DEF QueuesIn
    <3>2. PICK j \in 1..(len - 1) : rest[j].block = b /\ rest[j].queue = q
      BY <3>1, <1>2
    <3>3. old(j) \in 1..len /\ old(j) # i /\ rest[j] = events[old(j)]
      BY <1>3
    <3>4. events[old(j)].block = b /\ events[old(j)].queue = q
      BY <3>2, <3>3
    <3> HIDE DEF old
    <3>5. q \in QueuesIn(events, b)
      BY <3>1, <3>3, <3>4, <1>1 DEF QueuesIn
    <3>6. b = events[i].block => q # events[i].queue
      BY <3>3, <3>4, <1>1 DEF DistinctEvents
    <3> QED BY <3>5, <3>6
  <2>2. ASSUME NEW q \in QueuesIn(events, b), b = events[i].block => q # events[i].queue
        PROVE  q \in QueuesIn(rest, b)
    <3>1. q \in Queue /\ \E k \in DOMAIN events : events[k].block = b /\ events[k].queue = q
      BY DEF QueuesIn
    <3>2. PICK k \in 1..len : events[k].block = b /\ events[k].queue = q
      BY <3>1, <1>1
    <3>3. k # i
      BY <2>2, <3>2
    <3>4. PICK j \in 1..(len - 1) : rest[j] = events[k]
      BY <1>4, <3>3
    <3> QED BY <3>1, <3>2, <3>4, <1>2 DEF QueuesIn
  <2> QED BY <2>1, <2>2
<1> QED BY <1>2, <1>5, <1>6, <1>7 DEF rest

\* Counting the queues of a block.
LEMMA QueueCount ==
  ASSUME NEW events, NEW b
  PROVE  /\ IsFiniteSet(QueuesIn(events, b))
         /\ Cardinality(QueuesIn(events, b)) \in Nat
         /\ \A q \in QueuesIn(events, b) :
              /\ Cardinality(QueuesIn(events, b)) > 0
              /\ Cardinality(QueuesIn(events, b) \ {q}) = Cardinality(QueuesIn(events, b)) - 1
         /\ QueuesIn(events, b) = {} => Cardinality(QueuesIn(events, b)) = 0
<1> DEFINE Q == QueuesIn(events, b)
<1>1. IsFiniteSet(Queue)
  BY TopologyAssumption
<1>2. Q \subseteq Queue
  BY DEF QueuesIn
<1> HIDE DEF Q
<1>3. IsFiniteSet(Q)
  BY <1>1, <1>2, FS_Subset
<1>4. Cardinality(Q) \in Nat
  BY <1>3, FS_CardinalityType
<1>5. ASSUME NEW q \in Q
      PROVE  Cardinality(Q) > 0 /\ Cardinality(Q \ {q}) = Cardinality(Q) - 1
  <2>1. IsFiniteSet(Q \ {q}) /\ Cardinality(Q \ {q}) = Cardinality(Q) - 1
    BY <1>3, FS_RemoveElement
  <2>2. Cardinality(Q \ {q}) \in Nat
    BY <2>1, FS_CardinalityType
  <2> QED BY <2>1, <2>2, <1>4
<1>6. Q = {} => Cardinality(Q) = 0
  BY FS_EmptySet
<1> QED BY <1>3, <1>4, <1>5, <1>6 DEF Q

-----------------------------------------------------------------------------
(* The parts of the invariant that speak of allocated blocks and events.   *)

AllocFits(alloc, blocks) ==
  /\ \A a \in DOMAIN alloc :
       alloc[a] \in DOMAIN blocks /\ blocks[alloc[a]].buffer = a /\ blocks[alloc[a]].allocated
  /\ \A b \in DOMAIN blocks :
       IF blocks[b].allocated
       THEN blocks[b].buffer \in DOMAIN alloc /\ alloc[blocks[b].buffer] = b
       ELSE blocks[b].queue_uses = {}

EventsFit(events, blocks) ==
  /\ DistinctEvents(events)
  /\ \A i \in DOMAIN events :
       events[i].block \in DOMAIN blocks /\ ~blocks[events[i].block].allocated
  /\ \A b \in DOMAIN blocks : blocks[b].event_cnt = Cardinality(QueuesIn(events, b))

\* The invariant in the vocabulary of the lemmas.
LEMMA SafeParts ==
  Safe <=> /\ Tiling(block, segment)
           /\ AllocFits(allocated_blocks, block) /\ PoolsFit(pool, block)
           /\ EventsFit(dpcpp_events, block) /\ InHand
  BY DEF Safe, Tiling, Places, AllocFits, PoolsFit, EventsCounted, EventsFit,
         DistinctEvents, EventQueues

\* A step of an event that completed, in process_events or in
\* synchronize_and_free_events.
LEMMA EventDoneStep ==
  ASSUME TypeOK, Safe, ~undefined, op.block = NULL,
         op.pc \notin {"split", "insert_events"},
         NEW i \in DOMAIN dpcpp_events,
         EventDone(dpcpp_events[i].block),
         dpcpp_events' = Without(dpcpp_events, i),
         UNCHANGED <<allocated_blocks, segment, graphVars, op>>
  PROVE  TypeOK' /\ (~undefined' => Safe')
<1> DEFINE b == dpcpp_events[i].block
           q == dpcpp_events[i].queue
           rest == Without(dpcpp_events, i)
           dec == [block EXCEPT ![b].event_cnt = @ - 1]
<1>1. /\ Tiling(block, segment)
      /\ AllocFits(allocated_blocks, block) /\ PoolsFit(pool, block)
      /\ EventsFit(dpcpp_events, block) /\ InHand
  BY SafeParts
<1>2. /\ BlockMap(block) /\ segment \subseteq Segment /\ dpcpp_events \in Seq(Event)
      /\ pool \in [PoolKey -> SUBSET BlockId] /\ device_stats \in Stats
      /\ undefined \in BOOLEAN
  BY DEF TypeOK, BlockMap
<1>3. /\ rest \in Seq(Event) /\ DistinctEvents(rest)
      /\ \A j \in DOMAIN rest : \E k \in DOMAIN dpcpp_events : rest[j] = dpcpp_events[k]
      /\ \A x : QueuesIn(rest, x) = IF x = b THEN QueuesIn(dpcpp_events, x) \ {q}
                                              ELSE QueuesIn(dpcpp_events, x)
  BY <1>1, <1>2, WithoutEvent DEF EventsFit
<1>4. b \in DOMAIN block /\ ~block[b].allocated /\ block[b] \in Block
      /\ block[b].event_cnt = Cardinality(QueuesIn(dpcpp_events, b))
  BY <1>1, <1>2 DEF EventsFit, BlockMap
<1>5. q \in QueuesIn(dpcpp_events, b)
  <2>1. dpcpp_events[i] \in Event
    BY <1>2
  <2> QED BY <2>1 DEF QueuesIn, Event
<1> HIDE DEF rest
<1>6. /\ block[b].event_cnt > 0 /\ block[b].event_cnt \in Nat
      /\ block[b].event_cnt - 1 = Cardinality(QueuesIn(rest, b))
      /\ block[b].event_cnt - 1 \in Nat
  BY <1>3, <1>4, <1>5, QueueCount
<1>7. /\ DOMAIN dec = DOMAIN block
      /\ dec[b] = [block[b] EXCEPT !.event_cnt = block[b].event_cnt - 1]
      /\ \A x \in DOMAIN block : x # b => dec[x] = block[x]
  BY <1>4
<1>8. dec[b] \in Block
  BY <1>4, <1>6, <1>7 DEF Block
<1>9. BlockMap(dec)
  <2>1. dec \in [DOMAIN dec -> Block]
    BY <1>2, <1>7, <1>8 DEF BlockMap
  <2> QED BY <2>1, <1>2, <1>7 DEF BlockMap
<1>10. \A x \in DOMAIN block :
         /\ dec[x].device = block[x].device /\ dec[x].queue = block[x].queue
         /\ dec[x].queue_uses = block[x].queue_uses /\ dec[x].size = block[x].size
         /\ dec[x].pool_type = block[x].pool_type /\ dec[x].buffer = block[x].buffer
         /\ dec[x].allocated = block[x].allocated /\ dec[x].prev = block[x].prev
         /\ dec[x].next = block[x].next /\ dec[x].owner = block[x].owner
         /\ dec[x].event_cnt = IF x = b THEN block[b].event_cnt - 1 ELSE block[x].event_cnt
  BY <1>4, <1>7 DEF Block
<1> HIDE DEF dec
<1>11. Tiling(dec, segment)
  <2>1. Linked(dec)
    BY <1>1, <1>7, <1>10 DEF Tiling, Linked
  <2>2. InSegments(dec, segment)
    BY <1>1, <1>7, <1>10 DEF Tiling, InSegments, Within
  <2>3. Apart(dec)
    BY <1>1, <1>7, <1>10 DEF Tiling, Apart
  <2> QED BY <1>1, <2>1, <2>2, <2>3 DEF Tiling
<1>12. \A k \in PoolKey : b \notin pool[k]
  BY <1>1, <1>4, <1>6 DEF PoolsFit
<1>13. PoolsFit(pool, dec)
  BY <1>1, <1>7, <1>10, <1>12 DEF PoolsFit
<1>14. AllocFits(allocated_blocks, dec)
  BY <1>1, <1>7, <1>10 DEF AllocFits
<1>15. \A x \in DOMAIN dec : dec[x].event_cnt = Cardinality(QueuesIn(rest, x))
  BY <1>1, <1>3, <1>6, <1>7, <1>10 DEF EventsFit
<1>16. \A j \in DOMAIN rest :
         /\ rest[j].block \in DOMAIN dec /\ ~dec[rest[j].block].allocated
         /\ dec[rest[j].block].event_cnt > 0
  <2> SUFFICES ASSUME NEW j \in DOMAIN rest
      PROVE  /\ rest[j].block \in DOMAIN dec /\ ~dec[rest[j].block].allocated
             /\ dec[rest[j].block].event_cnt > 0
    OBVIOUS
  <2>1. PICK k \in DOMAIN dpcpp_events : rest[j] = dpcpp_events[k]
    BY <1>3
  <2>2. rest[j].block \in DOMAIN block /\ ~block[rest[j].block].allocated
    BY <2>1, <1>1 DEF EventsFit
  <2>3. rest[j].queue \in QueuesIn(rest, rest[j].block)
    <3>1. rest[j] \in Event
      BY <1>3
    <3> QED BY <3>1 DEF QueuesIn, Event
  <2>4. Cardinality(QueuesIn(rest, rest[j].block)) > 0
    BY <2>3, QueueCount
  <2> QED BY <2>2, <2>4, <1>15, <1>7, <1>10
<1>17. /\ BlockMap(block') /\ pool' \in [PoolKey -> SUBSET BlockId]
       /\ device_stats' \in Stats /\ undefined' \in BOOLEAN
       /\ ~undefined' => /\ Tiling(block', segment)
                         /\ Kept(dec, block', b)
                         /\ PoolsFit(pool', block')
                         /\ \A x \in DOMAIN dec \ DOMAIN block' :
                              ~dec[x].allocated /\ dec[x].event_cnt = 0
  <2>1. CASE dec[b].event_cnt = 0
    <3>1. FreeBlock(dec, device_stats, b)
      BY <2>1 DEF EventDone, dec
    <3>2. b \in DOMAIN dec /\ ~dec[b].allocated
      BY <1>4, <1>7, <1>10
    <3> QED BY <3>1, <3>2, <2>1, <1>2, <1>9, <1>11, <1>12, <1>13, FreeBlockStep
  <2>2. CASE dec[b].event_cnt # 0
    <3>1. block' = dec /\ UNCHANGED <<pool, device_stats, undefined>>
      BY <2>2 DEF EventDone, dec
    <3>2. Kept(dec, dec, b)
      BY DEF Kept
    <3> QED BY <3>1, <3>2, <1>2, <1>9, <1>11, <1>13
  <2> QED BY <2>1, <2>2
<1>18. TypeOK'
  BY <1>17, <1>3, <1>2 DEF TypeOK, BlockMap, rest, graphVars
<1>19. ASSUME ~undefined' PROVE Safe'
  <2>1. /\ Tiling(block', segment') /\ PoolsFit(pool', block') /\ Kept(dec, block', b)
        /\ \A x \in DOMAIN dec \ DOMAIN block' : ~dec[x].allocated /\ dec[x].event_cnt = 0
    BY <1>17, <1>19
  <2>2. AllocFits(allocated_blocks', block')
    <3>1. \A a \in DOMAIN allocated_blocks :
            /\ allocated_blocks[a] \in DOMAIN block' /\ allocated_blocks[a] # b
      BY <2>1, <1>14, <1>4, <1>10 DEF AllocFits
    <3> QED BY <3>1, <2>1, <1>14, <1>4, <1>10 DEF AllocFits, Kept
  <2>3. EventsFit(dpcpp_events', block')
    <3>1. \A j \in DOMAIN rest : rest[j].block \in DOMAIN block'
      BY <1>16, <2>1
    <3>2. dpcpp_events' = rest
      BY DEF rest
    <3> QED BY <3>1, <3>2, <2>1, <1>3, <1>15, <1>16 DEF EventsFit, Kept
  <2>4. InHand'
    BY <1>1 DEF InHand, OpSize
  <2> QED
    BY <2>1, <2>2, <2>3, <2>4
       DEF Safe, Tiling, Places, AllocFits, PoolsFit, EventsCounted, EventsFit,
           DistinctEvents, EventQueues
<1> QED BY <1>18, <1>19

-----------------------------------------------------------------------------
\* Only bookkeeping fields differ.
SameShape(blocks, m) ==
  /\ DOMAIN m = DOMAIN blocks
  /\ \A x \in DOMAIN blocks :
       /\ m[x].device = blocks[x].device /\ m[x].queue = blocks[x].queue
       /\ m[x].size = blocks[x].size /\ m[x].buffer = blocks[x].buffer
       /\ m[x].pool_type = blocks[x].pool_type
       /\ m[x].prev = blocks[x].prev /\ m[x].next = blocks[x].next

\* The tiling does not depend on the bookkeeping fields.
LEMMA TilingSameShape ==
  ASSUME NEW blocks, NEW m, NEW segs, Tiling(blocks, segs), SameShape(blocks, m)
  PROVE  Tiling(m, segs)
<1>1. Linked(m)
  BY DEF Tiling, Linked, SameShape
<1>2. InSegments(m, segs)
  BY DEF Tiling, InSegments, Within, SameShape
<1>3. Apart(m)
  BY DEF Tiling, Apart, SameShape
<1> QED BY <1>1, <1>2, <1>3 DEF Tiling

\* The facts free has of the block it is given.
LEMMA ReleasedFacts ==
  ASSUME TypeOK, Safe, NEW buffer \in DOMAIN allocated_blocks, NEW b,
         b = allocated_blocks[buffer]
  PROVE  /\ b \in DOMAIN block /\ block[b] \in Block /\ block[b].allocated
         /\ block[b].buffer = buffer /\ block[b].event_cnt = 0
         /\ QueuesIn(dpcpp_events, b) = {}
         /\ \A k \in PoolKey : b \notin pool[k]
         /\ BlockMap(Released(b)) /\ SameShape(block, Released(b))
         /\ Tiling(Released(b), segment) /\ PoolsFit(pool, Released(b))
         /\ \A x \in DOMAIN block :
              /\ Released(b)[x].event_cnt = block[x].event_cnt
              /\ Released(b)[x].owner = block[x].owner
              /\ Released(b)[x].allocated = (block[x].allocated /\ x # b)
              /\ Released(b)[x].queue_uses = IF x = b THEN {} ELSE block[x].queue_uses
         /\ FreeStats(b) \in Stats
<1> DEFINE rel == Released(b)
<1>1. /\ Tiling(block, segment)
      /\ AllocFits(allocated_blocks, block) /\ PoolsFit(pool, block)
      /\ EventsFit(dpcpp_events, block) /\ InHand
  BY SafeParts
<1>2. BlockMap(block) /\ dpcpp_events \in Seq(Event) /\ device_stats \in Stats
  BY DEF TypeOK, BlockMap
<1>3. b \in DOMAIN block /\ block[b].allocated /\ block[b].buffer = buffer /\ block[b] \in Block
  BY <1>1, <1>2 DEF AllocFits, BlockMap
<1>4. QueuesIn(dpcpp_events, b) = {}
  BY <1>1, <1>3 DEF EventsFit, QueuesIn
<1>5. block[b].event_cnt = 0
  BY <1>1, <1>3, <1>4, QueueCount DEF EventsFit
<1>6. \A k \in PoolKey : b \notin pool[k]
  BY <1>1, <1>3 DEF PoolsFit
<1>7. /\ DOMAIN rel = DOMAIN block
      /\ rel[b] = [block[b] EXCEPT !.allocated = FALSE, !.queue_uses = {}]
      /\ \A x \in DOMAIN block : x # b => rel[x] = block[x]
  BY <1>3 DEF Released
<1> HIDE DEF rel
<1>a. rel[b] = [device |-> block[b].device, queue |-> block[b].queue,
                queue_uses |-> {}, size |-> block[b].size,
                pool_type |-> block[b].pool_type, buffer |-> block[b].buffer,
                allocated |-> FALSE, prev |-> block[b].prev, next |-> block[b].next,
                event_cnt |-> block[b].event_cnt, owner |-> block[b].owner]
  BY <1>3, <1>7 DEF Block
<1>8. rel[b] \in Block
  BY <1>3, <1>a DEF Block
<1>9. BlockMap(rel)
  <2>1. rel = [x \in DOMAIN rel |-> rel[x]]
    BY DEF rel, Released
  <2> QED BY <2>1, <1>2, <1>7, <1>8 DEF BlockMap
<1>10. \A x \in DOMAIN block :
              /\ rel[x].event_cnt = block[x].event_cnt
              /\ rel[x].owner = block[x].owner
              /\ rel[x].allocated = (block[x].allocated /\ x # b)
              /\ rel[x].queue_uses = IF x = b THEN {} ELSE block[x].queue_uses
  <2> SUFFICES ASSUME NEW x \in DOMAIN block
      PROVE   /\ rel[x].event_cnt = block[x].event_cnt
              /\ rel[x].owner = block[x].owner
              /\ rel[x].allocated = (block[x].allocated /\ x # b)
              /\ rel[x].queue_uses = IF x = b THEN {} ELSE block[x].queue_uses
    OBVIOUS
  <2>1. block[x] \in Block
    BY <1>2 DEF BlockMap
  <2>2. block[x].allocated \in BOOLEAN
    BY <2>1 DEF Block
  <2>3. CASE x = b
    <3>1. /\ rel[b].event_cnt = block[b].event_cnt /\ rel[b].owner = block[b].owner
          /\ rel[b].queue_uses = {} /\ ~rel[b].allocated /\ rel[b].allocated \in BOOLEAN
      BY <1>a
    <3>2. rel[b].allocated = (block[b].allocated /\ b # b)
      BY <3>1
    <3> QED BY <2>3, <3>1, <3>2
  <2>4. CASE x # b
    BY <2>4, <2>2, <1>7
  <2> QED BY <2>3, <2>4
<1>11. SameShape(block, rel)
  <2>1. /\ rel[b].device = block[b].device /\ rel[b].queue = block[b].queue
        /\ rel[b].size = block[b].size /\ rel[b].buffer = block[b].buffer
        /\ rel[b].pool_type = block[b].pool_type
        /\ rel[b].prev = block[b].prev /\ rel[b].next = block[b].next
    BY <1>a
  <2>2. \A x \in DOMAIN block : x # b => rel[x] = block[x]
    BY <1>7
  <2>3. DOMAIN rel = DOMAIN block
    BY <1>7
  <2> HIDE DEF rel
  <2> QED BY <2>1, <2>2, <2>3 DEF SameShape
<1>12. Tiling(rel, segment)
  BY <1>1, <1>11, TilingSameShape
<1>13. PoolsFit(pool, rel)
  BY <1>1, <1>6, <1>7 DEF PoolsFit
<1>14. FreeStats(b) \in Stats
  <2> DEFINE amount == [allocation |-> -1, allocated_bytes |-> -block[b].size]
  <2>1. block[b].size \in Nat /\ block[b].device \in Device /\ block[b].pool_type \in PoolType
    BY <1>3 DEF Block
  <2>2. \A n \in StatName : n \in DOMAIN amount => amount[n] \in Int
    BY <2>1
  <2>3. FreeStats(b) = UpdateStats(device_stats, block[b].device, block[b].pool_type, amount)
    BY DEF FreeStats
  <2> HIDE DEF amount
  <2> QED BY <1>2, <2>1, <2>2, <2>3, UpdateStatsType
<1> QED
  BY <1>3, <1>4, <1>5, <1>6, <1>9, <1>10, <1>11, <1>12, <1>13, <1>14 DEF rel

\* free of a block only its own queue used: free_block runs at once.
LEMMA FreeStep ==
  ASSUME TypeOK, Safe, NEW buffer \in DOMAIN allocated_blocks, Free(buffer)
  PROVE  TypeOK' /\ (~undefined' => Safe')
<1> DEFINE b == allocated_blocks[buffer]
           rel == Released(b)
<1>1. /\ b \in DOMAIN block /\ block[b] \in Block /\ block[b].allocated
      /\ block[b].buffer = buffer /\ block[b].event_cnt = 0
      /\ QueuesIn(dpcpp_events, b) = {}
      /\ \A k \in PoolKey : b \notin pool[k]
      /\ BlockMap(rel) /\ SameShape(block, rel)
      /\ Tiling(rel, segment) /\ PoolsFit(pool, rel)
      /\ \A x \in DOMAIN block :
           /\ rel[x].event_cnt = block[x].event_cnt
           /\ rel[x].owner = block[x].owner
           /\ rel[x].allocated = (block[x].allocated /\ x # b)
           /\ rel[x].queue_uses = IF x = b THEN {} ELSE block[x].queue_uses
      /\ FreeStats(b) \in Stats
  BY ReleasedFacts
<1>2. /\ AllocFits(allocated_blocks, block)
      /\ EventsFit(dpcpp_events, block) /\ InHand
  BY SafeParts
<1>3. /\ segment \subseteq Segment /\ pool \in [PoolKey -> SUBSET BlockId]
      /\ dpcpp_events \in Seq(Event)
  BY DEF TypeOK
<1>4. /\ FreeBlock(rel, FreeStats(b), b)
      /\ allocated_blocks' = [a \in DOMAIN allocated_blocks \ {buffer} |-> allocated_blocks[a]]
      /\ UNCHANGED <<dpcpp_events, segment, graphVars, op>>
      /\ op.pc = "idle"
  BY DEF Free, At
<1> HIDE DEF rel
<1>5. DOMAIN rel = DOMAIN block
  BY <1>1 DEF SameShape
<1>6. b \in DOMAIN rel /\ ~rel[b].allocated /\ rel[b].event_cnt = 0
  BY <1>1, <1>5
<1>7. /\ BlockMap(block') /\ pool' \in [PoolKey -> SUBSET BlockId]
      /\ device_stats' \in Stats /\ undefined' \in BOOLEAN
      /\ ~undefined' => /\ Tiling(block', segment)
                        /\ Kept(rel, block', b)
                        /\ b \in DOMAIN block'
                        /\ PoolsFit(pool', block')
                        /\ \A x \in DOMAIN rel \ DOMAIN block' :
                             ~rel[x].allocated /\ rel[x].event_cnt = 0
  BY <1>1, <1>3, <1>4, <1>6, FreeBlockStep
<1>8. TypeOK'
  BY <1>7, <1>4 DEF TypeOK, BlockMap, graphVars
<1>9. ASSUME ~undefined' PROVE Safe'
  <2>1. /\ Tiling(block', segment') /\ PoolsFit(pool', block') /\ Kept(rel, block', b)
        /\ \A x \in DOMAIN rel \ DOMAIN block' : ~rel[x].allocated /\ rel[x].event_cnt = 0
    BY <1>4, <1>7, <1>9
  <2>2. AllocFits(allocated_blocks', block')
    <3>1. \A a \in DOMAIN allocated_blocks' :
            /\ a \in DOMAIN allocated_blocks /\ a # buffer
            /\ allocated_blocks'[a] = allocated_blocks[a]
      BY <1>4
    <3>2. ASSUME NEW a \in DOMAIN allocated_blocks'
          PROVE  /\ allocated_blocks'[a] \in DOMAIN block'
                 /\ block'[allocated_blocks'[a]].buffer = a
                 /\ block'[allocated_blocks'[a]].allocated
      <4> DEFINE x == allocated_blocks[a]
      <4>1. /\ allocated_blocks'[a] = x
            /\ x \in DOMAIN block /\ block[x].buffer = a /\ block[x].allocated
        BY <3>1, <1>2 DEF AllocFits
      <4>2. x # b
        BY <4>1, <3>1, <1>1
      <4>3. rel[x].allocated /\ rel[x].buffer = a
        BY <4>1, <4>2, <1>1 DEF SameShape
      <4>4. x \in DOMAIN block'
        BY <4>1, <4>3, <2>1, <1>5
      <4> QED BY <4>1, <4>2, <4>3, <4>4, <2>1 DEF Kept
    <3>3. ASSUME NEW x \in DOMAIN block'
          PROVE  IF block'[x].allocated
                 THEN /\ block'[x].buffer \in DOMAIN allocated_blocks'
                      /\ allocated_blocks'[block'[x].buffer] = x
                 ELSE block'[x].queue_uses = {}
      <4>1. /\ x \in DOMAIN block
            /\ block'[x].allocated = rel[x].allocated
            /\ block'[x].queue_uses = rel[x].queue_uses
            /\ x # b => block'[x].buffer = rel[x].buffer
        BY <2>1, <1>5 DEF Kept
      <4>2. CASE x = b
        BY <4>1, <4>2, <1>1
      <4>3. CASE x # b
        <5>1. /\ rel[x].allocated = block[x].allocated
              /\ rel[x].queue_uses = block[x].queue_uses
              /\ rel[x].buffer = block[x].buffer
          <6>1. block[x].allocated \in BOOLEAN
            BY <4>1 DEF TypeOK, Block
          <6> QED BY <6>1, <4>1, <4>3, <1>1 DEF SameShape
        <5>2. CASE block'[x].allocated
          <6>1. /\ block[x].buffer \in DOMAIN allocated_blocks
                /\ allocated_blocks[block[x].buffer] = x
            BY <5>1, <5>2, <4>1, <1>2 DEF AllocFits
          <6>2. block[x].buffer # buffer
            BY <6>1, <4>3
          <6> QED BY <6>1, <6>2, <5>1, <4>1, <4>3, <1>4, <5>2
        <5>3. CASE ~block'[x].allocated
          BY <5>1, <5>3, <4>1, <1>2 DEF AllocFits
        <5> QED BY <5>2, <5>3
      <4> QED BY <4>2, <4>3
    <3> QED BY <3>2, <3>3 DEF AllocFits
  <2>3. EventsFit(dpcpp_events', block')
    <3>1. \A j \in DOMAIN dpcpp_events :
            /\ dpcpp_events[j].block \in DOMAIN block
            /\ ~block[dpcpp_events[j].block].allocated
            /\ block[dpcpp_events[j].block].event_cnt > 0
      <4> SUFFICES ASSUME NEW j \in DOMAIN dpcpp_events
          PROVE  /\ dpcpp_events[j].block \in DOMAIN block
                 /\ ~block[dpcpp_events[j].block].allocated
                 /\ block[dpcpp_events[j].block].event_cnt > 0
        OBVIOUS
      <4>1. dpcpp_events[j] \in Event
        BY <1>3
      <4>2. dpcpp_events[j].queue \in QueuesIn(dpcpp_events, dpcpp_events[j].block)
        BY <4>1 DEF QueuesIn, Event
      <4> QED BY <4>2, <1>2, QueueCount DEF EventsFit
    <3>2. \A j \in DOMAIN dpcpp_events :
            /\ dpcpp_events[j].block \in DOMAIN block'
            /\ ~block'[dpcpp_events[j].block].allocated
      <4> SUFFICES ASSUME NEW j \in DOMAIN dpcpp_events
          PROVE  /\ dpcpp_events[j].block \in DOMAIN block'
                 /\ ~block'[dpcpp_events[j].block].allocated
        OBVIOUS
      <4> DEFINE x == dpcpp_events[j].block
      <4>1. x \in DOMAIN block /\ ~block[x].allocated /\ block[x].event_cnt > 0
        BY <3>1
      <4>2. ~rel[x].allocated /\ rel[x].event_cnt > 0 /\ x \in DOMAIN rel
        BY <4>1, <1>1, <1>5
      <4>3. x \in DOMAIN block'
        BY <4>2, <2>1
      <4> QED BY <4>2, <4>3, <2>1 DEF Kept
    <3>3. \A x \in DOMAIN block' : block'[x].event_cnt = Cardinality(QueuesIn(dpcpp_events, x))
      BY <2>1, <1>1, <1>2, <1>5 DEF Kept, EventsFit
    <3> QED BY <3>2, <3>3, <1>2, <1>4 DEF EventsFit
  <2>4. InHand'
    BY <1>2, <1>4 DEF InHand, OpSize
  <2> QED
    BY <2>1, <2>2, <2>3, <2>4
       DEF Safe, Tiling, Places, AllocFits, PoolsFit, EventsCounted, EventsFit,
           DistinctEvents, EventQueues
<1> QED BY <1>8, <1>9

\* free, when other queues used the block: the block leaves allocated_blocks
\* and is in the hands of insert_events.
LEMMA FreeUsedStep ==
  ASSUME TypeOK, Safe, NEW buffer \in DOMAIN allocated_blocks, FreeUsed(buffer)
  PROVE  TypeOK' /\ Safe'
<1> DEFINE b == allocated_blocks[buffer]
           rel == Released(b)
<1>1. /\ b \in DOMAIN block /\ block[b] \in Block /\ block[b].allocated
      /\ block[b].buffer = buffer /\ block[b].event_cnt = 0
      /\ QueuesIn(dpcpp_events, b) = {}
      /\ \A k \in PoolKey : b \notin pool[k]
      /\ BlockMap(rel) /\ SameShape(block, rel)
      /\ Tiling(rel, segment) /\ PoolsFit(pool, rel)
      /\ \A x \in DOMAIN block :
           /\ rel[x].event_cnt = block[x].event_cnt
           /\ rel[x].owner = block[x].owner
           /\ rel[x].allocated = (block[x].allocated /\ x # b)
           /\ rel[x].queue_uses = IF x = b THEN {} ELSE block[x].queue_uses
      /\ FreeStats(b) \in Stats
  BY ReleasedFacts
<1>2. /\ AllocFits(allocated_blocks, block)
      /\ EventsFit(dpcpp_events, block) /\ InHand
  BY SafeParts
<1>3. /\ block' = rel /\ device_stats' = FreeStats(b)
      /\ block[b].queue_uses # {}
      /\ op' = [Idle EXCEPT !.pc = "insert_events", !.block = b, !.todo = block[b].queue_uses]
      /\ allocated_blocks' = [a \in DOMAIN allocated_blocks \ {buffer} |-> allocated_blocks[a]]
      /\ UNCHANGED <<pool, dpcpp_events, segment, graphVars, undefined>>
  BY DEF FreeUsed
<1> HIDE DEF rel
<1>4. DOMAIN rel = DOMAIN block
  BY <1>1 DEF SameShape
<1>5. b \in BlockId /\ block[b].queue_uses \in SUBSET Queue
  BY <1>1 DEF TypeOK, Block
<1>6. /\ op' \in Op /\ op'.pc = "insert_events" /\ op'.block = b
      /\ op'.todo = block[b].queue_uses
  BY <1>3, <1>5, NullAssumption DEF Idle, Op, PC, Owner
<1>7. TypeOK'
  BY <1>1, <1>3, <1>6 DEF TypeOK, BlockMap, graphVars
<1>8. AllocFits(allocated_blocks', block')
  <2>1. ASSUME NEW a \in DOMAIN allocated_blocks'
        PROVE  /\ allocated_blocks'[a] \in DOMAIN block'
               /\ block'[allocated_blocks'[a]].buffer = a
               /\ block'[allocated_blocks'[a]].allocated
    <3> DEFINE x == allocated_blocks[a]
    <3>1. a \in DOMAIN allocated_blocks /\ a # buffer /\ allocated_blocks'[a] = x
      BY <1>3
    <3>2. x \in DOMAIN block /\ block[x].buffer = a /\ block[x].allocated
      BY <3>1, <1>2 DEF AllocFits
    <3>3. x # b
      BY <3>1, <3>2, <1>1
    <3>4. rel[x].allocated /\ rel[x].buffer = a
      BY <3>2, <3>3, <1>1 DEF SameShape
    <3> QED BY <3>1, <3>2, <3>4, <1>3, <1>4
  <2>2. ASSUME NEW x \in DOMAIN block'
        PROVE  IF block'[x].allocated
               THEN /\ block'[x].buffer \in DOMAIN allocated_blocks'
                    /\ allocated_blocks'[block'[x].buffer] = x
               ELSE block'[x].queue_uses = {}
    <3>1. x \in DOMAIN block /\ block'[x] = rel[x]
      BY <1>3, <1>4
    <3>2. CASE x = b
      <4>1. ~rel[x].allocated /\ rel[x].queue_uses = {}
        BY <3>1, <3>2, <1>1
      <4> QED BY <3>1, <4>1
    <3>3. CASE x # b
      <4>1. block[x].allocated \in BOOLEAN
        BY <3>1 DEF TypeOK, Block
      <4>2. /\ rel[x].allocated = block[x].allocated
            /\ rel[x].queue_uses = block[x].queue_uses
            /\ rel[x].buffer = block[x].buffer
        BY <4>1, <3>1, <3>3, <1>1 DEF SameShape
      <4>3. CASE block[x].allocated
        <5>1. /\ block[x].buffer \in DOMAIN allocated_blocks
              /\ allocated_blocks[block[x].buffer] = x
          BY <4>3, <3>1, <1>2 DEF AllocFits
        <5> QED BY <5>1, <4>2, <4>3, <3>1, <3>3, <1>3
      <4>4. CASE ~block[x].allocated
        BY <4>2, <4>4, <3>1, <1>2 DEF AllocFits
      <4> QED BY <4>3, <4>4
    <3> QED BY <3>2, <3>3
  <2> QED BY <2>1, <2>2 DEF AllocFits
<1>9. EventsFit(dpcpp_events', block')
  <2>1. \A i \in DOMAIN dpcpp_events : ~rel[dpcpp_events[i].block].allocated
    BY <1>1, <1>2 DEF EventsFit
  <2> QED BY <2>1, <1>1, <1>2, <1>3, <1>4 DEF EventsFit
<1>10. InHand'
  <2>1. /\ op'.block \in DOMAIN block' /\ ~block'[op'.block].allocated
        /\ \A k \in PoolKey : op'.block \notin pool'[k]
    BY <1>1, <1>3, <1>4, <1>6
  <2>2. op'.todo # {} /\ op'.todo \cap QueuesIn(dpcpp_events', op'.block) = {}
    BY <1>1, <1>3, <1>6
  <2> QED BY <2>1, <2>2, <1>6 DEF InHand, EventQueues
<1>11. Tiling(block', segment') /\ PoolsFit(pool', block')
  BY <1>1, <1>3
<1> QED
  BY <1>7, <1>8, <1>9, <1>10, <1>11
     DEF Safe, Tiling, Places, AllocFits, PoolsFit, EventsCounted, EventsFit,
         DistinctEvents, EventQueues

\* insert_events appends the event of a queue that has none for the block.
LEMMA AppendEvent ==
  ASSUME NEW events \in Seq(Event), DistinctEvents(events), NEW e \in Event,
         e.queue \notin QueuesIn(events, e.block)
  PROVE  LET more == Append(events, e)
         IN  /\ more \in Seq(Event)
             /\ DistinctEvents(more)
             /\ \A i \in DOMAIN more : \/ i \in DOMAIN events /\ more[i] = events[i]
                                       \/ more[i] = e
             /\ \A b : QueuesIn(more, b) =
                  IF b = e.block THEN QueuesIn(events, b) \cup {e.queue}
                                 ELSE QueuesIn(events, b)
<1> DEFINE more == Append(events, e)
           len == Len(events)
<1>1. /\ len \in Nat /\ DOMAIN events = 1..len /\ more \in Seq(Event)
      /\ DOMAIN more = 1..(len + 1) /\ more[len + 1] = e
      /\ \A i \in 1..len : more[i] = events[i]
  OBVIOUS
<1> HIDE DEF more
<1>2. \A i \in 1..(len + 1) : i \in 1..len \/ i = len + 1
  BY <1>1
<1>3. \A i \in 1..len : events[i].queue \in Queue
  <2>1. \A i \in 1..len : events[i] \in Event
    BY <1>1
  <2> QED BY <2>1 DEF Event
<1>4. DistinctEvents(more)
  <2> SUFFICES ASSUME NEW i \in 1..(len + 1), NEW j \in 1..(len + 1),
                      more[i].block = more[j].block, more[i].queue = more[j].queue
               PROVE  i = j
    BY <1>1 DEF DistinctEvents
  <2>1. ASSUME NEW k \in 1..len, events[k].block = e.block, events[k].queue = e.queue
        PROVE  FALSE
    BY <2>1, <1>1, <1>3 DEF QueuesIn
  <2> QED BY <2>1, <1>1, <1>2 DEF DistinctEvents
<1>5. ASSUME NEW b
      PROVE  QueuesIn(more, b) = IF b = e.block THEN QueuesIn(events, b) \cup {e.queue}
                                 ELSE QueuesIn(events, b)
  <2>1. \A q \in QueuesIn(events, b) : q \in QueuesIn(more, b)
    BY <1>1 DEF QueuesIn
  <2>2. b = e.block => e.queue \in QueuesIn(more, b)
    BY <1>1 DEF QueuesIn, Event
  <2>3. ASSUME NEW q \in QueuesIn(more, b)
        PROVE  q \in QueuesIn(events, b) \/ (b = e.block /\ q = e.queue)
    <3>1. q \in Queue /\ \E i \in DOMAIN more : more[i].block = b /\ more[i].queue = q
      BY DEF QueuesIn
    <3>2. PICK i \in 1..(len + 1) : more[i].block = b /\ more[i].queue = q
      BY <3>1, <1>1
    <3>3. CASE i \in 1..len
      BY <3>1, <3>2, <3>3, <1>1 DEF QueuesIn
    <3>4. CASE i = len + 1
      BY <3>2, <3>4, <1>1
    <3> QED BY <3>3, <3>4, <1>2
  <2> QED BY <2>1, <2>2, <2>3
<1> QED BY <1>1, <1>2, <1>4, <1>5 DEF more

\* One iteration of insert_events: the count of the block follows the deque.
LEMMA InsertEventStep ==
  ASSUME TypeOK, Safe, InsertEvent
  PROVE  TypeOK' /\ Safe'
<1> DEFINE b == op.block
<1>1. /\ Tiling(block, segment)
      /\ AllocFits(allocated_blocks, block) /\ PoolsFit(pool, block)
      /\ EventsFit(dpcpp_events, block) /\ InHand
  BY SafeParts
<1>2. op.pc = "insert_events"
  BY DEF InsertEvent, At
<1>3. /\ b \in DOMAIN block /\ ~block[b].allocated
      /\ \A k \in PoolKey : b \notin pool[k]
      /\ op.todo \cap QueuesIn(dpcpp_events, b) = {}
  BY <1>1, <1>2 DEF InHand, EventQueues
<1>4. PICK q \in op.todo :
       /\ dpcpp_events' = Append(dpcpp_events, [block |-> b, queue |-> q, done |-> FALSE])
       /\ block' = [block EXCEPT ![b].event_cnt = @ + 1]
       /\ op' = IF op.todo = {q} THEN Idle ELSE [op EXCEPT !.todo = @ \ {q}]
  BY DEF InsertEvent
<1>5. UNCHANGED <<pool, allocated_blocks, segment, graphVars, device_stats, undefined>>
  BY DEF InsertEvent
<1> DEFINE e == [block |-> b, queue |-> q, done |-> FALSE]
<1>6. BlockMap(block) /\ dpcpp_events \in Seq(Event) /\ op \in Op
  BY DEF TypeOK, BlockMap
<1>7. e \in Event /\ e.block = b /\ e.queue = q
  <2>1. b \in BlockId /\ q \in Queue
    BY <1>3, <1>6 DEF BlockMap, Op
  <2> QED BY <2>1 DEF Event
<1> HIDE DEF e
<1>8. /\ dpcpp_events' \in Seq(Event) /\ DistinctEvents(dpcpp_events')
      /\ \A i \in DOMAIN dpcpp_events' :
           \/ i \in DOMAIN dpcpp_events /\ dpcpp_events'[i] = dpcpp_events[i]
           \/ dpcpp_events'[i] = e
      /\ \A x : QueuesIn(dpcpp_events', x) =
                  IF x = b THEN QueuesIn(dpcpp_events, x) \cup {q}
                           ELSE QueuesIn(dpcpp_events, x)
  <2>1. dpcpp_events' = Append(dpcpp_events, e)
    BY <1>4 DEF e
  <2>2. e.queue \notin QueuesIn(dpcpp_events, e.block)
    BY <1>3, <1>7
  <2>3. DistinctEvents(dpcpp_events)
    BY <1>1 DEF EventsFit
  <2> QED BY <2>1, <2>2, <2>3, <1>6, <1>7, AppendEvent
<1>9. block[b] \in Block /\ block[b].event_cnt \in Nat
  BY <1>3, <1>6 DEF BlockMap, Block
<1>10. /\ DOMAIN block' = DOMAIN block
       /\ block'[b] = [block[b] EXCEPT !.event_cnt = block[b].event_cnt + 1]
       /\ \A x \in DOMAIN block : x # b => block'[x] = block[x]
  BY <1>3, <1>4
<1>11. BlockMap(block')
  <2>1. block'[b] \in Block
    BY <1>9, <1>10 DEF Block
  <2>2. block' = [x \in DOMAIN block' |-> block'[x]]
    BY <1>4
  <2> QED BY <2>1, <2>2, <1>6, <1>10 DEF BlockMap
<1>12. \A x \in DOMAIN block :
         /\ block'[x].device = block[x].device /\ block'[x].queue = block[x].queue
         /\ block'[x].queue_uses = block[x].queue_uses /\ block'[x].size = block[x].size
         /\ block'[x].pool_type = block[x].pool_type /\ block'[x].buffer = block[x].buffer
         /\ block'[x].allocated = block[x].allocated /\ block'[x].prev = block[x].prev
         /\ block'[x].next = block[x].next
         /\ block'[x].event_cnt = IF x = b THEN block[b].event_cnt + 1 ELSE block[x].event_cnt
  BY <1>9, <1>10 DEF Block
<1>13. Tiling(block', segment')
  <2>1. SameShape(block, block')
    BY <1>10, <1>12 DEF SameShape
  <2> QED BY <2>1, <1>1, <1>5, TilingSameShape
<1>14. AllocFits(allocated_blocks', block')
  BY <1>1, <1>5, <1>10, <1>12 DEF AllocFits
<1>15. PoolsFit(pool', block')
  BY <1>1, <1>3, <1>5, <1>10, <1>12 DEF PoolsFit
<1>16. EventsFit(dpcpp_events', block')
  <2>1. Cardinality(QueuesIn(dpcpp_events, b) \cup {q}) = block[b].event_cnt + 1
    <3>1. q \notin QueuesIn(dpcpp_events, b)
      BY <1>3
    <3>2. IsFiniteSet(QueuesIn(dpcpp_events, b))
      BY QueueCount
    <3>3. block[b].event_cnt = Cardinality(QueuesIn(dpcpp_events, b))
      BY <1>1, <1>3 DEF EventsFit
    <3> QED BY <3>1, <3>2, <3>3, FS_AddElement
  <2>2. \A x \in DOMAIN block' : block'[x].event_cnt = Cardinality(QueuesIn(dpcpp_events', x))
    BY <2>1, <1>1, <1>8, <1>10, <1>12 DEF EventsFit
  <2>3. \A i \in DOMAIN dpcpp_events' :
          dpcpp_events'[i].block \in DOMAIN block' /\ ~block'[dpcpp_events'[i].block].allocated
    BY <1>1, <1>3, <1>7, <1>8, <1>10, <1>12 DEF EventsFit
  <2> QED BY <2>2, <2>3, <1>8 DEF EventsFit
<1>17. op' \in Op
  BY <1>4, <1>6, NullAssumption DEF Op, Idle, PC, Owner
<1>18. InHand'
  <2>1. CASE op.todo = {q}
    BY <2>1, <1>4 DEF InHand, Idle
  <2>2. CASE op.todo # {q}
    <3>1. /\ op'.pc = "insert_events" /\ op'.block = b /\ op'.todo = op.todo \ {q}
          /\ op'.todo # {}
      BY <2>2, <1>2, <1>4, <1>6 DEF Op
    <3>2. op'.todo \cap QueuesIn(dpcpp_events', b) = {}
      BY <3>1, <1>3, <1>8
    <3> QED BY <3>1, <3>2, <1>3, <1>5, <1>10, <1>12 DEF InHand, EventQueues
  <2> QED BY <2>1, <2>2
<1>19. TypeOK'
  BY <1>5, <1>8, <1>11, <1>17 DEF TypeOK, BlockMap, graphVars
<1> QED
  BY <1>13, <1>14, <1>15, <1>16, <1>18, <1>19
     DEF Safe, Tiling, Places, AllocFits, PoolsFit, EventsCounted, EventsFit,
         DistinctEvents, EventQueues

\* recordQueue only touches m_queue_uses of an allocated block.
LEMMA RecordQueueStep ==
  ASSUME TypeOK, Safe, NEW buffer \in DOMAIN allocated_blocks, NEW q \in Queue,
         RecordQueue(buffer, q)
  PROVE  TypeOK' /\ Safe'
<1> DEFINE b == allocated_blocks[buffer]
<1>1. /\ Tiling(block, segment)
      /\ AllocFits(allocated_blocks, block) /\ PoolsFit(pool, block)
      /\ EventsFit(dpcpp_events, block) /\ InHand
  BY SafeParts
<1>2. /\ block' = [block EXCEPT ![b].queue_uses = @ \cup {q}] /\ op.pc = "idle"
      /\ UNCHANGED <<pool, allocated_blocks, dpcpp_events, segment, graphVars,
                     device_stats, op, undefined>>
  BY DEF RecordQueue, At
<1>3. BlockMap(block)
  BY DEF TypeOK, BlockMap
<1>4. b \in DOMAIN block /\ block[b].allocated /\ block[b] \in Block
      /\ block[b].queue_uses \cup {q} \in SUBSET Queue
  BY <1>1, <1>3 DEF AllocFits, BlockMap, Block
<1>5. /\ DOMAIN block' = DOMAIN block
      /\ block'[b] = [block[b] EXCEPT !.queue_uses = block[b].queue_uses \cup {q}]
      /\ \A x \in DOMAIN block : x # b => block'[x] = block[x]
  BY <1>2, <1>4
<1>6. BlockMap(block')
  <2>1. block'[b] \in Block
    BY <1>4, <1>5 DEF Block
  <2>2. block' = [x \in DOMAIN block' |-> block'[x]]
    BY <1>2
  <2> QED BY <2>1, <2>2, <1>3, <1>5 DEF BlockMap
<1>7. \A x \in DOMAIN block :
         /\ block'[x].device = block[x].device /\ block'[x].queue = block[x].queue
         /\ x # b => block'[x].queue_uses = block[x].queue_uses
         /\ block'[x].size = block[x].size
         /\ block'[x].pool_type = block[x].pool_type /\ block'[x].buffer = block[x].buffer
         /\ block'[x].allocated = block[x].allocated /\ block'[x].prev = block[x].prev
         /\ block'[x].next = block[x].next /\ block'[x].event_cnt = block[x].event_cnt
  BY <1>4, <1>5 DEF Block
<1>8. Tiling(block', segment')
  <2>1. SameShape(block, block')
    BY <1>5, <1>7 DEF SameShape
  <2> QED BY <2>1, <1>1, <1>2, TilingSameShape
<1>9. AllocFits(allocated_blocks', block')
  BY <1>1, <1>2, <1>4, <1>5, <1>7 DEF AllocFits
<1>10. PoolsFit(pool', block') /\ EventsFit(dpcpp_events', block')
  BY <1>1, <1>2, <1>5, <1>7 DEF PoolsFit, EventsFit
<1>11. InHand'
  BY <1>1, <1>2 DEF InHand
<1>12. TypeOK'
  BY <1>2, <1>6 DEF TypeOK, BlockMap, graphVars
<1> QED
  BY <1>8, <1>9, <1>10, <1>11, <1>12
     DEF Safe, Tiling, Places, AllocFits, PoolsFit, EventsCounted, EventsFit,
         DistinctEvents, EventQueues

-----------------------------------------------------------------------------
(* Sizes and pool keys of malloc. *)

\* Rounding up never goes below the argument.
LEMMA RoundUpBound ==
  ASSUME NEW n \in Nat, NEW u \in Nat \ {0}
  PROVE  RoundUp(n, u) \in Nat /\ RoundUp(n, u) >= n
<1> DEFINE q == (n + u - 1) \div u
<1>1. q \in Int /\ q >= 0 /\ u * q > n - 1 /\ u * q \in Int
  OBVIOUS
<1> HIDE DEF q
<1>2. u * q >= n /\ u * q \in Nat
  BY <1>1
<1> QED BY <1>2 DEF RoundUp, q

\* malloc works with a positive size.
LEMMA OpSizeType ==
  ASSUME op \in Op
  PROVE  OpSize \in Nat /\ OpSize > 0
<1>1. op.asize \in Nat
  BY DEF Op
<1>2. kMinBlockSize \in Nat /\ kMinBlockSize > 0
  BY SizesAssumption
<1>3. RoundUp(op.asize, kMinBlockSize) \in Nat /\ RoundUp(op.asize, kMinBlockSize) >= op.asize
  BY <1>1, <1>2, RoundUpBound
<1> QED BY <1>1, <1>2, <1>3 DEF OpSize, RoundSize

\* The segment malloc asks for is large enough for the block.
LEMMA AllocSizeBound ==
  ASSUME NEW n \in Nat
  PROVE  AllocSize(n) \in Nat /\ AllocSize(n) >= n
<1>1. RoundUp(n, kRoundLarge) \in Nat /\ RoundUp(n, kRoundLarge) >= n
  BY SizesAssumption, RoundUpBound
<1> QED BY <1>1, SizesAssumption DEF AllocSize

\* The loop over recordings_underway finds a private pool or none.
LEMMA PrivatePoolType ==
  ASSUME TypeOK, NEW o
  PROVE  PrivatePool(o) \in Owner
<1> DEFINE matching == {i \in DOMAIN recordings_underway :
                          recordings_underway[i].filter = o}
           last == {i \in matching : \A j \in matching : j <= i}
<1>1. last \subseteq DOMAIN recordings_underway
  OBVIOUS
<1>2. \A i \in DOMAIN recordings_underway : recordings_underway[i].pool \in Mempool
  <2>1. recordings_underway \in Seq(Underway)
    BY DEF TypeOK
  <2>2. \A i \in DOMAIN recordings_underway : recordings_underway[i] \in Underway
    BY <2>1
  <2> QED BY <2>2 DEF Underway
<1>3. PrivatePool(o) = IF last = {} THEN NULL
                       ELSE recordings_underway[CHOOSE i \in last : TRUE].pool
  BY DEF PrivatePool
<1> HIDE DEF last
<1>4. CASE last = {}
  BY <1>4, <1>3 DEF Owner
<1>5. CASE last # {}
  <2>1. (CHOOSE i \in last : TRUE) \in last
    BY <1>5
  <2> QED BY <2>1, <1>5, <1>1, <1>2, <1>3 DEF Owner
<1> QED BY <1>4, <1>5

\* The pool malloc searches exists.
LEMMA OpKeyType ==
  ASSUME TypeOK
  PROVE  /\ OpKey \in PoolKey /\ OpKey[1] \in Owner /\ OpKey[2] = PoolTypeOf(OpSize)
         /\ PoolTypeOf(OpSize) \in PoolType
<1>4. op.owner \in Owner
  BY DEF TypeOK, Op
<1>5. PoolTypeOf(OpSize) \in PoolType
  BY DEF PoolTypeOf, PoolType
<1> QED BY <1>4, <1>5 DEF OpKey, PoolKey

\* Both blocks of a split are non-empty.
LEMMA SplitRemainder ==
  ASSUME NEW b, b.size \in Nat, NEW size \in Nat, ShouldSplit(b, size)
  PROVE  b.size > size
  BY SizesAssumption DEF ShouldSplit

\* should_split is a Boolean.
LEMMA SplitBoolean ==
  ASSUME NEW b, b.size \in Nat, NEW size \in Nat
  PROVE  ShouldSplit(b, size) \in BOOLEAN
<1>1. (b.size - size >= kMinBlockSize) \in BOOLEAN /\ (b.size - size > kSmallSize) \in BOOLEAN
  BY SizesAssumption
<1> QED BY <1>1 DEF ShouldSplit

\* The same range of the same queue.
SameRange(x, y) ==
  /\ x.device = y.device /\ x.queue = y.queue /\ x.size = y.size
  /\ x.buffer = y.buffer /\ x.pool_type = y.pool_type

\* m is `blocks` with block id of the given size split off the front of b.
SplitOff(blocks, m, b, id, size) ==
  /\ DOMAIN m = DOMAIN blocks \cup {id}
  /\ m[id].size = size /\ m[id].buffer = blocks[b].buffer
  /\ m[id].prev = blocks[b].prev /\ m[id].next = b
  /\ m[id].device = blocks[b].device /\ m[id].queue = blocks[b].queue
  /\ m[id].pool_type = blocks[b].pool_type
  /\ m[b].size = blocks[b].size - size /\ m[b].buffer = blocks[b].buffer + size
  /\ m[b].prev = id /\ m[b].next = blocks[b].next
  /\ m[b].device = blocks[b].device /\ m[b].queue = blocks[b].queue
  /\ m[b].pool_type = blocks[b].pool_type
  /\ \A x \in DOMAIN blocks : x # b =>
       /\ SameRange(m[x], blocks[x]) /\ m[x].prev = blocks[x].prev
       /\ m[x].next = IF x = blocks[b].prev THEN id ELSE blocks[x].next

\* Inserting a block in front of b, at the expense of b, keeps the tiling.
LEMMA SplitTiling ==
  ASSUME NEW blocks, BlockMap(blocks), NEW segs \in SUBSET Segment,
         Tiling(blocks, segs),
         NEW b \in DOMAIN blocks, NEW id \in BlockId, id \notin DOMAIN blocks,
         NEW size \in Nat, size > 0, blocks[b].size > size,
         NEW m, SplitOff(blocks, m, b, id, size)
  PROVE  Tiling(m, segs)
<1> USE DEF SplitOff
<1> DEFINE p == blocks[b].prev
<1>1. \A x \in DOMAIN blocks : blocks[x].buffer \in Nat /\ blocks[x].size \in Nat
  BY DEF BlockMap, Block
<1>2. NULL \notin DOMAIN blocks /\ id # NULL
  BY NullAssumption DEF BlockMap
<1>3. p # NULL => /\ p \in DOMAIN blocks /\ blocks[p].next = b /\ p # b
                  /\ blocks[b].buffer = blocks[p].buffer + blocks[p].size
                  /\ blocks[p].device = blocks[b].device
                  /\ blocks[p].queue = blocks[b].queue
                  /\ blocks[p].pool_type = blocks[b].pool_type
  <2>1. SUFFICES ASSUME p # NULL
        PROVE  /\ p \in DOMAIN blocks /\ blocks[p].next = b /\ p # b
               /\ blocks[b].buffer = blocks[p].buffer + blocks[p].size
               /\ blocks[p].device = blocks[b].device
               /\ blocks[p].queue = blocks[b].queue
               /\ blocks[p].pool_type = blocks[b].pool_type
    OBVIOUS
  <2>2. p \in DOMAIN blocks /\ blocks[p].next = b
    BY <2>1 DEF Tiling, Linked
  <2>3. /\ blocks[b].buffer = blocks[p].buffer + blocks[p].size
        /\ blocks[p].device = blocks[b].device /\ blocks[p].queue = blocks[b].queue
        /\ blocks[p].pool_type = blocks[b].pool_type /\ blocks[p].size > 0
    BY <2>2, <1>2 DEF Tiling, Linked
  <2> QED BY <2>2, <2>3, <1>1
<1>4. \A x \in DOMAIN blocks : x # b /\ x # p => m[x].next = blocks[x].next
  OBVIOUS
<1>5. \A x \in DOMAIN blocks : x # id
  OBVIOUS
<1>6. Linked(m)
  <2> SUFFICES ASSUME NEW x \in DOMAIN m
      PROVE  /\ m[x].size > 0
             /\ m[x].next # NULL =>
                 /\ m[x].next \in DOMAIN m
                 /\ m[m[x].next].prev = x
                 /\ m[m[x].next].buffer = m[x].buffer + m[x].size
                 /\ m[m[x].next].device = m[x].device
                 /\ m[m[x].next].queue = m[x].queue
                 /\ m[m[x].next].pool_type = m[x].pool_type
             /\ m[x].prev # NULL => m[x].prev \in DOMAIN m /\ m[m[x].prev].next = x
    BY DEF Linked
  <2>1. CASE x = id
    BY <2>1, <1>1, <1>3
  <2>2. CASE x = b
    <3>1. m[x].size > 0
      BY <2>2, <1>1
    <3>2. m[x].prev # NULL => m[x].prev \in DOMAIN m /\ m[m[x].prev].next = x
      BY <2>2
    <3>3. m[x].next # NULL =>
                 /\ m[x].next \in DOMAIN m
                 /\ m[m[x].next].prev = x
                 /\ m[m[x].next].buffer = m[x].buffer + m[x].size
                 /\ m[m[x].next].device = m[x].device
                 /\ m[m[x].next].queue = m[x].queue
                 /\ m[m[x].next].pool_type = m[x].pool_type
      <4>1. SUFFICES ASSUME blocks[b].next # NULL PROVE
                 /\ m[x].next \in DOMAIN m
                 /\ m[m[x].next].prev = x
                 /\ m[m[x].next].buffer = m[x].buffer + m[x].size
                 /\ m[m[x].next].device = m[x].device
                 /\ m[m[x].next].queue = m[x].queue
                 /\ m[m[x].next].pool_type = m[x].pool_type
        BY <2>2
      <4> DEFINE y == blocks[b].next
      <4>2. /\ y \in DOMAIN blocks /\ blocks[y].prev = b
            /\ blocks[y].buffer = blocks[b].buffer + blocks[b].size
            /\ blocks[y].device = blocks[b].device
            /\ blocks[y].queue = blocks[b].queue
            /\ blocks[y].pool_type = blocks[b].pool_type
            /\ blocks[b].size > 0
        BY <4>1 DEF Tiling, Linked
      <4>3. y # b
        BY <4>2, <1>1
      <4>4. /\ m[y].prev = b /\ m[y].buffer = blocks[y].buffer
            /\ m[y].device = blocks[y].device /\ m[y].queue = blocks[y].queue
            /\ m[y].pool_type = blocks[y].pool_type
        BY <4>2, <4>3 DEF SameRange
      <4>5. m[x].buffer + m[x].size = blocks[b].buffer + blocks[b].size
        BY <2>2, <1>1
      <4> QED BY <4>2, <4>4, <4>5, <2>2
    <3> QED BY <3>1, <3>2, <3>3
  <2>3. CASE x # id /\ x # b
    <3>0. x \in DOMAIN blocks /\ SameRange(m[x], blocks[x]) /\ m[x].prev = blocks[x].prev
          /\ m[x].next = IF x = p THEN id ELSE blocks[x].next
      BY <2>3
    <3>1. m[x].size > 0
      BY <3>0 DEF Tiling, Linked, SameRange
    <3>2. m[x].prev # NULL => m[x].prev \in DOMAIN m /\ m[m[x].prev].next = x
      <4>1. SUFFICES ASSUME blocks[x].prev # NULL
            PROVE  blocks[x].prev \in DOMAIN m /\ m[blocks[x].prev].next = x
        BY <3>0
      <4>2. blocks[x].prev \in DOMAIN blocks /\ blocks[blocks[x].prev].next = x
        BY <4>1, <3>0 DEF Tiling, Linked
      <4>3. blocks[x].prev # p
        BY <4>1, <4>2, <1>3, <2>3
      <4>4. CASE blocks[x].prev = b
        BY <4>2, <4>4
      <4>5. CASE blocks[x].prev # b
        BY <4>2, <4>3, <4>5
      <4> QED BY <4>4, <4>5
    <3>3. m[x].next # NULL =>
                 /\ m[x].next \in DOMAIN m
                 /\ m[m[x].next].prev = x
                 /\ m[m[x].next].buffer = m[x].buffer + m[x].size
                 /\ m[m[x].next].device = m[x].device
                 /\ m[m[x].next].queue = m[x].queue
                 /\ m[m[x].next].pool_type = m[x].pool_type
      <4>1. CASE x = p
        <5>1. p # NULL /\ m[x].next = id
          BY <4>1, <3>0, <1>2
        <5> QED BY <5>1, <4>1, <3>0, <1>3 DEF SameRange
      <4>2. CASE x # p
        <5>1. SUFFICES ASSUME blocks[x].next # NULL PROVE
                 /\ m[x].next \in DOMAIN m
                 /\ m[m[x].next].prev = x
                 /\ m[m[x].next].buffer = m[x].buffer + m[x].size
                 /\ m[m[x].next].device = m[x].device
                 /\ m[m[x].next].queue = m[x].queue
                 /\ m[m[x].next].pool_type = m[x].pool_type
          BY <4>2, <3>0
        <5> DEFINE y == blocks[x].next
        <5>2. /\ y \in DOMAIN blocks /\ blocks[y].prev = x
              /\ blocks[y].buffer = blocks[x].buffer + blocks[x].size
              /\ blocks[y].device = blocks[x].device
              /\ blocks[y].queue = blocks[x].queue
              /\ blocks[y].pool_type = blocks[x].pool_type
          BY <5>1, <3>0 DEF Tiling, Linked
        <5>3. y # b
          BY <5>2, <4>2
        <5>4. SameRange(m[y], blocks[y]) /\ m[y].prev = x /\ y \in DOMAIN m
          BY <5>2, <5>3
        <5>5. m[x].next = y
          BY <4>2, <3>0
        <5> QED BY <5>2, <5>4, <5>5, <3>0 DEF SameRange
      <4> QED BY <4>1, <4>2
    <3> QED BY <3>1, <3>2, <3>3
  <2> QED BY <2>1, <2>2, <2>3
<1>7. InSegments(m, segs)
  <2> SUFFICES ASSUME NEW x \in DOMAIN m
      PROVE  \E s \in segs : Within(m[x], s)
    BY DEF InSegments
  <2>1. PICK s \in segs : Within(blocks[b], s)
    BY DEF Tiling, InSegments
  <2>2. s.base \in Nat /\ s.size \in Nat
    BY DEF Segment
  <2>3. CASE x = id
    <3>1. b # NULL
      BY <1>2
    <3>2. Within(m[x], s)
      BY <3>1, <2>1, <2>2, <2>3, <1>1 DEF Within
    <3> QED BY <3>2
  <2>4. CASE x = b
    <3>1. Within(m[x], s)
      BY <2>1, <2>2, <2>4, <1>1, <1>2 DEF Within
    <3> QED BY <3>1
  <2>5. CASE x # id /\ x # b
    <3>1. x \in DOMAIN blocks
      BY <2>5
    <3>2. PICK t \in segs : Within(blocks[x], t)
      BY <3>1 DEF Tiling, InSegments
    <3>3. x = p => m[x].next # NULL /\ blocks[x].next # NULL
      BY <3>1, <2>5, <1>2, <1>3
    <3>4. (m[x].next = NULL) <=> (blocks[x].next = NULL)
      BY <3>1, <3>3, <2>5, <1>4
    <3>5. SameRange(m[x], blocks[x]) /\ m[x].prev = blocks[x].prev
      BY <3>1, <2>5
    <3>6. Within(m[x], t)
      BY <3>2, <3>4, <3>5 DEF Within, SameRange
    <3> QED BY <3>6
  <2> QED BY <2>3, <2>4, <2>5
<1>8. Apart(m)
  <2> SUFFICES ASSUME NEW x \in DOMAIN m, NEW y \in DOMAIN m, x # y
      PROVE  ~Overlap(m[x].buffer, m[x].size, m[y].buffer, m[y].size)
    BY DEF Apart
  <2>1. ASSUME NEW z \in DOMAIN blocks, z # b
        PROVE  /\ m[z].buffer = blocks[z].buffer /\ m[z].size = blocks[z].size
               /\ ~Overlap(blocks[b].buffer, blocks[b].size, blocks[z].buffer, blocks[z].size)
               /\ blocks[z].buffer \in Nat /\ blocks[z].size \in Nat /\ blocks[z].size > 0
    BY <2>1, <1>1 DEF Tiling, Apart, SameRange, Linked
  <2>2. blocks[b].buffer \in Nat /\ blocks[b].size \in Nat
    BY <1>1
  <2>3. CASE x \in {id, b} /\ y \in {id, b}
    BY <2>2, <2>3 DEF Overlap
  <2>4. CASE x \in {id, b} /\ y \notin {id, b}
    <3>1. y \in DOMAIN blocks /\ y # b
      BY <2>4
    <3> QED BY <3>1, <2>1, <2>2, <2>4 DEF Overlap
  <2>5. CASE x \notin {id, b} /\ y \in {id, b}
    <3>1. x \in DOMAIN blocks /\ x # b
      BY <2>5
    <3> QED BY <3>1, <2>1, <2>2, <2>5 DEF Overlap
  <2>6. CASE x \notin {id, b} /\ y \notin {id, b}
    <3>1. x \in DOMAIN blocks /\ x # b /\ y \in DOMAIN blocks /\ y # b
      BY <2>6
    <3>2. ~Overlap(blocks[x].buffer, blocks[x].size, blocks[y].buffer, blocks[y].size)
      BY <3>1 DEF Tiling, Apart
    <3> QED BY <3>1, <3>2, <2>1
  <2> QED BY <2>3, <2>4, <2>5, <2>6
<1> QED BY <1>6, <1>7, <1>8 DEF Tiling

\* A block with an event has a positive count.
LEMMA EventCountPositive ==
  ASSUME NEW events \in Seq(Event), NEW blocks, EventsFit(events, blocks),
         NEW i \in DOMAIN events
  PROVE  events[i].block \in DOMAIN blocks /\ blocks[events[i].block].event_cnt > 0
<1>1. events[i] \in Event
  OBVIOUS
<1>2. events[i].queue \in QueuesIn(events, events[i].block)
  BY <1>1 DEF QueuesIn, Event
<1> QED BY <1>2, QueueCount DEF EventsFit

\* All blocks but the one in hand keep their state.
OthersKept ==
  \A x \in DOMAIN block : x # op.block =>
    block'[x].allocated = block[x].allocated /\ block'[x].event_cnt = block[x].event_cnt

\* malloc hands out a new block id, split off the front of the block in hand.
HandsOutFront(id) ==
  /\ id \notin DOMAIN block /\ OpSize < block[op.block].size
  /\ SplitOff(block, block', op.block, id, OpSize)
  /\ block'[id].allocated
  /\ ~block'[op.block].allocated /\ block'[op.block].event_cnt = 0
  /\ OthersKept
  /\ device_stats' = UpdateStats(device_stats, op.device, PoolTypeOf(OpSize),
       [inactive_split |-> IF IsSplit(block[op.block]) THEN 0 ELSE 1,
        inactive_split_bytes |-> IF IsSplit(block[op.block]) THEN -OpSize
                                 ELSE block[op.block].size - OpSize,
        allocation |-> 1, allocated_bytes |-> OpSize,
        active |-> 1, active_bytes |-> OpSize])

\* malloc hands out the block in hand.
HandsOutWhole ==
  /\ SameShape(block, block')
  /\ block'[op.block].allocated
  /\ OthersKept
  /\ device_stats' = UpdateStats(device_stats, op.device, PoolTypeOf(OpSize),
       [inactive_split |-> IF IsSplit(block[op.block]) THEN -1 ELSE 0,
        inactive_split_bytes |-> IF IsSplit(block[op.block]) THEN -block[op.block].size
                                 ELSE 0,
        allocation |-> 1, allocated_bytes |-> block[op.block].size,
        active |-> 1, active_bytes |-> block[op.block].size])

\* The end of malloc, with and without a split.
LEMMA SplitStep ==
  ASSUME TypeOK, Safe, Split
  PROVE  /\ TypeOK' /\ (~undefined' => Safe')
         /\ (\E id \in BlockId : HandsOutFront(id)) \/ HandsOutWhole
<1> DEFINE b    == op.block
           old  == [block[b] EXCEPT !.owner = OpKey[1]]
           cut  == ShouldSplit(old, OpSize)
           id   == IF cut THEN CHOOSE i \in FreeIds : TRUE ELSE b
           made == IF cut
                   THEN [NewBlock(op.device, op.queue, OpSize, OpKey[2], old.buffer)
                           EXCEPT !.prev = old.prev, !.next = b, !.allocated = TRUE]
                   ELSE [old EXCEPT !.allocated = TRUE]
           rest == [old EXCEPT !.prev = id, !.buffer = old.buffer + OpSize,
                               !.size = old.size - OpSize]
<1>1. /\ Tiling(block, segment)
      /\ AllocFits(allocated_blocks, block) /\ PoolsFit(pool, block)
      /\ EventsFit(dpcpp_events, block) /\ InHand
  BY SafeParts
<1>2. /\ BlockMap(block) /\ op \in Op /\ dpcpp_events \in Seq(Event)
      /\ device_stats \in Stats /\ pool \in [PoolKey -> SUBSET BlockId]
      /\ segment \subseteq Segment
      /\ DOMAIN allocated_blocks \subseteq Nat
      /\ allocated_blocks \in [DOMAIN allocated_blocks -> BlockId]
  BY DEF TypeOK, BlockMap
<1>3. /\ op.device \in Device /\ op.queue \in Queue /\ b \in DOMAIN block
      /\ ~block[b].allocated /\ block[b].event_cnt = 0
      /\ \A k \in PoolKey : b \notin pool[k]
      /\ block[b].device = op.device /\ block[b].queue = op.queue
      /\ block[b].pool_type = PoolTypeOf(OpSize) /\ block[b].size >= OpSize
  BY <1>1 DEF Split, At, InHand
<1>4. OpSize \in Nat /\ OpSize > 0
  BY <1>2, OpSizeType
<1>5. /\ OpKey \in PoolKey /\ OpKey[1] \in Owner /\ OpKey[2] = PoolTypeOf(OpSize)
      /\ PoolTypeOf(OpSize) \in PoolType
  BY OpKeyType
<1>6. block[b] \in Block /\ block[b].buffer \in Nat /\ block[b].size \in Nat
      /\ block[b].queue_uses = {}
  BY <1>1, <1>2, <1>3 DEF BlockMap, Block, AllocFits
<1>7. /\ old \in Block
      /\ old.device = block[b].device /\ old.queue = block[b].queue
      /\ old.queue_uses = block[b].queue_uses /\ old.size = block[b].size
      /\ old.pool_type = block[b].pool_type /\ old.buffer = block[b].buffer
      /\ old.allocated = block[b].allocated /\ old.prev = block[b].prev
      /\ old.next = block[b].next /\ old.event_cnt = block[b].event_cnt
  BY <1>5, <1>6 DEF Block, Owner
<1>8. /\ cut => FreeIds # {}
      /\ block' = [x \in DOMAIN block \cup {id} |->
              CASE x = id -> made
                [] x # id /\ x = b -> rest
                [] x # id /\ x # b /\ x = old.prev /\ cut ->
                     [block[x] EXCEPT !.next = id]
                [] OTHER -> block[x]]
      /\ pool' = IF cut THEN [pool EXCEPT ![OpKey] = @ \cup {b}] ELSE pool
      /\ allocated_blocks' =
              [a \in DOMAIN allocated_blocks \cup {made.buffer} |->
                 IF a = made.buffer THEN id ELSE allocated_blocks[a]]
      /\ undefined' = (cut /\ Dangles(OpKey, block))
      /\ op' = Idle
      /\ UNCHANGED <<dpcpp_events, segment, graphVars>>
  BY DEF Split, Return
<1>9. cut => OpSize < block[b].size
  BY <1>4, <1>6, <1>7, SplitRemainder
<1>10. id \in BlockId /\ (cut => id \notin DOMAIN block /\ \A k \in PoolKey : id \notin pool[k])
       /\ (~cut => id = b)
  <2>1. CASE cut
    <3>1. id \in FreeIds
      BY <2>1, <1>8
    <3> QED BY <3>1, <2>1 DEF FreeIds
  <2>2. CASE ~cut
    BY <2>2, <1>2, <1>3 DEF BlockMap
  <2> QED BY <2>1, <2>2
<1>11. cut \in BOOLEAN
  BY <1>4, <1>6, <1>7, SplitBoolean
<1>12. /\ made \in Block /\ made.buffer = block[b].buffer /\ made.allocated
       /\ made.event_cnt = 0
       /\ made.device = block[b].device /\ made.queue = block[b].queue
       /\ made.pool_type = block[b].pool_type /\ made.prev = block[b].prev
       /\ cut => made.size = OpSize /\ made.next = b
       /\ ~cut => made.size = block[b].size /\ made.next = block[b].next
  <2>1. CASE cut
    <3>1. made = [device |-> op.device, queue |-> op.queue, queue_uses |-> {}, size |-> OpSize,
                  pool_type |-> OpKey[2], buffer |-> old.buffer, allocated |-> TRUE,
                  prev |-> old.prev, next |-> b, event_cnt |-> 0, owner |-> NULL]
      BY <2>1 DEF NewBlock
    <3>2. old.buffer \in Nat /\ old.prev \in BlockId \cup {NULL} /\ b \in BlockId
      BY <1>2, <1>3, <1>7 DEF Block, BlockMap
    <3> HIDE DEF made, old, cut
    <3>3. made \in Block
      BY <3>1, <3>2, <1>3, <1>4, <1>5 DEF Block
    <3> QED BY <3>1, <3>3, <2>1, <1>3, <1>5, <1>7
  <2>2. CASE ~cut
    <3>1. made = [old EXCEPT !.allocated = TRUE]
      BY <2>2
    <3> HIDE DEF made, old, cut
    <3>2. made \in Block
      BY <3>1, <1>7 DEF Block
    <3>3. /\ made.device = old.device /\ made.queue = old.queue /\ made.size = old.size
          /\ made.pool_type = old.pool_type /\ made.buffer = old.buffer
          /\ made.allocated /\ made.prev = old.prev /\ made.next = old.next
          /\ made.event_cnt = old.event_cnt
      BY <3>1, <1>7 DEF Block
    <3> QED BY <3>2, <3>3, <2>2, <1>3, <1>7
  <2> QED BY <2>1, <2>2
<1>13. cut => /\ rest \in Block
              /\ rest.prev = id /\ rest.next = block[b].next
              /\ rest.size = block[b].size - OpSize /\ rest.buffer = block[b].buffer + OpSize
              /\ rest.device = block[b].device /\ rest.queue = block[b].queue
              /\ rest.pool_type = block[b].pool_type
              /\ ~rest.allocated /\ rest.event_cnt = 0 /\ rest.queue_uses = {}
  <2>1. SUFFICES ASSUME cut
        PROVE /\ rest \in Block
              /\ rest.prev = id /\ rest.next = block[b].next
              /\ rest.size = block[b].size - OpSize /\ rest.buffer = block[b].buffer + OpSize
              /\ rest.device = block[b].device /\ rest.queue = block[b].queue
              /\ rest.pool_type = block[b].pool_type
              /\ ~rest.allocated /\ rest.event_cnt = 0 /\ rest.queue_uses = {}
    BY <1>11
  <2>2. old.buffer + OpSize \in Nat /\ old.size - OpSize \in Nat
    BY <2>1, <1>4, <1>6, <1>7, <1>9
  <2> HIDE DEF rest, old, id, cut
  <2>3. rest = [device |-> old.device, queue |-> old.queue, queue_uses |-> old.queue_uses,
                size |-> old.size - OpSize, pool_type |-> old.pool_type,
                buffer |-> old.buffer + OpSize, allocated |-> old.allocated,
                prev |-> id, next |-> old.next, event_cnt |-> old.event_cnt,
                owner |-> old.owner]
    <3>1. old \in Block
      BY <1>7
    <3>2. rest = [old EXCEPT !.prev = id, !.buffer = old.buffer + OpSize,
                             !.size = old.size - OpSize]
      BY DEF rest
    <3> QED BY <3>1, <3>2 DEF Block
  <2>4. rest \in Block
    BY <2>2, <2>3, <1>7, <1>10 DEF Block
  <2> QED BY <2>3, <2>4, <1>3, <1>6, <1>7
<1> HIDE DEF rest, made, id, cut
<1>14. /\ DOMAIN block' = DOMAIN block \cup {id} /\ block'[id] = made
       /\ cut => block'[b] = rest
       /\ \A x \in DOMAIN block : x # id /\ x # b =>
            block'[x] = IF x = old.prev /\ cut THEN [block[x] EXCEPT !.next = id] ELSE block[x]
  <2>1. cut => b # id
    BY <1>3, <1>10
  <2> QED BY <2>1, <1>3, <1>8
<1>15. \A x \in DOMAIN block : x # id /\ x # b =>
         /\ block'[x] \in Block
         /\ SameRange(block'[x], block[x]) /\ block'[x].prev = block[x].prev
         /\ block'[x].next = IF x = block[b].prev /\ cut THEN id ELSE block[x].next
         /\ block'[x].allocated = block[x].allocated
         /\ block'[x].event_cnt = block[x].event_cnt
         /\ block'[x].queue_uses = block[x].queue_uses
  <2> SUFFICES ASSUME NEW x \in DOMAIN block, x # id, x # b
      PROVE  /\ block'[x] \in Block
             /\ SameRange(block'[x], block[x]) /\ block'[x].prev = block[x].prev
             /\ block'[x].next = IF x = block[b].prev /\ cut THEN id ELSE block[x].next
             /\ block'[x].allocated = block[x].allocated
             /\ block'[x].event_cnt = block[x].event_cnt
             /\ block'[x].queue_uses = block[x].queue_uses
    OBVIOUS
  <2>1. block[x] \in Block
    BY <1>2 DEF BlockMap
  <2>2. CASE x = old.prev /\ cut
    <3>1. block'[x] = [block[x] EXCEPT !.next = id]
      BY <2>2, <1>14
    <3> HIDE DEF old
    <3> QED BY <3>1, <2>1, <2>2, <1>7, <1>10 DEF Block, SameRange
  <2>3. CASE ~(x = old.prev /\ cut)
    <3>1. block'[x] = block[x]
      BY <2>3, <1>14
    <3> QED BY <3>1, <2>1, <2>3, <1>7 DEF SameRange
  <2> QED BY <2>2, <2>3
<1>16. BlockMap(block')
  <2>1. \A x \in DOMAIN block' : block'[x] \in Block
    BY <1>10, <1>12, <1>13, <1>14, <1>15
  <2>2. block' = [x \in DOMAIN block' |-> block'[x]]
    BY <1>8, <1>14
  <2> QED BY <2>1, <2>2, <1>2, <1>10, <1>14 DEF BlockMap
<1>17. /\ cut => SplitOff(block, block', b, id, OpSize)
       /\ ~cut => SameShape(block, block')
  <2>1. CASE cut
    <3>1. /\ id \notin DOMAIN block /\ id # b /\ block'[b] = rest
      BY <2>1, <1>3, <1>10, <1>14
    <3>2. \A x \in DOMAIN block : x # b =>
           /\ SameRange(block'[x], block[x]) /\ block'[x].prev = block[x].prev
           /\ block'[x].next = IF x = block[b].prev THEN id ELSE block[x].next
      BY <2>1, <3>1, <1>15
    <3>3. /\ block'[id].size = OpSize /\ block'[id].buffer = block[b].buffer
          /\ block'[id].prev = block[b].prev /\ block'[id].next = b
          /\ block'[id].device = block[b].device /\ block'[id].queue = block[b].queue
          /\ block'[id].pool_type = block[b].pool_type
      BY <2>1, <1>12, <1>14
    <3>4. /\ block'[b].size = block[b].size - OpSize
          /\ block'[b].buffer = block[b].buffer + OpSize
          /\ block'[b].prev = id /\ block'[b].next = block[b].next
          /\ block'[b].device = block[b].device /\ block'[b].queue = block[b].queue
          /\ block'[b].pool_type = block[b].pool_type
      BY <2>1, <3>1, <1>13
    <3>5. /\ BlockMap(block) /\ segment \in SUBSET Segment /\ Tiling(block, segment)
          /\ b \in DOMAIN block /\ id \in BlockId /\ id \notin DOMAIN block
          /\ OpSize \in Nat /\ OpSize > 0 /\ block[b].size > OpSize
          /\ DOMAIN block' = DOMAIN block \cup {id}
      BY <2>1, <1>1, <1>2, <1>3, <1>4, <1>6, <1>9, <1>10, <1>14
    <3> HIDE DEF b, old
    <3>6. SplitOff(block, block', b, id, OpSize)
      BY <3>2, <3>3, <3>4, <3>5 DEF SplitOff
    <3> QED BY <2>1, <3>6
  <2>2. CASE ~cut
    <3>1. SameShape(block, block')
      <4>1. id = b /\ DOMAIN block' = DOMAIN block
        BY <2>2, <1>3, <1>10, <1>14
      <4>2. /\ SameRange(block'[b], block[b]) /\ block'[b].prev = block[b].prev
            /\ block'[b].next = block[b].next
        BY <4>1, <2>2, <1>12, <1>14 DEF SameRange
      <4>3. \A x \in DOMAIN block : x # b =>
              /\ SameRange(block'[x], block[x]) /\ block'[x].prev = block[x].prev
              /\ block'[x].next = block[x].next
        BY <4>1, <2>2, <1>15
      <4> HIDE DEF b, old
      <4> QED BY <4>1, <4>2, <4>3 DEF SameShape, SameRange
    <3> QED BY <2>2, <3>1
  <2> QED BY <2>1, <2>2
<1>a. Tiling(block', segment)
  <2>1. CASE cut
    <3>1. /\ BlockMap(block) /\ segment \in SUBSET Segment /\ Tiling(block, segment)
          /\ b \in DOMAIN block /\ id \in BlockId /\ id \notin DOMAIN block
          /\ OpSize \in Nat /\ OpSize > 0 /\ block[b].size > OpSize
      BY <2>1, <1>1, <1>2, <1>3, <1>4, <1>6, <1>9, <1>10
    <3> HIDE DEF b, old
    <3> QED BY <2>1, <3>1, <1>17, SplitTiling
  <2>2. CASE ~cut
    BY <2>2, <1>1, <1>17, TilingSameShape
  <2> QED BY <2>1, <2>2
<1>18. AllocFits(allocated_blocks', block')
  <2>0. /\ DOMAIN allocated_blocks' = DOMAIN allocated_blocks \cup {block[b].buffer}
        /\ allocated_blocks'[block[b].buffer] = id
        /\ \A a \in DOMAIN allocated_blocks : a # block[b].buffer =>
             allocated_blocks'[a] = allocated_blocks[a]
    BY <1>8, <1>12
  <2>1. ASSUME NEW x \in DOMAIN block, x # b
        PROVE  block[x].buffer # block[b].buffer
    <3>1. ~Overlap(block[x].buffer, block[x].size, block[b].buffer, block[b].size)
      BY <2>1, <1>1, <1>3 DEF Tiling, Apart
    <3>2. block[x].size > 0 /\ block[b].size > 0 /\ block[x].size \in Nat /\ block[x].buffer \in Nat
      BY <1>1, <1>2, <1>3 DEF Tiling, Linked, BlockMap, Block
    <3> QED BY <3>1, <3>2, <1>6 DEF Overlap
  <2>2. ASSUME NEW a \in DOMAIN allocated_blocks'
        PROVE  /\ allocated_blocks'[a] \in DOMAIN block'
               /\ block'[allocated_blocks'[a]].buffer = a
               /\ block'[allocated_blocks'[a]].allocated
    <3>1. CASE a = block[b].buffer
      BY <3>1, <2>0, <1>12, <1>14
    <3>2. CASE a # block[b].buffer
      <4> DEFINE x == allocated_blocks[a]
      <4>1. a \in DOMAIN allocated_blocks /\ allocated_blocks'[a] = x
        BY <3>2, <2>0
      <4>2. x \in DOMAIN block /\ block[x].buffer = a /\ block[x].allocated
        BY <4>1, <1>1 DEF AllocFits
      <4>3. x # b /\ x # id
        BY <4>2, <3>2, <1>10
      <4> QED BY <4>1, <4>2, <4>3, <1>14, <1>15 DEF SameRange
    <3> QED BY <3>1, <3>2
  <2>3. ASSUME NEW x \in DOMAIN block'
        PROVE  IF block'[x].allocated
               THEN /\ block'[x].buffer \in DOMAIN allocated_blocks'
                    /\ allocated_blocks'[block'[x].buffer] = x
               ELSE block'[x].queue_uses = {}
    <3>1. CASE x = id
      BY <3>1, <2>0, <1>12, <1>14
    <3>2. CASE x # id /\ x = b
      BY <3>2, <1>10, <1>13, <1>14
    <3>3. CASE x # id /\ x # b
      <4>1. /\ x \in DOMAIN block /\ block'[x].buffer = block[x].buffer
            /\ block'[x].allocated = block[x].allocated
            /\ block'[x].queue_uses = block[x].queue_uses
        BY <3>3, <1>14, <1>15 DEF SameRange
      <4>2. block[x].buffer # block[b].buffer
        BY <4>1, <3>3, <2>1
      <4> QED BY <4>1, <4>2, <2>0, <1>1 DEF AllocFits
    <3> QED BY <3>1, <3>2, <3>3
  <2> QED BY <2>2, <2>3 DEF AllocFits
<1>19. PoolsFit(pool', block') /\ pool' \in [PoolKey -> SUBSET BlockId]
  <2>1. CASE cut
    <3>0. id # b /\ block'[b] = rest
      BY <2>1, <1>3, <1>10, <1>14
    <3>1. pool' = [pool EXCEPT ![OpKey] = @ \cup {b}]
      BY <2>1, <1>8
    <3>2. /\ \A k \in PoolKey : b \in pool'[k] <=> k = OpKey
          /\ \A k \in PoolKey : \A c : c # b => (c \in pool'[k] <=> c \in pool[k])
      BY <3>1, <1>2, <1>3, <1>5
    <3>3. pool' \in [PoolKey -> SUBSET BlockId]
      BY <3>1, <1>2, <1>3, <1>5 DEF BlockMap
    <3>4. ASSUME NEW k \in PoolKey, NEW c \in pool'[k] \cap DOMAIN block'
          PROVE  /\ ~block'[c].allocated /\ block'[c].event_cnt = 0
                 /\ block'[c].pool_type = k[2]
                 /\ \A l \in PoolKey : c \in pool'[l] => l = k
      <4>1. CASE c = b
        BY <4>1, <3>0, <3>2, <2>1, <1>3, <1>5, <1>13
      <4>2. CASE c # b
        <5>1. c \in pool[k] /\ c # id /\ c \in DOMAIN block
          BY <4>2, <3>2, <2>1, <1>10, <1>14
        <5> QED BY <5>1, <4>2, <3>2, <1>1, <1>15 DEF PoolsFit, SameRange
      <4> QED BY <4>1, <4>2
    <3> QED BY <3>3, <3>4 DEF PoolsFit
  <2>2. CASE ~cut
    <3>1. pool' = pool /\ id = b
      BY <2>2, <1>8, <1>10
    <3>2. ASSUME NEW k \in PoolKey, NEW c \in pool'[k] \cap DOMAIN block'
          PROVE  c \in DOMAIN block /\ c # b /\ c # id /\ c \in pool[k]
      BY <3>1, <1>3, <1>14
    <3> QED BY <3>1, <3>2, <1>1, <1>2, <1>15 DEF PoolsFit, SameRange
  <2> QED BY <2>1, <2>2
<1>20. EventsFit(dpcpp_events', block')
  <2>1. \A i \in DOMAIN dpcpp_events :
          /\ dpcpp_events[i].block \in DOMAIN block /\ ~block[dpcpp_events[i].block].allocated
          /\ dpcpp_events[i].block # b /\ dpcpp_events[i].block # id
    <3> SUFFICES ASSUME NEW i \in DOMAIN dpcpp_events
        PROVE  /\ dpcpp_events[i].block \in DOMAIN block
               /\ ~block[dpcpp_events[i].block].allocated
               /\ dpcpp_events[i].block # b /\ dpcpp_events[i].block # id
      OBVIOUS
    <3>1. dpcpp_events[i].block \in DOMAIN block /\ block[dpcpp_events[i].block].event_cnt > 0
      BY <1>1, <1>2, EventCountPositive
    <3>2. dpcpp_events[i].block # b
      BY <3>1, <1>3
    <3> QED BY <3>1, <3>2, <1>1, <1>10 DEF EventsFit
  <2>2. \A x \in DOMAIN block' : block'[x].event_cnt = Cardinality(QueuesIn(dpcpp_events, x))
    <3> SUFFICES ASSUME NEW x \in DOMAIN block'
        PROVE  block'[x].event_cnt = Cardinality(QueuesIn(dpcpp_events, x))
      OBVIOUS
    <3>1. CASE x = id \/ x = b
      <4>1. QueuesIn(dpcpp_events, x) = {}
        BY <3>1, <2>1 DEF QueuesIn
      <4>2. block'[x].event_cnt = 0
        BY <3>1, <1>10, <1>12, <1>13, <1>14
      <4> QED BY <4>1, <4>2, QueueCount
    <3>2. CASE x # id /\ x # b
      BY <3>2, <1>1, <1>14, <1>15 DEF EventsFit
    <3> QED BY <3>1, <3>2
  <2>3. \A i \in DOMAIN dpcpp_events :
          dpcpp_events[i].block \in DOMAIN block' /\ ~block'[dpcpp_events[i].block].allocated
    BY <2>1, <1>14, <1>15
  <2> QED BY <2>2, <2>3, <1>1, <1>8 DEF EventsFit
<1>21. InHand' /\ op' \in Op
  BY <1>8, NullAssumption DEF InHand, Idle, Op, PC, Owner
<1>22. /\ device_stats' \in Stats
       /\ (\E i \in BlockId : HandsOutFront(i)) \/ HandsOutWhole
  <2> DEFINE inactive ==
             CASE cut /\ IsSplit(old)   -> [blocks |-> 0, bytes |-> -OpSize]
               [] cut /\ ~IsSplit(old)  -> [blocks |-> 1, bytes |-> rest.size]
               [] ~cut /\ IsSplit(old)  -> [blocks |-> -1, bytes |-> -old.size]
               [] ~cut /\ ~IsSplit(old) -> [blocks |-> 0, bytes |-> 0]
             amount == [inactive_split |-> inactive.blocks,
                        inactive_split_bytes |-> inactive.bytes,
                        allocation |-> 1, allocated_bytes |-> made.size,
                        active |-> 1, active_bytes |-> made.size]
  <2>1. device_stats' = UpdateStats(device_stats, op.device, OpKey[2], amount)
    BY DEF Split, made, rest, id, cut
  <2>2. made.size \in Nat /\ old.size \in Nat /\ (cut => rest.size \in Nat)
    BY <1>7, <1>12, <1>13 DEF Block
  <2>3. inactive.blocks \in Int /\ inactive.bytes \in Int
    <3>1. IsSplit(old) \in BOOLEAN
      BY DEF IsSplit
    <3> HIDE DEF old
    <3>2. CASE cut /\ IsSplit(old)
      <4>1. inactive = [blocks |-> 0, bytes |-> -OpSize]
        BY <3>2
      <4> QED BY <4>1, <1>4
    <3>3. CASE cut /\ ~IsSplit(old)
      <4>1. inactive = [blocks |-> 1, bytes |-> rest.size]
        BY <3>3
      <4> QED BY <4>1, <2>2, <3>3
    <3>4. CASE ~cut /\ IsSplit(old)
      <4>1. inactive = [blocks |-> -1, bytes |-> -old.size]
        BY <3>4
      <4> QED BY <4>1, <2>2
    <3>5. CASE ~cut /\ ~IsSplit(old)
      <4>1. inactive = [blocks |-> 0, bytes |-> 0]
        BY <3>5
      <4> QED BY <4>1
    <3> QED BY <3>1, <3>2, <3>3, <3>4, <3>5, <1>11
  <2>a. IsSplit(old) <=> IsSplit(block[b])
    BY <1>7 DEF IsSplit
  <2>b. OthersKept
    BY <1>10, <1>15 DEF OthersKept
  <2>5. ASSUME cut PROVE HandsOutFront(id)
    <3>1. /\ inactive.blocks = IF IsSplit(block[b]) THEN 0 ELSE 1
          /\ inactive.bytes = IF IsSplit(block[b]) THEN -OpSize ELSE block[b].size - OpSize
      BY <2>5, <2>a, <1>13
    <3> HIDE DEF inactive
    <3>2. device_stats' = UpdateStats(device_stats, op.device, PoolTypeOf(OpSize),
            [inactive_split |-> IF IsSplit(block[op.block]) THEN 0 ELSE 1,
             inactive_split_bytes |-> IF IsSplit(block[op.block]) THEN -OpSize
                                      ELSE block[op.block].size - OpSize,
             allocation |-> 1, allocated_bytes |-> OpSize,
             active |-> 1, active_bytes |-> OpSize])
      BY <2>1, <2>5, <3>1, <1>5, <1>12
    <3>3. /\ block'[id].allocated /\ ~block'[b].allocated /\ block'[b].event_cnt = 0
      BY <2>5, <1>12, <1>13, <1>14
    <3> QED BY <2>5, <2>b, <3>2, <3>3, <1>9, <1>10, <1>17 DEF HandsOutFront
  <2>6. ASSUME ~cut PROVE HandsOutWhole
    <3>1. /\ inactive.blocks = IF IsSplit(block[b]) THEN -1 ELSE 0
          /\ inactive.bytes = IF IsSplit(block[b]) THEN -block[b].size ELSE 0
      BY <2>6, <2>a, <1>7
    <3> HIDE DEF inactive
    <3>2. device_stats' = UpdateStats(device_stats, op.device, PoolTypeOf(OpSize),
            [inactive_split |-> IF IsSplit(block[op.block]) THEN -1 ELSE 0,
             inactive_split_bytes |-> IF IsSplit(block[op.block]) THEN -block[op.block].size
                                      ELSE 0,
             allocation |-> 1, allocated_bytes |-> block[op.block].size,
             active |-> 1, active_bytes |-> block[op.block].size])
      BY <2>1, <2>6, <3>1, <1>5, <1>12
    <3>3. block'[b].allocated
      BY <2>6, <1>10, <1>12, <1>14
    <3> QED BY <2>6, <2>b, <3>2, <3>3, <1>17 DEF HandsOutWhole
  <2> HIDE DEF inactive
  <2>4. \A n \in StatName : n \in DOMAIN amount => amount[n] \in Int
    <3>1. 1 \in Int /\ made.size \in Int
      BY <2>2
    <3> QED BY <2>3, <3>1
  <2> HIDE DEF amount
  <2>7. device_stats' \in Stats
    BY <2>1, <2>4, <1>2, <1>3, <1>5, UpdateStatsType
  <2> QED BY <2>5, <2>6, <2>7, <1>10
<1>23. TypeOK'
  <2>1. /\ DOMAIN allocated_blocks' \subseteq Nat
        /\ allocated_blocks' \in [DOMAIN allocated_blocks' -> BlockId]
    BY <1>2, <1>6, <1>8, <1>10, <1>12
  <2>2. undefined' \in BOOLEAN
    BY <1>8, <1>11 DEF Dangles
  <2> QED BY <2>1, <2>2, <1>2, <1>8, <1>16, <1>19, <1>21, <1>22 DEF TypeOK, BlockMap, graphVars
<1>24. Tiling(block', segment')
  BY <1>8, <1>a
<1>25. Safe'
  BY <1>18, <1>19, <1>20, <1>21, <1>24
     DEF Safe, Tiling, Places, AllocFits, PoolsFit, EventsCounted, EventsFit,
         DistinctEvents, EventQueues
<1> QED BY <1>22, <1>23, <1>25

-----------------------------------------------------------------------------
(* Segments. *)

\* aligned_alloc_device succeeds: the new block is exactly the new segment.
LEMMA AllocSegmentStep ==
  ASSUME TypeOK, Safe, AllocSegment
  PROVE  TypeOK' /\ Safe'
<1> DEFINE size == AllocSize(OpSize)
           type == PoolTypeOf(OpSize)
           id   == CHOOSE i \in FreeIds : TRUE
<1>1. /\ Linked(block) /\ InSegments(block, segment) /\ Apart(block) /\ SegmentsApart(segment)
      /\ AllocFits(allocated_blocks, block) /\ PoolsFit(pool, block)
      /\ EventsFit(dpcpp_events, block) /\ InHand
  BY SafeParts DEF Tiling
<1>2. /\ BlockMap(block) /\ op \in Op /\ dpcpp_events \in Seq(Event)
      /\ device_stats \in Stats /\ segment \subseteq Segment
  BY DEF TypeOK, BlockMap
<1>3. op.device \in Device /\ op.queue \in Queue
  BY <1>1 DEF AllocSegment, At, InHand
<1>4. OpSize \in Nat /\ OpSize > 0
  BY <1>2, OpSizeType
<1>5. size \in Nat /\ size >= OpSize /\ size > 0
  BY <1>4, AllocSizeBound
<1>6. OpKey[1] \in Owner /\ type \in PoolType
  BY OpKeyType
<1>7. id \in BlockId /\ id \notin DOMAIN block /\ \A k \in PoolKey : id \notin pool[k]
  <2>1. id \in FreeIds
    BY DEF AllocSegment
  <2> QED BY <2>1 DEF FreeIds
<1> HIDE DEF id, size, type
<1>8. PICK base \in SyclAddresses(size) :
        /\ segment' = segment \cup
             {[base |-> base, size |-> size, device |-> op.device, owner |-> OpKey[1]]}
        /\ block' = [x \in DOMAIN block \cup {id} |->
             IF x = id THEN NewBlock(op.device, op.queue, size, type, base) ELSE block[x]]
        /\ op' = [op EXCEPT !.pc = "split", !.block = id]
        /\ device_stats' = UpdateStats(device_stats, op.device, type,
             [segment |-> 1, reserved_bytes |-> size])
  BY DEF AllocSegment, id, size, type
<1>9. UNCHANGED <<pool, allocated_blocks, dpcpp_events, graphVars, undefined>>
  BY DEF AllocSegment
<1> DEFINE new == NewBlock(op.device, op.queue, size, type, base)
           seg == [base |-> base, size |-> size, device |-> op.device, owner |-> OpKey[1]]
<1>10. base \in Nat /\ \A s \in segment : ~Overlap(base, size, s.base, s.size)
  BY TopologyAssumption DEF SyclAddresses
<1>11. /\ new \in Block /\ new.device = op.device /\ new.queue = op.queue /\ new.size = size
       /\ new.pool_type = type /\ new.buffer = base /\ ~new.allocated /\ new.prev = NULL
       /\ new.next = NULL /\ new.event_cnt = 0 /\ new.queue_uses = {}
  BY <1>3, <1>5, <1>6, <1>10 DEF NewBlock, Block
<1>12. seg \in Segment /\ seg.base = base /\ seg.size = size /\ seg.device = op.device
  BY <1>3, <1>5, <1>6, <1>10 DEF Segment
<1>13. /\ DOMAIN block' = DOMAIN block \cup {id} /\ block'[id] = new
       /\ \A x \in DOMAIN block : x # id /\ block'[x] = block[x]
       /\ segment' = segment \cup {seg}
  BY <1>7, <1>8
<1>14. BlockMap(block')
  <2>1. block' = [x \in DOMAIN block' |-> block'[x]]
    BY <1>8, <1>13
  <2>2. \A x \in DOMAIN block' : block'[x] \in Block
    <3> HIDE DEF new
    <3> QED BY <1>2, <1>11, <1>13 DEF BlockMap
  <2> QED BY <2>1, <2>2, <1>2, <1>7, <1>13 DEF BlockMap
<1> HIDE DEF new, seg
<1>15. Linked(block')
  <2>1. NULL \notin DOMAIN block
    BY <1>2, NullAssumption DEF BlockMap
  <2> QED BY <2>1, <1>1, <1>5, <1>11, <1>13 DEF Linked
<1>16. InSegments(block', segment')
  <2>1. Within(new, seg)
    BY <1>5, <1>10, <1>11, <1>12 DEF Within
  <2> QED BY <2>1, <1>1, <1>13 DEF InSegments
<1>17. Apart(block')
  <2>1. ASSUME NEW x \in DOMAIN block
        PROVE  /\ ~Overlap(base, size, block[x].buffer, block[x].size)
               /\ ~Overlap(block[x].buffer, block[x].size, base, size)
    <3>1. PICK s \in segment : Within(block[x], s)
      BY <1>1 DEF InSegments
    <3>2. /\ block[x].buffer \in Nat /\ block[x].size \in Nat
          /\ s.base \in Nat /\ s.size \in Nat
      BY <1>2 DEF BlockMap, Block, Segment
    <3>3. ~Overlap(base, size, s.base, s.size)
      BY <1>10
    <3> QED BY <3>1, <3>2, <3>3, <1>5, <1>10 DEF Within, Overlap
  <2> QED BY <2>1, <1>1, <1>11, <1>13 DEF Apart
<1>18. SegmentsApart(segment')
  <2>1. ASSUME NEW s \in segment
        PROVE  /\ ~Overlap(base, size, s.base, s.size)
               /\ ~Overlap(s.base, s.size, base, size)
    BY <1>10 DEF Overlap
  <2> QED BY <2>1, <1>1, <1>5, <1>12, <1>13 DEF SegmentsApart
<1>19. AllocFits(allocated_blocks', block')
  BY <1>1, <1>9, <1>11, <1>13 DEF AllocFits
<1>20. PoolsFit(pool', block')
  BY <1>1, <1>7, <1>9, <1>13 DEF PoolsFit
<1>21. EventsFit(dpcpp_events', block')
  <2>1. QueuesIn(dpcpp_events, id) = {}
    BY <1>1, <1>7 DEF EventsFit, QueuesIn
  <2>2. Cardinality(QueuesIn(dpcpp_events, id)) = 0
    BY <2>1, QueueCount
  <2> QED BY <2>2, <1>1, <1>9, <1>11, <1>13 DEF EventsFit
<1>22. /\ op' \in Op /\ op'.pc = "split" /\ op'.block = id /\ op'.device = op.device
       /\ op'.queue = op.queue /\ op'.asize = op.asize
  BY <1>2, <1>7, <1>8 DEF Op, PC
<1>23. InHand'
  <2>1. OpSize' = OpSize
    BY <1>22 DEF OpSize
  <2>2. PoolTypeOf(OpSize)' = type
    BY <2>1 DEF type, PoolTypeOf
  <2> QED BY <2>1, <2>2, <1>3, <1>5, <1>7, <1>9, <1>11, <1>13, <1>22 DEF InHand
<1>24. device_stats' \in Stats
  <2> DEFINE amount == [segment |-> 1, reserved_bytes |-> size]
  <2>1. \A n \in StatName : n \in DOMAIN amount => amount[n] \in Int
    BY <1>5
  <2>2. device_stats' = UpdateStats(device_stats, op.device, type, amount)
    BY <1>8
  <2> HIDE DEF amount
  <2> QED BY <2>1, <2>2, <1>2, <1>3, <1>6, UpdateStatsType
<1>25. TypeOK'
  BY <1>2, <1>9, <1>12, <1>13, <1>14, <1>22, <1>24 DEF TypeOK, BlockMap, graphVars
<1> QED
  BY <1>15, <1>16, <1>17, <1>18, <1>19, <1>20, <1>21, <1>23, <1>25
     DEF Safe, Places, AllocFits, PoolsFit, EventsCounted, EventsFit,
         DistinctEvents, EventQueues

\* free_blocks returns a whole segment: no other block lies in it.
LEMMA FreeSegmentStep ==
  ASSUME TypeOK, Safe, FreeSegment
  PROVE  TypeOK' /\ Safe'
<1>1. /\ Linked(block) /\ InSegments(block, segment) /\ Apart(block) /\ SegmentsApart(segment)
      /\ AllocFits(allocated_blocks, block) /\ PoolsFit(pool, block)
      /\ EventsFit(dpcpp_events, block) /\ InHand
  BY SafeParts DEF Tiling
<1>2. /\ BlockMap(block) /\ op \in Op /\ dpcpp_events \in Seq(Event)
      /\ device_stats \in Stats /\ segment \subseteq Segment
      /\ pool \in [PoolKey -> SUBSET BlockId]
  BY DEF TypeOK, BlockMap
<1>3. PICK b \in FreeableBlocks(FreeRange) :
        /\ segment' = {s \in segment : s.base # block[b].buffer}
        /\ device_stats' =
             UpdateStats(device_stats, block[b].device, block[b].pool_type,
                         [segment |-> -1, reserved_bytes |-> -block[b].size])
        /\ block' = [x \in DOMAIN block \ {b} |-> block[x]]
        /\ pool' = [k \in PoolKey |-> pool[k] \ {b}]
  BY DEF FreeSegment
<1>4. /\ UNCHANGED <<allocated_blocks, dpcpp_events, graphVars, op, undefined>>
      /\ op.pc \in {"empty_free", "free_cached_blocks"}
  BY DEF FreeSegment, At
<1>5. b \in DOMAIN block /\ b \in FreeRange /\ block[b].prev = NULL /\ block[b].next = NULL
  BY DEF FreeableBlocks, IsSplit
<1>6. \E k \in PoolKey : b \in pool[k]
  <2>1. b \in UNION {pool[<<NULL, t>>] : t \in PoolType}
    BY <1>5 DEF FreeRange, CachedBlocksBound
  <2>2. PICK t \in PoolType : b \in pool[<<NULL, t>>]
    BY <2>1
  <2>3. <<NULL, t>> \in PoolKey
    BY DEF PoolKey, Owner
  <2> QED BY <2>2, <2>3
<1>7. ~block[b].allocated /\ block[b].event_cnt = 0
  BY <1>1, <1>5, <1>6 DEF PoolsFit
<1>8. block[b] \in Block /\ block[b].size \in Nat /\ block[b].buffer \in Nat
      /\ block[b].device \in Device /\ block[b].pool_type \in PoolType
  BY <1>2, <1>5 DEF BlockMap, Block
<1>9. /\ DOMAIN block' = DOMAIN block \ {b}
      /\ \A x \in DOMAIN block' : block'[x] = block[x]
  BY <1>3
<1>10. BlockMap(block')
  <2>1. block' = [x \in DOMAIN block' |-> block'[x]]
    BY <1>3
  <2> QED BY <2>1, <1>2, <1>9 DEF BlockMap
<1>11. Linked(block')
  <2>1. NULL \notin DOMAIN block
    BY <1>2, NullAssumption DEF BlockMap
  <2>2. \A x \in DOMAIN block : block[x].next # b /\ block[x].prev # b
    BY <2>1, <1>1, <1>5 DEF Linked
  <2> QED BY <2>2, <1>1, <1>9 DEF Linked
<1>12. InSegments(block', segment')
  <2> SUFFICES ASSUME NEW x \in DOMAIN block'
      PROVE  \E s \in segment' : Within(block'[x], s)
    BY DEF InSegments
  <2>1. x \in DOMAIN block /\ x # b /\ block'[x] = block[x]
    BY <1>9
  <2>2. PICK s \in segment : Within(block[x], s)
    BY <2>1, <1>1 DEF InSegments
  <2>3. PICK t \in segment : Within(block[b], t)
    BY <1>1, <1>5 DEF InSegments
  <2>4. /\ s.base \in Nat /\ s.size \in Nat /\ t.base \in Nat /\ t.size \in Nat
        /\ block[x].buffer \in Nat /\ block[x].size \in Nat
    BY <2>1, <1>2 DEF Segment, BlockMap, Block
  <2>5. s.base # block[b].buffer
    <3>1. SUFFICES ASSUME s.base = block[b].buffer PROVE FALSE
      OBVIOUS
    <3>2. t.base = block[b].buffer /\ t.base + t.size = block[b].buffer + block[b].size
      BY <2>3, <1>5 DEF Within
    <3>3. s.size > 0 /\ t.size > 0 /\ block[x].size > 0
      BY <2>1, <1>1 DEF SegmentsApart, Linked
    <3>4. Overlap(s.base, s.size, t.base, t.size)
      BY <3>1, <3>2, <3>3, <2>4 DEF Overlap
    <3>5. s = t
      BY <3>4, <1>1 DEF SegmentsApart
    <3>6. Overlap(block[x].buffer, block[x].size, block[b].buffer, block[b].size)
      BY <3>2, <3>3, <3>5, <2>2, <2>4, <1>8 DEF Within, Overlap
    <3> QED BY <3>6, <2>1, <1>1, <1>5 DEF Apart
  <2> QED BY <2>1, <2>2, <2>5, <1>3
<1>13. Apart(block')
  BY <1>1, <1>9 DEF Apart
<1>14. SegmentsApart(segment') /\ segment' \subseteq segment
  BY <1>1, <1>3 DEF SegmentsApart
<1>15. AllocFits(allocated_blocks', block')
  BY <1>1, <1>4, <1>7, <1>9 DEF AllocFits
<1>16. PoolsFit(pool', block') /\ pool' \in [PoolKey -> SUBSET BlockId]
  <2>1. \A k \in PoolKey : pool'[k] \subseteq pool[k]
    BY <1>3
  <2> QED BY <2>1, <1>1, <1>2, <1>3, <1>9 DEF PoolsFit
<1>17. EventsFit(dpcpp_events', block')
  <2>1. \A i \in DOMAIN dpcpp_events : dpcpp_events[i].block # b
    BY <1>1, <1>2, <1>7, EventCountPositive
  <2> QED BY <2>1, <1>1, <1>4, <1>9 DEF EventsFit
<1>18. InHand'
  BY <1>1, <1>4 DEF InHand
<1>19. device_stats' \in Stats
  <2> DEFINE amount == [segment |-> -1, reserved_bytes |-> -block[b].size]
  <2>1. \A n \in StatName : n \in DOMAIN amount => amount[n] \in Int
    BY <1>8
  <2>2. device_stats' = UpdateStats(device_stats, block[b].device, block[b].pool_type, amount)
    BY <1>3
  <2> HIDE DEF amount
  <2> QED BY <2>1, <2>2, <1>2, <1>8, UpdateStatsType
<1>20. TypeOK'
  BY <1>2, <1>4, <1>10, <1>14, <1>16, <1>19 DEF TypeOK, BlockMap, graphVars
<1> QED
  BY <1>11, <1>12, <1>13, <1>14, <1>15, <1>16, <1>17, <1>18, <1>20
     DEF Safe, Places, AllocFits, PoolsFit, EventsCounted, EventsFit,
         DistinctEvents, EventQueues

\* free_cached_blocks erases private pools: blocks only lose their owner, and
\* pools their elements.
LEMMA FreeCachedBlocksStep ==
  ASSUME TypeOK, Safe, FreeCachedBlocks
  PROVE  TypeOK' /\ Safe'
<1>1. /\ Tiling(block, segment)
      /\ AllocFits(allocated_blocks, block) /\ PoolsFit(pool, block)
      /\ EventsFit(dpcpp_events, block) /\ InHand
  BY SafeParts
<1>2. /\ BlockMap(block) /\ op \in Op /\ pool \in [PoolKey -> SUBSET BlockId]
  BY DEF TypeOK, BlockMap
<1>3. /\ block' = [b \in DOMAIN block |->
            IF block[b].owner \in graph_pools_freeable
            THEN [block[b] EXCEPT !.owner = Destroyed] ELSE block[b]]
      /\ pool' = [k \in PoolKey |-> IF k[1] \in graph_pools_freeable THEN {} ELSE pool[k]]
      /\ op' = [op EXCEPT !.pc = "retry"] /\ op.pc = "free_cached_blocks"
      /\ UNCHANGED <<allocated_blocks, dpcpp_events, segment, recordings_underway,
                     recorded, device_stats, undefined>>
      /\ graph_pools_freeable' = {}
      /\ graph_pools' = [m \in DOMAIN graph_pools \ graph_pools_freeable |-> graph_pools[m]]
  BY DEF FreeCachedBlocks, At, Goto
<1>4. DOMAIN block' = DOMAIN block
  BY <1>3
<1>5. \A x \in DOMAIN block :
        /\ block'[x] \in Block
        /\ SameRange(block'[x], block[x])
        /\ block'[x].queue_uses = block[x].queue_uses
        /\ block'[x].allocated = block[x].allocated /\ block'[x].prev = block[x].prev
        /\ block'[x].next = block[x].next /\ block'[x].event_cnt = block[x].event_cnt
  <2> SUFFICES ASSUME NEW x \in DOMAIN block
      PROVE  /\ block'[x] \in Block
             /\ SameRange(block'[x], block[x])
             /\ block'[x].queue_uses = block[x].queue_uses
             /\ block'[x].allocated = block[x].allocated /\ block'[x].prev = block[x].prev
             /\ block'[x].next = block[x].next /\ block'[x].event_cnt = block[x].event_cnt
    OBVIOUS
  <2>1. block[x] \in Block
    BY <1>2 DEF BlockMap
  <2>2. block'[x] = block[x] \/ block'[x] = [block[x] EXCEPT !.owner = Destroyed]
    BY <1>3
  <2>3. CASE block'[x] = block[x]
    BY <2>1, <2>3 DEF SameRange
  <2>4. CASE block'[x] = [block[x] EXCEPT !.owner = Destroyed]
    BY <2>1, <2>4 DEF SameRange, Block
  <2> QED BY <2>2, <2>3, <2>4
<1>6. BlockMap(block')
  <2>1. block' = [x \in DOMAIN block' |-> block'[x]]
    BY <1>3
  <2> QED BY <2>1, <1>2, <1>4, <1>5 DEF BlockMap
<1>7. Tiling(block', segment')
  <2>1. SameShape(block, block')
    BY <1>4, <1>5 DEF SameShape, SameRange
  <2> QED BY <2>1, <1>1, <1>3, TilingSameShape
<1>8. AllocFits(allocated_blocks', block') /\ EventsFit(dpcpp_events', block')
  BY <1>1, <1>3, <1>4, <1>5 DEF AllocFits, EventsFit, SameRange
<1>9. PoolsFit(pool', block') /\ pool' \in [PoolKey -> SUBSET BlockId]
  <2>1. \A k \in PoolKey : pool'[k] \subseteq pool[k]
    BY <1>3
  <2> QED BY <2>1, <1>1, <1>2, <1>3, <1>4, <1>5 DEF PoolsFit, SameRange
<1>10. op' \in Op /\ InHand'
  BY <1>1, <1>2, <1>3 DEF Op, PC, InHand
<1>11. TypeOK'
  BY <1>3, <1>6, <1>9, <1>10 DEF TypeOK, BlockMap
<1> QED
  BY <1>7, <1>8, <1>9, <1>10, <1>11
     DEF Safe, Tiling, Places, AllocFits, PoolsFit, EventsCounted, EventsFit,
         DistinctEvents, EventQueues

\* find_free_block takes a block that fits out of its pool.
LEMMA FindFreeBlockStep ==
  ASSUME TypeOK, Safe, FindFreeBlock
  PROVE  TypeOK' /\ Safe'
<1>1. /\ Tiling(block, segment)
      /\ AllocFits(allocated_blocks, block) /\ PoolsFit(pool, block)
      /\ EventsFit(dpcpp_events, block) /\ InHand
  BY SafeParts
<1>2. op \in Op /\ pool \in [PoolKey -> SUBSET BlockId]
  BY DEF TypeOK
<1>3. OpKey \in PoolKey /\ OpKey[2] = PoolTypeOf(OpSize)
  BY OpKeyType
<1>4. PICK b \in BestFits(OpKey) :
        /\ pool' = [pool EXCEPT ![OpKey] = @ \ {b}]
        /\ op' = [op EXCEPT !.pc = "split", !.block = b]
  BY DEF FindFreeBlock
<1>5. /\ UNCHANGED <<block, allocated_blocks, dpcpp_events, segment, graphVars,
                     device_stats, undefined>>
      /\ ~Dangles(OpKey, block) /\ op.pc = "find_free_block"
  BY DEF FindFreeBlock, At
<1>6. /\ b \in pool[OpKey] /\ block[b].device = op.device /\ block[b].queue = op.queue
      /\ block[b].size >= OpSize
  BY DEF BestFits
<1>7. b \in DOMAIN block /\ b \in BlockId
  BY <1>2, <1>3, <1>5, <1>6 DEF Dangles
<1>8. /\ ~block[b].allocated /\ block[b].event_cnt = 0 /\ block[b].pool_type = OpKey[2]
      /\ \A l \in PoolKey : b \in pool[l] => l = OpKey
  BY <1>1, <1>3, <1>6, <1>7 DEF PoolsFit
<1>9. /\ pool' \in [PoolKey -> SUBSET BlockId]
      /\ \A k \in PoolKey : pool'[k] \subseteq pool[k] /\ b \notin pool'[k]
  BY <1>2, <1>3, <1>4, <1>8
<1>10. PoolsFit(pool', block')
  BY <1>1, <1>5, <1>9 DEF PoolsFit
<1>11. /\ op' \in Op /\ op'.pc = "split" /\ op'.block = b /\ op'.device = op.device
       /\ op'.queue = op.queue /\ op'.asize = op.asize
  BY <1>2, <1>4, <1>7 DEF Op, PC
<1>12. InHand'
  <2>1. OpSize' = OpSize
    BY <1>11 DEF OpSize
  <2>2. PoolTypeOf(OpSize)' = PoolTypeOf(OpSize)
    BY <2>1 DEF PoolTypeOf
  <2>3. op.device \in Device /\ op.queue \in Queue
    BY <1>1, <1>5 DEF InHand
  <2> QED BY <2>1, <2>2, <2>3, <1>3, <1>5, <1>6, <1>7, <1>8, <1>9, <1>11 DEF InHand
<1>13. TypeOK'
  BY <1>5, <1>9, <1>11 DEF TypeOK, graphVars
<1>14. /\ Tiling(block', segment') /\ AllocFits(allocated_blocks', block')
       /\ EventsFit(dpcpp_events', block')
  BY <1>1, <1>5
<1> QED
  BY <1>10, <1>12, <1>13, <1>14
     DEF Safe, Tiling, Places, AllocFits, PoolsFit, EventsCounted, EventsFit,
         DistinctEvents, EventQueues

-----------------------------------------------------------------------------
(* The other steps. *)

\* A step that leaves the blocks alone and empties the hands of the
\* operation, or keeps them empty.
LEMMA SafeUnchanged ==
  ASSUME Safe, UNCHANGED <<block, pool, allocated_blocks, dpcpp_events, segment>>, InHand'
  PROVE  Safe'
<1>1. /\ Tiling(block, segment)
      /\ AllocFits(allocated_blocks, block) /\ PoolsFit(pool, block)
      /\ EventsFit(dpcpp_events, block)
  BY SafeParts
<1>2. /\ Tiling(block', segment')
      /\ AllocFits(allocated_blocks', block') /\ PoolsFit(pool', block')
      /\ EventsFit(dpcpp_events', block')
  BY <1>1
<1> QED
  BY <1>2 DEF Safe, Tiling, Places, AllocFits, PoolsFit, EventsCounted, EventsFit,
         DistinctEvents, EventQueues

\* Completion of events only changes their `done` flags.
LEMMA DoneStep ==
  ASSUME TypeOK, Safe, InHand', op' \in Op,
         UNCHANGED <<block, pool, allocated_blocks, segment, graphVars, device_stats,
                     undefined>>,
         dpcpp_events' \in Seq(Event), DOMAIN dpcpp_events' = DOMAIN dpcpp_events,
         \A i \in DOMAIN dpcpp_events :
           /\ dpcpp_events'[i].block = dpcpp_events[i].block
           /\ dpcpp_events'[i].queue = dpcpp_events[i].queue
  PROVE  TypeOK' /\ Safe'
<1>1. /\ Tiling(block, segment)
      /\ AllocFits(allocated_blocks, block) /\ PoolsFit(pool, block)
      /\ EventsFit(dpcpp_events, block)
  BY SafeParts
<1>2. \A b : QueuesIn(dpcpp_events', b) = QueuesIn(dpcpp_events, b)
  BY DEF QueuesIn
<1>3. EventsFit(dpcpp_events', block')
  BY <1>1, <1>2 DEF EventsFit, DistinctEvents
<1>4. TypeOK'
  BY DEF TypeOK, graphVars
<1>5. /\ Tiling(block', segment')
      /\ AllocFits(allocated_blocks', block') /\ PoolsFit(pool', block')
  BY <1>1
<1> QED
  BY <1>3, <1>4, <1>5 DEF Safe, Tiling, Places, AllocFits, PoolsFit, EventsCounted,
         EventsFit, DistinctEvents, EventQueues

\* The device completes an event.
LEMMA EventCompleteStep ==
  ASSUME TypeOK, Safe, EventComplete
  PROVE  TypeOK' /\ Safe'
<1>1. PICK i \in DOMAIN dpcpp_events :
        dpcpp_events' = [dpcpp_events EXCEPT ![i].done = TRUE]
  BY DEF EventComplete
<1>2. UNCHANGED <<block, pool, allocated_blocks, segment, graphVars,
                  device_stats, op, undefined>>
  BY DEF EventComplete
<1>3. dpcpp_events \in Seq(Event) /\ op \in Op /\ InHand
  BY DEF TypeOK, Safe
<1>4. dpcpp_events[i] \in Event
  BY <1>3
<1>5. [dpcpp_events[i] EXCEPT !.done = TRUE] \in Event
  BY <1>4 DEF Event
<1>6. dpcpp_events' \in Seq(Event) /\ DOMAIN dpcpp_events' = DOMAIN dpcpp_events
  BY <1>1, <1>3, <1>5
<1>7. \A j \in DOMAIN dpcpp_events :
        /\ dpcpp_events'[j].block = dpcpp_events[j].block
        /\ dpcpp_events'[j].queue = dpcpp_events[j].queue
  <2>1. dpcpp_events'[i] = [dpcpp_events[i] EXCEPT !.done = TRUE]
    BY <1>1
  <2>2. /\ dpcpp_events'[i].block = dpcpp_events[i].block
        /\ dpcpp_events'[i].queue = dpcpp_events[i].queue
    BY <2>1, <1>4 DEF Event
  <2>3. \A j \in DOMAIN dpcpp_events : j # i => dpcpp_events'[j] = dpcpp_events[j]
    BY <1>1
  <2> QED BY <2>2, <2>3
<1>8. InHand'
  <2>1. \A b : QueuesIn(dpcpp_events', b) = QueuesIn(dpcpp_events, b)
    BY <1>6, <1>7 DEF QueuesIn
  <2> QED BY <2>1, <1>2, <1>3 DEF InHand, OpSize, EventQueues
<1> QED BY <1>2, <1>3, <1>6, <1>7, <1>8, DoneStep

\* synchronize_and_free_events returns and the device's queues are drained.
LEMMA SynchronizeEndStep ==
  ASSUME TypeOK, Safe, SynchronizeEnd
  PROVE  TypeOK' /\ Safe'
<1>1. dpcpp_events' = [i \in DOMAIN dpcpp_events |->
       [dpcpp_events[i] EXCEPT
          !.done = dpcpp_events[i].done \/ DeviceOf[dpcpp_events[i].queue] = op.device]]
  BY DEF SynchronizeEnd
<1>2. /\ UNCHANGED <<block, pool, allocated_blocks, segment, graphVars,
                     device_stats, undefined>>
      /\ op.pc \in {"synchronize", "empty_synchronize"}
      /\ op' = [op EXCEPT !.pc = IF op.pc = "synchronize" THEN "free_cached_blocks"
                                                          ELSE "empty_free"]
  BY DEF SynchronizeEnd, At, Goto
<1>3. dpcpp_events \in Seq(Event) /\ op \in Op /\ InHand
  BY DEF TypeOK, Safe
<1>4. ASSUME NEW i \in DOMAIN dpcpp_events
      PROVE  /\ dpcpp_events'[i] \in Event
             /\ dpcpp_events'[i].block = dpcpp_events[i].block
             /\ dpcpp_events'[i].queue = dpcpp_events[i].queue
  <2> DEFINE d == dpcpp_events[i].done \/ DeviceOf[dpcpp_events[i].queue] = op.device
  <2>1. dpcpp_events'[i] = [dpcpp_events[i] EXCEPT !.done = d]
    BY <1>1
  <2>2. dpcpp_events[i] \in Event
    BY <1>3
  <2>3. d \in BOOLEAN
    OBVIOUS
  <2> HIDE DEF d
  <2> QED BY <2>1, <2>2, <2>3 DEF Event
<1>5. DOMAIN dpcpp_events' = DOMAIN dpcpp_events
  BY <1>1
<1>6. dpcpp_events' \in Seq(Event)
  <2>1. DOMAIN dpcpp_events = 1..Len(dpcpp_events) /\ Len(dpcpp_events) \in Nat
    BY <1>3
  <2>2. dpcpp_events' = [i \in DOMAIN dpcpp_events' |-> dpcpp_events'[i]]
    BY <1>1
  <2>3. dpcpp_events' \in [1..Len(dpcpp_events) -> Event]
    BY <2>1, <2>2, <1>4, <1>5
  <2> QED BY <2>1, <2>3
<1>7. op' \in Op /\ InHand'
  BY <1>2, <1>3 DEF Op, PC, InHand
<1> QED BY <1>2, <1>4, <1>5, <1>6, <1>7, DoneStep

\* The steps of malloc and emptyCache that only move on.
LEMMA MoveStep ==
  ASSUME TypeOK, Safe,
         \/ \E c \in CallSite, n \in ASize : Malloc(c[1], c[2], c[3], n)
         \/ EmptyCache \/ ProcessEventsEnd \/ AllocFails \/ OutOfMemory
  PROVE  TypeOK' /\ Safe'
<1>1. UNCHANGED <<block, pool, allocated_blocks, dpcpp_events, segment, graphVars,
                  device_stats, undefined>>
  BY DEF Malloc, EmptyCache, ProcessEventsEnd, AllocFails, OutOfMemory
<1>2. op \in Op /\ InHand
  BY DEF TypeOK, Safe
<1>3. op' \in Op /\ InHand'
  <2>1. ASSUME NEW c \in CallSite, NEW n \in ASize, Malloc(c[1], c[2], c[3], n)
        PROVE  op' \in Op /\ InHand'
    <3>1. c[1] \in Device /\ c[2] \in QueueObject /\ c[3] \in Queue /\ n \in Nat
      BY TopologyAssumption
    <3>2. op' = [Idle EXCEPT !.pc = "process_events", !.device = c[1], !.object = c[2],
                             !.queue = c[3], !.asize = n]
      BY <2>1 DEF Malloc
    <3>3. op' = [pc |-> "process_events", device |-> c[1], object |-> c[2], queue |-> c[3],
                 asize |-> n, owner |-> NULL, block |-> NULL, todo |-> {}]
      BY <3>2 DEF Idle
    <3> QED BY <3>1, <3>3 DEF Op, PC, InHand, Owner
  <2>2. CASE EmptyCache
    <3>1. op' = [pc |-> "empty_synchronize", device |-> NULL, object |-> NULL, queue |-> NULL,
                 asize |-> 0, owner |-> NULL, block |-> NULL, todo |-> {}]
      BY <2>2 DEF EmptyCache, Idle
    <3> QED BY <3>1 DEF Op, PC, InHand, Owner
  <2>3. CASE ProcessEventsEnd
    <3>1. PrivatePool(op.object) \in Owner
      BY PrivatePoolType
    <3>2. CASE OverStatefulLimit
      BY <3>2, <2>3, <1>2 DEF ProcessEventsEnd, At, Return, Idle, Op, PC, InHand, Owner
    <3>3. CASE ~OverStatefulLimit
      <4> DEFINE w == PrivatePool(op.object)
      <4>1. op' = [op EXCEPT !.pc = "find_free_block", !.owner = w]
            /\ op.pc = "process_events"
        BY <3>3, <2>3 DEF ProcessEventsEnd, At
      <4>2. w \in Owner  BY <3>1
      <4> HIDE DEF w
      <4>3. op' \in Op  BY <4>1, <4>2, <1>2 DEF Op, PC
      <4> QED BY <4>1, <4>3, <1>2 DEF Op, InHand
    <3> QED BY <3>2, <3>3
  <2>4. CASE AllocFails \/ OutOfMemory
    BY <2>4, <1>2 DEF AllocFails, OutOfMemory, At, Goto, Return, Idle, Op, PC,
                      InHand, Owner
  <2> QED BY <2>1, <2>2, <2>3, <2>4
<1>4. TypeOK'
  BY <1>1, <1>3 DEF TypeOK, graphVars
<1> QED BY <1>1, <1>3, <1>4, SafeUnchanged

\* The steps that may find a deleted block in a pool.
LEMMA DanglingStep ==
  ASSUME TypeOK, Safe, FindNothing \/ EmptyCacheEnd
  PROVE  TypeOK' /\ (~undefined' => Safe')
<1>1. op \in Op /\ InHand
  BY DEF TypeOK, Safe
<1>2. CASE FindNothing
  <2>1. op' \in Op /\ InHand'
    BY <1>1, <1>2 DEF FindNothing, At, Goto, Op, PC, InHand, Owner
  <2>2. undefined' \in BOOLEAN
    BY <1>2 DEF FindNothing, Dangles
  <2>3. UNCHANGED <<block, pool, allocated_blocks, dpcpp_events, segment,
                    graphVars, device_stats>>
    BY <1>2 DEF FindNothing
  <2>4. TypeOK'
    BY <2>1, <2>2, <2>3 DEF TypeOK, graphVars
  <2>5. ASSUME ~undefined' PROVE Safe'
    BY <2>1, <2>3, SafeUnchanged
  <2> QED BY <2>4, <2>5
<1>3. CASE EmptyCacheEnd
  <2>1. op' \in Op /\ InHand'
    BY <1>3, NullAssumption DEF EmptyCacheEnd, Return, Idle, Op, PC, InHand, Owner
  <2>2. undefined' \in BOOLEAN
    BY <1>3 DEF EmptyCacheEnd
  <2>3. UNCHANGED <<block, pool, allocated_blocks, dpcpp_events, segment,
                    graphVars, device_stats>>
    BY <1>3 DEF EmptyCacheEnd
  <2>4. TypeOK'
    BY <2>1, <2>2, <2>3 DEF TypeOK, graphVars
  <2>5. Safe'
    BY <2>1, <2>3, SafeUnchanged
  <2> QED BY <2>4, <2>5
<1> QED BY <1>2, <1>3

-----------------------------------------------------------------------------
(* Private pools. *)

\* recordings_underway without its i-th element lists the others once.
LEMMA WithoutRecording ==
  ASSUME NEW s \in Seq(Underway), NEW i \in DOMAIN s,
         \A j, k \in DOMAIN s : s[j].pool = s[k].pool => j = k
  PROVE  LET r == Without(s, i)
         IN  /\ r \in Seq(Underway)
             /\ \A j, k \in DOMAIN r : r[j].pool = r[k].pool => j = k
             /\ \A m : (\E j \in DOMAIN r : r[j].pool = m) <=>
                       (m # s[i].pool /\ \E j \in DOMAIN s : s[j].pool = m)
<1> DEFINE r == Without(s, i)
           len == Len(s)
           old(j) == IF j < i THEN j ELSE j + 1
<1>1. len \in Nat /\ DOMAIN s = 1..len /\ i \in 1..len
  OBVIOUS
<1>2. DOMAIN r = 1..(len - 1) /\ r \in Seq(Underway)
  BY <1>1 DEF Without
<1>3. \A j \in 1..(len - 1) : old(j) \in 1..len /\ old(j) # i /\ r[j] = s[old(j)]
  BY <1>1 DEF Without
<1>4. ASSUME NEW k \in 1..len, k # i
      PROVE  \E j \in 1..(len - 1) : r[j] = s[k]
  <2>1. CASE k < i
    <3>1. k \in 1..(len - 1) /\ r[k] = s[k]
      BY <2>1, <1>1 DEF Without
    <3> QED BY <3>1
  <2>2. CASE k > i
    <3>1. k - 1 \in 1..(len - 1) /\ r[k - 1] = s[k]
      BY <2>2, <1>1 DEF Without
    <3> QED BY <3>1
  <2> QED BY <2>1, <2>2, <1>1, <1>4
<1> HIDE DEF r
<1>5. ASSUME NEW j \in DOMAIN r, NEW k \in DOMAIN r, r[j].pool = r[k].pool
      PROVE  j = k
  <2>1. /\ old(j) \in 1..len /\ r[j] = s[old(j)] /\ old(k) \in 1..len /\ r[k] = s[old(k)]
    BY <1>2, <1>3
  <2>2. old(j) = old(k)
    BY <2>1, <1>1, <1>5
  <2> QED BY <2>2, <1>1, <1>2
<1>6. ASSUME NEW m, NEW j \in DOMAIN r, r[j].pool = m
      PROVE  m # s[i].pool /\ \E k \in DOMAIN s : s[k].pool = m
  <2>1. old(j) \in 1..len /\ old(j) # i /\ r[j] = s[old(j)]
    BY <1>2, <1>3
  <2> HIDE DEF old
  <2> QED BY <2>1, <1>1, <1>6
<1>7. ASSUME NEW m, m # s[i].pool, NEW k \in DOMAIN s, s[k].pool = m
      PROVE  \E j \in DOMAIN r : r[j].pool = m
  <2>1. k \in 1..len /\ k # i
    BY <1>1, <1>7
  <2>2. PICK j \in 1..(len - 1) : r[j] = s[k]
    BY <2>1, <1>4
  <2> QED BY <2>2, <1>2, <1>7
<1> QED BY <1>2, <1>5, <1>6, <1>7 DEF r

\* beginAllocateToPool counts the recording it starts.
LEMMA BeginStep ==
  ASSUME TypeOK, GraphPoolsReferenced, NEW m \in Mempool, BeginAllocateToPool(m)
  PROVE  TypeOK' /\ GraphPoolsReferenced'
<1>1. /\ m \in DOMAIN graph_pools => graph_pools[m] > 0
      /\ graph_pools' = [x \in DOMAIN graph_pools \cup {m} |->
           IF x # m THEN graph_pools[x]
           ELSE IF m \in DOMAIN graph_pools THEN graph_pools[m] + 1 ELSE 1]
      /\ recordings_underway' =
           IF Recording(m) THEN recordings_underway
           ELSE Append(recordings_underway, [pool |-> m, filter |-> NULL])
      /\ UNCHANGED <<block, pool, allocated_blocks, dpcpp_events, segment,
                     graph_pools_freeable, recorded, device_stats, op, undefined>>
  BY DEF BeginAllocateToPool
<1>2. /\ DOMAIN graph_pools \subseteq Mempool /\ graph_pools \in [DOMAIN graph_pools -> Nat]
      /\ recordings_underway \in Seq(Underway) /\ recorded \in [Mempool -> Nat]
      /\ graph_pools_freeable \subseteq Mempool
  BY DEF TypeOK
<1> DEFINE r == recordings_underway
           e == [pool |-> m, filter |-> NULL]
<1>3. e \in Underway /\ e.pool = m
  BY DEF Underway
<1> HIDE DEF e
<1>4. /\ recordings_underway' \in Seq(Underway)
      /\ \A x : Recording(x)' <=> (x = m \/ Recording(x))
      /\ \A i, j \in DOMAIN recordings_underway' :
           recordings_underway'[i].pool = recordings_underway'[j].pool => i = j
  <2>1. CASE Recording(m)
    BY <2>1, <1>1, <1>2 DEF GraphPoolsReferenced, Recording
  <2>2. CASE ~Recording(m)
    <3>1. recordings_underway' = Append(r, e)
      BY <2>2, <1>1 DEF e
    <3>2. /\ Len(r) \in Nat /\ DOMAIN r = 1..Len(r)
          /\ DOMAIN recordings_underway' = 1..(Len(r) + 1)
          /\ recordings_underway'[Len(r) + 1] = e
          /\ \A i \in 1..Len(r) : recordings_underway'[i] = r[i]
          /\ recordings_underway' \in Seq(Underway)
      BY <3>1, <1>2, <1>3
    <3>3. \A i \in 1..(Len(r) + 1) : i \in 1..Len(r) \/ i = Len(r) + 1
      BY <3>2
    <3>4. \A i \in 1..Len(r) : r[i].pool # m
      BY <2>2, <3>2 DEF Recording
    <3>5. \A x : Recording(x)' <=> (x = m \/ Recording(x))
      <4>1. ASSUME NEW x, Recording(x)' PROVE x = m \/ Recording(x)
        <5>1. PICK i \in DOMAIN recordings_underway' : recordings_underway'[i].pool = x
          BY <4>1 DEF Recording
        <5> QED BY <5>1, <3>2, <3>3, <1>3 DEF Recording
      <4>2. ASSUME NEW x, x = m \/ Recording(x) PROVE Recording(x)'
        <5>1. CASE x = m
          <6>1. Len(r) + 1 \in 1..(Len(r) + 1)
            BY <3>2
          <6> QED BY <5>1, <6>1, <3>2, <1>3 DEF Recording
        <5>2. CASE Recording(x)
          <6>1. PICK i \in DOMAIN r : r[i].pool = x
            BY <5>2 DEF Recording
          <6>2. i \in DOMAIN recordings_underway' /\ recordings_underway'[i].pool = x
            BY <6>1, <3>2
          <6> QED BY <6>2 DEF Recording
        <5> QED BY <4>2, <5>1, <5>2
      <4> QED BY <4>1, <4>2
    <3>6. ASSUME NEW i \in 1..(Len(r) + 1), NEW j \in 1..(Len(r) + 1),
                 recordings_underway'[i].pool = recordings_underway'[j].pool
          PROVE  i = j
      <4>1. \A k, l \in 1..Len(r) : r[k].pool = r[l].pool => k = l
        BY <3>2 DEF GraphPoolsReferenced
      <4> QED BY <4>1, <3>2, <3>3, <3>4, <3>6, <1>3
    <3> QED BY <3>2, <3>5, <3>6
  <2> QED BY <2>1, <2>2
<1>5. /\ DOMAIN graph_pools' = DOMAIN graph_pools \cup {m}
      /\ graph_pools'[m] = IF m \in DOMAIN graph_pools THEN graph_pools[m] + 1 ELSE 1
      /\ \A x \in DOMAIN graph_pools : x # m => graph_pools'[x] = graph_pools[x]
  BY <1>1
<1>6. /\ DOMAIN graph_pools' \subseteq Mempool
      /\ graph_pools' \in [DOMAIN graph_pools' -> Nat]
  <2>1. \A x \in DOMAIN graph_pools' : graph_pools'[x] \in Nat
    BY <1>2, <1>5
  <2>2. graph_pools' = [x \in DOMAIN graph_pools' |-> graph_pools'[x]]
    BY <1>1
  <2> QED BY <2>1, <2>2, <1>2, <1>5
<1>7. TypeOK'
  BY <1>1, <1>4, <1>6 DEF TypeOK
<1>8. ASSUME NEW x \in Mempool, recorded'[x] > 0 \/ Recording(x)'
      PROVE  /\ x \in DOMAIN graph_pools'
             /\ graph_pools'[x] >= recorded'[x] + (IF Recording(x)' THEN 1 ELSE 0)
  <2>1. CASE x # m
    <3>1. Recording(x)' <=> Recording(x)
      BY <2>1, <1>4
    <3>2. recorded'[x] = recorded[x]
      BY <1>1
    <3>3. x \in DOMAIN graph_pools /\ graph_pools[x] >= recorded[x] + (IF Recording(x) THEN 1 ELSE 0)
      BY <3>1, <3>2, <1>8 DEF GraphPoolsReferenced
    <3> QED BY <3>1, <3>2, <3>3, <2>1, <1>5
  <2>2. CASE x = m
    <3>1. Recording(x)' /\ recorded'[x] = recorded[x] /\ recorded[x] \in Nat
      BY <2>2, <1>1, <1>2, <1>4
    <3>2. recorded[m] > 0 => m \in DOMAIN graph_pools
                             /\ graph_pools[m] >= recorded[m] + (IF Recording(m) THEN 1 ELSE 0)
      BY DEF GraphPoolsReferenced
    <3>3. m \in DOMAIN graph_pools => graph_pools[m] \in Nat /\ graph_pools[m] >= recorded[m]
      BY <3>1, <3>2, <2>2, <1>2
    <3>4. graph_pools'[m] >= recorded[m] + 1
      BY <3>1, <3>2, <3>3, <2>2, <1>5
    <3> QED BY <3>1, <3>4, <2>2, <1>5
  <2> QED BY <2>1, <2>2
<1>9. \A x \in graph_pools_freeable' : x \in DOMAIN graph_pools' /\ graph_pools'[x] = 0
  <2>1. \A x \in graph_pools_freeable : x \in DOMAIN graph_pools /\ graph_pools[x] = 0
    BY DEF GraphPoolsReferenced
  <2> QED BY <2>1, <1>1, <1>5
<1> QED BY <1>4, <1>7, <1>8, <1>9 DEF GraphPoolsReferenced

\* endAllocateToPool turns a recording into a recorded graph.
LEMMA EndStep ==
  ASSUME TypeOK, GraphPoolsReferenced, NEW m \in Mempool, EndAllocateToPool(m)
  PROVE  TypeOK' /\ GraphPoolsReferenced'
<1>1. PICK i \in DOMAIN recordings_underway :
        /\ recordings_underway[i].pool = m
        /\ recordings_underway' = Without(recordings_underway, i)
  BY DEF EndAllocateToPool
<1>2. /\ recorded' = [recorded EXCEPT ![m] = @ + 1]
      /\ UNCHANGED <<block, pool, allocated_blocks, dpcpp_events, segment,
                     graph_pools, graph_pools_freeable, device_stats, op, undefined>>
  BY DEF EndAllocateToPool
<1>3. recordings_underway \in Seq(Underway) /\ recorded \in [Mempool -> Nat]
  BY DEF TypeOK
<1>4. \A j, k \in DOMAIN recordings_underway :
        recordings_underway[j].pool = recordings_underway[k].pool => j = k
  BY DEF GraphPoolsReferenced
<1>5. /\ recordings_underway' \in Seq(Underway)
      /\ \A j, k \in DOMAIN recordings_underway' :
           recordings_underway'[j].pool = recordings_underway'[k].pool => j = k
      /\ \A x : (\E j \in DOMAIN recordings_underway' : recordings_underway'[j].pool = x) <=>
                (x # m /\ \E j \in DOMAIN recordings_underway : recordings_underway[j].pool = x)
  <2> DEFINE s == recordings_underway
             r == Without(s, i)
  <2>1. /\ r \in Seq(Underway)
        /\ \A j, k \in DOMAIN r : r[j].pool = r[k].pool => j = k
        /\ \A x : (\E j \in DOMAIN r : r[j].pool = x) <=>
                  (x # s[i].pool /\ \E j \in DOMAIN s : s[j].pool = x)
    BY <1>3, <1>4, WithoutRecording
  <2>2. recordings_underway' = r /\ s[i].pool = m
    BY <1>1
  <2> HIDE DEF r
  <2> QED BY <2>1, <2>2
<1>6. \A x : Recording(x)' <=> (x # m /\ Recording(x))
  BY <1>5 DEF Recording
<1>7. Recording(m)
  BY <1>1 DEF Recording
<1>8. recorded' \in [Mempool -> Nat] /\ recorded'[m] = recorded[m] + 1
      /\ \A x \in Mempool : x # m => recorded'[x] = recorded[x]
  BY <1>2, <1>3
<1>9. TypeOK'
  BY <1>2, <1>5, <1>8 DEF TypeOK
<1>10. ASSUME NEW x \in Mempool, recorded'[x] > 0 \/ Recording(x)'
       PROVE  /\ x \in DOMAIN graph_pools'
              /\ graph_pools'[x] >= recorded'[x] + (IF Recording(x)' THEN 1 ELSE 0)
  <2>1. recorded[x] > 0 \/ Recording(x)
    BY <1>6, <1>7, <1>8, <1>10
  <2>2. x \in DOMAIN graph_pools
        /\ graph_pools[x] >= recorded[x] + (IF Recording(x) THEN 1 ELSE 0)
    BY <2>1 DEF GraphPoolsReferenced
  <2>3. recorded[x] \in Nat
    BY <1>3
  <2>4. CASE x = m
    BY <2>2, <2>3, <2>4, <1>2, <1>6, <1>7, <1>8
  <2>5. CASE x # m
    BY <2>2, <2>5, <1>2, <1>6, <1>8
  <2> QED BY <2>4, <2>5
<1> QED BY <1>2, <1>5, <1>9, <1>10 DEF GraphPoolsReferenced

\* releasePool drops the reference of a recorded graph.
LEMMA ReleaseStep ==
  ASSUME TypeOK, GraphPoolsReferenced, NEW m \in Mempool, ReleasePool(m)
  PROVE  TypeOK' /\ GraphPoolsReferenced'
<1>1. /\ recorded[m] > 0
      /\ recorded' = [recorded EXCEPT ![m] = @ - 1]
      /\ graph_pools' = [graph_pools EXCEPT ![m] = @ - 1]
      /\ graph_pools_freeable' = IF graph_pools[m] = 1
                                 THEN graph_pools_freeable \cup {m}
                                 ELSE graph_pools_freeable
      /\ UNCHANGED <<block, pool, allocated_blocks, dpcpp_events, segment,
                     recordings_underway, device_stats, op, undefined>>
  BY DEF ReleasePool, releasePool
<1>2. /\ DOMAIN graph_pools \subseteq Mempool /\ graph_pools \in [DOMAIN graph_pools -> Nat]
      /\ recorded \in [Mempool -> Nat] /\ graph_pools_freeable \subseteq Mempool
  BY DEF TypeOK
<1>3. /\ m \in DOMAIN graph_pools
      /\ graph_pools[m] >= recorded[m] + (IF Recording(m) THEN 1 ELSE 0)
      /\ graph_pools[m] \in Nat /\ recorded[m] \in Nat /\ graph_pools[m] > 0
  <2>1. /\ m \in DOMAIN graph_pools
        /\ graph_pools[m] >= recorded[m] + (IF Recording(m) THEN 1 ELSE 0)
    BY <1>1 DEF GraphPoolsReferenced
  <2>2. graph_pools[m] \in Nat /\ recorded[m] \in Nat
    BY <2>1, <1>2
  <2>3. CASE Recording(m)
    BY <2>1, <2>2, <2>3, <1>1
  <2>4. CASE ~Recording(m)
    BY <2>1, <2>2, <2>4, <1>1
  <2> QED BY <2>1, <2>2, <2>3, <2>4
<1>4. /\ recorded' \in [Mempool -> Nat] /\ recorded'[m] = recorded[m] - 1
      /\ \A x \in Mempool : x # m => recorded'[x] = recorded[x]
  BY <1>1, <1>2
<1>5. /\ DOMAIN graph_pools' = DOMAIN graph_pools
      /\ graph_pools' \in [DOMAIN graph_pools -> Nat]
      /\ graph_pools'[m] = graph_pools[m] - 1
      /\ \A x \in DOMAIN graph_pools : x # m => graph_pools'[x] = graph_pools[x]
  BY <1>1, <1>2, <1>3
<1>6. TypeOK'
  BY <1>1, <1>2, <1>4, <1>5 DEF TypeOK
<1>7. \A x : Recording(x)' <=> Recording(x)
  BY <1>1 DEF Recording
<1>8. ASSUME NEW x \in Mempool, recorded'[x] > 0 \/ Recording(x)'
      PROVE  /\ x \in DOMAIN graph_pools'
             /\ graph_pools'[x] >= recorded'[x] + (IF Recording(x)' THEN 1 ELSE 0)
  <2>1. CASE x = m
    <3>1. CASE Recording(m)
      BY <3>1, <2>1, <1>3, <1>4, <1>5, <1>7
    <3>2. CASE ~Recording(m)
      BY <3>2, <2>1, <1>3, <1>4, <1>5, <1>7
    <3> QED BY <3>1, <3>2
  <2>2. CASE x # m
    <3>1. recorded[x] > 0 \/ Recording(x)
      BY <2>2, <1>4, <1>7, <1>8
    <3>2. x \in DOMAIN graph_pools
          /\ graph_pools[x] >= recorded[x] + (IF Recording(x) THEN 1 ELSE 0)
      BY <3>1 DEF GraphPoolsReferenced
    <3> QED BY <3>2, <2>2, <1>4, <1>5, <1>7
  <2> QED BY <2>1, <2>2
<1>9. \A x \in graph_pools_freeable' : x \in DOMAIN graph_pools' /\ graph_pools'[x] = 0
  <2>1. \A x \in graph_pools_freeable :
          x \in DOMAIN graph_pools /\ graph_pools[x] = 0 /\ x # m
    BY <1>3 DEF GraphPoolsReferenced
  <2>2. \A x \in graph_pools_freeable' : x \in graph_pools_freeable \/ (x = m /\ graph_pools[m] = 1)
    BY <1>1
  <2> QED BY <2>1, <2>2, <1>3, <1>5
<1> QED BY <1>1, <1>6, <1>7, <1>8, <1>9 DEF GraphPoolsReferenced

\* A filter changes in the recordings, their pools do not.
LEMMA FilterStep ==
  ASSUME TypeOK, GraphPoolsReferenced, NEW m \in Mempool,
         NEW o \in QueueObject \cup {NULL}, FilterChanges(m, o)
  PROVE  TypeOK' /\ GraphPoolsReferenced'
<1> DEFINE r == recordings_underway
           f(i) == IF r[i].pool = m THEN [pool |-> m, filter |-> o] ELSE r[i]
<1>1. /\ recordings_underway' = [i \in DOMAIN r |-> f(i)]
      /\ UNCHANGED <<block, pool, allocated_blocks, dpcpp_events, segment, graph_pools,
                     graph_pools_freeable, recorded, device_stats, op, undefined>>
  BY DEF FilterChanges
<1>2. r \in Seq(Underway) /\ DOMAIN r = 1..Len(r) /\ Len(r) \in Nat
  BY DEF TypeOK
<1>3. \A i \in DOMAIN r : f(i) \in Underway /\ f(i).pool = r[i].pool
  <2>1. [pool |-> m, filter |-> o] \in Underway  BY DEF Underway
  <2>2. \A i \in DOMAIN r : r[i] \in Underway  BY <1>2
  <2> QED BY <2>1, <2>2
<1> HIDE DEF f
<1>4. recordings_underway' \in Seq(Underway)
  BY <1>1, <1>2, <1>3
<1>5. DOMAIN recordings_underway' = DOMAIN r
      /\ \A i \in DOMAIN r : recordings_underway'[i].pool = r[i].pool
  BY <1>1, <1>3
<1>6. \A x : Recording(x)' <=> Recording(x)
  BY <1>5 DEF Recording
<1>7. TypeOK'
  BY <1>1, <1>4 DEF TypeOK
<1>8. \A i, j \in DOMAIN recordings_underway' :
        recordings_underway'[i].pool = recordings_underway'[j].pool => i = j
  BY <1>5 DEF GraphPoolsReferenced
<1> QED BY <1>1, <1>6, <1>7, <1>8 DEF GraphPoolsReferenced

\* free_cached_blocks destroys only pools nobody refers to.
LEMMA FreeCachedBlocksReferences ==
  ASSUME TypeOK, GraphPoolsReferenced, FreeCachedBlocks
  PROVE  GraphPoolsReferenced'
<1>1. /\ graph_pools_freeable' = {}
      /\ graph_pools' = [m \in DOMAIN graph_pools \ graph_pools_freeable |-> graph_pools[m]]
      /\ UNCHANGED <<recordings_underway, recorded>>
  BY DEF FreeCachedBlocks
<1>2. \A x : Recording(x)' <=> Recording(x)
  BY <1>1 DEF Recording
<1>3. ASSUME NEW x \in Mempool, recorded'[x] > 0 \/ Recording(x)'
      PROVE  /\ x \in DOMAIN graph_pools'
             /\ graph_pools'[x] >= recorded'[x] + (IF Recording(x)' THEN 1 ELSE 0)
  <2>1. recorded[x] > 0 \/ Recording(x)
    BY <1>1, <1>2, <1>3
  <2>2. x \in DOMAIN graph_pools
        /\ graph_pools[x] >= recorded[x] + (IF Recording(x) THEN 1 ELSE 0)
    BY <2>1 DEF GraphPoolsReferenced
  <2>3. recorded[x] \in Nat
    BY DEF TypeOK
  <2>4. graph_pools[x] # 0
    <3>1. CASE Recording(x)
      BY <3>1, <2>2, <2>3
    <3>2. CASE ~Recording(x)
      BY <3>2, <2>1, <2>2, <2>3
    <3> QED BY <3>1, <3>2
  <2>5. x \notin graph_pools_freeable
    BY <2>4 DEF GraphPoolsReferenced
  <2> QED BY <2>2, <2>5, <1>1, <1>2
<1> QED BY <1>1, <1>3 DEF GraphPoolsReferenced

\* The other steps leave the private pools alone.
LEMMA ReferencesUnchanged ==
  ASSUME GraphPoolsReferenced, UNCHANGED graphVars
  PROVE  GraphPoolsReferenced'
<1>1. \A x : Recording(x)' <=> Recording(x)
  BY DEF Recording, graphVars
<1> QED BY <1>1 DEF GraphPoolsReferenced, graphVars

-----------------------------------------------------------------------------
(* The theorems. *)

\* The invariant holds in a fresh allocator.
THEOREM InitInvariant == Init => IInv
<1> SUFFICES ASSUME Init PROVE IInv
  OBVIOUS
<1>1. TypeOK
  <2>1. op \in Op
    BY NullAssumption DEF Init, Idle, Op, PC, Owner
  <2>2. dpcpp_events \in Seq(Event) /\ recordings_underway \in Seq(Underway)
    BY DEF Init
  <2>3. device_stats \in Stats /\ pool \in [PoolKey -> SUBSET BlockId]
        /\ recorded \in [Mempool -> Nat]
    BY DEF Init, Stats
  <2>4. DOMAIN block = {} /\ DOMAIN allocated_blocks = {} /\ DOMAIN graph_pools = {}
    BY DEF Init
  <2>5. /\ block \in [DOMAIN block -> Block] /\ graph_pools \in [DOMAIN graph_pools -> Nat]
        /\ allocated_blocks \in [DOMAIN allocated_blocks -> BlockId]
    BY <2>4 DEF Init
  <2>6. segment \subseteq Segment /\ graph_pools_freeable \subseteq Mempool /\ undefined \in BOOLEAN
    BY DEF Init
  <2> QED BY <2>1, <2>2, <2>3, <2>4, <2>5, <2>6 DEF TypeOK
<1>2. GraphPoolsReferenced
  <2>1. \A m : ~Recording(m)
    BY DEF Init, Recording
  <2> QED BY <2>1 DEF Init, GraphPoolsReferenced
<1>3. Safe
  <2>1. DOMAIN block = {} /\ DOMAIN allocated_blocks = {} /\ DOMAIN dpcpp_events = {}
        /\ segment = {} /\ op.pc = "idle" /\ op.block = NULL
    BY DEF Init, Idle
  <2>2. \A k \in PoolKey : pool[k] = {}
    BY DEF Init
  <2>3. Linked(block) /\ InSegments(block, segment) /\ Apart(block) /\ SegmentsApart(segment)
    BY <2>1 DEF Linked, InSegments, Apart, SegmentsApart
  <2>4. Places /\ EventsCounted
    BY <2>1, <2>2 DEF Places, EventsCounted
  <2>5. InHand
    BY <2>1 DEF InHand
  <2> QED BY <2>3, <2>4, <2>5 DEF Safe
<1> QED BY <1>1, <1>2, <1>3 DEF IInv

\* Every step of the allocator, of its callers and of the device keeps the
\* invariant.
THEOREM NextInvariant == IInv /\ [Next]_vars => IInv'
<1> SUFFICES ASSUME IInv, [Next]_vars PROVE IInv'
  OBVIOUS
<1>1. TypeOK /\ GraphPoolsReferenced /\ (~undefined => Safe)
  BY DEF IInv
<1>2. CASE UNCHANGED vars
  <2>1. UNCHANGED graphVars /\ undefined' = undefined
    BY <1>2 DEF vars, graphVars
  <2>2. TypeOK'
    BY <1>1, <1>2 DEF vars, TypeOK
  <2>3. GraphPoolsReferenced'
    BY <1>1, <2>1, ReferencesUnchanged
  <2>4. ASSUME ~undefined' PROVE Safe'
    <3>1. Safe
      BY <1>1, <2>1, <2>4
    <3>2. InHand'
      BY <3>1, <1>2 DEF Safe, InHand, OpSize, EventQueues, vars
    <3>3. UNCHANGED <<block, pool, allocated_blocks, dpcpp_events, segment>>
      BY <1>2 DEF vars
    <3> QED BY <3>1, <3>2, <3>3, SafeUnchanged
  <2> QED BY <2>2, <2>3, <2>4 DEF IInv
<1>3. CASE Undefined
  BY <1>2, <1>3 DEF Undefined
<1>4. ASSUME Call \/ OpStep \/ EventComplete PROVE IInv'
  <2>0. ~undefined
    BY <1>4 DEF Call, OpStep, MallocStep, Malloc, Free, FreeUsed, RecordQueue, EmptyCache,
         ProcessEvent, ProcessEventsEnd, FindFreeBlock, FindNothing,
         AllocSegment, AllocFails, SynchronizeEvent, SynchronizeEnd, FreeSegment,
         FreeCachedBlocks, OutOfMemory, Split, InsertEvent, EmptyCacheEnd, EventComplete, At
  <2>1. Safe
    BY <1>1, <2>0
  <2>2. TypeOK' /\ (~undefined' => Safe')
    <3>1. ASSUME NEW a \in DOMAIN allocated_blocks, Free(a) PROVE TypeOK' /\ (~undefined' => Safe')
      BY <3>1, <1>1, <2>1, FreeStep
    <3>2. ASSUME NEW a \in DOMAIN allocated_blocks, FreeUsed(a) PROVE TypeOK' /\ Safe'
      BY <3>2, <1>1, <2>1, FreeUsedStep
    <3>3. ASSUME NEW a \in DOMAIN allocated_blocks, NEW q \in Queue, RecordQueue(a, q)
          PROVE  TypeOK' /\ Safe'
      BY <3>3, <1>1, <2>1, RecordQueueStep
    <3>4. ASSUME \/ \E c \in CallSite, n \in ASize : Malloc(c[1], c[2], c[3], n)
                 \/ EmptyCache \/ ProcessEventsEnd \/ AllocFails \/ OutOfMemory
          PROVE  TypeOK' /\ Safe'
      BY <3>4, <1>1, <2>1, MoveStep
    <3>5. ASSUME ProcessEvent PROVE TypeOK' /\ (~undefined' => Safe')
      <4>1. op.block = NULL /\ op.pc = "process_events"
        BY <3>5, <2>1 DEF ProcessEvent, At, Safe, InHand
      <4>2. dpcpp_events \in Seq(Event) /\ dpcpp_events # <<>>
        BY <3>5, <1>1 DEF ProcessEvent, TypeOK
      <4>3. 1 \in DOMAIN dpcpp_events
        BY <4>2
      <4>4. /\ EventDone(dpcpp_events[1].block) /\ dpcpp_events' = Without(dpcpp_events, 1)
            /\ UNCHANGED <<allocated_blocks, segment, graphVars, op>>
        BY <3>5 DEF ProcessEvent
      <4> QED BY <4>1, <4>3, <4>4, <1>1, <2>0, <2>1, EventDoneStep
    <3>6. ASSUME SynchronizeEvent PROVE TypeOK' /\ (~undefined' => Safe')
      <4>1. op.block = NULL /\ op.pc \in {"synchronize", "empty_synchronize"}
        BY <3>6, <2>1 DEF SynchronizeEvent, At, Safe, InHand
      <4>2. PICK i \in DOMAIN dpcpp_events :
              EventDone(dpcpp_events[i].block) /\ dpcpp_events' = Without(dpcpp_events, i)
        BY <3>6 DEF SynchronizeEvent
      <4>3. UNCHANGED <<allocated_blocks, segment, graphVars, op>>
        BY <3>6 DEF SynchronizeEvent
      <4> QED BY <4>1, <4>2, <4>3, <1>1, <2>0, <2>1, EventDoneStep
    <3>7. ASSUME FindFreeBlock \/ AllocSegment \/ FreeSegment \/ FreeCachedBlocks
                 \/ SynchronizeEnd \/ InsertEvent \/ EventComplete
          PROVE  TypeOK' /\ Safe'
      BY <3>7, <1>1, <2>1, FindFreeBlockStep, AllocSegmentStep, FreeSegmentStep,
         FreeCachedBlocksStep, SynchronizeEndStep, InsertEventStep, EventCompleteStep
    <3>8. ASSUME Split PROVE TypeOK' /\ (~undefined' => Safe')
      BY <3>8, <1>1, <2>1, SplitStep
    <3>9. ASSUME FindNothing \/ EmptyCacheEnd PROVE TypeOK' /\ (~undefined' => Safe')
      BY <3>9, <1>1, <2>1, DanglingStep
    <3> QED BY <1>4, <3>1, <3>2, <3>3, <3>4, <3>5, <3>6, <3>7, <3>8, <3>9
            DEF Call, OpStep, MallocStep
  <2>3. GraphPoolsReferenced'
    <3>1. CASE FreeCachedBlocks
      BY <3>1, <1>1, FreeCachedBlocksReferences
    <3>2. CASE ~FreeCachedBlocks
      <4>1. UNCHANGED graphVars
        BY <1>4, <3>2 DEF Call, OpStep, MallocStep, Malloc, Free, FreeUsed, RecordQueue,
         EmptyCache, ProcessEvent, ProcessEventsEnd, FindFreeBlock, FindNothing,
         AllocSegment, AllocFails, SynchronizeEvent, SynchronizeEnd, FreeSegment,
         OutOfMemory, Split, InsertEvent, EmptyCacheEnd, EventComplete
      <4> QED BY <4>1, <1>1, ReferencesUnchanged
    <3> QED BY <3>1, <3>2
  <2> QED BY <2>2, <2>3 DEF IInv
<1>5. ASSUME GraphCall PROVE IInv'
  <2>1. TypeOK' /\ GraphPoolsReferenced'
    BY <1>5, <1>1, BeginStep, EndStep, ReleaseStep DEF GraphCall
  <2>2. /\ UNCHANGED <<block, pool, allocated_blocks, dpcpp_events, segment, op, undefined>>
        /\ op.pc = "idle" /\ ~undefined
    BY <1>5 DEF GraphCall, BeginAllocateToPool, EndAllocateToPool, ReleasePool,
         releasePool, At
  <2>3. InHand'
    BY <1>1, <2>2 DEF Safe, InHand
  <2> QED BY <1>1, <2>1, <2>2, <2>3, SafeUnchanged DEF IInv
<1>6. ASSUME QueueStateChanges PROVE IInv'
  <2>1. TypeOK' /\ GraphPoolsReferenced'
    BY <1>6, <1>1, FilterStep DEF QueueStateChanges
  <2>2. /\ UNCHANGED <<block, pool, allocated_blocks, dpcpp_events, segment, op, undefined>>
        /\ ~undefined
    BY <1>6 DEF QueueStateChanges, FilterChanges
  <2>3. InHand'
    BY <1>1, <2>2 DEF Safe, InHand, OpSize, EventQueues
  <2> QED BY <1>1, <2>1, <2>2, <2>3, SafeUnchanged DEF IInv
<1> QED BY <1>2, <1>3, <1>4, <1>5, <1>6 DEF Next, PlainNext

\* The inductive invariant holds in every reachable state.
THEOREM AllocatorInvariant == Spec => []IInv
  BY InitInvariant, NextInvariant, PTL DEF Spec

\* The variables keep their types.
THEOREM TypeCorrect == Spec => []TypeOK
<1>1. IInv => TypeOK
  BY DEF IInv
<1> QED BY <1>1, AllocatorInvariant, PTL

\* No two Block objects ever cover the same byte, whatever the sizes, the
\* queues, the devices and the order in which events complete.
THEOREM MemoryDisjoint == Spec => []NoOverlap
<1>1. IInv => NoOverlap
  BY DEF IInv, Safe, NoOverlap
<1> QED BY <1>1, AllocatorInvariant, PTL

\* The block lists always tile the segments obtained from SYCL.
THEOREM BlocksTile == Spec => []BlocksTileSegments
<1>1. IInv => BlocksTileSegments
  BY DEF IInv, Safe, BlocksTileSegments
<1> QED BY <1>1, AllocatorInvariant, PTL

\* Every block is in one place.
THEOREM BlocksInOnePlace == Spec => []OnePlace
<1>1. ASSUME IInv, ~undefined PROVE OnePlace
  <2>1. Places /\ InHand /\ EventsCounted /\ DOMAIN block \subseteq BlockId
    BY <1>1 DEF IInv, Safe, TypeOK
  <2>2. \A b \in DOMAIN block : op.block = b => op.pc \in {"split", "insert_events"}
    BY <2>1, NullAssumption DEF InHand
  <2>3. \A a \in DOMAIN allocated_blocks :
         /\ allocated_blocks[a] \in DOMAIN block
         /\ block[allocated_blocks[a]].buffer = a
         /\ block[allocated_blocks[a]].allocated
    BY <2>1 DEF Places
  <2>4. \A b \in DOMAIN block : block[b].allocated =>
              /\ block[b].buffer \in DOMAIN allocated_blocks
              /\ allocated_blocks[block[b].buffer] = b
              /\ op.block # b
    BY <2>1, <2>2 DEF Places, InHand
  <2>5. \A b \in DOMAIN block : \A k \in PoolKey : b \in pool[k] =>
              /\ ~block[b].allocated /\ block[b].event_cnt = 0
              /\ block[b].queue_uses = {}
              /\ op.block # b
              /\ \A l \in PoolKey : b \in pool[l] => l = k
    BY <2>1, <2>2 DEF Places, InHand
  <2> QED BY <2>3, <2>4, <2>5 DEF OnePlace
<1>2. IInv => OnePlace
  BY <1>1 DEF OnePlace
<1> QED BY <1>2, AllocatorInvariant, PTL

\* A block whose events have not all been consumed is out of reach.
THEOREM PendingBlocksHeld == Spec => []EventBlocksHeld
<1>1. ASSUME IInv, ~undefined PROVE EventBlocksHeld
  <2> SUFFICES ASSUME NEW i \in DOMAIN dpcpp_events
      PROVE  LET b == dpcpp_events[i].block
             IN  /\ b \in DOMAIN block
                 /\ ~block[b].allocated
                 /\ block[b].event_cnt = Cardinality(EventQueues(b))
                 /\ \A k \in PoolKey : b \notin pool[k]
                 /\ op.block = b => op.pc = "insert_events"
    BY DEF EventBlocksHeld
  <2> DEFINE b == dpcpp_events[i].block
  <2>1. TypeOK /\ Safe
    BY <1>1 DEF IInv
  <2>2. /\ PoolsFit(pool, block) /\ EventsFit(dpcpp_events, block) /\ InHand
    BY <2>1, SafeParts
  <2>3. dpcpp_events \in Seq(Event) /\ DOMAIN block \subseteq BlockId
    BY <2>1 DEF TypeOK
  <2>4. b \in DOMAIN block /\ block[b].event_cnt > 0
    BY <2>2, <2>3, EventCountPositive
  <2>5. ~block[b].allocated /\ block[b].event_cnt = Cardinality(EventQueues(b))
    BY <2>2, <2>4 DEF EventsFit, EventQueues
  <2>6. \A k \in PoolKey : b \notin pool[k]
    BY <2>2, <2>4 DEF PoolsFit
  <2>7. op.block = b => op.pc = "insert_events"
    BY <2>2, <2>3, <2>4, NullAssumption DEF InHand
  <2> QED BY <2>4, <2>5, <2>6, <2>7
<1>2. IInv => EventBlocksHeld
  BY <1>1 DEF EventBlocksHeld
<1> QED BY <1>2, AllocatorInvariant, PTL

\* The references to private pools are always accounted for, so the
\* assertions of releasePool and free_cached_blocks never fail.
THEOREM PoolsReferenced == Spec => []GraphPoolsReferenced
<1>1. IInv => GraphPoolsReferenced
  BY DEF IInv
<1> QED BY <1>1, AllocatorInvariant, PTL

\* A program that records no graphs is a program: what is proved of Spec holds
\* of PlainSpec.
THEOREM PlainImpliesSpec == PlainSpec => Spec
<1>1. [PlainNext]_vars => [Next]_vars
  BY DEF Next
<1> QED BY <1>1, PTL DEF PlainSpec, Spec

-----------------------------------------------------------------------------
(* Statistics.  Counters of blocks are cardinalities of sets of blocks, and *)
(* counters of bytes those of sets of addresses, so both change with a step *)
(* as the theorems on finite sets say.                                      *)

Finite(blocks) ==
  IsFiniteSet(DOMAIN blocks) /\ IsFiniteSet(Addresses(blocks, DOMAIN blocks))

FirstOf(blocks, d, t) == {b \in BlocksOf(blocks, d, t) : blocks[b].prev = NULL}

AllocatedOf(blocks, d, t) == {b \in BlocksOf(blocks, d, t) : blocks[b].allocated}

\* The blocks of `busy` count as active, those of `hidden` not as inactive.
ActiveOf(blocks, busy, d, t) ==
  {b \in BlocksOf(blocks, d, t) :
     blocks[b].allocated \/ blocks[b].event_cnt > 0 \/ b \in busy}

InactiveOf(blocks, hidden, d, t) ==
  {b \in BlocksOf(blocks, d, t) \ hidden :
     ~blocks[b].allocated /\ ~(blocks[b].event_cnt > 0) /\ IsSplit(blocks[b])}

\* The counters of device d and pool type t are those of the blocks.
RowFits(row, blocks, busy, hidden, d, t) ==
  /\ row["segment"] = Cardinality(FirstOf(blocks, d, t))
  /\ row["reserved_bytes"] = Bytes(blocks, BlocksOf(blocks, d, t))
  /\ row["inactive_split"] = Cardinality(InactiveOf(blocks, hidden, d, t))
  /\ row["inactive_split_bytes"] = Bytes(blocks, InactiveOf(blocks, hidden, d, t))
  /\ row["allocation"] = Cardinality(AllocatedOf(blocks, d, t))
  /\ row["allocated_bytes"] = Bytes(blocks, AllocatedOf(blocks, d, t))
  /\ row["active"] = Cardinality(ActiveOf(blocks, busy, d, t))
  /\ row["active_bytes"] = Bytes(blocks, ActiveOf(blocks, busy, d, t))

\* The inductive invariant behind StatsMatch.
StatsInv ==
  ~undefined =>
    /\ Finite(block)
    /\ \A d \in Device, t \in PoolType :
         RowFits(device_stats[d][t], block, Inserting, Inserting, d, t)

\* The sets that are counted are sets of blocks.
LEMMA CountedBlocks ==
  ASSUME NEW blocks, NEW held, NEW d, NEW t
  PROVE  /\ BlocksOf(blocks, d, t) \subseteq DOMAIN blocks
         /\ FirstOf(blocks, d, t) \subseteq DOMAIN blocks
         /\ AllocatedOf(blocks, d, t) \subseteq DOMAIN blocks
         /\ ActiveOf(blocks, held, d, t) \subseteq DOMAIN blocks
         /\ InactiveOf(blocks, held, d, t) \subseteq DOMAIN blocks
  BY DEF BlocksOf, FirstOf, AllocatedOf, ActiveOf, InactiveOf

\* Sets of blocks, and what they cover, are finite.
LEMMA FiniteSums ==
  ASSUME NEW blocks, Finite(blocks), NEW S \in SUBSET DOMAIN blocks
  PROVE  /\ IsFiniteSet(S) /\ Cardinality(S) \in Nat
         /\ IsFiniteSet(Addresses(blocks, S)) /\ Bytes(blocks, S) \in Nat
<1>1. IsFiniteSet(S)
  BY FS_Subset DEF Finite
<1>2. Addresses(blocks, S) \subseteq Addresses(blocks, DOMAIN blocks)
  BY DEF Addresses
<1>3. IsFiniteSet(Addresses(blocks, S))
  BY <1>2, FS_Subset DEF Finite
<1> QED BY <1>1, <1>3, FS_CardinalityType DEF Bytes

\* The addresses of one block.
LEMMA OneBlock ==
  ASSUME NEW blocks, NEW b \in DOMAIN blocks, blocks[b].buffer \in Nat, blocks[b].size \in Nat,
         blocks[b].size > 0
  PROVE  LET A == blocks[b].buffer .. (blocks[b].buffer + blocks[b].size - 1)
         IN  IsFiniteSet(A) /\ Cardinality(A) = blocks[b].size
<1> DEFINE lo == blocks[b].buffer
           hi == blocks[b].buffer + blocks[b].size - 1
<1>1. lo \in Int /\ hi \in Int /\ ~(lo > hi) /\ hi - lo + 1 = blocks[b].size
  OBVIOUS
<1> HIDE DEF lo, hi
<1>2. IsFiniteSet(lo .. hi) /\ Cardinality(lo .. hi) = hi - lo + 1
  BY <1>1, FS_Interval
<1> QED BY <1>1, <1>2 DEF lo, hi

\* One block more.
LEMMA SumAdd ==
  ASSUME NEW blocks, BlockMap(blocks), Finite(blocks), Apart(blocks),
         NEW S \in SUBSET DOMAIN blocks, NEW b \in DOMAIN blocks, b \notin S,
         blocks[b].size > 0
  PROVE  /\ Cardinality(S \cup {b}) = Cardinality(S) + 1
         /\ Bytes(blocks, S \cup {b}) = Bytes(blocks, S) + blocks[b].size
<1> DEFINE A == blocks[b].buffer .. (blocks[b].buffer + blocks[b].size - 1)
           B == Addresses(blocks, S)
<1>1. IsFiniteSet(S) /\ IsFiniteSet(B) /\ Cardinality(B) \in Nat
  BY FiniteSums DEF Bytes
<1>2. Cardinality(S \cup {b}) = Cardinality(S) + 1
  BY <1>1, FS_AddElement
<1>3. blocks[b].buffer \in Nat /\ blocks[b].size \in Nat
  BY DEF BlockMap, Block
<1>4. IsFiniteSet(A) /\ Cardinality(A) = blocks[b].size
  BY <1>3, OneBlock
<1>5. Addresses(blocks, S \cup {b}) = B \cup A
  BY DEF Addresses
<1>6. ASSUME NEW a \in B PROVE a \notin A
  <2> SUFFICES ASSUME a \in A PROVE FALSE
    OBVIOUS
  <2>1. PICK c \in S : a \in blocks[c].buffer .. (blocks[c].buffer + blocks[c].size - 1)
    BY <1>6 DEF Addresses
  <2>2. blocks[c].buffer \in Nat /\ blocks[c].size \in Nat
    BY DEF BlockMap, Block
  <2>3. ~Overlap(blocks[b].buffer, blocks[b].size, blocks[c].buffer, blocks[c].size)
    BY DEF Apart
  <2> QED BY <1>3, <2>1, <2>2, <2>3 DEF Overlap
<1> HIDE DEF A, B
<1>7. Cardinality(B \cup A) = Cardinality(B) + Cardinality(A) - Cardinality(B \cap A)
  BY <1>1, <1>4, FS_Union
<1>8. Cardinality(B \cap A) = 0
  <2>1. B \cap A = {}
    BY <1>6
  <2> QED BY <2>1, FS_EmptySet
<1>9. Bytes(blocks, S \cup {b}) = Cardinality(B \cup A) /\ Bytes(blocks, S) = Cardinality(B)
  BY <1>5 DEF Bytes, B
<1>10. Cardinality(B \cup A) = Cardinality(B) + blocks[b].size
  BY <1>1, <1>3, <1>4, <1>7, <1>8
<1> QED BY <1>2, <1>9, <1>10

\* One block less.
LEMMA SumRemove ==
  ASSUME NEW blocks, BlockMap(blocks), Finite(blocks), Apart(blocks),
         NEW S \in SUBSET DOMAIN blocks, NEW b \in S, blocks[b].size > 0
  PROVE  /\ Cardinality(S \ {b}) = Cardinality(S) - 1
         /\ Bytes(blocks, S \ {b}) = Bytes(blocks, S) - blocks[b].size
<1> DEFINE R == S \ {b}
<1>1. S = R \cup {b} /\ b \notin R /\ R \in SUBSET DOMAIN blocks /\ b \in DOMAIN blocks
  OBVIOUS
<1> HIDE DEF R
<1>2. /\ Cardinality(R \cup {b}) = Cardinality(R) + 1
      /\ Bytes(blocks, R \cup {b}) = Bytes(blocks, R) + blocks[b].size
  BY <1>1, SumAdd
<1>3. Cardinality(R) \in Nat /\ Bytes(blocks, R) \in Nat
  BY <1>1, FiniteSums
<1>4. blocks[b].size \in Nat
  BY <1>1 DEF BlockMap, Block
<1>5. Cardinality(S) = Cardinality(R) + 1 /\ Bytes(blocks, S) = Bytes(blocks, R) + blocks[b].size
  BY <1>1, <1>2
<1>6. Cardinality(R) = Cardinality(S) - 1 /\ Bytes(blocks, R) = Bytes(blocks, S) - blocks[b].size
  BY <1>3, <1>4, <1>5
<1> QED BY <1>6 DEF R

\* Blocks that keep their ranges cover the same addresses.
LEMMA SameBytes ==
  ASSUME NEW blocks, NEW m, NEW S,
         \A x \in S : m[x].buffer = blocks[x].buffer /\ m[x].size = blocks[x].size
  PROVE  Addresses(m, S) = Addresses(blocks, S) /\ Bytes(m, S) = Bytes(blocks, S)
<1>1. Addresses(m, S) = Addresses(blocks, S)
  BY DEF Addresses
<1> QED BY <1>1 DEF Bytes

-----------------------------------------------------------------------------
\* m is blocks with src merged into its neighbour b.
Merged(blocks, m, b, src) ==
  /\ DOMAIN m = DOMAIN blocks \ {src} /\ src \in DOMAIN blocks /\ b # src
  /\ ~blocks[src].allocated /\ blocks[src].event_cnt = 0 /\ IsSplit(blocks[src])
  /\ blocks[src].device = blocks[b].device
  /\ blocks[src].pool_type = blocks[b].pool_type
  /\ m[b].size = blocks[b].size + blocks[src].size
  /\ \/ blocks[b].buffer = blocks[src].buffer + blocks[src].size /\ m[b].buffer = blocks[src].buffer
     \/ blocks[src].buffer = blocks[b].buffer + blocks[b].size /\ m[b].buffer = blocks[b].buffer
  /\ \A x \in DOMAIN m \ {b} :
       /\ m[x].prev = NULL <=> blocks[x].prev = NULL
       /\ m[x].next = NULL <=> blocks[x].next = NULL
  /\ \/ blocks[src].prev # NULL /\ (m[b].prev = NULL <=> blocks[b].prev = NULL)
     \/ blocks[b].prev # NULL /\ (m[b].prev = NULL <=> blocks[src].prev = NULL)

\* try_merge_blocks merges, whichever side src is on.
LEMMA MergedNext ==
  ASSUME NEW blocks, BlockMap(blocks), Linked(blocks),
         NEW b \in DOMAIN blocks, NEW src, src = blocks[b].next,
         Mergeable(blocks, src)
  PROVE  Merged(blocks, TryMerge(blocks, b, src), b, src)
<1> DEFINE m == TryMerge(blocks, b, src)
           o == blocks[src].next
<1>1. /\ src # NULL /\ src \in DOMAIN blocks /\ blocks[src].prev = b
      /\ blocks[src].buffer = blocks[b].buffer + blocks[b].size
      /\ blocks[src].size > 0 /\ blocks[b].size > 0
      /\ blocks[src].device = blocks[b].device
      /\ blocks[src].pool_type = blocks[b].pool_type
      /\ ~blocks[src].allocated /\ blocks[src].event_cnt = 0
  BY DEF Linked, Mergeable
<1>2. \A x \in DOMAIN blocks : blocks[x] \in Block
  BY DEF BlockMap
<1>3. \A x \in DOMAIN blocks : blocks[x].buffer \in Nat /\ blocks[x].size \in Nat
  BY <1>2 DEF Block
<1>4. b # src /\ b # NULL
  BY <1>1, <1>3, NullAssumption DEF BlockMap
<1>5. o # NULL => o \in DOMAIN blocks /\ blocks[o].prev = src /\ o # src /\ o # b
  BY <1>1, <1>3 DEF Linked
<1>6. blocks[b].prev # src
  <2>1. SUFFICES ASSUME blocks[b].prev = src PROVE FALSE
    OBVIOUS
  <2>2. blocks[src].next = b
    BY <1>1, <2>1 DEF Linked
  <2> QED BY <1>4, <1>5, <2>2
<1>7. m = [x \in DOMAIN blocks \ {src} |->
             IF x = b THEN [blocks[x] EXCEPT !.size = blocks[b].size + blocks[src].size,
                                             !.next = o]
             ELSE IF x = o THEN [blocks[x] EXCEPT !.prev = b]
             ELSE blocks[x]]
  BY <1>6 DEF TryMerge
<1> HIDE DEF m
<1>8. DOMAIN m = DOMAIN blocks \ {src}
  BY <1>7
<1>9. /\ m[b].size = blocks[b].size + blocks[src].size
      /\ m[b].buffer = blocks[b].buffer /\ m[b].prev = blocks[b].prev
  <2>1. m[b] = [blocks[b] EXCEPT !.size = blocks[b].size + blocks[src].size, !.next = o]
    BY <1>4, <1>7
  <2> QED BY <2>1, <1>2 DEF Block
<1>10. ASSUME NEW x \in DOMAIN m \ {b}
       PROVE  /\ m[x].prev = NULL <=> blocks[x].prev = NULL
              /\ m[x].next = NULL <=> blocks[x].next = NULL
  <2>1. CASE x = o
    <3>1. m[x] = [blocks[x] EXCEPT !.prev = b]
      BY <2>1, <1>7, <1>8
    <3>2. m[x].prev = b /\ m[x].next = blocks[x].next
      BY <3>1, <1>2, <1>8 DEF Block
    <3>3. blocks[x].prev = src
      BY <2>1, <1>5, <1>8, NullAssumption DEF BlockMap
    <3> QED BY <3>2, <3>3, <1>1, <1>4
  <2>2. CASE x # o
    BY <2>2, <1>7, <1>8
  <2> QED BY <2>1, <2>2
<1>11. IsSplit(blocks[src])
  BY <1>1, <1>4 DEF IsSplit
<1> QED BY <1>1, <1>4, <1>8, <1>9, <1>10, <1>11 DEF Merged, m

\* The same for the m_prev neighbour.
LEMMA MergedPrev ==
  ASSUME NEW blocks, BlockMap(blocks), Linked(blocks),
         NEW b \in DOMAIN blocks, NEW src, src = blocks[b].prev,
         Mergeable(blocks, src)
  PROVE  Merged(blocks, TryMerge(blocks, b, src), b, src)
<1> DEFINE m == TryMerge(blocks, b, src)
           o == blocks[src].prev
<1>0. b # NULL
  BY NullAssumption DEF BlockMap
<1>1. /\ src # NULL /\ src \in DOMAIN blocks /\ blocks[src].next = b
      /\ blocks[b].buffer = blocks[src].buffer + blocks[src].size
      /\ blocks[src].size > 0 /\ blocks[b].size > 0
      /\ blocks[src].device = blocks[b].device
      /\ blocks[src].pool_type = blocks[b].pool_type
      /\ ~blocks[src].allocated /\ blocks[src].event_cnt = 0
  <2>1. /\ src # NULL /\ src \in DOMAIN blocks /\ blocks[src].next = b
        /\ ~blocks[src].allocated /\ blocks[src].event_cnt = 0
    BY DEF Linked, Mergeable
  <2> QED BY <2>1, <1>0 DEF Linked
<1>2. \A x \in DOMAIN blocks : blocks[x] \in Block
  BY DEF BlockMap
<1>3. \A x \in DOMAIN blocks : blocks[x].buffer \in Nat /\ blocks[x].size \in Nat
  BY <1>2 DEF Block
<1>4. b # src
  BY <1>1, <1>3
<1>5. o # NULL => o \in DOMAIN blocks /\ blocks[o].next = src /\ o # b
  <2>1. o # NULL => o \in DOMAIN blocks /\ blocks[o].next = src
    BY <1>1 DEF Linked
  <2>2. ASSUME o = b PROVE FALSE
    <3>1. blocks[b].next = src /\ blocks[src].buffer = blocks[b].buffer + blocks[b].size
      BY <2>1, <2>2, <1>0, <1>1 DEF Linked
    <3> QED BY <3>1, <1>1, <1>3
  <2> QED BY <2>1, <2>2
<1>7. m = [x \in DOMAIN blocks \ {src} |->
             IF x = b THEN [blocks[x] EXCEPT !.size = blocks[b].size + blocks[src].size,
                                             !.prev = o, !.buffer = blocks[src].buffer]
             ELSE IF x = o THEN [blocks[x] EXCEPT !.next = b]
             ELSE blocks[x]]
  BY DEF TryMerge
<1> HIDE DEF m
<1>8. DOMAIN m = DOMAIN blocks \ {src}
  BY <1>7
<1>9. /\ m[b].size = blocks[b].size + blocks[src].size
      /\ m[b].buffer = blocks[src].buffer /\ m[b].prev = blocks[src].prev
  <2>1. m[b] = [blocks[b] EXCEPT !.size = blocks[b].size + blocks[src].size,
                                 !.prev = o, !.buffer = blocks[src].buffer]
    BY <1>4, <1>7
  <2> QED BY <2>1, <1>2 DEF Block
<1>10. ASSUME NEW x \in DOMAIN m \ {b}
       PROVE  /\ m[x].prev = NULL <=> blocks[x].prev = NULL
              /\ m[x].next = NULL <=> blocks[x].next = NULL
  <2>1. CASE x = o
    <3>1. m[x] = [blocks[x] EXCEPT !.next = b]
      BY <2>1, <1>7, <1>8
    <3>2. m[x].next = b /\ m[x].prev = blocks[x].prev
      BY <3>1, <1>2, <1>8 DEF Block
    <3>3. blocks[x].next = src
      BY <2>1, <1>5, <1>8, NullAssumption DEF BlockMap
    <3> QED BY <3>2, <3>3, <1>0, <1>1
  <2>2. CASE x # o
    BY <2>2, <1>7, <1>8
  <2> QED BY <2>1, <2>2
<1>11. IsSplit(blocks[src])
  BY <1>0, <1>1 DEF IsSplit
<1> QED BY <1>1, <1>4, <1>8, <1>9, <1>10, <1>11 DEF Merged, m

\* m is blocks with the adjacent blocks b and src made one, b.
Swallows(blocks, m, b, src) ==
  /\ DOMAIN m = DOMAIN blocks \ {src} /\ src \in DOMAIN blocks /\ b \in DOMAIN m
  /\ blocks[src].device = blocks[b].device
  /\ blocks[src].pool_type = blocks[b].pool_type
  /\ m[b].size = blocks[b].size + blocks[src].size
  /\ \/ blocks[b].buffer = blocks[src].buffer + blocks[src].size /\ m[b].buffer = blocks[src].buffer
     \/ blocks[src].buffer = blocks[b].buffer + blocks[b].size /\ m[b].buffer = blocks[b].buffer
  /\ \A x \in DOMAIN m :
       m[x].device = blocks[x].device /\ m[x].pool_type = blocks[x].pool_type
  /\ \A x \in DOMAIN m \ {b} :
       /\ m[x].buffer = blocks[x].buffer /\ m[x].size = blocks[x].size
       /\ m[x].prev = NULL <=> blocks[x].prev = NULL
  /\ \/ blocks[src].prev # NULL /\ (m[b].prev = NULL <=> blocks[b].prev = NULL)
     \/ blocks[b].prev # NULL /\ (m[b].prev = NULL <=> blocks[src].prev = NULL)

\* Joining two blocks changes no address.
LEMMA SwallowsAddresses ==
  ASSUME NEW blocks, BlockMap(blocks), NEW m, NEW b, NEW src, Swallows(blocks, m, b, src),
         NEW S \in SUBSET DOMAIN blocks, src \in S <=> b \in S
  PROVE  Addresses(m, S \ {src}) = Addresses(blocks, S)
<1> DEFINE C(x) == blocks[x].buffer .. (blocks[x].buffer + blocks[x].size - 1)
           D(x) == m[x].buffer .. (m[x].buffer + m[x].size - 1)
<1>1. /\ src \in DOMAIN blocks /\ b \in DOMAIN blocks /\ b # src
      /\ DOMAIN m = DOMAIN blocks \ {src}
      /\ m[b].size = blocks[b].size + blocks[src].size
      /\ \/ blocks[b].buffer = blocks[src].buffer + blocks[src].size /\ m[b].buffer = blocks[src].buffer
         \/ blocks[src].buffer = blocks[b].buffer + blocks[b].size /\ m[b].buffer = blocks[b].buffer
  BY DEF Swallows
<1>2. /\ blocks[b].buffer \in Nat /\ blocks[b].size \in Nat
      /\ blocks[src].buffer \in Nat /\ blocks[src].size \in Nat
  BY <1>1 DEF BlockMap, Block
<1>3. \A a : a \in D(b) <=> a \in C(b) \/ a \in C(src)
  BY <1>1, <1>2
<1>4. \A x \in S \ {src} : x # b => D(x) = C(x)
  BY <1>1 DEF Swallows
<1>5. Addresses(blocks, S) = UNION {C(x) : x \in S}
  BY DEF Addresses
<1>6. Addresses(m, S \ {src}) = UNION {D(x) : x \in S \ {src}}
  BY DEF Addresses
<1> HIDE DEF C, D
<1>7. ASSUME NEW a, NEW x \in S, a \in C(x)
      PROVE  \E y \in S \ {src} : a \in D(y)
  <2>1. CASE x = b \/ x = src
    BY <2>1, <1>1, <1>3, <1>7
  <2>2. CASE x # b /\ x # src
    BY <2>2, <1>4, <1>7
  <2> QED BY <2>1, <2>2
<1>8. ASSUME NEW a, NEW x \in S \ {src}, a \in D(x)
      PROVE  \E y \in S : a \in C(y)
  <2>1. CASE x = b
    BY <2>1, <1>3, <1>8
  <2>2. CASE x # b
    BY <2>2, <1>4, <1>8
  <2> QED BY <2>1, <2>2
<1> QED BY <1>5, <1>6, <1>7, <1>8

\* Joining two blocks changes neither the segments nor the reserved bytes.
LEMMA SwallowsSame ==
  ASSUME NEW blocks, BlockMap(blocks), NEW m, NEW b, NEW src, Swallows(blocks, m, b, src),
         Finite(blocks) \/ Finite(m), NEW d, NEW t
  PROVE  /\ Finite(blocks) /\ Finite(m)
         /\ BlocksOf(m, d, t) = BlocksOf(blocks, d, t) \ {src}
         /\ src \in BlocksOf(blocks, d, t) <=> b \in BlocksOf(blocks, d, t)
         /\ Bytes(m, BlocksOf(m, d, t)) = Bytes(blocks, BlocksOf(blocks, d, t))
         /\ Cardinality(FirstOf(m, d, t)) = Cardinality(FirstOf(blocks, d, t))
<1> DEFINE all == BlocksOf(blocks, d, t)
           fst == FirstOf(blocks, d, t)
<1>1. /\ DOMAIN m = DOMAIN blocks \ {src} /\ src \in DOMAIN blocks /\ b \in DOMAIN m
      /\ b # src
      /\ blocks[src].device = blocks[b].device
      /\ blocks[src].pool_type = blocks[b].pool_type
  BY DEF Swallows
<1>2. \A x \in DOMAIN m :
        /\ m[x].device = blocks[x].device /\ m[x].pool_type = blocks[x].pool_type
        /\ x # b => (m[x].prev = NULL <=> blocks[x].prev = NULL)
  BY DEF Swallows
<1>3. Finite(blocks) /\ Finite(m)
  <2>1. Addresses(m, DOMAIN m) = Addresses(blocks, DOMAIN blocks)
    BY <1>1, SwallowsAddresses
  <2>2. IsFiniteSet(DOMAIN blocks) => IsFiniteSet(DOMAIN m)
    BY <1>1, FS_Subset
  <2>3. IsFiniteSet(DOMAIN m) => IsFiniteSet(DOMAIN blocks)
    <3>1. DOMAIN blocks = DOMAIN m \cup {src}
      BY <1>1
    <3> QED BY <3>1, FS_AddElement
  <2> QED BY <2>1, <2>2, <2>3 DEF Finite
<1>5. BlocksOf(m, d, t) = all \ {src} /\ (src \in all <=> b \in all)
  BY <1>1, <1>2 DEF BlocksOf
<1>6. all \in SUBSET DOMAIN blocks
  BY DEF BlocksOf
<1>7. Bytes(m, BlocksOf(m, d, t)) = Bytes(blocks, all)
  BY <1>5, <1>6, SwallowsAddresses DEF Bytes
<1>12. Cardinality(FirstOf(m, d, t)) = Cardinality(fst)
  <2>1. IsFiniteSet(fst) /\ IsFiniteSet(fst \ {src}) /\ Cardinality(fst) \in Nat
    BY <1>3, CountedBlocks, FiniteSums, FS_Subset
  <2>a. \A x : x \in FirstOf(m, d, t) <=> x \in all /\ x # src /\ m[x].prev = NULL
    BY <1>5 DEF FirstOf
  <2>b. \A x : x \in fst <=> x \in all /\ blocks[x].prev = NULL
    BY DEF FirstOf
  <2>c. \A x \in all : x # src /\ x # b => (m[x].prev = NULL <=> blocks[x].prev = NULL)
    BY <1>1, <1>2, <1>6
  <2> HIDE DEF all, fst
  <2>2. CASE blocks[src].prev # NULL /\ (m[b].prev = NULL <=> blocks[b].prev = NULL)
    <3>1. FirstOf(m, d, t) = fst
      BY <2>2, <2>a, <2>b, <2>c
    <3> QED BY <3>1
  <2>3. CASE blocks[b].prev # NULL /\ (m[b].prev = NULL <=> blocks[src].prev = NULL)
    <3>1. CASE src \in fst
      <4>1. FirstOf(m, d, t) = (fst \ {src}) \cup {b} /\ b \notin fst
        BY <2>3, <3>1, <2>a, <2>b, <2>c, <1>1, <1>5
      <4>2. /\ Cardinality(fst \ {src}) = Cardinality(fst) - 1
            /\ Cardinality((fst \ {src}) \cup {b}) = Cardinality(fst \ {src}) + 1
        BY <2>1, <3>1, <4>1, FS_AddElement, FS_RemoveElement
      <4> QED BY <4>1, <4>2, <2>1
    <3>2. CASE src \notin fst
      <4>1. FirstOf(m, d, t) = fst
        BY <2>3, <3>2, <2>a, <2>b, <2>c, <1>5
      <4> QED BY <4>1
    <3> QED BY <3>1, <3>2
  <2> QED BY <2>2, <2>3 DEF Swallows
<1> QED BY <1>3, <1>5, <1>7, <1>12

\* The freed block b has absorbed k neighbours of n bytes: of the counters,
\* with b taken as neither active nor inactive, only the inactive ones differ.
Absorbs(blocks, m, b, k, n, d, t) ==
  /\ k \in Nat /\ n \in Nat
  /\ Cardinality(FirstOf(m, d, t)) = Cardinality(FirstOf(blocks, d, t))
  /\ Bytes(m, BlocksOf(m, d, t)) = Bytes(blocks, BlocksOf(blocks, d, t))
  /\ Cardinality(AllocatedOf(m, d, t)) = Cardinality(AllocatedOf(blocks, d, t))
  /\ Bytes(m, AllocatedOf(m, d, t)) = Bytes(blocks, AllocatedOf(blocks, d, t))
  /\ Cardinality(ActiveOf(m, {}, d, t)) = Cardinality(ActiveOf(blocks, {}, d, t))
  /\ Bytes(m, ActiveOf(m, {}, d, t)) = Bytes(blocks, ActiveOf(blocks, {}, d, t))
  /\ IF b \in BlocksOf(blocks, d, t)
     THEN /\ Cardinality(InactiveOf(m, {b}, d, t)) =
               Cardinality(InactiveOf(blocks, {b}, d, t)) - k
          /\ Bytes(m, InactiveOf(m, {b}, d, t)) =
               Bytes(blocks, InactiveOf(blocks, {b}, d, t)) - n
     ELSE /\ Cardinality(InactiveOf(m, {b}, d, t)) =
               Cardinality(InactiveOf(blocks, {b}, d, t))
          /\ Bytes(m, InactiveOf(m, {b}, d, t)) =
               Bytes(blocks, InactiveOf(blocks, {b}, d, t))

\* One merge.
LEMMA MergedAbsorbs ==
  ASSUME NEW blocks, BlockMap(blocks), Linked(blocks), Apart(blocks), Finite(blocks),
         NEW m, NEW b \in DOMAIN blocks, NEW src,
         ~blocks[b].allocated, blocks[b].event_cnt = 0,
         Merged(blocks, m, b, src), Kept(blocks, m, b), NEW d, NEW t
  PROVE  Finite(m) /\ Absorbs(blocks, m, b, 1, blocks[src].size, d, t)
<1> DEFINE all == BlocksOf(blocks, d, t)
           fst == FirstOf(blocks, d, t)
           ina == InactiveOf(blocks, {b}, d, t)
<1>1. /\ DOMAIN m = DOMAIN blocks \ {src} /\ src \in DOMAIN blocks /\ b # src
      /\ b \in DOMAIN m
      /\ ~blocks[src].allocated /\ ~(blocks[src].event_cnt > 0)
      /\ ~(blocks[b].event_cnt > 0) /\ IsSplit(blocks[src])
      /\ blocks[src].device = blocks[b].device
      /\ blocks[src].pool_type = blocks[b].pool_type
  BY DEF Merged
<1>2. blocks[src].size \in Nat /\ blocks[src].size > 0
  BY <1>1 DEF BlockMap, Block, Linked
<1>3. \A x \in DOMAIN m :
        /\ m[x].device = blocks[x].device /\ m[x].pool_type = blocks[x].pool_type
        /\ m[x].allocated = blocks[x].allocated /\ m[x].event_cnt = blocks[x].event_cnt
        /\ x # b => /\ m[x].buffer = blocks[x].buffer /\ m[x].size = blocks[x].size
                    /\ m[x].prev = NULL <=> blocks[x].prev = NULL
                    /\ IsSplit(m[x]) <=> IsSplit(blocks[x])
  BY DEF Kept, Merged, IsSplit
<1>4. Swallows(blocks, m, b, src)
  BY <1>1 DEF Swallows, Merged, Kept
<1>5. /\ Finite(m)
      /\ BlocksOf(m, d, t) = all \ {src} /\ (src \in all <=> b \in all)
      /\ Bytes(m, BlocksOf(m, d, t)) = Bytes(blocks, all)
      /\ Cardinality(FirstOf(m, d, t)) = Cardinality(fst)
  BY <1>4, SwallowsSame
<1>8. /\ AllocatedOf(m, d, t) = AllocatedOf(blocks, d, t)
      /\ ActiveOf(m, {}, d, t) = ActiveOf(blocks, {}, d, t)
      /\ b \notin AllocatedOf(m, d, t) /\ b \notin ActiveOf(m, {}, d, t)
      /\ AllocatedOf(m, d, t) \subseteq DOMAIN m /\ ActiveOf(m, {}, d, t) \subseteq DOMAIN m
  <2>1. AllocatedOf(m, d, t) = AllocatedOf(blocks, d, t)
    BY <1>1, <1>3, <1>5 DEF AllocatedOf, BlocksOf
  <2>2. ActiveOf(m, {}, d, t) = ActiveOf(blocks, {}, d, t)
    BY <1>1, <1>3, <1>5 DEF ActiveOf, BlocksOf
  <2> QED BY <2>1, <2>2, <1>1 DEF AllocatedOf, ActiveOf, BlocksOf
<1>9. /\ Bytes(m, AllocatedOf(m, d, t)) = Bytes(blocks, AllocatedOf(blocks, d, t))
      /\ Bytes(m, ActiveOf(m, {}, d, t)) = Bytes(blocks, ActiveOf(blocks, {}, d, t))
  <2>1. Bytes(m, AllocatedOf(m, d, t)) = Bytes(blocks, AllocatedOf(m, d, t))
    BY <1>3, <1>8, SameBytes
  <2>2. Bytes(m, ActiveOf(m, {}, d, t)) = Bytes(blocks, ActiveOf(m, {}, d, t))
    BY <1>3, <1>8, SameBytes
  <2> QED BY <2>1, <2>2, <1>8
<1>10. /\ InactiveOf(m, {b}, d, t) = ina \ {src} /\ (src \in ina <=> b \in all)
       /\ ina \in SUBSET DOMAIN blocks
  BY <1>1, <1>3, <1>5 DEF InactiveOf, BlocksOf
<1>11. Bytes(m, InactiveOf(m, {b}, d, t)) = Bytes(blocks, ina \ {src})
  <2>1. \A x \in InactiveOf(m, {b}, d, t) :
          m[x].buffer = blocks[x].buffer /\ m[x].size = blocks[x].size
    BY <1>3 DEF InactiveOf, BlocksOf
  <2>2. Bytes(m, InactiveOf(m, {b}, d, t)) = Bytes(blocks, InactiveOf(m, {b}, d, t))
    BY <2>1, SameBytes
  <2> QED BY <2>2, <1>10
<1>13. IF b \in all
       THEN /\ Cardinality(InactiveOf(m, {b}, d, t)) = Cardinality(ina) - 1
            /\ Bytes(m, InactiveOf(m, {b}, d, t)) = Bytes(blocks, ina) - blocks[src].size
       ELSE /\ Cardinality(InactiveOf(m, {b}, d, t)) = Cardinality(ina)
            /\ Bytes(m, InactiveOf(m, {b}, d, t)) = Bytes(blocks, ina)
  <2>1. CASE b \in all
    <3>1. /\ Cardinality(ina \ {src}) = Cardinality(ina) - 1
          /\ Bytes(blocks, ina \ {src}) = Bytes(blocks, ina) - blocks[src].size
      BY <2>1, <1>2, <1>10, SumRemove
    <3> QED BY <2>1, <3>1, <1>10, <1>11
  <2>2. CASE b \notin all
    <3>1. ina \ {src} = ina
      BY <2>2, <1>10
    <3> QED BY <2>2, <3>1, <1>10, <1>11
  <2> QED BY <2>1, <2>2
<1> HIDE DEF all, fst, ina
<1> QED BY <1>2, <1>5, <1>8, <1>9, <1>13 DEF Absorbs, all, fst, ina

\* Two merges, one after the other.
LEMMA AbsorbsTwice ==
  ASSUME NEW blocks, Finite(blocks), NEW m1, NEW m, NEW b,
         NEW k1, NEW n1, NEW k2, NEW n2, NEW d, NEW t,
         Absorbs(blocks, m1, b, k1, n1, d, t), Absorbs(m1, m, b, k2, n2, d, t),
         b \in BlocksOf(m1, d, t) <=> b \in BlocksOf(blocks, d, t)
  PROVE  Absorbs(blocks, m, b, k1 + k2, n1 + n2, d, t)
<1> DEFINE c == Cardinality(InactiveOf(blocks, {b}, d, t))
           e == Bytes(blocks, InactiveOf(blocks, {b}, d, t))
<1>1. c \in Nat /\ e \in Nat
  BY CountedBlocks, FiniteSums
<1>2. /\ k1 \in Nat /\ n1 \in Nat /\ k2 \in Nat /\ n2 \in Nat
      /\ k1 + k2 \in Nat /\ n1 + n2 \in Nat
  BY DEF Absorbs
<1>3. (c - k1) - k2 = c - (k1 + k2) /\ (e - n1) - n2 = e - (n1 + n2)
  BY <1>1, <1>2
<1>4. CASE b \in BlocksOf(blocks, d, t)
  BY <1>2, <1>3, <1>4 DEF Absorbs
<1>5. CASE b \notin BlocksOf(blocks, d, t)
  BY <1>2, <1>5 DEF Absorbs
<1> QED BY <1>4, <1>5

\* free_block's two merges: the numbers it subtracts.
LEMMA MergeAbsorbs ==
  ASSUME NEW blocks, BlockMap(blocks), NEW segs \in SUBSET Segment,
         Tiling(blocks, segs), Finite(blocks),
         NEW b \in DOMAIN blocks, ~blocks[b].allocated, blocks[b].event_cnt = 0,
         NEW d, NEW t
  PROVE  LET m == Merge(blocks, b)
         IN  /\ Finite(m)
             /\ Absorbs(blocks, m, b, Cardinality(DOMAIN blocks \ DOMAIN m),
                        m[b].size - blocks[b].size, d, t)
<1> DEFINE p  == blocks[b].prev
           n  == blocks[b].next
           m1 == TryMerge(blocks, b, p)
           m  == Merge(blocks, b)
           g1 == DOMAIN blocks \ DOMAIN m1
           g2 == DOMAIN m1 \ DOMAIN m
<1>1. m = TryMerge(m1, b, n)
  BY DEF Merge
<1>2. Linked(blocks) /\ Apart(blocks) /\ blocks[b].size \in Nat
  BY DEF Tiling, BlockMap, Block
<1>3. /\ BlockMap(m1) /\ Tiling(m1, segs) /\ Kept(blocks, m1, b) /\ m1[b].next = n
      /\ b \in DOMAIN m1 /\ Finite(m1) /\ m1[b].size \in Nat
      /\ IsFiniteSet(g1)
      /\ Absorbs(blocks, m1, b, Cardinality(g1), m1[b].size - blocks[b].size, d, t)
  <2>1. CASE Mergeable(blocks, p)
    <3>1. /\ DOMAIN m1 = DOMAIN blocks \ {p} /\ b # p /\ p \in DOMAIN blocks
          /\ BlockMap(m1) /\ Tiling(m1, segs) /\ Kept(blocks, m1, b)
          /\ m1[b].next = n
      BY <2>1, MergePrev
    <3>2. Merged(blocks, m1, b, p)
      BY <2>1, <1>2, MergedPrev
    <3> HIDE DEF m1
    <3>3. Finite(m1) /\ Absorbs(blocks, m1, b, 1, blocks[p].size, d, t)
      BY <3>1, <3>2, <1>2, MergedAbsorbs
    <3>4. IsFiniteSet(g1) /\ Cardinality(g1) = 1
      <4>1. g1 = {p}
        BY <3>1
      <4> HIDE DEF g1
      <4> QED BY <4>1, FS_Singleton
    <3>5. blocks[p].size \in Nat /\ m1[b].size = blocks[b].size + blocks[p].size
      BY <3>1, <3>2 DEF Merged, BlockMap, Block
    <3>6. m1[b].size - blocks[b].size = blocks[p].size /\ m1[b].size \in Nat
      BY <3>5, <1>2
    <3> QED BY <3>1, <3>3, <3>4, <3>6
  <2>2. CASE ~Mergeable(blocks, p)
    <3>1. m1 = blocks
      BY <2>2 DEF TryMerge
    <3>2. Kept(blocks, blocks, b)
      BY DEF Kept
    <3>3. IsFiniteSet(g1) /\ Cardinality(g1) = 0
      <4>1. g1 = {}
        BY <3>1
      <4> HIDE DEF g1
      <4> QED BY <4>1, FS_EmptySet
    <3>4. Absorbs(blocks, blocks, b, 0, 0, d, t)
      <4>1. /\ Cardinality(InactiveOf(blocks, {b}, d, t)) \in Nat
            /\ Bytes(blocks, InactiveOf(blocks, {b}, d, t)) \in Nat
        BY CountedBlocks, FiniteSums
      <4> QED BY <4>1 DEF Absorbs
    <3>5. blocks[b].size - blocks[b].size = 0
      BY <1>2
    <3> HIDE DEF m1, g1
    <3> QED BY <3>1, <3>2, <3>3, <3>4, <3>5, <1>2
  <2> QED BY <2>1, <2>2
<1> HIDE DEF m1, m
<1>4. ~m1[b].allocated /\ m1[b].event_cnt = 0 /\ Linked(m1) /\ Apart(m1)
  BY <1>3 DEF Kept, Tiling
<1>5. CASE Mergeable(m1, n)
  <2>0. BlockMap(m1) /\ Tiling(m1, segs) /\ b \in DOMAIN m1 /\ n = m1[b].next
    BY <1>3
  <2>1. /\ DOMAIN m = DOMAIN m1 \ {n} /\ b # n /\ n \in DOMAIN m1
        /\ BlockMap(m) /\ Tiling(m, segs) /\ Kept(m1, m, b)
    <3> HIDE DEF n
    <3> QED BY <1>1, <2>0, <1>5, MergeNext
  <2>2. Merged(m1, m, b, n)
    BY <1>1, <1>3, <1>4, <1>5, MergedNext
  <2>3. Finite(m) /\ Absorbs(m1, m, b, 1, m1[n].size, d, t)
    BY <2>1, <2>2, <1>3, <1>4, MergedAbsorbs
  <2>4. b \in BlocksOf(m1, d, t) <=> b \in BlocksOf(blocks, d, t)
    BY <1>3 DEF Kept, BlocksOf
  <2> DEFINE k1 == Cardinality(g1)
             n1 == m1[b].size - blocks[b].size
             n2 == m1[n].size
  <2>5. Absorbs(blocks, m, b, k1 + 1, n1 + n2, d, t)
    <3> HIDE DEF k1, n1, n2
    <3> QED BY <1>3, <2>3, <2>4, AbsorbsTwice DEF k1, n1, n2
  <2>6. Cardinality(DOMAIN blocks \ DOMAIN m) = k1 + 1
    <3>1. DOMAIN blocks \ DOMAIN m = g1 \cup {n} /\ n \notin g1
      BY <2>1, <1>3 DEF Kept
    <3> HIDE DEF g1
    <3> QED BY <3>1, <1>3, FS_AddElement
  <2>7. m[b].size - blocks[b].size = n1 + n2
    <3>1. n2 \in Nat /\ m[b].size = m1[b].size + n2
      BY <2>1, <2>2, <1>3 DEF Merged, BlockMap, Block
    <3> QED BY <3>1, <1>2, <1>3
  <2> HIDE DEF k1, n1, n2, g1
  <2> QED BY <2>3, <2>5, <2>6, <2>7 DEF m
<1>6. CASE ~Mergeable(m1, n)
  <2>1. m = m1
    BY <1>1, <1>6 DEF TryMerge
  <2> QED BY <1>3, <2>1 DEF m
<1> QED BY <1>5, <1>6

\* update_stat_array, counter by counter.
LEMMA Updated ==
  ASSUME NEW stats \in Stats, NEW dev \in Device, NEW type \in PoolType, NEW amount,
         NEW d \in Device, NEW t \in PoolType, NEW n \in StatName
  PROVE  UpdateStats(stats, dev, type, amount)[d][t][n] =
           IF d = dev /\ t = type /\ n \in DOMAIN amount
           THEN stats[d][t][n] + amount[n] ELSE stats[d][t][n]
<1>1. stats[d][t][n] \in Int
  BY DEF Stats
<1> DEFINE row == [k \in StatName |->
                     stats[dev][type][k] + IF k \in DOMAIN amount THEN amount[k] ELSE 0]
<1>2. UpdateStats(stats, dev, type, amount) = [stats EXCEPT ![dev][type] = row]
  BY DEF UpdateStats
<1>3. row[n] = stats[dev][type][n] + IF n \in DOMAIN amount THEN amount[n] ELSE 0
  OBVIOUS
<1> HIDE DEF row
<1>4. CASE d = dev /\ t = type
  <2>1. UpdateStats(stats, dev, type, amount)[d][t] = row
    BY <1>2, <1>4 DEF Stats
  <2> QED BY <2>1, <1>1, <1>3, <1>4
<1>5. CASE ~(d = dev /\ t = type)
  <2>1. UpdateStats(stats, dev, type, amount)[d][t] = stats[d][t]
    BY <1>2, <1>5 DEF Stats
  <2> QED BY <2>1, <1>5
<1> QED BY <1>4, <1>5

\* free_block makes b inactive: before it b counts as active.
LEMMA FreeBlockStats ==
  ASSUME segment \subseteq Segment,
         NEW blocks, BlockMap(blocks), Tiling(blocks, segment), Finite(blocks),
         NEW stats \in Stats, NEW b \in DOMAIN blocks,
         ~blocks[b].allocated, blocks[b].event_cnt = 0,
         NEW d \in Device, NEW t \in PoolType,
         RowFits(stats[d][t], blocks, {b}, {b}, d, t),
         FreeBlock(blocks, stats, b), ~undefined'
  PROVE  Finite(block') /\ RowFits(device_stats'[d][t], block', {}, {}, d, t)
<1> DEFINE m    == Merge(blocks, b)
           gone == DOMAIN blocks \ DOMAIN m
           amount == [inactive_split |->
                        (IF IsSplit(m[b]) THEN 1 ELSE 0) - Cardinality(gone),
                      inactive_split_bytes |->
                        (IF IsSplit(m[b]) THEN m[b].size ELSE 0) - (m[b].size - blocks[b].size),
                      active |-> -1,
                      active_bytes |-> -blocks[b].size]
           row == stats[d][t]
           new == device_stats'[d][t]
           act == ActiveOf(blocks, {}, d, t)
           ina == InactiveOf(blocks, {b}, d, t)
           k == Cardinality(gone)
           n == m[b].size - blocks[b].size
<1>1. block' = m /\ device_stats' = UpdateStats(stats, blocks[b].device, blocks[b].pool_type, amount)
  BY DEF FreeBlock
<1>2. Finite(m) /\ Absorbs(blocks, m, b, k, n, d, t)
  BY MergeAbsorbs
<1>3. b \in DOMAIN m /\ BlockMap(m) /\ Tiling(m, segment) /\ Kept(blocks, m, b)
  BY MergeBoth
<1> HIDE DEF m
<1>4. /\ blocks[b].device \in Device /\ blocks[b].pool_type \in PoolType
      /\ blocks[b].size \in Nat /\ m[b].size \in Nat /\ m[b].size > 0 /\ blocks[b].size > 0
  BY <1>3 DEF BlockMap, Block, Tiling, Linked
<1>5. /\ Apart(blocks) /\ Apart(m)
      /\ m[b].device = blocks[b].device /\ m[b].pool_type = blocks[b].pool_type
      /\ ~m[b].allocated /\ ~(m[b].event_cnt > 0) /\ ~(blocks[b].event_cnt > 0)
  BY <1>3 DEF Tiling, Kept
<1>6. k \in Nat /\ n \in Nat
  BY <1>2 DEF Absorbs
<1>7. /\ act \in SUBSET DOMAIN blocks /\ ina \in SUBSET DOMAIN blocks
      /\ InactiveOf(m, {b}, d, t) \in SUBSET DOMAIN m
  BY CountedBlocks
<1>8. /\ Cardinality(act) \in Nat /\ Bytes(blocks, act) \in Nat
      /\ Cardinality(ina) \in Nat /\ Bytes(blocks, ina) \in Nat
  BY <1>7, FiniteSums
<1>9. row \in [StatName -> Int]
  BY DEF Stats
<1> DEFINE here == b \in BlocksOf(blocks, d, t)
<1>10. here <=> d = blocks[b].device /\ t = blocks[b].pool_type
  BY DEF BlocksOf
<1>11. \A s \in {"segment", "reserved_bytes", "allocation", "allocated_bytes"} : new[s] = row[s]
  <2>1. \A s \in {"segment", "reserved_bytes", "allocation", "allocated_bytes"} :
          s \in StatName /\ s \notin DOMAIN amount
    BY DEF StatName
  <2> HIDE DEF amount
  <2> QED BY <2>1, <1>1, <1>4, Updated
<1>12. /\ "active" \in StatName /\ "active_bytes" \in StatName
       /\ "inactive_split" \in StatName /\ "inactive_split_bytes" \in StatName
       /\ "active" \in DOMAIN amount /\ amount["active"] = -1
       /\ "active_bytes" \in DOMAIN amount /\ amount["active_bytes"] = -blocks[b].size
       /\ "inactive_split" \in DOMAIN amount
       /\ amount["inactive_split"] = (IF IsSplit(m[b]) THEN 1 ELSE 0) - k
       /\ "inactive_split_bytes" \in DOMAIN amount
       /\ amount["inactive_split_bytes"] = (IF IsSplit(m[b]) THEN m[b].size ELSE 0) - n
  BY DEF StatName
<1> HIDE DEF amount, k, n, here
<1>13. \A s \in {"active", "active_bytes", "inactive_split", "inactive_split_bytes"} :
         new[s] = IF here THEN row[s] + amount[s] ELSE row[s]
  BY <1>1, <1>4, <1>10, <1>12, Updated
<1> HIDE DEF new, row
<1>14. /\ new["active"] = Cardinality(act)
       /\ new["active_bytes"] = Bytes(blocks, act)
  <2>1. /\ row["active"] = Cardinality(ActiveOf(blocks, {b}, d, t))
        /\ row["active_bytes"] = Bytes(blocks, ActiveOf(blocks, {b}, d, t))
    BY DEF RowFits, row
  <2>2. CASE here
    <3>1. ActiveOf(blocks, {b}, d, t) = act \cup {b} /\ b \notin act
      BY <2>2, <1>5 DEF ActiveOf, here
    <3> HIDE DEF act
    <3>2. /\ Cardinality(act \cup {b}) = Cardinality(act) + 1
          /\ Bytes(blocks, act \cup {b}) = Bytes(blocks, act) + blocks[b].size
      BY <3>1, <1>4, <1>5, <1>7, SumAdd
    <3>3. new["active"] = row["active"] + (-1) /\ new["active_bytes"] = row["active_bytes"] + (-blocks[b].size)
      BY <2>2, <1>12, <1>13
    <3>4. row["active"] = Cardinality(act) + 1 /\ row["active_bytes"] = Bytes(blocks, act) + blocks[b].size
      BY <2>1, <3>1, <3>2
    <3> QED BY <3>3, <3>4, <1>4, <1>8
  <2>3. CASE ~here
    <3>1. ActiveOf(blocks, {b}, d, t) = act
      BY <2>3 DEF ActiveOf, here
    <3> QED BY <2>1, <2>3, <3>1, <1>13
  <2> QED BY <2>2, <2>3
<1>15. /\ new["inactive_split"] = Cardinality(InactiveOf(m, {}, d, t))
       /\ new["inactive_split_bytes"] = Bytes(m, InactiveOf(m, {}, d, t))
  <2>1. row["inactive_split"] = Cardinality(ina) /\ row["inactive_split_bytes"] = Bytes(blocks, ina)
    BY DEF RowFits, row
  <2> DEFINE hid == InactiveOf(m, {b}, d, t)
  <2>2. CASE here
    <3>1. Cardinality(hid) = Cardinality(ina) - k /\ Bytes(m, hid) = Bytes(blocks, ina) - n
      BY <2>2, <1>2 DEF Absorbs, here
    <3>2. CASE IsSplit(m[b])
      <4>1. InactiveOf(m, {}, d, t) = hid \cup {b} /\ b \notin hid
        BY <2>2, <3>2, <1>3, <1>5 DEF InactiveOf, BlocksOf, here
      <4> HIDE DEF hid
      <4>2. /\ Cardinality(hid \cup {b}) = Cardinality(hid) + 1
            /\ Bytes(m, hid \cup {b}) = Bytes(m, hid) + m[b].size
        BY <4>1, <1>2, <1>3, <1>4, <1>5, <1>7, SumAdd DEF hid
      <4>3. /\ new["inactive_split"] = Cardinality(ina) + (1 - k)
            /\ new["inactive_split_bytes"] = Bytes(blocks, ina) + (m[b].size - n)
        BY <2>1, <2>2, <3>2, <1>12, <1>13
      <4>4. /\ Cardinality(InactiveOf(m, {}, d, t)) = (Cardinality(ina) - k) + 1
            /\ Bytes(m, InactiveOf(m, {}, d, t)) = (Bytes(blocks, ina) - n) + m[b].size
        BY <3>1, <4>1, <4>2
      <4> QED BY <4>3, <4>4, <1>4, <1>6, <1>8
    <3>3. CASE ~IsSplit(m[b])
      <4>1. InactiveOf(m, {}, d, t) = hid
        BY <3>3 DEF InactiveOf
      <4>3. /\ new["inactive_split"] = Cardinality(ina) + (0 - k)
            /\ new["inactive_split_bytes"] = Bytes(blocks, ina) + (0 - n)
        BY <2>1, <2>2, <3>3, <1>12, <1>13
      <4> QED BY <3>1, <4>1, <4>3, <1>6, <1>8
    <3> QED BY <3>2, <3>3
  <2>3. CASE ~here
    <3>1. Cardinality(hid) = Cardinality(ina) /\ Bytes(m, hid) = Bytes(blocks, ina)
      BY <2>3, <1>2 DEF Absorbs, here
    <3>2. InactiveOf(m, {}, d, t) = hid
      BY <2>3, <1>3, <1>5 DEF InactiveOf, BlocksOf, here
    <3> QED BY <2>1, <2>3, <3>1, <3>2, <1>13
  <2> QED BY <2>2, <2>3
<1>16. RowFits(new, m, {}, {}, d, t)
  <2>1. /\ new["segment"] = row["segment"] /\ new["reserved_bytes"] = row["reserved_bytes"]
        /\ new["allocation"] = row["allocation"]
        /\ new["allocated_bytes"] = row["allocated_bytes"]
    BY <1>11
  <2>2. /\ row["segment"] = Cardinality(FirstOf(blocks, d, t))
        /\ row["reserved_bytes"] = Bytes(blocks, BlocksOf(blocks, d, t))
        /\ row["allocation"] = Cardinality(AllocatedOf(blocks, d, t))
        /\ row["allocated_bytes"] = Bytes(blocks, AllocatedOf(blocks, d, t))
    BY DEF RowFits, row
  <2> QED BY <2>1, <2>2, <1>2, <1>14, <1>15 DEF RowFits, Absorbs
<1> QED BY <1>1, <1>2, <1>16 DEF new

\* The counters do not depend on the other fields of the blocks.
LEMMA RowSameShape ==
  ASSUME NEW blocks, NEW m, NEW held, NEW kept, NEW d, NEW t, NEW row,
         SameShape(blocks, m), Finite(blocks),
         \A x \in DOMAIN blocks :
           /\ m[x].allocated <=> blocks[x].allocated
           /\ (m[x].allocated \/ m[x].event_cnt > 0 \/ x \in kept) <=>
                (blocks[x].allocated \/ blocks[x].event_cnt > 0 \/ x \in held),
         RowFits(row, blocks, held, held, d, t)
  PROVE  Finite(m) /\ RowFits(row, m, kept, kept, d, t)
<1>1. /\ BlocksOf(m, d, t) = BlocksOf(blocks, d, t)
      /\ FirstOf(m, d, t) = FirstOf(blocks, d, t)
      /\ AllocatedOf(m, d, t) = AllocatedOf(blocks, d, t)
      /\ ActiveOf(m, kept, d, t) = ActiveOf(blocks, held, d, t)
      /\ InactiveOf(m, kept, d, t) = InactiveOf(blocks, held, d, t)
  <2>1. BlocksOf(m, d, t) = BlocksOf(blocks, d, t)
    BY DEF BlocksOf, SameShape
  <2>2. BlocksOf(blocks, d, t) \subseteq DOMAIN blocks
    BY CountedBlocks
  <2>3. FirstOf(m, d, t) = FirstOf(blocks, d, t)
    BY <2>1, <2>2 DEF FirstOf, SameShape
  <2>4. AllocatedOf(m, d, t) = AllocatedOf(blocks, d, t)
    BY <2>1, <2>2 DEF AllocatedOf
  <2>5. ActiveOf(m, kept, d, t) = ActiveOf(blocks, held, d, t)
    BY <2>1, <2>2 DEF ActiveOf
  <2>6. InactiveOf(m, kept, d, t) = InactiveOf(blocks, held, d, t)
    BY <2>1, <2>2 DEF InactiveOf, SameShape, IsSplit
  <2> QED BY <2>1, <2>3, <2>4, <2>5, <2>6
<1>2. \A S \in SUBSET DOMAIN blocks :
        Addresses(m, S) = Addresses(blocks, S) /\ Bytes(m, S) = Bytes(blocks, S)
  BY SameBytes DEF SameShape
<1>3. Finite(m)
  BY <1>2 DEF Finite, SameShape
<1> QED BY <1>1, <1>2, <1>3, CountedBlocks DEF RowFits

-----------------------------------------------------------------------------
(* The steps. *)

\* free marks the block unallocated; it still counts as active.
LEMMA ReleasedStats ==
  ASSUME TypeOK, Safe, Finite(block), NEW buffer \in DOMAIN allocated_blocks, NEW b,
         b = allocated_blocks[buffer], NEW d \in Device, NEW t \in PoolType,
         RowFits(device_stats[d][t], block, {}, {}, d, t)
  PROVE  /\ Finite(Released(b))
         /\ RowFits(FreeStats(b)[d][t], Released(b), {b}, {b}, d, t)
<1> DEFINE rel == Released(b)
           amount == [allocation |-> -1, allocated_bytes |-> -block[b].size]
           row == device_stats[d][t]
           new == FreeStats(b)[d][t]
           al  == AllocatedOf(block, d, t)
<1>1. /\ b \in DOMAIN block /\ block[b] \in Block /\ block[b].allocated
      /\ block[b].event_cnt = 0 /\ SameShape(block, rel)
      /\ \A x \in DOMAIN block : /\ rel[x].event_cnt = block[x].event_cnt
                                 /\ rel[x].allocated = (block[x].allocated /\ x # b)
  BY ReleasedFacts
<1>2. /\ BlockMap(block) /\ Apart(block) /\ device_stats \in Stats
      /\ block[b].size > 0 /\ block[b].size \in Nat
      /\ block[b].device \in Device /\ block[b].pool_type \in PoolType
  BY <1>1 DEF TypeOK, BlockMap, Safe, Linked, Block
<1> HIDE DEF rel
<1>3. DOMAIN rel = DOMAIN block
  BY <1>1 DEF SameShape
<1>4. BlocksOf(rel, d, t) = BlocksOf(block, d, t) /\ BlocksOf(block, d, t) \subseteq DOMAIN block
  BY <1>1, <1>3 DEF BlocksOf, SameShape
<1>5. FirstOf(rel, d, t) = FirstOf(block, d, t)
  BY <1>1, <1>4 DEF FirstOf, SameShape
<1>6. /\ AllocatedOf(rel, d, t) = al \ {b} /\ al \in SUBSET DOMAIN block
      /\ b \in al <=> d = block[b].device /\ t = block[b].pool_type
  BY <1>1, <1>4 DEF AllocatedOf, BlocksOf
<1>7. ActiveOf(rel, {b}, d, t) = ActiveOf(block, {}, d, t)
  BY <1>1, <1>4 DEF ActiveOf
<1>8. InactiveOf(rel, {b}, d, t) = InactiveOf(block, {}, d, t)
  BY <1>1, <1>4 DEF InactiveOf, SameShape, IsSplit
<1>9. \A S \in SUBSET DOMAIN block :
        Addresses(rel, S) = Addresses(block, S) /\ Bytes(rel, S) = Bytes(block, S)
  BY <1>1, SameBytes DEF SameShape
<1>10. Finite(rel)
  BY <1>3, <1>9 DEF Finite
<1>11. \A s \in StatName :
         new[s] = IF d = block[b].device /\ t = block[b].pool_type /\ s \in DOMAIN amount
                  THEN row[s] + amount[s] ELSE row[s]
  <2> HIDE DEF amount
  <2> QED BY <1>2, Updated DEF FreeStats, amount
<1>12. /\ DOMAIN amount = {"allocation", "allocated_bytes"}
       /\ amount["allocation"] = -1 /\ amount["allocated_bytes"] = -block[b].size
  OBVIOUS
<1> HIDE DEF amount, new, row, al
<1>13. \A s \in {"segment", "reserved_bytes", "inactive_split", "inactive_split_bytes",
                 "active", "active_bytes"} : new[s] = row[s]
  BY <1>11, <1>12 DEF StatName
<1>14. /\ new["allocation"] = Cardinality(AllocatedOf(rel, d, t))
       /\ new["allocated_bytes"] = Bytes(rel, AllocatedOf(rel, d, t))
  <2>1. row["allocation"] = Cardinality(al) /\ row["allocated_bytes"] = Bytes(block, al)
    BY DEF RowFits, row, al
  <2>2. Bytes(rel, al \ {b}) = Bytes(block, al \ {b})
    BY <1>6, <1>9
  <2>3. CASE b \in al
    <3>1. /\ Cardinality(al \ {b}) = Cardinality(al) - 1
          /\ Bytes(block, al \ {b}) = Bytes(block, al) - block[b].size
      BY <2>3, <1>2, <1>6, SumRemove
    <3>2. /\ new["allocation"] = row["allocation"] + (-1)
          /\ new["allocated_bytes"] = row["allocated_bytes"] + (-block[b].size)
      BY <2>3, <1>6, <1>11, <1>12 DEF StatName
    <3>3. Cardinality(al) \in Nat /\ Bytes(block, al) \in Nat
      BY <1>6, FiniteSums
    <3> QED BY <2>1, <2>2, <3>1, <3>2, <3>3, <1>2, <1>6
  <2>4. CASE b \notin al
    <3>1. al \ {b} = al
      BY <2>4
    <3>2. new["allocation"] = row["allocation"] /\ new["allocated_bytes"] = row["allocated_bytes"]
      BY <2>4, <1>6, <1>11 DEF StatName
    <3> QED BY <2>1, <2>2, <3>1, <3>2, <1>6
  <2> QED BY <2>3, <2>4
<1>15. RowFits(new, rel, {b}, {b}, d, t)
  <2>1. /\ Bytes(rel, BlocksOf(block, d, t)) = Bytes(block, BlocksOf(block, d, t))
        /\ Bytes(rel, ActiveOf(block, {}, d, t)) = Bytes(block, ActiveOf(block, {}, d, t))
        /\ Bytes(rel, InactiveOf(block, {}, d, t)) = Bytes(block, InactiveOf(block, {}, d, t))
    BY <1>9, CountedBlocks
  <2>2. RowFits(row, block, {}, {}, d, t)
    BY DEF row
  <2> QED BY <2>1, <2>2, <1>4, <1>5, <1>7, <1>8, <1>13, <1>14 DEF RowFits
<1> QED BY <1>10, <1>15 DEF rel, new

\* Where there is a block there is a device.
LEMMA RowByRow ==
  ASSUME TypeOK, NEW b \in DOMAIN block,
         ~undefined' => \A d \in Device, t \in PoolType :
           Finite(block') /\ RowFits(device_stats'[d][t], block', Inserting', Inserting', d, t)
  PROVE  StatsInv'
<1>1. block[b].device \in Device
  BY DEF TypeOK, Block
<1>2. ASSUME ~undefined' PROVE Finite(block')
  BY <1>1, <1>2 DEF PoolType
<1> QED BY <1>2 DEF StatsInv

\* free, without and with events to insert.
LEMMA FreeKeepsStats ==
  ASSUME TypeOK, Safe, StatsInv, ~undefined, NEW buffer \in DOMAIN allocated_blocks,
         Free(buffer) \/ FreeUsed(buffer)
  PROVE  StatsInv'
<1> DEFINE b == allocated_blocks[buffer]
<1>1. op.pc = "idle" /\ Inserting = {}
  BY DEF Free, FreeUsed, At, Inserting
<1>2. SUFFICES ASSUME ~undefined', NEW d \in Device, NEW t \in PoolType
      PROVE  Finite(block') /\ RowFits(device_stats'[d][t], block', Inserting', Inserting', d, t)
  <2>1. b \in DOMAIN block
    BY ReleasedFacts
  <2> QED BY <2>1, RowByRow
<1>3. Finite(block) /\ RowFits(device_stats[d][t], block, {}, {}, d, t)
  BY <1>1 DEF StatsInv
<1>4. /\ Finite(Released(b))
      /\ RowFits(FreeStats(b)[d][t], Released(b), {b}, {b}, d, t)
  BY <1>3, ReleasedStats
<1>5. CASE Free(buffer)
  <2>1. FreeBlock(Released(b), FreeStats(b), b) /\ op' = op
    BY <1>5 DEF Free
  <2>2. Inserting' = {}
    BY <2>1, <1>1 DEF Inserting
  <2>3. /\ b \in DOMAIN block /\ block[b].event_cnt = 0
        /\ BlockMap(Released(b)) /\ SameShape(block, Released(b))
        /\ Tiling(Released(b), segment)
        /\ \A x \in DOMAIN block :
             /\ Released(b)[x].event_cnt = block[x].event_cnt
             /\ Released(b)[x].allocated = (block[x].allocated /\ x # b)
        /\ FreeStats(b) \in Stats
    BY ReleasedFacts
  <2>4. b \in DOMAIN Released(b) /\ ~Released(b)[b].allocated /\ Released(b)[b].event_cnt = 0
    BY <2>3 DEF SameShape
  <2>5. segment \subseteq Segment
    BY DEF TypeOK
  <2> HIDE DEF b
  <2> QED BY <2>1, <2>2, <2>3, <2>4, <2>5, <1>2, <1>4, FreeBlockStats
<1>6. CASE FreeUsed(buffer)
  <2>1. /\ block' = Released(b) /\ device_stats' = FreeStats(b)
        /\ op' = [Idle EXCEPT !.pc = "insert_events", !.block = b, !.todo = block[b].queue_uses]
    BY <1>6 DEF FreeUsed
  <2>2. Inserting' = {b}
    BY <2>1 DEF Inserting, Idle
  <2> QED BY <2>1, <2>2, <1>4
<1> QED BY <1>5, <1>6

\* An event of a block has completed.
LEMMA EventDoneKeepsStats ==
  ASSUME TypeOK, Safe, StatsInv, ~undefined, op.pc # "insert_events",
         NEW i \in DOMAIN dpcpp_events, EventDone(dpcpp_events[i].block), op' = op
  PROVE  StatsInv'
<1> DEFINE b == dpcpp_events[i].block
           dec == [block EXCEPT ![b].event_cnt = @ - 1]
<1>1. Inserting = {} /\ Inserting' = {}
  BY DEF Inserting
<1>2. /\ BlockMap(block) /\ dpcpp_events \in Seq(Event) /\ segment \subseteq Segment
      /\ device_stats \in Stats /\ undefined \in BOOLEAN
      /\ Tiling(block, segment) /\ EventsFit(dpcpp_events, block)
  BY SafeParts DEF TypeOK, BlockMap
<1>3. b \in DOMAIN block /\ block[b].event_cnt > 0
  BY <1>2, EventCountPositive
<1>4. block[b] \in Block /\ ~block[b].allocated /\ block[b].event_cnt \in Nat
  BY <1>2, <1>3 DEF BlockMap, EventsFit, Block
<1>5. /\ DOMAIN dec = DOMAIN block
      /\ dec[b] = [block[b] EXCEPT !.event_cnt = block[b].event_cnt - 1]
      /\ \A x \in DOMAIN block : x # b => dec[x] = block[x]
  BY <1>3
<1>6. dec[b] \in Block /\ dec[b].event_cnt = block[b].event_cnt - 1
      /\ dec[b].allocated = block[b].allocated
  BY <1>3, <1>4, <1>5 DEF Block
<1>7. BlockMap(dec)
  <2>1. dec = [x \in DOMAIN dec |-> dec[x]]
    OBVIOUS
  <2> HIDE DEF dec
  <2>2. \A x \in DOMAIN dec : dec[x] \in Block
    BY <1>2, <1>5, <1>6 DEF BlockMap
  <2> QED BY <2>1, <2>2, <1>2, <1>5 DEF BlockMap
<1>8. SameShape(block, dec)
  <2>1. SameRange(dec[b], block[b]) /\ dec[b].prev = block[b].prev /\ dec[b].next = block[b].next
    BY <1>4, <1>5 DEF Block, SameRange
  <2> HIDE DEF dec
  <2> QED BY <2>1, <1>5 DEF SameShape, SameRange
<1> HIDE DEF dec
<1>9. Tiling(dec, segment)
  BY <1>2, <1>8, TilingSameShape
<1>10. SUFFICES ASSUME ~undefined', NEW d \in Device, NEW t \in PoolType
       PROVE  Finite(block') /\ RowFits(device_stats'[d][t], block', {}, {}, d, t)
  BY <1>1, <1>3, RowByRow
<1>11. Finite(block) /\ RowFits(device_stats[d][t], block, {}, {}, d, t)
  BY <1>1 DEF StatsInv
<1>12. CASE dec[b].event_cnt = 0
  <2>1. FreeBlock(dec, device_stats, b)
    BY <1>12 DEF EventDone, dec
  <2>2. Finite(dec) /\ RowFits(device_stats[d][t], dec, {b}, {b}, d, t)
    <3>1. \A x \in DOMAIN block :
            /\ dec[x].allocated <=> block[x].allocated
            /\ (dec[x].allocated \/ dec[x].event_cnt > 0 \/ x \in {b}) <=>
                 (block[x].allocated \/ block[x].event_cnt > 0 \/ x \in {})
      BY <1>3, <1>5, <1>6
    <3> QED BY <3>1, <1>8, <1>11, RowSameShape
  <2>3. b \in DOMAIN dec /\ ~dec[b].allocated
    BY <1>3, <1>4, <1>5, <1>6
  <2> HIDE DEF b
  <2> QED BY <2>1, <2>2, <2>3, <1>2, <1>7, <1>9, <1>10, <1>12, FreeBlockStats
<1>13. CASE dec[b].event_cnt # 0
  <2>1. block' = dec /\ device_stats' = device_stats
    BY <1>13 DEF EventDone, dec
  <2>2. \A x \in DOMAIN block :
          /\ dec[x].allocated <=> block[x].allocated
          /\ (dec[x].allocated \/ dec[x].event_cnt > 0 \/ x \in {}) <=>
               (block[x].allocated \/ block[x].event_cnt > 0 \/ x \in {})
    <3>1. dec[b].event_cnt > 0
      BY <1>3, <1>4, <1>6, <1>13
    <3> HIDE DEF b
    <3> QED BY <3>1, <1>3, <1>5, <1>6 DEF b
  <2> QED BY <2>1, <2>2, <1>8, <1>11, RowSameShape
<1> QED BY <1>12, <1>13

\* insert_events: the block counts as active before and after its first event.
LEMMA InsertKeepsStats ==
  ASSUME TypeOK, Safe, StatsInv, InsertEvent
  PROVE  StatsInv'
<1> DEFINE b == op.block
<1>1. /\ op.pc = "insert_events" /\ ~undefined /\ undefined' = undefined
      /\ device_stats' = device_stats
  BY DEF InsertEvent, At
<1>2. b \in DOMAIN block /\ BlockMap(block) /\ block[b] \in Block /\ block[b].event_cnt \in Nat
  BY <1>1 DEF Safe, InHand, TypeOK, BlockMap, Block
<1>3. PICK q \in op.todo :
        /\ block' = [block EXCEPT ![b].event_cnt = @ + 1]
        /\ op' = IF op.todo = {q} THEN Idle ELSE [op EXCEPT !.todo = @ \ {q}]
  BY DEF InsertEvent
<1>4. Inserting = {b} /\ (Inserting' = {} \/ Inserting' = {b})
  <2>1. op \in Op
    BY DEF TypeOK
  <2>2. CASE op' = Idle
    <3>1. op'.pc = "idle"
      BY <2>2 DEF Idle
    <3> QED BY <3>1, <1>1 DEF Inserting
  <2>3. CASE op' = [op EXCEPT !.todo = @ \ {q}]
    <3>1. op'.pc = op.pc /\ op'.block = op.block
      BY <2>1, <2>3 DEF Op
    <3> QED BY <3>1, <1>1 DEF Inserting
  <2> QED BY <2>2, <2>3, <1>3
<1>5. /\ DOMAIN block' = DOMAIN block
      /\ block'[b] = [block[b] EXCEPT !.event_cnt = block[b].event_cnt + 1]
      /\ \A x \in DOMAIN block : x # b => block'[x] = block[x]
  BY <1>2, <1>3
<1>6. /\ block'[b].event_cnt = block[b].event_cnt + 1
      /\ block'[b].allocated = block[b].allocated
      /\ SameRange(block'[b], block[b])
      /\ block'[b].prev = block[b].prev /\ block'[b].next = block[b].next
  BY <1>2, <1>5 DEF Block, SameRange
<1>7. SameShape(block, block')
  <2> HIDE DEF b
  <2> QED BY <1>5, <1>6 DEF SameShape, SameRange
<1>8. SUFFICES ASSUME NEW d \in Device, NEW t \in PoolType
      PROVE  Finite(block') /\ RowFits(device_stats'[d][t], block', Inserting', Inserting', d, t)
  BY <1>2, RowByRow
<1>9. Finite(block) /\ RowFits(device_stats[d][t], block, {b}, {b}, d, t)
  BY <1>1, <1>4 DEF StatsInv
<1>10. \A x \in DOMAIN block :
         /\ block'[x].allocated <=> block[x].allocated
         /\ (block'[x].allocated \/ block'[x].event_cnt > 0 \/ x \in Inserting') <=>
              (block[x].allocated \/ block[x].event_cnt > 0 \/ x \in {b})
  <2>1. block'[b].event_cnt > 0
    BY <1>2, <1>6
  <2> HIDE DEF b
  <2> QED BY <2>1, <1>4, <1>5, <1>6
<1> HIDE DEF b
<1> QED BY <1>1, <1>7, <1>9, <1>10, RowSameShape

\* A free block is inactive when it is split.
LEMMA ShowBlock ==
  ASSUME NEW blocks, BlockMap(blocks), Linked(blocks), Apart(blocks), Finite(blocks),
         NEW b \in DOMAIN blocks, ~blocks[b].allocated, blocks[b].event_cnt = 0,
         NEW d, NEW t
  PROVE  LET hid == InactiveOf(blocks, {b}, d, t)
             ina == InactiveOf(blocks, {}, d, t)
         IN  /\ Cardinality(hid) \in Nat /\ Bytes(blocks, hid) \in Nat
             /\ IF b \in BlocksOf(blocks, d, t) /\ IsSplit(blocks[b])
                THEN /\ Cardinality(ina) = Cardinality(hid) + 1
                     /\ Bytes(blocks, ina) = Bytes(blocks, hid) + blocks[b].size
                ELSE Cardinality(ina) = Cardinality(hid) /\ Bytes(blocks, ina) = Bytes(blocks, hid)
<1> DEFINE hid == InactiveOf(blocks, {b}, d, t)
           ina == InactiveOf(blocks, {}, d, t)
<1>1. Cardinality(hid) \in Nat /\ Bytes(blocks, hid) \in Nat /\ hid \in SUBSET DOMAIN blocks
  BY CountedBlocks, FiniteSums
<1>2. blocks[b].size > 0 /\ ~(blocks[b].event_cnt > 0)
  BY DEF Linked
<1>3. CASE b \in BlocksOf(blocks, d, t) /\ IsSplit(blocks[b])
  <2>1. ina = hid \cup {b} /\ b \notin hid
    BY <1>2, <1>3 DEF InactiveOf
  <2> HIDE DEF hid, ina
  <2>2. /\ Cardinality(hid \cup {b}) = Cardinality(hid) + 1
        /\ Bytes(blocks, hid \cup {b}) = Bytes(blocks, hid) + blocks[b].size
    BY <2>1, <1>1, <1>2, SumAdd
  <2> QED BY <2>1, <2>2, <1>1, <1>3 DEF hid, ina
<1>4. CASE ~(b \in BlocksOf(blocks, d, t) /\ IsSplit(blocks[b]))
  <2>1. ina = hid
    BY <1>4 DEF InactiveOf
  <2> HIDE DEF hid, ina
  <2> QED BY <2>1, <1>1, <1>4 DEF hid, ina
<1> QED BY <1>3, <1>4

\* malloc, with a split.
LEMMA FrontKeepsStats ==
  ASSUME TypeOK, Safe, TypeOK', Safe', op.pc = "split", Finite(block),
         NEW id \in BlockId, HandsOutFront(id),
         NEW d \in Device, NEW t \in PoolType,
         RowFits(device_stats[d][t], block, {}, {}, d, t)
  PROVE  Finite(block') /\ RowFits(device_stats'[d][t], block', {}, {}, d, t)
<1> DEFINE b == op.block
           m == block'
           amount == [inactive_split |-> IF IsSplit(block[op.block]) THEN 0 ELSE 1,
                      inactive_split_bytes |-> IF IsSplit(block[op.block]) THEN -OpSize
                                               ELSE block[op.block].size - OpSize,
                      allocation |-> 1, allocated_bytes |-> OpSize,
                      active |-> 1, active_bytes |-> OpSize]
           row == device_stats[d][t]
           new == device_stats'[d][t]
           here == b \in BlocksOf(block, d, t)
           hid == InactiveOf(block, {b}, d, t)
<1>1. /\ b \in DOMAIN block /\ ~block[b].allocated /\ block[b].event_cnt = 0
      /\ block[b].device = op.device /\ block[b].pool_type = PoolTypeOf(OpSize)
      /\ BlockMap(block) /\ Linked(block) /\ Apart(block) /\ device_stats \in Stats
      /\ op \in Op
  BY DEF Safe, InHand, TypeOK, BlockMap
<1>2. BlockMap(m) /\ Linked(m) /\ Apart(m)
  BY DEF Safe, TypeOK, BlockMap
<1>3. /\ block[b] \in Block /\ block[b].size \in Nat /\ block[b].buffer \in Nat
      /\ op.device \in Device /\ PoolTypeOf(OpSize) \in PoolType
  <2>1. block[b] \in Block
    BY <1>1 DEF BlockMap
  <2> QED BY <2>1, <1>1 DEF Block
<1>4. OpSize \in Nat /\ OpSize > 0
  BY <1>1, OpSizeType
<1>5. /\ id \notin DOMAIN block /\ id # b /\ b # NULL /\ id # NULL
      /\ OpSize < block[b].size /\ SplitOff(block, m, b, id, OpSize)
      /\ m[id].allocated /\ ~m[b].allocated /\ m[b].event_cnt = 0
      /\ \A x \in DOMAIN block : x # b =>
           m[x].allocated = block[x].allocated /\ m[x].event_cnt = block[x].event_cnt
      /\ device_stats' = UpdateStats(device_stats, op.device, PoolTypeOf(OpSize), amount)
  <2>1. b # NULL /\ id # NULL
    BY <1>1, NullAssumption DEF BlockMap
  <2> QED BY <2>1, <1>1 DEF HandsOutFront, OthersKept
<1>6. /\ DOMAIN m = DOMAIN block \cup {id}
      /\ m[id].size = OpSize /\ m[id].buffer = block[b].buffer
      /\ m[id].prev = block[b].prev /\ m[id].next = b
      /\ m[id].device = block[b].device /\ m[id].pool_type = block[b].pool_type
      /\ m[b].size = block[b].size - OpSize /\ m[b].buffer = block[b].buffer + OpSize
      /\ m[b].prev = id
      /\ m[b].device = block[b].device /\ m[b].pool_type = block[b].pool_type
      /\ \A x \in DOMAIN block : x # b =>
           /\ m[x].device = block[x].device /\ m[x].pool_type = block[x].pool_type
           /\ m[x].buffer = block[x].buffer /\ m[x].size = block[x].size
           /\ m[x].prev = block[x].prev
           /\ m[x].next = IF x = block[b].prev THEN id ELSE block[x].next
  BY <1>5 DEF SplitOff, SameRange
<1>7. \A x \in DOMAIN block : x # b => (IsSplit(m[x]) <=> IsSplit(block[x]))
  <2>1. block[b].prev # NULL => block[block[b].prev].next = b
    BY <1>1 DEF Linked
  <2> SUFFICES ASSUME NEW x \in DOMAIN block, x # b PROVE IsSplit(m[x]) <=> IsSplit(block[x])
    OBVIOUS
  <2>2. CASE x = block[b].prev
    <3>1. x # NULL
      BY <1>1, NullAssumption DEF BlockMap
    <3> QED BY <2>1, <2>2, <3>1, <1>5, <1>6 DEF IsSplit
  <2>3. CASE x # block[b].prev
    BY <2>3, <1>6 DEF IsSplit
  <2> QED BY <2>2, <2>3
<1> HIDE DEF m
<1>8. Swallows(m, block, b, id)
  <2>1. block[b].size = m[b].size + m[id].size
    BY <1>3, <1>4, <1>6
  <2> HIDE DEF b
  <2> QED BY <2>1, <1>1, <1>5, <1>6 DEF Swallows
<1>9. /\ Finite(m)
      /\ BlocksOf(block, d, t) = BlocksOf(m, d, t) \ {id}
      /\ id \in BlocksOf(m, d, t) <=> b \in BlocksOf(m, d, t)
      /\ Bytes(block, BlocksOf(block, d, t)) = Bytes(m, BlocksOf(m, d, t))
      /\ Cardinality(FirstOf(block, d, t)) = Cardinality(FirstOf(m, d, t))
  BY <1>2, <1>8, SwallowsSame
<1>10. /\ id \in BlocksOf(m, d, t) <=> here
       /\ b \in BlocksOf(m, d, t) <=> here
       /\ here <=> d = op.device /\ t = PoolTypeOf(OpSize)
  BY <1>1, <1>5, <1>9 DEF BlocksOf
<1>11. /\ row["segment"] = Cardinality(FirstOf(block, d, t))
       /\ row["reserved_bytes"] = Bytes(block, BlocksOf(block, d, t))
       /\ row["inactive_split"] = Cardinality(InactiveOf(block, {}, d, t))
       /\ row["inactive_split_bytes"] = Bytes(block, InactiveOf(block, {}, d, t))
       /\ row["allocation"] = Cardinality(AllocatedOf(block, d, t))
       /\ row["allocated_bytes"] = Bytes(block, AllocatedOf(block, d, t))
       /\ row["active"] = Cardinality(ActiveOf(block, {}, d, t))
       /\ row["active_bytes"] = Bytes(block, ActiveOf(block, {}, d, t))
  BY DEF RowFits
<1>12. \A s \in StatName :
         new[s] = IF here /\ s \in DOMAIN amount THEN row[s] + amount[s] ELSE row[s]
  <2> HIDE DEF amount, here
  <2> QED BY <1>1, <1>3, <1>5, <1>10, Updated
<1>13. /\ DOMAIN amount = {"inactive_split", "inactive_split_bytes", "allocation",
                           "allocated_bytes", "active", "active_bytes"}
       /\ amount["inactive_split"] = IF IsSplit(block[b]) THEN 0 ELSE 1
       /\ amount["inactive_split_bytes"] = IF IsSplit(block[b]) THEN -OpSize
                                           ELSE block[b].size - OpSize
       /\ amount["allocation"] = 1 /\ amount["allocated_bytes"] = OpSize
       /\ amount["active"] = 1 /\ amount["active_bytes"] = OpSize
  OBVIOUS
<1> HIDE DEF amount, row, new, here
<1>14. new["segment"] = row["segment"] /\ new["reserved_bytes"] = row["reserved_bytes"]
  BY <1>12, <1>13 DEF StatName
<1>15. ASSUME NEW S \in SUBSET DOMAIN block, b \notin S
       PROVE  /\ Cardinality(S) \in Nat /\ Bytes(m, S) \in Nat /\ Bytes(m, S) = Bytes(block, S)
              /\ Cardinality(S \cup {id}) = Cardinality(S) + 1
              /\ Bytes(m, S \cup {id}) = Bytes(m, S) + OpSize
  <2>1. Bytes(m, S) = Bytes(block, S)
    BY <1>6, <1>15, SameBytes
  <2>2. S \in SUBSET DOMAIN m /\ id \notin S /\ id \in DOMAIN m
    BY <1>5, <1>6
  <2> QED BY <2>1, <2>2, <1>2, <1>4, <1>6, <1>9, SumAdd, FiniteSums
<1>16. /\ new["allocation"] = Cardinality(AllocatedOf(m, d, t))
       /\ new["allocated_bytes"] = Bytes(m, AllocatedOf(m, d, t))
  <2> DEFINE al == AllocatedOf(block, d, t)
  <2>1. al \in SUBSET DOMAIN block /\ b \notin al
    BY <1>1 DEF AllocatedOf, BlocksOf
  <2>2. AllocatedOf(m, d, t) = IF here THEN al \cup {id} ELSE al
    BY <1>1, <1>5, <1>6, <1>9, <1>10 DEF AllocatedOf, BlocksOf
  <2>3. row["allocation"] = Cardinality(al) /\ row["allocated_bytes"] = Bytes(block, al)
    BY <1>11
  <2> HIDE DEF al
  <2>4. /\ Cardinality(al) \in Nat /\ Bytes(m, al) \in Nat /\ Bytes(m, al) = Bytes(block, al)
        /\ Cardinality(al \cup {id}) = Cardinality(al) + 1
        /\ Bytes(m, al \cup {id}) = Bytes(m, al) + OpSize
    BY <2>1, <1>15
  <2>5. /\ new["allocation"] = IF here THEN row["allocation"] + 1 ELSE row["allocation"]
        /\ new["allocated_bytes"] = IF here THEN row["allocated_bytes"] + OpSize
                                    ELSE row["allocated_bytes"]
    BY <1>12, <1>13 DEF StatName
  <2>6. CASE here
    BY <2>2, <2>3, <2>4, <2>5, <2>6
  <2>7. CASE ~here
    BY <2>2, <2>3, <2>4, <2>5, <2>7
  <2> QED BY <2>6, <2>7
<1>17. /\ new["active"] = Cardinality(ActiveOf(m, {}, d, t))
       /\ new["active_bytes"] = Bytes(m, ActiveOf(m, {}, d, t))
  <2> DEFINE ac == ActiveOf(block, {}, d, t)
  <2>1. ac \in SUBSET DOMAIN block /\ b \notin ac
    BY <1>1 DEF ActiveOf, BlocksOf
  <2>2. ActiveOf(m, {}, d, t) = IF here THEN ac \cup {id} ELSE ac
    BY <1>1, <1>5, <1>6, <1>9, <1>10 DEF ActiveOf, BlocksOf
  <2>3. row["active"] = Cardinality(ac) /\ row["active_bytes"] = Bytes(block, ac)
    BY <1>11
  <2> HIDE DEF ac
  <2>4. /\ Cardinality(ac) \in Nat /\ Bytes(m, ac) \in Nat /\ Bytes(m, ac) = Bytes(block, ac)
        /\ Cardinality(ac \cup {id}) = Cardinality(ac) + 1
        /\ Bytes(m, ac \cup {id}) = Bytes(m, ac) + OpSize
    BY <2>1, <1>15
  <2>5. /\ new["active"] = IF here THEN row["active"] + 1 ELSE row["active"]
        /\ new["active_bytes"] = IF here THEN row["active_bytes"] + OpSize
                                 ELSE row["active_bytes"]
    BY <1>12, <1>13 DEF StatName
  <2>6. CASE here
    BY <2>2, <2>3, <2>4, <2>5, <2>6
  <2>7. CASE ~here
    BY <2>2, <2>3, <2>4, <2>5, <2>7
  <2> QED BY <2>6, <2>7
<1>18. /\ new["inactive_split"] = Cardinality(InactiveOf(m, {}, d, t))
       /\ new["inactive_split_bytes"] = Bytes(m, InactiveOf(m, {}, d, t))
  <2> DEFINE ina == InactiveOf(block, {}, d, t)
             out == InactiveOf(m, {}, d, t)
  <2>1. InactiveOf(m, {b}, d, t) = hid /\ hid \in SUBSET DOMAIN block /\ b \notin hid
    <3>1. hid \in SUBSET DOMAIN block /\ b \notin hid
      BY DEF InactiveOf, BlocksOf
    <3>2. ASSUME NEW x PROVE x \in InactiveOf(m, {b}, d, t) <=> x \in hid
      <4>1. CASE x = id
        BY <4>1, <1>5 DEF InactiveOf, BlocksOf
      <4>2. CASE x = b
        BY <4>2 DEF InactiveOf
      <4>3. CASE x # id /\ x # b /\ x \in DOMAIN block
        BY <4>3, <1>5, <1>6, <1>7 DEF InactiveOf, BlocksOf
      <4>4. CASE x # id /\ x # b /\ x \notin DOMAIN block
        BY <4>4, <1>6 DEF InactiveOf, BlocksOf
      <4> QED BY <4>1, <4>2, <4>3, <4>4
    <3> QED BY <3>1, <3>2
  <2>2. Bytes(m, hid) = Bytes(block, hid)
    BY <2>1, <1>15
  <2>3. /\ Cardinality(hid) \in Nat /\ Bytes(block, hid) \in Nat
        /\ IF here /\ IsSplit(block[b])
           THEN /\ Cardinality(ina) = Cardinality(hid) + 1
                /\ Bytes(block, ina) = Bytes(block, hid) + block[b].size
           ELSE Cardinality(ina) = Cardinality(hid) /\ Bytes(block, ina) = Bytes(block, hid)
    BY <1>1, ShowBlock DEF here
  <2>4. IF here
        THEN /\ Cardinality(out) = Cardinality(hid) + 1
             /\ Bytes(m, out) = Bytes(m, hid) + m[b].size
        ELSE Cardinality(out) = Cardinality(hid) /\ Bytes(m, out) = Bytes(m, hid)
    <3>1. IsSplit(m[b]) /\ b \in DOMAIN m
      BY <1>1, <1>5, <1>6 DEF IsSplit
    <3>2. LET h == InactiveOf(m, {b}, d, t)
          IN  IF b \in BlocksOf(m, d, t) /\ IsSplit(m[b])
              THEN Cardinality(out) = Cardinality(h) + 1 /\ Bytes(m, out) = Bytes(m, h) + m[b].size
              ELSE Cardinality(out) = Cardinality(h) /\ Bytes(m, out) = Bytes(m, h)
      BY <3>1, <1>2, <1>5, <1>9, ShowBlock
    <3> HIDE DEF out, hid
    <3> QED BY <2>1, <3>1, <3>2, <1>10
  <2>5. row["inactive_split"] = Cardinality(ina) /\ row["inactive_split_bytes"] = Bytes(block, ina)
    BY <1>11
  <2> HIDE DEF ina, out, hid
  <2>6. CASE here /\ IsSplit(block[b])
    <3>1. /\ new["inactive_split"] = row["inactive_split"] + 0
          /\ new["inactive_split_bytes"] = row["inactive_split_bytes"] + (-OpSize)
      BY <2>6, <1>12, <1>13 DEF StatName
    <3>2. /\ Cardinality(ina) = Cardinality(hid) + 1
          /\ Bytes(block, ina) = Bytes(block, hid) + block[b].size
          /\ Cardinality(out) = Cardinality(hid) + 1
          /\ Bytes(m, out) = Bytes(block, hid) + (block[b].size - OpSize)
      BY <2>2, <2>3, <2>4, <2>6, <1>6
    <3>3. new["inactive_split"] = Cardinality(out) /\ new["inactive_split_bytes"] = Bytes(m, out)
      BY <2>3, <2>5, <3>1, <3>2, <1>3, <1>4
    <3> QED BY <3>3 DEF out
  <2>7. CASE here /\ ~IsSplit(block[b])
    <3>1. /\ new["inactive_split"] = row["inactive_split"] + 1
          /\ new["inactive_split_bytes"] = row["inactive_split_bytes"] + (block[b].size - OpSize)
      BY <2>7, <1>12, <1>13 DEF StatName
    <3>2. /\ Cardinality(ina) = Cardinality(hid)
          /\ Bytes(block, ina) = Bytes(block, hid)
          /\ Cardinality(out) = Cardinality(hid) + 1
          /\ Bytes(m, out) = Bytes(block, hid) + (block[b].size - OpSize)
      BY <2>2, <2>3, <2>4, <2>7, <1>6
    <3>3. new["inactive_split"] = Cardinality(out) /\ new["inactive_split_bytes"] = Bytes(m, out)
      BY <2>5, <3>1, <3>2
    <3> QED BY <3>3 DEF out
  <2>8. CASE ~here
    <3>1. /\ new["inactive_split"] = row["inactive_split"]
          /\ new["inactive_split_bytes"] = row["inactive_split_bytes"]
      BY <2>8, <1>12 DEF StatName
    <3>3. new["inactive_split"] = Cardinality(out) /\ new["inactive_split_bytes"] = Bytes(m, out)
      BY <2>2, <2>3, <2>4, <2>5, <2>8, <3>1
    <3> QED BY <3>3 DEF out
  <2> QED BY <2>6, <2>7, <2>8
<1>19. RowFits(new, m, {}, {}, d, t)
  BY <1>9, <1>11, <1>14, <1>16, <1>17, <1>18 DEF RowFits
<1> QED BY <1>9, <1>19 DEF m, new

\* malloc, without a split.
LEMMA WholeKeepsStats ==
  ASSUME TypeOK, Safe, op.pc = "split", Finite(block), HandsOutWhole,
         NEW d \in Device, NEW t \in PoolType,
         RowFits(device_stats[d][t], block, {}, {}, d, t)
  PROVE  Finite(block') /\ RowFits(device_stats'[d][t], block', {}, {}, d, t)
<1> DEFINE b == op.block
           m == block'
           amount == [inactive_split |-> IF IsSplit(block[op.block]) THEN -1 ELSE 0,
                      inactive_split_bytes |-> IF IsSplit(block[op.block])
                                               THEN -block[op.block].size ELSE 0,
                      allocation |-> 1, allocated_bytes |-> block[op.block].size,
                      active |-> 1, active_bytes |-> block[op.block].size]
           row == device_stats[d][t]
           new == device_stats'[d][t]
           here == b \in BlocksOf(block, d, t)
           al == AllocatedOf(block, d, t)
           ac == ActiveOf(block, {}, d, t)
           hid == InactiveOf(block, {b}, d, t)
           ina == InactiveOf(block, {}, d, t)
<1>1. /\ b \in DOMAIN block /\ ~block[b].allocated /\ block[b].event_cnt = 0
      /\ block[b].device = op.device /\ block[b].pool_type = PoolTypeOf(OpSize)
      /\ BlockMap(block) /\ Linked(block) /\ Apart(block) /\ device_stats \in Stats
  BY DEF Safe, InHand, TypeOK, BlockMap
<1>2. /\ block[b].size \in Nat /\ block[b].size > 0
      /\ op.device \in Device /\ PoolTypeOf(OpSize) \in PoolType
  <2>1. block[b] \in Block
    BY <1>1 DEF BlockMap
  <2> QED BY <2>1, <1>1 DEF Block, Linked
<1>3. /\ SameShape(block, m) /\ m[b].allocated
      /\ \A x \in DOMAIN block : x # b =>
           m[x].allocated = block[x].allocated /\ m[x].event_cnt = block[x].event_cnt
      /\ device_stats' = UpdateStats(device_stats, op.device, PoolTypeOf(OpSize), amount)
  BY DEF HandsOutWhole, OthersKept
<1> HIDE DEF m
<1>4. /\ DOMAIN m = DOMAIN block
      /\ BlocksOf(m, d, t) = BlocksOf(block, d, t)
      /\ BlocksOf(block, d, t) \subseteq DOMAIN block
  BY <1>3 DEF SameShape, BlocksOf
<1>5. FirstOf(m, d, t) = FirstOf(block, d, t)
  BY <1>3, <1>4 DEF FirstOf, SameShape
<1>6. \A S \in SUBSET DOMAIN block :
        Addresses(m, S) = Addresses(block, S) /\ Bytes(m, S) = Bytes(block, S)
  BY <1>3, SameBytes DEF SameShape
<1>7. Finite(m)
  BY <1>4, <1>6 DEF Finite
<1>8. /\ AllocatedOf(m, d, t) = IF here THEN al \cup {b} ELSE al
      /\ al \in SUBSET DOMAIN block /\ b \notin al
  BY <1>1, <1>3, <1>4 DEF AllocatedOf
<1>9. /\ ActiveOf(m, {}, d, t) = IF here THEN ac \cup {b} ELSE ac
      /\ ac \in SUBSET DOMAIN block /\ b \notin ac
  BY <1>1, <1>3, <1>4 DEF ActiveOf
<1>10. InactiveOf(m, {}, d, t) = hid /\ hid \in SUBSET DOMAIN block
  BY <1>3, <1>4 DEF InactiveOf, IsSplit, SameShape
<1>11. here <=> d = op.device /\ t = PoolTypeOf(OpSize)
  BY <1>1 DEF BlocksOf
<1>12. /\ Cardinality(hid) \in Nat /\ Bytes(block, hid) \in Nat
       /\ IF here /\ IsSplit(block[b])
          THEN /\ Cardinality(ina) = Cardinality(hid) + 1
               /\ Bytes(block, ina) = Bytes(block, hid) + block[b].size
          ELSE Cardinality(ina) = Cardinality(hid) /\ Bytes(block, ina) = Bytes(block, hid)
  BY <1>1, ShowBlock
<1>13. /\ row["segment"] = Cardinality(FirstOf(block, d, t))
       /\ row["reserved_bytes"] = Bytes(block, BlocksOf(block, d, t))
       /\ row["inactive_split"] = Cardinality(ina)
       /\ row["inactive_split_bytes"] = Bytes(block, ina)
       /\ row["allocation"] = Cardinality(al) /\ row["allocated_bytes"] = Bytes(block, al)
       /\ row["active"] = Cardinality(ac) /\ row["active_bytes"] = Bytes(block, ac)
  BY DEF RowFits
<1>14. \A s \in StatName :
         new[s] = IF here /\ s \in DOMAIN amount THEN row[s] + amount[s] ELSE row[s]
  <2> HIDE DEF amount, here
  <2> QED BY <1>1, <1>2, <1>3, <1>11, Updated
<1>15. /\ DOMAIN amount = {"inactive_split", "inactive_split_bytes", "allocation",
                           "allocated_bytes", "active", "active_bytes"}
       /\ amount["inactive_split"] = IF IsSplit(block[b]) THEN -1 ELSE 0
       /\ amount["inactive_split_bytes"] = IF IsSplit(block[b]) THEN -block[b].size ELSE 0
       /\ amount["allocation"] = 1 /\ amount["allocated_bytes"] = block[b].size
       /\ amount["active"] = 1 /\ amount["active_bytes"] = block[b].size
  OBVIOUS
<1> HIDE DEF amount, row, new, here, al, ac, hid, ina
<1>16. ASSUME NEW S \in SUBSET DOMAIN block, b \notin S
       PROVE  /\ Cardinality(S) \in Nat /\ Bytes(block, S) \in Nat
              /\ Cardinality(S \cup {b}) = Cardinality(S) + 1
              /\ Bytes(m, S) = Bytes(block, S)
              /\ Bytes(m, S \cup {b}) = Bytes(block, S) + block[b].size
  <2>1. S \cup {b} \in SUBSET DOMAIN block
    BY <1>1
  <2> QED BY <2>1, <1>1, <1>2, <1>6, <1>16, SumAdd, FiniteSums
<1>17. /\ new["allocation"] = Cardinality(AllocatedOf(m, d, t))
       /\ new["allocated_bytes"] = Bytes(m, AllocatedOf(m, d, t))
  <2>1. CASE here
    <3>1. /\ new["allocation"] = row["allocation"] + 1
          /\ new["allocated_bytes"] = row["allocated_bytes"] + block[b].size
      BY <2>1, <1>14, <1>15 DEF StatName
    <3> QED BY <2>1, <3>1, <1>8, <1>13, <1>16
  <2>2. CASE ~here
    <3>1. new["allocation"] = row["allocation"] /\ new["allocated_bytes"] = row["allocated_bytes"]
      BY <2>2, <1>14 DEF StatName
    <3> QED BY <2>2, <3>1, <1>8, <1>13, <1>16
  <2> QED BY <2>1, <2>2
<1>18. /\ new["active"] = Cardinality(ActiveOf(m, {}, d, t))
       /\ new["active_bytes"] = Bytes(m, ActiveOf(m, {}, d, t))
  <2>1. CASE here
    <3>1. /\ new["active"] = row["active"] + 1
          /\ new["active_bytes"] = row["active_bytes"] + block[b].size
      BY <2>1, <1>14, <1>15 DEF StatName
    <3> QED BY <2>1, <3>1, <1>9, <1>13, <1>16
  <2>2. CASE ~here
    <3>1. new["active"] = row["active"] /\ new["active_bytes"] = row["active_bytes"]
      BY <2>2, <1>14 DEF StatName
    <3> QED BY <2>2, <3>1, <1>9, <1>13, <1>16
  <2> QED BY <2>1, <2>2
<1>19. /\ new["inactive_split"] = Cardinality(InactiveOf(m, {}, d, t))
       /\ new["inactive_split_bytes"] = Bytes(m, InactiveOf(m, {}, d, t))
  <2>0. Bytes(m, InactiveOf(m, {}, d, t)) = Bytes(block, hid)
    BY <1>6, <1>10
  <2>1. CASE here /\ IsSplit(block[b])
    <3>1. /\ new["inactive_split"] = row["inactive_split"] + (-1)
          /\ new["inactive_split_bytes"] = row["inactive_split_bytes"] + (-block[b].size)
      BY <2>1, <1>14, <1>15 DEF StatName
    <3>2. new["inactive_split"] = Cardinality(hid) /\ new["inactive_split_bytes"] = Bytes(block, hid)
      BY <2>1, <3>1, <1>2, <1>12, <1>13
    <3> QED BY <2>0, <3>2, <1>10
  <2>2. CASE here /\ ~IsSplit(block[b])
    <3>1. /\ new["inactive_split"] = row["inactive_split"] + 0
          /\ new["inactive_split_bytes"] = row["inactive_split_bytes"] + 0
      BY <2>2, <1>14, <1>15 DEF StatName
    <3>2. new["inactive_split"] = Cardinality(hid) /\ new["inactive_split_bytes"] = Bytes(block, hid)
      BY <2>2, <3>1, <1>12, <1>13
    <3> QED BY <2>0, <3>2, <1>10
  <2>3. CASE ~here
    <3>1. /\ new["inactive_split"] = row["inactive_split"]
          /\ new["inactive_split_bytes"] = row["inactive_split_bytes"]
      BY <2>3, <1>14 DEF StatName
    <3>2. new["inactive_split"] = Cardinality(hid) /\ new["inactive_split_bytes"] = Bytes(block, hid)
      BY <2>3, <3>1, <1>12, <1>13
    <3> QED BY <2>0, <3>2, <1>10
  <2> QED BY <2>1, <2>2, <2>3
<1>20. new["segment"] = row["segment"] /\ new["reserved_bytes"] = row["reserved_bytes"]
  BY <1>14, <1>15 DEF StatName
<1>21. RowFits(new, m, {}, {}, d, t)
  <2>1. Bytes(m, BlocksOf(block, d, t)) = Bytes(block, BlocksOf(block, d, t))
    BY <1>4, <1>6
  <2> QED BY <2>1, <1>4, <1>5, <1>13, <1>17, <1>18, <1>19, <1>20 DEF RowFits
<1> QED BY <1>7, <1>21 DEF m, new

\* The end of malloc.
LEMMA SplitKeepsStats ==
  ASSUME TypeOK, Safe, StatsInv, Split
  PROVE  StatsInv'
<1>1. /\ op.pc = "split" /\ ~undefined /\ op' = Idle /\ Inserting = {}
  BY DEF Split, At, Return, Inserting
<1>2. Inserting' = {}
  <2>1. op'.pc = "idle"
    BY <1>1 DEF Idle
  <2> QED BY <2>1 DEF Inserting
<1>3. op.block \in DOMAIN block
  BY <1>1 DEF Safe, InHand
<1>4. SUFFICES ASSUME ~undefined', NEW d \in Device, NEW t \in PoolType
      PROVE  Finite(block') /\ RowFits(device_stats'[d][t], block', {}, {}, d, t)
  BY <1>2, <1>3, RowByRow
<1>5. Finite(block) /\ RowFits(device_stats[d][t], block, {}, {}, d, t)
  BY <1>1 DEF StatsInv
<1>6. TypeOK' /\ Safe' /\ ((\E id \in BlockId : HandsOutFront(id)) \/ HandsOutWhole)
  BY <1>4, SplitStep
<1>7. CASE HandsOutWhole
  BY <1>1, <1>5, <1>7, WholeKeepsStats
<1>8. ASSUME NEW id \in BlockId, HandsOutFront(id)
      PROVE  Finite(block') /\ RowFits(device_stats'[d][t], block', {}, {}, d, t)
  BY <1>1, <1>5, <1>6, <1>8, FrontKeepsStats
<1> QED BY <1>6, <1>7, <1>8

\* m is blocks with one more block, a whole segment that nobody uses.
OneMore(blocks, m, id) ==
  /\ DOMAIN m = DOMAIN blocks \cup {id} /\ id \notin DOMAIN blocks
  /\ \A x \in DOMAIN blocks : m[x] = blocks[x]
  /\ ~m[id].allocated /\ m[id].event_cnt = 0 /\ m[id].prev = NULL /\ m[id].next = NULL

\* A segment more is a segment and its bytes more, and nothing else.
LEMMA OneMoreCounts ==
  ASSUME NEW blocks, NEW m, NEW id, OneMore(blocks, m, id),
         BlockMap(m), Apart(m), Linked(m), Finite(blocks) \/ Finite(m), NEW d, NEW t
  PROVE  /\ Finite(blocks) /\ Finite(m)
         /\ Cardinality(FirstOf(blocks, d, t)) \in Nat
         /\ Bytes(blocks, BlocksOf(blocks, d, t)) \in Nat
         /\ IF m[id].device = d /\ m[id].pool_type = t
            THEN /\ Cardinality(FirstOf(m, d, t)) = Cardinality(FirstOf(blocks, d, t)) + 1
                 /\ Bytes(m, BlocksOf(m, d, t)) =
                      Bytes(blocks, BlocksOf(blocks, d, t)) + m[id].size
            ELSE /\ Cardinality(FirstOf(m, d, t)) = Cardinality(FirstOf(blocks, d, t))
                 /\ Bytes(m, BlocksOf(m, d, t)) = Bytes(blocks, BlocksOf(blocks, d, t))
         /\ Cardinality(AllocatedOf(m, d, t)) = Cardinality(AllocatedOf(blocks, d, t))
         /\ Bytes(m, AllocatedOf(m, d, t)) = Bytes(blocks, AllocatedOf(blocks, d, t))
         /\ Cardinality(ActiveOf(m, {}, d, t)) = Cardinality(ActiveOf(blocks, {}, d, t))
         /\ Bytes(m, ActiveOf(m, {}, d, t)) = Bytes(blocks, ActiveOf(blocks, {}, d, t))
         /\ Cardinality(InactiveOf(m, {}, d, t)) = Cardinality(InactiveOf(blocks, {}, d, t))
         /\ Bytes(m, InactiveOf(m, {}, d, t)) = Bytes(blocks, InactiveOf(blocks, {}, d, t))
<1> DEFINE all == BlocksOf(blocks, d, t)
           fst == FirstOf(blocks, d, t)
           here == m[id].device = d /\ m[id].pool_type = t
           A == m[id].buffer .. (m[id].buffer + m[id].size - 1)
<1>1. /\ DOMAIN m = DOMAIN blocks \cup {id} /\ id \notin DOMAIN blocks
      /\ \A x \in DOMAIN blocks : m[x] = blocks[x]
      /\ ~m[id].allocated /\ ~(m[id].event_cnt > 0) /\ m[id].prev = NULL /\ ~IsSplit(m[id])
      /\ m[id].size \in Nat /\ m[id].size > 0 /\ m[id].buffer \in Nat
  <2>1. m[id] \in Block /\ m[id].size > 0
    BY DEF OneMore, BlockMap, Linked
  <2> QED BY <2>1 DEF OneMore, IsSplit, Block
<1>2. \A S \in SUBSET DOMAIN blocks :
        Addresses(m, S) = Addresses(blocks, S) /\ Bytes(m, S) = Bytes(blocks, S)
  BY <1>1, SameBytes
<1>3. Finite(blocks) /\ Finite(m)
  <2>1. Addresses(m, DOMAIN m) = Addresses(blocks, DOMAIN blocks) \cup A
    <3>1. Addresses(m, DOMAIN m) = Addresses(m, DOMAIN blocks) \cup A
      BY <1>1 DEF Addresses
    <3> QED BY <3>1, <1>2
  <2>2. IsFiniteSet(A)
    BY <1>1, OneBlock
  <2> HIDE DEF A
  <2>3. ASSUME Finite(blocks) PROVE Finite(m)
    <3>1. IsFiniteSet(DOMAIN m)
      BY <2>3, <1>1, FS_AddElement DEF Finite
    <3>2. IsFiniteSet(Addresses(blocks, DOMAIN blocks) \cup A)
      BY <2>2, <2>3, FS_Union DEF Finite
    <3> QED BY <2>1, <3>1, <3>2 DEF Finite
  <2>4. Finite(m) => Finite(blocks)
    <3>1. /\ DOMAIN blocks \in SUBSET DOMAIN m
          /\ Addresses(blocks, DOMAIN blocks) \in SUBSET Addresses(m, DOMAIN m)
      BY <2>1, <1>1
    <3> QED BY <3>1, FS_Subset DEF Finite
  <2> QED BY <2>3, <2>4
<1>4. BlocksOf(m, d, t) = IF here THEN all \cup {id} ELSE all
  BY <1>1 DEF BlocksOf
<1>5. all \in SUBSET DOMAIN blocks /\ fst \in SUBSET DOMAIN blocks /\ fst \subseteq all
  BY DEF BlocksOf, FirstOf
<1>6. FirstOf(m, d, t) = IF here THEN fst \cup {id} ELSE fst
  BY <1>1, <1>4, <1>5 DEF FirstOf
<1>7. AllocatedOf(m, d, t) = AllocatedOf(blocks, d, t)
  BY <1>1, <1>4, <1>5 DEF AllocatedOf
<1>8. ActiveOf(m, {}, d, t) = ActiveOf(blocks, {}, d, t)
  BY <1>1, <1>4, <1>5 DEF ActiveOf
<1>9. InactiveOf(m, {}, d, t) = InactiveOf(blocks, {}, d, t)
  BY <1>1, <1>4, <1>5 DEF InactiveOf
<1>10. /\ Cardinality(fst) \in Nat /\ Bytes(blocks, all) \in Nat
  BY <1>3, <1>5, FiniteSums
<1>11. /\ Bytes(m, AllocatedOf(m, d, t)) = Bytes(blocks, AllocatedOf(blocks, d, t))
       /\ Bytes(m, ActiveOf(m, {}, d, t)) = Bytes(blocks, ActiveOf(blocks, {}, d, t))
       /\ Bytes(m, InactiveOf(m, {}, d, t)) = Bytes(blocks, InactiveOf(blocks, {}, d, t))
  BY <1>2, <1>7, <1>8, <1>9, CountedBlocks
<1> HIDE DEF all, fst, here
<1>12. /\ Cardinality(fst \cup {id}) = Cardinality(fst) + 1
       /\ Bytes(m, all \cup {id}) = Bytes(blocks, all) + m[id].size
  <2>1. fst \in SUBSET DOMAIN m /\ all \in SUBSET DOMAIN m /\ id \notin all /\ id \notin fst
        /\ id \in DOMAIN m
    BY <1>1, <1>5
  <2>2. Bytes(m, all) = Bytes(blocks, all)
    BY <1>2, <1>5
  <2> QED BY <2>1, <2>2, <1>1, <1>3, SumAdd
<1>13. CASE here
  BY <1>3, <1>4, <1>6, <1>7, <1>8, <1>9, <1>10, <1>11, <1>12, <1>13 DEF all, fst, here
<1>14. CASE ~here
  BY <1>2, <1>3, <1>4, <1>5, <1>6, <1>7, <1>8, <1>9, <1>10, <1>11, <1>14 DEF all, fst, here
<1> QED BY <1>13, <1>14

\* malloc gets a segment from the SYCL runtime.
LEMMA AllocSegmentKeepsStats ==
  ASSUME TypeOK, Safe, StatsInv, AllocSegment
  PROVE  StatsInv'
<1> DEFINE size == AllocSize(OpSize)
           type == PoolTypeOf(OpSize)
           id   == CHOOSE i \in FreeIds : TRUE
           amount == [segment |-> 1, reserved_bytes |-> size]
<1>1. TypeOK' /\ Safe'
  BY AllocSegmentStep
<1>2. BlockMap(block') /\ Apart(block') /\ Linked(block') /\ device_stats \in Stats /\ op \in Op
  BY <1>1 DEF TypeOK, BlockMap, Safe
<1>3. /\ op.pc \in {"malloc", "retry"} /\ ~undefined /\ op.device \in Device
      /\ Inserting = {}
  BY DEF AllocSegment, At, Safe, InHand, Inserting
<1>4. type \in PoolType /\ size \in Nat
  BY <1>2, OpKeyType, OpSizeType, AllocSizeBound
<1>5. id \notin DOMAIN block
  <2>1. id \in FreeIds
    BY DEF AllocSegment
  <2> QED BY <2>1 DEF FreeIds
<1> HIDE DEF id, size, type
<1>6. PICK base \in SyclAddresses(size) :
        /\ block' = [x \in DOMAIN block \cup {id} |->
             IF x = id THEN NewBlock(op.device, op.queue, size, type, base) ELSE block[x]]
        /\ op' = [op EXCEPT !.pc = "split", !.block = id]
        /\ device_stats' = UpdateStats(device_stats, op.device, type, amount)
  BY DEF AllocSegment, id, size, type
<1>7. Inserting' = {}
  <2>1. op'.pc = "split"
    BY <1>2, <1>6 DEF Op
  <2> QED BY <2>1 DEF Inserting
<1>8. /\ OneMore(block, block', id) /\ block'[id].device = op.device
      /\ block'[id].pool_type = type /\ block'[id].size = size
  <2>1. block'[id] = NewBlock(op.device, op.queue, size, type, base)
    BY <1>6
  <2>2. DOMAIN block' = DOMAIN block \cup {id} /\ \A x \in DOMAIN block : block'[x] = block[x]
    BY <1>5, <1>6
  <2> QED BY <2>1, <2>2, <1>5 DEF OneMore, NewBlock
<1>9. Finite(block) /\ \A d \in Device, t \in PoolType :
                         RowFits(device_stats[d][t], block, {}, {}, d, t)
  BY <1>3 DEF StatsInv
<1>10. Finite(block')
  BY <1>2, <1>8, <1>9, OneMoreCounts
<1>11. ASSUME NEW d \in Device, NEW t \in PoolType
       PROVE  RowFits(device_stats'[d][t], block', {}, {}, d, t)
  <2> DEFINE row == device_stats[d][t]
             new == device_stats'[d][t]
  <2>1. \A s \in StatName :
          new[s] = IF d = op.device /\ t = type /\ s \in DOMAIN amount
                   THEN row[s] + amount[s] ELSE row[s]
    <3> HIDE DEF amount
    <3> QED BY <1>2, <1>3, <1>4, <1>6, Updated
  <2>2. /\ DOMAIN amount = {"segment", "reserved_bytes"}
        /\ amount["segment"] = 1 /\ amount["reserved_bytes"] = size
    OBVIOUS
  <2>3. RowFits(row, block, {}, {}, d, t)
    BY <1>9
  <2> HIDE DEF amount, row, new
  <2>4. /\ new["segment"] = IF d = op.device /\ t = type THEN row["segment"] + 1
                            ELSE row["segment"]
        /\ new["reserved_bytes"] = IF d = op.device /\ t = type
                                   THEN row["reserved_bytes"] + size ELSE row["reserved_bytes"]
        /\ new["inactive_split"] = row["inactive_split"]
        /\ new["inactive_split_bytes"] = row["inactive_split_bytes"]
        /\ new["allocation"] = row["allocation"]
        /\ new["allocated_bytes"] = row["allocated_bytes"]
        /\ new["active"] = row["active"] /\ new["active_bytes"] = row["active_bytes"]
    BY <2>1, <2>2 DEF StatName
  <2>5. RowFits(new, block', {}, {}, d, t)
    BY <2>3, <2>4, <1>2, <1>8, <1>9, OneMoreCounts DEF RowFits
  <2> QED BY <2>5 DEF new
<1> QED BY <1>7, <1>10, <1>11 DEF StatsInv

\* free_blocks gives one back.
LEMMA FreeSegmentKeepsStats ==
  ASSUME TypeOK, Safe, StatsInv, FreeSegment
  PROVE  StatsInv'
<1>1. /\ BlockMap(block) /\ Apart(block) /\ Linked(block) /\ device_stats \in Stats
      /\ PoolsFit(pool, block)
  BY SafeParts DEF TypeOK, BlockMap, Safe
<1>2. PICK b \in FreeableBlocks(FreeRange) :
        /\ device_stats' =
             UpdateStats(device_stats, block[b].device, block[b].pool_type,
                         [segment |-> -1, reserved_bytes |-> -block[b].size])
        /\ block' = [x \in DOMAIN block \ {b} |-> block[x]]
  BY DEF FreeSegment
<1> DEFINE amount == [segment |-> -1, reserved_bytes |-> -block[b].size]
<1>3. /\ op' = op /\ ~undefined /\ op.pc \in {"empty_free", "free_cached_blocks"}
      /\ Inserting = {} /\ Inserting' = {}
  BY DEF FreeSegment, At, Inserting
<1>4. b \in DOMAIN block /\ b \in FreeRange /\ block[b].prev = NULL /\ block[b].next = NULL
  BY DEF FreeableBlocks, IsSplit
<1>5. \E k \in PoolKey : b \in pool[k]
  <2>1. b \in UNION {pool[<<NULL, t>>] : t \in PoolType}
    BY <1>4 DEF FreeRange, CachedBlocksBound
  <2>2. PICK t \in PoolType : b \in pool[<<NULL, t>>]
    BY <2>1
  <2>3. <<NULL, t>> \in PoolKey
    BY DEF PoolKey, Owner
  <2> QED BY <2>2, <2>3
<1>6. ~block[b].allocated /\ block[b].event_cnt = 0
  BY <1>1, <1>4, <1>5 DEF PoolsFit
<1>7. /\ block[b].size \in Nat /\ block[b].device \in Device /\ block[b].pool_type \in PoolType
  BY <1>1, <1>4 DEF BlockMap, Block
<1>8. OneMore(block', block, b)
  BY <1>2, <1>4, <1>6 DEF OneMore
<1>9. Finite(block) /\ \A d \in Device, t \in PoolType :
                         RowFits(device_stats[d][t], block, {}, {}, d, t)
  BY <1>3 DEF StatsInv
<1>10. Finite(block')
  BY <1>1, <1>8, <1>9, OneMoreCounts
<1>11. ASSUME NEW d \in Device, NEW t \in PoolType
       PROVE  RowFits(device_stats'[d][t], block', {}, {}, d, t)
  <2> DEFINE row == device_stats[d][t]
             new == device_stats'[d][t]
             here == block[b].device = d /\ block[b].pool_type = t
  <2>1. \A s \in StatName :
          new[s] = IF here /\ s \in DOMAIN amount THEN row[s] + amount[s] ELSE row[s]
    <3> HIDE DEF amount
    <3> QED BY <1>1, <1>2, <1>7, Updated DEF amount
  <2>2. /\ DOMAIN amount = {"segment", "reserved_bytes"}
        /\ amount["segment"] = -1 /\ amount["reserved_bytes"] = -block[b].size
    OBVIOUS
  <2>3. RowFits(row, block, {}, {}, d, t)
    BY <1>9
  <2> HIDE DEF amount, row, new
  <2>4. /\ new["segment"] = IF here THEN row["segment"] + (-1) ELSE row["segment"]
        /\ new["reserved_bytes"] = IF here THEN row["reserved_bytes"] + (-block[b].size)
                                   ELSE row["reserved_bytes"]
        /\ new["inactive_split"] = row["inactive_split"]
        /\ new["inactive_split_bytes"] = row["inactive_split_bytes"]
        /\ new["allocation"] = row["allocation"]
        /\ new["allocated_bytes"] = row["allocated_bytes"]
        /\ new["active"] = row["active"] /\ new["active_bytes"] = row["active_bytes"]
    BY <2>1, <2>2 DEF StatName
  <2> DEFINE fst == Cardinality(FirstOf(block', d, t))
             res == Bytes(block', BlocksOf(block', d, t))
  <2>5. /\ fst \in Nat /\ res \in Nat
        /\ row["segment"] = IF here THEN fst + 1 ELSE fst
        /\ row["reserved_bytes"] = IF here THEN res + block[b].size ELSE res
        /\ row["inactive_split"] = Cardinality(InactiveOf(block', {}, d, t))
        /\ row["inactive_split_bytes"] = Bytes(block', InactiveOf(block', {}, d, t))
        /\ row["allocation"] = Cardinality(AllocatedOf(block', d, t))
        /\ row["allocated_bytes"] = Bytes(block', AllocatedOf(block', d, t))
        /\ row["active"] = Cardinality(ActiveOf(block', {}, d, t))
        /\ row["active_bytes"] = Bytes(block', ActiveOf(block', {}, d, t))
    BY <2>3, <1>1, <1>8, <1>9, OneMoreCounts DEF RowFits
  <2> HIDE DEF fst, res
  <2>6. new["segment"] = fst /\ new["reserved_bytes"] = res
    BY <2>4, <2>5, <1>7
  <2>7. RowFits(new, block', {}, {}, d, t)
    BY <2>4, <2>5, <2>6 DEF RowFits, fst, res
  <2> QED BY <2>7 DEF new
<1> QED BY <1>3, <1>10, <1>11 DEF StatsInv

\* recordQueue and free_cached_blocks change no field that is counted.
LEMMA BookkeepingKeepsStats ==
  ASSUME TypeOK, Safe, StatsInv,
         FreeCachedBlocks \/ \E a \in DOMAIN allocated_blocks, q \in Queue : RecordQueue(a, q)
  PROVE  StatsInv'
<1>1. BlockMap(block) /\ op \in Op
  BY DEF TypeOK, BlockMap
<1>2. /\ ~undefined /\ device_stats' = device_stats /\ Inserting = {} /\ Inserting' = {}
      /\ DOMAIN block' = DOMAIN block
      /\ \A x \in DOMAIN block :
           /\ SameRange(block'[x], block[x])
           /\ block'[x].prev = block[x].prev /\ block'[x].next = block[x].next
           /\ block'[x].allocated = block[x].allocated
           /\ block'[x].event_cnt = block[x].event_cnt
      /\ \E d \in Device : TRUE
  <2>1. CASE FreeCachedBlocks
    <3>1. /\ block' = [b \in DOMAIN block |->
               IF block[b].owner \in graph_pools_freeable
               THEN [block[b] EXCEPT !.owner = Destroyed] ELSE block[b]]
          /\ op' = [op EXCEPT !.pc = "retry"] /\ op.pc = "free_cached_blocks"
          /\ ~undefined /\ device_stats' = device_stats
      BY <2>1 DEF FreeCachedBlocks, At, Goto
    <3>2. op'.pc = "retry" /\ op.device \in Device
      BY <3>1, <1>1 DEF Op, Safe, InHand
    <3>3. \A x \in DOMAIN block :
            /\ SameRange(block'[x], block[x])
            /\ block'[x].prev = block[x].prev /\ block'[x].next = block[x].next
            /\ block'[x].allocated = block[x].allocated
            /\ block'[x].event_cnt = block[x].event_cnt
      <4> SUFFICES ASSUME NEW x \in DOMAIN block
          PROVE  /\ SameRange(block'[x], block[x])
                 /\ block'[x].prev = block[x].prev /\ block'[x].next = block[x].next
                 /\ block'[x].allocated = block[x].allocated
                 /\ block'[x].event_cnt = block[x].event_cnt
        OBVIOUS
      <4>1. block[x] \in Block
        BY <1>1 DEF BlockMap
      <4>2. block'[x] = [block[x] EXCEPT !.owner = Destroyed] \/ block'[x] = block[x]
        BY <3>1
      <4> QED BY <4>1, <4>2 DEF Block, SameRange
    <3> QED BY <3>1, <3>2, <3>3 DEF Inserting
  <2>2. CASE \E a \in DOMAIN allocated_blocks, q \in Queue : RecordQueue(a, q)
    <3>1. PICK a \in DOMAIN allocated_blocks, q \in Queue : RecordQueue(a, q)
      BY <2>2
    <3> DEFINE b == allocated_blocks[a]
    <3>2. /\ block' = [block EXCEPT ![b].queue_uses = @ \cup {q}]
          /\ op' = op /\ op.pc = "idle" /\ ~undefined /\ device_stats' = device_stats
      BY <3>1 DEF RecordQueue, At
    <3>3. b \in DOMAIN block /\ block[b] \in Block /\ block[b].device \in Device
      BY ReleasedFacts DEF Block
    <3>4. /\ DOMAIN block' = DOMAIN block
          /\ block'[b] = [block[b] EXCEPT !.queue_uses = block[b].queue_uses \cup {q}]
          /\ \A x \in DOMAIN block : x # b => block'[x] = block[x]
      BY <3>2, <3>3
    <3>5. /\ SameRange(block'[b], block[b])
          /\ block'[b].prev = block[b].prev /\ block'[b].next = block[b].next
          /\ block'[b].allocated = block[b].allocated
          /\ block'[b].event_cnt = block[b].event_cnt
      BY <3>3, <3>4 DEF Block, SameRange
    <3> HIDE DEF b
    <3> QED BY <3>2, <3>3, <3>4, <3>5 DEF Inserting, SameRange
  <2> QED BY <2>1, <2>2
<1>3. SameShape(block, block')
  BY <1>2 DEF SameShape, SameRange
<1>4. Finite(block)
  BY <1>2 DEF StatsInv
<1>5. ASSUME NEW d \in Device, NEW t \in PoolType
      PROVE  Finite(block') /\ RowFits(device_stats'[d][t], block', {}, {}, d, t)
  <2>1. RowFits(device_stats[d][t], block, {}, {}, d, t)
    BY <1>2 DEF StatsInv
  <2>2. \A x \in DOMAIN block :
          /\ block'[x].allocated <=> block[x].allocated
          /\ (block'[x].allocated \/ block'[x].event_cnt > 0 \/ x \in {}) <=>
               (block[x].allocated \/ block[x].event_cnt > 0 \/ x \in {})
    BY <1>2
  <2>3. Finite(block') /\ RowFits(device_stats[d][t], block', {}, {}, d, t)
    BY <2>1, <2>2, <1>3, <1>4, RowSameShape
  <2> QED BY <2>3, <1>2
<1>6. Finite(block')
  BY <1>2, <1>5 DEF PoolType
<1> QED BY <1>2, <1>5, <1>6 DEF StatsInv

\* A step that leaves the blocks and the counters alone.
LEMMA StatsUnchanged ==
  ASSUME StatsInv, UNCHANGED <<block, device_stats>>, Inserting' = Inserting,
         ~undefined' => ~undefined
  PROVE  StatsInv'
  BY DEF StatsInv

\* The other steps do.
LEMMA OtherStepsKeepStats ==
  ASSUME TypeOK, StatsInv,
         \/ \E c \in CallSite, n \in ASize : Malloc(c[1], c[2], c[3], n)
         \/ EmptyCache \/ ProcessEventsEnd \/ FindFreeBlock \/ FindNothing \/ AllocFails
         \/ SynchronizeEnd \/ OutOfMemory \/ EmptyCacheEnd \/ EventComplete
         \/ GraphCall \/ QueueStateChanges \/ Undefined \/ UNCHANGED vars
  PROVE  StatsInv'
<1>1. op \in Op
  BY DEF TypeOK
<1>2. /\ UNCHANGED <<block, device_stats>> /\ (~undefined' => ~undefined)
      /\ op' = op \/ (op.pc # "insert_events" /\ op'.pc # "insert_events")
  <2>1. CASE \E c \in CallSite, n \in ASize : Malloc(c[1], c[2], c[3], n)
    BY <2>1 DEF Malloc, At, Idle
  <2>2. CASE EmptyCache
    BY <2>2 DEF EmptyCache, At, Idle
  <2>3. CASE ProcessEventsEnd
    <3>1. CASE OverStatefulLimit
      <4>1. op'.pc = "idle"
        BY <2>3, <3>1 DEF ProcessEventsEnd, Return, Idle
      <4> QED BY <2>3, <4>1 DEF ProcessEventsEnd, At
    <3>2. CASE ~OverStatefulLimit
      <4>1. op'.pc = "find_free_block"
        BY <2>3, <3>2, <1>1 DEF ProcessEventsEnd, Op
      <4> QED BY <2>3, <4>1 DEF ProcessEventsEnd, At
    <3> QED BY <3>1, <3>2
  <2>4. CASE FindFreeBlock \/ FindNothing
    BY <2>4, <1>1 DEF FindFreeBlock, FindNothing, At, Goto, Op
  <2>5. CASE AllocFails
    BY <2>5, <1>1 DEF AllocFails, At, Goto, Op
  <2>6. CASE SynchronizeEnd
    BY <2>6, <1>1 DEF SynchronizeEnd, At, Goto, Op
  <2>7. CASE OutOfMemory \/ EmptyCacheEnd
    <3>1. op'.pc = "idle"
      BY <2>7 DEF OutOfMemory, EmptyCacheEnd, Return, Idle
    <3>2. op.pc # "insert_events" /\ ~undefined /\ UNCHANGED <<block, device_stats>>
      BY <2>7 DEF OutOfMemory, EmptyCacheEnd, At
    <3> QED BY <3>1, <3>2
  <2>8. CASE EventComplete \/ QueueStateChanges
    BY <2>8 DEF EventComplete, QueueStateChanges, FilterChanges
  <2>9. CASE GraphCall
    <3>1. CASE \E m \in Mempool : BeginAllocateToPool(m)
      BY <3>1 DEF BeginAllocateToPool
    <3>2. CASE \E m \in Mempool : EndAllocateToPool(m)
      BY <3>2 DEF EndAllocateToPool
    <3>3. CASE \E m \in Mempool : ReleasePool(m)
      BY <3>3 DEF ReleasePool, releasePool
    <3> QED BY <2>9, <3>1, <3>2, <3>3 DEF GraphCall
  <2>10. CASE Undefined \/ UNCHANGED vars
    BY <2>10 DEF Undefined, vars
  <2> QED BY <2>1, <2>2, <2>3, <2>4, <2>5, <2>6, <2>7, <2>8, <2>9, <2>10
<1>3. Inserting' = Inserting
  BY <1>2 DEF Inserting
<1> QED BY <1>2, <1>3, StatsUnchanged

\* The counters start at zero, and there is nothing to count.
LEMMA InitStats == Init => StatsInv
<1> SUFFICES ASSUME Init PROVE StatsInv
  OBVIOUS
<1>1. /\ DOMAIN block = {} /\ Inserting = {}
      /\ device_stats = [d \in Device |-> [t \in PoolType |-> [n \in StatName |-> 0]]]
  BY DEF Init, Inserting, Idle
<1>2. Addresses(block, {}) = {}
  BY DEF Addresses
<1>3. Finite(block)
  BY <1>1, <1>2, FS_EmptySet DEF Finite
<1>4. ASSUME NEW d \in Device, NEW t \in PoolType
      PROVE  RowFits(device_stats[d][t], block, {}, {}, d, t)
  <2>1. /\ BlocksOf(block, d, t) = {} /\ FirstOf(block, d, t) = {}
        /\ AllocatedOf(block, d, t) = {} /\ ActiveOf(block, {}, d, t) = {}
        /\ InactiveOf(block, {}, d, t) = {}
    BY <1>1, CountedBlocks
  <2>2. Cardinality({}) = 0 /\ Bytes(block, {}) = 0
    BY <1>2, FS_EmptySet DEF Bytes
  <2>3. \A n \in StatName : device_stats[d][t][n] = 0
    BY <1>1
  <2> QED BY <2>1, <2>2, <2>3 DEF RowFits, StatName
<1> QED BY <1>1, <1>3, <1>4 DEF StatsInv

\* Every step keeps the counters in step with the blocks.
LEMMA NextStats == IInv /\ StatsInv /\ [Next]_vars => StatsInv'
<1> SUFFICES ASSUME IInv, StatsInv, [Next]_vars PROVE StatsInv'
  OBVIOUS
<1>1. TypeOK /\ (~undefined => Safe)
  BY DEF IInv
<1>2. ASSUME Call \/ OpStep \/ EventComplete PROVE StatsInv'
  <2>0. ~undefined
    BY <1>2 DEF Call, OpStep, MallocStep, Malloc, Free, FreeUsed, RecordQueue, EmptyCache,
         ProcessEvent, ProcessEventsEnd, FindFreeBlock, FindNothing,
         AllocSegment, AllocFails, SynchronizeEvent, SynchronizeEnd, FreeSegment,
         FreeCachedBlocks, OutOfMemory, Split, InsertEvent, EmptyCacheEnd, EventComplete, At
  <2>1. Safe
    BY <1>1, <2>0
  <2>2. ASSUME NEW a \in DOMAIN allocated_blocks, Free(a) \/ FreeUsed(a) PROVE StatsInv'
    BY <2>0, <2>1, <2>2, <1>1, FreeKeepsStats
  <2>3. ASSUME ProcessEvent PROVE StatsInv'
    <3>1. dpcpp_events \in Seq(Event) /\ dpcpp_events # <<>>
      BY <2>3, <1>1 DEF ProcessEvent, TypeOK
    <3>2. 1 \in DOMAIN dpcpp_events
      BY <3>1
    <3>3. EventDone(dpcpp_events[1].block) /\ op' = op /\ op.pc # "insert_events"
      BY <2>3 DEF ProcessEvent, At
    <3> QED BY <3>2, <3>3, <1>1, <2>0, <2>1, EventDoneKeepsStats
  <2>4. ASSUME SynchronizeEvent PROVE StatsInv'
    <3>1. PICK i \in DOMAIN dpcpp_events : EventDone(dpcpp_events[i].block)
      BY <2>4 DEF SynchronizeEvent
    <3>2. op' = op /\ op.pc # "insert_events"
      BY <2>4 DEF SynchronizeEvent, At
    <3> QED BY <3>1, <3>2, <1>1, <2>0, <2>1, EventDoneKeepsStats
  <2>5. ASSUME InsertEvent \/ Split \/ AllocSegment \/ FreeSegment PROVE StatsInv'
    BY <2>5, <1>1, <2>1, InsertKeepsStats, SplitKeepsStats, AllocSegmentKeepsStats,
       FreeSegmentKeepsStats
  <2>6. ASSUME FreeCachedBlocks \/ \E a \in DOMAIN allocated_blocks, q \in Queue : RecordQueue(a, q)
        PROVE  StatsInv'
    BY <2>6, <1>1, <2>1, BookkeepingKeepsStats
  <2>7. ASSUME \/ \E c \in CallSite, n \in ASize : Malloc(c[1], c[2], c[3], n)
               \/ EmptyCache \/ ProcessEventsEnd \/ FindFreeBlock \/ FindNothing \/ AllocFails
               \/ SynchronizeEnd \/ OutOfMemory \/ EmptyCacheEnd \/ EventComplete
        PROVE  StatsInv'
    BY <2>7, <1>1, OtherStepsKeepStats
  <2> QED BY <1>2, <2>2, <2>3, <2>4, <2>5, <2>6, <2>7 DEF Call, OpStep, MallocStep
<1>3. ASSUME GraphCall \/ QueueStateChanges \/ Undefined \/ UNCHANGED vars PROVE StatsInv'
  BY <1>1, <1>3, OtherStepsKeepStats
<1> QED BY <1>2, <1>3 DEF Next, PlainNext

\* The counters are those of StatsMatch.
LEMMA StatsInvMatch == TypeOK /\ StatsInv => StatsMatch
<1> SUFFICES ASSUME TypeOK, StatsInv, ~undefined, NEW d \in Device, NEW t \in PoolType
    PROVE  device_stats[d][t] = StatsOf(block, Inserting, d, t)
  BY DEF StatsMatch
<1> DEFINE row == device_stats[d][t]
           all == BlocksOf(block, d, t)
<1>1. row \in [StatName -> Int]
  BY DEF TypeOK, Stats
<1>2. RowFits(row, block, Inserting, Inserting, d, t)
  BY DEF StatsInv
<1> HIDE DEF row
<1>3. row = [segment |-> row["segment"], reserved_bytes |-> row["reserved_bytes"],
             inactive_split |-> row["inactive_split"],
             inactive_split_bytes |-> row["inactive_split_bytes"],
             allocation |-> row["allocation"], allocated_bytes |-> row["allocated_bytes"],
             active |-> row["active"], active_bytes |-> row["active_bytes"]]
  BY <1>1 DEF StatName
<1>4. InactiveOf(block, Inserting, d, t) =
        {b \in all \ ActiveOf(block, Inserting, d, t) : IsSplit(block[b])}
  BY DEF InactiveOf, ActiveOf
<1>5. StatsOf(block, Inserting, d, t) =
        [segment |-> Cardinality(FirstOf(block, d, t)),
         reserved_bytes |-> Bytes(block, all),
         inactive_split |-> Cardinality(InactiveOf(block, Inserting, d, t)),
         inactive_split_bytes |-> Bytes(block, InactiveOf(block, Inserting, d, t)),
         allocation |-> Cardinality(AllocatedOf(block, d, t)),
         allocated_bytes |-> Bytes(block, AllocatedOf(block, d, t)),
         active |-> Cardinality(ActiveOf(block, Inserting, d, t)),
         active_bytes |-> Bytes(block, ActiveOf(block, Inserting, d, t))]
  BY <1>4 DEF StatsOf, FirstOf, AllocatedOf, ActiveOf
<1>6. row = StatsOf(block, Inserting, d, t)
  BY <1>2, <1>3, <1>5 DEF RowFits
<1> QED BY <1>6 DEF row

\* Whatever the program, the graphs it records and the order in which the
\* device completes its events, the counters of every device and pool type are
\* exactly those of the blocks, in every state.
THEOREM StatsExact == Spec => []StatsMatch
<1>1. IInv => TypeOK
  BY DEF IInv
<1> QED BY <1>1, AllocatorInvariant, InitStats, NextStats, StatsInvMatch, PTL DEF Spec

\* Nothing below zero is ever counted, which is what update_stat asserts after
\* each update.
NoNegativeCounter ==
  ~undefined =>
    \A d \in Device, t \in PoolType, n \in StatName : device_stats[d][t][n] \in Nat

\* The assertion of update_stat holds after every step.  (It does not follow
\* from the types: a counter that missed an increment would go below zero.)
THEOREM NoCounterNegative == Spec => []NoNegativeCounter
<1>1. StatsInv => NoNegativeCounter
  <2> SUFFICES ASSUME StatsInv, ~undefined, NEW d \in Device, NEW t \in PoolType,
                      NEW n \in StatName
      PROVE  device_stats[d][t][n] \in Nat
    BY DEF NoNegativeCounter
  <2>1. Finite(block) /\ RowFits(device_stats[d][t], block, Inserting, Inserting, d, t)
    BY DEF StatsInv
  <2>2. \A S \in SUBSET DOMAIN block : Cardinality(S) \in Nat /\ Bytes(block, S) \in Nat
    BY <2>1, FiniteSums
  <2>3. /\ BlocksOf(block, d, t) \subseteq DOMAIN block
        /\ FirstOf(block, d, t) \subseteq DOMAIN block
        /\ AllocatedOf(block, d, t) \subseteq DOMAIN block
        /\ ActiveOf(block, Inserting, d, t) \subseteq DOMAIN block
        /\ InactiveOf(block, Inserting, d, t) \subseteq DOMAIN block
    BY CountedBlocks
  <2> QED BY <2>1, <2>2, <2>3 DEF RowFits, StatName
<1>2. IInv => TypeOK
  BY DEF IInv
<1> QED BY <1>1, <1>2, AllocatorInvariant, InitStats, NextStats, PTL DEF Spec
=============================================================================
