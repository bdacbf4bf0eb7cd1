------------------------ MODULE ReadWriteMutexProofs ------------------------
(* MutualExclusion, CountersMatch and NoLostWakeup of ReadWriteMutex, for   *)
(* any finite number of threads.  Their conjunction with LockTypeOK is      *)
(* inductive: the counters say who is inside, which is what lock_read and   *)
(* lock_write test, and a wake-up is under way when nobody is.              *)
EXTENDS ReadWriteMutex, FiniteSetTheorems, TLAPS

IInv == LockTypeOK /\ CountersMatch /\ MutualExclusion /\ NoLostWakeup

Readers == In({"reading"})
Writers == In({"wait_write", "woken_write", "writing"})

\* A set of threads counts one more with a thread that joins it, one less
\* without a member, and nothing exactly when it is empty.
LEMMA Count ==
  ASSUME NEW P \in SUBSET Thread, NEW t \in Thread
  PROVE  /\ Cardinality(P) \in Nat
         /\ Cardinality(P) = 0 <=> P = {}
         /\ t \notin P => Cardinality(P \cup {t}) = Cardinality(P) + 1
         /\ t \in P => Cardinality(P \ {t}) = Cardinality(P) - 1
  <1>1. IsFiniteSet(P)  BY ThreadAssumption, FS_Subset
  <1> QED  BY <1>1, FS_CardinalityType, FS_EmptySet, FS_AddElement, FS_RemoveElement

\* The initial state of the lock satisfies the invariant.
LEMMA InitIInv == LockInit => IInv
  <1> SUFFICES ASSUME LockInit PROVE IInv  OBVIOUS
  <1>1. Readers = {} /\ Writers = {} /\ In({"writing"}) = {} /\ In({"wait_read"}) = {}
        /\ In({"wait_write"}) = {}
    BY DEF LockInit, Readers, Writers, In
  <1>2. Cardinality(Readers) = 0 /\ Cardinality(Writers) = 0  BY <1>1, FS_EmptySet
  <1>3. LockTypeOK  BY DEF LockInit, LockTypeOK, Place
  <1>4. CountersMatch  BY <1>1, <1>2 DEF LockInit, CountersMatch, Readers, Writers
  <1>5. MutualExclusion  BY DEF LockInit, MutualExclusion
  <1>6. NoLostWakeup  BY <1>1 DEF NoLostWakeup
  <1> QED  BY <1>3, <1>4, <1>5, <1>6 DEF IInv

\* What the counters say of the threads: m_write_count = 0 means that no
\* thread is writing or wants to, m_read_count = 0 that none is reading.
LEMMA Empties ==
  ASSUME LockTypeOK, CountersMatch
  PROVE  /\ m_write_count = 0 <=> Writers = {}
         /\ m_read_count = 0 <=> Readers = {}
  <1>1. Readers \subseteq Thread /\ Writers \subseteq Thread
    BY DEF Readers, Writers, In
  <1>2. IsFiniteSet(Readers) /\ IsFiniteSet(Writers)
    BY <1>1, ThreadAssumption, FS_Subset
  <1> QED  BY <1>2, FS_EmptySet DEF CountersMatch, Readers, Writers

\* lock_read, or a reader that wakes up.
LEMMA ReadStep ==
  ASSUME IInv, NEW t \in Thread, at[t] \in {"out", "woken_read"}, TryRead(t)
  PROVE  IInv'
  <1> USE DEF IInv
  <1>1. LockTypeOK'  BY DEF LockTypeOK, TryRead, Place, CanRead
  <1>2. Writers' = Writers /\ In({"writing"})' = In({"writing"})
        /\ In({"wait_write"})' = In({"wait_write"})
        /\ In({"woken_write"})' = In({"woken_write"})
    BY DEF TryRead, Writers, In, LockTypeOK
  <1>3. CASE CanRead
    <2>1. Readers' = Readers \cup {t} /\ t \notin Readers
      BY <1>3 DEF TryRead, Readers, In, LockTypeOK
    <2>2. Cardinality(Readers') = Cardinality(Readers) + 1
      BY <2>1, Count DEF Readers, In
    <2>3. CountersMatch'
      BY <1>2, <1>3, <2>2 DEF CountersMatch, TryRead, Readers, Writers
    <2>4. Writers = {}  BY <1>3, Empties DEF CanRead
    <2>5. MutualExclusion'
      BY <1>3, <2>4 DEF MutualExclusion, TryRead, Writers, In, LockTypeOK
    <2>6. In({"wait_read"})' = {}
      BY <1>3 DEF NoLostWakeup, TryRead, In, LockTypeOK
    <2>7. m_read_count' # 0  BY <1>3 DEF TryRead, LockTypeOK
    <2>8. NoLostWakeup'  BY <2>6, <2>7 DEF NoLostWakeup, CanWrite
    <2> QED  BY <1>1, <2>3, <2>5, <2>8
  <1>4. CASE ~CanRead
    <2>1. Readers' = Readers  BY <1>4 DEF TryRead, Readers, In, LockTypeOK
    <2>2. CountersMatch'
      BY <1>2, <1>4, <2>1 DEF CountersMatch, TryRead, Readers, Writers
    <2>3. MutualExclusion'  BY <1>4 DEF MutualExclusion, TryRead, LockTypeOK
    <2>4. NoLostWakeup'
      BY <1>2, <1>4 DEF NoLostWakeup, TryRead, CanRead, CanWrite
    <2> QED  BY <1>1, <2>2, <2>3, <2>4
  <1> QED  BY <1>3, <1>4

\* lock_write counted thread t, or t wakes up: count is m_write_count'.
LEMMA WriteStep ==
  ASSUME IInv, NEW t \in Thread, TryWrite(t),
         \/ at[t] = "out" /\ m_write_count' = m_write_count + 1
         \/ at[t] = "woken_write" /\ m_write_count' = m_write_count
  PROVE  IInv'
  <1> USE DEF IInv
  <1>1. LockTypeOK'  BY DEF LockTypeOK, TryWrite, Place, CanWrite
  <1>2. Readers' = Readers  BY DEF TryWrite, Readers, In, LockTypeOK
  <1>3. /\ at[t] = "out" => Writers' = Writers \cup {t} /\ t \notin Writers
        /\ at[t] = "woken_write" => Writers' = Writers
    BY DEF TryWrite, Writers, In, LockTypeOK
  <1>4. m_write_count' = Cardinality(Writers')
    BY <1>3, Count DEF CountersMatch, Writers, In
  <1>5. Writers' # {}  BY DEF TryWrite, Writers, In, LockTypeOK
  <1>6. m_write_count' # 0
    <2>1. IsFiniteSet(Writers')  BY ThreadAssumption, FS_Subset DEF Writers, In
    <2> QED  BY <1>4, <1>5, <2>1, FS_EmptySet
  <1>7. m_writing' <=> In({"writing"})' # {}
    BY DEF TryWrite, In, LockTypeOK, CountersMatch, CanWrite
  <1>8. CountersMatch'
    BY <1>2, <1>4, <1>7 DEF CountersMatch, TryWrite, Readers, Writers
  <1>9. CanWrite => Readers = {} /\ In({"writing"}) = {}
    BY Empties DEF CanWrite, CountersMatch
  <1>10. MutualExclusion'
    BY <1>9 DEF MutualExclusion, TryWrite, Readers, In, LockTypeOK
  <1>11. NoLostWakeup'
    BY <1>6, <1>8 DEF NoLostWakeup, TryWrite, CanRead, CanWrite, In, LockTypeOK
  <1> QED  BY <1>1, <1>8, <1>10, <1>11

\* A reader leaves.
LEMMA UnlockRead ==
  ASSUME IInv, NEW t \in Thread, unlock_read(t)
  PROVE  IInv'
  <1> USE DEF IInv
  <1>1. Readers' = Readers \ {t} /\ t \in Readers /\ Writers' = Writers
        /\ In({"writing"})' = In({"writing"})
    BY DEF unlock_read, NotifyOneWriter, Readers, Writers, In, LockTypeOK
  <1>2. m_read_count' = Cardinality(Readers') /\ m_read_count' \in Nat
    <2>1. Cardinality(Readers \ {t}) = Cardinality(Readers) - 1
          /\ Cardinality(Readers \ {t}) \in Nat
      BY <1>1, Count DEF Readers, In
    <2> QED  BY <1>1, <2>1 DEF unlock_read, CountersMatch, Readers
  <1>3. LockTypeOK'
    BY <1>2 DEF LockTypeOK, unlock_read, NotifyOneWriter, Place, In
  <1>4. CountersMatch'
    BY <1>1, <1>2 DEF CountersMatch, unlock_read, Readers, Writers
  <1>5. MutualExclusion'
    BY DEF MutualExclusion, unlock_read, NotifyOneWriter, In, LockTypeOK
  <1>6. In({"wait_read"})' = In({"wait_read"})
    BY DEF unlock_read, NotifyOneWriter, In, LockTypeOK
  <1>7. ASSUME CanWrite', In({"wait_write"})' # {}
        PROVE  In({"woken_write"})' # {}
    <2>1. m_read_count' = 0 /\ m_write_count > 0
      <3>1. Writers # {}  BY <1>1, <1>7 DEF Writers, In
      <3> QED  BY <1>7, <3>1, Empties DEF CanWrite, LockTypeOK
    <2>2. NotifyOneWriter(t)  BY <2>1 DEF unlock_read
    <2> QED  BY <1>7, <2>2 DEF NotifyOneWriter, In, LockTypeOK
  <1>8. NoLostWakeup'
    BY <1>6, <1>7 DEF NoLostWakeup, unlock_read, CanRead
  <1> QED  BY <1>3, <1>4, <1>5, <1>8

\* A writer leaves.
LEMMA UnlockWrite ==
  ASSUME IInv, NEW t \in Thread, unlock_write(t)
  PROVE  IInv'
  <1> USE DEF IInv
  <1>1. Writers' = Writers \ {t} /\ t \in Writers /\ Readers' = Readers
    BY DEF unlock_write, NotifyOneWriter, Readers, Writers, In, LockTypeOK
  <1>2. m_write_count' = Cardinality(Writers') /\ m_write_count' \in Nat
    <2>1. Cardinality(Writers \ {t}) = Cardinality(Writers) - 1
          /\ Cardinality(Writers \ {t}) \in Nat
      BY <1>1, Count DEF Writers, In
    <2> QED  BY <1>1, <2>1 DEF unlock_write, CountersMatch, Writers
  <1>3. LockTypeOK'
    BY <1>2 DEF LockTypeOK, unlock_write, NotifyOneWriter, Place, In
  <1>4. In({"writing"})' = {}
    BY DEF unlock_write, NotifyOneWriter, In, LockTypeOK, MutualExclusion
  <1>5. CountersMatch'
    BY <1>1, <1>2, <1>4 DEF CountersMatch, unlock_write, Readers, Writers
  <1>6. MutualExclusion'  BY <1>4 DEF MutualExclusion, In
  <1>7. CASE m_write_count' = 0
    <2>1. Writers' = {}
      <3>1. IsFiniteSet(Writers')  BY ThreadAssumption, FS_Subset DEF Writers, In
      <3> QED  BY <1>2, <1>7, <3>1, FS_EmptySet
    <2>2. In({"wait_write"})' = {}  BY <2>1 DEF Writers, In
    <2>3. In({"wait_read"})' = {}  BY <1>7 DEF unlock_write, In, LockTypeOK
    <2> QED  BY <1>3, <1>5, <1>6, <2>2, <2>3 DEF NoLostWakeup
  <1>8. CASE m_write_count' # 0
    <2>1. NotifyOneWriter(t)  BY <1>8 DEF unlock_write
    <2>2. In({"wait_write"})' # {} => In({"woken_write"})' # {}
      BY <2>1 DEF NotifyOneWriter, In, LockTypeOK
    <2>3. NoLostWakeup'  BY <1>8, <2>2 DEF NoLostWakeup, CanRead
    <2> QED  BY <1>3, <1>5, <1>6, <2>3
  <1> QED  BY <1>7, <1>8

\* A spurious wake-up.
LEMMA SpuriousStep ==
  ASSUME IInv, NEW t \in Thread, Spurious(t)
  PROVE  IInv'
  <1> USE DEF IInv
  <1>1. Readers' = Readers /\ Writers' = Writers
        /\ In({"writing"})' = In({"writing"})
        /\ In({"wait_read"})' \subseteq In({"wait_read"})
        /\ In({"wait_write"})' \subseteq In({"wait_write"})
        /\ In({"woken_write"}) \subseteq In({"woken_write"})'
    BY DEF Spurious, Readers, Writers, In, LockTypeOK
  <1>2. LockTypeOK'  BY DEF Spurious, LockTypeOK, Place
  <1>3. CountersMatch'
    BY <1>1 DEF Spurious, CountersMatch, Readers, Writers
  <1>4. MutualExclusion'  BY DEF Spurious, MutualExclusion, LockTypeOK
  <1>5. NoLostWakeup'
    BY <1>1 DEF Spurious, NoLostWakeup, CanRead, CanWrite
  <1> QED  BY <1>2, <1>3, <1>4, <1>5

\* The invariant holds in every reachable state of the lock.
THEOREM LockInvariant == LockSpec => []IInv
  <1>1. ASSUME IInv, [LockNext]_lockVars PROVE IInv'
    <2>1. CASE UNCHANGED lockVars
      BY <1>1, <2>1 DEF IInv, lockVars, LockTypeOK, CountersMatch, MutualExclusion,
                       NoLostWakeup, CanRead, CanWrite, In
    <2>2. ASSUME NEW t \in Thread, lock_read(t) \/ WakeRead(t) PROVE IInv'
      BY <1>1, <2>2, ReadStep DEF lock_read, WakeRead
    <2>3. ASSUME NEW t \in Thread, lock_write(t) \/ WakeWrite(t) PROVE IInv'
      BY <1>1, <2>3, WriteStep DEF lock_write, WakeWrite
    <2>4. ASSUME NEW t \in Thread, Unlock(t) PROVE IInv'
      BY <1>1, <2>4, UnlockRead, UnlockWrite DEF Unlock
    <2>5. ASSUME NEW t \in Thread, Spurious(t) PROVE IInv'
      BY <1>1, <2>5, SpuriousStep
    <2> QED  BY <1>1, <2>1, <2>2, <2>3, <2>4, <2>5 DEF LockNext, Wake
  <1> QED  BY <1>1, InitIInv, PTL DEF LockSpec

\* A writer is alone in the lock, for any number of threads.
THEOREM WritersAlone == LockSpec => []MutualExclusion
  <1>1. IInv => MutualExclusion  BY DEF IInv
  <1> QED  BY <1>1, LockInvariant, PTL

\* m_read_count, m_write_count and m_writing say exactly which threads are in
\* the lock or want to write.
THEOREM Counters == LockSpec => []CountersMatch
  <1>1. IInv => CountersMatch  BY DEF IInv
  <1> QED  BY <1>1, LockInvariant, PTL

\* No notification is missing: whoever could enter has been woken, or a writer
\* has been woken in its place.
THEOREM WakeupsKept == LockSpec => []NoLostWakeup
  <1>1. IInv => NoLostWakeup  BY DEF IInv
  <1> QED  BY <1>1, LockInvariant, PTL

\* Not everybody who is in the lock or wants it is blocked: somebody is inside
\* and will leave, or has been woken and will look again.
NobodyStuck ==
  In(Place \ {"out"}) # {} => In({"reading", "writing", "woken_read", "woken_write"}) # {}

\* The lock does not deadlock, also without the spurious wake-ups, whatever the
\* number of readers and writers.  A blocked reader has a writer to wait for, and
\* a blocked writer somebody inside or a writer that has been woken.
THEOREM LockNoDeadlock == LockSpec => []NobodyStuck
  <1>1. ASSUME IInv PROVE NobodyStuck
    <2> SUFFICES ASSUME In({"reading", "writing", "woken_read", "woken_write"}) = {}
                 PROVE  In(Place \ {"out"}) = {}
      BY DEF NobodyStuck
    <2>1. LockTypeOK /\ CountersMatch /\ NoLostWakeup
      BY <1>1 DEF IInv
    <2>2. In({"reading"}) = {} /\ In({"writing"}) = {} /\ In({"woken_write"}) = {}
      BY DEF In
    <2>3. CanWrite
      BY <2>1, <2>2, FS_EmptySet DEF CountersMatch, CanWrite
    <2>4. In({"wait_write"}) = {}
      BY <2>1, <2>2, <2>3 DEF NoLostWakeup
    <2>5. In({"wait_write", "woken_write", "writing"}) = {}
      BY <2>2, <2>4 DEF In
    <2>6. CanRead
      BY <2>1, <2>5, FS_EmptySet DEF CountersMatch, CanRead
    <2>7. In({"wait_read"}) = {}
      BY <2>1, <2>6 DEF NoLostWakeup
    <2> QED  BY <2>4, <2>7 DEF In, Place
  <1> QED  BY <1>1, LockInvariant, PTL
=============================================================================
