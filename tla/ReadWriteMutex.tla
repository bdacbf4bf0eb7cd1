--------------------------- MODULE ReadWriteMutex ---------------------------
(***************************************************************************)
(* The writer-preferring lock of csrc/cpu/utils/rw_lock.h.  Each function  *)
(* holds m_mutex from its first line to its last, except while it waits on *)
(* a condition variable, so a function is a step, or a step up to the wait *)
(* and one per wake-up.  A condition variable may wake a thread that was   *)
(* not notified; notify_one picks any waiter.                              *)
(***************************************************************************)
EXTENDS Naturals, FiniteSets

CONSTANT Thread

ASSUME ThreadAssumption == IsFiniteSet(Thread)

VARIABLES m_read_count, m_write_count, m_writing,
          at        \* where each thread is with respect to the lock

lockVars == <<m_read_count, m_write_count, m_writing, at>>

\* wait_*: blocked in m_cond_*.  woken_*: has left it and wants m_mutex back.
Place == {"out", "wait_read", "woken_read", "reading",
          "wait_write", "woken_write", "writing"}

LockInit ==
  /\ m_read_count = 0
  /\ m_write_count = 0
  /\ m_writing = FALSE
  /\ at = [t \in Thread |-> "out"]

In(places) == {t \in Thread : at[t] \in places}

CanRead == m_write_count = 0

\* Mutants: one of the two conditions is dropped.
CanWrite_IgnoresReaders == ~m_writing
CanWrite_IgnoresWriter == m_read_count = 0

CanWrite == m_read_count = 0 /\ ~m_writing

\* m_cond_read.wait(lock, pred): enter, or (go on to) wait.
TryRead(t) ==
  /\ at' = [at EXCEPT ![t] = IF CanRead THEN "reading" ELSE "wait_read"]
  /\ m_read_count' = IF CanRead THEN m_read_count + 1 ELSE m_read_count
  /\ UNCHANGED <<m_write_count, m_writing>>

lock_read(t) == at[t] = "out" /\ TryRead(t)

WakeRead(t) == at[t] = "woken_read" /\ TryRead(t)

\* The effect of notify_one on the threads that wait for m_cond_write, when
\* thread t leaves the lock.
NotifyOneWriter(t) ==
  \/ \E w \in In({"wait_write"}) :
       at' = [at EXCEPT ![t] = "out", ![w] = "woken_write"]
  \/ In({"wait_write"}) = {} /\ at' = [at EXCEPT ![t] = "out"]

\* Mutant: the last reader leaves without a word.
unlock_read_Silent(t) ==
  /\ at[t] = "reading"
  /\ m_read_count' = m_read_count - 1
  /\ at' = [at EXCEPT ![t] = "out"]
  /\ UNCHANGED <<m_write_count, m_writing>>

unlock_read(t) ==
  /\ at[t] = "reading"
  /\ m_read_count' = m_read_count - 1
  /\ IF m_read_count' = 0 /\ m_write_count > 0
     THEN NotifyOneWriter(t)
     ELSE at' = [at EXCEPT ![t] = "out"]
  /\ UNCHANGED <<m_write_count, m_writing>>

TryWrite(t) ==
  /\ at' = [at EXCEPT ![t] = IF CanWrite THEN "writing" ELSE "wait_write"]
  /\ m_writing' = (m_writing \/ CanWrite)
  /\ UNCHANGED m_read_count

\* The intent to write is counted before the wait, and once.
lock_write(t) ==
  /\ at[t] = "out"
  /\ m_write_count' = m_write_count + 1
  /\ TryWrite(t)

WakeWrite(t) ==
  /\ at[t] = "woken_write"
  /\ TryWrite(t)
  /\ UNCHANGED m_write_count

\* Mutant: only writers are notified.
unlock_write_WritersOnly(t) ==
  /\ at[t] = "writing"
  /\ m_write_count' = m_write_count - 1
  /\ NotifyOneWriter(t)
  /\ m_writing' = FALSE
  /\ UNCHANGED m_read_count

unlock_write(t) ==
  /\ at[t] = "writing"
  /\ m_write_count' = m_write_count - 1
  /\ IF m_write_count' = 0
     THEN at' = [x \in Thread |-> IF x = t THEN "out"
                                  ELSE IF at[x] = "wait_read" THEN "woken_read"
                                  ELSE at[x]]
     ELSE NotifyOneWriter(t)
  /\ m_writing' = FALSE
  /\ UNCHANGED m_read_count

\* A spurious wake-up of std::condition_variable::wait.
Spurious(t) ==
  /\ at[t] \in {"wait_read", "wait_write"}
  /\ at' = [at EXCEPT ![t] = IF @ = "wait_read" THEN "woken_read" ELSE "woken_write"]
  /\ UNCHANGED <<m_read_count, m_write_count, m_writing>>

Wake(t) == WakeRead(t) \/ WakeWrite(t)
Unlock(t) == unlock_read(t) \/ unlock_write(t)

LockNext ==
  \E t \in Thread :
    lock_read(t) \/ lock_write(t) \/ Wake(t) \/ Unlock(t) \/ Spurious(t)

LockSpec == LockInit /\ [][LockNext]_lockVars
-----------------------------------------------------------------------------
LockTypeOK ==
  /\ m_read_count \in Nat
  /\ m_write_count \in Nat
  /\ m_writing \in BOOLEAN
  /\ at \in [Thread -> Place]

\* A writer is alone in the lock: no second writer and no reader is inside
\* with it, although unlock_write clears m_writing after it has notified and
\* although woken threads race with threads that just arrive.
MutualExclusion ==
  \A t, u \in Thread :
    at[t] = "writing" /\ at[u] \in {"reading", "writing"} => t = u

\* The counters are the threads: m_write_count counts writers from the call
\* of lock_write to the end of unlock_write, waits and wake-ups included, so
\* that no reader overtakes a waiting writer and no count leaks.
CountersMatch ==
  /\ m_read_count = Cardinality(In({"reading"}))
  /\ m_write_count = Cardinality(In({"wait_write", "woken_write", "writing"}))
  /\ m_writing <=> In({"writing"}) # {}

\* No wake-up is lost: a thread blocked in a condition variable whose
\* condition holds has a successor under way.  A reader that may enter has
\* been notified, and when a writer may enter some writer has been.
NoLostWakeup ==
  /\ CanRead => In({"wait_read"}) = {}
  /\ CanWrite /\ In({"wait_write"}) # {} => In({"woken_write"}) # {}
=============================================================================
