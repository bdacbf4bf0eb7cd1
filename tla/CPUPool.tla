------------------------------- MODULE CPUPool -------------------------------
(***************************************************************************)
(* The cores a thread and its OpenMP team run on: csrc/cpu/runtime/        *)
(* CPUPool.cpp and the pin context of cpu/runtime/cpupool.py, for one      *)
(* thread, the caller of models.  The masks belong to the OpenMP library;  *)
(* the extension keeps a thread_local copy of the last list it pinned.     *)
(***************************************************************************)
EXTENDS Naturals, Sequences, FiniteSets, SequencesExt

CONSTANTS
  Available,    \* available_cpu_cores: the cores this process may use
  Unpinned      \* the list {-1}, which no pool has

ASSUME CoresAssumption == IsFiniteSet(Available) /\ Available # {} /\ Unpinned \notin Seq(Available)

VARIABLES
  affinity,                 \* the mask of each thread of the OpenMP team
  current_cpu_core_list,
  previous_cpu_pool,        \* what the pin contexts in force have saved
  left_pin                  \* history: a pin context was left after the last pinning

cpuVars == <<affinity, current_cpu_core_list, previous_cpu_pool, left_pin>>

CPUInit ==
  /\ affinity = [i \in 1 .. Cardinality(Available) |-> Available]
  /\ current_cpu_core_list = Unpinned
  /\ previous_cpu_pool = <<>>
  /\ left_pin = FALSE

\* The list of a pool: unavailable cores are left out, the order is kept.  A
\* pool without cores cannot be made.
filter_cores_by_thread_affinity(cpu_core_list) ==
  SelectSeq(cpu_core_list, LAMBDA c : c \in Available)

PinnedTo(cpu_core_list) == [i \in DOMAIN cpu_core_list |-> {cpu_core_list[i]}]

\* Mutant: the copy is not kept up to date.
_pin_cpu_cores_NotCached(cpu_core_list) ==
  /\ affinity' = PinnedTo(cpu_core_list)
  /\ current_cpu_core_list' =
       IF current_cpu_core_list = Unpinned THEN cpu_core_list ELSE current_cpu_core_list
  /\ left_pin' = FALSE

_pin_cpu_cores(cpu_core_list) ==
  /\ affinity' = PinnedTo(cpu_core_list)
  /\ current_cpu_core_list' = cpu_core_list
  /\ left_pin' = FALSE

is_same_core_affinity_setting(cpu_core_list) == current_cpu_core_list = cpu_core_list

\* pin.__enter__: get_cpu_pool_from_mask_affinity, then _pin_cpu_cores.
PinEnter(cpu_core_list) ==
  /\ previous_cpu_pool' = Append(previous_cpu_pool, affinity)
  /\ _pin_cpu_cores(cpu_core_list)

\* pin.__exit__: set_mask_affinity_from_cpu_pool, of the innermost context,
\* which leaves the copy as it is.
PinExit ==
  /\ previous_cpu_pool # <<>>
  /\ affinity' = Last(previous_cpu_pool)
  /\ previous_cpu_pool' = Front(previous_cpu_pool)
  /\ left_pin' = TRUE
  /\ UNCHANGED current_cpu_core_list
=============================================================================
