----------------------------- MODULE XompSync ------------------------------
(***************************************************************************)
(* Mutual exclusion of src/src/rose_xomp.c: the critical construct         *)
(* (XOMP_critical_start/end on the one global full/empty cell             *)
(* XOMP_critical), OpenMP simple locks (omp_init_lock, omp_set_lock,       *)
(* omp_unset_lock on a syncvar) and the atomic construct                   *)
(* (XOMP_atomic_start/end, a qthread_lock on xomp_status.atomic_lock).     *)
(*                                                                         *)
(* The full/empty semantics are the substrate's (spec section 6): readFE  *)
(* waits for full, reads and empties; writeF writes and fills; writeEF     *)
(* waits for empty, writes and fills; an address never written is full.   *)
(* Every name of a critical construct is passed as data, but the code     *)
(* uses it only as the value written: all names share the one cell, so    *)
(* the model keeps no names.                                               *)
(*                                                                         *)
(* Each worker runs the sequence Prog[w] of construct entries and exits:  *)
(* "cs"/"ce" critical start/end, "ls"/"lu" omp_set_lock/omp_unset_lock of *)
(* one lock, "as"/"ae" atomic start/end.                                   *)
(***************************************************************************)
EXTENDS Integers, Sequences

CONSTANTS
  Workers,
  Prog,     \* Prog[w]: the construct calls worker w makes, in order
  NULL

VARIABLES
  pc,           \* pc[w]: index in Prog[w] of the next call
  critCell,     \* full/empty state of XOMP_critical
  lockCell,     \* full/empty state of the omp_lock_t syncvar
  atomicOwner   \* holder of the qthread_lock on atomic_lock, or NULL

vars == <<pc, critCell, lockCell, atomicOwner>>

Op(w) == Prog[w][pc[w]]
Running(w) == pc[w] <= Len(Prog[w])

(* omp_init_lock (line 1236) ran before the region: the syncvar is empty. *)
Init ==
  /\ pc = [w \in Workers |-> 1]
  /\ critCell = "full"
  /\ lockCell = "empty"
  /\ atomicOwner = NULL

Step(w) == pc' = [pc EXCEPT ![w] = @ + 1]

(* Mutant of CriticalStart: the cell is read without being emptied.       *)
CriticalStartNoEmpty(w) ==
  /\ Running(w) /\ Op(w) = "cs"
  /\ critCell = "full"
  /\ Step(w)
  /\ UNCHANGED <<critCell, lockCell, atomicOwner>>

(* XOMP_critical_start, lines 1008-1025: qthread_readFE on XOMP_critical. *)
CriticalStart(w) ==
  /\ Running(w) /\ Op(w) = "cs"
  /\ critCell = "full"
  /\ critCell' = "empty"
  /\ Step(w)
  /\ UNCHANGED <<lockCell, atomicOwner>>

(* Mutant of CriticalEnd: the exit does not fill the cell.                *)
CriticalEndNoFill(w) ==
  /\ Running(w) /\ Op(w) = "ce"
  /\ Step(w)
  /\ UNCHANGED <<critCell, lockCell, atomicOwner>>

(* XOMP_critical_end, lines 1027-1043: qthread_writeF on XOMP_critical.   *)
CriticalEnd(w) ==
  /\ Running(w) /\ Op(w) = "ce"
  /\ critCell' = "full"
  /\ Step(w)
  /\ UNCHANGED <<lockCell, atomicOwner>>

(* Mutant of SetLock: a plain writeF, which does not wait for empty.      *)
SetLockNoWait(w) ==
  /\ Running(w) /\ Op(w) = "ls"
  /\ lockCell' = "full"
  /\ Step(w)
  /\ UNCHANGED <<critCell, atomicOwner>>

(* omp_set_lock, lines 1249-1253: qthread_syncvar_writeEF_const(pval, 1). *)
SetLock(w) ==
  /\ Running(w) /\ Op(w) = "ls"
  /\ lockCell = "empty"
  /\ lockCell' = "full"
  /\ Step(w)
  /\ UNCHANGED <<critCell, atomicOwner>>

(* omp_unset_lock, lines 1256-1260: qthread_syncvar_readFE(NULL, pval).   *)
UnsetLock(w) ==
  /\ Running(w) /\ Op(w) = "lu"
  /\ lockCell = "full"
  /\ lockCell' = "empty"
  /\ Step(w)
  /\ UNCHANGED <<critCell, atomicOwner>>

(* XOMP_atomic_start, lines 574-578: qthread_lock(atomic_lock).           *)
AtomicStart(w) ==
  /\ Running(w) /\ Op(w) = "as"
  /\ atomicOwner = NULL
  /\ atomicOwner' = w
  /\ Step(w)
  /\ UNCHANGED <<critCell, lockCell>>

(* XOMP_atomic_end, lines 580-584: qthread_unlock(atomic_lock).           *)
AtomicEnd(w) ==
  /\ Running(w) /\ Op(w) = "ae"
  /\ atomicOwner' = NULL
  /\ Step(w)
  /\ UNCHANGED <<critCell, lockCell>>

Next ==
  \E w \in Workers :
    \/ CriticalStart(w) \/ CriticalEnd(w)
    \/ SetLock(w) \/ UnsetLock(w)
    \/ AtomicStart(w) \/ AtomicEnd(w)

(* Workers are kernel threads and a full/empty or lock wait is woken when *)
(* its condition holds, so each worker is weakly fair.                     *)
Fairness ==
  \A w \in Workers :
    WF_vars(CriticalStart(w) \/ CriticalEnd(w) \/ SetLock(w) \/ UnsetLock(w)
            \/ AtomicStart(w) \/ AtomicEnd(w))

Spec == Init /\ [][Next]_vars /\ Fairness

-----------------------------------------------------------------------------
(* Worker w is between an entry s and its exit e of Prog[w].               *)
Inside(w, s, e) ==
  LET done == SubSeq(Prog[w], 1, pc[w] - 1)
  IN  Len(SelectSeq(done, LAMBDA o : o = s)) > Len(SelectSeq(done, LAMBDA o : o = e))

(* OpenMP critical, lock and atomic semantics: at no time are two workers *)
(* inside critical sections, holding the omp lock, or inside atomic        *)
(* regions at once.                                                        *)
MutualExclusion ==
  \A v, w \in Workers : v # w =>
     /\ ~(Inside(v, "cs", "ce") /\ Inside(w, "cs", "ce"))
     /\ ~(Inside(v, "ls", "lu") /\ Inside(w, "ls", "lu"))
     /\ ~(Inside(v, "as", "ae") /\ Inside(w, "as", "ae"))

(* Every worker gets through all of its constructs.                        *)
Termination == <>(\A w \in Workers : ~Running(w))

=============================================================================
