----------------------------- MODULE XompTasks -----------------------------
(***************************************************************************)
(* OpenMP tasks of src/src/rose_xomp.c.  XOMP_task calls getSyncTaskVar,  *)
(* which callocs a taskSyncvar_t (its retValue syncvar zeroed, i.e. full), *)
(* links it at the head of the task list under the task-list lock, and     *)
(* then qthread_fork_syncvar_copyargs, which empties the syncvar and       *)
(* spawns the task; the task fills the syncvar when it returns.            *)
(* walkSyncTaskList (XOMP_taskwait, XOMP_barrier, XOMP_parallel_end) takes *)
(* the lock and, holding it, pops each head entry, blocks in               *)
(* qthread_syncvar_readFF until it is full, and frees it.  The list and    *)
(* its lock are the process-wide ones of the spec (section 4.4): their     *)
(* accessors live in qthreads, outside src/.                               *)
(*                                                                         *)
(* Each worker forks NT[w] tasks, then calls XOMP_barrier and              *)
(* XOMP_parallel_end.  With Nested, every task body forks one child task  *)
(* before it returns.                                                      *)
(***************************************************************************)
EXTENDS Integers, Sequences, FiniteSets

CONSTANTS
  Workers,  \* the workers of the parallel region
  NT,       \* NT[w]: number of tasks worker w forks
  Nested,   \* whether each top-level task forks a child task
  NULL

ASSUME NT \in [Workers -> Nat] /\ Nested \in BOOLEAN

TopTasks   == UNION {{<<w, k>> : k \in 1..NT[w]} : w \in Workers}
ChildOf(t) == <<t[1], t[2], 1>>
Tasks      == TopTasks \cup (IF Nested THEN {ChildOf(t) : t \in TopTasks} ELSE {})
Actors     == Workers \cup Tasks

(* The task the actor a forks next: worker w's k-th, or a task's child.    *)
NextTask(a, k) == IF a \in Workers THEN <<a, k>> ELSE ChildOf(a)
(* How many tasks actor a forks.                                           *)
Forks(a) ==
  IF a \in Workers THEN NT[a] ELSE IF Nested /\ Len(a) = 2 THEN 1 ELSE 0

VARIABLES
  pc,        \* per actor: where it is
  nforked,   \* per actor: tasks forked so far
  taskList,  \* the task list, head first (openmpTaskRetVar chain)
  lockOwner, \* holder of the task-list lock, or NULL
  cell,      \* per task: its retValue syncvar, "full" or "empty"
  entry,     \* per task: its taskSyncvar_t: "none", "linked" or "freed"
  tstate,    \* per task: "unborn", "run" or "done"
  arrived    \* workers that have entered the barrier of XOMP_barrier

vars == <<pc, nforked, taskList, lockOwner, cell, entry, tstate, arrived>>

Init ==
  /\ pc = [a \in Actors |-> IF a \in Workers THEN "fork" ELSE "unborn"]
  /\ nforked = [a \in Actors |-> 0]
  /\ taskList = <<>>
  /\ lockOwner = NULL
  /\ cell = [t \in Tasks |-> "full"]
  /\ entry = [t \in Tasks |-> "none"]
  /\ tstate = [t \in Tasks |-> "unborn"]
  /\ arrived = {}

Goto(a, p) == pc' = [pc EXCEPT ![a] = p]

-----------------------------------------------------------------------------
(* Mutant of ForkOrMoveOn: one fork too many.                             *)
ForkOrMoveOnOffByOne(a) ==
  /\ pc[a] = "fork"
  /\ IF nforked[a] <= Forks(a)
       THEN Goto(a, "tlock")
       ELSE Goto(a, IF a \in Workers THEN "bwalk" ELSE "finish")
  /\ UNCHANGED <<nforked, taskList, lockOwner, cell, entry, tstate, arrived>>

(* Mutant of ForkOrMoveOn: XOMP_barrier enters the barrier without first  *)
(* draining the task list.                                                 *)
ForkOrMoveOnNoDrain(a) ==
  /\ pc[a] = "fork"
  /\ IF nforked[a] < Forks(a)
       THEN Goto(a, "tlock")
       ELSE Goto(a, IF a \in Workers THEN "barrier" ELSE "finish")
  /\ UNCHANGED <<nforked, taskList, lockOwner, cell, entry, tstate, arrived>>

(* XOMP_task: the next fork, or, with every task forked, the worker calls  *)
(* XOMP_barrier and a task body returns.                                   *)
ForkOrMoveOn(a) ==
  /\ pc[a] = "fork"
  /\ IF nforked[a] < Forks(a)
       THEN Goto(a, "tlock")
       ELSE Goto(a, IF a \in Workers THEN "bwalk" ELSE "finish")
  /\ UNCHANGED <<nforked, taskList, lockOwner, cell, entry, tstate, arrived>>

(* getSyncTaskVar, lines 629-630: calloc the entry, qthread_getTaskListLock.*)
TaskLock(a) ==
  /\ pc[a] = "tlock"
  /\ lockOwner = NULL
  /\ lockOwner' = a
  /\ Goto(a, "tlink")
  /\ UNCHANGED <<nforked, taskList, cell, entry, tstate, arrived>>

(* getSyncTaskVar, lines 632-634: next_task = head, head = entry, release. *)
(* The entry's syncvar is still the full one calloc returned.              *)
TaskLink(a) ==
  LET t == NextTask(a, nforked[a] + 1) IN
  /\ pc[a] = "tlink"
  /\ taskList' = <<t>> \o taskList
  /\ entry' = [entry EXCEPT ![t] = "linked"]
  /\ lockOwner' = NULL
  /\ Goto(a, "tspawn")
  /\ UNCHANGED <<nforked, cell, tstate, arrived>>

(* XOMP_task, line 699: qthread_fork_syncvar_copyargs empties the syncvar *)
(* (wherever it now points) and makes the task runnable.                   *)
TaskSpawn(a) ==
  LET t == NextTask(a, nforked[a] + 1) IN
  /\ pc[a] = "tspawn"
  /\ cell' = [cell EXCEPT ![t] = "empty"]
  /\ tstate' = [tstate EXCEPT ![t] = "run"]
  /\ pc' = [pc EXCEPT ![a] = "fork", ![t] = "fork"]
  /\ nforked' = [nforked EXCEPT ![a] = @ + 1]
  /\ UNCHANGED <<taskList, lockOwner, entry, arrived>>

(* Mutant of TaskFinish: the task returns without filling its syncvar.   *)
TaskFinishNoFill(t) ==
  /\ pc[t] = "finish"
  /\ tstate' = [tstate EXCEPT ![t] = "done"]
  /\ Goto(t, "done")
  /\ UNCHANGED <<nforked, taskList, lockOwner, entry, arrived, cell>>

(* The task returns: qthreads writes its return value into the syncvar,   *)
(* filling it.                                                             *)
TaskFinish(t) ==
  /\ pc[t] = "finish"
  /\ cell' = [cell EXCEPT ![t] = "full"]
  /\ tstate' = [tstate EXCEPT ![t] = "done"]
  /\ Goto(t, "done")
  /\ UNCHANGED <<nforked, taskList, lockOwner, entry, arrived>>

-----------------------------------------------------------------------------
(* walkSyncTaskList, line 643: qthread_getTaskListLock.  "bwalk" is the   *)
(* walk of XOMP_barrier, "ewalk" that of XOMP_parallel_end's taskwait.     *)
WalkLock(w) ==
  /\ pc[w] \in {"bwalk", "ewalk"}
  /\ lockOwner = NULL
  /\ lockOwner' = w
  /\ Goto(w, IF pc[w] = "bwalk" THEN "bpop" ELSE "epop")
  /\ UNCHANGED <<nforked, taskList, cell, entry, tstate, arrived>>

(* walkSyncTaskList, lines 645-677: with the lock held, block in readFF    *)
(* until the head entry's syncvar is full, unlink it and free it; release  *)
(* the lock once the list is empty.                                        *)
WalkPop(w) ==
  /\ pc[w] \in {"bpop", "epop"}
  /\ IF taskList = <<>>
       THEN /\ lockOwner' = NULL
            /\ Goto(w, IF pc[w] = "bpop" THEN "barrier" ELSE "done")
            /\ UNCHANGED <<taskList, entry>>
       ELSE /\ cell[Head(taskList)] = "full"
            /\ entry' = [entry EXCEPT ![Head(taskList)] = "freed"]
            /\ taskList' = Tail(taskList)
            /\ UNCHANGED <<pc, lockOwner>>
  /\ UNCHANGED <<nforked, cell, tstate, arrived>>

(* XOMP_barrier, line 571: qt_feb_barrier_enter, released when every      *)
(* worker of the region has arrived; then XOMP_parallel_end's taskwait.   *)
BarrierEnter(w) ==
  /\ pc[w] = "barrier"
  /\ arrived' = arrived \cup {w}
  /\ Goto(w, "bwait")
  /\ UNCHANGED <<nforked, taskList, lockOwner, cell, entry, tstate>>

BarrierLeave(w) ==
  /\ pc[w] = "bwait"
  /\ arrived = Workers
  /\ Goto(w, "ewalk")
  /\ UNCHANGED <<nforked, taskList, lockOwner, cell, entry, tstate, arrived>>

Next ==
  \/ \E a \in Actors : ForkOrMoveOn(a) \/ TaskLock(a) \/ TaskLink(a) \/ TaskSpawn(a)
  \/ \E t \in Tasks : TaskFinish(t)
  \/ \E w \in Workers :
       WalkLock(w) \/ WalkPop(w) \/ BarrierEnter(w) \/ BarrierLeave(w)

(* Workers are kernel threads and runnable tasks are eventually run by    *)
(* some worker; a qthreads lock or syncvar wait blocks only while its     *)
(* condition is false, so weak fairness of every step suffices.           *)
Fairness == \A a \in Actors : WF_vars(ForkOrMoveOn(a) \/ TaskLock(a) \/ TaskLink(a)
                                  \/ TaskSpawn(a) \/ (a \in Tasks /\ TaskFinish(a))
                                  \/ (a \in Workers /\ (WalkLock(a) \/ WalkPop(a)
                                        \/ BarrierEnter(a) \/ BarrierLeave(a))))

Spec == Init /\ [][Next]_vars /\ Fairness

-----------------------------------------------------------------------------
TypeOK ==
  /\ pc \in [Actors -> {"fork", "tlock", "tlink", "tspawn", "finish", "unborn",
                        "bwalk", "bpop", "barrier", "bwait", "ewalk", "epop",
                        "done"}]
  /\ nforked \in [Actors -> Nat] /\ \A a \in Actors : nforked[a] <= Forks(a)
  /\ taskList \in Seq(Tasks)
  /\ lockOwner \in Actors \cup {NULL}
  /\ cell \in [Tasks -> {"full", "empty"}]
  /\ entry \in [Tasks -> {"none", "linked", "freed"}]
  /\ tstate \in [Tasks -> {"unborn", "run", "done"}]
  /\ arrived \subseteq Workers

(* OpenMP barrier semantics (spec section 4.6: XOMP_barrier drains the    *)
(* task list, then enters the barrier): once a worker is released from    *)
(* the barrier, every task forked in the region so far has completed.    *)
BarrierAfterTasks ==
  (\E w \in Workers : pc[w] \in {"ewalk", "epop", "done"}) =>
     \A t \in Tasks : tstate[t] # "unborn" => tstate[t] = "done"

(* Every worker gets through XOMP_barrier and XOMP_parallel_end.           *)
Termination == <>(\A w \in Workers : pc[w] = "done")

=============================================================================
