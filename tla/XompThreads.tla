---------------------------- MODULE XompThreads ----------------------------
(***************************************************************************)
(* Worker-count adjustment of src/src/rose_xomp.c: omp_set_num_threads in  *)
(* its QTHREAD_MULTITHREADED_SHEPHERDS build, and the inside-parallel flag *)
(* of XOMP_Status that it sets and omp_in_parallel reads.                  *)
(*                                                                         *)
(* The substrate is modelled from the spec (section 6): a pool of H        *)
(* hardware workers, each enabled or not and carrying a packed id;        *)
(* qthread_num_workers() is the number of enabled workers,                 *)
(* qthread_worker(NULL) the caller's packed id, qthread_enable_worker(i),  *)
(* qthread_disable_worker(i) and qthread_pack_workerid(i, v) act on the    *)
(* worker with hardware index i, and qtar_resize / qt_barrier_resize set   *)
(* the participant counts of the first-arrival race and of the barrier.   *)
(* Ids are qthread_shepherd_id_t, unsigned of IdBits bits.                 *)
(*                                                                         *)
(* One call of omp_set_num_threads is one step: it is made by one thread   *)
(* and the spec forbids it while a loop distributes work.  Serial code    *)
(* calls it on the master, worker 0; inside a region any worker of the    *)
(* region may.  A region (XOMP_parallel_start, qt_parallel_step) runs one *)
(* task per enabled worker.  Each calls XOMP_master, then XOMP_single,     *)
(* then passes one XOMP_barrier, whose qt_feb_barrier releases the arrived *)
(* workers when barrierSize of them have arrived, and the region ends when *)
(* all its tasks have returned.  qt_global_arrive_first, which XOMP_single *)
(* calls, is modelled from the spec (4.6) as a race of qtarSize arrivals:  *)
(* the first arrival of a round wins, and the qtarSize-th closes the round.*)
(* qtar_resize starts a new round.                                         *)
(***************************************************************************)
EXTENDS Integers, FiniteSets

CONSTANTS
  H,         \* hardware workers, indices 0..H-1
  IdBits,    \* width of qthread_shepherd_id_t
  Requests,  \* the omp_num_threads_requested values tried
  Callers    \* workers that may call it inside a region

HW == 0..H-1

(* Conversion to qthread_shepherd_id_t: the value modulo 2^IdBits.         *)
U(x) == x % (2 ^ IdBits)

VARIABLES
  enabled,      \* set of enabled hardware workers
  packed,       \* packed[i]: the packed worker id of worker i
  barrierSize,  \* participant count of the qt_feb_barrier
  qtarSize,     \* participant count of qt_global_arrive_first
  inside,       \* xomp_status.inside_xomp_parallel
  inRegion,     \* whether a parallel region is running
  hung,         \* a call is stuck in its disable loop
  wpc,          \* wpc[i]: "idle", "work", "bwait", "after" or "done"
  arrived,      \* workers waiting in the current barrier episode
  qtarCount,    \* arrivals so far in the current first-arrival round
  masters,      \* history: workers of the region XOMP_master answered 1
  winners       \* history: workers of the region XOMP_single answered 1

race == <<qtarCount, masters, winners>>
vars == <<enabled, packed, barrierSize, qtarSize, inside, inRegion, hung,
          wpc, arrived, race>>

(* XOMP_init / XOMP_Status_init: all H workers run with ids 0..H-1.        *)
Init ==
  /\ enabled = HW
  /\ packed = [i \in HW |-> i]
  /\ barrierSize = H
  /\ qtarSize = H
  /\ inside = FALSE
  /\ inRegion = FALSE
  /\ hung = FALSE
  /\ wpc = [i \in HW |-> "idle"]
  /\ arrived = {}
  /\ qtarCount = 0 /\ masters = {} /\ winners = {}

(* Line 1132: the requested count after the caller-adjustment of the       *)
(* shrink branch, as a qthread_shepherd_id_t.                               *)
Adjusted(na, wid, req) ==
  IF req < na /\ wid <= na /\ wid >= req THEN U(req - 1) ELSE req

(* Mutant of EnableSet: one worker too many is enabled.                    *)
EnableSetOffByOne(na, req) == na..req

(* Lines 1120-1128: for (i = num_active; i < r; i++) enable worker i.      *)
EnableSet(na, req) == na..(req - 1)

(* Mutant of DisableSet: the disable loop runs one index too far down.      *)
DisableSetOffByOne(na, wid, r) == {i \in (r - 1)..(na - 1) : i # wid}

(* Lines 1136-1145: for (i = num_active-1; i >= r; i--), skipping the      *)
(* index equal to the caller's id.                                         *)
DisableSet(na, wid, r) == {i \in r..(na - 1) : i # wid}

(* Lines 1153-1159: workers 0..r-1 get ids 0..r-1, then the worker whose   *)
(* index equals the caller's id, if it is >= r, gets id r.                 *)
RepackIds(pk, wid, r) ==
  [i \in HW |-> IF i < r THEN i ELSE IF i = wid /\ wid >= r THEN r ELSE pk[i]]

(* Mutant of QtarResize: the call is left out.                            *)
QtarResizeSkipped(r) == UNCHANGED <<qtarSize, qtarCount>>

(* Line 1151: qtar_resize(r) sizes the first-arrival race to r and starts *)
(* a new round.                                                             *)
QtarResize(r) == qtarSize' = r /\ qtarCount' = 0

(* omp_set_num_threads(req), lines 1101-1163, called by worker c.  Each    *)
(* worker the disable loop disables gets packed id (qthread_shepherd_id_t)  *)
(* -1.  The loop's index is unsigned: with r = 0 its condition i >= 0      *)
(* never fails, so after disabling every worker but the caller the call    *)
(* never returns.                                                           *)
SetNumThreads(c, req) ==
  LET na   == Cardinality(enabled)
      wid  == packed[c]
      r    == Adjusted(na, wid, req)
      gone == IF req < na THEN DisableSet(na, wid, r) ELSE {}
      pk   == [i \in HW |-> IF i \in gone THEN U(-1) ELSE packed[i]]
  IN
  /\ ~hung
  /\ c \in enabled
  /\ IF inRegion THEN c \in Callers /\ wpc[c] = "work" ELSE c = 0
  /\ inside' = TRUE
  /\ enabled' = IF req > na THEN enabled \cup EnableSet(na, req)
                ELSE enabled \ gone
  /\ IF req < na /\ r = 0
       THEN /\ hung' = TRUE
            /\ packed' = pk
            /\ UNCHANGED <<barrierSize, qtarSize, qtarCount>>
       ELSE /\ IF r # na
                 THEN /\ QtarResize(r)
                      /\ barrierSize' = r
                      /\ packed' = RepackIds(pk, wid, r)
                 ELSE /\ packed' = pk
                      /\ UNCHANGED <<qtarSize, qtarCount, barrierSize>>
            /\ hung' = FALSE
  /\ UNCHANGED <<inRegion, wpc, arrived, masters, winners>>

(* XOMP_parallel_start, lines 265-285: qt_parallel_step forks one task per *)
(* enabled worker (parallelWidth = qthread_num_workers()).  The inside     *)
(* flag is not touched.                                                    *)
ParallelStart ==
  /\ ~hung /\ ~inRegion
  /\ inRegion' = TRUE
  /\ wpc' = [i \in HW |-> IF i \in enabled THEN "work" ELSE "idle"]
  /\ masters' = {} /\ winners' = {}
  /\ UNCHANGED <<enabled, packed, barrierSize, qtarSize, inside, hung, arrived,
                 qtarCount>>

(* XOMP_master, lines 1051-1061: true iff the caller's id,                 *)
(* qthread_worker(NULL), is 0.                                             *)
Master(w) ==
  /\ wpc[w] = "work"
  /\ wpc' = [wpc EXCEPT ![w] = "master"]
  /\ masters' = IF packed[w] = 0 THEN masters \cup {w} ELSE masters
  /\ UNCHANGED <<enabled, packed, barrierSize, qtarSize, inside, inRegion, hung,
                 arrived, qtarCount, winners>>

(* XOMP_single, lines 1064-1078: true iff qt_global_arrive_first(myid)    *)
(* does, which it does for the first arrival of a round.                   *)
Single(w) ==
  /\ wpc[w] = "master"
  /\ wpc' = [wpc EXCEPT ![w] = "single"]
  /\ winners' = IF qtarCount = 0 THEN winners \cup {w} ELSE winners
  /\ qtarCount' = IF qtarCount + 1 >= qtarSize THEN 0 ELSE qtarCount + 1
  /\ UNCHANGED <<enabled, packed, barrierSize, qtarSize, inside, inRegion, hung,
                 arrived, masters>>

(* Mutant of BarrierEnter: the barrier releases one arrival early.         *)
BarrierEnterOffByOne(w) ==
  /\ wpc[w] = "single"
  /\ IF Cardinality(arrived \cup {w}) >= barrierSize - 1
       THEN /\ wpc' = [i \in HW |-> IF i \in arrived \cup {w} THEN "after" ELSE wpc[i]]
            /\ arrived' = {}
       ELSE /\ wpc' = [wpc EXCEPT ![w] = "bwait"]
            /\ arrived' = arrived \cup {w}
  /\ UNCHANGED <<enabled, packed, barrierSize, qtarSize, inside, inRegion, hung,
                 race>>

(* XOMP_barrier, lines 559-573, after its task-list walk: qt_feb_barrier   *)
(* enter; the arrival that makes barrierSize releases the episode.         *)
BarrierEnter(w) ==
  /\ wpc[w] = "single"
  /\ IF Cardinality(arrived \cup {w}) >= barrierSize
       THEN /\ wpc' = [i \in HW |-> IF i \in arrived \cup {w} THEN "after" ELSE wpc[i]]
            /\ arrived' = {}
       ELSE /\ wpc' = [wpc EXCEPT ![w] = "bwait"]
            /\ arrived' = arrived \cup {w}
  /\ UNCHANGED <<enabled, packed, barrierSize, qtarSize, inside, inRegion, hung,
                 race>>

(* The outlined region body returns after its barrier.                     *)
TaskReturn(w) ==
  /\ wpc[w] = "after"
  /\ wpc' = [wpc EXCEPT ![w] = "done"]
  /\ UNCHANGED <<enabled, packed, barrierSize, qtarSize, inside, inRegion, hung,
                 arrived, race>>

(* XOMP_parallel_end returns once every task of the region has returned.   *)
ParallelEnd ==
  /\ inRegion
  /\ \A i \in HW : wpc[i] \in {"idle", "done"}
  /\ inRegion' = FALSE
  /\ wpc' = [i \in HW |-> "idle"]
  /\ UNCHANGED <<enabled, packed, barrierSize, qtarSize, inside, hung, arrived,
                 race>>

Next ==
  \/ \E c \in HW, req \in Requests : SetNumThreads(c, req)
  \/ ParallelStart
  \/ \E w \in HW : Master(w) \/ Single(w) \/ BarrierEnter(w) \/ TaskReturn(w)
  \/ ParallelEnd

(* Workers are kernel threads: a region's tasks keep running.  Serial     *)
(* code is not obliged to start a region or to call omp_set_num_threads.  *)
Fairness ==
  /\ \A w \in HW : /\ WF_vars(Master(w)) /\ WF_vars(Single(w))
                   /\ WF_vars(BarrierEnter(w)) /\ WF_vars(TaskReturn(w))
  /\ WF_vars(ParallelEnd)

Spec == Init /\ [][Next]_vars /\ Fairness

-----------------------------------------------------------------------------
TypeOK ==
  /\ enabled \subseteq HW
  /\ packed \in [HW -> 0..(2 ^ IdBits - 1)]
  /\ barrierSize \in 0..(2 ^ IdBits - 1)
  /\ qtarSize \in 0..(2 ^ IdBits - 1)
  /\ inside \in BOOLEAN /\ inRegion \in BOOLEAN /\ hung \in BOOLEAN
  /\ wpc \in [HW -> {"idle", "work", "master", "single", "bwait", "after", "done"}]
  /\ arrived \subseteq HW
  /\ qtarCount \in Nat /\ masters \subseteq HW /\ winners \subseteq HW

(* Spec 4.6 and 5: no partial release.  While a worker of the region is   *)
(* past XOMP_barrier, no worker of the region is still before it.          *)
BarrierNoEarlyRelease ==
  (\E i \in HW : wpc[i] \in {"after", "done"}) =>
     \A i \in HW : wpc[i] \notin {"work", "master", "single"}

(* Every parallel region that starts ends: its barrier releases and        *)
(* XOMP_parallel_end returns.                                              *)
RegionEnds == inRegion ~> ~inRegion

(* The workers running the current region, and those of them past a call. *)
Team == {i \in HW : wpc[i] # "idle"}
Past(phases) == {i \in Team : wpc[i] \notin phases}

(* Spec 4.6 and 4.7: in every region, whatever omp_set_num_threads did     *)
(* before it, XOMP_master answers 1 to exactly one worker: the repacked    *)
(* ids of the enabled workers include 0 once.                              *)
MasterExactlyOnce ==
  /\ Cardinality(masters) <= 1
  /\ Team # {} /\ Past({"work"}) = Team => Cardinality(masters) = 1

(* Spec 4.6: in every region exactly one worker wins XOMP_single.  This    *)
(* needs qtar_resize to have sized the first-arrival race to the workers   *)
(* the region runs, or a round spans two regions: a round one short gives  *)
(* the next region no winner, one long gives a region two.                 *)
SingleExactlyOnce ==
  /\ Cardinality(winners) <= 1
  /\ Team # {} /\ Past({"work", "master"}) = Team => Cardinality(winners) = 1

(* Spec 4.7 and 7: a call of omp_set_num_threads returns.                  *)
SetNumThreadsReturns == ~hung

=============================================================================
