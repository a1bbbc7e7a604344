------------------------------ MODULE XompLoop ------------------------------
(***************************************************************************)
(* The work-sharing loops of src/src/rose_xomp.c inside one parallel      *)
(* region: every worker of the region runs the same sequence of loops      *)
(* Loops.  For each loop a worker calls XOMP_loop_<kind>_init (the         *)
(* compare-and-swap race on pr->forLoop that elects the creator of the     *)
(* shared descriptor, the spin on the -1 sentinel and the attach),         *)
(* then XOMP_loop_<kind>_start / _next until it returns FALSE (static      *)
(* blocks from a per-worker counter, or an atomic fetch-and-add on         *)
(* assignNext), with XOMP_ordered_start / _end around each iteration of    *)
(* an ordered loop, then XOMP_loop_end: barrier, departed counter, the     *)
(* last departer parks the descriptor in the one-slot cache and clears     *)
(* pr->forLoop, barrier.  The descriptor allocator                         *)
(* qt_loop_rose_queue_create / _free is part of the create and depart      *)
(* steps.  The task list drained by XOMP_barrier is empty here (it is      *)
(* modelled in XompTasks).                                                 *)
(***************************************************************************)
EXTENDS Integers, Sequences, FiniteSets, FiniteSetsExt, XompSched

CONSTANTS
  NW,           \* qthread_num_workers(): parallelWidth and work_array size
  Start,        \* lower bound passed to XOMP_loop_*_init
  Stop,         \* upper bound (inclusive: assignStop, "iterationNumber > assignStop")
  Step,         \* stride
  Loops,        \* the loops of the region: a sequence of [kind, ordered]
  OmpSchedule,  \* getenv("OMP_SCHEDULE") at XOMP_init, or "unset"
  NULL,         \* a NULL pointer
  BUSY          \* the (void*)-1 sentinel CAS'ed into pr->forLoop

ASSUME NW \in Nat \ {0} /\ Step \in Nat \ {0} /\ Start <= Stop
(* Any other value of OMP_SCHEDULE makes XOMP_init abort before a region. *)
ASSUME OmpSchedule \in {"unset", "GUIDED_SCHED", "STATIC_SCHED", "DYNAMIC_SCHED"}
ASSUME \A l \in DOMAIN Loops :
         Loops[l].kind \in {"static", "dynamic", "guided", "runtime"}

Workers   == 0..NW-1
NLoops    == Len(Loops)
LoopIds   == 1..NLoops
DescIds   == 1..NLoops            \* one allocation per loop instance at most
Iters     == Start..Stop          \* every integer a chunk can name
IterSpace == {i \in Iters : (i - Start) % Step = 0}

(* xomp_status.runtime_sched_option: GUIDED from XOMP_Status_init (line   *)
(* 98), replaced by XOMP_init (lines 223-231) when OMP_SCHEDULE names a    *)
(* schedule.                                                                *)
RuntimeSched ==
  CASE OmpSchedule = "unset"         -> "GUIDED"
    [] OmpSchedule = "GUIDED_SCHED"  -> "GUIDED"
    [] OmpSchedule = "STATIC_SCHED"  -> "STATIC"
    [] OmpSchedule = "DYNAMIC_SCHED" -> "DYNAMIC"

(* The schedule tag xomp_internal_loop_init stores: XOMP_loop_runtime_init *)
(* resolves RUNTIME to runtime_sched_option.                               *)
TypeOf(l) ==
  CASE Loops[l].kind = "static"  -> "STATIC"
    [] Loops[l].kind = "dynamic" -> "DYNAMIC"
    [] Loops[l].kind = "guided"  -> "GUIDED"
    [] Loops[l].kind = "runtime" -> RuntimeSched

VARIABLES
  pc,               \* per worker: where it is in the region's code
  li,               \* per worker: index of the loop it is in
  myLoop,           \* per worker: the void *loop handle set by loop_init
  block,            \* per worker: dynamicBlock between compute and fetch
  chunk,            \* per worker: [lo, hi] still to run of an ordered chunk
  forLoop,          \* pr->forLoop: NULL, BUSY or a descriptor
  desc,             \* the descriptors (qqloop_step_handle_t) by identity
  mallocSaveLoop,   \* the one-slot cache of a drained descriptor
  mallocSaveLoopSize, \* its recorded size; no statement ever assigns it
  testLoop,         \* the last created descriptor, read by XOMP_ordered_start
  orderedLoopCount, \* the global turn counter of the ordered protocol
  arrived, gen, myGen, \* the region's barrier (qt_feb_barrier_enter)
  exec,             \* history: how often each iteration of each loop ran
  ordLog            \* history: ordered iterations in release order

vars == <<pc, li, myLoop, block, chunk, forLoop, desc, mallocSaveLoop,
          mallocSaveLoopSize, testLoop, orderedLoopCount, arrived, gen,
          myGen, exec, ordLog>>

Phases == {"init", "create", "check", "start", "next", "fetch0", "fetch",
           "ordwait", "ordend", "bar1", "bar1w", "depart", "bar2", "bar2w",
           "done", "fault"}

Unalloc == [state |-> "unalloc", loop |-> 0, type |-> "GUIDED", chunkSize |-> 1,
            workers |-> 0, departed |-> 0, next |-> Start,
            work |-> [w \in Workers |-> 0], ord |-> [w \in Workers |-> 0]]

(* qt_loop_rose_queue_create and the creator's initialisation in          *)
(* xomp_internal_loop_init: counters zero, assignNext = start, work_array *)
(* zeroed, chunkSize = 1 whatever chunk_size was passed.                   *)
NewDesc(l) == [Unalloc EXCEPT !.state = "live", !.loop = l, !.type = TypeOf(l)]

Init ==
  /\ pc = [w \in Workers |-> "init"]
  /\ li = [w \in Workers |-> 1]
  /\ myLoop = [w \in Workers |-> NULL]
  /\ block = [w \in Workers |-> 1]
  /\ chunk = [w \in Workers |-> [lo |-> Start, hi |-> Start]]
  /\ forLoop = NULL
  /\ desc = [d \in DescIds |-> Unalloc]
  /\ mallocSaveLoop = NULL
  /\ mallocSaveLoopSize = 0
  /\ testLoop = NULL
  /\ orderedLoopCount = 0
  /\ arrived = {} /\ gen = 0 /\ myGen = [w \in Workers |-> 0]
  /\ exec = [l \in LoopIds |-> [i \in Iters |-> 0]]
  /\ ordLog = [l \in LoopIds |-> <<>>]

Goto(w, p) == pc' = [pc EXCEPT ![w] = p]

(* The body of a non-ordered chunk runs: count its iterations.             *)
RunChunk(w, lo, hi) ==
  exec' = [exec EXCEPT ![li[w]] =
             [i \in Iters |-> IF i \in ChunkIters(lo, hi, Step)
                              THEN Min({@[i] + 1, 2}) ELSE @[i]]]

-----------------------------------------------------------------------------
(* xomp_internal_loop_init, lines 381-398: qthread_cas(&pr->forLoop, NULL, *)
(* -1); the winner goes on to create the descriptor.                      *)
InitCas(w) ==
  /\ pc[w] = "init"
  /\ IF forLoop = NULL
       THEN forLoop' = BUSY /\ Goto(w, "create")
       ELSE UNCHANGED forLoop /\ Goto(w, "check")
  /\ UNCHANGED <<li, myLoop, block, chunk, desc, mallocSaveLoop,
                 mallocSaveLoopSize, testLoop, orderedLoopCount, arrived,
                 gen, myGen, exec, ordLog>>

(* The creator: qt_loop_rose_queue_create reuses mallocSaveLoop when       *)
(* mallocSaveLoopSize equals the worker count, otherwise frees it and      *)
(* mallocs a fresh descriptor; it sets testLoop; the creator then fills    *)
(* chunkSize and type and publishes the pointer in pr->forLoop.           *)
Reuse == mallocSaveLoopSize = NW
Fresh == Min({d \in DescIds : desc[d].state = "unalloc"})

(* Mutant of Create: the cached descriptor is dropped without being freed. *)
CreateNoFree(w) ==
  /\ pc[w] = "create"
  /\ Reuse => mallocSaveLoop # NULL
  /\ ~Reuse => \E d \in DescIds : desc[d].state = "unalloc"
  /\ LET d == IF Reuse THEN mallocSaveLoop ELSE Fresh
     IN /\ desc' = [desc EXCEPT ![d] = NewDesc(li[w])]
        /\ mallocSaveLoop' = IF Reuse THEN mallocSaveLoop ELSE NULL
        /\ testLoop' = d
        /\ forLoop' = d
  /\ Goto(w, "check")
  /\ UNCHANGED <<li, myLoop, block, chunk, mallocSaveLoopSize,
                 orderedLoopCount, arrived, gen, myGen, exec, ordLog>>

Create(w) ==
  /\ pc[w] = "create"
  /\ Reuse => mallocSaveLoop # NULL
  /\ ~Reuse => \E d \in DescIds : desc[d].state = "unalloc"
  /\ LET d == IF Reuse THEN mallocSaveLoop ELSE Fresh
         freed == IF ~Reuse /\ mallocSaveLoop # NULL
                    THEN [desc EXCEPT ![mallocSaveLoop].state = "freed"]
                    ELSE desc
     IN /\ desc' = [freed EXCEPT ![d] = NewDesc(li[w])]
        /\ mallocSaveLoop' = IF Reuse THEN mallocSaveLoop ELSE NULL
        /\ testLoop' = d
        /\ forLoop' = d
  /\ Goto(w, "check")
  /\ UNCHANGED <<li, myLoop, block, chunk, mallocSaveLoopSize,
                 orderedLoopCount, arrived, gen, myGen, exec, ordLog>>

(* xomp_internal_loop_init, lines 401-416: spin while pr->forLoop is the   *)
(* sentinel, then attach (qthread_incr(&t->workers,1)) unless the          *)
(* descriptor is NULL or already has departed workers.                     *)
Attach(w) ==
  /\ pc[w] = "check"
  /\ forLoop # BUSY
  /\ LET t == forLoop IN
       IF t # NULL /\ desc[t].departed = 0
         THEN /\ desc' = [desc EXCEPT ![t].workers = @ + 1]
              /\ myLoop' = [myLoop EXCEPT ![w] = t]
         ELSE /\ UNCHANGED desc
              /\ myLoop' = [myLoop EXCEPT ![w] = NULL]
  /\ Goto(w, "start")
  /\ UNCHANGED <<li, block, chunk, forLoop, mallocSaveLoop, mallocSaveLoopSize,
                 testLoop, orderedLoopCount, arrived, gen, myGen, exec,
                 ordLog>>

-----------------------------------------------------------------------------
IsOrdered(w) == Loops[li[w]].ordered
IsStatic(w)  == Loops[li[w]].kind = "static"

(* XOMP_loop_static_start / _next, and the ordered variants which then    *)
(* call xomp_internal_set_ordered_iter(loop, *returnLower), the turn       *)
(* marker in slot NW + myid of work_array.  The handle is                  *)
(* dereferenced without a NULL check.                                      *)
StaticNext(w) ==
  /\ pc[w] \in {"start", "next"}
  /\ IsStatic(w)
  /\ IF myLoop[w] = NULL
       THEN Goto(w, "fault") /\ UNCHANGED <<desc, chunk, exec>>
       ELSE
       LET d  == myLoop[w]
           lo == StaticLower(Start, Step, NW, w, desc[d].work[w])
           hi == StaticUpper(lo, Step)
       IN /\ desc' = [desc EXCEPT ![d].work[w] = @ + 1,
                                   ![d].ord[w] = IF IsOrdered(w) THEN lo ELSE @]
          /\ IF ~StaticHasWork(Stop, lo)
               THEN Goto(w, "bar1") /\ UNCHANGED <<chunk, exec>>
             ELSE IF IsOrdered(w)
               THEN /\ chunk' = [chunk EXCEPT ![w] = [lo |-> lo, hi |-> hi]]
                    /\ Goto(w, "ordwait") /\ UNCHANGED exec
             ELSE RunChunk(w, lo, hi) /\ Goto(w, "next") /\ UNCHANGED chunk
  /\ UNCHANGED <<li, myLoop, block, forLoop, mallocSaveLoop, mallocSaveLoopSize,
                 testLoop, orderedLoopCount, arrived, gen, myGen, ordLog>>

(* XOMP_loop_guided_start, lines 492-498 (reached from the guided,         *)
(* dynamic and runtime start/next entry points): FALSE for a NULL handle,  *)
(* else compute_XOMP_block, which for GUIDED reads assignNext without any *)
(* synchronisation.  An ordered entry point then passes the NULL handle to *)
(* xomp_internal_set_ordered_iter.                                         *)
Compute(w) ==
  /\ pc[w] \in {"start", "next"}
  /\ ~IsStatic(w)
  /\ IF myLoop[w] = NULL
       THEN Goto(w, IF IsOrdered(w) THEN "fault" ELSE "bar1")
            /\ UNCHANGED block
       ELSE LET d == myLoop[w] IN
            /\ block' = [block EXCEPT ![w] =
                 MinSizeOne(ComputeBlock(desc[d].type, desc[d].chunkSize,
                                         Stop, desc[d].next, NW))]
            /\ Goto(w, IF pc[w] = "start" THEN "fetch0" ELSE "fetch")
  /\ UNCHANGED <<li, myLoop, chunk, forLoop, desc, mallocSaveLoop,
                 mallocSaveLoopSize, testLoop, orderedLoopCount, arrived, gen,
                 myGen, exec, ordLog>>

(* Mutant of GuidedOrdMark: every ordered start entry point passes its   *)
(* startLower argument.                                                    *)
GuidedOrdMarkAllStarts(w, returnLower) ==
  IF pc[w] = "fetch0" THEN Start ELSE returnLower

(* The turn marker an ordered entry point writes after a guided-path call. *)
(* XOMP_loop_ordered_guided_start passes its startLower argument (the      *)
(* loop's lower bound) instead of *returnLower; the dynamic and runtime    *)
(* start entry points and every _next pass *returnLower.                   *)
GuidedOrdMark(w, returnLower) ==
  IF pc[w] = "fetch0" /\ Loops[li[w]].kind = "guided" THEN Start ELSE returnLower

(* XOMP_loop_guided_start, lines 499-517: the fetch-and-add of             *)
(* dynamicBlock on assignNext, exhaustion when the old cursor is past      *)
(* assignStop (outputs zeroed), the clip of the upper bound.              *)
Fetch(w) ==
  /\ pc[w] \in {"fetch0", "fetch"}
  /\ LET d   == myLoop[w]
         it  == desc[d].next
         b   == block[w]
         hi  == Min({it + (b - 1), Stop})
         adv == [desc EXCEPT ![d].next = @ + b]
     IN IF it > Stop
          THEN /\ desc' = IF IsOrdered(w)
                          THEN [adv EXCEPT ![d].ord[w] = GuidedOrdMark(w, 0)]
                          ELSE adv
               /\ Goto(w, "bar1")
               /\ UNCHANGED <<chunk, exec>>
          ELSE /\ desc' = IF IsOrdered(w)
                          THEN [adv EXCEPT ![d].ord[w] = GuidedOrdMark(w, it)]
                          ELSE adv
               /\ IF IsOrdered(w)
                    THEN /\ chunk' = [chunk EXCEPT ![w] = [lo |-> it, hi |-> hi]]
                         /\ Goto(w, "ordwait") /\ UNCHANGED exec
                    ELSE RunChunk(w, it, hi) /\ Goto(w, "next") /\ UNCHANGED chunk
  /\ UNCHANGED <<li, myLoop, block, forLoop, mallocSaveLoop, mallocSaveLoopSize,
                 testLoop, orderedLoopCount, arrived, gen, myGen, ordLog>>

-----------------------------------------------------------------------------
(* XOMP_ordered_start: spin until orderedLoopCount equals the turn marker  *)
(* of this worker in testLoop, then advance the marker by assignStep; the  *)
(* ordered body of the iteration runs.                                     *)
OrderedStart(w) ==
  /\ pc[w] = "ordwait"
  /\ orderedLoopCount = desc[testLoop].ord[w]
  /\ desc' = [desc EXCEPT ![testLoop].ord[w] = @ + Step]
  /\ exec' = [exec EXCEPT ![li[w]][chunk[w].lo] = Min({@ + 1, 2})]
  /\ ordLog' = [ordLog EXCEPT ![li[w]] = Append(@, chunk[w].lo)]
  /\ Goto(w, "ordend")
  /\ UNCHANGED <<li, myLoop, block, chunk, forLoop, mallocSaveLoop,
                 mallocSaveLoopSize, testLoop, orderedLoopCount, arrived, gen,
                 myGen>>

(* XOMP_ordered_end: orderedLoopCount++; the generated loop goes on with   *)
(* i += stride while i <= upper, else asks for the next chunk.            *)
OrderedEnd(w) ==
  /\ pc[w] = "ordend"
  /\ orderedLoopCount' = orderedLoopCount + 1
  /\ chunk' = [chunk EXCEPT ![w].lo = @ + Step]
  /\ Goto(w, IF chunk[w].lo + Step <= chunk[w].hi THEN "ordwait" ELSE "next")
  /\ UNCHANGED <<li, myLoop, block, forLoop, desc, mallocSaveLoop,
                 mallocSaveLoopSize, testLoop, arrived, gen, myGen, exec,
                 ordLog>>

-----------------------------------------------------------------------------
(* Mutant of BarrierArrive: the release waits for one arrival too many.  *)
BarrierArriveOffByOne(w) ==
  /\ pc[w] \in {"bar1", "bar2"}
  /\ myGen' = [myGen EXCEPT ![w] = gen]
  /\ IF Cardinality(arrived) = NW
       THEN arrived' = {} /\ gen' = 1 - gen
       ELSE arrived' = arrived \cup {w} /\ UNCHANGED gen
  /\ Goto(w, IF pc[w] = "bar1" THEN "bar1w" ELSE "bar2w")
  /\ UNCHANGED <<li, myLoop, block, chunk, forLoop, desc, mallocSaveLoop,
                 mallocSaveLoopSize, testLoop, orderedLoopCount, exec, ordLog>>

(* XOMP_barrier: walkSyncTaskList (empty here), then the barrier: the last *)
(* of the NW workers to arrive releases all of them.                      *)
BarrierArrive(w) ==
  /\ pc[w] \in {"bar1", "bar2"}
  /\ myGen' = [myGen EXCEPT ![w] = gen]
  /\ IF arrived \cup {w} = Workers
       THEN arrived' = {} /\ gen' = 1 - gen
       ELSE arrived' = arrived \cup {w} /\ UNCHANGED gen
  /\ Goto(w, IF pc[w] = "bar1" THEN "bar1w" ELSE "bar2w")
  /\ UNCHANGED <<li, myLoop, block, chunk, forLoop, desc, mallocSaveLoop,
                 mallocSaveLoopSize, testLoop, orderedLoopCount, exec, ordLog>>

(* Leaving the second barrier of XOMP_loop_end ends the loop: the worker   *)
(* goes to the next loop of the region, or to XOMP_parallel_end.           *)
BarrierPass(w) ==
  /\ pc[w] \in {"bar1w", "bar2w"}
  /\ gen # myGen[w]
  /\ IF pc[w] = "bar1w"
       THEN Goto(w, "depart") /\ UNCHANGED li
     ELSE IF li[w] < NLoops
       THEN Goto(w, "init") /\ li' = [li EXCEPT ![w] = @ + 1]
     ELSE Goto(w, "done") /\ UNCHANGED li
  /\ UNCHANGED <<myLoop, block, chunk, forLoop, desc, mallocSaveLoop,
                 mallocSaveLoopSize, testLoop, orderedLoopCount, arrived, gen,
                 myGen, exec, ordLog>>

(* Mutant of Depart: loop_end without its second barrier; the worker goes *)
(* straight on to the next loop.                                           *)
DepartNoSecondBarrier(w) ==
  /\ pc[w] = "depart"
  /\ IF myLoop[w] = NULL
       THEN UNCHANGED <<desc, forLoop, mallocSaveLoop>>
       ELSE LET d == myLoop[w] IN
            /\ desc' = [desc EXCEPT ![d].departed = @ + 1]
            /\ IF desc[d].departed + 1 = desc[d].workers
                 THEN mallocSaveLoop' = forLoop /\ forLoop' = NULL
                 ELSE UNCHANGED <<forLoop, mallocSaveLoop>>
  /\ IF li[w] < NLoops
       THEN Goto(w, "init") /\ li' = [li EXCEPT ![w] = @ + 1]
       ELSE Goto(w, "done") /\ UNCHANGED li
  /\ UNCHANGED <<myLoop, block, chunk, mallocSaveLoopSize, testLoop,
                 orderedLoopCount, arrived, gen, myGen, exec, ordLog>>

(* Mutant of Depart: the departed counter is decremented.                  *)
DepartDecrement(w) ==
  /\ pc[w] = "depart"
  /\ IF myLoop[w] = NULL
       THEN UNCHANGED <<desc, forLoop, mallocSaveLoop>>
       ELSE LET d == myLoop[w] IN
            /\ desc' = [desc EXCEPT ![d].departed = @ - 1]
            /\ IF desc[d].departed - 1 = desc[d].workers
                 THEN mallocSaveLoop' = forLoop /\ forLoop' = NULL
                 ELSE UNCHANGED <<forLoop, mallocSaveLoop>>
  /\ Goto(w, "bar2")
  /\ UNCHANGED <<li, myLoop, block, chunk, mallocSaveLoopSize, testLoop,
                 orderedLoopCount, arrived, gen, myGen, exec, ordLog>>

(* XOMP_loop_end_nowait, lines 542-550: qthread_incr on departed_workers; *)
(* the worker that sees w+1 == workers parks pr->forLoop in the cache      *)
(* (qt_loop_rose_queue_free) and clears pr->forLoop.                       *)
Depart(w) ==
  /\ pc[w] = "depart"
  /\ IF myLoop[w] = NULL
       THEN UNCHANGED <<desc, forLoop, mallocSaveLoop>>
       ELSE LET d == myLoop[w] IN
            /\ desc' = [desc EXCEPT ![d].departed = @ + 1]
            /\ IF desc[d].departed + 1 = desc[d].workers
                 THEN mallocSaveLoop' = forLoop /\ forLoop' = NULL
                 ELSE UNCHANGED <<forLoop, mallocSaveLoop>>
  /\ Goto(w, "bar2")
  /\ UNCHANGED <<li, myLoop, block, chunk, mallocSaveLoopSize, testLoop,
                 orderedLoopCount, arrived, gen, myGen, exec, ordLog>>

Next ==
  \E w \in Workers :
     \/ InitCas(w) \/ Create(w) \/ Attach(w)
     \/ StaticNext(w) \/ Compute(w) \/ Fetch(w)
     \/ OrderedStart(w) \/ OrderedEnd(w)
     \/ BarrierArrive(w) \/ BarrierPass(w) \/ Depart(w)

(* Every worker is a kernel thread (a qthreads worker) that keeps running: *)
(* the spins are busy-waits, so each worker's steps are weakly fair.       *)
Fairness ==
  \A w \in Workers :
     /\ WF_vars(InitCas(w)) /\ WF_vars(Create(w)) /\ WF_vars(Attach(w))
     /\ WF_vars(StaticNext(w)) /\ WF_vars(Compute(w)) /\ WF_vars(Fetch(w))
     /\ WF_vars(OrderedStart(w)) /\ WF_vars(OrderedEnd(w))
     /\ WF_vars(BarrierArrive(w)) /\ WF_vars(BarrierPass(w))
     /\ WF_vars(Depart(w))

Spec == Init /\ [][Next]_vars /\ Fairness

-----------------------------------------------------------------------------
TypeOK ==
  /\ pc \in [Workers -> Phases]
  /\ li \in [Workers -> LoopIds]
  /\ myLoop \in [Workers -> DescIds \cup {NULL}]
  /\ forLoop \in DescIds \cup {NULL, BUSY}
  /\ mallocSaveLoop \in DescIds \cup {NULL}
  /\ testLoop \in DescIds \cup {NULL}
  /\ \A d \in DescIds :
       /\ desc[d].state \in {"unalloc", "live", "freed"}
       /\ 0 <= desc[d].departed /\ desc[d].departed <= desc[d].workers
       /\ desc[d].workers <= NW
  /\ exec \in [LoopIds -> [Iters -> 0..2]]

(* Phases in which a worker uses the handle loop_init gave it.             *)
InLoop == {"start", "next", "fetch0", "fetch", "ordwait", "ordend",
           "bar1", "bar1w", "depart"}

(* Every worker working on loop l holds a live descriptor created for loop *)
(* l (never NULL, a drained one of an earlier loop, or freed memory), and  *)
(* XOMP_ordered_start's testLoop is that descriptor.  This is what the     *)
(* CAS/sentinel race in xomp_internal_loop_init, the last-departer test    *)
(* and the two barriers of XOMP_loop_end together have to guarantee.       *)
HandleCurrent ==
  \A w \in Workers :
     /\ pc[w] # "fault"
     /\ pc[w] \in InLoop =>
          /\ myLoop[w] # NULL
          /\ desc[myLoop[w]].state = "live"
          /\ desc[myLoop[w]].loop = li[w]
          /\ pc[w] \in {"ordwait", "ordend"} => testLoop = myLoop[w]

(* No descriptor leaks: every allocated descriptor that is not freed is    *)
(* published in pr->forLoop, parked in the one-slot cache, or still held  *)
(* by a worker as its loop handle.  The cache is replaced only by the      *)
(* creator (which frees the old one when the size does not match) and by  *)
(* the last departer.                                                      *)
NoDescriptorLeak ==
  \A d \in DescIds :
     desc[d].state = "live" =>
        \/ d = forLoop \/ d = mallocSaveLoop
        \/ \E w \in Workers : myLoop[w] = d

(* Some worker has passed the first barrier of loop l's XOMP_loop_end, so  *)
(* every worker has stopped asking for chunks of l.                        *)
LoopFinished(l) ==
  \E w \in Workers :
     \/ li[w] > l
     \/ li[w] = l /\ pc[w] \in {"depart", "bar2", "bar2w", "done"}

(* Every iteration of the loop's iteration space runs at most once, no     *)
(* integer outside it runs, and once the loop is over each has run: the    *)
(* chunks handed out by the static formula or by the fetch-and-add on      *)
(* assignNext, and the generated "for (i=lower; i<=upper; i+=stride)",     *)
(* partition the iteration space.                                          *)
ExactlyOnce ==
  \A l \in LoopIds : \A i \in Iters :
     /\ exec[l][i] <= (IF i \in IterSpace THEN 1 ELSE 0)
     /\ LoopFinished(l) /\ i \in IterSpace => exec[l][i] = 1

(* The k-th ordered body released in a loop is that of the k-th iteration *)
(* of the iteration space, and no two workers are between                 *)
(* XOMP_ordered_start and XOMP_ordered_end at once.                        *)
OrderedInOrder ==
  /\ \A l \in LoopIds : \A k \in 1..Len(ordLog[l]) :
        ordLog[l][k] = Start + (k - 1) * Step
  /\ Cardinality({w \in Workers : pc[w] = "ordend"}) <= 1

(* Every worker gets through all loops of the region to parallel_end.     *)
Termination == <>(\A w \in Workers : pc[w] = "done")

-----------------------------------------------------------------------------
(* Refinement: the loops implement WorkShare.  A worker is in loop li[w]   *)
(* until it passes the second barrier of the region's last loop; an        *)
(* iteration has run once the generated code ran its body.                 *)
WS == INSTANCE WorkShare WITH
        NLoops <- NLoops,
        Space <- IterSpace,
        OrderedLoop <- [l \in LoopIds |-> Loops[l].ordered],
        cur <- [w \in Workers |-> IF pc[w] = "done" THEN NLoops + 1 ELSE li[w]],
        ran <- [l \in LoopIds |-> [i \in IterSpace |-> exec[l][i]]]

(* The loops of the region do what OpenMP work-sharing promises: each      *)
(* iteration runs once, ordered bodies in iteration order, and no worker   *)
(* leaves a loop (XOMP_loop_end) before all of its iterations ran and all  *)
(* workers reached its end; every worker gets through every loop.          *)
WorkShareSpec == WS!Spec

=============================================================================
