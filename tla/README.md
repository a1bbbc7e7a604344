# TLA+ models of the XOMP OpenMP runtime on qthreads

These modules model `src/src/rose_xomp.c`, the OpenMP runtime (XOMP) that
ROSE-generated code calls, built on qthreads, `src/src/wavefront.c`, the
qthreads wavefront pattern, and `src/src/performance.c`, the registry of
per-state timing data. Each module is checked with TLC.
`PROJECT.json` records:

- the components;
- every run;
- the mutants that show each property can fail;
- the source lines each definition translates;
- the findings;
- the hazards.

## The system

One process runs a pool of qthreads workers, which are kernel threads.
`XOMP_parallel_start` forks one task per enabled worker. Each task runs the
outlined region body, which calls the runtime for the following.

- **Work-sharing loops.** Each loop goes through three stages:
  - `XOMP_loop_<kind>_init`: the workers race with a compare-and-swap on
    `pr->forLoop`. The winner creates the shared loop descriptor. The others
    spin on the -1 sentinel and then attach.
  - `XOMP_loop_<kind>_start` / `_next`: these hand out chunks. Static loops
    use a per-worker counter and a closed formula. Dynamic, guided and runtime
    loops all go through `XOMP_loop_guided_start`, which does a fetch-and-add
    on `assignNext`.
  - `XOMP_loop_end` does, in order:
    1. a barrier;
    2. the departed counter;
    3. the last departer parks the descriptor in a one-slot cache and clears
       `pr->forLoop`;
    4. a second barrier.
- **Descriptor allocator.** `qt_loop_rose_queue_create` and `_free`
  (`mallocSaveLoop`) do the allocation. The creator also sets the global
  `testLoop`.
- **Ordered regions.** Each ordered entry point writes a per-worker turn
  marker into the descriptor. `XOMP_ordered_start` spins until the global
  `orderedLoopCount` reaches it. `XOMP_ordered_end` increments the counter.
- **Tasks.**
  - `XOMP_task` links a syncvar into the process-wide task list under its
    lock, then spawns the task. That spawn empties the syncvar, and the task
    fills it when it returns.
  - `walkSyncTaskList` takes the lock and, holding it, waits on each entry
    and frees it. It is called from `XOMP_taskwait`, `XOMP_barrier` and
    `XOMP_parallel_end`.
- **Mutual exclusion.**
  - `XOMP_critical_*`: one full/empty cell shared by every name.
  - `omp_set_lock` / `omp_unset_lock`: `writeEF` / `readFE` on a syncvar.
  - `XOMP_atomic_*`: a `qthread_lock`.
- **Worker-count adjustment.** `omp_set_num_threads` enables or disables
  workers, resizes the barrier and the first-arrival race, and repacks worker
  ids.

**The wavefront pattern** (`wavefront.c`) is a separate library function.
- `qt_wavefront` cuts the left edge (`vertical`) and the bottom edge
  (`horizontal`) into qarray segments. These are the struts and slats of a
  lattice of work units.
- It forks one `qt_wavefront_worker` per shepherd and queues the lower-left
  unit. It then yields until `donecount` reaches the number of workers.
- A worker dequeues a unit and requeues it if its left strut is still NULL.
  Otherwise it does the following:
  1. On its first unit only, it allocates its local buffer and the
     pointer array `R`: `R[i]` points at local column i for
     i < below->count-2. On every unit it then points
     `R[below->count-2]` at the new right strut (line 129), so the last
     column is computed straight into it.
  2. It allocates and stores the above slat.
  3. It computes the unit.
  4. It stores the right strut.
  5. It queues the right neighbour (bottom row only) and the unit above.
- The top unit of the last column sets `no_more_work`. A worker that then
  finds the queue empty counts itself done and exits.

**The performance registry** (`performance.c`) keeps two linked lists, each
appended through a tail pointer that holds the address of the last `next`
field: the state groups (a number of states and their names) and the
perfdata records (a group, the current state, the time it was entered and
one counter per state). `qtperf_enter_state` charges the time since the
last entry to the state being left. `qtperf_free_data` frees both lists.
`qtperf_set_instrument_workers` / `_qthreads` create the group that the
scheduler's workers and qthreads are to be recorded in.

The scheduler substrate (qthreads: full/empty bits, barrier, worker
enable/disable, the task list accessors) is not in this repository. Where a
module needs it, it is modelled from the spec's description, section 6, and
the definition is marked `spec_modelled` in `PROJECT.json`.

## Modules

| Module | Models | Composes |
|---|---|---|
| `XompSched` | The iteration arithmetic as pure operators: the static block formula (`StaticLower`, `StaticUpper`, `StaticHasWork`), `compute_XOMP_block` (`ComputeBlock`), the min-size-1 adjustment, and the iterations a chunk makes the generated loop run (`ChunkIters`). | — |
| `XompLoop` | The loops of one parallel region: loop init (`InitCas`, `Create`, `Attach`), the static path (`StaticNext`), the guided path (`Compute`, then `Fetch`), the ordered protocol (`OrderedStart`, `OrderedEnd`) and loop end (`BarrierArrive`, `BarrierPass`, `Depart`). | `XompSched` |
| `XompTasks` | The task list: `TaskLock`, `TaskLink`, `TaskSpawn` (XOMP_task), `TaskFinish` (the task returns), `WalkLock`, `WalkPop` (walkSyncTaskList), and the barrier of XOMP_barrier. | — |
| `XompThreads` | `omp_set_num_threads` as one step (`SetNumThreads`, with `Adjusted`, `EnableSet`, `DisableSet`, `RepackIds` in 16-bit unsigned arithmetic), and the regions around it (`ParallelStart`, then per task `Master` (XOMP_master), `Single` (XOMP_single), `BarrierEnter`, `TaskReturn`, and `ParallelEnd`). | — |
| `XompSync` | `CriticalStart`/`End`, `SetLock`/`UnsetLock`, `AtomicStart`/`End`. Each worker runs a fixed sequence of these calls. | — |
| `WorkShare` | The abstract promise of the work-sharing loops of a region (spec 4.2, 4.3, 5). The loops are met in order. A step runs some iterations of the current loop that have not run; in an ordered loop it runs only the first one left. A worker leaves a loop only when all its iterations have run and every worker has reached it. | — |
| `WavefrontSpec` | The abstract promise of `qt_wavefront`: the units of the lattice are computed one at a time, each once and only after the units to its left and below; the call returns only when all are computed, and it eventually does. | — |
| `WavefrontLattice` | The lattice geometry of `qt_wavefront` as pure operators, in `size_t` arithmetic of width `SizeBits`: the segment counts (`SlatsNum`, `StrutsNum`, `StrutsSegs`, `SlatsSegs`) and each segment's offset and length (`StrutOffset`, `StrutLen`, `SlatOffset`, `SlatLen`). | — |
| `WavefrontRegion` | `qt_wavefront_regionworker` (`RegionStep` for one call of `func` with the arguments of each of its four code paths, `RegionWorker` folding it over the code's loop order, `Above` for the above slat) and the sequential `qt_basic_wavefront` (`BasicWavefront`), as pure operators on small grids. | — |
| `Wavefront` | `qt_wavefront` (`Spawn`, `EnqueueCorner`, `Return`) and `qt_wavefront_worker` (`Dequeue` with `TakeUnit`, `Compute`, `PublishRight`, `EnqueueRight`, `EnqueueUp`, `Finish`). | `WavefrontLattice`, `WavefrontRegion` |
| `Performance` | The registry: `CreateStateGroup` (with `AppendNode`), `CreatePerfdata`, `Enter` (qtperf_enter_state), `SetCollecting` (start/stop), `FreeData`, `SetInstrumentWorkers`, `SetInstrumentQthreads`, and `Tick` for the clock. | — |

Each `MC_*` module extends its module with the constants the `.cfg` files
use: loop sequences, task counts, worker sets and programs.
`MC_WavefrontLattice` puts a horizontal edge (count, segment size) in a
variable fixed at `Init`, ranging over (2..10) × (2..12). TLC then evaluates
the geometry for every such edge.

### Refinement

`XompLoop` defines `WS == INSTANCE WorkShare WITH ...` with this mapping:
- a worker's abstract loop `cur[w]` is its loop index `li[w]`, or
  `NLoops + 1` once it is done;
- `ran[l][i]` is `exec[l][i]`, the number of times the generated loop ran
  iteration `i` of loop `l`.

`loops_mixed` checks `WorkShareSpec == WS!Spec` as a property. This one
property checks the following:
- no chunk reruns an iteration, because `ran` would step from 1 to 2,
  outside the abstract state;
- an ordered body runs only the first iteration left;
- no worker passes the loop-end barriers before every iteration has run and
  every worker has arrived;
- under the abstract fairness, every iteration runs and every worker gets
  through.

This replaces the separate `ExactlyOnce` and `Termination` checks in that
run.

`Wavefront` defines `Abs == INSTANCE WavefrontSpec WITH ...`, mapping the
abstract `computed[u]` to `runs[u]` (how often a worker ran
`qt_wavefront_regionworker` on unit `u`) and `returned` to `mpc =
"returned"`. `wavefront` checks `WavefrontRefines == Abs!Spec`. A unit
computed twice steps `computed` out of 0..1; a unit computed before its
left or lower neighbour, or a return before the last unit, is a step the
abstract spec does not allow; a hang breaks its fairness. This replaces the
separate `EachUnitOnce` and `Termination` checks in that run.

### How state corresponds to the code

**XompLoop.**
- `desc[d]` is a `qqloop_step_handle_t`. Its fields map as follows:
  - `workers`, `departed` and `next` are `workers`, `departed_workers` and
    `assignNext`;
  - `work[w]` is `work_array[w]`;
  - `ord[w]` is `work_array[NW+w]`.
- `forLoop` is `pr->forLoop`. Its values are NULL, the sentinel `BUSY`, or a
  descriptor.
- `mallocSaveLoop`, `mallocSaveLoopSize`, `testLoop` and `orderedLoopCount`
  are the file-scope globals of the same names.
- `arrived`/`gen`/`myGen` are the region's barrier.
- Two history variables record what happened; the properties use them:
  - `exec` records how often each iteration ran;
  - `ordLog` records the release order of ordered bodies.
- A worker's `pc` moves through the phases of its calls. `fault` is a NULL
  handle being dereferenced.

**XompTasks.**
- `taskList` is the chain of `taskSyncvar_t`, head first.
- `lockOwner` is the task-list lock.
- `cell[t]` is the full/empty state of the entry's `retValue`.
- `entry[t]` tracks allocation: none, linked or freed.

**Wavefront.**
- `strut[<<c, r>>]` is `L->struts.strips[c][r]` being non-NULL.
- `slat[<<r, c>>]` is `L->slats.strips[r][c]`. Its values are NULL,
  allocated and stored (line 128), or holding data (lines 137-139).
- `queue` is the qdqueue, modelled as one FIFO (spec_modelled).
- `noMoreWork` and `donecount` are the shared flags of `wargs`.
- `local[w]` is the shape (rows, cols) of the first unit, which sized the
  worker's `local` buffer and its `R` array.
- `rp[w][i]` is where `R[i]` points: local column i (`LocalCol`), the first
  element of a unit's right strut (`RightOf`), or NULL. `TakeUnit` sets it
  as lines 115-129 do. `Output(w, col)` is the set of cells that
  `qt_wavefront_regionworker` writes through `R[col]`.
- `runs` is a history variable counting computations of each unit.
- `mpc` is the caller's place in `qt_wavefront`.

**XompThreads.**
- `enabled` and `packed` are the substrate's worker state.
- `barrierSize` and `qtarSize` are the participant counts.
- `inside` is `xomp_status.inside_xomp_parallel`.
- `hung` marks a call that never returns.
- `qtarCount` is the number of arrivals in the current round of
  `qt_global_arrive_first` (substrate, modelled from spec 4.6): the first
  arrival of a round wins, the `qtarSize`-th closes it, and `qtar_resize`
  (`QtarResize`) starts a new one.
- `masters` and `winners` are history variables: the tasks of the current
  region to which `XOMP_master` and `XOMP_single` answered 1.

**Performance.**
- A node is an allocation number per kind (`"groups"`, `"counters"`);
  `alive[k][i]` says it is allocated and not freed. Nodes are never reused,
  so a pointer to a freed node stays recognisable.
- `head[k]`, `num[k]` and `nxt[k][i]` are `_groups`/`_counters`,
  `_num_groups`/`_num_counters` and the nodes' `next` fields.
- `tail[k]` is `_next_group`/`_next_counter`: NULL, `HEAD` (the address of
  the head pointer) or a node, standing for the address of its `next` field.
- `gStates`, `dGroup`, `dCur`, `dEntered` and `dCtr` are `num_states`,
  `state_group`, `current_state`, `time_entered` and `perf_counters`.
- `dFirst` is a history variable: when a record first entered a state.
- `workersGroup`/`qthreadsGroup` and `shouldWorkers`/`shouldQthreads` are
  the instrumentation globals; `now` is `qtperf_now()`.
- `Chain(k)` walks the list from the head, as `qtp_validate_*_list` do.

## Runs

Pass runs. TLC finishes with no error, and between them these runs fire
every action.

| Run | Bounds | Checks |
|---|---|---|
| `loops_mixed` | 3 workers; iterations 0..5; an ordered runtime loop (OMP_SCHEDULE = DYNAMIC_SCHED), then a static loop, then a guided loop | `TypeOK`, `HandleCurrent`, `OrderedInOrder`, `NoDescriptorLeak`, `WorkShareSpec` |
| `tasks_one_worker` | 1 worker forks 3 tasks | `TypeOK`, `BarrierAfterTasks`, `Termination` |
| `threads_serial` | 5 hardware workers; the master resizes to 1..5 between regions | `TypeOK`, `BarrierNoEarlyRelease`, `SingleExactlyOnce`, `RegionEnds` |
| `sync_mixed` | 3 workers use critical, a lock and atomic in different orders | `MutualExclusion`, `Termination` |
| `wavefront` | 3 workers; vertical 7 in segments of 3, horizontal 7 in segments of 3: 3 × 3 units of 3, 3, 1 rows and 3, 3, 2 columns | `TypeOK`, `InputsReady`, `UnitComputesReference`, `WavefrontRefines` |
| `perf` | 2 allocations of each kind; clock up to 3; groups of 2 states | `TypeOK`, `ListsConsistent`, `TimeAccounted` |

What these properties say:
- `HandleCurrent`: every worker inside loop *l* holds a live descriptor
  created for *l*, and `testLoop` is that descriptor while the worker is in
  an ordered body. This is what the CAS race, the last-departer test and the
  two barriers must together guarantee.
- `WorkShareSpec`: the loops implement `WorkShare` (see Refinement).
- `ExactlyOnce` (checked by `guided_stride`): the chunks partition the
  iteration space.
- `InputsReady`: a unit is computed only when its left strut is published
  and its below slat holds data. The code tests only the strut (line 106).
  The slat holds because of the order in which units are queued.
- `WavefrontRefines`: the wavefront implements `WavefrontSpec` (see
  Refinement).
- `OrderedInOrder`: ordered bodies run in iteration order, one at a time.
- `NoDescriptorLeak`: every live descriptor is reachable, from
  `pr->forLoop`, the one-slot cache or a worker's handle. Because
  `mallocSaveLoopSize` is never assigned, the cache is never reused; this
  checks that it is at least freed.
- `SingleExactlyOnce`: in every region, whatever resizes came before it,
  exactly one task wins `XOMP_single`. The race's rounds carry over from one
  region to the next, so a race sized one too small or too large shows up
  only in a later region. A mutant that leaves out `qtar_resize` is caught
  in the third region after a shrink.
- `UnitComputesReference`: whenever a worker computes a unit,
  `qt_wavefront_regionworker` on that unit's shape computes the same cells,
  right strut and above slat as `qt_basic_wavefront` on the corresponding
  grid. This checks the index arithmetic of the four argument patterns for
  every unit shape of the lattice.
- `ListsConsistent`: walking each list from its head reaches `num` live
  nodes, the tail pointer is the last node's `next` field (or the head
  pointer when the list is empty), and every listed record's group is a
  listed group.
- `TimeAccounted`: the counters of a record in a state add up to the time
  since it first entered one.

Violation runs. Each checks one property, and TLC finds it violated. Each is
recorded as a finding in `PROJECT.json`.

| Run | Property | What the counterexample shows |
|---|---|---|
| `ordered_guided` | `OrderedInOrder` | `XOMP_loop_ordered_guided_start` marks every worker's first turn as the loop's lower bound (line 610). |
| `guided_stride` | `ExactlyOnce` | The guided path ignores the stride and runs integers outside the iteration space. |
| `tasks_single` | `BarrierAfterTasks` | A walker frees a linked but unspawned entry; the barrier then passes while that task runs. |
| `perf_instrument` | `InstrumentGroupLive` | `qtperf_free_data` frees every group but leaves `qtperf_workers_group` pointing at one (line 130). After `set_instrument_workers(1)`, `free_data`, the pointer is dangling, and a later `set_instrument_workers(1)` creates no new group. |
| `wavefront_local` | `RegionOutputsPrivate` | A worker sets up `R` for its first unit only, and line 129 re-points `R[below->count-2]` on every unit. Worker w2 takes `<<0,0>>` (3 columns), so `R[0]` points at local column 0. It then takes `<<2,0>>` (2 columns), and `R[0]` now points at `struts[3][0]`, which it publishes. It then takes `<<0,1>>` (3 columns), and its first column is written through `R[0]` into `struts[3][0]`, the lattice's right-hand output. |
| `lattice_slats` | `SlatsCoverInput` | The slat length (line 249) tests `count - i*seg_len` while segments start at `i*(seg_len-1)`, and adds 1. For count 2 with segment size 2, the one segment copies 3 elements. For count 7 with size 3, the last column is dropped. For count 10 with size 3, the `size_t` difference wraps. |

Confirmed with TLC, but not kept as runs, because the run budget goes to
other questions. Each can be reproduced with the MC constants named:
- `orderedLoopCount` is never reset (line 57), so a second ordered loop
  spins forever. Use `Termination` with NW = 2, Stop = 3,
  `MCLoopsTwoOrdered` and `OmpSchedule = "unset"` (the GUIDED default).
- Called from a worker inside a region, `omp_set_num_threads` resizes the
  first-arrival race while the region's other tasks have still to arrive
  (lines 1132, 1151), and two tasks win `XOMP_single`. Use
  `SingleExactlyOnce` with H = 4, `MCCallersAll` and `MCRequestsPositive`.
  Under the same constants with `MCRequestsTwoUp` (requests 2..H),
  `MasterExactlyOnce` holds (H = 4, 207,529 states; H = 5, 12 million
  states). From serial code it holds by construction: only worker 0
  calls, and it always keeps id 0. The id repacking of line 1158
  never leaves a region without a master unless the call hangs at line
  1135.
- `omp_set_num_threads(1)` from worker 1 runs the unsigned loop `i >= 0`
  forever (line 1135): the request is adjusted to 0. Use
  `SetNumThreadsReturns` with H = 4, `MCCallersAll` and `MCRequestsAll`.
  From serial code (worker 0, requests of at least 1) the adjustment never
  reaches 0, so `threads_serial` does not check it.
- `walkSyncTaskList` holds the list lock while it waits in `readFF`
  (line 643). A task that forks a child then deadlocks with the walker. Use
  `Termination` with `Nested` = TRUE.
- Differently named nested critical sections share one cell and
  self-deadlock (line 1026). Use `Termination` with
  `MCProgNestedCritical`. Spec section 4.5 states the single shared domain
  as the contract.

Found while modelling, but no run checks them. They are hazards in
`PROJECT.json`:
- `compute_XOMP_block` reads `assignNext` before the fetch-and-add (line 496).
  A guided block can then be larger than the one before it. `WorkShareSpec`
  shows that the chunks still partition the loop; the block-size order is
  a performance matter and is not checked.
- `mallocSaveLoopSize` is never assigned (line 315), so the cached descriptor
  is always freed and never reused. `NoDescriptorLeak` shows nothing leaks.
- `performance.c` sets `QTH_NUM_STATES` to 0 (line 232), so the qthreads
  group is created with no states and every `qtperf_enter_state` on its
  records is rejected. Switching workers instrumentation on and then off
  fails the assertion at line 216.
- `omp_set_num_threads` sets `inside_xomp_parallel` and nothing resets it
  (line 1104).
- `XOMP_ordered_end` adds 1 to `orderedLoopCount` (line 833), while the
  ordered start marks advance by `assignStep`. An ordered loop with stride 2
  hangs. TLC confirms this with `Termination` on 2 workers, 0..4 stride 2.
  No run is kept for it.
- `wavefront.c` sets `no_more_work` as soon as the top unit of the last
  column finishes, even if other columns are still running. TLC shows this
  is safe. A worker exits only on an empty queue. A worker still holding a
  unit keeps queuing and draining work. A mutant that sets the flag on the
  top row of any column still passes `WavefrontRefines`.

### Bounds

- **Loops.** Three workers with 6 iterations (`loops_mixed`, 0..5) or up to
  10 iterations (the violation runs) give each schedule several chunks per
  worker. They also give:
  - a guided block that shrinks from 3 to 1;
  - a last static block past `Stop`.

  Three loops in `loops_mixed` exercise descriptor recycling twice, and the
  second-barrier hazard. With 0..6 the refinement check takes over three
  minutes and reaches no new case. The stride run uses `Stop = 6` so that the last
  iteration equals `Stop`, which is the boundary of the static exhaustion
  test.
- **Tasks.** One worker with three tasks makes the walker meet entries in
  every state. The violation runs need two workers, or one nested task.
- **Threads.** Five hardware workers make the pass run reach every pool size
  and every region/barrier interleaving. Four suffice for the violations, and
  ids are 16 bits wide, as `qthread_shepherd_id_t` is.
- **Wavefront.** The 7/3 edges give 3 × 3 units. The units differ in size:
  the top row has one row and the right column two columns. That is the case
  where the first-unit buffer matters. Three units per row and column let
  the right and up queuing chains interleave. Three workers let two units
  be in flight while a third worker dequeues a unit that is not ready.
  `wavefront_local` uses vertical 5 (rows 3 and 2) and two workers, which
  gives the shortest counterexample. Its 3, 3, 2 columns let a worker take
  a wide unit, a narrow one and a wide one again.
- **Lattice geometry.** Every count from 2 to 10 with every segment size
  from 2 to 12 covers the cases of one segment, an exact multiple, a
  remainder and a wrapping difference. `size_t` is modelled 16 bits wide.
  TLC cannot enumerate 2^64, and a difference that wraps is larger than any
  segment size at either width, so the outcome is the same.

- **Performance.** Two allocations of each kind reach create, free and
  create again (so the tail pointer is reused after a free), a record in a
  second group, and a record that changes state twice. A clock up to 3
  gives two distinct intervals. Group size 2 lets `qtperf_enter_state`
  reject a state out of range. Three allocations with a clock to 4 give over
  30 million states and no new case.
- **Region computation.** `UnitComputesReference` evaluates the unit for
  every shape the lattice produces (1 to 3 rows, 1 to 2 computed columns).

### Fairness

Workers are kernel threads that keep running. The waits in XOMP are either
busy-waits (the sentinel spin and the ordered spin) or substrate waits (a
full/empty bit, the barrier, a lock), and a substrate wait wakes once its
condition holds. So every worker action is weakly fair.

In `XompThreads`, neither serial code nor the region start is required to
happen (they are not fair). Only the region's tasks and `XOMP_parallel_end`
are weakly fair.

In `Wavefront`, `qt_wavefront` and each worker are qthreads. A worker with
an empty queue yields and is rescheduled, and so does the caller in its wait
loop. Each is weakly fair; this is `WF` on the caller's steps and on each
worker's `WorkerStep`. Weak fairness is enough: a requeued unit that is not
ready stays enabled, because the queue is never empty while it is in it.

`Performance` has no fairness: its operations are API calls the program
may or may not make, and its properties are all invariants.

`CHECK_DEADLOCK FALSE` is set everywhere because every model reaches a final
state: all workers done. Stuck states are caught by `Termination` or
`RegionEnds` instead.

## Not modelled, and why

- **The rest of `XOMP_init`.** `OMP_SCHEDULE` is modelled (`RuntimeSched`
  in `XompLoop`, from the constant `OmpSchedule`; its abort on any other
  value is an `ASSUME`). `OMP_NESTED`, `omp_set_nested` and
  `omp_set_dynamic` set flags that only their getters read. The
  `staticStartCount` array is allocated, and its failure reported, but
  nothing reads it.
- **Query functions and timing.** The `omp_get_*` functions and the time
  functions change no state.
- **The fatal stubs.** Flush, nest locks and `omp_test_lock` only print and
  exit.
- **The nested-loop path of `xomp_internal_loop_init`.** When `pr` is NULL,
  line 401 dereferences it anyway. This is a hazard in `PROJECT.json` with no
  property.
- **The `AKP_TOUCH_EXECUTION` path of `walkSyncTaskList`.** It is compiled out
  by default.
- **The rest of `wavefront.c`.**
  - `qt_wavefront_regionworker` computes the values of a unit. In
    `Wavefront` it is the single step `Compute`, which fills the outputs;
    its arithmetic is checked separately by `WavefrontRegion`.
  - `qt_wavefront_destroy_lattice` and `qt_wavefront_print_lattice` only
    free and print.
  - `qt_basic_wavefront` is modelled only as the reference for
    `UnitComputesReference`.
- **The qdqueue** is not in this repository. It is modelled as a single FIFO
  queue. Its per-shepherd locality hints (`enqueue_there`) change which
  worker picks a unit, and every worker can pick any unit in the model.
- **The rest of `performance.c`.** The iterators, `qtperf_print_*`,
  `qtperf_state_name` and the validation functions only read the registry;
  the state names are abstracted to their number.
- **The other source files.** `mpiq.c` wraps MPI calls. `rcrtool` is
  monitoring-daemon glue. Neither has protocol state, so they are not
  modelled. The tests are not modelled either.

## Plan for further work

1. Compose `XompTasks` with the barrier of `XompLoop`, so that task draining
   inside `XOMP_loop_end` is checked together with descriptor recycling.
2. Cover the remaining hazards without a property. Each would be a
   violation run, and the run budget is spent on the findings above:
   - the NULL `pr` on the nested or orphaned loop path (line 401);
   - the `inside_xomp_parallel` flag (line 1104);
   - in `performance.c`, the empty qthreads state group (line 232) and the
     instrumentation assertion (line 216).
