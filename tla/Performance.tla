---------------------------- MODULE Performance -----------------------------
(***************************************************************************)
(* The performance-data registry of src/src/performance.c.                 *)
(*                                                                         *)
(* Two singly linked lists, each with a head pointer, a tail pointer that  *)
(* holds the address of the last node's next field (_next_group,           *)
(* _next_counter) and a count: the state groups and the perfdata records.  *)
(* A list node is an allocation <<kind, i>>; nodes are never reused, so a  *)
(* freed node stays freed.  The tail pointer is NULL, HEAD (the address   *)
(* of the head pointer) or a node (the address of its next field).        *)
(*                                                                         *)
(* A perfdata record accounts the time spent in each state of its group:  *)
(* qtperf_enter_state adds the time since the last entry to the counter   *)
(* of the state it leaves.  The monotonic clock is the variable now.      *)
(* State names are left out: no property tells them apart.                *)
(***************************************************************************)
EXTENDS Integers, Sequences, Functions

CONSTANTS
  NULL, HEAD, INVALID, \* model values: NULL, &_groups/&_counters, QTPERF_INVALID_STATE
  MaxAlloc,            \* allocations of each kind over a behaviour
  MaxTime,             \* bound of the clock
  GroupSizes           \* num_states values the program passes

Kinds == {"groups", "counters"}
Ids == 1..MaxAlloc

(* WKR_NUM_STATES (the five worker_state_names) and QTH_NUM_STATES (the    *)
(* empty qthread_state_t enumeration), lines 194-200 and 222-226.          *)
WkrNumStates == 5
QthNumStates == 0

StateIds == 0..(WkrNumStates - 1)

VARIABLES
  head,           \* head[k]: _groups, _counters
  tail,           \* tail[k]: _next_group, _next_counter
  num,            \* num[k]: _num_groups, _num_counters
  nxt,            \* nxt[k][i]: the next field of node i
  alive,          \* alive[k][i]: node i is allocated and not freed
  nalloc,         \* nalloc[k]: nodes of kind k allocated so far
  gStates,        \* gStates[i]: group.num_states
  dGroup,         \* dGroup[i]: performance_data.state_group
  dCur,           \* dCur[i]: current_state
  dEntered,       \* dEntered[i]: time_entered
  dCtr,           \* dCtr[i][s]: perf_counters[s]
  dFirst,         \* history: when record i first entered a state
  collecting,     \* _collecting
  shouldWorkers,  \* qtperf_should_instrument_workers
  workersGroup,   \* qtperf_workers_group
  shouldQthreads, \* qtperf_should_instrument_qthreads
  qthreadsGroup,  \* qtperf_qthreads_group
  now             \* the monotonic clock, in microseconds

lists == <<head, tail, num, nxt, alive, nalloc>>
records == <<gStates, dGroup, dCur, dEntered, dCtr, dFirst>>
instr == <<shouldWorkers, workersGroup, shouldQthreads, qthreadsGroup>>
vars == <<lists, records, instr, collecting, now>>

Init ==
  /\ head = [k \in Kinds |-> NULL]
  /\ tail = [k \in Kinds |-> NULL]
  /\ num = [k \in Kinds |-> 0]
  /\ nxt = [k \in Kinds |-> [i \in Ids |-> NULL]]
  /\ alive = [k \in Kinds |-> [i \in Ids |-> FALSE]]
  /\ nalloc = [k \in Kinds |-> 0]
  /\ gStates = [i \in Ids |-> 0]
  /\ dGroup = [i \in Ids |-> NULL]
  /\ dCur = [i \in Ids |-> INVALID]
  /\ dEntered = [i \in Ids |-> 0]
  /\ dCtr = [i \in Ids |-> [s \in StateIds |-> 0]]
  /\ dFirst = [i \in Ids |-> 0]
  /\ collecting = FALSE
  /\ shouldWorkers = FALSE /\ workersGroup = NULL
  /\ shouldQthreads = FALSE /\ qthreadsGroup = NULL
  /\ now = 1

(* The list from the head pointer, following next fields; the fuel stops  *)
(* a walk around a cycle one node past any list the allocations allow.    *)
RECURSIVE ChainFrom(_, _, _)
ChainFrom(k, n, fuel) ==
  IF n = NULL \/ fuel = 0 THEN <<>>
  ELSE <<n>> \o ChainFrom(k, nxt[k][n], fuel - 1)

Chain(k) == ChainFrom(k, head[k], MaxAlloc + 1)
Nodes(k) == Range(Chain(k))

NewNode(k) == nalloc[k] + 1

(* Lines 31-37 and 78-85: a NULL tail pointer is first set to the address *)
(* of the head; the new node is stored through the tail pointer, its next *)
(* is cleared, and the tail pointer moves to its next field.              *)
AppendNode(k, n) ==
  LET t == IF tail[k] = NULL THEN HEAD ELSE tail[k] IN
  /\ nalloc[k] < MaxAlloc
  /\ head' = IF t = HEAD THEN [head EXCEPT ![k] = n] ELSE head
  /\ nxt' = [nxt EXCEPT ![k] = [i \in Ids |-> IF i = t THEN n
                                               ELSE IF i = n THEN NULL ELSE @[i]]]
  /\ tail' = [tail EXCEPT ![k] = n]
  /\ num' = [num EXCEPT ![k] = @ + 1]
  /\ alive' = [alive EXCEPT ![k][n] = TRUE]
  /\ nalloc' = [nalloc EXCEPT ![k] = n]

(* qtperf_create_state_group, lines 29-49.                                 *)
CreateGroup(ns) ==
  LET n == NewNode("groups") IN
  /\ AppendNode("groups", n)
  /\ gStates' = [gStates EXCEPT ![n] = ns]

CreateStateGroup ==
  /\ \E ns \in GroupSizes : CreateGroup(ns)
  /\ UNCHANGED <<dGroup, dCur, dEntered, dCtr, dFirst, instr, collecting, now>>

(* qtperf_create_perfdata, lines 76-94, for a live group.                  *)
CreatePerfdata ==
  \E g \in Nodes("groups") :
    LET n == NewNode("counters") IN
    /\ AppendNode("counters", n)
    /\ dGroup' = [dGroup EXCEPT ![n] = g]
    /\ UNCHANGED <<gStates, dCur, dEntered, dCtr, dFirst, instr, collecting, now>>

-----------------------------------------------------------------------------
(* Mutant of EnterState: time_entered is not updated.                      *)
EnterStateNoStamp(d, s) ==
  /\ s < gStates[dGroup[d]]
  /\ dCtr' = IF dCur[d] # INVALID
               THEN [dCtr EXCEPT ![d][dCur[d]] = @ + (now - dEntered[d])]
               ELSE dCtr
  /\ dCur' = [dCur EXCEPT ![d] = s]
  /\ dFirst' = IF dCur[d] = INVALID THEN [dFirst EXCEPT ![d] = now] ELSE dFirst
  /\ UNCHANGED dEntered

(* Mutant of EnterState: the bounds check of the state number is dropped. *)
EnterStateNoBound(d, s) ==
  /\ dCtr' = IF dCur[d] # INVALID
               THEN [dCtr EXCEPT ![d][dCur[d]] = @ + (now - dEntered[d])]
               ELSE dCtr
  /\ dEntered' = [dEntered EXCEPT ![d] = now]
  /\ dCur' = [dCur EXCEPT ![d] = s]
  /\ dFirst' = IF dCur[d] = INVALID THEN [dFirst EXCEPT ![d] = now] ELSE dFirst

(* qtperf_enter_state, lines 151-163: a state out of the group's bounds is *)
(* logged and ignored (no step); otherwise the time since time_entered is *)
(* added to the counter of the current state, if any, and the record      *)
(* enters state s now.                                                     *)
EnterState(d, s) ==
  /\ s < gStates[dGroup[d]]
  /\ dCtr' = IF dCur[d] # INVALID
               THEN [dCtr EXCEPT ![d][dCur[d]] = @ + (now - dEntered[d])]
               ELSE dCtr
  /\ dEntered' = [dEntered EXCEPT ![d] = now]
  /\ dCur' = [dCur EXCEPT ![d] = s]
  /\ dFirst' = IF dCur[d] = INVALID THEN [dFirst EXCEPT ![d] = now] ELSE dFirst

Enter ==
  /\ \E d \in Nodes("counters"), s \in StateIds : EnterState(d, s)
  /\ UNCHANGED <<lists, gStates, dGroup, instr, collecting, now>>

(* The clock advances between calls (qtperf_now, lines 114-120).          *)
Tick ==
  /\ now < MaxTime
  /\ now' = now + 1
  /\ UNCHANGED <<lists, records, instr, collecting>>

(* qtperf_start and qtperf_stop, lines 122-128.                            *)
SetCollecting ==
  /\ \E b \in BOOLEAN : collecting' = b
  /\ UNCHANGED <<lists, records, instr, now>>

(* The lists after free_perf_list and free_group_list (lines 64-74,        *)
(* 96-112): every node reachable from the head is freed, its next field   *)
(* cleared, a perfdata record's state_group cleared, and the count        *)
(* decremented once per node.                                              *)
Freed(k) == [i \in Ids |-> alive[k][i] /\ i \notin Nodes(k)]

FreeLists ==
  /\ alive' = [k \in Kinds |-> Freed(k)]
  /\ nxt' = [k \in Kinds |-> [i \in Ids |-> IF i \in Nodes(k) THEN NULL ELSE nxt[k][i]]]
  /\ num' = [k \in Kinds |-> num[k] - Len(Chain(k))]
  /\ head' = [k \in Kinds |-> NULL]
  /\ dGroup' = [i \in Ids |-> IF i \in Nodes("counters") THEN NULL ELSE dGroup[i]]

(* Mutant of FreeData: the tail pointers are not reset.                    *)
FreeDataKeepTail ==
  /\ FreeLists
  /\ collecting' = FALSE
  /\ UNCHANGED <<tail, nalloc, gStates, dCur, dEntered, dCtr, dFirst, instr, now>>

(* qtperf_free_data, lines 130-138: both lists are freed, the head and     *)
(* tail pointers reset and collection stopped.  The instrumentation flags *)
(* and group pointers are left as they are.                                *)
FreeData ==
  /\ FreeLists
  /\ tail' = [k \in Kinds |-> NULL]
  /\ collecting' = FALSE
  /\ UNCHANGED <<nalloc, gStates, dCur, dEntered, dCtr, dFirst, instr, now>>

(* qtperf_set_instrument_workers and qtperf_set_instrument_qthreads, lines *)
(* 206-236: set the flag and, when it is set and the group pointer is     *)
(* NULL, create the group of WKR_NUM_STATES or QTH_NUM_STATES states.      *)
SetInstrumentWorkers(b) ==
  /\ shouldWorkers' = b
  /\ IF b /\ workersGroup = NULL
       THEN CreateGroup(WkrNumStates) /\ workersGroup' = NewNode("groups")
       ELSE UNCHANGED <<lists, gStates, workersGroup>>
  /\ UNCHANGED <<dGroup, dCur, dEntered, dCtr, dFirst, shouldQthreads,
                 qthreadsGroup, collecting, now>>

SetInstrumentQthreads(b) ==
  /\ shouldQthreads' = b
  /\ IF b /\ qthreadsGroup = NULL
       THEN CreateGroup(QthNumStates) /\ qthreadsGroup' = NewNode("groups")
       ELSE UNCHANGED <<lists, gStates, qthreadsGroup>>
  /\ UNCHANGED <<dGroup, dCur, dEntered, dCtr, dFirst, shouldWorkers,
                 workersGroup, collecting, now>>

Next ==
  \/ CreateStateGroup \/ CreatePerfdata \/ Enter \/ Tick \/ SetCollecting
  \/ FreeData
  \/ \E b \in BOOLEAN : SetInstrumentWorkers(b) \/ SetInstrumentQthreads(b)

(* The registry is driven by the program's calls; nothing has to happen.   *)
Spec == Init /\ [][Next]_vars

-----------------------------------------------------------------------------
TypeOK ==
  /\ head \in [Kinds -> Ids \cup {NULL}]
  /\ tail \in [Kinds -> Ids \cup {NULL, HEAD}]
  /\ num \in [Kinds -> Int]
  /\ nxt \in [Kinds -> [Ids -> Ids \cup {NULL}]]
  /\ alive \in [Kinds -> [Ids -> BOOLEAN]]
  /\ dCur \in [Ids -> StateIds \cup {INVALID}]
  /\ \A d \in Nodes("counters") : dCur[d] \in (0..gStates[dGroup[d]] - 1) \cup {INVALID}
  /\ dCtr \in [Ids -> [StateIds -> Nat]]
  /\ collecting \in BOOLEAN
  /\ workersGroup \in Ids \cup {NULL} /\ qthreadsGroup \in Ids \cup {NULL}
  /\ now \in 1..MaxTime

(* The list half of qtperf_check_invariants (qtp_validate_perf_list and    *)
(* qtp_validate_group_list, lines 290-337), after any sequence of calls:  *)
(* walking from the head finds exactly _num nodes, all live; the tail     *)
(* pointer is the next field of the last one (or NULL or the head's       *)
(* address when the list is empty); and every perfdata record in the list *)
(* refers to a state group that is in the group list.                     *)
ListsConsistent ==
  /\ \A k \in Kinds :
       LET c == Chain(k) IN
       /\ Len(c) = num[k]
       /\ \A i \in 1..Len(c) : alive[k][c[i]]
       /\ IF c = <<>> THEN tail[k] \in {NULL, HEAD} ELSE tail[k] = c[Len(c)]
  /\ \A d \in Nodes("counters") : dGroup[d] \in Nodes("groups")

(* The time a perfdata record has spent in its states adds up: after any  *)
(* sequence of qtperf_enter_state calls, its counters sum to the time      *)
(* from its first state entry to its latest one, and a record with a      *)
(* current state has a non-zero time_entered (qtp_validate_perfdata).     *)
TimeAccounted ==
  \A d \in Nodes("counters") :
     dCur[d] # INVALID =>
        /\ dEntered[d] > 0
        /\ SumFunction(dCtr[d]) = dEntered[d] - dFirst[d]

(* A group pointer kept for instrumentation points to a live state group  *)
(* of the registry: qtperf_set_instrument_* create the group only when    *)
(* the pointer is NULL, and perfdata for new workers is created in it.    *)
InstrumentGroupLive ==
  /\ workersGroup # NULL => workersGroup \in Nodes("groups")
  /\ qthreadsGroup # NULL => qthreadsGroup \in Nodes("groups")

=============================================================================
