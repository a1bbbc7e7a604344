----------------------------- MODULE Wavefront ------------------------------
(***************************************************************************)
(* The wavefront pattern of src/src/wavefront.c: qt_wavefront and the      *)
(* qt_wavefront_worker it forks on every shepherd.                         *)
(*                                                                         *)
(* The lattice has NC columns and NR rows of work units <<col, row>>.      *)
(* Unit <<c, r>> reads the strut segment struts[c][r] (its left input) and *)
(* the slat segment slats[r][c] (its below input), and produces            *)
(* struts[c+1][r] (right) and slats[r+1][c] (above).  A strip is NULL      *)
(* until a worker stores a qarray in it: the model records for each strip  *)
(* whether it is NULL, allocated, or allocated and holding its data.      *)
(*                                                                         *)
(* The qdqueue (not in this repository) is modelled as one FIFO queue that *)
(* every worker dequeues from; qdqueue_enqueue_there appends.  The values  *)
(* computed are left out: a unit's computation is one step, and the        *)
(* history variable runs counts how often each unit was computed.         *)
(***************************************************************************)
EXTENDS WavefrontLattice, WavefrontRegion, Sequences, FiniteSets

CONSTANTS
  Workers,        \* the shepherds, one qt_wavefront_worker each
  VC, VS,         \* vertical->count, vertical->segment_size
  HC, HS,         \* horizontal->count, horizontal->segment_size
  NULL

NR == StrutsSegs(VC, VS)
NC == SlatsSegs(HC, HS)
Units == (0..NC-1) \X (0..NR-1)

(* left->count and below->count of a unit.                                  *)
Rows(u) == StrutLen(VC, VS, u[2])
Cols(u) == SlatLen(HC, HS, u[1])

VARIABLES
  mpc,         \* qt_wavefront: "spawn", "enqueue", "wait", "returned"
  queue,       \* the work queue, head first
  strut,       \* strut[<<c, r>>]: L->struts.strips[c][r] is non-NULL
  slat,        \* slat[<<r, c>>]: L->slats.strips[r][c]: "null", "alloc", "filled"
  noMoreWork,  \* no_more_work
  donecount,   \* donecount
  wpc,         \* wpc[w]: the worker's place in its loop
  wu,          \* wu[w]: the unit the worker holds, or NULL
  local,       \* local[w]: rows and cols of its local buffer, or NULL
  rp,          \* rp[w][i]: where the worker's R[i] points
  runs         \* runs[u]: how often unit u was computed (history)

vars == <<mpc, queue, strut, slat, noMoreWork, donecount, wpc, wu, local, rp, runs>>

(* An entry of R points at column i of the worker's local buffer, at the   *)
(* first element of unit u's right strut, or nowhere (calloc'ed NULL).    *)
LocalCol(i) == [kind |-> "local", col |-> i]
RightOf(u)  == [kind |-> "right", unit |-> u]
RSlots == UNION {0..Cols(u) - 2 : u \in Units}
Targets == {LocalCol(i) : i \in RSlots} \cup {RightOf(u) : u \in Units} \cup {NULL}

(* Step 1, lines 204-259: the strips are calloc'ed NULL, then strut 0 and  *)
(* slat 0 are filled from the input arrays.                                *)
Init ==
  /\ mpc = "spawn"
  /\ queue = <<>>
  /\ strut = [p \in (0..NC) \X (0..NR-1) |-> p[1] = 0]
  /\ slat = [p \in (0..NR) \X (0..NC-1) |-> IF p[1] = 0 THEN "filled" ELSE "null"]
  /\ noMoreWork = FALSE
  /\ donecount = 0
  /\ wpc = [w \in Workers |-> "unborn"]
  /\ wu = [w \in Workers |-> NULL]
  /\ local = [w \in Workers |-> NULL]
  /\ rp = [w \in Workers |-> [i \in RSlots |-> NULL]]
  /\ runs = [u \in Units |-> 0]

-----------------------------------------------------------------------------
(* Step 3, lines 264-266: one worker is forked on every shepherd.          *)
Spawn ==
  /\ mpc = "spawn"
  /\ mpc' = "enqueue"
  /\ wpc' = [w \in Workers |-> "deq"]
  /\ UNCHANGED <<queue, strut, slat, noMoreWork, donecount, wu, local, rp, runs>>

(* Step 4, lines 268-270: the unit of the lower-left corner is queued.     *)
EnqueueCorner ==
  /\ mpc = "enqueue"
  /\ mpc' = "wait"
  /\ queue' = Append(queue, <<0, 0>>)
  /\ UNCHANGED <<strut, slat, noMoreWork, donecount, wpc, wu, local, rp, runs>>

(* Step 5, lines 272-276: qt_wavefront returns once every worker has       *)
(* counted itself done.                                                     *)
Return ==
  /\ mpc = "wait"
  /\ donecount = Cardinality(Workers)
  /\ mpc' = "returned"
  /\ UNCHANGED <<queue, strut, slat, noMoreWork, donecount, wpc, wu, local, rp, runs>>

-----------------------------------------------------------------------------
(* Lines 111-129: a ready unit u is taken.  On the worker's first unit    *)
(* local is sized left->count * (below->count-1) and R calloc'ed with      *)
(* below->count-1 entries, R[i] pointing at local column i for i <         *)
(* below->count-2; those are never set again.  On every unit the above     *)
(* slat is allocated and stored, and R[below->count-2] is pointed at the   *)
(* new right strut (line 129).                                             *)
TakeUnit(w, u) ==
  LET first == local[w] = NULL
      R0 == IF first
              THEN [i \in RSlots |-> IF i < Cols(u) - 2 THEN LocalCol(i) ELSE NULL]
              ELSE rp[w]
  IN  /\ wu' = [wu EXCEPT ![w] = u]
      /\ local' = IF first
                    THEN [local EXCEPT ![w] = [rows |-> Rows(u), cols |-> Cols(u)]]
                    ELSE local
      /\ rp' = [rp EXCEPT ![w] = [R0 EXCEPT ![Cols(u) - 2] = RightOf(u)]]
      /\ slat' = [slat EXCEPT ![<<u[2] + 1, u[1]>>] = "alloc"]
      /\ wpc' = [wpc EXCEPT ![w] = "compute"]

(* Mutant of Dequeue: the unit is run without testing that left is ready.  *)
DequeueNoWait(w) ==
  /\ wpc[w] = "deq"
  /\ queue # <<>>
  /\ LET u == Head(queue) IN
     /\ queue' = Tail(queue)
     /\ TakeUnit(w, u)
  /\ UNCHANGED <<mpc, strut, noMoreWork, donecount, runs>>

(* Mutant of Dequeue: a unit that is not ready is queued again without    *)
(* being taken off the head.                                               *)
DequeueKeepHead(w) ==
  /\ wpc[w] = "deq"
  /\ queue # <<>>
  /\ LET u == Head(queue) IN
     IF ~strut[u]
       THEN /\ queue' = Append(queue, u)
            /\ UNCHANGED <<slat, wpc, wu, local, rp>>
       ELSE /\ queue' = Tail(queue)
            /\ TakeUnit(w, u)
  /\ UNCHANGED <<mpc, strut, noMoreWork, donecount, runs>>

(* Lines 90, 97-129: dequeue a unit.  If its left strut is still NULL it   *)
(* is queued again; otherwise the worker takes it (TakeUnit).             *)
Dequeue(w) ==
  /\ wpc[w] = "deq"
  /\ queue # <<>>
  /\ LET u == Head(queue) IN
     IF ~strut[u]
       THEN /\ queue' = Append(Tail(queue), u)
            /\ UNCHANGED <<slat, wpc, wu, local, rp>>
       ELSE /\ queue' = Tail(queue)
            /\ TakeUnit(w, u)
  /\ UNCHANGED <<mpc, strut, noMoreWork, donecount, runs>>

(* Lines 130-140: qt_wavefront_regionworker computes the unit, writing the *)
(* right column straight into the right qarray, and the top row is copied *)
(* into the above slat.                                                     *)
Compute(w) ==
  /\ wpc[w] = "compute"
  /\ runs' = [runs EXCEPT ![wu[w]] = @ + 1]
  /\ slat' = [slat EXCEPT ![<<wu[w][2] + 1, wu[w][1]>>] = "filled"]
  /\ wpc' = [wpc EXCEPT ![w] = "publish"]
  /\ UNCHANGED <<mpc, queue, strut, noMoreWork, donecount, wu, local, rp>>

(* Line 141: the right strut is stored in the lattice.                     *)
PublishRight(w) ==
  /\ wpc[w] = "publish"
  /\ strut' = [strut EXCEPT ![<<wu[w][1] + 1, wu[w][2]>>] = TRUE]
  /\ wpc' = [wpc EXCEPT ![w] = "right"]
  /\ UNCHANGED <<mpc, queue, slat, noMoreWork, donecount, wu, local, rp, runs>>

(* Lines 143-151: a unit of the bottom row queues its right neighbour.     *)
EnqueueRight(w) ==
  /\ wpc[w] = "right"
  /\ LET c == wu[w][1]
         r == wu[w][2]
     IN  queue' = IF r = 0 /\ c < NC - 1 THEN Append(queue, <<c + 1, 0>>) ELSE queue
  /\ wpc' = [wpc EXCEPT ![w] = "up"]
  /\ UNCHANGED <<mpc, strut, slat, noMoreWork, donecount, wu, local, rp, runs>>

(* Mutant of EnqueueUp: the last unit's column is compared with NC.        *)
EnqueueUpOffByOne(w) ==
  /\ wpc[w] = "up"
  /\ LET c == wu[w][1]
         r == wu[w][2]
     IN  IF r < NR - 1
           THEN /\ queue' = Append(queue, <<c, r + 1>>)
                /\ UNCHANGED noMoreWork
           ELSE /\ noMoreWork' = (noMoreWork \/ c = NC)
                /\ UNCHANGED queue
  /\ wpc' = [wpc EXCEPT ![w] = "deq"]
  /\ wu' = [wu EXCEPT ![w] = NULL]
  /\ UNCHANGED <<mpc, strut, slat, donecount, local, rp, runs>>

(* Lines 152-164: the unit above is queued (reusing the work unit); the    *)
(* unit of the top-right corner sets no_more_work.                          *)
EnqueueUp(w) ==
  /\ wpc[w] = "up"
  /\ LET c == wu[w][1]
         r == wu[w][2]
     IN  IF r < NR - 1
           THEN /\ queue' = Append(queue, <<c, r + 1>>)
                /\ UNCHANGED noMoreWork
           ELSE /\ noMoreWork' = (noMoreWork \/ c = NC - 1)
                /\ UNCHANGED queue
  /\ wpc' = [wpc EXCEPT ![w] = "deq"]
  /\ wu' = [wu EXCEPT ![w] = NULL]
  /\ UNCHANGED <<mpc, strut, slat, donecount, local, rp, runs>>

(* Mutant of Finish: the worker does not leave its loop.                   *)
FinishNoExit(w) ==
  /\ wpc[w] = "deq"
  /\ queue = <<>>
  /\ noMoreWork
  /\ donecount' = donecount + 1
  /\ UNCHANGED <<mpc, queue, strut, slat, noMoreWork, wpc, wu, local, rp, runs>>

(* Lines 91-95, 167-170: with the queue empty and no_more_work set, the    *)
(* worker counts itself done and leaves.  With the queue empty and         *)
(* no_more_work clear it yields (line 96), which changes nothing.          *)
Finish(w) ==
  /\ wpc[w] = "deq"
  /\ queue = <<>>
  /\ noMoreWork
  /\ donecount' = donecount + 1
  /\ wpc' = [wpc EXCEPT ![w] = "exit"]
  /\ UNCHANGED <<mpc, queue, strut, slat, noMoreWork, wu, local, rp, runs>>

WorkerStep(w) ==
  \/ Dequeue(w) \/ Compute(w) \/ PublishRight(w)
  \/ EnqueueRight(w) \/ EnqueueUp(w) \/ Finish(w)

Next ==
  \/ Spawn \/ EnqueueCorner \/ Return
  \/ \E w \in Workers : WorkerStep(w)

(* Workers are qthreads that yield while the queue is empty and are        *)
(* rescheduled; the caller yields in its wait loop.  Every thread keeps    *)
(* running, so each is weakly fair.                                         *)
Fairness ==
  /\ WF_vars(Spawn \/ EnqueueCorner \/ Return)
  /\ \A w \in Workers : WF_vars(WorkerStep(w))

Spec == Init /\ [][Next]_vars /\ Fairness

-----------------------------------------------------------------------------
TypeOK ==
  /\ mpc \in {"spawn", "enqueue", "wait", "returned"}
  /\ queue \in Seq(Units)
  /\ strut \in [(0..NC) \X (0..NR-1) -> BOOLEAN]
  /\ slat \in [(0..NR) \X (0..NC-1) -> {"null", "alloc", "filled"}]
  /\ noMoreWork \in BOOLEAN
  /\ donecount \in 0..Cardinality(Workers)
  /\ wpc \in [Workers -> {"unborn", "deq", "compute", "publish", "right", "up", "exit"}]
  /\ wu \in [Workers -> Units \cup {NULL}]
  /\ rp \in [Workers -> [RSlots -> Targets]]
  /\ runs \in [Units -> Nat]

(* A unit is computed only when both inputs hold their data: the left      *)
(* strut published by the unit to its left (line 106 tests only that) and  *)
(* the below slat filled by the unit below (line 105 asserts only that it  *)
(* is non-NULL; it is stored at line 128 before its data is copied at      *)
(* 137-139).                                                                *)
InputsReady ==
  \A w \in Workers : wpc[w] = "compute" =>
     LET c == wu[w][1]
         r == wu[w][2]
     IN  /\ strut[<<c, r>>]
         /\ slat[<<r, c>>] = "filled"


(* The unit a worker computes, with the rows and columns it has in this    *)
(* lattice, yields what qt_basic_wavefront yields on the same inputs       *)
(* (WavefrontRegion): qt_wavefront_regionworker's four argument patterns  *)
(* and the copy into the above slat agree with the sequential reference.  *)
UnitComputesReference ==
  \A w \in Workers : wpc[w] = "compute" =>
     UnitMatchesBasic(Rows(wu[w]), Cols(wu[w]) - 1)

(* Refinement: a unit is computed in the abstract when the worker holding *)
(* it runs qt_wavefront_regionworker on it, and the abstract call returns  *)
(* when qt_wavefront does.                                                 *)
Abs == INSTANCE WavefrontSpec WITH computed <- runs, returned <- (mpc = "returned")

(* qt_wavefront implements WavefrontSpec: no unit is computed twice (runs *)
(* would leave 0..1), none before the units to its left and below, the     *)
(* call returns only when every unit is computed (no_more_work, set by the *)
(* top-right unit, must not let the workers leave early), and under the    *)
(* workers' fairness every unit is computed and the call returns.          *)
WavefrontRefines == Abs!Spec

(* The cells qt_wavefront_regionworker writes for column col of the unit *)
(* worker w holds: R[col] + row*U_S for each of its left->count rows, as   *)
(* <<buffer, unit, offset>>; a local column is at offset col*rows of the   *)
(* local buffer sized by the worker's first unit.                          *)
Output(w, col) ==
  LET t == rp[w][col]
      n == Rows(wu[w])
  IN  IF t.kind = "local"
        THEN {<<"local", wu[w], t.col * local[w].rows + k>> : k \in 0..n-1}
        ELSE {<<"right", t.unit, k>> : k \in 0..n-1}

(* What a unit computes lands only where it is meant to (lines 26-57 with *)
(* the R set up at 112-129): every column 0..below->count-2 it writes has *)
(* an entry in the R array calloc'ed for the first unit and that entry is  *)
(* not NULL; the cells lie inside the local buffer or in this unit's own   *)
(* right strut, never in a strut already published to another unit; and   *)
(* no two columns share a cell.  R's local entries are set once, for the   *)
(* first unit's shape, and R[below->count-2] is re-pointed on every unit,  *)
(* so a worker whose units differ in shape may break this.                 *)
RegionOutputsPrivate ==
  \A w \in Workers : wpc[w] = "compute" =>
     LET u == wu[w]
         Out == 0..Cols(u) - 2
     IN  /\ \A c \in Out : c < local[w].cols - 1 /\ rp[w][c] # NULL
         /\ \A c \in Out : \A x \in Output(w, c) :
               /\ x[1] = "right" => x[2] = u
               /\ x[1] = "local" => x[3] < local[w].rows * (local[w].cols - 1)
         /\ \A c, d \in Out : c # d => Output(w, c) \cap Output(w, d) = {}

=============================================================================
