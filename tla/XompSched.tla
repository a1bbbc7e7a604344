----------------------------- MODULE XompSched -----------------------------
(***************************************************************************)
(* The iteration-assignment arithmetic of src/src/rose_xomp.c, as pure     *)
(* operators: the static block formula of XOMP_loop_static_start, the      *)
(* block size of compute_XOMP_block and its "min size 1" adjustment in     *)
(* XOMP_loop_guided_start, and the iterations a returned [lower, upper]    *)
(* chunk makes the generated loop "for (i=lower; i<=upper; i+=stride)"     *)
(* execute.  Used by XompLoop, whose runs check that the chunks partition *)
(* the iteration space (WorkShareSpec, ExactlyOnce).                     *)
(***************************************************************************)
EXTENDS Integers

(* The integers i with lo <= i <= hi that the outlined loop body runs for  *)
(* a chunk [lo, hi] with stride step (step >= 1).                          *)
ChunkIters(lo, hi, step) == {i \in lo..hi : (i - lo) % step = 0}

(* XOMP_loop_static_start: the lower bound of worker myid's k-th block.   *)
StaticLower(start, step, width, myid, k) ==
  start + (k * step * width) + (myid * step)

(* XOMP_loop_static_start: the upper bound.  The clip to stop is guarded   *)
(* by "stop - (lower + chunkSize-1) < 0" where stop is an aligned_t, so    *)
(* the difference is unsigned and the test never holds: the upper bound   *)
(* is always lower + step - 1.                                             *)
StaticUpper(lower, step) == lower + (step - 1)

(* Mutant of StaticHasWork: the last iteration counted as exhausted.     *)
StaticHasWorkStrict(stop, lower) == stop - lower > 0

(* XOMP_loop_static_start: "(long)stop - *returnLower >= 0".               *)
StaticHasWork(stop, lower) == stop - lower >= 0

(* qloop_internal_computeNextBlock (qloop.c, outside src/): the guided    *)
(* self-scheduling block, remaining iterations ahead of the cursor        *)
(* divided by the worker count, floored at 1.                              *)
GuidedBlock(stop, next, width) ==
  IF next > stop THEN 1
  ELSE IF (stop - next) \div width < 1 THEN 1 ELSE (stop - next) \div width

(* compute_XOMP_block: GUIDED asks qloop for a block; STATIC, DYNAMIC and  *)
(* RUNTIME return the descriptor's chunkSize.                              *)
ComputeBlock(type, chunkSize, stop, next, width) ==
  IF type = "GUIDED" THEN GuidedBlock(stop, next, width) ELSE chunkSize

(* XOMP_loop_guided_start: "(dynamicBlock <= 1) ? 1 : (dynamicBlock - 1)". *)
MinSizeOne(b) == IF b <= 1 THEN 1 ELSE b - 1

=============================================================================
