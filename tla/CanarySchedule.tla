--------------------------- MODULE CanarySchedule ---------------------------
(***************************************************************************)
(* The arithmetic of strategies.RunCanary: how many replicas one canary    *)
(* step adds, and which replica counts the loop                            *)
(*     for cur := step; cur <= replicas; cur += step { ... }               *)
(* scales the Deployment to.  Go's int holds IntSize values and its int32  *)
(* Int32Size, half of them negative; an operation that leaves the range    *)
(* wraps around.  Pure operators, no state.                                *)
(***************************************************************************)
EXTENDS Integers

CONSTANTS
  Int32Size,  \* 2^32: how many values an int32 has
  IntSize     \* 2^64: how many values an int has

ASSUME SizesAssumption ==
  /\ Int32Size \in Nat /\ Int32Size > 2 /\ Int32Size % 2 = 0
  /\ IntSize \in Nat /\ IntSize > 2 /\ IntSize % 2 = 0

MaxInt32 == Int32Size \div 2 - 1
Int32    == -(Int32Size \div 2) .. MaxInt32

\* x in two's complement, in a type of the given size.
Wrap(x, size) == ((x + size \div 2) % size) - size \div 2

\* applyStrategy takes the request's canaryStep, the configured default when
\* that is 0, and RunCanary takes 20 when the result is not positive.
StepPercent(requested, configured) ==
  LET chosen == IF requested = 0 THEN configured ELSE requested
  IN  IF chosen <= 0 THEN 20 ELSE chosen

\* int(replicas) * StepPercent / 100.  Go truncates where \div rounds down,
\* which differs for a negative product only, and max(1, ...) makes both 1.
Share(replicas, percent) == Wrap(replicas * percent, IntSize) \div 100

\* Variant: the step stays the int it was computed in.
StepUnconverted(replicas, percent) ==
  IF Share(replicas, percent) > 1 THEN Share(replicas, percent) ELSE 1

\* step := int32(max(1, int(replicas) * StepPercent / 100)).
Step(replicas, percent) ==
  Wrap(IF Share(replicas, percent) > 1 THEN Share(replicas, percent) ELSE 1, Int32Size)

\* Variant: the loop runs once more than it should.
InLoopOnceMore(cur, replicas) == cur <= replicas + 1

\* The loop condition, at the value cur of the loop variable.
InLoop(cur, replicas) == cur <= replicas

\* The loop variable's next value, an int32.
Advance(cur, step) == Wrap(cur + step, Int32Size)
=============================================================================
