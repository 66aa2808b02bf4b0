------------------------------- MODULE SeqNum -------------------------------
(***************************************************************************)
(* Sequence numbers of the transport program: a uint8_t field that wraps   *)
(* after MAX_SEQ_NUM (255 in common.h), compared by seq_num_diff.          *)
(* MAX_SEQ_NUM is a parameter so that TLC can reach the wrap-around.       *)
(***************************************************************************)
EXTENDS Integers

CONSTANT MAX_SEQ_NUM

ASSUME SeqNumAssumption == MAX_SEQ_NUM \in Nat /\ MAX_SEQ_NUM % 2 = 1

SeqNums == 0 .. MAX_SEQ_NUM

\* The bounds that keep TLC's state spaces finite may be lifted.
Unbounded       == -1
Within(n, bound) == bound = Unbounded \/ n <= bound

\* The literal 127 of seq_num_diff.
HALF == MAX_SEQ_NUM \div 2

\* n increments of a uint8_t that holds x, for n at most MAX_SEQ_NUM + 1.
SeqAdd(x, n) ==
  IF x + n > MAX_SEQ_NUM THEN x + n - (MAX_SEQ_NUM + 1) ELSE x + n

SeqInc(x) == SeqAdd(x, 1)

\* How far x2 lies after x1; negative when it lies before.
SeqNumDiff(x1, x2) ==
  LET diff == x2 - x1
  IN  IF diff > HALF THEN diff - (MAX_SEQ_NUM + 1)
      ELSE IF diff < -HALF THEN diff + (MAX_SEQ_NUM + 1)
      ELSE diff
=============================================================================
