------------------------ MODULE SerialNumbers_proofs ------------------------
(***************************************************************************)
(* Arithmetic of wrapping counters, for every width: the facts about       *)
(* sequence_is_newer (control.rs) and generation_is_newer                  *)
(* (config_storage.rs) that the proofs about both rest on.                 *)
(***************************************************************************)
EXTENDS SerialNumbers, TLAPS

\* wrapping_add and wrapping_sub stay inside the counter's width.
LEMMA WrappingType ==
  ASSUME NEW m \in Nat \ {0}, NEW a \in Int, NEW b \in Int
  PROVE  /\ WrappingAdd(m, a, b) \in 0 .. m - 1
         /\ WrappingSub(m, a, b) \in 0 .. m - 1
  BY SMT DEF WrappingAdd, WrappingSub

\* wrapping_sub of two counters is their difference, or a turn more.
LEMMA WrappingSubCases ==
  ASSUME NEW m \in Nat \ {0}, NEW a \in 0 .. m - 1, NEW b \in 0 .. m - 1
  PROVE  WrappingSub(m, a, b) = IF a >= b THEN a - b ELSE a - b + m
  BY SMT DEF WrappingSub

\* Distances along the counter add up as long as they stay below one turn.
LEMMA WrappingSubAdds ==
  ASSUME NEW m \in Nat \ {0},
         NEW a \in 0 .. m - 1, NEW b \in 0 .. m - 1, NEW c \in 0 .. m - 1,
         WrappingSub(m, c, b) + WrappingSub(m, b, a) < m
  PROVE  WrappingSub(m, c, a) = WrappingSub(m, c, b) + WrappingSub(m, b, a)
  BY WrappingSubCases, SMT

\* A value at most half a turn behind is not newer: what sequence_is_newer
\* and generation_is_newer refuse.
LEMMA BehindIsNotNewer ==
  ASSUME NEW m \in Nat \ {0}, NEW old \in 0 .. m - 1, NEW current \in 0 .. m - 1,
         2 * WrappingSub(m, current, old) <= m
  PROVE  ~ IsNewer(m, old, current)
  BY WrappingSubCases, SMT DEF IsNewer

\* Of two different values at most one is newer than the other.
LEMMA IsNewerAsymmetric ==
  ASSUME NEW m \in Nat \ {0}, NEW a \in 0 .. m - 1, NEW b \in 0 .. m - 1,
         IsNewer(m, a, b)
  PROVE  ~ IsNewer(m, b, a)
  BY WrappingSubCases, SMT DEF IsNewer
=============================================================================
