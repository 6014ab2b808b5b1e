--------------------------- MODULE SerialNumbers ---------------------------
(***************************************************************************)
(* Wrapping counters of a fixed width and the order the firmware puts on   *)
(* them.  control.rs compares command sequence numbers and                 *)
(* config_storage.rs compares journal generations with the same window     *)
(* test: "candidate != current && candidate.wrapping_sub(current) <        *)
(* 0x8000_0000".  The width is a parameter: modulus is 2^32 in the code,   *)
(* and half of it is the window.                                           *)
(***************************************************************************)
EXTENDS Integers

\* u32::wrapping_add and u32::wrapping_sub, for a counter of modulus m.
WrappingAdd(m, a, n) == (a + n) % m
WrappingSub(m, a, b) == (a - b) % m

\* candidate lies in the half-window ahead of current.
IsNewer(m, candidate, current) ==
  /\ candidate # current
  /\ 2 * WrappingSub(m, candidate, current) < m
=============================================================================
