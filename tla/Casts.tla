------------------------------- MODULE Casts -------------------------------
(***************************************************************************)
(* The checked casts and the checked arithmetic of utils/cast/rte_cast.c.  *)
(*                                                                         *)
(* The 72 conversions are one function per pair of types.  They differ     *)
(* only in the comparisons they make before the C cast, so a conversion is *)
(* the set of its comparisons: "low" against the destination's minimum,    *)
(* "high" against its maximum.  The C cast itself wraps.  The widths are   *)
(* constants, so that the boundaries of every type can be enumerated.      *)
(***************************************************************************)
EXTENDS Integers, FiniteSets

CONSTANTS W8, W16, W32, W64,   \* the widths in bits of the fixed-width types
          WSIZE                \* the width of size_t on the target

ASSUME WidthAssumption ==
  /\ W8 \in Nat \ {0} /\ W16 \in Nat /\ W32 \in Nat /\ W64 \in Nat
  /\ W8 < W16 /\ W16 < W32 /\ 2 * W32 <= W64
  /\ WSIZE \in {W32, W64}

Types == {"i8", "i16", "i32", "i64", "u8", "u16", "u32", "u64", "size"}
Signed == {"i8", "i16", "i32", "i64"}

Width == [i8 |-> W8, i16 |-> W16, i32 |-> W32, i64 |-> W64,
          u8 |-> W8, u16 |-> W16, u32 |-> W32, u64 |-> W64, size |-> WSIZE]

\* 2^n
Pow2[n \in Nat] == IF n = 0 THEN 1 ELSE 2 * Pow2[n - 1]

MinOf(t) == IF t \in Signed THEN -Pow2[Width[t] - 1] ELSE 0
MaxOf(t) == IF t \in Signed THEN Pow2[Width[t] - 1] - 1 ELSE Pow2[Width[t]] - 1
Values(t) == MinOf(t)..MaxOf(t)

\* The C cast: reduction modulo 2^width into the range of the type.
CCast(v, t) ==
  IF t \in Signed
  THEN ((v + Pow2[Width[t] - 1]) % Pow2[Width[t]]) - Pow2[Width[t] - 1]
  ELSE v % Pow2[Width[t]]

-----------------------------------------------------------------------------
(* The comparisons of every conversion, one table per source type.         *)

None == {}
Low == {"low"}
High == {"high"}
Both == {"low", "high"}

\* The comparison with SIZE_MAX that is compiled in where size_t is narrow.
IfSizeIsNarrow == IF WSIZE < W64 THEN High ELSE None

rte_cast_i8_to ==
  [i16 |-> None, i32 |-> None, i64 |-> None, u8 |-> Low, u16 |-> Low,
   u32 |-> Low, u64 |-> Low, size |-> Low \cup IfSizeIsNarrow]
rte_cast_i16_to ==
  [i8 |-> Both, i32 |-> None, i64 |-> None, u8 |-> Both, u16 |-> Low,
   u32 |-> Low, u64 |-> Low, size |-> Low \cup IfSizeIsNarrow]
rte_cast_i32_to ==
  [i8 |-> Both, i16 |-> Both, i64 |-> None, u8 |-> Both, u16 |-> Both,
   u32 |-> Low, u64 |-> Low, size |-> Low \cup IfSizeIsNarrow]
rte_cast_i64_to ==
  [i8 |-> Both, i16 |-> Both, i32 |-> Both, u8 |-> Both, u16 |-> Both,
   u32 |-> Both, u64 |-> Low, size |-> Low \cup IfSizeIsNarrow]
rte_cast_u8_to ==
  [i8 |-> High, i16 |-> None, i32 |-> None, i64 |-> None, u16 |-> None,
   u32 |-> None, u64 |-> None, size |-> IfSizeIsNarrow]
rte_cast_u16_to ==
  [i8 |-> High, i16 |-> High, i32 |-> None, i64 |-> None, u8 |-> High,
   u32 |-> None, u64 |-> None, size |-> IfSizeIsNarrow]
rte_cast_u32_to ==
  [i8 |-> High, i16 |-> High, i32 |-> High, i64 |-> None, u8 |-> High,
   u16 |-> High, u64 |-> None, size |-> IfSizeIsNarrow]
rte_cast_u64_to ==
  [i8 |-> High, i16 |-> High, i32 |-> High, i64 |-> High, u8 |-> High,
   u16 |-> High, u32 |-> High, size |-> IfSizeIsNarrow]
rte_cast_size_to ==
  [i8 |-> High, i16 |-> High, i32 |-> High, i64 |-> High, u8 |-> High,
   u16 |-> High, u32 |-> High, u64 |-> None]

Comparisons ==
  [i8 |-> rte_cast_i8_to, i16 |-> rte_cast_i16_to, i32 |-> rte_cast_i32_to,
   i64 |-> rte_cast_i64_to, u8 |-> rte_cast_u8_to, u16 |-> rte_cast_u16_to,
   u32 |-> rte_cast_u32_to, u64 |-> rte_cast_u64_to, size |-> rte_cast_size_to]

\* What a call returns: its status and, when that is OK, what it stores.
Answer(ok, v) == [ok |-> ok, out |-> v]
OutOfRange == Answer(FALSE, 0)

\* rte_cast_<from>_to_<to>(v): out is written only past every comparison.
cast(from, to, v) ==
  LET tests == Comparisons[from][to] IN
  IF ("low" \in tests /\ v < MinOf(to)) \/ ("high" \in tests /\ v > MaxOf(to))
  THEN OutOfRange
  ELSE Answer(TRUE, CCast(v, to))

-----------------------------------------------------------------------------
(* Checked arithmetic: the 32-bit operations widen first, the size_t ones  *)
(* have nothing wider and compare before they compute.                     *)

checked_add_u32(a, b) ==
  LET widened == CCast(a + b, "u64") IN
  IF widened > MaxOf("u32") THEN OutOfRange ELSE Answer(TRUE, widened)
checked_mul_u32(a, b) ==
  LET widened == CCast(a * b, "u64") IN
  IF widened > MaxOf("u32") THEN OutOfRange ELSE Answer(TRUE, widened)
checked_sub_u32(a, b) ==
  IF b > a THEN OutOfRange ELSE Answer(TRUE, CCast(a - b, "u32"))
checked_add_size(a, b) ==
  IF b > MaxOf("size") - a THEN OutOfRange
  ELSE Answer(TRUE, CCast(a + b, "size"))
checked_mul_size(a, b) ==
  IF a # 0 /\ b > MaxOf("size") \div a THEN OutOfRange
  ELSE Answer(TRUE, CCast(a * b, "size"))
checked_sub_size(a, b) ==
  IF b > a THEN OutOfRange ELSE Answer(TRUE, CCast(a - b, "size"))
bounds_check(index, count) == index < count

=============================================================================
