-------------------------------- MODULE Bytes --------------------------------
(***************************************************************************)
(* Integers as the code reads and combines them.  U64 stands for 2^64, so  *)
(* that instances can have a small address space.                          *)
(***************************************************************************)
EXTENDS Integers, FiniteSetsExt

CONSTANT U64  \* 2^64: offsets and sizes are u64

U16 == {v \in Nat : v < 65536}

\* le_u16, le_u32, le_u64: a field that is not wholly there reads as 0.
Field(len, off, width, value) == IF off + width =< len THEN value ELSE 0

\* u64 addition; the release profile has no overflow checks, so it wraps.
Add64(a, b) == (a + b) % U64

saturating_mul(a, b) == Min({a * b, U64 - 1})
=============================================================================
