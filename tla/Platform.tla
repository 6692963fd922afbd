------------------------------ MODULE Platform ------------------------------
(***************************************************************************)
(* The machine BINLens is built for: 64-bit addresses, size_t and the      *)
(* allocator, whose widths the other modules take as parameters.           *)
(***************************************************************************)
EXTENDS Integers

CONSTANTS
  AddrMax,  \* UINT64_MAX
  SizeMax,  \* SIZE_MAX
  AllocMax  \* the largest block malloc or realloc hands out (PTRDIFF_MAX)

ASSUME WidthAssumption ==
  /\ AddrMax \in Nat
  /\ SizeMax \in 1 .. AddrMax
  /\ AllocMax \in Nat
  /\ 2 * AllocMax <= SizeMax

Address == 0 .. AddrMax

(* Unsigned arithmetic: one addition or subtraction wraps at most once.    *)

WrapAddr(x) ==
  IF x > AddrMax THEN x - (AddrMax + 1) ELSE IF x < 0 THEN x + AddrMax + 1 ELSE x

WrapSize(x) ==
  IF x > SizeMax THEN x - (SizeMax + 1) ELSE IF x < 0 THEN x + SizeMax + 1 ELSE x

\* Doubling from cap until need fits, or exactly need once doubling overflows:
\* the capacity the loop of builder_append ends with (module BufferGrowth).
GrownCapacity(cap, need) ==
  LET fits == {cap * 2^n : n \in 0 .. need} \cap (need .. SizeMax)
  IN  IF fits = {} THEN need ELSE CHOOSE x \in fits : \A y \in fits : x <= y

\* malloc and realloc may refuse any request and never hand out more.
Grantable(size) == size <= AllocMax

=============================================================================
