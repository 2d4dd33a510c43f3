------------------------------ MODULE Canonical -----------------------------
(***************************************************************************)
(* The addresses a kernel can use.  In 64-bit mode these are the canonical *)
(* addresses (arch/x86/include/x86/mmu.h): the lowest and the highest      *)
(* HALF, and a range lies in one of the two.                               *)
(***************************************************************************)
EXTENDS AddressSpace

CONSTANTS
  HALF,     \* size of either canonical half (64-bit mode)
  LIMIT     \* 4 GiB: the physical and virtual limit of 32-bit mode

ASSUME CanonicalAssumption ==
  HALF \in Nat \ {0} /\ LIMIT \in Nat \ {0} /\ 2 * HALF <= AddrMod /\ LIMIT <= AddrMod

is_canonical_addr(addr) == addr < HALF \/ addr >= AddrMod - HALF

is_canonical_range(start, size) ==
  LET end == Wrap(start + size - 1)
  IN  /\ is_canonical_addr(start)
      /\ is_canonical_addr(end)
      /\ start < HALF <=> end < HALF

(* The same addresses on ARM64 (arch/arm64/include/arm64/mmu.h), where the *)
(* two ends of a range may lie in different halves.                        *)
is_valid_range(start, size) ==
  LET end == Wrap(start + size - 1)
  IN  end >= start /\ is_canonical_addr(start) /\ is_canonical_addr(end)
=============================================================================
