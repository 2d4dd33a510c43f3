---------------------------- MODULE AddressSpace ----------------------------
(***************************************************************************)
(* Addresses as the code has them: unsigned numbers of one width           *)
(* (phys_ptr_t, load_ptr_t), so that what is computed past the end of the  *)
(* address space wraps here as it does there.                              *)
(***************************************************************************)
EXTENDS Integers

CONSTANTS
  AddrMod,     \* number of addresses there are, 2^64
  PAGE_SIZE    \* granularity of what is mapped or allocated

ASSUME AddressSpaceAssumption ==
  /\ PAGE_SIZE \in Nat \ {0, 1}
  /\ AddrMod \in Nat /\ AddrMod > PAGE_SIZE
  /\ AddrMod % PAGE_SIZE = 0

Addr == 0 .. AddrMod - 1

(* Unsigned arithmetic on addresses. *)
Wrap(x) == x % AddrMod
=============================================================================
