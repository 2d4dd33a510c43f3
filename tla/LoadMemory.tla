----------------------------- MODULE LoadMemory ------------------------------
(***************************************************************************)
(* Physical memory as the Multiboot and Linux loaders use it: where        *)
(* memory_alloc() puts what they ask for, and what they write there.       *)
(* Module Memory is the allocator itself; here its free ranges are the     *)
(* sets of free pages, and what it chooses is the lowest or the highest    *)
(* place that fits.  An address is a number of cells.                      *)
(***************************************************************************)
EXTENDS Integers, Sequences, FiniteSetsExt, SequencesExt

CONSTANTS
  PAGE_SIZE,
  PHYS_MAX,     \* TARGET_PHYS_MAX, the last address there is
  LOW,          \* 0x10000, where both loaders put what they pass to the kernel
  LOW_END,      \* 0x90000 or 0x100000
  HIGH          \* 0x100000

ASSUME LoadMemoryAssumption ==
  /\ PAGE_SIZE \in Nat \ {0, 1} /\ PHYS_MAX \in Nat /\ (PHYS_MAX + 1) % PAGE_SIZE = 0
  /\ \A a \in {LOW, LOW_END, HIGH} : a \in Nat \ {0} /\ a % PAGE_SIZE = 0
  /\ LOW < LOW_END /\ LOW_END <= HIGH /\ HIGH < PHYS_MAX

VARIABLES
  part,     \* the loader under way
  config,   \* what has been configured, and the machine it is started on
  stage,    \* the step of the loader
  status,   \* "ok", or why the loader has stopped
  pages,    \* the type of each page, by its address
  cells     \* what has been written to each cell

loadVars == <<part, config, stage, status, pages, cells>>

NOWHERE == -1

round_up(n, a) == ((n + a - 1) \div a) * a
round_down(n, a) == n - (n % a)

Addresses == 0 .. PHYS_MAX
PageOf(addr) == round_down(addr, PAGE_SIZE)
PagesIn(start, size) == {PageOf(a) : a \in start .. start + size - 1}

(* memory_alloc(): size and align are multiples of a page, and max, 0 for  *)
(* none, is the last address allowed.                                      *)
Places(size, align, min, max) ==
  LET last == IF max = 0 \/ max > PHYS_MAX THEN PHYS_MAX ELSE max
      step == IF align = 0 THEN PAGE_SIZE ELSE align
  IN {p \in min .. (last - size) + 1 :
        p % step = 0 /\ \A q \in PagesIn(p, size) : pages[q] = "free"}

(* An empty request trips assert((max_addr - min_addr) >= (size - 1)).     *)
AllocLow(size, align, min, max) ==
  IF size = 0 \/ Places(size, align, min, max) = {} THEN NOWHERE ELSE Min(Places(size, align, min, max))
AllocHigh(size, align, min, max) ==
  IF size = 0 \/ Places(size, align, min, max) = {} THEN NOWHERE ELSE Max(Places(size, align, min, max))
RefusedWith(size) == IF size = 0 THEN "assert" ELSE "boot_error"

Taken(start, size, type) == [p \in DOMAIN pages |-> IF p \in PagesIn(start, size) THEN type ELSE pages[p]]

(* n cells from dest on; memory outside the machine's is not there.        *)
Written(mem, dest, n, What(_)) ==
  [a \in DOMAIN mem |-> IF a \in dest .. dest + n - 1 THEN What(a - dest) ELSE mem[a]]
Cleared(mem, dest, n) == Written(mem, dest, n, LAMBDA k : "zero")
FromFile(name, offset, k) == <<name, offset + k>>
ReadIn(mem, dest, n, name, offset) == Written(mem, dest, n, LAMBDA k : FromFile(name, offset, k))

HasFile(dest, n, name, offset) == \A k \in 0 .. n - 1 : cells[dest + k] = FromFile(name, offset, k)
HasZeros(dest, n) == \A k \in 0 .. n - 1 : cells[dest + k] = "zero"

Abandon(why) == status' = why /\ UNCHANGED <<part, config, stage, pages, cells>>
AtStage(at) == status = "ok" /\ stage = at
=============================================================================
