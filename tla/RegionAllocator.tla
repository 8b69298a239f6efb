--------------------------- MODULE RegionAllocator ---------------------------
(***************************************************************************)
(* What liballoc and libfree promise a process: each of its variables owns *)
(* a block of the address space of the size it asked for, and no two own   *)
(* the same byte.  Where the blocks are is not promised; module UserAlloc  *)
(* decides it as libmem.c does.                                            *)
(***************************************************************************)
EXTENDS Integers

CONSTANTS
  Rgid,   \* the variables, region numbers of the symbol table
  Sizes   \* the sizes in bytes that programs ask for

VARIABLE block  \* block[r]: what variable r owns

Blocks   == [base : Nat, size : Nat]
NoBlock  == [base |-> 0, size |-> 0]
Bytes(b) == b.base .. (b.base + b.size - 1)

AllocatorInit == block = [r \in Rgid |-> NoBlock]

\* r gets n bytes nobody else owns; what it owned before, it loses.
Allocate(r, n) ==
  /\ block' = [block EXCEPT ![r] = block'[r]]
  /\ block'[r] \in Blocks /\ block'[r].size = n
  /\ \A q \in Rgid \ {r} : Bytes(block'[r]) \intersect Bytes(block[q]) = {}

Release(r) == block' = [block EXCEPT ![r] = NoBlock]

AllocatorNext == \E r \in Rgid : Release(r) \/ \E n \in Sizes : Allocate(r, n)

AllocatorSpec == AllocatorInit /\ [][AllocatorNext]_block

=============================================================================
