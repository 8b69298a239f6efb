------------------------------ MODULE UserAlloc ------------------------------
(***************************************************************************)
(* libmem.c and mm-vm.c: how the memory area of one process is divided     *)
(* among its variables, by liballoc and libfree, and grows through the     *)
(* system call sys_memmap.  __alloc and __free hold mmvm_lock from their   *)
(* first access to their last, and a process is on one CPU at a time, so a *)
(* call is one action.  Addresses and sizes are far from the limits of     *)
(* their types.                                                            *)
(***************************************************************************)
EXTENDS Integers, Sequences, SequencesExt

CONSTANTS
  Rgid,      \* the register numbers a program uses, below PAGING_MAX_SYMTBL_SZ
  Sizes,     \* the sizes it asks for
  PageSize,  \* PAGING64_PAGESZ
  AreaCap,   \* the area is not grown beyond this address
  Garbage,   \* what malloc may leave in a symbol table entry
  CallerFound \* whether sys_memmap finds its caller in the running list

Region(first, end) == [rg_start |-> first, rg_end |-> end]
Regions == [rg_start : Nat, rg_end : Nat]
Extents == {rg \in Regions : rg.rg_start <= rg.rg_end}
Unset   == Region(0, 0)

ASSUME UserAllocAssumption ==
  /\ Sizes \subseteq Nat
  /\ PageSize \in Nat \ {0}
  /\ AreaCap \in Nat
  /\ Garbage \subseteq Extents
  /\ CallerFound \in SUBSET BOOLEAN

VARIABLES
  vm_end, sbrk,    \* of the one vm area of the process; its vm_start is 0
  vm_freerg_list,  \* its free regions
  symrgtbl,        \* symrgtbl[r]: the region of variable r
  used             \* the variables the program has allocated at some time

vars == <<vm_end, sbrk, vm_freerg_list, symrgtbl, used>>

\* init_mm, on a mm_struct that ld_routine takes from malloc.
Init ==
  /\ vm_end = 0 /\ sbrk = 0
  /\ vm_freerg_list = <<Unset>>
  /\ symrgtbl \in [Rgid -> Garbage \union {Unset}]
  /\ used = {}

(***************************************************************************)
(* get_free_vmrg_area                                                      *)
(***************************************************************************)
\* Mutant: off by one.
HasRoomOneMore(rg, size) == rg.rg_start + size <= rg.rg_end + 1

HasRoom(rg, size) == rg.rg_start + size <= rg.rg_end

FirstFit(i, size) ==
  /\ HasRoom(vm_freerg_list[i], size)
  /\ \A j \in 1..(i - 1) : ~HasRoom(vm_freerg_list[j], size)

\* The free list after size bytes are cut off its region number i.  A region
\* that is used up goes; the last one stays as an empty one.
Carved(list, i, size) ==
  LET rest == Region(list[i].rg_start + size, list[i].rg_end) IN
  IF rest.rg_start = rest.rg_end /\ i # Len(list)
  THEN RemoveAt(list, i)
  ELSE [list EXCEPT ![i] = rest]

(***************************************************************************)
(* inc_vma_limit, with what vm_map_ram does to page table and frames left  *)
(* out.  There is only one area, so that no other one can be in its way.   *)
(***************************************************************************)
\* Mutant: rounded down.
PageAlignedDown(size) == (size \div PageSize) * PageSize

PageAligned(size) == ((size + PageSize - 1) \div PageSize) * PageSize

\* Mutant: sbrk stays at the end of what was asked for, and the rest of the new
\* pages goes to the free list, as in the lines that are commented out.
IncVmaLimitToSize(inc_sz) ==
  LET end == IF sbrk + inc_sz <= vm_end THEN vm_end ELSE sbrk + PageAligned(inc_sz) IN
  /\ sbrk' = sbrk + inc_sz
  /\ vm_end' = end
  /\ vm_freerg_list' = IF sbrk' < end THEN <<Region(sbrk', end)>> \o vm_freerg_list
                       ELSE vm_freerg_list

IncVmaLimit(inc_sz) ==
  IF sbrk + inc_sz <= vm_end
  THEN \* the area is large enough
    /\ sbrk' = sbrk + inc_sz
    /\ vm_freerg_list' = IF sbrk' < vm_end
                         THEN <<Region(sbrk', vm_end)>> \o vm_freerg_list
                         ELSE vm_freerg_list
    /\ UNCHANGED vm_end
  ELSE \* it grows by whole pages
    /\ vm_end' = sbrk + PageAligned(inc_sz)
    /\ sbrk' = vm_end'
    /\ UNCHANGED vm_freerg_list

(***************************************************************************)
(* liballoc: from the free list, or else at the end of the area.           *)
(***************************************************************************)
AllocFromFreeList(r, size) ==
  \E i \in DOMAIN vm_freerg_list :
    LET start == vm_freerg_list[i].rg_start IN
    /\ FirstFit(i, size)
    /\ vm_freerg_list' = Carved(vm_freerg_list, i, size)
    /\ symrgtbl' = [symrgtbl EXCEPT ![r] = Region(start, start + size)]
    /\ used' = used \union {r}
    /\ UNCHANGED <<vm_end, sbrk>>

\* Whatever sys_memmap did, __alloc takes it for done.
AllocAtSbrk(r, size) ==
  /\ \A i \in DOMAIN vm_freerg_list : ~HasRoom(vm_freerg_list[i], size)
  /\ sbrk + PageAligned(size) <= AreaCap
  /\ \E listed \in CallerFound :
       IF listed THEN IncVmaLimit(size)
       ELSE UNCHANGED <<vm_end, sbrk, vm_freerg_list>>
  /\ symrgtbl' = [symrgtbl EXCEPT ![r] = Region(sbrk, sbrk + size)]
  /\ used' = used \union {r}

(***************************************************************************)
(* libfree.  A program frees what it has allocated, perhaps more than once *)
(* (freeing a variable that never was depends on what malloc left there).  *)
(***************************************************************************)
\* Mutant: the entry of the symbol table is not cleared.
FreeKept(r) ==
  /\ r \in used /\ symrgtbl[r] # Unset
  /\ vm_freerg_list' =
       IF symrgtbl[r].rg_start < symrgtbl[r].rg_end
       THEN <<symrgtbl[r]>> \o vm_freerg_list ELSE vm_freerg_list
  /\ UNCHANGED <<symrgtbl, vm_end, sbrk, used>>

\* A region with bytes goes to the head of the free list.
Free(r) ==
  /\ r \in used /\ symrgtbl[r] # Unset
  /\ vm_freerg_list' =
       IF symrgtbl[r].rg_start < symrgtbl[r].rg_end
       THEN <<symrgtbl[r]>> \o vm_freerg_list ELSE vm_freerg_list
  /\ symrgtbl' = [symrgtbl EXCEPT ![r] = Unset]
  /\ UNCHANGED <<vm_end, sbrk, used>>

Next ==
  \E r \in Rgid :
    \/ Free(r)
    \/ \E size \in Sizes : AllocFromFreeList(r, size) \/ AllocAtSbrk(r, size)

Spec == Init /\ [][Next]_vars

(***************************************************************************)
(* Correctness                                                             *)
(***************************************************************************)
TypeOK ==
  /\ vm_end \in Nat /\ sbrk \in Nat
  /\ vm_freerg_list \in Seq(Extents)
  /\ symrgtbl \in [Rgid -> Extents]
  /\ used \subseteq Rgid

Apart(a, b) == a.rg_end <= b.rg_start \/ b.rg_end <= a.rg_start

\* No byte of the area is given out twice, however allocations, frees and
\* reallocations of a variable are mixed: variables and free regions keep
\* apart from one another and below sbrk, and so from what comes next
\* (the carving of get_free_vmrg_area, which splices its list in place, and
\* the case analysis of inc_vma_limit).
NoOverlap ==
  LET list == vm_freerg_list IN
  /\ \A r \in used : symrgtbl[r].rg_end <= sbrk
  /\ \A i \in DOMAIN list : list[i].rg_end <= sbrk
  /\ \A r, q \in used : r # q => Apart(symrgtbl[r], symrgtbl[q])
  /\ \A r \in used, i \in DOMAIN list : Apart(symrgtbl[r], list[i])
  /\ \A i, j \in DOMAIN list : i # j => Apart(list[i], list[j])

Block(rg) == [base |-> rg.rg_start, size |-> rg.rg_end - rg.rg_start]
Owned == [r \in Rgid |-> IF r \in used THEN Block(symrgtbl[r]) ELSE Block(Unset)]

Allocator == INSTANCE RegionAllocator WITH block <- Owned

\* liballoc and libfree are an allocator: a call changes what its own variable
\* owns and nothing else, and gives it as many bytes as it asked for.
ImplementsAllocator == Allocator!AllocatorSpec

=============================================================================
