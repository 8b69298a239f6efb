------------------------------ MODULE KernelMM ------------------------------
(***************************************************************************)
(* libmem.c: who works in whose address space.  All memory operations find *)
(* the page table, the area and the symbol table through the one pointer   *)
(* krnl->mm, which belongs to the kernel.  An operation on a process's     *)
(* memory puts the process's own mm there for its duration and afterwards  *)
(* restores what it found; liballoc, libfree, libread and libwrite do so   *)
(* under mmvm_lock, the accesses to user memory of libkmem_copy_from_user  *)
(* and libkmem_copy_to_user without it.  The operations on kernel memory   *)
(* take the pointer as they find it.  An operation may fail at any point,  *)
(* and restores the pointer all the same.                                  *)
(*                                                                         *)
(* Of what they do to the memory they find, the allocation of kernel       *)
(* memory by __kmalloc is followed, step by step as it takes no lock: the  *)
(* kernel's area with its free regions, which only inc_vma_limit makes.    *)
(* The areas of the processes are not, where __kmalloc may find itself     *)
(* while a user operation is under way: one may have room or not.          *)
(***************************************************************************)
EXTENDS Integers, Sequences

CONSTANTS
  CPU,         \* the CPU threads; c is also the mm of the process it runs
  Kernel,      \* the mm of the kernel
  NoOne,       \* a free mutex
  Unset,       \* an entry of a symbol table without a region
  Calls,       \* the calls that the programs make: user, kernel, copy
  CallerFound  \* whether sys_memmap finds its caller in the running list

ASSUME KernelMMAssumption ==
  /\ Kernel \notin CPU /\ NoOne \notin CPU
  /\ Calls \subseteq {"user", "kernel", "copy"}
  /\ CallerFound \subseteq BOOLEAN

VARIABLES
  mm,         \* krnl->mm
  mmvm_lock,  \* its owner
  at,         \* at[c]: where CPU thread c is in an operation
  os_mm,      \* os_mm[c]: its local variable os_mm
  sbrk,       \* of the kernel's area, in pages: how far it is in use,
  vm_end,     \*   its end,
  vm_freerg,  \*   and the pages of its free regions, in the order of its list
  symrgtbl,   \* symrgtbl[m][c]: the region of m that CPU thread c has entered,
              \*   by the area and the page in it (0 in the area of a process)
  cur_vma,    \* cur_vma[c]: the area found by __kmalloc or inc_vma_limit
  rg_start,   \* rg_start[c]: rgnode.rg_start or old_sbrk in __kmalloc
  inc_sbrk,   \* inc_sbrk[c]: the local variable old_sbrk of inc_vma_limit
  cur_area    \* cur_area[c]: the area found by validate_overlap_vm_area

switching == <<mm, mmvm_lock, os_mm>>
area == <<sbrk, vm_end, vm_freerg>>
locals == <<cur_vma, rg_start, inc_sbrk, cur_area>>
heap == <<area, symrgtbl, locals>>
vars == <<switching, at, heap>>

AnyMM == CPU \union {Kernel}

Init ==
  /\ mm = Kernel
  /\ mmvm_lock = NoOne
  /\ at = [c \in CPU |-> "outside"]
  /\ os_mm = [c \in CPU |-> Kernel]
  /\ sbrk = 0 /\ vm_end = 0 /\ vm_freerg = <<>>
  /\ symrgtbl = [m \in AnyMM |-> [c \in CPU |-> Unset]]
  /\ cur_vma = [c \in CPU |-> Kernel]
  /\ rg_start = [c \in CPU |-> <<Kernel, 0>>]
  /\ inc_sbrk = [c \in CPU |-> 0]
  /\ cur_area = [c \in CPU |-> Kernel]

SbrkOf(m) == IF m = Kernel THEN sbrk ELSE 0

Goto(c, from, to) == at[c] = from /\ at' = [at EXCEPT ![c] = to]

\* Mutant: the lock is not taken.
EnterUserMemUnlocked(c, call) ==
  /\ call \in Calls
  /\ Goto(c, "outside", "save")
  /\ UNCHANGED <<mm, mmvm_lock, os_mm, heap>>

\* __alloc, __free, __read and __write take the lock, __read_user_mem and
\* __write_user_mem do not.
EnterUserMem(c, call) ==
  /\ call \in Calls
  /\ Goto(c, "outside", "save")
  /\ IF call = "user" THEN mmvm_lock = NoOne /\ mmvm_lock' = c
                      ELSE UNCHANGED mmvm_lock
  /\ UNCHANGED <<mm, os_mm, heap>>

\* os_mm = caller->krnl->mm.
Save(c) ==
  /\ Goto(c, "save", "switch")
  /\ os_mm' = [os_mm EXCEPT ![c] = mm]
  /\ UNCHANGED <<mm, mmvm_lock, heap>>

\* caller->krnl->mm = caller->mm.
Switch(c) ==
  /\ Goto(c, "switch", "inUser")
  /\ mm' = c
  /\ UNCHANGED <<mmvm_lock, os_mm, heap>>

\* Mutant: an early return does not restore the pointer.
RestoreUnlessFailed(c) ==
  /\ Goto(c, "inUser", IF mmvm_lock = c THEN "unlock" ELSE "outside")
  /\ mm' \in {os_mm[c], mm}
  /\ UNCHANGED <<mmvm_lock, os_mm, heap>>

\* caller->krnl->mm = os_mm.
Restore(c) ==
  /\ Goto(c, "inUser", IF mmvm_lock = c THEN "unlock" ELSE "outside")
  /\ mm' = os_mm[c]
  /\ UNCHANGED <<mmvm_lock, os_mm, heap>>

\* Mutant: an early return keeps the lock.
UnlockForgotten(c) ==
  /\ Goto(c, "unlock", "outside")
  /\ UNCHANGED <<mm, mmvm_lock, os_mm, heap>>

Unlock(c) ==
  /\ Goto(c, "unlock", "outside")
  /\ mmvm_lock' = NoOne
  /\ UNCHANGED <<mm, os_mm, heap>>

\* __read_kernel_mem and __write_kernel_mem.
EnterKernel(c) ==
  /\ Calls \intersect {"kernel", "copy"} # {}
  /\ Goto(c, "outside", "inKernel")
  /\ UNCHANGED <<switching, heap>>

LeaveKernel(c) ==
  /\ Goto(c, "inKernel", "outside")
  /\ UNCHANGED <<switching, heap>>

(***************************************************************************)
(* __kmalloc, of one page.  A program allocates once, and uses a register  *)
(* of its own.  The local variables end with the call.                     *)
(***************************************************************************)
\* get_vma_by_num(krnl->mm, vmaid).
Kmalloc(c) ==
  /\ "kernel" \in Calls
  /\ \A m \in AnyMM : symrgtbl[m][c] = Unset
  /\ Goto(c, "outside", "search")
  /\ cur_vma' = [cur_vma EXCEPT ![c] = mm]
  /\ UNCHANGED <<switching, area, symrgtbl, rg_start, inc_sbrk, cur_area>>

\* get_free_vmrg_area looks for the area once more, and takes the first page of
\* its free regions, if there is one.  That of a process may have some.
KmallocFromFreeList(c) ==
  /\ Goto(c, "search", "record")
  /\ IF mm = Kernel
     THEN /\ vm_freerg # <<>>
          /\ rg_start' = [rg_start EXCEPT ![c] = <<Kernel, Head(vm_freerg)>>]
          /\ vm_freerg' = Tail(vm_freerg)
     ELSE /\ rg_start' = [rg_start EXCEPT ![c] = <<mm, 0>>]
          /\ UNCHANGED vm_freerg
  /\ cur_vma' = [cur_vma EXCEPT ![c] = Kernel]
  /\ UNCHANGED <<switching, sbrk, vm_end, symrgtbl, inc_sbrk, cur_area>>

SearchFails(c) ==
  /\ Goto(c, "search", "sbrk")
  /\ mm = Kernel => vm_freerg = <<>>
  /\ UNCHANGED <<switching, heap>>

\* old_sbrk = cur_vma->sbrk.
ReadOldSbrk(c) ==
  /\ Goto(c, "sbrk", "memmap")
  /\ rg_start' = [rg_start EXCEPT ![c] = <<cur_vma[c], SbrkOf(cur_vma[c])>>]
  /\ cur_vma' = [cur_vma EXCEPT ![c] = Kernel]
  /\ UNCHANGED <<switching, area, symrgtbl, inc_sbrk, cur_area>>

\* sys_memmap does not find its caller in the running list, and does nothing.
MissCaller(c) ==
  /\ FALSE \in CallerFound
  /\ Goto(c, "memmap", "record")
  /\ UNCHANGED <<switching, heap>>

(***************************************************************************)
(* inc_vma_limit, called through sys_memmap.  validate_overlap_vm_area     *)
(* looks at krnl->mm twice; its macro OVERLAP holds of any two areas that  *)
(* are not empty.                                                          *)
(***************************************************************************)
\* Its local variables end with it.
LeaveIncVmaLimit(c) ==
  /\ cur_vma' = [cur_vma EXCEPT ![c] = Kernel]
  /\ inc_sbrk' = [inc_sbrk EXCEPT ![c] = 0]
  /\ cur_area' = [cur_area EXCEPT ![c] = Kernel]

Rest(first, end) == [i \in 1..(end - first) |-> first + i - 1]

\* sys_memmap does find its caller.  inc_vma_limit looks for the area, too,
EnterIncVmaLimit(c) ==
  /\ TRUE \in CallerFound
  /\ Goto(c, "memmap", "inc")
  /\ cur_vma' = [cur_vma EXCEPT ![c] = mm]
  /\ inc_sbrk' = [inc_sbrk EXCEPT ![c] = SbrkOf(mm)]
  /\ UNCHANGED <<switching, area, symrgtbl, rg_start, cur_area>>

\* and sees whether the page fits into it (case 1)
FitsArea(c) ==
  /\ Goto(c, "inc", "advance")
  /\ cur_vma[c] = Kernel => inc_sbrk[c] + 1 <= vm_end
  /\ UNCHANGED <<switching, heap>>

\* so that sbrk moves up and the rest of the area becomes a free region,
AdvanceSbrk(c) ==
  /\ Goto(c, "advance", "record")
  /\ IF cur_vma[c] = Kernel
     THEN /\ sbrk' = inc_sbrk[c] + 1
          /\ vm_freerg' = (IF sbrk' < vm_end THEN Rest(sbrk', vm_end) ELSE <<>>)
                             \o vm_freerg
     ELSE UNCHANGED <<sbrk, vm_freerg>>
  /\ LeaveIncVmaLimit(c)
  /\ UNCHANGED <<switching, vm_end, symrgtbl, rg_start>>

\* or does not (case 2).  Then it finds the area that krnl->mm has now,
ExceedsArea(c) ==
  /\ Goto(c, "inc", "validate")
  /\ cur_vma[c] = Kernel => inc_sbrk[c] + 1 > vm_end
  /\ cur_area' = [cur_area EXCEPT ![c] = mm]
  /\ UNCHANGED <<switching, area, symrgtbl, cur_vma, rg_start, inc_sbrk>>

\* and refuses if krnl->mm has come to have another one, which is not empty.
\* (That of a process may be.)
OverlapRefused(c) ==
  /\ Goto(c, "validate", "record")
  /\ mm # cur_area[c] /\ (mm = Kernel => vm_end > 0)
  /\ LeaveIncVmaLimit(c)
  /\ UNCHANGED <<switching, area, symrgtbl, rg_start>>

\* Else the area is extended,
GrowArea(c) ==
  /\ Goto(c, "validate", "commit")
  /\ mm = cur_area[c] \/ (mm = Kernel => vm_end = 0)
  /\ vm_end' = IF cur_vma[c] = Kernel THEN inc_sbrk[c] + 1 ELSE vm_end
  /\ UNCHANGED <<switching, sbrk, vm_freerg, symrgtbl, locals>>

\* and sbrk moves to its end.
CommitSbrk(c) ==
  /\ Goto(c, "commit", "record")
  /\ sbrk' = IF cur_vma[c] = Kernel THEN inc_sbrk[c] + 1 ELSE sbrk
  /\ LeaveIncVmaLimit(c)
  /\ UNCHANGED <<switching, vm_end, vm_freerg, symrgtbl, rg_start>>

\* Back in __kmalloc: krnl->mm->symrgtbl[rgid] gets the region that begins at
\* old_sbrk, or that has been found.  Whether the area has grown is not looked at.
RecordRegion(c) ==
  /\ Goto(c, "record", "outside")
  /\ symrgtbl' = [symrgtbl EXCEPT ![mm][c] = rg_start[c]]
  /\ rg_start' = [rg_start EXCEPT ![c] = <<Kernel, 0>>]
  /\ UNCHANGED <<switching, area, cur_vma, inc_sbrk, cur_area>>

Next ==
  \E c \in CPU :
    \/ \E call \in {"user", "copy"} : EnterUserMem(c, call)
    \/ Save(c) \/ Switch(c) \/ Restore(c) \/ Unlock(c)
    \/ EnterKernel(c) \/ LeaveKernel(c)
    \/ Kmalloc(c) \/ KmallocFromFreeList(c) \/ SearchFails(c)
    \/ ReadOldSbrk(c) \/ MissCaller(c) \/ EnterIncVmaLimit(c)
    \/ FitsArea(c) \/ AdvanceSbrk(c)
    \/ ExceedsArea(c) \/ OverlapRefused(c) \/ GrowArea(c) \/ CommitSbrk(c)
    \/ RecordRegion(c)

Spec == Init /\ [][Next]_vars

(***************************************************************************)
(* Correctness                                                             *)
(***************************************************************************)
Addresses == AnyMM \X Nat

TypeOK ==
  /\ mm \in AnyMM
  /\ mmvm_lock \in CPU \union {NoOne}
  /\ at \in [CPU -> {"outside", "save", "switch", "inUser", "unlock", "inKernel",
                     "search", "sbrk", "memmap", "inc", "advance", "validate",
                     "commit", "record"}]
  /\ os_mm \in [CPU -> AnyMM]
  /\ sbrk \in Nat /\ vm_end \in Nat /\ vm_freerg \in Seq(Nat)
  /\ symrgtbl \in [AnyMM -> [CPU -> Addresses \union {Unset}]]
  /\ cur_vma \in [CPU -> AnyMM] /\ cur_area \in [CPU -> AnyMM]
  /\ rg_start \in [CPU -> Addresses] /\ inc_sbrk \in [CPU -> Nat]
  /\ mmvm_lock # NoOne => at[mmvm_lock] \in {"save", "switch", "inUser", "unlock"}

\* "Record sbrk before the call so we know the new region's start", libmem.c:554:
\* every region in the kernel's symbol table is of the kernel's area and is
\* nobody else's (__kmalloc on several CPUs).
KernelRegionsApart ==
  \A c \in CPU : symrgtbl[Kernel][c] # Unset =>
    /\ \E n \in 0..(sbrk - 1) : symrgtbl[Kernel][c] = <<Kernel, n>>
    /\ \A d \in CPU \ {c} : symrgtbl[Kernel][c] # symrgtbl[Kernel][d]

\* An operation on user memory works in the memory of its own process, however
\* the operations of the CPUs overlap (the switch and restore of the pointer).
UserInOwnMM == \A c \in CPU : at[c] = "inUser" => mm = c

\* "Restore kernel mm", libmem.c:843: when no operation is under way the
\* pointer is the kernel's again; no CPU has restored another one's mm.
Restored == (\A c \in CPU : at[c] \in {"outside", "unlock"}) => mm = Kernel

=============================================================================
