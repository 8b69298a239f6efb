---------------------------- MODULE KernelMMProofs ----------------------------
(***************************************************************************)
(* As long as the programs copy nothing between user and kernel memory,    *)
(* mmvm_lock suffices: whatever the number of CPUs, an operation on user   *)
(* memory works in the memory of its own process, and the pointer krnl->mm *)
(* is the kernel's again when none is under way.                           *)
(* As long as no two calls overlap, this holds of copies, too, and if      *)
(* sys_memmap always finds its caller, regions of kernel memory are apart. *)
(***************************************************************************)
EXTENDS KernelMM, SequenceTheorems, TLAPS

Inside == {"save", "switch", "inUser", "unlock"}   \* between lock and unlock

\* The other places: those of operations on kernel memory.
Beside == {"outside", "inKernel", "search", "sbrk", "memmap", "inc", "advance",
           "validate", "commit", "record"}

KmallocStep(c) ==
  \/ Kmalloc(c) \/ KmallocFromFreeList(c) \/ SearchFails(c) \/ ReadOldSbrk(c)
  \/ MissCaller(c) \/ EnterIncVmaLimit(c) \/ FitsArea(c) \/ AdvanceSbrk(c)
  \/ ExceedsArea(c) \/ OverlapRefused(c) \/ GrowArea(c) \/ CommitSbrk(c)
  \/ RecordRegion(c)

KernelStep(c) == EnterKernel(c) \/ LeaveKernel(c) \/ KmallocStep(c)

LEMMA NextCases ==
  ASSUME [Next]_vars
  PROVE  \/ \E c \in CPU : \/ EnterUserMem(c, "user") \/ EnterUserMem(c, "copy")
                           \/ Save(c) \/ Switch(c) \/ Restore(c) \/ Unlock(c)
                           \/ KernelStep(c)
         \/ UNCHANGED vars
BY Zenon DEF Next, KernelStep, KmallocStep

\* An operation on kernel memory leaves the pointer and the lock alone.
LEMMA KernelStepBeside ==
  ASSUME NEW c \in CPU, KernelStep(c)
  PROVE  /\ UNCHANGED switching
         /\ \E from, to \in Beside : from # to /\ Goto(c, from, to)
<1> USE DEF Beside
<1>1. CASE EnterKernel(c) \/ LeaveKernel(c)
  BY <1>1 DEF EnterKernel, LeaveKernel
<1>2. CASE Kmalloc(c) \/ KmallocFromFreeList(c) \/ SearchFails(c) \/ ReadOldSbrk(c)
  BY <1>2 DEF Kmalloc, KmallocFromFreeList, SearchFails, ReadOldSbrk
<1>3. CASE MissCaller(c) \/ EnterIncVmaLimit(c) \/ FitsArea(c) \/ AdvanceSbrk(c)
  BY <1>3 DEF MissCaller, EnterIncVmaLimit, FitsArea, AdvanceSbrk
<1>4. CASE ExceedsArea(c) \/ OverlapRefused(c) \/ GrowArea(c) \/ CommitSbrk(c)
  BY <1>4 DEF ExceedsArea, OverlapRefused, GrowArea, CommitSbrk
<1>5. CASE RecordRegion(c)
  BY <1>5 DEF RecordRegion
<1> QED BY <1>1, <1>2, <1>3, <1>4, <1>5 DEF KernelStep, KmallocStep

(***************************************************************************)
(* Type correctness, whatever the programs call                            *)
(***************************************************************************)
PointerTypeOK ==
  /\ mm \in AnyMM /\ os_mm \in [CPU -> AnyMM]
  /\ mmvm_lock \in CPU \union {NoOne}
  /\ at \in [CPU -> Inside \union Beside]
  /\ mmvm_lock # NoOne => at[mmvm_lock] \in Inside

HeapTypeOK ==
  /\ sbrk \in Nat /\ vm_end \in Nat /\ vm_freerg \in Seq(Nat)
  /\ symrgtbl \in [AnyMM -> [CPU -> Addresses \union {Unset}]]
  /\ cur_vma \in [CPU -> AnyMM] /\ cur_area \in [CPU -> AnyMM]
  /\ rg_start \in [CPU -> Addresses] /\ inc_sbrk \in [CPU -> Nat]

LEMMA TypeParts == TypeOK <=> PointerTypeOK /\ HeapTypeOK
BY DEF TypeOK, PointerTypeOK, HeapTypeOK, Inside, Beside

LEMMA RestIsSeq ==
  ASSUME NEW first \in Nat, NEW end \in Nat, first < end
  PROVE  Rest(first, end) \in Seq(Nat)
<1> DEFINE n == end - first
<1>1. n \in Nat
  OBVIOUS
<1>2. Rest(first, end) \in [1..n -> Nat]
  <2>1. ASSUME NEW i \in 1..n PROVE first + i - 1 \in Nat
    OBVIOUS
  <2> QED BY <2>1 DEF Rest
<1> HIDE DEF n
<1> QED BY <1>1, <1>2, SeqDef

LEMMA HeapType ==
  ASSUME HeapTypeOK, mm \in AnyMM, NEW c \in CPU, KmallocStep(c)
  PROVE  HeapTypeOK'
<1> USE DEF HeapTypeOK, heap, area, locals
<1>0. Kernel \in AnyMM /\ <<Kernel, 0>> \in Addresses /\ <<mm, 0>> \in Addresses
  BY DEF AnyMM, Addresses
<1>1. CASE Kmalloc(c)
  BY <1>1 DEF Kmalloc
<1>2. CASE KmallocFromFreeList(c)
  <2>1. CASE mm = Kernel
    <3>1. Head(vm_freerg) \in Nat /\ Tail(vm_freerg) \in Seq(Nat)
      BY <1>2, <2>1 DEF KmallocFromFreeList
    <3>2. <<Kernel, Head(vm_freerg)>> \in Addresses
      BY <1>0, <3>1 DEF Addresses
    <3> QED BY <1>0, <1>2, <2>1, <3>1, <3>2 DEF KmallocFromFreeList
  <2>2. CASE mm # Kernel
    BY <1>0, <1>2, <2>2 DEF KmallocFromFreeList
  <2> QED BY <2>1, <2>2
<1>3. CASE SearchFails(c) \/ MissCaller(c) \/ FitsArea(c)
  BY <1>3 DEF SearchFails, MissCaller, FitsArea
<1>4. CASE ReadOldSbrk(c)
  <2>1. <<cur_vma[c], SbrkOf(cur_vma[c])>> \in Addresses
    BY DEF Addresses, SbrkOf
  <2> QED BY <1>0, <1>4, <2>1 DEF ReadOldSbrk
<1>5. CASE EnterIncVmaLimit(c)
  BY <1>5 DEF EnterIncVmaLimit, SbrkOf
<1>6. CASE AdvanceSbrk(c)
  <2>1. sbrk' \in Nat
    BY <1>6 DEF AdvanceSbrk
  <2>2. vm_freerg' \in Seq(Nat)
    <3>1. CASE cur_vma[c] = Kernel /\ sbrk' < vm_end
      <4>1. Rest(sbrk', vm_end) \in Seq(Nat)
        BY <2>1, <3>1, RestIsSeq
      <4>2. vm_freerg' = Rest(sbrk', vm_end) \o vm_freerg
        BY <1>6, <3>1 DEF AdvanceSbrk
      <4> QED BY <4>1, <4>2, ConcatProperties
    <3>2. CASE cur_vma[c] = Kernel /\ ~(sbrk' < vm_end)
      <4>1. vm_freerg' = <<>> \o vm_freerg
        BY <1>6, <3>2 DEF AdvanceSbrk
      <4> QED BY <4>1, ConcatProperties
    <3>3. CASE cur_vma[c] # Kernel
      BY <1>6, <3>3 DEF AdvanceSbrk
    <3> QED BY <3>1, <3>2, <3>3
  <2> QED BY <1>0, <1>6, <2>1, <2>2 DEF AdvanceSbrk, LeaveIncVmaLimit
<1>7. CASE ExceedsArea(c)
  BY <1>7 DEF ExceedsArea
<1>8. CASE OverlapRefused(c)
  BY <1>0, <1>8 DEF OverlapRefused, LeaveIncVmaLimit
<1>9. CASE CommitSbrk(c)
  <2>1. sbrk' \in Nat
    BY <1>9 DEF CommitSbrk
  <2> QED BY <1>0, <1>9, <2>1 DEF CommitSbrk, LeaveIncVmaLimit
<1>10. CASE GrowArea(c)
  BY <1>10 DEF GrowArea
<1>11. CASE RecordRegion(c)
  BY <1>0, <1>11 DEF RecordRegion
<1> QED BY <1>1, <1>2, <1>3, <1>4, <1>5, <1>6, <1>7, <1>8, <1>9, <1>10,
           <1>11 DEF KmallocStep

LEMMA TypeNext == TypeOK /\ [Next]_vars => TypeOK'
<1> SUFFICES ASSUME TypeOK, [Next]_vars PROVE TypeOK'
  OBVIOUS
<1> USE KernelMMAssumption DEF AnyMM
<1>0. HeapTypeOK /\ PointerTypeOK /\ mm \in AnyMM
  BY TypeParts DEF PointerTypeOK
<1>1. ASSUME NEW c \in CPU, KernelStep(c) PROVE TypeOK'
  <2>1. HeapTypeOK'
    BY <1>0, <1>1, HeapType
       DEF KernelStep, EnterKernel, LeaveKernel, heap, area, locals, HeapTypeOK
  <2>2. PICK from, to \in Beside : UNCHANGED switching /\ Goto(c, from, to)
    BY <1>1, KernelStepBeside
  <2>3. PointerTypeOK'
    BY <1>0, <2>2 DEF PointerTypeOK, Goto, Beside, Inside, switching
  <2> QED BY <2>1, <2>3 DEF TypeOK, PointerTypeOK, HeapTypeOK, Inside, Beside
<1>2. ASSUME NEW c \in CPU,
             \/ EnterUserMem(c, "user") \/ EnterUserMem(c, "copy")
             \/ Save(c) \/ Switch(c) \/ Restore(c) \/ Unlock(c)
      PROVE  TypeOK'
  <2>1. UNCHANGED <<sbrk, vm_end, vm_freerg, symrgtbl, cur_vma, cur_area, rg_start,
                    inc_sbrk>>
    BY <1>2 DEF EnterUserMem, Save, Switch, Restore, Unlock, heap, area, locals
  <2>2. PointerTypeOK'
    <3> USE <1>0 DEF PointerTypeOK, Goto, Inside, Beside
    <3>1. CASE EnterUserMem(c, "user") \/ EnterUserMem(c, "copy")
      BY <3>1 DEF EnterUserMem
    <3>2. CASE Save(c) \/ Switch(c)
      BY <3>2 DEF Save, Switch
    <3>3. CASE Restore(c)
      BY <3>3 DEF Restore
    <3>4. CASE Unlock(c)
      BY <3>4 DEF Unlock
    <3> QED BY <1>2, <3>1, <3>2, <3>3, <3>4
  <2>3. HeapTypeOK'
    BY <1>0, <2>1 DEF HeapTypeOK
  <2> QED BY <2>2, <2>3 DEF TypeOK, PointerTypeOK, HeapTypeOK, Inside, Beside
<1>3. CASE UNCHANGED vars
  BY <1>3 DEF TypeOK, vars, switching, heap, area, locals
<1> QED BY <1>1, <1>2, <1>3, NextCases

LEMMA TypeInit == Init => TypeOK
BY KernelMMAssumption DEF Init, TypeOK, AnyMM, Addresses

\* The type invariant of the module KernelMM, and that the holder of mmvm_lock
\* is inside an operation of libmem.c, whatever the programs call.
THEOREM TypeCorrect == Spec => []TypeOK
BY TypeInit, TypeNext, PTL DEF Spec

(***************************************************************************)
(* Without copies                                                          *)
(***************************************************************************)
\* Who is inside an operation on user memory owns the lock.
LockInv == \A c \in CPU : at[c] \in Inside <=> mmvm_lock = c

\* What was saved is the kernel's mm, which only the operation itself replaces.
SavedInv ==
  /\ \A c \in CPU : at[c] \in {"switch", "inUser"} => os_mm[c] = Kernel
  /\ (\A c \in CPU : at[c] # "inUser") => mm = Kernel

IInv == TypeOK /\ LockInv /\ SavedInv /\ UserInOwnMM

LEMMA InitInv == Init => IInv
BY TypeInit, KernelMMAssumption
   DEF Init, IInv, LockInv, SavedInv, UserInOwnMM, Inside

\* A step beside the operations on user memory.
LEMMA BesideKeeps ==
  ASSUME TypeOK, NEW c \in CPU, KernelStep(c)
  PROVE  /\ LockInv => LockInv'
         /\ SavedInv => SavedInv'
         /\ UserInOwnMM => UserInOwnMM'
<1>1. PICK from, to \in Beside : UNCHANGED switching /\ Goto(c, from, to)
  BY KernelStepBeside
<1>2. \A d \in CPU : \/ at'[d] = at[d]
                     \/ at[d] \notin Inside /\ at'[d] \notin Inside
  BY <1>1 DEF TypeOK, Goto, Beside, Inside
<1> QED BY <1>1, <1>2 DEF LockInv, SavedInv, UserInOwnMM, Inside, switching

LEMMA NextInv == "copy" \notin Calls => (IInv /\ [Next]_vars => IInv')
<1> SUFFICES ASSUME "copy" \notin Calls, IInv, [Next]_vars
             PROVE  LockInv' /\ SavedInv' /\ UserInOwnMM'
  BY TypeNext DEF IInv
<1> USE KernelMMAssumption DEF IInv, TypeOK, LockInv, SavedInv, UserInOwnMM, Inside, Goto
<1>1. ASSUME NEW c \in CPU, EnterUserMem(c, "user")
      PROVE  LockInv' /\ SavedInv' /\ UserInOwnMM'
  BY <1>1 DEF EnterUserMem
<1>2. ASSUME NEW c \in CPU, Save(c)
      PROVE  LockInv' /\ SavedInv' /\ UserInOwnMM'
  <2>1. mm = Kernel
    BY <1>2 DEF Save
  <2> QED BY <1>2, <2>1 DEF Save
<1>3. ASSUME NEW c \in CPU, Switch(c)
      PROVE  LockInv' /\ SavedInv' /\ UserInOwnMM'
  BY <1>3 DEF Switch
<1>4. ASSUME NEW c \in CPU, Restore(c)
      PROVE  LockInv' /\ SavedInv' /\ UserInOwnMM'
  BY <1>4 DEF Restore
<1>5. ASSUME NEW c \in CPU, Unlock(c)
      PROVE  LockInv' /\ SavedInv' /\ UserInOwnMM'
  BY <1>5 DEF Unlock
<1>6. ASSUME NEW c \in CPU, EnterUserMem(c, "copy")
      PROVE  FALSE
  BY <1>6 DEF EnterUserMem
<1>7. CASE UNCHANGED vars
  BY <1>7 DEF vars, switching
<1> HIDE DEF IInv, TypeOK, LockInv, SavedInv, UserInOwnMM
<1>8. ASSUME NEW c \in CPU, KernelStep(c)
      PROVE  LockInv' /\ SavedInv' /\ UserInOwnMM'
  BY <1>8, BesideKeeps DEF IInv
<1> QED BY <1>1, <1>2, <1>3, <1>4, <1>5, <1>6, <1>7, <1>8, NextCases

LEMMA Inductive == ASSUME "copy" \notin Calls PROVE Spec => []IInv
BY InitInv, NextInv, PTL DEF Spec

\* __alloc, __free, __read and __write work in the memory of their process.
THEOREM OwnMemory == ASSUME "copy" \notin Calls PROVE Spec => []UserInOwnMM
<1>1. IInv => UserInOwnMM
  BY DEF IInv
<1> QED BY <1>1, Inductive, PTL

\* They leave the kernel's mm in krnl->mm.
THEOREM PointerRestored == ASSUME "copy" \notin Calls PROVE Spec => []Restored
<1>1. IInv => Restored
  BY DEF IInv, SavedInv, Restored
<1> QED BY <1>1, Inductive, PTL

(***************************************************************************)
(* When no two calls overlap, whatever the programs call                   *)
(***************************************************************************)
Alone == \A c, d \in CPU : at[c] # "outside" /\ at[d] # "outside" => c = d

AloneInv == TypeOK /\ SavedInv /\ UserInOwnMM

LEMMA AloneInit == Init => AloneInv
BY InitInv DEF IInv, AloneInv

LEMMA AloneNext == AloneInv /\ Alone /\ [Next]_vars => AloneInv'
<1> SUFFICES ASSUME AloneInv, Alone, [Next]_vars
             PROVE  SavedInv' /\ UserInOwnMM'
  BY TypeNext DEF AloneInv
<1> USE KernelMMAssumption DEF AloneInv, TypeOK, SavedInv, UserInOwnMM, Alone, Goto
<1>1. ASSUME NEW c \in CPU, EnterUserMem(c, "user") \/ EnterUserMem(c, "copy")
      PROVE  SavedInv' /\ UserInOwnMM'
  BY <1>1 DEF EnterUserMem
<1>2. ASSUME NEW c \in CPU, Save(c)
      PROVE  SavedInv' /\ UserInOwnMM'
  <2>1. mm = Kernel
    BY <1>2 DEF Save
  <2> QED BY <1>2, <2>1 DEF Save
<1>3. ASSUME NEW c \in CPU, Switch(c)
      PROVE  SavedInv' /\ UserInOwnMM'
  BY <1>3 DEF Switch
<1>4. ASSUME NEW c \in CPU, Restore(c)
      PROVE  SavedInv' /\ UserInOwnMM'
  BY <1>4 DEF Restore
<1>5. ASSUME NEW c \in CPU, Unlock(c)
      PROVE  SavedInv' /\ UserInOwnMM'
  BY <1>5 DEF Unlock
<1>6. CASE UNCHANGED vars
  BY <1>6 DEF vars, switching
<1> HIDE DEF AloneInv, TypeOK, SavedInv, UserInOwnMM, Alone, Goto
<1>7. ASSUME NEW c \in CPU, KernelStep(c)
      PROVE  SavedInv' /\ UserInOwnMM'
  BY <1>7, BesideKeeps DEF AloneInv
<1> QED BY <1>1, <1>2, <1>3, <1>4, <1>5, <1>6, <1>7, NextCases

\* If the calls of libmem.c did not overlap, as under a lock that all of them
\* take, every one would work in the memory it is meant for and krnl->mm would
\* always be restored, whatever the programs allocate and copy.
THEOREM SerialCallsAreSafe == Spec /\ []Alone => [](UserInOwnMM /\ Restored)
<1>1. AloneInv => UserInOwnMM /\ Restored
  BY DEF AloneInv, SavedInv, Restored
<1> QED BY <1>1, AloneInit, AloneNext, PTL DEF Spec

(***************************************************************************)
(* And when sys_memmap always finds its caller.  Then the kernel's area    *)
(* grows with every allocation and no part of it gets free.                *)
(***************************************************************************)
AreaInv ==
  /\ vm_freerg = <<>>
  /\ (\A c \in CPU : at[c] # "commit") => vm_end = sbrk
  /\ \A c \in CPU : at[c] = "commit" => vm_end = sbrk + 1

KmallocInv == \A c \in CPU :
  /\ at[c] # "advance"
  /\ cur_vma[c] = Kernel
  /\ at[c] = "validate" => cur_area[c] = Kernel
  /\ at[c] \in {"memmap", "inc", "validate", "commit"} => rg_start[c] = <<Kernel, sbrk>>
  /\ at[c] \in {"inc", "validate", "commit"} => inc_sbrk[c] = sbrk
  /\ at[c] = "record" => sbrk # 0 /\ rg_start[c] = <<Kernel, sbrk - 1>>

\* The regions lie below the one that is about to be entered.
Begins(c, n) ==
  /\ symrgtbl[Kernel][c] = <<Kernel, n>>
  /\ n < sbrk
  /\ \A d \in CPU : at[d] = "record" => n < sbrk - 1

RegionInv ==
  /\ \A c \in CPU : symrgtbl[Kernel][c] # Unset => \E n \in Nat : Begins(c, n)
  /\ \A c, d \in CPU : c # d /\ symrgtbl[Kernel][c] # Unset =>
       symrgtbl[Kernel][c] # symrgtbl[Kernel][d]

HeapInv == AreaInv /\ KmallocInv /\ RegionInv

LEMMA HeapInit == Init => HeapInv
BY KernelMMAssumption DEF Init, HeapInv, AreaInv, KmallocInv, RegionInv, AnyMM

\* A step that leaves the area and the symbol tables alone.
LEMMA RegionsKept ==
  ASSUME RegionInv, UNCHANGED <<sbrk, symrgtbl>>,
         \A d \in CPU : at'[d] = "record" => at[d] = "record"
  PROVE  RegionInv'
BY DEF RegionInv, Begins

\* So does a step of another operation.
LEMMA HeapKept ==
  ASSUME HeapInv, UNCHANGED heap,
         \A d \in CPU : \/ at'[d] = at[d]
                        \/ /\ at[d] \in Inside \union {"outside", "inKernel"}
                           /\ at'[d] \in Inside \union {"outside", "inKernel"}
  PROVE  HeapInv'
<1> USE DEF HeapInv, Inside, heap, area, locals
<1>1. AreaInv'
  BY DEF AreaInv
<1>2. KmallocInv'
  BY DEF KmallocInv
<1>3. RegionInv'
  BY RegionsKept
<1> QED BY <1>1, <1>2, <1>3

\* An allocation finds the kernel's mm.
LEMMA KmallocAlone ==
  ASSUME AloneInv, Alone, Alone', NEW c \in CPU, KmallocStep(c)
  PROVE  /\ mm = Kernel
         /\ \A d \in CPU \ {c} : at[d] = "outside" /\ at'[d] = "outside"
<1>1. PICK from, to \in Beside : from # to /\ Goto(c, from, to)
  BY KernelStepBeside DEF KernelStep
<1>2. \A d \in CPU \ {c} : at'[d] = at[d]
  BY <1>1 DEF Goto, AloneInv, TypeOK
<1>3. /\ at[c] = from /\ at'[c] = to
      /\ at[c] # "inUser" /\ (at[c] # "outside" \/ at'[c] # "outside")
  BY <1>1 DEF Goto, Beside, AloneInv, TypeOK
<1>4. \A d \in CPU \ {c} : at[d] = "outside" /\ at'[d] = "outside"
  BY <1>2, <1>3 DEF Alone
<1>5. mm = Kernel
  BY <1>3, <1>4 DEF AloneInv, SavedInv
<1> QED BY <1>4, <1>5

LEMMA KmallocKeeps ==
  ASSUME FALSE \notin CallerFound, AloneInv, Alone, Alone', HeapInv,
         NEW c \in CPU, KmallocStep(c)
  PROVE  HeapInv'
<1>1. /\ mm = Kernel
      /\ \A d \in CPU \ {c} : at[d] = "outside" /\ at'[d] = "outside"
  BY KmallocAlone
<1>2. /\ Kernel \in AnyMM /\ sbrk \in Nat /\ vm_end \in Nat /\ vm_freerg = <<>>
      /\ at \in [CPU -> Inside \union Beside]
      /\ cur_vma \in [CPU -> AnyMM] /\ cur_area \in [CPU -> AnyMM]
      /\ rg_start \in [CPU -> Addresses] /\ inc_sbrk \in [CPU -> Nat]
      /\ symrgtbl \in [AnyMM -> [CPU -> Addresses \union {Unset}]]
  BY DEF AnyMM, AloneInv, TypeOK, HeapInv, AreaInv, Inside, Beside
<1>3. /\ AreaInv /\ KmallocInv /\ RegionInv
      /\ cur_vma[c] = Kernel
      /\ at[c] # "commit" => vm_end = sbrk
      /\ at[c] = "commit" => vm_end = sbrk + 1
  BY <1>1 DEF HeapInv, AreaInv, KmallocInv
<1> USE DEF Goto, area, locals, heap
<1>4. ASSUME UNCHANGED <<sbrk, symrgtbl>>, at'[c] = "record" => at[c] = "record"
      PROVE  RegionInv'
  BY <1>1, <1>3, <1>4, RegionsKept
<1>5. CASE Kmalloc(c)
  <2>1. RegionInv'
    BY <1>2, <1>4, <1>5 DEF Kmalloc
  <2>2. AreaInv'
    BY <1>2, <1>3, <1>5 DEF Kmalloc, AreaInv
  <2>3. KmallocInv'
    BY <1>1, <1>2, <1>3, <1>5 DEF Kmalloc, KmallocInv
  <2> QED BY <2>1, <2>2, <2>3 DEF HeapInv
<1>6. CASE KmallocFromFreeList(c) \/ MissCaller(c)
  BY <1>1, <1>2, <1>6 DEF KmallocFromFreeList, MissCaller
<1>7. CASE SearchFails(c)
  <2>1. RegionInv'
    BY <1>2, <1>4, <1>7 DEF SearchFails
  <2>2. AreaInv'
    BY <1>2, <1>3, <1>7 DEF SearchFails, AreaInv
  <2>3. KmallocInv'
    BY <1>1, <1>2, <1>3, <1>7 DEF SearchFails, KmallocInv
  <2> QED BY <2>1, <2>2, <2>3 DEF HeapInv
<1>8. CASE ReadOldSbrk(c)
  <2>1. RegionInv'
    BY <1>2, <1>4, <1>8 DEF ReadOldSbrk
  <2>2. AreaInv'
    BY <1>2, <1>3, <1>8 DEF ReadOldSbrk, AreaInv
  <2>3. KmallocInv'
    BY <1>1, <1>2, <1>3, <1>8 DEF ReadOldSbrk, KmallocInv, SbrkOf
  <2> QED BY <2>1, <2>2, <2>3 DEF HeapInv
<1>9. CASE EnterIncVmaLimit(c)
  <2>1. RegionInv'
    BY <1>2, <1>4, <1>9 DEF EnterIncVmaLimit
  <2>2. AreaInv'
    BY <1>2, <1>3, <1>9 DEF EnterIncVmaLimit, AreaInv
  <2>3. KmallocInv'
    BY <1>1, <1>2, <1>3, <1>9 DEF EnterIncVmaLimit, KmallocInv, SbrkOf
  <2> QED BY <2>1, <2>2, <2>3 DEF HeapInv
<1>10. CASE FitsArea(c) \/ AdvanceSbrk(c) \/ OverlapRefused(c)
  BY <1>1, <1>2, <1>3, <1>10
     DEF FitsArea, AdvanceSbrk, OverlapRefused, KmallocInv
<1>11. CASE ExceedsArea(c)
  <2>1. RegionInv'
    BY <1>2, <1>4, <1>11 DEF ExceedsArea
  <2>2. AreaInv'
    BY <1>2, <1>3, <1>11 DEF ExceedsArea, AreaInv
  <2>3. KmallocInv'
    BY <1>1, <1>2, <1>3, <1>11 DEF ExceedsArea, KmallocInv
  <2> QED BY <2>1, <2>2, <2>3 DEF HeapInv
<1>12. CASE GrowArea(c)
  <2>1. RegionInv'
    BY <1>2, <1>4, <1>12 DEF GrowArea
  <2>2. AreaInv'
    BY <1>2, <1>3, <1>12 DEF GrowArea, AreaInv, KmallocInv
  <2>3. KmallocInv'
    BY <1>1, <1>2, <1>3, <1>12 DEF GrowArea, KmallocInv
  <2> QED BY <2>1, <2>2, <2>3 DEF HeapInv
<1>13. CASE CommitSbrk(c)
  <2>1. /\ at[c] = "commit" /\ inc_sbrk[c] = sbrk /\ rg_start[c] = <<Kernel, sbrk>>
        /\ at' = [at EXCEPT ![c] = "record"] /\ sbrk' = sbrk + 1
        /\ UNCHANGED <<vm_end, vm_freerg, symrgtbl, rg_start>>
    BY <1>3, <1>13 DEF CommitSbrk, KmallocInv
  <2>2. vm_end = sbrk + 1
    BY <1>3, <2>1
  <2>3. AreaInv'
    BY <1>1, <1>2, <2>1, <2>2 DEF AreaInv
  <2>4. KmallocInv'
    BY <1>1, <1>2, <1>3, <1>13, <2>1 DEF CommitSbrk, LeaveIncVmaLimit, KmallocInv
  <2>5. RegionInv'
    BY <1>2, <1>3, <2>1 DEF RegionInv, Begins
  <2> QED BY <2>3, <2>4, <2>5 DEF HeapInv
<1>14. CASE RecordRegion(c)
  <2>1. /\ at[c] = "record" /\ sbrk # 0 /\ rg_start[c] = <<Kernel, sbrk - 1>>
        /\ \A d \in CPU : at'[d] = "outside"
        /\ UNCHANGED <<sbrk, vm_end, vm_freerg, cur_vma>>
    BY <1>1, <1>2, <1>3, <1>14 DEF RecordRegion, KmallocInv
  <2>2. /\ symrgtbl'[Kernel][c] = <<Kernel, sbrk - 1>>
        /\ \A d \in CPU \ {c} : symrgtbl'[Kernel][d] = symrgtbl[Kernel][d]
    BY <1>1, <1>2, <1>14, <2>1 DEF RecordRegion
  <2>3. Begins(c, sbrk - 1)' /\ sbrk - 1 \in Nat
    BY <1>2, <2>1, <2>2 DEF Begins
  <2>4. ASSUME NEW d \in CPU \ {c}, symrgtbl'[Kernel][d] # Unset
        PROVE  /\ \E n \in Nat : Begins(d, n)'
               /\ symrgtbl'[Kernel][d] # symrgtbl'[Kernel][c]
    <3>1. PICK n \in Nat : Begins(d, n)
      BY <1>3, <2>2, <2>4 DEF RegionInv
    <3>2. n < sbrk - 1
      BY <2>1, <3>1 DEF Begins
    <3>3. Begins(d, n)'
      BY <2>1, <2>2, <3>1 DEF Begins
    <3> QED BY <1>2, <2>2, <3>1, <3>2, <3>3 DEF Begins
  <2>5. RegionInv'
    <3>1. ASSUME NEW d \in CPU, symrgtbl'[Kernel][d] # Unset
          PROVE  \E n \in Nat : Begins(d, n)'
      <4>1. CASE d = c
        BY <2>1, <2>3, <4>1
      <4>2. CASE d # c
        BY <2>4, <3>1, <4>2
      <4> QED BY <4>1, <4>2
    <3>2. ASSUME NEW d \in CPU, NEW e \in CPU, d # e, symrgtbl'[Kernel][d] # Unset
          PROVE  symrgtbl'[Kernel][d] # symrgtbl'[Kernel][e]
      <4>1. CASE e = c
        BY <2>4, <3>2, <4>1
      <4>2. CASE d = c /\ symrgtbl'[Kernel][e] # Unset
        BY <2>4, <3>2, <4>2
      <4>3. CASE d = c /\ symrgtbl'[Kernel][e] = Unset
        BY <3>2, <4>3
      <4>4. CASE d # c /\ e # c
        BY <1>3, <2>2, <3>2, <4>4 DEF RegionInv
      <4> QED BY <4>1, <4>2, <4>3, <4>4
    <3> QED BY <3>1, <3>2 DEF RegionInv
  <2>6. AreaInv'
    BY <1>2, <1>3, <2>1 DEF AreaInv
  <2>7. KmallocInv'
    BY <1>3, <2>1 DEF KmallocInv
  <2> QED BY <2>5, <2>6, <2>7 DEF HeapInv
<1> QED BY <1>5, <1>6, <1>7, <1>8, <1>9, <1>10, <1>11, <1>12, <1>13, <1>14
        DEF KmallocStep

LEMMA HeapNext ==
  ASSUME FALSE \notin CallerFound
  PROVE  AloneInv /\ Alone /\ Alone' /\ HeapInv /\ [Next]_vars => HeapInv'
<1> SUFFICES ASSUME AloneInv, Alone, Alone', HeapInv, [Next]_vars PROVE HeapInv'
  OBVIOUS
<1>1. ASSUME NEW c \in CPU,
             \/ EnterUserMem(c, "user") \/ EnterUserMem(c, "copy")
             \/ Save(c) \/ Switch(c) \/ Restore(c) \/ Unlock(c)
             \/ EnterKernel(c) \/ LeaveKernel(c)
      PROVE  HeapInv'
  <2>1. /\ UNCHANGED heap
        /\ \E from, to \in Inside \union {"outside", "inKernel"} : Goto(c, from, to)
    BY <1>1 DEF EnterUserMem, Save, Switch, Restore, Unlock, EnterKernel, LeaveKernel,
                Inside
  <2> QED BY <2>1, HeapKept DEF Goto, AloneInv, TypeOK
<1>2. ASSUME NEW c \in CPU, KmallocStep(c) PROVE HeapInv'
  BY <1>2, KmallocKeeps
<1>3. CASE UNCHANGED vars
  BY <1>3, HeapKept DEF vars
<1> QED BY <1>1, <1>2, <1>3, NextCases DEF KernelStep

\* Regions of kernel memory are apart as long as no two calls overlap and
\* sys_memmap finds the caller of each: both are needed, since __kmalloc relies
\* on an sbrk that it has read and on a growth that it does not check.
THEOREM SerialRegionsApart ==
  ASSUME FALSE \notin CallerFound
  PROVE  Spec /\ []Alone => []KernelRegionsApart
<1>1. AloneInv /\ HeapInv => KernelRegionsApart
  <2> SUFFICES ASSUME AloneInv, HeapInv PROVE KernelRegionsApart
    OBVIOUS
  <2>1. ASSUME NEW c \in CPU, symrgtbl[Kernel][c] # Unset
        PROVE  \E n \in 0..(sbrk - 1) : symrgtbl[Kernel][c] = <<Kernel, n>>
    <3>1. PICK n \in Nat : Begins(c, n)
      BY <2>1 DEF HeapInv, RegionInv
    <3>2. sbrk \in Nat
      BY DEF AloneInv, TypeOK
    <3> QED BY <3>1, <3>2 DEF Begins
  <2> QED BY <2>1 DEF HeapInv, RegionInv, KernelRegionsApart
<1>2. Init => AloneInv /\ HeapInv
  BY AloneInit, HeapInit
<1>3. AloneInv /\ HeapInv /\ Alone /\ Alone' /\ [Next]_vars => (AloneInv /\ HeapInv)'
  BY AloneNext, HeapNext
<1> QED BY <1>1, <1>2, <1>3, PTL DEF Spec

=============================================================================
