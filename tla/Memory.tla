------------------------------- MODULE Memory -------------------------------
(***************************************************************************)
(* libmem.c: what a program finds in its variables.  The module puts the   *)
(* division of an area among variables (UserAlloc) on top of the frames    *)
(* that the pages of the area get (Paging), and gives the frames their     *)
(* bytes.  One process has its variables followed; the others use the same *)
(* frames.  Every call holds mmvm_lock and is one action.  What a byte     *)
(* holds is told by who wrote it: a variable of the process followed, or   *)
(* another process.                                                        *)
(***************************************************************************)
EXTENDS Paging

CONSTANTS
  Self,       \* the process whose variables are followed
  Rgid,       \* the register numbers its program uses
  Sizes,      \* the sizes it asks for
  FrameSize,  \* PAGING_PAGESZ
  Offsets,    \* the offsets in a variable that it uses
  Foreign     \* the addresses that the other processes write to

ASSUME MemoryAssumption ==
  /\ Self \in Mm
  /\ Sizes \subseteq Nat
  /\ FrameSize \in Nat \ {0}
  /\ Foreign \subseteq 0..((MaxPgn + 1) * FrameSize - 1)

VmPage == Ratio * FrameSize   \* PAGING64_PAGESZ
Bytes == 0..(FrameSize - 1)

VARIABLES
  sbrk, vm_freerg_list, symrgtbl, used,  \* as in UserAlloc, of the process Self
  storage,  \* storage[f][o]: byte o of frame f of mram
  written   \* history: written[r] is the set of bytes of r that hold their data

variables == <<sbrk, vm_freerg_list, symrgtbl, used>>
memVars == <<vars, variables, storage, written>>

\* The area is the one that Paging maps.
Heap == INSTANCE UserAlloc WITH
  vm_end <- area[Self] * VmPage, PageSize <- VmPage,
  AreaCap <- AreaCap * VmPage, Garbage <- {}, CallerFound <- {TRUE}

MemInit ==
  /\ Init /\ Heap!Init
  /\ storage = [f \in Frames |-> [o \in Bytes |-> Blank]]
  /\ written = [r \in Rgid |-> {}]

BytesOf(r) == 0..(symrgtbl[r].rg_end - symrgtbl[r].rg_start - 1)
Address(r, off) == symrgtbl[r].rg_start + off

PageOf(addr) == addr \div FrameSize   \* PAGING_PGN

\* Mutant: the address that pg_setval computes lacks the offset.
ByteOfFrame(addr) == 0

ByteOf(addr) == addr % FrameSize      \* PAGING_OFFST

(***************************************************************************)
(* liballoc and libfree                                                    *)
(***************************************************************************)
AllocFromFreeList(r, size) ==
  /\ UNCHANGED <<vars, storage>>
  /\ Heap!AllocFromFreeList(r, size)
  /\ written' = [written EXCEPT ![r] = {}]

\* The pages that a growth maps, some of them perhaps again.
MappedByGrowth ==
  IF Len(ram_free) >= MapCount THEN area[Self]..(area[Self] + MapCount - 1) ELSE {}

AllocAtSbrk(r, size) ==
  /\ IF sbrk + size <= area[Self] * VmPage
     THEN UNCHANGED vars
     ELSE Grow(Self, Heap!PageAligned(size) \div VmPage)
  /\ Heap!AllocAtSbrk(r, size)
  /\ UNCHANGED storage
  /\ written' = [q \in Rgid |->
       {off \in written[q] :
          q # r /\ PageOf(Address(q, off)) \notin MappedByGrowth}]

Free(r) ==
  /\ UNCHANGED <<vars, storage>>
  /\ Heap!Free(r)
  /\ written' = [written EXCEPT ![r] = {}]

(***************************************************************************)
(* libread and libwrite, within the variable                               *)
(***************************************************************************)
\* pg_setval: nothing is written when pg_getpage fails.
SetVal(m, addr, data) ==
  LET p == PageOf(addr) IN
  /\ Write(m, p)
  /\ storage' = IF pgd'[m][p].present
                THEN [storage EXCEPT ![Fpn(pgd'[m][p])][ByteOf(addr)] = data]
                ELSE storage

\* Its failure is not reported.
LibWrite(r, off) ==
  /\ off \in BytesOf(r)
  /\ SetVal(Self, Address(r, off), r)
  /\ written' = [written EXCEPT ![r] =
       IF pgd'[Self][PageOf(Address(r, off))].present THEN @ \union {off} ELSE @ \ {off}]
  /\ UNCHANGED variables

LibRead(r, off) ==
  /\ off \in BytesOf(r)
  /\ Read(Self, PageOf(Address(r, off)))
  /\ UNCHANGED <<variables, storage, written>>

\* The calls of the other processes.
Other(m) ==
  /\ \/ (\E n \in 1..AreaCap : Grow(m, n)) /\ UNCHANGED storage
     \/ (\E p \in Pages : Read(m, p)) /\ UNCHANGED storage
     \/ \E addr \in Foreign : SetVal(m, addr, m)
  /\ UNCHANGED <<variables, written>>

MemNext ==
  \/ \E r \in Rgid :
       \/ \E size \in Sizes : AllocFromFreeList(r, size) \/ AllocAtSbrk(r, size)
       \/ Free(r)
       \/ \E off \in Offsets : LibRead(r, off) \/ LibWrite(r, off)
  \/ \E m \in Mm \ {Self} : Other(m)

MemSpec == MemInit /\ [][MemNext]_memVars

(***************************************************************************)
(* Correctness                                                             *)
(***************************************************************************)
MemTypeOK ==
  /\ TypeOK /\ Heap!TypeOK
  /\ storage \in [Frames -> [Bytes -> Rgid \union Mm \union {Blank}]]
  /\ \A r \in Rgid : written[r] \subseteq BytesOf(r)

\* Every byte of a variable lies below the end of the area as Paging has it: what
\* liballoc hands out and what inc_vma_limit adds agree, through all carving and
\* page alignment.  (Whether its page is mapped is another matter: a growth by four
\* pages maps three, and one that finds no frames maps none.)
VariablesInArea == \A r \in Rgid : symrgtbl[r].rg_end <= area[Self] * VmPage

\* A variable keeps what was written to it, byte by byte: no other variable, no
\* call of another process, no reallocation out of the free list and no growth
\* touches it.  Excepted are the losses that Paging shows: once a page has been
\* replaced nothing is promised, and a growth loses the pages it maps again
\* (liballoc, libfree, pg_getval and pg_setval together).
ReadsBack ==
  ~replaced => \A r \in Rgid : \A off \in written[r] :
    LET addr == Address(r, off) IN
    /\ Present(Self, PageOf(addr))
    /\ storage[FrameOf(Self, PageOf(addr))][ByteOf(addr)] = r

=============================================================================
