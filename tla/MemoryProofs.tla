---------------------------- MODULE MemoryProofs ----------------------------
(***************************************************************************)
(* What a program writes to its variables it reads back, for any programs, *)
(* sizes and numbers of frames, until a page is replaced.  The proof puts  *)
(* those about the two parts together: the division of the area            *)
(* (UserAllocProofs) and the frames of its pages (PagingProofs).           *)
(***************************************************************************)
EXTENDS Memory, PagingProofs

\* The instance Heap of module Memory, with what is proved of it.
HeapProofs == INSTANCE UserAllocProofs WITH
  vm_end <- area[Self] * VmPage, PageSize <- VmPage,
  AreaCap <- AreaCap * VmPage, Garbage <- {}, CallerFound <- {TRUE}

(***************************************************************************)
(* Addresses, pages and bytes                                              *)
(***************************************************************************)
LEMMA Units ==
  /\ VmPage \in Nat \ {0} /\ FrameSize \in Nat \ {0} /\ Ratio \in Nat \ {0}
  /\ AreaCap \in Nat /\ AreaCap * VmPage \in Nat
BY MemoryAssumption, PagingAssumption DEF VmPage

\* The assumption of module UserAlloc, of the instance.
LEMMA HeapAssumption ==
  /\ Sizes \subseteq Nat
  /\ VmPage \in Nat \ {0}
  /\ AreaCap * VmPage \in Nat
  /\ {} \subseteq HeapProofs!Extents
  /\ {TRUE} \in SUBSET BOOLEAN
BY Units, MemoryAssumption

LEMMA TimesMonotone ==
  ASSUME NEW n \in Nat \ {0}, NEW x \in Nat, NEW y \in Nat, x * n < y * n
  PROVE  x < y
<1> SUFFICES ASSUME x >= y PROVE FALSE
  OBVIOUS
<1>1. PICK d \in Nat : x = y + d
  <2>1. x - y \in Nat /\ x = y + (x - y)
    OBVIOUS
  <2> QED BY <2>1
<1>2. x * n = y * n + d * n /\ d * n \in Nat /\ y * n \in Nat
  BY <1>1
<1> QED BY <1>2

LEMMA DivParts ==
  ASSUME NEW n \in Nat \ {0}, NEW x \in Nat
  PROVE  /\ x \div n \in Nat /\ x % n \in 0..(n - 1)
         /\ (x \div n) * n <= x
OBVIOUS

\* An address in an area of so many pages is on one of its smaller pages.
LEMMA PageOfArea ==
  ASSUME NEW n \in Nat, NEW addr \in Nat, addr < n * VmPage
  PROVE  PageOf(addr) \in Nat /\ PageOf(addr) < n * Ratio /\ ByteOf(addr) \in Bytes
<1>1. /\ PageOf(addr) \in Nat /\ ByteOf(addr) \in Bytes
      /\ PageOf(addr) * FrameSize <= addr
  BY Units, DivParts DEF PageOf, ByteOf, Bytes
<1>2. n * VmPage = (n * Ratio) * FrameSize /\ n * Ratio \in Nat
  BY Units DEF VmPage
<1>3. PageOf(addr) * FrameSize \in Nat
  BY <1>1, Units
<1>4. PageOf(addr) * FrameSize < (n * Ratio) * FrameSize
  BY <1>1, <1>2, <1>3, Units
<1>5. PageOf(addr) < n * Ratio
  BY <1>1, <1>2, <1>4, Units, TimesMonotone
<1> QED BY <1>1, <1>5

LEMMA AreaPages ==
  ASSUME NEW n \in 0..AreaCap, NEW p \in Nat, p < n * Ratio
  PROVE  p \in Pages
<1>1. n * Ratio <= AreaCap * Ratio
  <2>1. PICK d \in Nat : AreaCap = n + d
    <3>1. AreaCap - n \in Nat /\ AreaCap = n + (AreaCap - n)
      BY Units
    <3> QED BY <3>1
  <2>2. AreaCap * Ratio = n * Ratio + d * Ratio /\ d * Ratio \in Nat /\ n * Ratio \in Nat
    BY <2>1, Units
  <2> QED BY <2>2
<1> QED BY <1>1, PagingAssumption DEF Pages

\* Page and byte tell an address.
LEMMA SameAddress ==
  ASSUME NEW a \in Nat, NEW b \in Nat, PageOf(a) = PageOf(b), ByteOf(a) = ByteOf(b)
  PROVE  a = b
BY Units, DivMod DEF PageOf, ByteOf

(***************************************************************************)
(* The inductive invariant                                                 *)
(***************************************************************************)
Data == Rgid \union Mm \union {Blank}

BytesTyped == /\ storage \in [Frames -> [Bytes -> Data]]
              /\ written \in [Rgid -> SUBSET Nat]
              /\ \A r \in Rgid : written[r] \subseteq BytesOf(r)

\* A variable that was never allocated has no bytes.
UnusedInv == \A r \in Rgid \ used : symrgtbl[r] = HeapProofs!Unset

\* Byte off of variable r is what the program wrote there.
Holds(r, off) ==
  /\ Present(Self, PageOf(Address(r, off)))
  /\ storage[FrameOf(Self, PageOf(Address(r, off)))][ByteOf(Address(r, off))] = r

MemInv ==
  IInv /\ HeapProofs!IInv /\ BytesTyped /\ UnusedInv /\ ReadsBack

LEMMA ReadsBackHolds ==
  ReadsBack <=> (~replaced => \A r \in Rgid : \A off \in written[r] : Holds(r, off))
BY DEF ReadsBack, Holds

\* What the invariant of the area says of regions, with the names of Memory.
LEMMA HeapFacts ==
  ASSUME HeapProofs!IInv
  PROVE  /\ sbrk \in Nat /\ sbrk = area[Self] * VmPage
         /\ used \subseteq Rgid
         /\ \A r \in Rgid : /\ symrgtbl[r].rg_start \in Nat /\ symrgtbl[r].rg_end \in Nat
                            /\ symrgtbl[r].rg_start <= symrgtbl[r].rg_end
         /\ \A r \in used : symrgtbl[r].rg_end <= sbrk
         /\ \A r, q \in used : r # q =>
              \/ symrgtbl[r].rg_end <= symrgtbl[q].rg_start
              \/ symrgtbl[q].rg_end <= symrgtbl[r].rg_start
<1>1. sbrk \in Nat /\ sbrk = area[Self] * VmPage /\ used \subseteq Rgid
  BY DEF HeapProofs!IInv, HeapProofs!TypeOK, HeapProofs!AreaInv
<1>2. \A r \in Rgid : /\ symrgtbl[r].rg_start \in Nat /\ symrgtbl[r].rg_end \in Nat
                      /\ symrgtbl[r].rg_start <= symrgtbl[r].rg_end
  BY DEF HeapProofs!IInv, HeapProofs!TypeOK, HeapProofs!Extents, HeapProofs!Regions
<1>3. /\ \A r \in used : symrgtbl[r].rg_end <= sbrk
      /\ \A r, q \in used : r # q => HeapProofs!Apart(symrgtbl[r], symrgtbl[q])
  BY DEF HeapProofs!IInv, HeapProofs!NoOverlap
<1> QED BY <1>1, <1>2, <1>3 DEF HeapProofs!Apart

\* Where the bytes of a variable are.
LEMMA ByteOfVariable ==
  ASSUME IInv, HeapProofs!IInv, UnusedInv, NEW r \in Rgid, NEW off \in BytesOf(r)
  PROVE  /\ r \in used /\ off \in Nat
         /\ Address(r, off) \in Nat
         /\ symrgtbl[r].rg_start <= Address(r, off)
         /\ Address(r, off) < symrgtbl[r].rg_end
         /\ PageOf(Address(r, off)) \in Pages
         /\ PageOf(Address(r, off)) < area[Self] * Ratio
         /\ ByteOf(Address(r, off)) \in Bytes
<1>1. /\ symrgtbl[r].rg_start \in Nat /\ symrgtbl[r].rg_end \in Nat
      /\ off \in Nat /\ off < symrgtbl[r].rg_end - symrgtbl[r].rg_start
  BY HeapFacts DEF BytesOf
<1>2. r \in used
  BY <1>1 DEF UnusedInv, HeapProofs!Unset, HeapProofs!Region
<1>3. /\ Address(r, off) \in Nat
      /\ symrgtbl[r].rg_start <= Address(r, off)
      /\ Address(r, off) < symrgtbl[r].rg_end
  BY <1>1 DEF Address
<1>4. Self \in Mm /\ area[Self] \in 0..AreaCap
  BY MemoryAssumption DEF IInv, TypeOK
<1>5. Address(r, off) < area[Self] * VmPage
  <2>1. symrgtbl[r].rg_end <= sbrk /\ sbrk = area[Self] * VmPage /\ sbrk \in Nat
    BY <1>2, HeapFacts
  <2> QED BY <1>1, <1>3, <2>1
<1>6. area[Self] \in Nat
  BY <1>4, Units
<1>7. /\ PageOf(Address(r, off)) \in Nat
      /\ PageOf(Address(r, off)) < area[Self] * Ratio
      /\ ByteOf(Address(r, off)) \in Bytes
  BY <1>3, <1>5, <1>6, PageOfArea
<1> QED BY <1>1, <1>2, <1>3, <1>4, <1>7, AreaPages

\* No two variables have a byte in common.
LEMMA OwnBytes ==
  ASSUME IInv, HeapProofs!IInv, UnusedInv,
         NEW r \in Rgid, NEW off \in BytesOf(r),
         NEW q \in Rgid, NEW at \in BytesOf(q),
         Address(r, off) = Address(q, at)
  PROVE  r = q /\ off = at
<1>1. r = q
  <2>1. /\ r \in used /\ symrgtbl[r].rg_start <= Address(r, off)
        /\ Address(r, off) < symrgtbl[r].rg_end /\ Address(r, off) \in Nat
    BY ByteOfVariable
  <2>2. /\ q \in used /\ symrgtbl[q].rg_start <= Address(q, at)
        /\ Address(q, at) < symrgtbl[q].rg_end
    BY ByteOfVariable
  <2>3. /\ symrgtbl[r].rg_start \in Nat /\ symrgtbl[r].rg_end \in Nat
        /\ symrgtbl[q].rg_start \in Nat /\ symrgtbl[q].rg_end \in Nat
    BY HeapFacts
  <2>4. r # q => \/ symrgtbl[r].rg_end <= symrgtbl[q].rg_start
                 \/ symrgtbl[q].rg_end <= symrgtbl[r].rg_start
    BY <2>1, <2>2, HeapFacts
  <2> QED BY <2>1, <2>2, <2>3, <2>4
<1>2. symrgtbl[r].rg_start \in Nat /\ off \in Nat /\ at \in Nat
  BY HeapFacts, ByteOfVariable
<1> QED BY <1>1, <1>2 DEF Address

(***************************************************************************)
(* The steps in terms of the two parts                                     *)
(***************************************************************************)
\* The operations of the instance are those that UserAllocProofs speaks of.
LEMMA HeapOperations ==
  ASSUME NEW r \in Rgid, NEW size \in Sizes
  PROVE  /\ Heap!AllocFromFreeList(r, size) => HeapProofs!AllocFromFreeList(r, size)
         /\ Heap!AllocAtSbrk(r, size) => HeapProofs!AllocAtSbrk(r, size)
         /\ Heap!Free(r) => HeapProofs!Free(r)
<1>1. Heap!AllocFromFreeList(r, size) => HeapProofs!AllocFromFreeList(r, size)
  BY DEF Heap!AllocFromFreeList, HeapProofs!AllocFromFreeList, Heap!FirstFit,
         HeapProofs!FirstFit, Heap!HasRoom, HeapProofs!HasRoom, Heap!Carved,
         HeapProofs!Carved, Heap!RemoveAt, HeapProofs!RemoveAt, Heap!Region,
         HeapProofs!Region
<1>2. Heap!AllocAtSbrk(r, size) => HeapProofs!AllocAtSbrk(r, size)
  BY DEF Heap!AllocAtSbrk, HeapProofs!AllocAtSbrk, Heap!HasRoom, HeapProofs!HasRoom,
         Heap!IncVmaLimit, HeapProofs!IncVmaLimit, Heap!PageAligned,
         HeapProofs!PageAligned, Heap!Region, HeapProofs!Region
<1>3. Heap!Free(r) => HeapProofs!Free(r)
  BY DEF Heap!Free, HeapProofs!Free, Heap!Unset, HeapProofs!Unset, Heap!Region,
         HeapProofs!Region
<1> QED BY <1>1, <1>2, <1>3

\* A growth changes no entry but those it maps.
LEMMA GrowEffect ==
  ASSUME IInv, NEW m \in Mm, NEW n \in 1..AreaCap, Grow(m, n)
  PROVE  /\ UNCHANGED replaced
         /\ area' = [area EXCEPT ![m] = @ + n]
         /\ \A k \in Mm, p \in Pages :
              ~(/\ k = m /\ Len(ram_free) >= MapCount
                /\ p \in area[m]..(area[m] + MapCount - 1))
              => pgd'[k][p] = pgd[k][p]
<1>1. UNCHANGED replaced /\ area' = [area EXCEPT ![m] = @ + n]
  BY DEF Grow
<1>2. CASE Len(ram_free) >= MapCount
  <2>1. VmapPageRange(m, area[m])
    BY <1>2 DEF Grow, VmMapRam
  <2>2. area[m] \in Nat /\ area[m] + n <= AreaCap
    BY Units DEF IInv, TypeOK, Grow
  <2>3. area[m] + 2 \in Pages
    BY <2>2, PagingAssumption DEF Pages
  <2>4. \A k \in Mm, q \in Pages :
          pgd'[k][q] = IF k = m /\ q \in area[m]..(area[m] + 2)
                       THEN Online(ram_free[q - area[m] + 1]) ELSE pgd[k][q]
    BY <1>2, <2>1, <2>2, <2>3, GrowthEntries DEF IInv
  <2> QED BY <1>1, <1>2, <2>2, <2>4 DEF MapCount
<1>3. CASE ~(Len(ram_free) >= MapCount)
  BY <1>1, <1>3 DEF Grow, VmMapRam
<1> QED BY <1>2, <1>3

\* The area of the process followed grows by the pages that UserAlloc adds.
LEMMA GrowthSize ==
  ASSUME HeapProofs!IInv, NEW r \in Rgid, NEW size \in Sizes,
         Heap!AllocAtSbrk(r, size), ~(sbrk + size <= area[Self] * VmPage)
  PROVE  Heap!PageAligned(size) \div VmPage \in 1..AreaCap
<1> DEFINE k == (size + VmPage - 1) \div VmPage
<1>1. size \in Nat \ {0} /\ sbrk \in Nat
  BY MemoryAssumption, HeapFacts
<1>2. Heap!PageAligned(size) = k * VmPage
  BY DEF Heap!PageAligned
<1>3. sbrk + k * VmPage <= AreaCap * VmPage
  BY <1>2 DEF Heap!AllocAtSbrk
<1>4. size + VmPage - 1 \in Nat /\ size + VmPage - 1 >= VmPage /\ VmPage \in Nat \ {0}
  BY <1>1, Units
<1>5. k \in Nat /\ k * VmPage \in Nat /\ k # 0
  <2>1. k \in Nat
    BY <1>4, DivParts
  <2>2. k # 0
    BY <1>4, SmallDivMod
  <2> QED BY <1>4, <2>1, <2>2
<1> HIDE DEF k
<1>6. k <= AreaCap
  <2>1. k * VmPage < (AreaCap + 1) * VmPage
    <3>1. (AreaCap + 1) * VmPage = AreaCap * VmPage + VmPage /\ AreaCap * VmPage \in Nat
      BY Units
    <3>2. k * VmPage <= AreaCap * VmPage
      BY <1>1, <1>3, <1>5, Units
    <3> QED BY <1>4, <1>5, <3>1, <3>2
  <2>2. k < AreaCap + 1
    BY <1>4, <1>5, <2>1, Units, TimesMonotone
  <2> QED BY <1>5, <2>2, Units
<1>7. (k * VmPage) \div VmPage = k
  BY <1>4, <1>5
<1> QED BY <1>2, <1>5, <1>6, <1>7, Units

\* What pg_setval does: nothing, or a byte of a page that is there, or it
\* replaces a page.
LEMMA SetValEffect ==
  ASSUME IInv, BytesTyped, NEW m \in Mm, NEW addr \in Nat, PageOf(addr) \in Pages,
         ByteOf(addr) \in Bytes, NEW data \in Rgid \union Mm,
         SetVal(m, addr, data)
  PROVE  /\ IInv' /\ [Next]_vars /\ UNCHANGED area
         /\ storage' \in [Frames -> [Bytes -> Data]]
         /\ \/ replaced'
            \/ /\ Present(m, PageOf(addr)) /\ UNCHANGED <<pgd, replaced>>
               /\ storage' = [storage EXCEPT
                    ![FrameOf(m, PageOf(addr))][ByteOf(addr)] = data]
            \/ ~Present(m, PageOf(addr)) /\ UNCHANGED <<pgd, replaced, storage>>
<1> DEFINE p == PageOf(addr)
<1>1. Write(m, p)
  BY DEF SetVal
<1>2. [Next]_vars
  BY <1>1 DEF Next
<1>3. IInv'
  BY <1>1, WriteInv
<1>4. storage' = IF pgd'[m][p].present
                 THEN [storage EXCEPT ![Fpn(pgd'[m][p])][ByteOf(addr)] = data]
                 ELSE storage
  BY DEF SetVal
<1>5. Fpn(pgd'[m][p]) \in Frames
  <2>1. pgd'[m][p] \in Pte /\ pgd'[m][p].low \in Frames
    BY <1>3 DEF IInv, TypeOK, EntryInv
  <2> QED BY ONLY <2>1, EntryOps
<1>6. storage' \in [Frames -> [Bytes -> Data]]
  BY <1>4, <1>5 DEF BytesTyped, Data
<1> HIDE DEF p
<1>7. CASE PageFault(m, p)
  <2>1. UNCHANGED area /\ replaced'
    BY <1>7 DEF PageFault
  <2> QED BY <1>2, <1>3, <1>6, <2>1
<1>8. CASE FaultFails(m, p)
  <2>1. ~Present(m, p) /\ UNCHANGED <<area, pgd, replaced>>
    BY <1>8 DEF FaultFails
  <2>2. storage' = storage
    BY <1>4, <2>1 DEF Present
  <2> QED BY <1>2, <1>3, <1>6, <2>1, <2>2 DEF p
<1>9. CASE Present(m, p) /\ UNCHANGED <<area, pgd, fifo_pgn, ram_free, swp_free,
                                        mswp, replaced>>
  <2>1. storage' = [storage EXCEPT ![FrameOf(m, p)][ByteOf(addr)] = data]
    BY <1>4, <1>9 DEF Present, FrameOf
  <2> QED BY <1>2, <1>3, <1>6, <1>9, <2>1 DEF p
<1> QED BY <1>1, <1>7, <1>8, <1>9 DEF Write

\* The addresses that the other processes write to.
LEMMA ForeignPages ==
  ASSUME NEW addr \in Foreign
  PROVE  addr \in Nat /\ PageOf(addr) \in Pages /\ ByteOf(addr) \in Bytes
<1>1. addr \in Nat /\ addr < (MaxPgn + 1) * FrameSize
  BY MemoryAssumption, PagingAssumption
<1>2. /\ PageOf(addr) \in Nat /\ ByteOf(addr) \in Bytes
      /\ PageOf(addr) * FrameSize <= addr
  BY <1>1, Units, DivParts DEF PageOf, ByteOf, Bytes
<1>3. PageOf(addr) * FrameSize \in Nat /\ (MaxPgn + 1) * FrameSize \in Nat
  BY <1>2, Units, PagingAssumption
<1>4. PageOf(addr) < MaxPgn + 1
  BY <1>1, <1>2, <1>3, Units, PagingAssumption, TimesMonotone
<1> QED BY <1>1, <1>2, <1>4, PagingAssumption DEF Pages

LEMMA MemStepCases ==
  ASSUME [MemNext]_memVars
  PROVE  \/ \E r \in Rgid, size \in Sizes : AllocFromFreeList(r, size)
         \/ \E r \in Rgid, size \in Sizes : AllocAtSbrk(r, size)
         \/ \E r \in Rgid : Free(r)
         \/ \E r \in Rgid, off \in Offsets : LibRead(r, off)
         \/ \E r \in Rgid, off \in Offsets : LibWrite(r, off)
         \/ \E m \in Mm \ {Self} : Other(m)
         \/ UNCHANGED memVars
BY DEF MemNext

\* Every step is a step of Paging and a step of UserAlloc, or leaves the
\* variables of the one or the other alone.
LEMMA BothSteps ==
  ASSUME MemInv, [MemNext]_memVars
  PROVE  /\ [Next]_vars
         /\ [HeapProofs!Next]_(HeapProofs!vars)
<1> DEFINE Goal == [Next]_vars /\ [HeapProofs!Next]_(HeapProofs!vars)
<1>0. /\ Self \in Mm /\ area \in [Mm -> 0..AreaCap]
      /\ UNCHANGED <<area[Self], variables>> => UNCHANGED HeapProofs!vars
  BY MemoryAssumption DEF MemInv, IInv, TypeOK, variables, HeapProofs!vars
<1>1. ASSUME NEW r \in Rgid, NEW size \in Sizes, AllocFromFreeList(r, size)
      PROVE  Goal
  BY <1>1, HeapOperations DEF AllocFromFreeList, HeapProofs!Next
<1>2. ASSUME NEW r \in Rgid, NEW size \in Sizes, AllocAtSbrk(r, size)
      PROVE  Goal
  <2>1. [HeapProofs!Next]_(HeapProofs!vars)
    BY <1>2, HeapOperations DEF AllocAtSbrk, HeapProofs!Next
  <2>2. CASE sbrk + size <= area[Self] * VmPage
    BY <1>2, <2>1, <2>2 DEF AllocAtSbrk
  <2>3. CASE ~(sbrk + size <= area[Self] * VmPage)
    <3>1. Heap!PageAligned(size) \div VmPage \in 1..AreaCap
      BY <1>2, <2>3, GrowthSize DEF AllocAtSbrk, MemInv
    <3>2. Grow(Self, Heap!PageAligned(size) \div VmPage)
      BY <1>2, <2>3 DEF AllocAtSbrk
    <3> QED BY <1>0, <2>1, <3>1, <3>2 DEF Next
  <2> QED BY <2>2, <2>3
<1>3. ASSUME NEW r \in Rgid, Free(r)
      PROVE  Goal
  <2>1. Heap!Free(r) => HeapProofs!Free(r)
    BY DEF Heap!Free, HeapProofs!Free, Heap!Unset, HeapProofs!Unset, Heap!Region,
           HeapProofs!Region
  <2> QED BY <1>3, <2>1 DEF Free, HeapProofs!Next
<1>4. ASSUME NEW r \in Rgid, NEW off \in Offsets, LibRead(r, off)
      PROVE  Goal
  <2>1. PageOf(Address(r, off)) \in Pages
    BY <1>4, ByteOfVariable DEF LibRead, MemInv
  <2>2. Read(Self, PageOf(Address(r, off)))
    BY <1>4 DEF LibRead
  <2>3. UNCHANGED area
    BY <2>2 DEF Read, PageFault, FaultFails
  <2>4. UNCHANGED variables
    BY <1>4 DEF LibRead
  <2> QED BY <1>0, <2>1, <2>2, <2>3, <2>4 DEF Next
<1>5. ASSUME NEW r \in Rgid, NEW off \in Offsets, LibWrite(r, off)
      PROVE  Goal
  <2>1. /\ Address(r, off) \in Nat /\ PageOf(Address(r, off)) \in Pages
        /\ ByteOf(Address(r, off)) \in Bytes
    BY <1>5, ByteOfVariable DEF LibWrite, MemInv
  <2>2. [Next]_vars /\ UNCHANGED area
    BY <1>0, <1>5, <2>1, SetValEffect DEF LibWrite, MemInv
  <2>3. UNCHANGED variables
    BY <1>5 DEF LibWrite
  <2> QED BY <1>0, <2>2, <2>3
<1>6. ASSUME NEW m \in Mm \ {Self}, Other(m)
      PROVE  Goal
  <2>1. UNCHANGED variables
    BY <1>6 DEF Other
  <2>2. ASSUME NEW n \in 1..AreaCap, Grow(m, n) PROVE Goal
    <3>1. area'[Self] = area[Self]
      BY <1>0, <2>2 DEF Grow
    <3> QED BY <1>0, <2>1, <2>2, <3>1 DEF Next
  <2>3. ASSUME NEW p \in Pages, Read(m, p) PROVE Goal
    <3>1. UNCHANGED area
      BY <2>3 DEF Read, PageFault, FaultFails
    <3> QED BY <1>0, <2>1, <2>3, <3>1 DEF Next
  <2>4. ASSUME NEW addr \in Foreign, SetVal(m, addr, m) PROVE Goal
    <3>1. [Next]_vars /\ UNCHANGED area
      BY <2>4, ForeignPages, SetValEffect DEF MemInv
    <3> QED BY <1>0, <2>1, <3>1
  <2> QED BY <1>6, <2>2, <2>3, <2>4 DEF Other
<1>7. CASE UNCHANGED memVars
  <2>1. UNCHANGED vars /\ UNCHANGED variables
    BY <1>7 DEF memVars
  <2>2. UNCHANGED area
    BY <2>1 DEF vars
  <2> QED BY <1>0, <2>1, <2>2
<1> QED BY <1>1, <1>2, <1>3, <1>4, <1>5, <1>6, <1>7, MemStepCases

LEMMA PartsInv ==
  ASSUME MemInv, [MemNext]_memVars
  PROVE  IInv' /\ HeapProofs!IInv'
<1>1. IInv'
  BY BothSteps, NextInv DEF MemInv
<1>2. HeapProofs!IInv /\ [HeapProofs!Next]_(HeapProofs!vars)
  BY BothSteps DEF MemInv
<1>3. HeapProofs!IInv'
  BY <1>2, HeapAssumption, HeapProofs!NextInv
<1> QED BY <1>1, <1>3

(***************************************************************************)
(* The bytes                                                               *)
(***************************************************************************)
BytesInv == BytesTyped /\ UnusedInv /\ ReadsBack

\* A byte that stays at its address, on a page that stays on its frame.
LEMMA StillHolds ==
  ASSUME NEW r \in Rgid, NEW off, Holds(r, off),
         symrgtbl'[r] = symrgtbl[r],
         pgd'[Self][PageOf(Address(r, off))] = pgd[Self][PageOf(Address(r, off))],
         storage'[FrameOf(Self, PageOf(Address(r, off)))][ByteOf(Address(r, off))] = r
  PROVE  Holds(r, off)'
BY DEF Holds, Present, FrameOf, Address, PageOf, ByteOf

LEMMA WrittenPages ==
  ASSUME MemInv, NEW r \in Rgid, NEW off \in written[r]
  PROVE  /\ off \in BytesOf(r)
         /\ PageOf(Address(r, off)) \in Pages /\ ByteOf(Address(r, off)) \in Bytes
         /\ FrameOf(Self, PageOf(Address(r, off))) \in Frames
         /\ ~replaced => Holds(r, off)
<1>1. off \in BytesOf(r)
  BY DEF MemInv, BytesTyped
<1>2. PageOf(Address(r, off)) \in Pages /\ ByteOf(Address(r, off)) \in Bytes
  BY <1>1, ByteOfVariable DEF MemInv
<1>3. FrameOf(Self, PageOf(Address(r, off))) \in Frames
  <2>1. /\ pgd[Self][PageOf(Address(r, off))] \in Pte
        /\ pgd[Self][PageOf(Address(r, off))].low \in Frames
    BY <1>2, MemoryAssumption DEF MemInv, IInv, TypeOK, EntryInv
  <2>2. Fpn(pgd[Self][PageOf(Address(r, off))]) \in Frames
    BY ONLY <2>1, EntryOps
  <2> QED BY <2>2 DEF FrameOf
<1> QED BY <1>1, <1>2, <1>3, ReadsBackHolds DEF MemInv

\* A call that gives variable r another region, or takes its region away.
LEMMA Reassigned ==
  ASSUME MemInv, NEW r \in Rgid, UNCHANGED <<storage, replaced>>,
         \A q \in Rgid \ {r} : symrgtbl'[q] = symrgtbl[q],
         used \subseteq used', r \in used',
         written' \in [Rgid -> SUBSET Nat], written'[r] = {},
         \A q \in Rgid \ {r} : written'[q] \subseteq written[q],
         \A q \in Rgid \ {r} : \A off \in written'[q] :
           pgd'[Self][PageOf(Address(q, off))] = pgd[Self][PageOf(Address(q, off))]
  PROVE  BytesInv'
<1>1. BytesTyped'
  <2>1. ASSUME NEW q \in Rgid PROVE written'[q] \subseteq BytesOf(q)'
    <3>1. CASE q = r
      BY <3>1
    <3>2. CASE q # r
      BY <3>2 DEF MemInv, BytesTyped, BytesOf
    <3> QED BY <3>1, <3>2
  <2> QED BY <2>1 DEF MemInv, BytesTyped, Data, Frames, Bytes
<1>2. UnusedInv'
  <2>1. ASSUME NEW q \in Rgid \ used' PROVE symrgtbl'[q] = HeapProofs!Unset
    <3>1. q # r /\ q \in Rgid \ used
      OBVIOUS
    <3> QED BY <3>1 DEF MemInv, UnusedInv
  <2> QED BY <2>1 DEF UnusedInv, HeapProofs!Unset, HeapProofs!Region
<1>3. ReadsBack'
  <2>1. ASSUME ~replaced', NEW q \in Rgid, NEW off \in written'[q]
        PROVE  Holds(q, off)'
    <3>1. q # r /\ off \in written[q] /\ ~replaced
      BY <2>1
    <3>2. Holds(q, off)
      BY <3>1, WrittenPages
    <3>3. storage'[FrameOf(Self, PageOf(Address(q, off)))][ByteOf(Address(q, off))] = q
      BY <3>2 DEF Holds
    <3>4. /\ symrgtbl'[q] = symrgtbl[q]
          /\ pgd'[Self][PageOf(Address(q, off))] = pgd[Self][PageOf(Address(q, off))]
      BY <3>1
    <3> QED BY <3>2, <3>3, <3>4, StillHolds
  <2> QED BY <2>1 DEF ReadsBack, Holds
<1> QED BY <1>1, <1>2, <1>3 DEF BytesInv

LEMMA AllocBytes ==
  ASSUME MemInv, NEW r \in Rgid, NEW size \in Sizes,
         AllocFromFreeList(r, size) \/ AllocAtSbrk(r, size)
  PROVE  BytesInv'
<1>1. /\ symrgtbl \in [Rgid -> HeapProofs!Extents]
      /\ written \in [Rgid -> SUBSET Nat] /\ Self \in Mm
  BY MemoryAssumption DEF MemInv, HeapProofs!IInv, HeapProofs!TypeOK, BytesTyped
<1>2. CASE AllocFromFreeList(r, size)
  <2>1. /\ \A q \in Rgid \ {r} : symrgtbl'[q] = symrgtbl[q]
        /\ used' = used \union {r}
    BY <1>1, <1>2 DEF AllocFromFreeList, Heap!AllocFromFreeList
  <2>2. UNCHANGED <<storage, replaced, pgd>> /\ written' = [written EXCEPT ![r] = {}]
    BY <1>2 DEF AllocFromFreeList, vars
  <2> QED BY <1>1, <2>1, <2>2, Reassigned
<1>3. CASE AllocAtSbrk(r, size)
  <2>1. /\ \A q \in Rgid \ {r} : symrgtbl'[q] = symrgtbl[q]
        /\ used' = used \union {r}
    BY <1>1, <1>3 DEF AllocAtSbrk, Heap!AllocAtSbrk
  <2>2. /\ storage' = storage
        /\ written' = [q \in Rgid |-> {off \in written[q] :
             q # r /\ PageOf(Address(q, off)) \notin MappedByGrowth}]
    BY <1>3 DEF AllocAtSbrk
  <2>3. /\ written' \in [Rgid -> SUBSET Nat] /\ written'[r] = {}
        /\ \A q \in Rgid \ {r} : \A off \in written'[q] :
             off \in written[q] /\ PageOf(Address(q, off)) \notin MappedByGrowth
    BY <1>1, <2>2
  <2>4. /\ UNCHANGED replaced
        /\ \A p \in Pages : p \notin MappedByGrowth => pgd'[Self][p] = pgd[Self][p]
    <3>1. CASE UNCHANGED vars
      BY <3>1 DEF vars
    <3>2. CASE ~(sbrk + size <= area[Self] * VmPage)
      <4>1. Heap!PageAligned(size) \div VmPage \in 1..AreaCap
        BY <1>3, <3>2, GrowthSize DEF AllocAtSbrk, MemInv
      <4>2. Grow(Self, Heap!PageAligned(size) \div VmPage)
        BY <1>3, <3>2 DEF AllocAtSbrk
      <4> QED BY <1>1, <4>1, <4>2, GrowEffect DEF MemInv, MappedByGrowth
    <3> QED BY <1>3, <3>1, <3>2 DEF AllocAtSbrk
  <2>5. \A q \in Rgid \ {r} : \A off \in written'[q] :
          pgd'[Self][PageOf(Address(q, off))] = pgd[Self][PageOf(Address(q, off))]
    BY <2>3, <2>4, WrittenPages
  <2> QED BY <2>1, <2>2, <2>3, <2>4, <2>5, Reassigned
<1> QED BY <1>2, <1>3

LEMMA FreeBytes ==
  ASSUME MemInv, NEW r \in Rgid, Free(r)
  PROVE  BytesInv'
<1>1. /\ symrgtbl \in [Rgid -> HeapProofs!Extents]
      /\ written \in [Rgid -> SUBSET Nat]
  BY DEF MemInv, HeapProofs!IInv, HeapProofs!TypeOK, BytesTyped
<1>2. /\ \A q \in Rgid \ {r} : symrgtbl'[q] = symrgtbl[q]
      /\ used' = used /\ r \in used
  BY <1>1 DEF Free, Heap!Free
<1>3. UNCHANGED <<storage, replaced, pgd>> /\ written' = [written EXCEPT ![r] = {}]
  BY DEF Free, vars
<1> QED BY <1>1, <1>2, <1>3, Reassigned

\* A step that leaves every variable where it is.
LEMMA InPlace ==
  ASSUME MemInv, UNCHANGED variables,
         storage' \in [Frames -> [Bytes -> Data]], written' \in [Rgid -> SUBSET Nat],
         \A r \in Rgid : written'[r] \subseteq BytesOf(r),
         ~replaced' => \A r \in Rgid : \A off \in written'[r] : Holds(r, off)'
  PROVE  BytesInv'
<1>1. UNCHANGED <<symrgtbl, used>>
  BY DEF variables
<1>2. BytesTyped'
  BY <1>1 DEF BytesTyped, BytesOf, Data, Frames, Bytes
<1>3. UnusedInv'
  BY <1>1 DEF MemInv, UnusedInv, HeapProofs!Unset, HeapProofs!Region
<1>4. ReadsBack'
  BY DEF ReadsBack, Holds
<1> QED BY <1>2, <1>3, <1>4 DEF BytesInv

\* Nothing that concerns the bytes.
LEMMA Untouched ==
  ASSUME MemInv, UNCHANGED variables, UNCHANGED <<storage, written>>,
         \/ replaced'
         \/ UNCHANGED replaced /\ \A p \in Pages : pgd'[Self][p] = pgd[Self][p]
  PROVE  BytesInv'
<1>1. UNCHANGED symrgtbl
  BY DEF variables
<1>2. ASSUME ~replaced', NEW r \in Rgid, NEW off \in written'[r]
      PROVE  Holds(r, off)'
  <2>1. Holds(r, off) /\ PageOf(Address(r, off)) \in Pages
    BY <1>2, WrittenPages
  <2>2. storage'[FrameOf(Self, PageOf(Address(r, off)))][ByteOf(Address(r, off))] = r
    BY <2>1 DEF Holds
  <2>3. pgd'[Self][PageOf(Address(r, off))] = pgd[Self][PageOf(Address(r, off))]
    BY <1>2, <2>1
  <2> QED BY <1>1, <2>1, <2>2, <2>3, StillHolds
<1>3. /\ storage' \in [Frames -> [Bytes -> Data]] /\ written' \in [Rgid -> SUBSET Nat]
      /\ \A r \in Rgid : written'[r] \subseteq BytesOf(r)
  BY DEF MemInv, BytesTyped
<1> QED BY <1>2, <1>3, InPlace

LEMMA ReadBytes ==
  ASSUME MemInv, NEW m \in Mm, NEW p \in Pages, Read(m, p),
         UNCHANGED variables, UNCHANGED <<storage, written>>
  PROVE  BytesInv'
<1>1. replaced' \/ UNCHANGED <<replaced, pgd>>
  BY DEF Read, PageFault, FaultFails
<1> QED BY <1>1, Untouched

\* No two pages share a frame, so a byte written is no byte of another page.
LEMMA OtherFrames ==
  ASSUME MemInv, ~replaced, NEW m \in Mm, NEW p \in Pages, Present(m, p),
         NEW r \in Rgid, NEW off \in written[r],
         FrameOf(m, p) = FrameOf(Self, PageOf(Address(r, off)))
  PROVE  m = Self /\ p = PageOf(Address(r, off))
<1>1. Present(Self, PageOf(Address(r, off))) /\ PageOf(Address(r, off)) \in Pages
  BY WrittenPages DEF Holds
<1> QED BY <1>1, MemoryAssumption DEF MemInv, IInv, Isolated

LEMMA WriteBytes ==
  ASSUME MemInv, NEW r \in Rgid, NEW off, LibWrite(r, off)
  PROVE  BytesInv'
<1> DEFINE a == Address(r, off)
           page == PageOf(Address(r, off))
<1>1. /\ off \in BytesOf(r) /\ UNCHANGED variables /\ SetVal(Self, a, r)
      /\ written' = [written EXCEPT ![r] =
           IF pgd'[Self][page].present THEN @ \union {off} ELSE @ \ {off}]
  BY DEF LibWrite
<1>2. off \in Nat /\ a \in Nat /\ page \in Pages /\ ByteOf(a) \in Bytes
  BY <1>1, ByteOfVariable DEF MemInv
<1>3. /\ storage' \in [Frames -> [Bytes -> Data]]
      /\ \/ replaced'
         \/ /\ Present(Self, page) /\ UNCHANGED <<pgd, replaced>>
            /\ storage' = [storage EXCEPT ![FrameOf(Self, page)][ByteOf(a)] = r]
         \/ ~Present(Self, page) /\ UNCHANGED <<pgd, replaced, storage>>
  BY <1>1, <1>2, SetValEffect, MemoryAssumption DEF MemInv
<1>4. /\ written' \in [Rgid -> SUBSET Nat]
      /\ \A q \in Rgid : written'[q] \subseteq BytesOf(q)
  BY <1>1, <1>2 DEF MemInv, BytesTyped
<1>5. \A q \in Rgid : \A at \in written'[q] :
        at \in written[q] \/ (q = r /\ at = off /\ pgd'[Self][page].present)
  BY <1>1 DEF MemInv, BytesTyped
<1>6. UNCHANGED symrgtbl
  BY <1>1 DEF variables
<1>7. ASSUME ~replaced', NEW q \in Rgid, NEW at \in written'[q]
      PROVE  Holds(q, at)'
  <2> DEFINE b == Address(q, at)
  <2>1. CASE ~Present(Self, page) /\ UNCHANGED <<pgd, replaced, storage>>
    <3>1. at \in written[q]
      BY <1>5, <2>1 DEF Present
    <3>2. Holds(q, at)
      BY <1>7, <2>1, <3>1, WrittenPages
    <3>3. storage'[FrameOf(Self, PageOf(b))][ByteOf(b)] = q
      BY <2>1, <3>2 DEF Holds
    <3>4. symrgtbl'[q] = symrgtbl[q] /\ pgd'[Self][PageOf(b)] = pgd[Self][PageOf(b)]
      BY <1>6, <2>1
    <3> QED BY <3>2, <3>3, <3>4, StillHolds
  <2>2. CASE /\ Present(Self, page) /\ UNCHANGED <<pgd, replaced>>
             /\ storage' = [storage EXCEPT ![FrameOf(Self, page)][ByteOf(a)] = r]
    <3>1. FrameOf(Self, page) \in Frames
      <4>1. pgd[Self][page] \in Pte /\ pgd[Self][page].low \in Frames
        BY <1>2, MemoryAssumption DEF MemInv, IInv, TypeOK, EntryInv
      <4>2. Fpn(pgd[Self][page]) \in Frames
        BY ONLY <4>1, EntryOps
      <4> QED BY <4>2 DEF FrameOf
    <3>2. storage'[FrameOf(Self, page)][ByteOf(a)] = r
      BY <1>2, <2>2, <3>1 DEF MemInv, BytesTyped
    <3>3. CASE q = r /\ at = off
      BY <1>6, <2>2, <3>2, <3>3 DEF Holds, Present, FrameOf, Address, PageOf, ByteOf
    <3>4. CASE ~(q = r /\ at = off)
      <4>1. at \in written[q] /\ ~replaced
        BY <1>5, <1>7, <2>2, <3>4
      <4>2. /\ Holds(q, at) /\ at \in BytesOf(q)
            /\ PageOf(b) \in Pages /\ ByteOf(b) \in Bytes
            /\ FrameOf(Self, PageOf(b)) \in Frames
        BY <4>1, WrittenPages
      <4>3. ~(FrameOf(Self, page) = FrameOf(Self, PageOf(b)) /\ ByteOf(a) = ByteOf(b))
        <5> SUFFICES ASSUME FrameOf(Self, page) = FrameOf(Self, PageOf(b)),
                            ByteOf(a) = ByteOf(b)
                     PROVE  FALSE
          OBVIOUS
        <5>1. page = PageOf(b)
          BY <1>2, <2>2, <4>1, OtherFrames, MemoryAssumption
        <5>2. b \in Nat
          BY <4>2, ByteOfVariable DEF MemInv
        <5>3. a = b
          BY <1>2, <5>1, <5>2, SameAddress
        <5> QED BY <1>1, <3>4, <4>2, <5>3, OwnBytes DEF MemInv
      <4>4. storage'[FrameOf(Self, PageOf(b))][ByteOf(b)]
              = storage[FrameOf(Self, PageOf(b))][ByteOf(b)]
        BY <1>2, <2>2, <3>1, <4>2, <4>3 DEF MemInv, BytesTyped
      <4>5. storage'[FrameOf(Self, PageOf(b))][ByteOf(b)] = q
        BY <4>2, <4>4 DEF Holds
      <4>6. symrgtbl'[q] = symrgtbl[q] /\ pgd'[Self][PageOf(b)] = pgd[Self][PageOf(b)]
        BY <1>6, <2>2
      <4> QED BY <4>2, <4>5, <4>6, StillHolds
    <3> QED BY <3>3, <3>4
  <2> QED BY <1>3, <1>7, <2>1, <2>2
<1> QED BY <1>1, <1>3, <1>4, <1>7, InPlace

LEMMA OtherBytes ==
  ASSUME MemInv, NEW m \in Mm \ {Self}, Other(m)
  PROVE  BytesInv'
<1>1. UNCHANGED variables /\ UNCHANGED written
  BY DEF Other
<1>2. ASSUME NEW n \in 1..AreaCap, Grow(m, n), UNCHANGED storage
      PROVE  BytesInv'
  <2>1. UNCHANGED replaced /\ \A p \in Pages : pgd'[Self][p] = pgd[Self][p]
    BY <1>2, GrowEffect, MemoryAssumption DEF MemInv
  <2> QED BY <1>1, <1>2, <2>1, Untouched
<1>3. ASSUME NEW p \in Pages, Read(m, p), UNCHANGED storage
      PROVE  BytesInv'
  BY <1>1, <1>3, ReadBytes
<1>4. ASSUME NEW addr \in Foreign, SetVal(m, addr, m)
      PROVE  BytesInv'
  <2> DEFINE page == PageOf(addr)
  <2>1. addr \in Nat /\ page \in Pages /\ ByteOf(addr) \in Bytes
    BY ForeignPages
  <2>2. /\ storage' \in [Frames -> [Bytes -> Data]]
        /\ \/ replaced'
           \/ /\ Present(m, page) /\ UNCHANGED <<pgd, replaced>>
              /\ storage' = [storage EXCEPT ![FrameOf(m, page)][ByteOf(addr)] = m]
           \/ ~Present(m, page) /\ UNCHANGED <<pgd, replaced, storage>>
    BY <1>4, <2>1, SetValEffect DEF MemInv
  <2>3. /\ written' \in [Rgid -> SUBSET Nat]
        /\ \A q \in Rgid : written'[q] \subseteq BytesOf(q)
    BY <1>1 DEF MemInv, BytesTyped
  <2>4. ASSUME ~replaced', NEW q \in Rgid, NEW at \in written'[q]
        PROVE  Holds(q, at)'
    <3> DEFINE b == Address(q, at)
    <3>1. UNCHANGED <<pgd, replaced>> /\ at \in written[q]
      BY <1>1, <2>2, <2>4
    <3>2. /\ Holds(q, at) /\ ByteOf(b) \in Bytes
          /\ FrameOf(Self, PageOf(b)) \in Frames
      BY <2>4, <3>1, WrittenPages
    <3>3. storage'[FrameOf(Self, PageOf(b))] = storage[FrameOf(Self, PageOf(b))]
      <4>1. CASE ~Present(m, page) /\ UNCHANGED <<pgd, replaced, storage>>
        BY <4>1
      <4>2. CASE /\ Present(m, page)
                 /\ storage' = [storage EXCEPT ![FrameOf(m, page)][ByteOf(addr)] = m]
        <5>1. FrameOf(m, page) # FrameOf(Self, PageOf(b))
          BY <2>1, <2>4, <3>1, <4>2, OtherFrames
        <5> QED BY <3>2, <4>2, <5>1 DEF MemInv, BytesTyped
      <4> QED BY <2>2, <2>4, <4>1, <4>2
    <3>4. storage'[FrameOf(Self, PageOf(b))][ByteOf(b)] = q
      BY <3>2, <3>3 DEF Holds
    <3>5. symrgtbl'[q] = symrgtbl[q] /\ pgd'[Self][PageOf(b)] = pgd[Self][PageOf(b)]
      BY <1>1, <3>1 DEF variables
    <3> QED BY <3>2, <3>4, <3>5, StillHolds
  <2> QED BY <1>1, <2>2, <2>3, <2>4, InPlace
<1> QED BY <1>2, <1>3, <1>4 DEF Other

(***************************************************************************)
(* Induction                                                               *)
(***************************************************************************)
LEMMA HeapInit == Heap!Init => HeapProofs!Init
BY DEF Heap!Init, HeapProofs!Init, Heap!Unset, HeapProofs!Unset, Heap!Region,
       HeapProofs!Region

LEMMA MemInitInv == MemInit => MemInv
<1> SUFFICES ASSUME MemInit PROVE MemInv
  OBVIOUS
<1>1. IInv
  BY InitInv DEF MemInit
<1>2. HeapProofs!Init
  BY HeapInit DEF MemInit
<1>3. HeapProofs!IInv
  BY <1>2, HeapAssumption, HeapProofs!InitInv
<1>4. \A r \in Rgid : symrgtbl[r] = HeapProofs!Unset
  BY <1>2 DEF HeapProofs!Init
<1>5. BytesTyped /\ ReadsBack
  BY DEF MemInit, BytesTyped, Data, ReadsBack
<1> QED BY <1>1, <1>3, <1>4, <1>5 DEF MemInv, UnusedInv

LEMMA MemNextInv == MemInv /\ [MemNext]_memVars => MemInv'
<1> SUFFICES ASSUME MemInv, [MemNext]_memVars PROVE MemInv'
  OBVIOUS
<1>1. IInv' /\ HeapProofs!IInv'
  BY PartsInv
<1>2. BytesInv'
  <2>1. ASSUME NEW r \in Rgid, NEW size \in Sizes,
               AllocFromFreeList(r, size) \/ AllocAtSbrk(r, size)
        PROVE  BytesInv'
    BY <2>1, AllocBytes
  <2>2. ASSUME NEW r \in Rgid, Free(r) PROVE BytesInv'
    BY <2>2, FreeBytes
  <2>3. ASSUME NEW r \in Rgid, NEW off \in Offsets, LibRead(r, off) PROVE BytesInv'
    <3>1. /\ off \in BytesOf(r) /\ Read(Self, PageOf(Address(r, off)))
          /\ UNCHANGED variables /\ UNCHANGED <<storage, written>>
      BY <2>3 DEF LibRead
    <3>2. PageOf(Address(r, off)) \in Pages /\ Self \in Mm
      BY <3>1, ByteOfVariable, MemoryAssumption DEF MemInv
    <3> QED BY <3>1, <3>2, ReadBytes
  <2>4. ASSUME NEW r \in Rgid, NEW off \in Offsets, LibWrite(r, off) PROVE BytesInv'
    BY <2>4, WriteBytes
  <2>5. ASSUME NEW m \in Mm \ {Self}, Other(m) PROVE BytesInv'
    BY <2>5, OtherBytes
  <2>6. CASE UNCHANGED memVars
    <3>1. /\ UNCHANGED variables /\ UNCHANGED <<storage, written>>
          /\ UNCHANGED replaced /\ UNCHANGED pgd
      BY <2>6 DEF memVars, vars
    <3> QED BY <3>1, Untouched
  <2> QED BY <2>1, <2>2, <2>3, <2>4, <2>5, <2>6, MemStepCases
<1> QED BY <1>1, <1>2 DEF MemInv, BytesInv

LEMMA MemInductive == MemSpec => []MemInv
BY MemInitInv, MemNextInv, PTL DEF MemSpec

(***************************************************************************)
(* Theorems                                                                *)
(***************************************************************************)

\* The type invariant of the module Memory.
THEOREM MemTypeCorrect == MemSpec => []MemTypeOK
<1>1. MemInv => MemTypeOK
  <2> SUFFICES ASSUME MemInv PROVE MemTypeOK
    OBVIOUS
  <2>1. TypeOK
    BY DEF MemInv, IInv
  <2>2. Heap!TypeOK
    BY DEF MemInv, HeapProofs!IInv, HeapProofs!TypeOK, HeapProofs!Extents,
           HeapProofs!Regions, Heap!TypeOK, Heap!Extents, Heap!Regions
  <2> QED BY <2>1, <2>2 DEF MemInv, BytesTyped, Data, MemTypeOK
<1> QED BY <1>1, MemInductive, PTL

\* Every byte of a variable has a page: liballoc hands out no address beyond
\* what inc_vma_limit has mapped.
THEOREM VariablesLieInArea == MemSpec => []VariablesInArea
<1>1. MemInv => VariablesInArea
  <2> SUFFICES ASSUME MemInv, NEW r \in Rgid
               PROVE  symrgtbl[r].rg_end <= area[Self] * VmPage
    BY DEF VariablesInArea
  <2>1. sbrk \in Nat /\ sbrk = area[Self] * VmPage
    BY HeapFacts DEF MemInv
  <2>2. CASE r \in used
    BY <2>1, <2>2, HeapFacts DEF MemInv
  <2>3. CASE r \notin used
    BY <2>1, <2>3 DEF MemInv, UnusedInv, HeapProofs!Unset, HeapProofs!Region
  <2> QED BY <2>2, <2>3
<1> QED BY <1>1, MemInductive, PTL

\* Until a page is replaced, a program reads from a variable what it wrote to
\* it with libwrite, whatever it allocates and frees and whatever the other
\* processes do.
THEOREM WrittenIsRead == MemSpec => []ReadsBack
<1>1. MemInv => ReadsBack
  BY DEF MemInv
<1> QED BY <1>1, MemInductive, PTL

\* Seen from its frames, the memory of the processes is the one of module
\* Paging: all that is proved there holds of it.
THEOREM ImplementsPaging == MemSpec => Spec
<1>1. MemInit => Init
  BY DEF MemInit
<1>2. MemInv /\ [MemNext]_memVars => [Next]_vars
  BY BothSteps
<1> QED BY <1>1, <1>2, MemInductive, PTL DEF MemSpec, Spec

\* Seen from its variables, it is the allocator of module RegionAllocator, with
\* real growth by inc_vma_limit under it: a call gives its own variable a block
\* of the size asked for, apart from all others, and changes no other.
THEOREM ImplementsVariables == MemSpec => HeapProofs!ImplementsAllocator
<1>1. MemInit => HeapProofs!Init
  BY HeapInit DEF MemInit
<1>2. MemInv /\ [MemNext]_memVars => [HeapProofs!Next]_(HeapProofs!vars)
  BY BothSteps
<1>3. MemSpec => HeapProofs!Spec
  BY <1>1, <1>2, MemInductive, PTL DEF MemSpec, HeapProofs!Spec
<1>4. HeapProofs!Spec => HeapProofs!ImplementsAllocator
  BY HeapAssumption, HeapProofs!AllocatorImplemented
<1> QED BY <1>3, <1>4, PTL

=============================================================================
