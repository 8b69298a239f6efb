------------------------------- MODULE Paging -------------------------------
(***************************************************************************)
(* mm64.c, mm-memphy.c, mm-vm.c and libmem.c: how frames of RAM and of     *)
(* swap are given to the pages of processes, when an area grows and when a *)
(* page is missing.  liballoc, libread and libwrite hold mmvm_lock from    *)
(* their first access to their last, so a call is one action.              *)
(*                                                                         *)
(* The area grows by pages of PAGING64_PAGESZ bytes and is mapped by their *)
(* numbers; an access goes by numbers of pages of PAGING_PAGESZ bytes, the *)
(* size of a frame, in the same table.  mm64_page_walk leads from a page   *)
(* number to an entry of its own, so that a table is a function here.      *)
(* What a frame holds is told by the page that was last written to it.     *)
(***************************************************************************)
EXTENDS PageTable, Sequences, SequencesExt

CONSTANTS
  Mm,        \* the processes, by their mm_struct
  NumFrames, \* the number of frames of RAM
  NumSwap,   \* the number of frames of swap
  Ratio,     \* PAGING64_PAGESZ / PAGING_PAGESZ
  AreaCap,   \* an area is not grown beyond this many pages of PAGING64_PAGESZ
  MaxPgn,    \* the largest page number of an address: 14 bits, or 4 MB of area
  Blank      \* what a frame holds that has not been written

Frames == 0..(NumFrames - 1)
SwapFrames == 0..(NumSwap - 1)
Pages == 0..MaxPgn
Contents == (Mm \X Pages) \union {Blank}

ASSUME PagingAssumption ==
  /\ NumFrames \in 1..FpnSpan
  /\ NumSwap \in Nat \ {0}
  /\ Ratio \in Nat \ {0}
  /\ AreaCap \in Nat
  /\ MaxPgn \in Nat
  /\ AreaCap * Ratio <= MaxPgn + 1
  /\ AreaCap + 1 <= MaxPgn

VARIABLES
  area,      \* area[m]: the size of its area, in pages of PAGING64_PAGESZ
  pgd,       \* pgd[m]: its page table
  fifo_pgn,  \* fifo_pgn[m]: its pages, from the newest to the oldest
  ram_free,  \* the free frames of mram
  swp_free,  \* the free frames of active_mswp
  mram,      \* what each frame of RAM holds
  mswp,      \* what each frame of swap holds
  replaced,  \* history: a page has been taken its frame by pg_getpage
  remapped   \* history: <<m, p, f>> if page p of m had frame f when a growth
             \*   mapped it again

vars == <<area, pgd, fifo_pgn, ram_free, swp_free, mram, mswp, replaced, remapped>>

\* MEMPHY_format: the free list of a new device.
FreeList(numfp) == [i \in 1..numfp |-> i - 1]

\* init_mm and init_memphy.  init_mm does not set fifo_pgn, which is taken to
\* be NULL, as it is in memory that malloc has from the system.
Init ==
  /\ area = [m \in Mm |-> 0]
  /\ pgd = [m \in Mm |-> [p \in Pages |-> EmptyPte]]
  /\ fifo_pgn = [m \in Mm |-> <<>>]
  /\ ram_free = FreeList(NumFrames)
  /\ swp_free = FreeList(NumSwap)
  /\ mram = [f \in Frames |-> Blank]
  /\ mswp = [s \in SwapFrames |-> Blank]
  /\ replaced = FALSE
  /\ remapped = {}

Present(m, p) == pgd[m][p].present
Resident(m, p) == Present(m, p) /\ ~pgd[m][p].swapped
FrameOf(m, p) == Fpn(pgd[m][p])

(***************************************************************************)
(* inc_vma_limit: the area grows by n pages from its end.  vm_map_ram is   *)
(* asked for three pages in any case, and whether it has them is not       *)
(* looked at.                                                              *)
(***************************************************************************)
MapCount == 3

Enlisted(list, pgn) == <<pgn>> \o list   \* enlist_pgn_node

\* Mutant: off by one.
TakeFramesButOne == ram_free' = SubSeq(ram_free, MapCount, Len(ram_free))

\* alloc_pages_range with enough free frames.
TakeFrames == ram_free' = SubSeq(ram_free, MapCount + 1, Len(ram_free))

\* Mutant: one frame is left behind.
GiveBackFramesButOne == ram_free' = SubSeq(Reverse(ram_free), 2, Len(ram_free))

\* Without: it takes all there are and puts them back in the order taken, each
\* before the ones already there.
GiveBackFrames == ram_free' = Reverse(ram_free)

\* The frames that the pages of a range have.
Dropped(m, pages) ==
  {<<m, p, FrameOf(m, p)>> : p \in {q \in pages : Resident(m, q)}}

\* Mutant: curr_frame does not move on.
VmapPageRangeOneFrame(m, first) ==
  /\ pgd' = [pgd EXCEPT ![m] =
       [p \in Pages |-> IF p \in first..(first + MapCount - 1)
                        THEN PteSetFpn(@[p], ram_free[1])
                        ELSE @[p]]]
  /\ fifo_pgn' = [fifo_pgn EXCEPT ![m] =
       Enlisted(Enlisted(Enlisted(@, first), first + 1), first + 2)]
  /\ remapped' = remapped \union Dropped(m, first..(first + MapCount - 1))

\* vmap_page_range: the pages from first on get the frames, in order.
VmapPageRange(m, first) ==
  /\ pgd' = [pgd EXCEPT ![m] =
       [p \in Pages |-> IF p \in first..(first + MapCount - 1)
                        THEN PteSetFpn(@[p], ram_free[p - first + 1])
                        ELSE @[p]]]
  /\ fifo_pgn' = [fifo_pgn EXCEPT ![m] =
       Enlisted(Enlisted(Enlisted(@, first), first + 1), first + 2)]
  /\ remapped' = remapped \union Dropped(m, first..(first + MapCount - 1))

VmMapRam(m, mapstart) ==
  IF Len(ram_free) >= MapCount
  THEN TakeFrames /\ VmapPageRange(m, mapstart)
  ELSE GiveBackFrames /\ UNCHANGED <<pgd, fifo_pgn, remapped>>

\* liballoc, when there is no free region large enough.
Grow(m, n) ==
  /\ area[m] + n <= AreaCap
  /\ area' = [area EXCEPT ![m] = @ + n]
  /\ VmMapRam(m, area[m])
  /\ UNCHANGED <<swp_free, mram, mswp, replaced>>

(***************************************************************************)
(* pg_getpage                                                              *)
(***************************************************************************)
\* Mutant: the page at the head, while the tail is taken off.
VictimNewest(m) == Head(fifo_pgn[m])

\* find_victim_page, which also takes it off its list.
Victim(m) == Last(fifo_pgn[m])

\* Mutant: the swap frame of the page that comes in is not given back.
SwapFreeAfterNoPut(tgtswpfpn) == Tail(swp_free)

\* One frame is taken for the victim; that of the page that comes in is free.
SwapFreeAfter(tgtswpfpn) == <<tgtswpfpn>> \o Tail(swp_free)

\* __swap_cp_page, in the one direction that __mm_swap_page calls it.
CopiedToSwap(storage, fpn, swpfpn) == [storage EXCEPT ![swpfpn] = mram[fpn]]

\* Both calls of __mm_swap_page copy from RAM to swap: to the frame taken for the
\* victim, and to the one that the entry of the missing page names.
PageFault(m, p) ==
  LET vicfpn    == FrameOf(m, Victim(m))
      swpfpn    == Head(swp_free)
      tgtswpfpn == Swp(pgd[m][p])
  IN
  /\ ~Present(m, p) /\ fifo_pgn[m] # <<>> /\ swp_free # <<>>
  /\ mswp' = CopiedToSwap(CopiedToSwap(mswp, vicfpn, swpfpn), vicfpn, tgtswpfpn)
  /\ pgd' = [pgd EXCEPT ![m][Victim(m)] = PteSetSwap(0, swpfpn),
                        ![m][p] = PteSetFpn(@, vicfpn)]
  /\ swp_free' = SwapFreeAfter(tgtswpfpn)
  /\ fifo_pgn' = [fifo_pgn EXCEPT ![m] = Enlisted(Front(@), p)]
  /\ replaced' = TRUE
  /\ UNCHANGED <<area, ram_free, remapped>>

\* It gives up when there is no victim, or no frame of swap for it; the victim
\* is off its list by then.
FaultFails(m, p) ==
  /\ ~Present(m, p) /\ (fifo_pgn[m] = <<>> \/ swp_free = <<>>)
  /\ fifo_pgn' = [fifo_pgn EXCEPT ![m] = IF @ = <<>> THEN @ ELSE Front(@)]
  /\ UNCHANGED <<area, pgd, ram_free, swp_free, mram, mswp, replaced, remapped>>

DataAt(m, p) == mram[FrameOf(m, p)]   \* what pg_getval returns of a page

\* What pg_setval leaves in RAM, by the entry that pg_getpage has brought about.
RamAfterWrite(m, p) == [mram EXCEPT ![Fpn(pgd'[m][p])] = <<m, p>>]

\* libread, of a page of the area that is missing.  (Else it changes nothing.)
Read(m, p) ==
  /\ p < area[m] * Ratio
  /\ \/ PageFault(m, p) /\ UNCHANGED mram
     \/ FaultFails(m, p)

\* libwrite, which compares the address with nothing.
Write(m, p) ==
  \/ /\ Present(m, p) \/ PageFault(m, p)
     /\ Present(m, p) => UNCHANGED <<area, pgd, fifo_pgn, ram_free, swp_free,
                                     mswp, replaced, remapped>>
     /\ mram' = RamAfterWrite(m, p)
  \/ FaultFails(m, p)

Next ==
  \E m \in Mm :
    \/ \E n \in 1..AreaCap : Grow(m, n)
    \/ \E p \in Pages : Read(m, p) \/ Write(m, p)

Spec == Init /\ [][Next]_vars

(***************************************************************************)
(* Correctness                                                             *)
(***************************************************************************)
TypeOK ==
  /\ area \in [Mm -> 0..AreaCap]
  /\ pgd \in [Mm -> [Pages -> Pte]]
  /\ fifo_pgn \in [Mm -> Seq(Pages)]
  /\ ram_free \in Seq(Frames)
  /\ swp_free \in Seq(SwapFrames)
  /\ mram \in [Frames -> Contents]
  /\ mswp \in [SwapFrames -> Contents]
  /\ replaced \in BOOLEAN
  /\ remapped \subseteq Mm \X Pages \X Frames

Listed(m) == Range(fifo_pgn[m])

ListedOnce(m, p) ==
  \A i, j \in DOMAIN fifo_pgn[m] : fifo_pgn[m][i] = p /\ fifo_pgn[m][j] = p => i = j

Remapped(m, p) == \E f \in Frames : <<m, p, f>> \in remapped

\* The list that find_victim_page takes from keeps step with the entries, through
\* any mixture of growth, faults and faults that fail: every page that has a frame
\* is there and can become a victim, and a victim has a frame to give.  Only a page
\* that had a frame when a growth mapped it again may be there more than once, and
\* stay there after it has been evicted: enlist_pgn_node does not look for it.
VictimsKnown ==
  \A m \in Mm, p \in Pages :
    /\ Resident(m, p) => p \in Listed(m)
    /\ p \in Listed(m) /\ ~Remapped(m, p) => Resident(m, p) /\ ListedOnce(m, p)

\* No frame of RAM gets lost, be it in a growth that fails halfway or in a fault:
\* it is free, or some page has it from which the replacement can take it.
\* Excepted are those of pages that a growth mapped again: vmap_page_range drops
\* them (alloc_pages_range and its rollback, pg_getpage).
FramesInReach ==
  \A f \in Frames :
    \/ f \in Range(ram_free)
    \/ \E m \in Mm : \E p \in Listed(m) : Resident(m, p) /\ FrameOf(m, p) = f
    \/ \E m \in Mm, p \in Pages : <<m, p, f>> \in remapped

\* A growth hands out no frame that some page's entry still names, not even
\* after rollbacks, and none twice (alloc_pages_range, MEMPHY_put_freefp): the
\* entries of pages in swap, whose lower bits read as a frame number, included.
FreeFramesUnused ==
  /\ IsInjective(ram_free)
  /\ \A m \in Mm, p \in Pages : Present(m, p) =>
       /\ FrameOf(m, p) \in Frames
       /\ \A i \in DOMAIN ram_free : ram_free[i] # FrameOf(m, p)

\* However many pages are replaced, swap never runs out of frames, and a frame
\* that is returned was not free already (MEMPHY_get_freefp and
\* MEMPHY_put_freefp in pg_getpage).
SwapConserved == Len(swp_free) = NumSwap /\ IsInjective(swp_free)

\* What an access to a page of a process finds there is its own, or nothing yet.
NoForeignData ==
  \A m \in Mm, p \in Pages :
    Present(m, p) => DataAt(m, p) \in {<<m, p>>, Blank}

\* As long as no page has been replaced, processes are isolated: no two pages
\* share a frame, and each finds its own data only, also after growth has
\* mapped a page again and has failed (vm_map_ram).
Isolated ==
  ~replaced =>
    /\ NoForeignData
    /\ \A m, k \in Mm, p, q \in Pages :
         /\ Present(m, p) /\ Present(k, q)
         /\ FrameOf(m, p) = FrameOf(k, q)
         => m = k /\ p = q

=============================================================================
