----------------------------- MODULE PageTable -----------------------------
(***************************************************************************)
(* mm64.c and mm.h: page table entries, and the way from a page number to  *)
(* its entry.  The fields of an entry overlap: the frame number of a page  *)
(* in memory takes the bits 0 to 12, and what is kept of a page in swap    *)
(* takes the bits 0 to 4 (SWPTYP) and 5 to 25 (SWPOFF) of the same word.   *)
(***************************************************************************)
EXTENDS Integers

CONSTANTS
  FpnSpan,  \* 2^13, the number of values of the field FPN
  TypSpan,  \* 2^5, the number of values of the field SWPTYP
  Fanout    \* 512, the number of entries of a table

ASSUME PageTableAssumption ==
  FpnSpan \in Nat \ {0} /\ TypSpan \in Nat \ {0} /\ Fanout \in Nat \ {0}

\* An entry: the bits PRESENT and SWAPPED, and the bits 0 to 25.
Pte == [present : BOOLEAN, swapped : BOOLEAN, low : Nat]

\* Mutant: the tables are not cleared, as if malloc gave them.
EmptyPteFromMalloc == [present |-> FALSE, swapped |-> FALSE, low |-> 6]

\* The entries of a new table, from calloc.
EmptyPte == [present |-> FALSE, swapped |-> FALSE, low |-> 0]

\* PAGING_FPN and PAGING_SWP read an entry, whatever its kind.
Fpn(pte) == pte.low % FpnSpan
Swp(pte) == pte.low \div TypSpan

\* pte_set_fpn leaves the upper bits of a swap offset where they are.
PteSetFpn(pte, fpn) ==
  [present |-> TRUE, swapped |-> FALSE,
   low |-> (pte.low \div FpnSpan) * FpnSpan + (fpn % FpnSpan)]

\* pte_set_swap: the entry is still marked as present.  (Offsets below 2^21.)
PteSetSwap(swptyp, swpoff) ==
  [present |-> TRUE, swapped |-> TRUE, low |-> swpoff * TypSpan + swptyp]

\* get_pd_from_pagenum: the index of a page number in the table of each level,
\* from the page global directory down to the page table.
Above(n) == n \div Fanout
Indices(pgn) ==
  LET pmd == Above(pgn)
      pud == Above(pmd)
      p4d == Above(pud)
      pgd == Above(p4d)
  IN <<pgd % Fanout, p4d % Fanout, pud % Fanout, pmd % Fanout, pgn % Fanout>>

\* The page numbers that five levels can tell apart: those below Fanout^5.
Addressable(pgn) == Above(Above(Above(Above(pgn)))) < Fanout

=============================================================================
