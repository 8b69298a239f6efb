---------------------------- MODULE PagingProofs ----------------------------
(***************************************************************************)
(* Frames of RAM and of swap are handed out soundly, for any number of     *)
(* processes, frames and pages: what is free is in nobody's page table,    *)
(* what is not is in reach of the replacement unless a growth has dropped  *)
(* it, swap never runs out, and processes are isolated until the first     *)
(* replacement.                                                            *)
(***************************************************************************)
EXTENDS Paging, SequenceLemmas

(***************************************************************************)
(* Numbers and entries                                                     *)
(***************************************************************************)
LEMMA SmallDivMod ==
  ASSUME NEW n \in Nat \ {0}, NEW x \in Nat, x < n
  PROVE  x \div n = 0 /\ x % n = x
OBVIOUS

LEMMA DivMod ==
  ASSUME NEW n \in Nat \ {0}, NEW x \in Nat, NEW y \in Nat,
         x \div n = y \div n, x % n = y % n
  PROVE  x = y
OBVIOUS

LEMMA DivNat ==
  ASSUME NEW n \in Nat \ {0}, NEW x \in Nat
  PROVE  x \div n \in Nat /\ x % n \in Nat /\ x % n < n
OBVIOUS

\* mm64_page_walk ends at the same entry for two page numbers only if they are
\* one: a table may be treated as a function.
THEOREM WalkInjective ==
  ASSUME NEW p \in Nat, NEW q \in Nat, Addressable(p), Addressable(q),
         Indices(p) = Indices(q)
  PROVE  p = q
<1> DEFINE p1 == Above(p)  p2 == Above(p1)  p3 == Above(p2)  p4 == Above(p3)
           q1 == Above(q)  q2 == Above(q1)  q3 == Above(q2)  q4 == Above(q3)
<1>1. Fanout \in Nat \ {0}
  BY PageTableAssumption
<1>2. /\ p1 \in Nat /\ p2 \in Nat /\ p3 \in Nat /\ p4 \in Nat
      /\ q1 \in Nat /\ q2 \in Nat /\ q3 \in Nat /\ q4 \in Nat
  BY <1>1, DivNat DEF Above
<1>3. /\ p4 % Fanout = q4 % Fanout /\ p3 % Fanout = q3 % Fanout
      /\ p2 % Fanout = q2 % Fanout /\ p1 % Fanout = q1 % Fanout
      /\ p % Fanout = q % Fanout
  BY Zenon DEF Indices
<1>4. p4 = q4
  BY <1>1, <1>2, <1>3, SmallDivMod DEF Addressable
<1>5. p3 = q3
  BY <1>1, <1>2, <1>3, <1>4, DivMod DEF Above
<1>6. p2 = q2
  BY <1>1, <1>2, <1>3, <1>5, DivMod DEF Above
<1>7. p1 = q1
  BY <1>1, <1>2, <1>3, <1>6, DivMod DEF Above
<1> QED BY <1>1, <1>3, <1>7, DivMod DEF Above

(***************************************************************************)
(* The inductive invariant                                                 *)
(***************************************************************************)
\* The low bits of an entry are the number of a frame, whether it names one or
\* tells a place in swap, and 0 before it has been used.
EntryInv ==
  \A m \in Mm, p \in Pages :
    pgd[m][p].low \in Frames /\ (~Present(m, p) => pgd[m][p].low = 0)

\* It is always frame 0 of swap that is taken, and it that is given back.
SwapInv == swp_free # <<>> /\ swp_free[1] = 0 /\ SwapConserved

\* Frame 0 is free until the first growth, which takes it.
FreeInv ==
  /\ IsInjective(ram_free)
  /\ \A m \in Mm, p \in Pages : Present(m, p) =>
       \A i \in DOMAIN ram_free : ram_free[i] # pgd[m][p].low /\ ram_free[i] # 0
  /\ Len(ram_free) >= MapCount => \A i \in DOMAIN ram_free : ram_free[i] = 0 => i = 1

\* Nothing has been written to a free frame.
BlankInv == \A i \in DOMAIN ram_free : mram[ram_free[i]] = Blank

\* What is on a list has been mapped, though it may be in swap by now.
ListedInv == \A m \in Mm : \A p \in Listed(m) : Present(m, p)

IInv ==
  /\ TypeOK /\ EntryInv /\ SwapInv /\ FreeInv /\ BlankInv /\ ListedInv
  /\ VictimsKnown /\ FramesInReach /\ Isolated

(***************************************************************************)
(* What the operations on entries and lists do                             *)
(***************************************************************************)
LEMMA FrameNumbers ==
  /\ Frames \subseteq Nat /\ 0 \in Frames
  /\ \A f \in Frames : f < FpnSpan
  /\ 0 \in SwapFrames /\ FpnSpan \in Nat \ {0} /\ TypSpan \in Nat \ {0}
BY PagingAssumption, PageTableAssumption DEF Frames, SwapFrames

LEMMA EntryOps ==
  ASSUME NEW pte \in Pte, pte.low \in Frames
  PROVE  /\ Fpn(pte) = pte.low
         /\ pte.low = 0 => Swp(pte) = 0
         /\ \A f \in Frames :
              PteSetFpn(pte, f) = [present |-> TRUE, swapped |-> FALSE, low |-> f]
         /\ PteSetSwap(0, 0) = [present |-> TRUE, swapped |-> TRUE, low |-> 0]
<1>1. Fpn(pte) = pte.low
  BY FrameNumbers, SmallDivMod DEF Fpn
<1>2. pte.low = 0 => Swp(pte) = 0
  BY FrameNumbers, SmallDivMod DEF Swp
<1>3. ASSUME NEW f \in Frames
      PROVE  PteSetFpn(pte, f) = [present |-> TRUE, swapped |-> FALSE, low |-> f]
  <2>1. pte.low \div FpnSpan = 0 /\ f % FpnSpan = f /\ f \in Nat
    BY FrameNumbers, SmallDivMod
  <2>2. 0 * FpnSpan + f = f
    BY <2>1, FrameNumbers
  <2> QED BY <2>1, <2>2 DEF PteSetFpn
<1>4. PteSetSwap(0, 0) = [present |-> TRUE, swapped |-> TRUE, low |-> 0]
  <2>1. 0 * TypSpan + 0 = 0
    BY FrameNumbers
  <2> QED BY <2>1 DEF PteSetSwap
<1> QED BY <1>1, <1>2, <1>3, <1>4

Once(list, x) == \A i, j \in DOMAIN list : list[i] = x /\ list[j] = x => i = j

LEMMA EnlistedElements ==
  ASSUME NEW list \in Seq(Pages), NEW p \in Pages
  PROVE  /\ Enlisted(list, p) \in Seq(Pages)
         /\ Range(Enlisted(list, p)) = Range(list) \union {p}
         /\ \A q : q # p /\ Once(list, q) => Once(Enlisted(list, p), q)
         /\ p \notin Range(list) => Once(Enlisted(list, p), p)
<1> DEFINE new == <<p>>
<1>1. new \in Seq(Pages) /\ Range(new) = {p}
  BY DEF Range
<1>2. Enlisted(list, p) \in Seq(Pages)
  BY PrependElements DEF Enlisted
<1>3. Range(new \o list) = Range(new) \union Range(list)
  <2> HIDE DEF new
  <2> QED BY <1>1, RangeConcatenation
<1>4. /\ DOMAIN Enlisted(list, p) = 1..(Len(list) + 1)
      /\ Len(list) \in Nat /\ DOMAIN list = 1..Len(list)
      /\ \A j \in 1..(Len(list) + 1) :
           Enlisted(list, p)[j] = IF j = 1 THEN p ELSE list[j - 1]
  BY <1>2, PrependElements, LenProperties DEF Enlisted
<1>5. ASSUME NEW q, q # p, Once(list, q) PROVE Once(Enlisted(list, p), q)
  BY <1>4, <1>5 DEF Once
<1>6. ASSUME p \notin Range(list) PROVE Once(Enlisted(list, p), p)
  <2>1. \A j \in 1..Len(list) : list[j] # p
    BY <1>4, <1>6 DEF Range
  <2>2. \A j \in 2..(Len(list) + 1) : j - 1 \in 1..Len(list)
    BY <1>4
  <2>3. \A j \in 1..(Len(list) + 1) : Enlisted(list, p)[j] = p => j = 1
    BY <1>4, <2>1, <2>2
  <2> QED BY <1>4, <2>3 DEF Once
<1> QED BY <1>1, <1>2, <1>3, <1>5, <1>6 DEF Enlisted

LEMMA FrontElements ==
  ASSUME NEW S, NEW list \in Seq(S), list # <<>>
  PROVE  /\ Front(list) \in Seq(S)
         /\ Last(list) \in Range(list)
         /\ Range(list) = Range(Front(list)) \union {Last(list)}
         /\ \A x : Once(list, x) => Once(Front(list), x)
         /\ Once(list, Last(list)) => Last(list) \notin Range(Front(list))
<1> DEFINE n == Len(list)
<1>1. n \in Nat \ {0} /\ DOMAIN list = 1..n
  BY EmptySeq, LenProperties
<1>2. \A i \in 1..(n - 1) : list[i] \in S
  BY <1>1, ElementOfSeq
<1>3. /\ Front(list) \in Seq(S)
      /\ Len(Front(list)) = n - 1
      /\ \A i \in 1..(n - 1) : Front(list)[i] = list[i]
  BY <1>1, <1>2, SubSeqProperties DEF Front
<1>4. DOMAIN Front(list) = 1..(n - 1)
  BY <1>3, LenProperties
<1>5. Last(list) \in Range(list)
  BY <1>1 DEF Last, Range
<1>6. ASSUME NEW x \in Range(list)
      PROVE  x \in Range(Front(list)) \union {Last(list)}
  <2>1. PICK i \in 1..n : x = list[i]
    BY <1>1 DEF Range
  <2> QED BY <2>1, <1>1, <1>3, <1>4 DEF Range, Last
<1>7. ASSUME NEW x \in Range(Front(list))
      PROVE  x \in Range(list)
  BY <1>1, <1>3, <1>4 DEF Range
<1>8. ASSUME NEW x, Once(list, x) PROVE Once(Front(list), x)
  BY <1>1, <1>3, <1>4, <1>8 DEF Once
<1>9. ASSUME Once(list, Last(list)) PROVE Last(list) \notin Range(Front(list))
  <2>0. n \in 1..n
    BY <1>1
  <2>1. \A i \in 1..(n - 1) : i \in 1..n /\ i # n
    <3> HIDE DEF n
    <3> QED BY <1>1
  <2>2. \A i \in 1..(n - 1) : list[i] # Last(list)
    BY <1>1, <1>9, <2>0, <2>1 DEF Once, Last
  <2> QED BY <1>3, <1>4, <2>2 DEF Range
<1> QED BY <1>3, <1>5, <1>6, <1>7, <1>8, <1>9

LEMMA FreeLists ==
  ASSUME TypeOK
  PROVE  /\ Len(ram_free) \in Nat
         /\ DOMAIN ram_free = 1..Len(ram_free)
         /\ \A i \in DOMAIN ram_free : ram_free[i] \in Frames
BY LenProperties, ElementOfSeq DEF TypeOK

LEMMA TakenFrames ==
  ASSUME TypeOK, Len(ram_free) >= MapCount, TakeFrames
  PROVE  /\ ram_free' \in Seq(Frames)
         /\ DOMAIN ram_free' = 1..(Len(ram_free) - 3)
         /\ \A i \in DOMAIN ram_free' : ram_free'[i] = ram_free[i + 3]
<1> DEFINE n == Len(ram_free)
<1>1. n \in Nat /\ n >= 3 /\ \A i \in 4..n : ram_free[i] \in Frames
  BY FreeLists DEF MapCount
<1>2. ram_free' = SubSeq(ram_free, 4, n)
  BY DEF TakeFrames, MapCount
<1>3. /\ ram_free' \in Seq(Frames) /\ Len(ram_free') = n - 3
      /\ \A i \in 1..(n - 3) : ram_free'[i] = ram_free[4 + i - 1]
  BY <1>1, <1>2, SubSeqProperties
<1>4. DOMAIN ram_free' = 1..(n - 3)
  BY <1>3, LenProperties
<1> QED BY <1>1, <1>3, <1>4

LEMMA ReversedFrames ==
  ASSUME TypeOK, GiveBackFrames
  PROVE  /\ ram_free' \in Seq(Frames)
         /\ Len(ram_free') = Len(ram_free)
         /\ DOMAIN ram_free' = 1..Len(ram_free)
         /\ \A i \in DOMAIN ram_free' : ram_free'[i] = ram_free[Len(ram_free) - i + 1]
<1> DEFINE n == Len(ram_free)
<1>1. n \in Nat /\ \A i \in 1..n : ram_free[i] \in Frames
  BY FreeLists
<1>2. ram_free' = [i \in 1..n |-> ram_free[n - i + 1]]
  BY DEF GiveBackFrames, Reverse
<1>3. \A i \in 1..n : n - i + 1 \in 1..n
  BY <1>1
<1>4. ram_free' \in [1..n -> Frames]
  BY <1>1, <1>2, <1>3
<1>5. ram_free' \in Seq(Frames)
  BY <1>1, <1>4, SeqDef
<1>6. Len(ram_free') = n
  BY <1>1, <1>4, <1>5
<1> QED BY <1>2, <1>5, <1>6

LEMMA SwapList ==
  ASSUME TypeOK, SwapInv
  PROVE  Head(swp_free) = 0 /\ SwapFreeAfter(0) = swp_free
<1> DEFINE t == Tail(swp_free)
<1>1. swp_free \in Seq(SwapFrames) /\ swp_free # <<>> /\ swp_free[1] = 0
  BY DEF TypeOK, SwapInv
<1>2. Len(swp_free) \in Nat \ {0}
  BY <1>1, EmptySeq
<1>3. Head(swp_free) = 0
  BY <1>1
<1>4. /\ t \in Seq(SwapFrames) /\ Len(t) = Len(swp_free) - 1
      /\ \A i \in 1..Len(t) : t[i] = swp_free[i + 1]
  BY <1>1, HeadTailProperties
<1>5. /\ <<0>> \o t \in Seq(SwapFrames) /\ Len(<<0>> \o t) = Len(t) + 1
      /\ \A j \in 1..(Len(t) + 1) : (<<0>> \o t)[j] = IF j = 1 THEN 0 ELSE t[j - 1]
  BY <1>4, FrameNumbers, PrependElements
<1> HIDE DEF t
<1>6. ASSUME NEW j \in 1..Len(swp_free)
      PROVE  (<<0>> \o t)[j] = swp_free[j]
  BY <1>1, <1>2, <1>4, <1>5
<1>7. <<0>> \o t = swp_free
  <2> DEFINE u == <<0>> \o t
  <2>1. u \in Seq(SwapFrames) /\ Len(u) = Len(swp_free)
    BY <1>2, <1>4, <1>5
  <2>2. \A j \in 1..Len(u) : u[j] = swp_free[j]
    BY <1>6, <2>1
  <2> HIDE DEF u
  <2>3. u = swp_free
    BY ONLY <1>1, <2>1, <2>2, SeqEqual
  <2> QED BY <2>3 DEF u
<1> QED BY <1>3, <1>7 DEF SwapFreeAfter, t

(***************************************************************************)
(* Growth                                                                  *)
(***************************************************************************)
Online(f) == [present |-> TRUE, swapped |-> FALSE, low |-> f]

LEMMA InitInv == Init => IInv
<1> SUFFICES ASSUME Init PROVE IInv
  OBVIOUS
<1> USE PagingAssumption DEF Init, EmptyPte, FreeList
<1>1. /\ ram_free \in [1..NumFrames -> Frames] /\ NumFrames \in Nat \ {0}
      /\ swp_free \in [1..NumSwap -> SwapFrames]
  BY PageTableAssumption DEF Frames, SwapFrames
<1>2. /\ ram_free \in Seq(Frames) /\ Len(ram_free) = NumFrames
      /\ swp_free \in Seq(SwapFrames) /\ Len(swp_free) = NumSwap
  BY <1>1, SeqDef
<1>3. TypeOK
  <2>1. area \in [Mm -> 0..AreaCap]
    OBVIOUS
  <2>2. pgd \in [Mm -> [Pages -> Pte]]
    BY DEF Pte
  <2>3. fifo_pgn \in [Mm -> Seq(Pages)]
    BY EmptySeq
  <2> QED BY <1>2, <2>1, <2>2, <2>3 DEF TypeOK, Contents
<1>4. EntryInv
  BY FrameNumbers DEF EntryInv, Present
<1>5. SwapInv
  <2>1. swp_free # <<>>
    BY <1>2, EmptySeq
  <2>2. DOMAIN swp_free = 1..NumSwap /\ 1 \in 1..NumSwap
    OBVIOUS
  <2>3. swp_free[1] = 0 /\ IsInjective(swp_free)
    BY <2>2 DEF IsInjective
  <2> QED BY <1>2, <2>1, <2>3 DEF SwapInv, SwapConserved
<1>6. FreeInv /\ BlankInv
  BY <1>1 DEF FreeInv, BlankInv, IsInjective, Present
<1>7. ListedInv /\ VictimsKnown
  BY DEF ListedInv, VictimsKnown, Resident, Present, Listed, Range
<1>9. FramesInReach
  <2>1. ASSUME NEW f \in Frames PROVE f \in Range(ram_free)
    <3>1. f + 1 \in 1..NumFrames /\ ram_free[f + 1] = f
      BY DEF Frames
    <3> QED BY <3>1 DEF Range
  <2> QED BY <2>1 DEF FramesInReach
<1>8. Isolated
  BY DEF Isolated, NoForeignData, DataAt, Present
<1> QED BY <1>3, <1>4, <1>5, <1>6, <1>7, <1>8, <1>9 DEF IInv

LEMMA GrowthEntries ==
  ASSUME TypeOK, EntryInv, NEW m \in Mm, NEW first \in Nat, first + 2 \in Pages,
         Len(ram_free) >= MapCount, VmapPageRange(m, first)
  PROVE  /\ pgd' \in [Mm -> [Pages -> Pte]]
         /\ \A k \in Mm, q \in Pages :
              pgd'[k][q] = IF k = m /\ q \in first..(first + 2)
                           THEN Online(ram_free[q - first + 1]) ELSE pgd[k][q]
         /\ fifo_pgn' \in [Mm -> Seq(Pages)]
         /\ \A k \in Mm :
              Range(fifo_pgn'[k]) = Range(fifo_pgn[k]) \union
                                    (IF k = m THEN first..(first + 2) ELSE {})
         /\ \A k \in Mm, q \in Pages :
              IF k = m /\ q \in first..(first + 2)
              THEN q \notin Range(fifo_pgn[k]) => Once(fifo_pgn'[k], q)
              ELSE Once(fifo_pgn[k], q) => Once(fifo_pgn'[k], q)
<1>1. \A q \in first..(first + 2) : /\ q - first + 1 \in DOMAIN ram_free
                                    /\ ram_free[q - first + 1] \in Frames
  BY FreeLists DEF MapCount
<1>2. \A q \in Pages, f \in Frames : PteSetFpn(pgd[m][q], f) = Online(f)
  <2>1. \A q \in Pages : pgd[m][q] \in Pte /\ pgd[m][q].low \in Frames
    BY DEF TypeOK, EntryInv
  <2> QED BY ONLY <2>1, EntryOps DEF Online
<1>3. pgd' = [pgd EXCEPT ![m] = [q \in Pages |->
                IF q \in first..(first + 2)
                THEN Online(ram_free[q - first + 1]) ELSE pgd[m][q]]]
  <2>1. pgd' = [pgd EXCEPT ![m] = [q \in Pages |->
                  IF q \in first..(first + MapCount - 1)
                  THEN PteSetFpn(pgd[m][q], ram_free[q - first + 1])
                  ELSE pgd[m][q]]]
    BY DEF VmapPageRange, TypeOK
  <2>2. first + MapCount - 1 = first + 2
    BY DEF MapCount
  <2>3. \A q \in Pages : q \in first..(first + 2) =>
          PteSetFpn(pgd[m][q], ram_free[q - first + 1]) = Online(ram_free[q - first + 1])
    BY <1>1, <1>2
  <2> QED BY <2>1, <2>2, <2>3
<1>4. \A q \in first..(first + 2) : Online(ram_free[q - first + 1]) \in Pte
  BY <1>1, FrameNumbers DEF Online, Pte
<1>5. pgd' \in [Mm -> [Pages -> Pte]]
  BY <1>3, <1>4 DEF TypeOK
<1>6. \A k \in Mm, q \in Pages :
        pgd'[k][q] = IF k = m /\ q \in first..(first + 2)
                     THEN Online(ram_free[q - first + 1]) ELSE pgd[k][q]
  BY <1>3 DEF TypeOK
<1> DEFINE l0 == fifo_pgn[m]
           l1 == Enlisted(l0, first)
           l2 == Enlisted(l1, first + 1)
           l3 == Enlisted(l2, first + 2)
<1>7. first \in Pages /\ first + 1 \in Pages /\ first + 2 \in Pages
  BY PagingAssumption DEF Pages
<1>8. l0 \in Seq(Pages)
  BY DEF TypeOK
<1> HIDE DEF l0
<1>9. /\ l1 \in Seq(Pages) /\ Range(l1) = Range(l0) \union {first}
      /\ \A q : q # first /\ Once(l0, q) => Once(l1, q)
      /\ first \notin Range(l0) => Once(l1, first)
  BY <1>7, <1>8, EnlistedElements
<1> HIDE DEF l1
<1>10. /\ l2 \in Seq(Pages) /\ Range(l2) = Range(l1) \union {first + 1}
       /\ \A q : q # first + 1 /\ Once(l1, q) => Once(l2, q)
       /\ first + 1 \notin Range(l1) => Once(l2, first + 1)
  BY ONLY <1>7, <1>9, EnlistedElements
<1> HIDE DEF l2
<1>11. /\ l3 \in Seq(Pages) /\ Range(l3) = Range(l2) \union {first + 2}
       /\ \A q : q # first + 2 /\ Once(l2, q) => Once(l3, q)
       /\ first + 2 \notin Range(l2) => Once(l3, first + 2)
  <2>1. l2 \in Seq(Pages) /\ first + 2 \in Pages
    BY <1>7, <1>10
  <2> QED BY ONLY <2>1, EnlistedElements
<1> HIDE DEF l3
<1>12. fifo_pgn' = [fifo_pgn EXCEPT ![m] = l3]
  BY DEF VmapPageRange, TypeOK, l0, l1, l2, l3
<1>13. fifo_pgn' \in [Mm -> Seq(Pages)]
  BY <1>11, <1>12 DEF TypeOK
<1>14. Range(l3) = Range(l0) \union first..(first + 2)
  <2>1. first..(first + 2) = {first, first + 1, first + 2}
    OBVIOUS
  <2> QED BY <1>9, <1>10, <1>11, <2>1
<1>15. \A k \in Mm :
         Range(fifo_pgn'[k]) = Range(fifo_pgn[k]) \union
                               (IF k = m THEN first..(first + 2) ELSE {})
  <2>1. ASSUME NEW k \in Mm, k # m
        PROVE  fifo_pgn'[k] = fifo_pgn[k]
    BY <1>12, <2>1 DEF TypeOK
  <2>2. fifo_pgn'[m] = l3
    BY <1>12 DEF TypeOK
  <2> QED BY <1>14, <2>1, <2>2 DEF l0
<1>16. ASSUME NEW k \in Mm, NEW q \in Pages
       PROVE  IF k = m /\ q \in first..(first + 2)
              THEN q \notin Range(fifo_pgn[k]) => Once(fifo_pgn'[k], q)
              ELSE Once(fifo_pgn[k], q) => Once(fifo_pgn'[k], q)
  <2>1. fifo_pgn[m] = l0 /\ fifo_pgn'[m] = l3 /\ (k # m => fifo_pgn'[k] = fifo_pgn[k])
    BY <1>12 DEF TypeOK, l0
  <2>2. CASE k # m
    BY <2>1, <2>2
  <2>3. CASE q \notin first..(first + 2)
    <3>1. q # first /\ q # first + 1 /\ q # first + 2
      BY <2>3
    <3>2. Once(l0, q) => Once(l3, q)
      BY <1>9, <1>10, <1>11, <3>1
    <3> QED BY <2>1, <2>3, <3>2
  <2>4. CASE k = m /\ q \in first..(first + 2)
    <3>1. SUFFICES ASSUME q \notin Range(l0) PROVE Once(l3, q)
      BY <2>1, <2>4
    <3>2. \/ q = first /\ q # first + 1 /\ q # first + 2
          \/ q # first /\ q = first + 1 /\ q # first + 2
          \/ q # first /\ q # first + 1 /\ q = first + 2
      BY <2>4
    <3> QED BY <1>9, <1>10, <1>11, <3>1, <3>2
  <2> QED BY <2>2, <2>3, <2>4
<1> QED BY <1>5, <1>6, <1>13, <1>15, <1>16

LEMMA GrowInv ==
  ASSUME IInv, NEW m \in Mm, NEW n \in 1..AreaCap, Grow(m, n)
  PROVE  IInv'
<1> USE DEF IInv
<1>1. /\ area' \in [Mm -> 0..AreaCap] /\ area[m] \in Nat
      /\ area[m] + n <= AreaCap
  BY PagingAssumption DEF TypeOK, Grow
<1>2. area[m] + 2 \in Pages
  BY <1>1, PagingAssumption DEF Pages
<1>3. UNCHANGED <<swp_free, mram, mswp, replaced>>
  BY DEF Grow
<1>4. SwapInv'
  BY <1>3 DEF SwapInv, SwapConserved, IsInjective
<1>5. CASE Len(ram_free) >= MapCount /\ TakeFrames /\ VmapPageRange(m, area[m])
  <2> DEFINE new == area[m]..(area[m] + 2)
  <2>1. /\ pgd' \in [Mm -> [Pages -> Pte]]
        /\ \A k \in Mm, q \in Pages :
             pgd'[k][q] = IF k = m /\ q \in new
                          THEN Online(ram_free[q - area[m] + 1]) ELSE pgd[k][q]
        /\ fifo_pgn' \in [Mm -> Seq(Pages)]
        /\ \A k \in Mm :
             Range(fifo_pgn'[k]) = Range(fifo_pgn[k]) \union (IF k = m THEN new ELSE {})
        /\ \A k \in Mm, q \in Pages :
             IF k = m /\ q \in new
             THEN q \notin Range(fifo_pgn[k]) => Once(fifo_pgn'[k], q)
             ELSE Once(fifo_pgn[k], q) => Once(fifo_pgn'[k], q)
    BY <1>1, <1>2, <1>5, GrowthEntries
  <2>2. /\ ram_free' \in Seq(Frames)
        /\ DOMAIN ram_free' = 1..(Len(ram_free) - 3)
        /\ \A i \in DOMAIN ram_free' : ram_free'[i] = ram_free[i + 3]
    BY <1>5, TakenFrames
  <2>3. /\ Len(ram_free) \in Nat /\ Len(ram_free) >= 3
        /\ DOMAIN ram_free = 1..Len(ram_free)
        /\ \A i \in DOMAIN ram_free : ram_free[i] \in Frames
    BY <1>5, FreeLists DEF MapCount
  <2>4. \A q \in new : q - area[m] + 1 \in 1..3
    BY <1>1
  <2>41. ASSUME NEW q \in Pages, q \in new
         PROVE  /\ q - area[m] + 1 \in 1..3
                /\ q - area[m] + 1 \in DOMAIN ram_free
                /\ Present(m, q)' /\ Resident(m, q)'
                /\ pgd'[m][q].low = ram_free[q - area[m] + 1]
    <3>1. pgd'[m][q] = Online(ram_free[q - area[m] + 1])
      BY <2>1, <2>41
    <3>2. q - area[m] + 1 \in 1..3
      BY <2>4, <2>41
    <3> HIDE DEF new
    <3> QED BY <2>3, <3>1, <3>2 DEF Online, Present, Resident
  <2>42. ASSUME NEW k \in Mm, NEW q \in Pages, ~(k = m /\ q \in new)
         PROVE  pgd'[k][q] = pgd[k][q]
    BY <2>1, <2>42
  <2>43. \A k \in Mm, q \in Pages :
           FrameOf(k, q) = pgd[k][q].low /\ FrameOf(k, q) \in Frames
    BY EntryOps DEF FrameOf, TypeOK, EntryInv
  <2>44. /\ remapped' = remapped \union Dropped(m, new)
         /\ new \subseteq Pages
    <3>1. area[m]..(area[m] + MapCount - 1) = new
      BY <1>1 DEF MapCount
    <3>2. remapped' = remapped \union Dropped(m, area[m]..(area[m] + MapCount - 1))
      BY <1>5 DEF VmapPageRange
    <3>3. new \subseteq Pages
      BY <1>1, <1>2, PagingAssumption DEF Pages
    <3> QED BY <3>1, <3>2, <3>3
  <2>45. remapped' \subseteq Mm \X Pages \X Frames
    BY <2>43, <2>44 DEF TypeOK, Dropped
  <2>5. TypeOK'
    BY <1>1, <1>3, <2>1, <2>2, <2>45 DEF TypeOK
  <2>6. EntryInv'
    <3>1. ASSUME NEW k \in Mm, NEW q \in Pages
          PROVE  pgd'[k][q].low \in Frames /\ (~Present(k, q)' => pgd'[k][q].low = 0)
      <4>1. CASE k = m /\ q \in new
        BY <2>3, <2>41, <4>1
      <4>2. CASE ~(k = m /\ q \in new)
        BY <2>42, <4>2 DEF EntryInv, Present
      <4> QED BY <4>1, <4>2
    <3> QED BY <3>1 DEF EntryInv, Present
  <2>7. FreeInv'
    <3>1. IsInjective(ram_free')
      BY <2>2, <2>3 DEF FreeInv, IsInjective
    <3>2. \A i \in DOMAIN ram_free' : i + 3 \in DOMAIN ram_free /\ ram_free'[i] # 0
      BY <2>2, <2>3, <1>5 DEF FreeInv
    <3>3. ASSUME NEW k \in Mm, NEW q \in Pages, Present(k, q)',
                 NEW i \in DOMAIN ram_free'
          PROVE  ram_free'[i] # pgd'[k][q].low
      <4>1. CASE k = m /\ q \in new
        <5>1. pgd'[k][q].low = ram_free[q - area[m] + 1]
          BY <2>41, <4>1
        <5>2. q - area[m] + 1 \in 1..3
          BY <2>41, <4>1
        <5> QED BY <2>2, <2>3, <3>2, <5>1, <5>2 DEF FreeInv, IsInjective
      <4>2. CASE ~(k = m /\ q \in new)
        <5>1. pgd'[k][q] = pgd[k][q]
          BY <2>42, <4>2
        <5>2. Present(k, q)
          BY <3>3, <5>1 DEF Present
        <5> QED BY <2>2, <3>2, <5>1, <5>2 DEF FreeInv
      <4> QED BY <4>1, <4>2
    <3> QED BY <3>1, <3>2, <3>3 DEF FreeInv
  <2>8. BlankInv'
    BY <1>3, <2>2, <2>3 DEF BlankInv
  <2>9. ListedInv'
    <3>1. ASSUME NEW k \in Mm, NEW q \in Listed(k)'
          PROVE  Present(k, q)'
      <4>1. q \in Pages
        BY <2>1, RangeOfSeq DEF Listed
      <4>2. CASE k = m /\ q \in new
        BY <2>41, <4>1, <4>2
      <4>3. CASE ~(k = m /\ q \in new)
        <5>1. q \in Listed(k)
          BY <2>1, <4>3 DEF Listed
        <5> QED BY <2>42, <4>1, <4>3, <5>1 DEF ListedInv, Present
      <4> QED BY <4>2, <4>3
    <3> QED BY <3>1 DEF ListedInv
  <2>91. ASSUME NEW k \in Mm, NEW q \in Pages, ~(k = m /\ q \in new)
         PROVE  (Resident(k, q)' <=> Resident(k, q)) /\ (q \in Listed(k)' <=> q \in Listed(k))
    BY <2>1, <2>42, <2>91 DEF Resident, Present, Listed
  <2>92. ASSUME NEW q \in Pages, q \in new
         PROVE  Resident(m, q)' /\ q \in Listed(m)'
    BY <2>1, <2>41, <2>92 DEF Listed
  <2>93. ASSUME NEW q \in Pages, q \in new, Resident(m, q)
         PROVE  <<m, q, FrameOf(m, q)>> \in remapped'
    BY <2>44, <2>93 DEF Dropped
  <2>94. ASSUME NEW k \in Mm, NEW q \in Pages, q \in Listed(k)', ~Remapped(k, q)'
         PROVE  Resident(k, q)' /\ ListedOnce(k, q)'
    <3>1. ~Remapped(k, q)
      BY <2>44, <2>94 DEF Remapped
    <3>2. CASE k = m /\ q \in new
      <4>1. ~Resident(m, q)
        BY <2>43, <2>93, <2>94, <3>2 DEF Remapped
      <4>2. q \notin Listed(m)
        BY <3>1, <3>2, <4>1 DEF VictimsKnown
      <4>3. ListedOnce(k, q)'
        BY <2>1, <3>2, <4>2 DEF Listed, ListedOnce, Once
      <4> QED BY <2>92, <3>2, <4>3
    <3>3. CASE ~(k = m /\ q \in new)
      <4>1. Resident(k, q) /\ ListedOnce(k, q)
        BY <2>91, <2>94, <3>1, <3>3 DEF VictimsKnown
      <4>2. ListedOnce(k, q)'
        BY <2>1, <3>3, <4>1 DEF ListedOnce, Once
      <4> QED BY <2>91, <3>3, <4>1, <4>2
    <3> QED BY <3>2, <3>3
  <2>95. VictimsKnown'
    <3>1. ASSUME NEW k \in Mm, NEW q \in Pages, Resident(k, q)'
          PROVE  q \in Listed(k)'
      BY <2>91, <2>92, <3>1 DEF VictimsKnown
    <3> QED BY <2>94, <3>1 DEF VictimsKnown
  <2>96. \A k \in Mm, q \in Pages : FrameOf(k, q)' = pgd'[k][q].low
    BY <2>5, <2>6, EntryOps DEF FrameOf, TypeOK, EntryInv
  <2>97. ASSUME NEW f \in Frames
         PROVE  \/ f \in Range(ram_free')
                \/ \E k \in Mm : \E q \in Listed(k)' :
                     Resident(k, q)' /\ FrameOf(k, q)' = f
                \/ \E k \in Mm, q \in Pages : <<k, q, f>> \in remapped'
    <3>1. CASE f \in Range(ram_free)
      <4>1. PICK i \in DOMAIN ram_free : ram_free[i] = f
        BY <3>1 DEF Range
      <4>2. CASE i \in 1..3
        <5>1. PICK q \in new : q = area[m] + i - 1 /\ q - area[m] + 1 = i
          BY <1>1, <4>2
        <5>2. q \in Pages
          BY <2>44, <5>1
        <5>3. pgd'[m][q].low = f
          BY <2>41, <4>1, <5>1, <5>2
        <5> QED BY <2>92, <2>96, <5>1, <5>2, <5>3
      <4>3. CASE i \notin 1..3
        <5>1. i - 3 \in DOMAIN ram_free' /\ (i - 3) + 3 = i
          BY <2>2, <2>3, <4>1, <4>3
        <5>2. ram_free'[i - 3] = f
          BY <2>2, <4>1, <5>1
        <5> QED BY <5>1, <5>2 DEF Range
      <4> QED BY <4>2, <4>3
    <3>2. CASE \E k \in Mm : \E q \in Listed(k) : Resident(k, q) /\ FrameOf(k, q) = f
      <4>0. PICK k \in Mm : \E q \in Listed(k) : Resident(k, q) /\ FrameOf(k, q) = f
        BY <3>2
      <4>1. PICK q \in Listed(k) : Resident(k, q) /\ FrameOf(k, q) = f
        BY <4>0
      <4>2. q \in Pages
        BY <4>1, RangeOfSeq DEF Listed, TypeOK
      <4>3. CASE k = m /\ q \in new
        BY <2>93, <4>1, <4>2, <4>3
      <4>4. CASE ~(k = m /\ q \in new)
        <5>1. FrameOf(k, q)' = f
          BY <2>42, <2>43, <2>96, <4>1, <4>2, <4>4
        <5> QED BY <2>91, <4>1, <4>2, <4>4, <5>1
      <4> QED BY <4>3, <4>4
    <3>3. CASE \E k \in Mm, q \in Pages : <<k, q, f>> \in remapped
      BY <2>44, <3>3
    <3> QED BY <3>1, <3>2, <3>3 DEF FramesInReach
  <2>98. FramesInReach'
    BY <2>97 DEF FramesInReach
  <2>10. Isolated'
    <3> SUFFICES ASSUME ~replaced
                 PROVE  /\ NoForeignData'
                        /\ \A k, j \in Mm, p, q \in Pages :
                             /\ Present(k, p)' /\ Present(j, q)'
                             /\ FrameOf(k, p)' = FrameOf(j, q)'
                             => k = j /\ p = q
      BY <1>3 DEF Isolated
    <3>1. \A k \in Mm, q \in Pages : FrameOf(k, q)' = pgd'[k][q].low
      BY <2>5, <2>6, EntryOps DEF FrameOf, TypeOK, EntryInv
    <3>2. \A k \in Mm, q \in Pages : FrameOf(k, q) = pgd[k][q].low
      BY EntryOps DEF FrameOf, TypeOK, EntryInv
    <3>3. ASSUME NEW k \in Mm, NEW q \in Pages, Present(k, q)'
          PROVE  \/ /\ k = m /\ q \in new /\ q - area[m] + 1 \in DOMAIN ram_free
                    /\ FrameOf(k, q)' = ram_free[q - area[m] + 1]
                 \/ /\ ~(k = m /\ q \in new) /\ Present(k, q)
                    /\ FrameOf(k, q)' = FrameOf(k, q)
      <4>1. CASE k = m /\ q \in new
        BY <2>41, <3>1, <4>1
      <4>2. CASE ~(k = m /\ q \in new)
        BY <2>42, <3>1, <3>2, <3>3, <4>2 DEF Present
      <4> QED BY <4>1, <4>2
    <3>4. NoForeignData'
      BY <1>3, <3>3 DEF Isolated, NoForeignData, DataAt, BlankInv
    <3>5. ASSUME NEW k \in Mm, NEW j \in Mm, NEW p \in Pages, NEW q \in Pages,
                 Present(k, p)', Present(j, q)', FrameOf(k, p)' = FrameOf(j, q)'
          PROVE  k = j /\ p = q
      <4>1. CASE (k = m /\ p \in new) /\ (j = m /\ q \in new)
        BY <1>1, <3>3, <3>5, <4>1 DEF FreeInv, IsInjective, Pages
      <4>2. CASE (k = m /\ p \in new) /\ ~(j = m /\ q \in new)
        BY <3>2, <3>3, <3>5, <4>2 DEF FreeInv
      <4>3. CASE ~(k = m /\ p \in new) /\ (j = m /\ q \in new)
        BY <3>2, <3>3, <3>5, <4>3 DEF FreeInv
      <4>4. CASE ~(k = m /\ p \in new) /\ ~(j = m /\ q \in new)
        BY <3>3, <3>5, <4>4 DEF Isolated
      <4> QED BY <4>1, <4>2, <4>3, <4>4
    <3> QED BY <3>4, <3>5
  <2> QED BY <1>4, <2>5, <2>6, <2>7, <2>8, <2>9, <2>95, <2>98, <2>10
<1>6. CASE /\ Len(ram_free) < MapCount /\ GiveBackFrames
           /\ UNCHANGED <<pgd, fifo_pgn, remapped>>
  <2>1. /\ ram_free' \in Seq(Frames)
        /\ Len(ram_free') = Len(ram_free)
        /\ DOMAIN ram_free' = 1..Len(ram_free)
        /\ \A i \in DOMAIN ram_free' : ram_free'[i] = ram_free[Len(ram_free) - i + 1]
    BY <1>6, ReversedFrames
  <2>2. Len(ram_free) \in Nat /\ DOMAIN ram_free = 1..Len(ram_free)
    BY FreeLists
  <2>3. \A i \in DOMAIN ram_free' : Len(ram_free) - i + 1 \in DOMAIN ram_free
    BY <2>1, <2>2
  <2>4. TypeOK'
    BY <1>1, <1>3, <1>6, <2>1 DEF TypeOK
  <2>5. FreeInv'
    <3>1. IsInjective(ram_free')
      BY <2>1, <2>2, <2>3 DEF FreeInv, IsInjective
    <3>2. ~(Len(ram_free') >= MapCount)
      BY <1>6, <2>1, <2>2 DEF MapCount
    <3> QED BY <1>6, <2>1, <2>3, <3>1, <3>2 DEF FreeInv, Present
  <2>6. BlankInv'
    BY <1>3, <2>1, <2>3 DEF BlankInv
  <2>7. EntryInv' /\ ListedInv' /\ VictimsKnown' /\ Isolated'
    BY <1>3, <1>6 DEF EntryInv, ListedInv, VictimsKnown, Isolated, NoForeignData, DataAt,
                      Resident, Present, Listed, ListedOnce, Remapped, FrameOf
  <2>8. ASSUME NEW f \in Range(ram_free) PROVE f \in Range(ram_free')
    <3>1. PICK i \in DOMAIN ram_free : ram_free[i] = f
      BY DEF Range
    <3>2. PICK j \in DOMAIN ram_free' : Len(ram_free) - j + 1 = i
      <4>1. Len(ram_free) - i + 1 \in DOMAIN ram_free'
        BY <2>1, <2>2, <3>1
      <4> QED BY <2>2, <4>1
    <3> QED BY <2>1, <3>1, <3>2 DEF Range
  <2>9. FramesInReach'
    BY <1>6, <2>8 DEF FramesInReach, Listed, Resident, Present, FrameOf
  <2> QED BY <1>4, <2>4, <2>5, <2>6, <2>7, <2>9
<1>7. Len(ram_free) >= MapCount \/ Len(ram_free) < MapCount
  BY FreeLists DEF MapCount
<1> QED BY <1>5, <1>6, <1>7 DEF Grow, VmMapRam

(***************************************************************************)
(* Replacement and access                                                  *)
(***************************************************************************)
LEMMA FaultEntries ==
  ASSUME IInv, NEW m \in Mm, NEW p \in Pages, PageFault(m, p)
  PROVE  LET v == Victim(m) IN
         /\ v \in Pages /\ v # p /\ Present(m, v) /\ ~Present(m, p)
         /\ pgd' \in [Mm -> [Pages -> Pte]]
         /\ \A k \in Mm, q \in Pages :
              pgd'[k][q] = IF k = m /\ q = p THEN Online(pgd[m][v].low)
                           ELSE IF k = m /\ q = v
                           THEN [present |-> TRUE, swapped |-> TRUE, low |-> 0]
                           ELSE pgd[k][q]
         /\ swp_free' = swp_free
         /\ mswp' \in [SwapFrames -> Contents]
         /\ fifo_pgn' \in [Mm -> Seq(Pages)]
         /\ \A k \in Mm : k # m => fifo_pgn'[k] = fifo_pgn[k]
         /\ p \in Range(fifo_pgn'[m])
         /\ \A q \in Range(fifo_pgn'[m]) : q = p \/ q \in Range(fifo_pgn[m])
         /\ \A q \in Range(fifo_pgn[m]) : q = v \/ q \in Range(fifo_pgn'[m])
         /\ v \in Range(fifo_pgn[m])
         /\ \A q \in Pages : q # p /\ Once(fifo_pgn[m], q) => Once(fifo_pgn'[m], q)
         /\ Once(fifo_pgn'[m], p)
         /\ Once(fifo_pgn[m], v) => v \notin Range(fifo_pgn'[m])
<1> DEFINE v == Victim(m)
           l == fifo_pgn[m]
           off == [present |-> TRUE, swapped |-> TRUE, low |-> 0]
<1> USE DEF IInv
<1>1. l \in Seq(Pages) /\ l # <<>> /\ ~Present(m, p)
  BY DEF TypeOK, PageFault
<1>2. /\ Front(l) \in Seq(Pages) /\ v \in Range(l)
      /\ Range(l) = Range(Front(l)) \union {v}
      /\ \A x : Once(l, x) => Once(Front(l), x)
      /\ Once(l, v) => v \notin Range(Front(l))
  BY <1>1, FrontElements DEF Victim
<1>3. v \in Pages /\ Present(m, v)
  BY <1>1, <1>2, RangeOfSeq DEF ListedInv, Listed
<1>31. p \notin Range(l)
  BY <1>1 DEF ListedInv, Listed
<1>4. v # p
  BY <1>1, <1>3
<1> HIDE DEF v, l
<1>5. Head(swp_free) = 0 /\ SwapFreeAfter(0) = swp_free
  BY SwapList
<1>6. Swp(pgd[m][p]) = 0 /\ FrameOf(m, v) = pgd[m][v].low /\ pgd[m][v].low \in Frames
  BY <1>1, <1>3, EntryOps DEF TypeOK, EntryInv, FrameOf
<1>7. /\ PteSetSwap(0, 0) = off
      /\ PteSetFpn(pgd[m][p], pgd[m][v].low) = Online(pgd[m][v].low)
  <2>1. pgd[m][p] \in Pte /\ pgd[m][p].low \in Frames
    BY DEF TypeOK, EntryInv
  <2> QED BY ONLY <1>6, <2>1, EntryOps DEF Online
<1>8. pgd' = [pgd EXCEPT ![m][v] = off, ![m][p] = Online(pgd[m][v].low)]
  <2>1. pgd' = [pgd EXCEPT ![m][v] = PteSetSwap(0, Head(swp_free)),
                           ![m][p] = PteSetFpn(@, FrameOf(m, v))]
    BY DEF PageFault, v
  <2>2. pgd' = [pgd EXCEPT ![m][v] = off, ![m][p] = PteSetFpn(@, pgd[m][v].low)]
    BY <2>1, <1>5, <1>6, <1>7
  <2> QED BY <2>2, <1>3, <1>4, <1>7 DEF TypeOK
<1>9. Online(pgd[m][v].low) \in Pte /\ off \in Pte
  BY <1>6, FrameNumbers DEF Online, Pte
<1> HIDE DEF off
<1>10. /\ pgd' \in [Mm -> [Pages -> Pte]]
       /\ \A k \in Mm, q \in Pages :
            pgd'[k][q] = IF k = m /\ q = p THEN Online(pgd[m][v].low)
                         ELSE IF k = m /\ q = v THEN off ELSE pgd[k][q]
  BY <1>3, <1>4, <1>8, <1>9 DEF TypeOK
<1>11. swp_free' = swp_free
  BY <1>5, <1>6 DEF PageFault
<1>12. mswp' \in [SwapFrames -> Contents]
  <2>1. mram[FrameOf(m, v)] \in Contents
    BY <1>6 DEF TypeOK
  <2>2. mswp' = [[mswp EXCEPT ![Head(swp_free)] = mram[FrameOf(m, v)]]
                   EXCEPT ![Swp(pgd[m][p])] = mram[FrameOf(m, v)]]
    BY DEF PageFault, CopiedToSwap, v
  <2> QED BY <2>1, <2>2 DEF TypeOK
<1> DEFINE new == Enlisted(Front(l), p)
<1>13. /\ new \in Seq(Pages) /\ Range(new) = Range(Front(l)) \union {p}
       /\ \A q : q # p /\ Once(Front(l), q) => Once(new, q)
       /\ p \notin Range(Front(l)) => Once(new, p)
  BY <1>2, EnlistedElements
<1> HIDE DEF new
<1>14. fifo_pgn' = [fifo_pgn EXCEPT ![m] = new]
  BY DEF PageFault, new, l, TypeOK
<1>15. fifo_pgn' \in [Mm -> Seq(Pages)] /\ fifo_pgn'[m] = new
  BY <1>13, <1>14 DEF TypeOK
<1>16. \A k \in Mm : k # m => fifo_pgn'[k] = fifo_pgn[k]
  BY <1>14 DEF TypeOK
<1>17. /\ p \in Range(new)
       /\ \A q \in Range(new) : q = p \/ q \in Range(l)
       /\ \A q \in Range(l) : q = v \/ q \in Range(new)
  BY <1>2, <1>13
<1>18. /\ \A q \in Pages : q # p /\ Once(l, q) => Once(new, q)
       /\ Once(new, p) /\ (Once(l, v) => v \notin Range(new))
  BY <1>2, <1>4, <1>31, <1>13
<1> QED BY <1>1, <1>2, <1>3, <1>4, <1>10, <1>11, <1>12, <1>15, <1>16, <1>17, <1>18, Zenon
        DEF v, l, off

LEMMA FaultInv ==
  ASSUME IInv, NEW m \in Mm, NEW p \in Pages, PageFault(m, p)
  PROVE  /\ mram' \in [Frames -> Contents] => TypeOK'
         /\ EntryInv' /\ SwapInv' /\ FreeInv' /\ ListedInv' /\ VictimsKnown'
         /\ FramesInReach' /\ Isolated' /\ Present(m, p)'
<1> DEFINE v == Victim(m)
           off == [present |-> TRUE, swapped |-> TRUE, low |-> 0]
<1>1. /\ v \in Pages /\ v # p /\ Present(m, v) /\ ~Present(m, p)
      /\ pgd' \in [Mm -> [Pages -> Pte]]
      /\ \A k \in Mm, q \in Pages :
           pgd'[k][q] = IF k = m /\ q = p THEN Online(pgd[m][v].low)
                        ELSE IF k = m /\ q = v THEN off ELSE pgd[k][q]
      /\ swp_free' = swp_free
      /\ mswp' \in [SwapFrames -> Contents]
      /\ fifo_pgn' \in [Mm -> Seq(Pages)]
      /\ \A k \in Mm : k # m => fifo_pgn'[k] = fifo_pgn[k]
      /\ p \in Range(fifo_pgn'[m])
      /\ \A q \in Range(fifo_pgn'[m]) : q = p \/ q \in Range(fifo_pgn[m])
      /\ \A q \in Range(fifo_pgn[m]) : q = v \/ q \in Range(fifo_pgn'[m])
      /\ v \in Range(fifo_pgn[m])
      /\ \A q \in Pages : q # p /\ Once(fifo_pgn[m], q) => Once(fifo_pgn'[m], q)
      /\ Once(fifo_pgn'[m], p)
      /\ Once(fifo_pgn[m], v) => v \notin Range(fifo_pgn'[m])
  BY FaultEntries
<1>20. /\ off.present /\ off.swapped /\ off.low = 0
       /\ \A f : Online(f).present /\ ~Online(f).swapped /\ Online(f).low = f
  BY DEF Online
<1> HIDE DEF v, off
<1> USE DEF IInv
<1>2. UNCHANGED <<area, ram_free, remapped>> /\ replaced' = TRUE
  BY DEF PageFault
<1>3. mram' \in [Frames -> Contents] => TypeOK'
  BY <1>1, <1>2 DEF TypeOK
<1>4. pgd'[m][p] = Online(pgd[m][v].low) /\ pgd'[m][v] = off
  BY <1>1
<1>5. /\ Resident(m, p)' /\ Present(m, p)' /\ pgd'[m][p].low = pgd[m][v].low
      /\ pgd'[m][v].present /\ pgd'[m][v].swapped /\ pgd'[m][v].low = 0
  <2>1. Resident(m, p)' /\ Present(m, p)' /\ pgd'[m][p].low = pgd[m][v].low
    BY <1>4, <1>20, Zenon DEF Resident, Present
  <2>2. pgd'[m][v].present /\ pgd'[m][v].swapped /\ pgd'[m][v].low = 0
    BY <1>4, <1>20
  <2> QED BY <2>1, <2>2
<1>6. \A k \in Mm, q \in Pages :
        k # m \/ (q # p /\ q # v) => pgd'[k][q] = pgd[k][q]
  BY <1>1
<1>7. EntryInv'
  <2>1. ASSUME NEW k \in Mm, NEW q \in Pages
        PROVE  pgd'[k][q].low \in Frames /\ (~Present(k, q)' => pgd'[k][q].low = 0)
    <3>1. /\ pgd[k][q].low \in Frames /\ (~Present(k, q) => pgd[k][q].low = 0)
          /\ pgd[m][v].low \in Frames
      BY <1>1 DEF EntryInv
    <3>2. CASE k # m \/ (q # p /\ q # v)
      <4>1. pgd'[k][q] = pgd[k][q]
        BY <1>6, <3>2
      <4> QED BY <3>1, <4>1 DEF Present
    <3>3. CASE k = m /\ q = p
      BY ONLY <1>5, <3>1, <3>3
    <3>4. CASE k = m /\ q = v
      BY ONLY <1>5, <3>4, FrameNumbers DEF Present
    <3> QED BY <3>2, <3>3, <3>4
  <2> QED BY <2>1 DEF EntryInv
<1>8. SwapInv'
  BY <1>1 DEF SwapInv, SwapConserved, IsInjective
<1>9. FreeInv'
  <2>1. ASSUME NEW k \in Mm, NEW q \in Pages, Present(k, q)',
               NEW i \in DOMAIN ram_free
        PROVE  ram_free[i] # pgd'[k][q].low /\ ram_free[i] # 0
    <3>1. \A j \in Mm, r \in Pages : Present(j, r) =>
            ram_free[i] # pgd[j][r].low /\ ram_free[i] # 0
      BY DEF FreeInv
    <3>2. CASE k # m \/ (q # p /\ q # v)
      <4>1. pgd'[k][q] = pgd[k][q]
        BY <1>6, <3>2
      <4> QED BY <2>1, <3>1, <4>1 DEF Present
    <3>3. CASE k = m /\ q = p
      BY <1>1, <1>5, <3>1, <3>3
    <3>4. CASE k = m /\ q = v
      BY <1>1, <1>5, <3>1, <3>4
    <3> QED BY <3>2, <3>3, <3>4
  <2> QED BY <1>2, <2>1 DEF FreeInv, IsInjective, Present
<1>10. VictimsKnown'
  <2>1. ASSUME NEW k \in Mm, NEW q \in Pages, Resident(k, q)'
        PROVE  q \in Range(fifo_pgn'[k])
    <3>1. CASE k # m \/ (q # p /\ q # v)
      <4>1. pgd'[k][q] = pgd[k][q]
        BY <1>6, <3>1
      <4>2. q \in Range(fifo_pgn[k])
        BY <2>1, <4>1 DEF VictimsKnown, Resident, Present, Listed
      <4> QED BY <1>1, <3>1, <4>2
    <3>2. CASE k = m /\ q = p
      BY <1>1, <3>2
    <3>3. CASE k = m /\ q = v
      BY <1>5, <2>1, <3>3 DEF Resident, Present
    <3> QED BY <3>1, <3>2, <3>3
  <2>2. ASSUME NEW k \in Mm, NEW q \in Pages, q \in Range(fifo_pgn'[k]), ~Remapped(k, q)
        PROVE  Resident(k, q)' /\ Once(fifo_pgn'[k], q)
    <3>1. CASE k = m /\ q = p
      BY <1>1, <1>5, <3>1
    <3>2. CASE k # m \/ q # p
      <4>1. q \in Range(fifo_pgn[k])
        BY <1>1, <2>2, <3>2
      <4>2. Resident(k, q) /\ Once(fifo_pgn[k], q)
        BY <2>2, <4>1 DEF VictimsKnown, Listed, ListedOnce, Once
      <4>3. ~(k = m /\ q = v)
        BY <1>1, <2>2, <4>2
      <4>4. pgd'[k][q] = pgd[k][q]
        BY <1>6, <3>2, <4>3
      <4>5. Once(fifo_pgn'[k], q)
        BY <1>1, <3>2, <4>2
      <4> QED BY <4>2, <4>4, <4>5 DEF Resident, Present
    <3> QED BY <3>1, <3>2
  <2> QED BY <1>2, <2>1, <2>2 DEF VictimsKnown, Listed, ListedOnce, Once, Remapped
<1>12. ListedInv'
  <2>1. ASSUME NEW k \in Mm, NEW q \in Range(fifo_pgn'[k])
        PROVE  Present(k, q)'
    <3>1. q \in Pages
      BY <1>1, RangeOfSeq
    <3>2. k # m \/ q # p => Present(k, q)
      BY <1>1, <3>1 DEF ListedInv, Listed
    <3>3. CASE k # m \/ (q # p /\ q # v)
      <4>1. pgd'[k][q] = pgd[k][q]
        BY <1>6, <3>1, <3>3
      <4>2. Present(k, q)
        BY <3>2, <3>3
      <4> QED BY <4>1, <4>2 DEF Present
    <3>4. CASE k = m /\ (q = p \/ q = v)
      BY <1>5, <3>4 DEF Present
    <3> QED BY <3>3, <3>4
  <2> QED BY <2>1 DEF ListedInv, Listed
<1>13. FramesInReach'
  <2>1. ASSUME NEW k \in Mm, NEW q \in Range(fifo_pgn[k]), Resident(k, q)
        PROVE  \E j \in Mm : \E r \in Range(fifo_pgn'[j]) :
                 Resident(j, r)' /\ FrameOf(j, r)' = FrameOf(k, q)
    <3>1. q \in Pages /\ ~(k = m /\ q = p)
      BY <1>1, <2>1, RangeOfSeq DEF TypeOK, Resident
    <3>2. CASE k = m /\ q = v
      <4>1. FrameOf(m, p)' = FrameOf(m, v)
        <5>1. pgd[m][v] \in Pte /\ pgd[m][v].low \in Frames /\ pgd'[m][p] \in Pte
          BY <1>1 DEF TypeOK, EntryInv
        <5>2. Fpn(pgd[m][v]) = pgd[m][v].low
          BY <5>1, EntryOps
        <5>3. pgd'[m][p].low = pgd[m][v].low /\ Fpn(pgd'[m][p]) = pgd'[m][p].low
          BY <1>5, <5>1, EntryOps
        <5> QED BY <5>2, <5>3 DEF FrameOf
      <4> QED BY <1>1, <1>5, <3>2, <4>1
    <3>3. CASE k # m \/ (q # p /\ q # v)
      <4>1. pgd'[k][q] = pgd[k][q]
        BY <1>6, <3>1, <3>3
      <4>2. q \in Range(fifo_pgn'[k])
        BY <1>1, <3>3
      <4> QED BY <2>1, <4>1, <4>2 DEF Resident, Present, FrameOf
    <3> QED BY <3>1, <3>2, <3>3
  <2>2. ASSUME NEW f \in Frames,
               \E k \in Mm : \E q \in Listed(k) : Resident(k, q) /\ FrameOf(k, q) = f
        PROVE  \E k \in Mm : \E q \in Listed(k)' : Resident(k, q)' /\ FrameOf(k, q)' = f
    <3>1. PICK k \in Mm :
            \E q \in Range(fifo_pgn[k]) : Resident(k, q) /\ FrameOf(k, q) = f
      BY <2>2 DEF Listed
    <3>2. PICK q \in Range(fifo_pgn[k]) : Resident(k, q) /\ FrameOf(k, q) = f
      BY <3>1
    <3> QED BY <2>1, <3>2 DEF Listed
  <2> QED BY <1>2, <2>2 DEF FramesInReach
<1>11. Isolated'
  BY <1>2 DEF Isolated
<1> QED BY <1>3, <1>5, <1>7, <1>8, <1>9, <1>10, <1>11, <1>12, <1>13

LEMMA StutterInv == ASSUME IInv, UNCHANGED vars PROVE IInv'
<1> USE DEF vars, IInv, Present, Resident, Listed, FrameOf
<1>1. TypeOK' /\ EntryInv' /\ SwapInv' /\ FreeInv'
  BY DEF TypeOK, EntryInv, SwapInv, SwapConserved, FreeInv, IsInjective
<1>2. BlankInv' /\ ListedInv' /\ Isolated'
  BY DEF BlankInv, ListedInv, Isolated, NoForeignData, DataAt
<1>3. VictimsKnown'
  BY DEF VictimsKnown, ListedOnce, Remapped
<1>4. FramesInReach'
  BY DEF FramesInReach
<1> QED BY <1>1, <1>2, <1>3, <1>4

\* A fault without a victim changes nothing, and there is swap for every victim.
LEMMA FailInv ==
  ASSUME IInv, NEW m \in Mm, NEW p \in Pages, FaultFails(m, p)
  PROVE  IInv'
<1>1. fifo_pgn[m] = <<>>
  BY DEF FaultFails, IInv, SwapInv
<1>2. fifo_pgn' = fifo_pgn
  BY <1>1 DEF FaultFails, IInv, TypeOK
<1>3. UNCHANGED vars
  BY <1>2 DEF FaultFails, vars
<1> QED BY <1>3, StutterInv

LEMMA ReadInv ==
  ASSUME IInv, NEW m \in Mm, NEW p \in Pages, Read(m, p)
  PROVE  IInv'
<1>1. CASE PageFault(m, p) /\ UNCHANGED mram
  <2>1. /\ TypeOK' /\ EntryInv' /\ SwapInv' /\ FreeInv' /\ ListedInv' /\ VictimsKnown'
        /\ FramesInReach' /\ Isolated'
    BY <1>1, FaultInv DEF IInv, TypeOK
  <2>2. BlankInv'
    BY <1>1 DEF PageFault, IInv, BlankInv
  <2> QED BY <2>1, <2>2 DEF IInv
<1>2. CASE FaultFails(m, p)
  BY <1>2, FailInv
<1> QED BY <1>1, <1>2 DEF Read

\* What a write changes is not free, and its own as long as nothing is replaced.
LEMMA WriteInv ==
  ASSUME IInv, NEW m \in Mm, NEW p \in Pages, Write(m, p)
  PROVE  IInv'
<1> DEFINE stored == mram' = RamAfterWrite(m, p)
<1>1. ASSUME stored, pgd' \in [Mm -> [Pages -> Pte]], EntryInv', FreeInv', Present(m, p)'
      PROVE  /\ mram' = [mram EXCEPT ![pgd'[m][p].low] = <<m, p>>]
             /\ mram' \in [Frames -> Contents]
             /\ ram_free' = ram_free => BlankInv'
  <2>1. Fpn(pgd'[m][p]) = pgd'[m][p].low /\ pgd'[m][p].low \in Frames
    BY <1>1, EntryOps DEF EntryInv
  <2>2. mram' = [mram EXCEPT ![pgd'[m][p].low] = <<m, p>>]
    BY <1>1, <2>1 DEF RamAfterWrite
  <2>3. <<m, p>> \in Contents
    BY DEF Contents
  <2>4. mram' \in [Frames -> Contents]
    BY <2>1, <2>2, <2>3 DEF IInv, TypeOK
  <2>5. ASSUME ram_free' = ram_free, NEW i \in DOMAIN ram_free
        PROVE  mram'[ram_free[i]] = Blank
    <3>1. ram_free[i] # pgd'[m][p].low
      BY <1>1, <2>5 DEF FreeInv
    <3>2. ram_free[i] \in Frames /\ mram[ram_free[i]] = Blank
      BY <2>5, FreeLists DEF IInv, BlankInv
    <3> QED BY <2>2, <3>1, <3>2 DEF IInv, TypeOK
  <2> QED BY <2>2, <2>4, <2>5 DEF BlankInv
<1> HIDE DEF stored
<1>2. CASE /\ Present(m, p) /\ stored
           /\ UNCHANGED <<area, pgd, fifo_pgn, ram_free, swp_free, mswp, replaced, remapped>>
  <2>1. /\ EntryInv' /\ SwapInv' /\ FreeInv' /\ ListedInv' /\ VictimsKnown'
        /\ FramesInReach' /\ Present(m, p)'
    BY <1>2 DEF IInv, EntryInv, SwapInv, SwapConserved, FreeInv, ListedInv, VictimsKnown,
                FramesInReach, Resident, Present, Listed, ListedOnce, Remapped, FrameOf,
                IsInjective
  <2>2. /\ mram' = [mram EXCEPT ![pgd[m][p].low] = <<m, p>>]
        /\ mram' \in [Frames -> Contents] /\ BlankInv'
    BY <1>1, <1>2, <2>1 DEF IInv, TypeOK
  <2>3. TypeOK'
    BY <1>2, <2>2 DEF IInv, TypeOK
  <2>4. \A k \in Mm, q \in Pages :
          FrameOf(k, q) = pgd[k][q].low /\ pgd[k][q].low \in Frames
    BY EntryOps DEF IInv, TypeOK, EntryInv, FrameOf
  <2>5. Isolated'
    <3> SUFFICES ASSUME ~replaced
                 PROVE  NoForeignData'
      BY <1>2 DEF IInv, Isolated, Present, FrameOf
    <3>1. ASSUME NEW k \in Mm, NEW q \in Pages, Present(k, q)
          PROVE  mram'[FrameOf(k, q)] \in {<<k, q>>, Blank}
      <4>1. CASE FrameOf(k, q) = FrameOf(m, p)
        <5>1. k = m /\ q = p
          BY <1>2, <3>1, <4>1 DEF IInv, Isolated
        <5> QED BY <2>2, <2>4, <5>1 DEF IInv, TypeOK
      <4>2. CASE FrameOf(k, q) # FrameOf(m, p)
        <5>1. mram'[FrameOf(k, q)] = mram[FrameOf(k, q)]
          BY <2>2, <2>4, <4>2 DEF IInv, TypeOK
        <5> QED BY <3>1, <5>1 DEF IInv, Isolated, NoForeignData, DataAt
      <4> QED BY <4>1, <4>2
    <3> QED BY <1>2, <3>1 DEF NoForeignData, DataAt, Present, FrameOf
  <2> QED BY <2>1, <2>2, <2>3, <2>5 DEF IInv
<1>3. CASE PageFault(m, p) /\ stored
  <2>1. /\ mram' \in [Frames -> Contents] => TypeOK'
        /\ EntryInv' /\ SwapInv' /\ FreeInv' /\ ListedInv' /\ VictimsKnown'
        /\ FramesInReach' /\ Isolated' /\ Present(m, p)'
    BY <1>3, FaultInv
  <2>2. pgd' \in [Mm -> [Pages -> Pte]]
    BY <1>3, FaultEntries
  <2>3. mram' \in [Frames -> Contents] /\ BlankInv'
    BY <1>1, <1>3, <2>1, <2>2 DEF PageFault
  <2> QED BY <2>1, <2>3 DEF IInv
<1>4. CASE FaultFails(m, p)
  BY <1>4, FailInv
<1> QED BY <1>2, <1>3, <1>4 DEF Write, stored

LEMMA NextInv == IInv /\ [Next]_vars => IInv'
<1> SUFFICES ASSUME IInv, [Next]_vars
             PROVE  IInv'
  OBVIOUS
<1>1. CASE UNCHANGED vars
  BY <1>1, StutterInv
<1>2. CASE Next
  BY <1>2, GrowInv, ReadInv, WriteInv DEF Next
<1> QED BY <1>1, <1>2

LEMMA Inductive == Spec => []IInv
BY InitInv, NextInv, PTL DEF Spec

(***************************************************************************)
(* Theorems                                                                *)
(***************************************************************************)

\* The type invariant of the module Paging.
THEOREM TypeCorrect == Spec => []TypeOK
<1>1. IInv => TypeOK
  BY DEF IInv
<1> QED BY <1>1, Inductive, PTL

\* find_victim_page misses no page that has a frame, and returns one without only
\* if growth had mapped that page a second time.
THEOREM ListKeepsStep == Spec => []VictimsKnown
<1>1. IInv => VictimsKnown
  BY DEF IInv
<1> QED BY <1>1, Inductive, PTL

\* Frames of RAM get out of reach in one way only, when vmap_page_range maps a
\* page again that has one.
THEOREM FramesLostByRemapping == Spec => []FramesInReach
<1>1. IInv => FramesInReach
  BY DEF IInv
<1> QED BY <1>1, Inductive, PTL

\* alloc_pages_range hands out no frame that an entry names.
THEOREM FreeMeansUnused == Spec => []FreeFramesUnused
<1>1. IInv => FreeFramesUnused
  <2> SUFFICES ASSUME IInv PROVE FreeFramesUnused
    OBVIOUS
  <2>1. \A m \in Mm, p \in Pages :
          FrameOf(m, p) = pgd[m][p].low /\ FrameOf(m, p) \in Frames
    BY EntryOps DEF FrameOf, IInv, TypeOK, EntryInv
  <2> QED BY <2>1 DEF IInv, FreeInv, FreeFramesUnused
<1> QED BY <1>1, Inductive, PTL

\* pg_getpage gives back as many frames of swap as it takes.
THEOREM SwapLasts == Spec => []SwapConserved
<1>1. IInv => SwapConserved
  BY DEF IInv, SwapInv
<1> QED BY <1>1, Inductive, PTL

\* Until a page is replaced, no process finds the data of another page.
THEOREM IsolatedAtFirst == Spec => []Isolated
<1>1. IInv => Isolated
  BY DEF IInv
<1> QED BY <1>1, Inductive, PTL

=============================================================================
