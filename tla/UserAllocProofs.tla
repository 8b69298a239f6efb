--------------------------- MODULE UserAllocProofs ---------------------------
(***************************************************************************)
(* No byte of a process's memory area is given out twice, for any          *)
(* variables, sizes and page size, provided that sys_memmap finds its      *)
(* caller; and liballoc and libfree are an allocator.                      *)
(***************************************************************************)
EXTENDS UserAlloc, SequenceLemmas

\* The area is always used up to its end, and the free list is never empty,
\* so that a request for nothing never reaches inc_vma_limit.
AreaInv == sbrk = vm_end /\ vm_freerg_list # <<>>

IInv == TypeOK /\ NoOverlap /\ AreaInv

LEMMA ListFacts ==
  ASSUME TypeOK
  PROVE  /\ Len(vm_freerg_list) \in Nat
         /\ DOMAIN vm_freerg_list = 1..Len(vm_freerg_list)
         /\ \A i \in DOMAIN vm_freerg_list : vm_freerg_list[i] \in Extents
BY LenProperties, ElementOfSeq DEF TypeOK

\* inc_vma_limit adds at least what was asked for.
LEMMA Aligned ==
  ASSUME NEW n \in Nat
  PROVE  PageAligned(n) \in Nat /\ PageAligned(n) >= n
<1> DEFINE P == PageSize
           k == (n + P - 1) \div P
<1>1. P \in Nat \ {0}
  BY UserAllocAssumption
<1>2. n + P - 1 \in Nat
  BY <1>1
<1>3. k \in Nat /\ k * P <= n + P - 1 /\ n + P - 1 < k * P + P
  BY <1>1, <1>2, SMTT(30)
<1>4. k * P \in Nat
  BY <1>1, <1>3
<1> HIDE DEF k, P
<1>5. k * P >= n
  BY <1>1, <1>3, <1>4
<1> QED BY <1>4, <1>5 DEF PageAligned, k, P

\* What keeps apart from a region keeps apart from both its parts.
LEMMA Parts ==
  ASSUME NEW rg \in Extents, NEW n \in Nat, HasRoom(rg, n)
  PROVE  LET new  == Region(rg.rg_start, rg.rg_start + n)
             rest == Region(rg.rg_start + n, rg.rg_end)
         IN  /\ new \in Extents /\ rest \in Extents
             /\ new.rg_end <= rg.rg_end /\ rest.rg_end = rg.rg_end
             /\ Apart(new, rest)
             /\ \A x \in Extents : Apart(x, rg) => Apart(x, new) /\ Apart(x, rest)
BY DEF Extents, Regions, Region, HasRoom, Apart

\* The free list after get_free_vmrg_area: region i is reduced or gone, and
\* the others are as before.
LEMMA CarvedElements ==
  ASSUME NEW list \in Seq(Extents), NEW i \in DOMAIN list, NEW n \in Nat,
         HasRoom(list[i], n),
         NEW rest, rest = Region(list[i].rg_start + n, list[i].rg_end),
         NEW new, new = Carved(list, i, n)
  PROVE  /\ new \in Seq(Extents) /\ new # <<>>
         /\ \E K \in [DOMAIN new -> DOMAIN list] :
              /\ \A j, k \in DOMAIN new : j # k => K[j] # K[k]
              /\ \A j \in DOMAIN new :
                   new[j] = IF K[j] = i THEN rest ELSE list[K[j]]
<1> DEFINE gone == rest.rg_start = rest.rg_end /\ i # Len(list)
<1>1. Len(list) \in Nat /\ DOMAIN list = 1..Len(list) /\ i \in 1..Len(list)
  BY LenProperties
<1>2. list[i] \in Extents /\ rest \in Extents
  BY <1>1, ElementOfSeq, Parts
<1>3. CASE gone
  <2> DEFINE K == [j \in 1..(Len(list) - 1) |-> IF j < i THEN j ELSE j + 1]
  <2>1. new = RemoveAt(list, i)
    BY <1>3 DEF Carved
  <2>2. /\ new \in Seq(Extents) /\ Len(new) = Len(list) - 1
        /\ \A j \in 1..(Len(list) - 1) :
             new[j] = IF j < i THEN list[j] ELSE list[j + 1]
    BY <2>1, RemoveAtElements
  <2> HIDE DEF gone
  <2>3. DOMAIN new = 1..(Len(list) - 1)
    BY <2>2, LenProperties
  <2>4. new # <<>>
    BY <1>1, <1>3, <2>2 DEF gone
  <2>5. K \in [DOMAIN new -> DOMAIN list]
    BY <1>1, <2>3
  <2>6. \A j, k \in DOMAIN new : j # k => K[j] # K[k]
    BY <1>1, <2>3
  <2>7. ASSUME NEW j \in DOMAIN new
        PROVE  new[j] = IF K[j] = i THEN rest ELSE list[K[j]]
    <3>1. K[j] # i /\ K[j] = IF j < i THEN j ELSE j + 1
      BY <1>1, <2>3
    <3> QED BY <2>2, <2>3, <3>1
  <2> HIDE DEF K
  <2> QED BY <2>2, <2>4, <2>5, <2>6, <2>7
<1>4. CASE ~gone
  <2> DEFINE K == [j \in DOMAIN list |-> j]
  <2>1. new = [list EXCEPT ![i] = rest]
    BY <1>4 DEF Carved
  <2> HIDE DEF gone
  <2>2. new \in Seq(Extents) /\ Len(new) = Len(list)
    BY <1>2, <2>1, ExceptSeq
  <2>3. DOMAIN new = DOMAIN list
    BY <2>1
  <2>4. new # <<>>
    BY <1>1, <2>2
  <2>5. K \in [DOMAIN new -> DOMAIN list]
    BY <2>3
  <2>6. \A j, k \in DOMAIN new : j # k => K[j] # K[k]
    BY <2>3
  <2>7. \A j \in DOMAIN new : new[j] = IF K[j] = i THEN rest ELSE list[K[j]]
    BY <2>1, <2>3
  <2> HIDE DEF K
  <2> QED BY <2>2, <2>4, <2>5, <2>6, <2>7
<1> QED BY <1>3, <1>4

LEMMA InitInv == Init => IInv
<1> SUFFICES ASSUME Init PROVE IInv
  OBVIOUS
<1>1. Unset \in Extents /\ Garbage \subseteq Extents
  BY UserAllocAssumption DEF Unset, Region, Extents, Regions
<1>2. vm_freerg_list \in Seq(Extents) /\ vm_freerg_list = <<Unset>>
  BY <1>1 DEF Init
<1>3. /\ DOMAIN vm_freerg_list = {1} /\ vm_freerg_list[1] = Unset
      /\ vm_freerg_list # <<>>
  BY <1>2
<1>4. TypeOK
  BY <1>1, <1>2 DEF Init, TypeOK
<1>5. NoOverlap
  BY <1>3 DEF Init, NoOverlap, Unset, Region
<1> QED BY <1>3, <1>4, <1>5 DEF IInv, AreaInv, Init

LEMMA FromFreeListInv ==
  ASSUME IInv, NEW r \in Rgid, NEW size \in Sizes, AllocFromFreeList(r, size)
  PROVE  IInv'
<1> DEFINE list == vm_freerg_list
<1>0. size \in Nat
  BY UserAllocAssumption
<1>1. PICK i \in DOMAIN list :
        /\ HasRoom(list[i], size)
        /\ list' = Carved(list, i, size)
        /\ symrgtbl' = [symrgtbl EXCEPT ![r] =
             Region(list[i].rg_start, list[i].rg_start + size)]
        /\ used' = used \union {r} /\ UNCHANGED <<vm_end, sbrk>>
  BY DEF AllocFromFreeList, FirstFit
<1> DEFINE rg   == list[i]
           new  == Region(rg.rg_start, rg.rg_start + size)
           rest == Region(rg.rg_start + size, rg.rg_end)
<1>2. /\ list \in Seq(Extents) /\ rg \in Extents
      /\ \A j \in DOMAIN list : list[j] \in Extents
      /\ symrgtbl \in [Rgid -> Extents] /\ used \subseteq Rgid /\ sbrk \in Nat
  BY ListFacts DEF IInv, TypeOK
<1>3. /\ new \in Extents /\ rest \in Extents
      /\ new.rg_end <= rg.rg_end /\ rest.rg_end = rg.rg_end
      /\ Apart(new, rest)
      /\ \A x \in Extents : Apart(x, rg) => Apart(x, new) /\ Apart(x, rest)
  BY <1>0, <1>1, <1>2, Parts
<1>4. /\ list' \in Seq(Extents) /\ list' # <<>>
      /\ \E K \in [DOMAIN list' -> DOMAIN list] :
           /\ \A j, k \in DOMAIN list' : j # k => K[j] # K[k]
           /\ \A j \in DOMAIN list' :
                list'[j] = IF K[j] = i THEN rest ELSE list[K[j]]
  <2> HIDE DEF list
  <2>1. rest = Region(list[i].rg_start + size, list[i].rg_end)
    OBVIOUS
  <2>2. list \in Seq(Extents) /\ i \in DOMAIN list /\ HasRoom(list[i], size)
    BY <1>1, <1>2
  <2>3. list' = Carved(list, i, size)
    BY <1>1
  <2> HIDE DEF rest, rg, new
  <2> QED BY ONLY <1>0, <2>1, <2>2, <2>3, CarvedElements
<1>5. PICK K \in [DOMAIN list' -> DOMAIN list] :
        /\ \A j, k \in DOMAIN list' : j # k => K[j] # K[k]
        /\ \A j \in DOMAIN list' :
             list'[j] = IF K[j] = i THEN rest ELSE list[K[j]]
  BY <1>4
<1>6. /\ \A q \in used : symrgtbl[q].rg_end <= sbrk
      /\ \A j \in DOMAIN list : list[j].rg_end <= sbrk
      /\ \A p, q \in used : p # q => Apart(symrgtbl[p], symrgtbl[q])
      /\ \A q \in used, j \in DOMAIN list : Apart(symrgtbl[q], list[j])
      /\ \A j, k \in DOMAIN list : j # k => Apart(list[j], list[k])
  BY DEF IInv, NoOverlap
<1>7. \A a, b \in Extents : Apart(a, b) => Apart(b, a)
  BY DEF Apart
<1>8. rg.rg_end <= sbrk /\ rg.rg_end \in Nat /\ new.rg_end \in Nat
  BY <1>2, <1>3, <1>6 DEF Extents, Regions
<1>9. /\ used' \subseteq Rgid /\ symrgtbl' \in [Rgid -> Extents]
      /\ symrgtbl'[r] = new
      /\ \A q \in used' \ {r} : q \in used /\ symrgtbl'[q] = symrgtbl[q]
  BY <1>1, <1>2, <1>3
<1> HIDE DEF list, rg, new, rest
<1>10. TypeOK'
  BY <1>1, <1>4, <1>9 DEF IInv, TypeOK, list
<1>11. \A q \in used' : symrgtbl'[q].rg_end <= sbrk'
  <2>1. new.rg_end <= sbrk
    BY <1>2, <1>3, <1>8
  <2> QED BY <1>1, <1>6, <1>9, <2>1
<1>12. \A j \in DOMAIN list' : list'[j].rg_end <= sbrk'
  BY <1>1, <1>3, <1>5, <1>6, <1>8
<1>13. \A q \in used' \ {r} : Apart(symrgtbl[q], rg) /\ symrgtbl[q] \in Extents
  BY <1>2, <1>6, <1>9 DEF rg
<1>14. \A p, q \in used' : p # q => Apart(symrgtbl'[p], symrgtbl'[q])
  BY <1>3, <1>6, <1>7, <1>9, <1>13
<1>15. \A j \in DOMAIN list : j # i => Apart(list[j], rg)
  BY <1>6 DEF rg
<1>16. \A q \in used', j \in DOMAIN list' : Apart(symrgtbl'[q], list'[j])
  <2> SUFFICES ASSUME NEW q \in used', NEW j \in DOMAIN list'
               PROVE  Apart(symrgtbl'[q], list'[j])
    OBVIOUS
  <2>1. CASE q = r /\ K[j] = i
    BY <1>3, <1>5, <1>9, <2>1
  <2>2. CASE q = r /\ K[j] # i
    BY <1>2, <1>3, <1>5, <1>7, <1>9, <1>15, <2>2
  <2>3. CASE q # r
    BY <1>3, <1>5, <1>6, <1>9, <1>13, <2>3
  <2> QED BY <2>1, <2>2, <2>3
<1>17. \A j, k \in DOMAIN list' : j # k => Apart(list'[j], list'[k])
  <2> SUFFICES ASSUME NEW j \in DOMAIN list', NEW k \in DOMAIN list', j # k
               PROVE  Apart(list'[j], list'[k])
    OBVIOUS
  <2>1. K[j] \in DOMAIN list /\ K[k] \in DOMAIN list /\ K[j] # K[k]
    BY <1>5
  <2>2. CASE K[j] = i
    BY <1>2, <1>3, <1>5, <1>7, <1>15, <2>1, <2>2
  <2>3. CASE K[k] = i
    BY <1>2, <1>3, <1>5, <1>15, <2>1, <2>3
  <2>4. CASE K[j] # i /\ K[k] # i
    BY <1>5, <1>6, <2>1, <2>4
  <2> QED BY <2>2, <2>3, <2>4
<1>18. NoOverlap'
  BY <1>11, <1>12, <1>14, <1>16, <1>17 DEF NoOverlap, list
<1>19. AreaInv'
  BY <1>1, <1>4 DEF IInv, AreaInv, list
<1> QED BY <1>10, <1>18, <1>19 DEF IInv

LEMMA AtSbrkInv ==
  ASSUME CallerFound = {TRUE}, IInv, NEW r \in Rgid, NEW size \in Sizes,
         AllocAtSbrk(r, size)
  PROVE  IInv'
<1> DEFINE list == vm_freerg_list
           new  == Region(sbrk, sbrk + size)
<1>1. size \in Nat /\ sbrk \in Nat /\ vm_end = sbrk
  BY UserAllocAssumption DEF IInv, TypeOK, AreaInv
<1>2. size # 0
  <2>1. 1 \in DOMAIN list /\ list[1] \in Extents
    BY ListFacts, EmptySeq DEF IInv, TypeOK, AreaInv
  <2>2. ~HasRoom(list[1], size)
    BY <2>1 DEF AllocAtSbrk
  <2> QED BY <2>1, <2>2 DEF HasRoom, Extents, Regions
<1>3. /\ sbrk' = sbrk + PageAligned(size) /\ vm_end' = sbrk' /\ list' = list
      /\ sbrk' \in Nat /\ sbrk + size <= sbrk'
  <2>1. IncVmaLimit(size)
    BY DEF AllocAtSbrk
  <2>2. PageAligned(size) \in Nat /\ PageAligned(size) >= size
    BY <1>1, Aligned
  <2> QED BY <1>1, <1>2, <2>1, <2>2 DEF IncVmaLimit
<1>4. /\ used' = used \union {r} /\ used \subseteq Rgid
      /\ symrgtbl' = [symrgtbl EXCEPT ![r] = new]
      /\ symrgtbl \in [Rgid -> Extents]
  BY DEF AllocAtSbrk, IInv, TypeOK
<1>5. new \in Extents /\ new.rg_start = sbrk /\ new.rg_end = sbrk + size
  BY <1>1 DEF Extents, Regions, Region
<1>6. /\ symrgtbl'[r] = new /\ symrgtbl' \in [Rgid -> Extents]
      /\ \A q \in used' \ {r} : q \in used /\ symrgtbl'[q] = symrgtbl[q]
  BY <1>4, <1>5
<1>7. \A x \in Extents : x.rg_end <= sbrk =>
        x.rg_end <= sbrk' /\ Apart(x, new) /\ Apart(new, x)
  BY <1>1, <1>3, <1>5 DEF Apart, Extents, Regions
<1>8. /\ \A q \in used : symrgtbl[q] \in Extents /\ symrgtbl[q].rg_end <= sbrk
      /\ \A i \in DOMAIN list : list[i] \in Extents /\ list[i].rg_end <= sbrk
  BY <1>4, ListFacts DEF IInv, NoOverlap
<1> HIDE DEF new
<1>9. TypeOK'
  BY <1>3, <1>4, <1>6 DEF IInv, TypeOK
<1>10. NoOverlap'
  BY <1>3, <1>5, <1>6, <1>7, <1>8 DEF IInv, NoOverlap
<1>11. AreaInv'
  BY <1>3 DEF IInv, AreaInv
<1> QED BY <1>9, <1>10, <1>11 DEF IInv

LEMMA FreeInv ==
  ASSUME IInv, NEW r \in Rgid, Free(r)
  PROVE  IInv'
<1> DEFINE list == vm_freerg_list
           rg   == symrgtbl[r]
<1>1. /\ r \in used /\ UNCHANGED <<vm_end, sbrk, used>>
      /\ symrgtbl' = [symrgtbl EXCEPT ![r] = Unset]
      /\ list' = list \/ list' = <<rg>> \o list
  BY DEF Free
<1>2. /\ rg \in Extents /\ list \in Seq(Extents) /\ list # <<>>
      /\ symrgtbl \in [Rgid -> Extents] /\ used \subseteq Rgid /\ sbrk \in Nat
      /\ \A j \in DOMAIN list : list[j] \in Extents
  BY ListFacts DEF IInv, TypeOK, AreaInv
<1>3. Unset \in Extents /\ Unset.rg_end = 0
  BY DEF Unset, Region, Extents, Regions
<1>4. /\ symrgtbl' \in [Rgid -> Extents] /\ symrgtbl'[r] = Unset
      /\ \A q \in used' \ {r} : q \in used /\ symrgtbl'[q] = symrgtbl[q]
  BY <1>1, <1>2, <1>3
<1>5. \A x \in Extents : Apart(x, Unset) /\ Apart(Unset, x)
  BY DEF Apart, Extents, Regions, Unset, Region
<1>6. /\ \A q \in used : symrgtbl[q].rg_end <= sbrk
      /\ \A j \in DOMAIN list : list[j].rg_end <= sbrk
      /\ \A p, q \in used : p # q => Apart(symrgtbl[p], symrgtbl[q])
      /\ \A q \in used, j \in DOMAIN list : Apart(symrgtbl[q], list[j])
      /\ \A j, k \in DOMAIN list : j # k => Apart(list[j], list[k])
  BY DEF IInv, NoOverlap
<1>7. \A a, b \in Extents : Apart(a, b) => Apart(b, a)
  BY DEF Apart
\* An element of the new list is rg, at the head, or one of the old list.
<1>8. /\ list' \in Seq(Extents) /\ list' # <<>>
      /\ \E K \in [DOMAIN list' -> DOMAIN list \union {0}] :
           /\ \A j, k \in DOMAIN list' : j # k => K[j] # K[k]
           /\ \A j \in DOMAIN list' :
                list'[j] = IF K[j] = 0 THEN rg ELSE list[K[j]]
  <2> HIDE DEF rg, list
  <2>1. DOMAIN list = 1..Len(list) /\ Len(list) \in Nat
    BY <1>2, LenProperties
  <2>2. CASE list' = list
    <3> DEFINE K == [j \in DOMAIN list |-> j]
    <3>1. K \in [DOMAIN list' -> DOMAIN list \union {0}]
      BY <2>2
    <3>2. \A j, k \in DOMAIN list' : j # k => K[j] # K[k]
      BY <2>2
    <3>3. \A j \in DOMAIN list' : list'[j] = IF K[j] = 0 THEN rg ELSE list[K[j]]
      BY <2>1, <2>2
    <3> HIDE DEF K
    <3> QED BY <1>2, <2>2, <3>1, <3>2, <3>3
  <2>3. CASE list' = <<rg>> \o list
    <3> DEFINE K == [j \in 1..(Len(list) + 1) |-> j - 1]
    <3>1. /\ list' \in Seq(Extents) /\ Len(list') = Len(list) + 1
          /\ \A j \in 1..(Len(list) + 1) :
               list'[j] = IF j = 1 THEN rg ELSE list[j - 1]
      BY <1>2, <2>3, PrependElements
    <3>2. DOMAIN list' = 1..(Len(list) + 1) /\ list' # <<>>
      BY <2>1, <3>1, LenProperties, EmptySeq
    <3>3. K \in [DOMAIN list' -> DOMAIN list \union {0}]
      BY <2>1, <3>2
    <3>4. \A j, k \in DOMAIN list' : j # k => K[j] # K[k]
      BY <2>1, <3>2
    <3>5. \A j \in DOMAIN list' : list'[j] = IF K[j] = 0 THEN rg ELSE list[K[j]]
      BY <2>1, <3>1, <3>2
    <3> HIDE DEF K
    <3> QED BY <3>1, <3>2, <3>3, <3>4, <3>5
  <2> QED BY <1>1, <2>2, <2>3
<1>9. PICK K \in [DOMAIN list' -> DOMAIN list \union {0}] :
        /\ \A j, k \in DOMAIN list' : j # k => K[j] # K[k]
        /\ \A j \in DOMAIN list' :
             list'[j] = IF K[j] = 0 THEN rg ELSE list[K[j]]
  BY <1>8
<1>10. \A j \in DOMAIN list' : list'[j] \in Extents /\ list'[j].rg_end <= sbrk
  BY <1>1, <1>2, <1>6, <1>9
<1>11. \A q \in used \ {r}, j \in DOMAIN list' : Apart(symrgtbl[q], list'[j])
  BY <1>1, <1>6, <1>9
<1>12. \A j, k \in DOMAIN list' : j # k => Apart(list'[j], list'[k])
  <2> SUFFICES ASSUME NEW j \in DOMAIN list', NEW k \in DOMAIN list', j # k
               PROVE  Apart(list'[j], list'[k])
    OBVIOUS
  <2>1. \A l \in DOMAIN list : Apart(rg, list[l]) /\ Apart(list[l], rg)
    BY <1>1, <1>2, <1>6, <1>7
  <2> HIDE DEF rg, list
  <2> QED BY <1>6, <1>9, <2>1
<1>13. \A q \in used' : symrgtbl'[q].rg_end <= sbrk'
  BY <1>1, <1>2, <1>3, <1>4, <1>6
<1>14. \A p, q \in used' : p # q => Apart(symrgtbl'[p], symrgtbl'[q])
  BY <1>1, <1>2, <1>4, <1>5, <1>6
<1>15. \A q \in used', j \in DOMAIN list' : Apart(symrgtbl'[q], list'[j])
  BY <1>1, <1>4, <1>5, <1>10, <1>11
<1> HIDE DEF list, rg
<1>16. TypeOK'
  BY <1>1, <1>4, <1>8 DEF IInv, TypeOK, list
<1>17. NoOverlap'
  BY <1>1, <1>10, <1>12, <1>13, <1>14, <1>15 DEF NoOverlap, list
<1>18. AreaInv'
  BY <1>1, <1>8 DEF IInv, AreaInv, list
<1> QED BY <1>16, <1>17, <1>18 DEF IInv

LEMMA NextInv == CallerFound = {TRUE} => (IInv /\ [Next]_vars => IInv')
<1> SUFFICES ASSUME CallerFound = {TRUE}, IInv, [Next]_vars PROVE IInv'
  OBVIOUS
<1>1. CASE UNCHANGED vars
  BY <1>1 DEF vars, IInv, TypeOK, NoOverlap, AreaInv
<1> QED BY <1>1, FromFreeListInv, AtSbrkInv, FreeInv DEF Next

LEMMA Inductive == ASSUME CallerFound = {TRUE} PROVE Spec => []IInv
<1>1. IInv /\ [Next]_vars => IInv'
  BY NextInv
<1> QED BY <1>1, InitInv, PTL DEF Spec

\* liballoc, libfree and inc_vma_limit keep every region well-formed.
THEOREM TypeCorrect == ASSUME CallerFound = {TRUE} PROVE Spec => []TypeOK
<1>1. IInv => TypeOK
  BY DEF IInv
<1> QED BY <1>1, Inductive, PTL

\* No byte of the area is given out twice, by whatever sequence of calls.
THEOREM NothingShared == ASSUME CallerFound = {TRUE} PROVE Spec => []NoOverlap
<1>1. IInv => NoOverlap
  BY DEF IInv
<1> QED BY <1>1, Inductive, PTL

(***************************************************************************)
(* The allocator.                                                          *)
(***************************************************************************)
LEMMA BlocksApart ==
  ASSUME NEW a \in Extents, NEW b \in Extents, Apart(a, b)
  PROVE  Allocator!Bytes(Block(a)) \intersect Allocator!Bytes(Block(b)) = {}
BY DEF Apart, Block, Allocator!Bytes, Extents, Regions

\* A call of liballoc, from the free list or not, in terms of who owns what.
LEMMA AllocStep ==
  ASSUME IInv, IInv', NEW r \in Rgid, NEW n \in Nat, NEW start \in Nat,
         symrgtbl' = [symrgtbl EXCEPT ![r] = Region(start, start + n)],
         used' = used \union {r}
  PROVE  Allocator!Allocate(r, n)
<1> DEFINE new == Region(start, start + n)
<1>1. /\ new \in Extents /\ Block(new) \in Allocator!Blocks /\ Block(new).size = n
      /\ symrgtbl \in [Rgid -> Extents] /\ used \subseteq Rgid
  BY DEF Extents, Regions, Region, Block, Allocator!Blocks, IInv, TypeOK
<1> HIDE DEF new
<1>2. /\ symrgtbl'[r] = new /\ r \in used'
      /\ \A q \in Rgid \ {r} : symrgtbl'[q] = symrgtbl[q]
      /\ \A q \in Rgid \ {r} : q \in used' <=> q \in used
  BY <1>1 DEF new
<1>3. Owned' = [q \in Rgid |-> IF q \in used' THEN Block(symrgtbl'[q])
                                            ELSE Block(Unset)]
  BY DEF Owned, Block, Unset, Region
<1>4. /\ Owned'[r] = Block(new)
      /\ \A q \in Rgid \ {r} : Owned'[q] = Owned[q]
  BY <1>2, <1>3 DEF Owned
<1>5. Owned' = [Owned EXCEPT ![r] = Owned'[r]]
  BY <1>3, <1>4 DEF Owned
<1>6. ASSUME NEW q \in Rgid \ {r}
      PROVE  Allocator!Bytes(Owned'[r]) \intersect Allocator!Bytes(Owned[q]) = {}
  <2>1. CASE q \in used
    <3>1. Apart(new, symrgtbl[q]) /\ symrgtbl[q] \in Extents
      BY <1>1, <1>2, <2>1 DEF IInv, NoOverlap
    <3>2. Owned[q] = Block(symrgtbl[q])
      BY <2>1 DEF Owned
    <3> QED BY <1>1, <1>4, <3>1, <3>2, BlocksApart
  <2>2. CASE q \notin used
    BY <2>2 DEF Owned, Block, Unset, Region, Allocator!Bytes
  <2> QED BY <2>1, <2>2
<1> QED BY <1>1, <1>4, <1>5, <1>6 DEF Allocator!Allocate

LEMMA AllocatorStep ==
  ASSUME CallerFound = {TRUE}, IInv, IInv', [Next]_vars
  PROVE  [Allocator!AllocatorNext]_Owned
<1>0. /\ vm_freerg_list \in Seq(Extents) /\ sbrk \in Nat /\ Sizes \subseteq Nat
      /\ symrgtbl \in [Rgid -> Extents]
  BY UserAllocAssumption DEF IInv, TypeOK
<1>1. CASE UNCHANGED vars
  BY <1>1 DEF vars, Owned, Block, Unset, Region
<1>2. ASSUME NEW r \in Rgid, Free(r) PROVE Allocator!Release(r)
  <2>1. /\ used' = used /\ symrgtbl' = [symrgtbl EXCEPT ![r] = Unset]
        /\ Block(Unset) = Allocator!NoBlock
    BY <1>2 DEF Free, Block, Unset, Region, Allocator!NoBlock
  <2>2. symrgtbl'[r] = Unset /\ \A q \in Rgid \ {r} : symrgtbl'[q] = symrgtbl[q]
    BY <1>0, <2>1
  <2>3. Owned' = [q \in Rgid |-> IF q \in used THEN Block(symrgtbl'[q])
                                             ELSE Block(Unset)]
    BY <2>1 DEF Owned, Block, Unset, Region
  <2>4. \A q \in Rgid : Owned'[q] = IF q = r THEN Allocator!NoBlock ELSE Owned[q]
    BY <2>1, <2>2, <2>3 DEF Owned
  <2>5. Owned' = [Owned EXCEPT ![r] = Allocator!NoBlock]
    BY <2>3, <2>4 DEF Owned
  <2> QED BY <2>5 DEF Allocator!Release
<1>3. ASSUME NEW r \in Rgid, NEW n \in Sizes, AllocFromFreeList(r, n)
      PROVE  Allocator!Allocate(r, n)
  <2>1. PICK i \in DOMAIN vm_freerg_list :
          /\ symrgtbl' = [symrgtbl EXCEPT ![r] =
               Region(vm_freerg_list[i].rg_start, vm_freerg_list[i].rg_start + n)]
          /\ used' = used \union {r}
    BY <1>3 DEF AllocFromFreeList
  <2>2. vm_freerg_list[i].rg_start \in Nat
    BY ListFacts DEF IInv, Extents, Regions
  <2> QED BY <1>0, <2>1, <2>2, AllocStep
<1>4. ASSUME NEW r \in Rgid, NEW n \in Sizes, AllocAtSbrk(r, n)
      PROVE  Allocator!Allocate(r, n)
  BY <1>0, <1>4, AllocStep DEF AllocAtSbrk
<1> QED BY <1>1, <1>2, <1>3, <1>4 DEF Next, Allocator!AllocatorNext

\* liballoc and libfree are an allocator, whatever a program asks for.
THEOREM AllocatorImplemented ==
  ASSUME CallerFound = {TRUE} PROVE Spec => ImplementsAllocator
<1>1. Init => Allocator!AllocatorInit
  BY DEF Init, Owned, Block, Unset, Region, Allocator!AllocatorInit, Allocator!NoBlock
<1>2. IInv /\ IInv' /\ [Next]_vars => [Allocator!AllocatorNext]_Owned
  BY AllocatorStep
<1> QED BY <1>1, <1>2, Inductive, PTL
        DEF Spec, ImplementsAllocator, Allocator!AllocatorSpec

=============================================================================
