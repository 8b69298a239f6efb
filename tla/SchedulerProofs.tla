--------------------------- MODULE SchedulerProofs ---------------------------
(***************************************************************************)
(* Where the processes are, for any number of CPUs, processes and levels   *)
(* and whatever order the threads call the scheduler in; that the round    *)
(* over the levels keeps no level waiting for longer than the budgets of   *)
(* the other levels; and when a search of the running list is safe.        *)
(***************************************************************************)
EXTENDS MLQPolicy, SysMemmap, SequenceLemmas, FiniteSetTheorems, WellFoundedInduction

(***************************************************************************)
(* What the operations of queue.c do to a queue, for every queue.          *)
(***************************************************************************)
LEMMA RemoveAtSet ==
  ASSUME NEW S, NEW q \in Seq(S), NEW i \in DOMAIN q, IsInjective(q)
  PROVE  /\ IsInjective(RemoveAt(q, i))
         /\ ToSet(RemoveAt(q, i)) = ToSet(q) \ {q[i]}
<1> DEFINE t == RemoveAt(q, i)
<1>1. Len(q) \in Nat /\ DOMAIN q = 1..Len(q) /\ i \in 1..Len(q)
  BY LenProperties
<1>2. /\ t \in Seq(S) /\ DOMAIN t = 1..(Len(q) - 1)
      /\ \A j \in 1..(Len(q) - 1) : t[j] = IF j < i THEN q[j] ELSE q[j + 1]
  BY RemoveAtElements, LenProperties
<1> HIDE DEF t
<1>3. IsInjective(t)
  <2>1. SUFFICES ASSUME NEW a \in 1..(Len(q) - 1), NEW b \in 1..(Len(q) - 1),
                        t[a] = t[b]
                 PROVE  a = b
    BY <1>2 DEF IsInjective
  <2> DEFINE old(j) == IF j < i THEN j ELSE j + 1
  <2>2. t[a] = q[old(a)] /\ t[b] = q[old(b)]
    BY <1>2
  <2>3. old(a) \in 1..Len(q) /\ old(b) \in 1..Len(q)
    BY <1>1
  <2>4. old(a) = old(b)
    <3> HIDE DEF old
    <3> QED BY <1>1, <2>1, <2>2, <2>3 DEF IsInjective
  <2> QED BY <1>1, <2>4
<1>4. ASSUME NEW x \in ToSet(t) PROVE x \in ToSet(q) \ {q[i]}
  <2>1. PICK j \in 1..(Len(q) - 1) : x = t[j]
    BY <1>2 DEF ToSet
  <2> QED BY <1>1, <1>2, <2>1 DEF ToSet, IsInjective
<1>5. ASSUME NEW x \in ToSet(q) \ {q[i]} PROVE x \in ToSet(t)
  <2>1. PICK j \in 1..Len(q) : x = q[j] /\ j # i
    BY <1>1 DEF ToSet
  <2>2. CASE j < i
    <3>1. j \in 1..(Len(q) - 1) /\ t[j] = x
      BY <1>1, <1>2, <2>1, <2>2
    <3> QED BY <1>2, <3>1 DEF ToSet
  <2>3. CASE j > i
    <3>1. j - 1 \in 1..(Len(q) - 1) /\ t[j - 1] = x
      BY <1>1, <1>2, <2>1, <2>3
    <3> QED BY <1>2, <3>1 DEF ToSet
  <2> QED BY <1>1, <2>1, <2>2, <2>3
<1> QED BY <1>3, <1>4, <1>5 DEF t

(***************************************************************************)
(* dequeue finds an entry whenever there is one.                           *)
(***************************************************************************)
LEMMA Smallest ==
  ASSUME NEW T, T \subseteq Nat, T # {}
  PROVE  \E x \in T : \A y \in T : x <= y
<1> DEFINE U == {0..k : k \in T}
<1>1. U \subseteq FiniteSubsetsOf(Nat) /\ U # {}
  <2>1. ASSUME NEW k \in T PROVE 0..k \in FiniteSubsetsOf(Nat)
    <3>1. IsFiniteSet(0..k) /\ 0..k \subseteq Nat
      BY FS_Interval
    <3> QED BY <3>1 DEF FiniteSubsetsOf
  <2> QED BY <2>1
<1>2. PICK u \in U : \A v \in U : ~(<<v, u>> \in StrictSubsetOrdering(Nat))
  <2> HIDE DEF U
  <2> QED BY <1>1, FS_StrictSubsetOrderingWellFounded, WFMin
<1>3. PICK x \in T : u = 0..x
  OBVIOUS
<1>4. ASSUME NEW y \in T PROVE x <= y
  <2>1. SUFFICES ASSUME y < x PROVE FALSE
    OBVIOUS
  <2>2. 0..y \subseteq 0..x /\ x \in 0..x /\ x \notin 0..y
    BY <2>1
  <2>3. <<0..y, 0..x>> \in StrictSubsetOrdering(Nat)
    BY <2>2 DEF StrictSubsetOrdering
  <2> QED BY <1>2, <1>3, <2>3
<1> QED BY <1>4

LEMMA BestInQueue ==
  ASSUME NEW S, priority \in [S -> Nat], NEW q \in Seq(S), q # <<>>
  PROVE  /\ Best(q) \in DOMAIN q
         /\ \A j \in DOMAIN q : priority[q[Best(q)]] <= priority[q[j]]
<1>1. DOMAIN q = 1..Len(q) /\ Len(q) \in Nat /\ 1 \in DOMAIN q
  BY LenProperties, EmptySeq
<1>2. \A i \in DOMAIN q : q[i] \in S /\ priority[q[i]] \in Nat
  BY <1>1, ElementOfSeq
<1>3. PICK m \in {priority[q[i]] : i \in DOMAIN q} :
        \A n \in {priority[q[i]] : i \in DOMAIN q} : m <= n
  <2> DEFINE V == {priority[q[i]] : i \in DOMAIN q}
  <2>1. V \subseteq Nat /\ V # {}
    BY <1>1, <1>2
  <2> HIDE DEF V
  <2> QED BY <2>1, Smallest DEF V
<1> DEFINE T == {i \in DOMAIN q : priority[q[i]] = m}
<1>4. PICK i \in T : \A j \in T : i <= j
  <2>1. T \subseteq Nat /\ T # {}
    BY <1>1, <1>3
  <2> HIDE DEF T
  <2> QED BY <2>1, Smallest
<1>5. i \in DOMAIN q /\ \A j \in DOMAIN q : Before(q, i, j)
  <2>1. i \in DOMAIN q /\ priority[q[i]] = m
    BY <1>4
  <2>2. ASSUME NEW j \in DOMAIN q PROVE Before(q, i, j)
    <3>1. m <= priority[q[j]] /\ priority[q[j]] \in Nat /\ m \in Nat
      BY <1>2, <1>3
    <3>2. CASE priority[q[j]] = m
      BY <1>4, <2>1, <3>2 DEF Before
    <3>3. CASE priority[q[j]] # m
      BY <2>1, <3>1, <3>3 DEF Before
    <3> QED BY <3>2, <3>3
  <2> QED BY <2>1, <2>2
<1>6. Best(q) \in DOMAIN q /\ \A j \in DOMAIN q : Before(q, Best(q), j)
  BY <1>5 DEF Best
<1> QED BY <1>2, <1>6 DEF Before

LEMMA DequeuedElements ==
  ASSUME NEW S, priority \in [S -> Nat], NEW q \in Seq(S), q # <<>>
  PROVE  /\ Best(q) \in DOMAIN q /\ q[Best(q)] \in ToSet(q) /\ q[Best(q)] \in S
         /\ \A x \in ToSet(q) : priority[q[Best(q)]] <= priority[x]
         /\ Dequeued(q) \in Seq(S) /\ Len(Dequeued(q)) < Len(q)
         /\ IsInjective(q) => /\ IsInjective(Dequeued(q))
                              /\ ToSet(Dequeued(q)) = ToSet(q) \ {q[Best(q)]}
<1>1. Best(q) \in DOMAIN q /\ \A x \in ToSet(q) : priority[q[Best(q)]] <= priority[x]
  BY BestInQueue DEF ToSet
<1>2. Dequeued(q) \in Seq(S) /\ Len(Dequeued(q)) < Len(q)
  BY <1>1, RemoveAtElements, LenProperties DEF Dequeued
<1>3. IsInjective(q) => /\ IsInjective(Dequeued(q))
                        /\ ToSet(Dequeued(q)) = ToSet(q) \ {q[Best(q)]}
  BY <1>1, RemoveAtSet DEF Dequeued
<1>4. q[Best(q)] \in ToSet(q) /\ q[Best(q)] \in S
  BY <1>1, ElementOfSeq, LenProperties DEF ToSet
<1> QED BY <1>1, <1>2, <1>3, <1>4

(***************************************************************************)
(* purgequeue removes the process it is given, wherever it stands.         *)
(***************************************************************************)
LEMMA PurgedElements ==
  ASSUME NEW S, NEW q \in Seq(S), NEW p
  PROVE  /\ Purged(q, p) \in Seq(S) /\ Len(Purged(q, p)) <= Len(q)
         /\ IsInjective(q) => /\ IsInjective(Purged(q, p))
                              /\ ToSet(Purged(q, p)) = ToSet(q) \ {p}
<1> DEFINE First(i) == q[i] = p /\ \A j \in DOMAIN q : q[j] = p => i <= j
<1>1. CASE \E i \in DOMAIN q : q[i] = p
  <2> DEFINE T == {i \in DOMAIN q : q[i] = p}
  <2>1. PICK i \in T : \A j \in T : i <= j
    <3>1. T \subseteq Nat /\ T # {}
      BY <1>1, LenProperties
    <3> HIDE DEF T
    <3> QED BY <3>1, Smallest
  <2>2. \E k \in DOMAIN q : First(k)
    BY <2>1
  <2> DEFINE f == CHOOSE k \in DOMAIN q : First(k)
  <2>3. f \in DOMAIN q /\ q[f] = p
    BY <2>2
  <2>4. Purged(q, p) = RemoveAt(q, f)
    BY <1>1 DEF Purged
  <2> HIDE DEF f, First
  <2>5. RemoveAt(q, f) \in Seq(S) /\ Len(RemoveAt(q, f)) <= Len(q)
    BY <2>3, RemoveAtElements, LenProperties
  <2> QED BY <2>3, <2>4, <2>5, RemoveAtSet
<1>2. CASE ~\E i \in DOMAIN q : q[i] = p
  <2>1. Purged(q, p) = q
    BY <1>2 DEF Purged
  <2> QED BY <1>2, <2>1, LenProperties DEF ToSet
<1> QED BY <1>1, <1>2

(***************************************************************************)
(* enqueue, into a queue that has room and into any queue.                 *)
(***************************************************************************)
LEMMA EnqueueElements ==
  ASSUME NEW S, NEW q \in Seq(S), NEW p \in S, MaxQueueSize \in Nat,
         Len(q) <= MaxQueueSize
  PROVE  /\ Enqueue(q, p) \in Seq(S) /\ Len(Enqueue(q, p)) <= MaxQueueSize
         /\ ToSet(Enqueue(q, p)) \subseteq ToSet(q) \union {p}
         /\ Len(q) < MaxQueueSize => ToSet(Enqueue(q, p)) = ToSet(q) \union {p}
         /\ IsInjective(q) /\ p \notin ToSet(q) => IsInjective(Enqueue(q, p))
<1> DEFINE t == Append(q, p)
<1>1. Len(q) \in Nat /\ DOMAIN q = 1..Len(q)
  BY LenProperties
<1>2. /\ t \in Seq(S) /\ Len(t) = Len(q) + 1 /\ DOMAIN t = 1..(Len(q) + 1)
      /\ \A j \in 1..Len(q) : t[j] = q[j]
      /\ t[Len(q) + 1] = p
  BY <1>1, AppendProperties, LenProperties
<1> HIDE DEF t
<1>3. ToSet(t) = ToSet(q) \union {p}
  BY <1>1, <1>2 DEF ToSet
<1>4. IsInjective(q) /\ p \notin ToSet(q) => IsInjective(t)
  BY <1>1, <1>2 DEF IsInjective, ToSet
<1>5. Enqueue(q, p) = IF Len(q) = MaxQueueSize THEN q ELSE t
  BY DEF Enqueue, t
<1>6. CASE Len(q) = MaxQueueSize
  BY <1>1, <1>5, <1>6
<1>7. CASE Len(q) # MaxQueueSize
  <2>1. Enqueue(q, p) = t
    BY <1>5, <1>7
  <2>2. Len(q) + 1 <= MaxQueueSize
    <3>1. \A n \in Nat : n <= MaxQueueSize /\ n # MaxQueueSize => n + 1 <= MaxQueueSize
      OBVIOUS
    <3> QED BY <1>1, <1>7, <3>1, Zenon
  <2> QED BY <1>2, <1>3, <1>4, <2>1, <2>2
<1> QED BY <1>6, <1>7

(***************************************************************************)
(* A queue without repetitions of some of the processes, but not of all of *)
(* them, has room for one more.                                            *)
(***************************************************************************)
LEMMA QueueHasRoom ==
  ASSUME NEW S, IsFiniteSet(S), NEW q \in Seq(S), IsInjective(q),
         NEW p \in S, p \notin ToSet(q)
  PROVE  Len(q) < Cardinality(S)
<1> DEFINE T == S \ {p}
<1>1. Len(q) \in Nat /\ DOMAIN q = 1..Len(q)
  BY LenProperties
<1>2. /\ IsFiniteSet(T) /\ Cardinality(T) = Cardinality(S) - 1
      /\ Cardinality(S) \in Nat
  BY FS_RemoveElement, FS_CardinalityType
<1>3. q \in Injection(1..Len(q), T)
  <2>1. q \in [1..Len(q) -> T]
    BY <1>1, ElementOfSeq, LenProperties DEF ToSet
  <2> QED BY <1>1, <2>1 DEF Injection, IsInjective
<1>4. Cardinality(1..Len(q)) <= Cardinality(T)
  <2> HIDE DEF T
  <2> QED BY <1>2, <1>3, FS_Injection
<1>5. Cardinality(1..Len(q)) = Len(q)
  BY <1>1, FS_Interval
<1> QED BY <1>1, <1>2, <1>4, <1>5

(***************************************************************************)
(* The effect of each operation, in terms of the sets of processes in the  *)
(* queues; the queues themselves need not be looked at again.              *)
(***************************************************************************)
LEMMA LevelFacts ==
  ASSUME TypeOK, NEW l \in Level
  PROVE  /\ l \in Nat /\ MaxPrio \in Nat /\ slot(l) \in Nat \ {0}
         /\ NextLevel(l) \in Level
         /\ Count(l) \in Nat \ {0}
BY SchedulerAssumption DEF TypeOK, Level, slot, NextLevel, Count

LEMMA TakeEffect ==
  ASSUME TypeOK, NEW c \in CPU, NEW l \in Level,
         mlq_ready_queue[l] # <<>>, Take(c, l)
  PROVE  \E p \in Proc, q \in Seq(Proc) :
           /\ p \in ToSet(mlq_ready_queue[l])
           /\ \A x \in ToSet(mlq_ready_queue[l]) : priority[p] <= priority[x]
           /\ Len(q) <= MaxQueueSize
           /\ IsInjective(mlq_ready_queue[l]) =>
                IsInjective(q) /\ ToSet(q) = ToSet(mlq_ready_queue[l]) \ {p}
           /\ mlq_ready_queue' = [mlq_ready_queue EXCEPT ![l] = q]
           /\ running_list' = Enqueue(running_list, p)
           /\ proc' = [proc EXCEPT ![c] = p]
<1> DEFINE q == mlq_ready_queue[l]
<1>1. q \in Seq(Proc) /\ Len(q) <= MaxQueueSize /\ q # <<>>
  BY DEF TypeOK
<1>2. priority \in [Proc -> Nat] /\ MaxQueueSize \in Nat
  BY SchedulerAssumption
<1>3. /\ q[Best(q)] \in ToSet(q) /\ q[Best(q)] \in Proc
      /\ \A x \in ToSet(q) : priority[q[Best(q)]] <= priority[x]
      /\ Dequeued(q) \in Seq(Proc) /\ Len(Dequeued(q)) < Len(q)
      /\ IsInjective(q) => /\ IsInjective(Dequeued(q))
                           /\ ToSet(Dequeued(q)) = ToSet(q) \ {q[Best(q)]}
  <2> HIDE DEF q
  <2> QED BY <1>1, <1>2, DequeuedElements
<1>4. Len(Dequeued(q)) <= MaxQueueSize
  <2>1. Len(Dequeued(q)) \in Nat /\ Len(q) \in Nat
    BY <1>1, <1>3, LenProperties
  <2> HIDE DEF q
  <2> QED BY <1>1, <1>2, <1>3, <2>1
<1>5. /\ mlq_ready_queue' = [mlq_ready_queue EXCEPT ![l] = Dequeued(q)]
      /\ running_list' = Enqueue(running_list, q[Best(q)])
      /\ proc' = [proc EXCEPT ![c] = q[Best(q)]]
  BY DEF Take
<1> QED BY <1>3, <1>4, <1>5

\* add_mlq_proc and put_mlq_proc put a process at the end of its level.
LEMMA EnqueueEffect ==
  ASSUME TypeOK, NEW p \in Proc
  PROVE  LET q == mlq_ready_queue[prio[p]] IN
         /\ prio[p] \in Level
         /\ Enqueue(q, p) \in Seq(Proc) /\ Len(Enqueue(q, p)) <= MaxQueueSize
         /\ ToSet(Enqueue(q, p)) \subseteq ToSet(q) \union {p}
         /\ IsInjective(q) /\ p \notin ToSet(q) => IsInjective(Enqueue(q, p))
         /\ Fits /\ IsInjective(q) /\ p \notin ToSet(q) =>
              ToSet(Enqueue(q, p)) = ToSet(q) \union {p}
<1> DEFINE q == mlq_ready_queue[prio[p]]
<1>1. prio[p] \in Level
  BY SchedulerAssumption
<1>2. q \in Seq(Proc) /\ Len(q) <= MaxQueueSize /\ MaxQueueSize \in Nat
  BY <1>1, SchedulerAssumption DEF TypeOK
<1>3. Fits /\ IsInjective(q) /\ p \notin ToSet(q) => Len(q) < MaxQueueSize
  <2>1. ASSUME Fits, IsInjective(q), p \notin ToSet(q)
        PROVE  Len(q) < MaxQueueSize
    <3>1. Len(q) < Cardinality(Proc)
      <4> HIDE DEF q
      <4> QED BY <1>2, <2>1, QueueHasRoom, SchedulerAssumption
    <3>2. Len(q) \in Nat /\ Cardinality(Proc) \in Nat
      BY <1>2, LenProperties, FS_CardinalityType, SchedulerAssumption
    <3> HIDE DEF q
    <3> QED BY <1>2, <2>1, <3>1, <3>2 DEF Fits
  <2> QED BY <2>1
<1> HIDE DEF q
<1>4. /\ Enqueue(q, p) \in Seq(Proc) /\ Len(Enqueue(q, p)) <= MaxQueueSize
      /\ ToSet(Enqueue(q, p)) \subseteq ToSet(q) \union {p}
      /\ IsInjective(q) /\ p \notin ToSet(q) => IsInjective(Enqueue(q, p))
      /\ Len(q) < MaxQueueSize => ToSet(Enqueue(q, p)) = ToSet(q) \union {p}
  BY <1>2, EnqueueElements
<1> QED BY <1>1, <1>3, <1>4 DEF q

(***************************************************************************)
(* Every step is a call of one operation.                                  *)
(***************************************************************************)
LEMMA StepCases ==
  ASSUME [Next]_vars, NEW ACTION G,
         ASSUME NEW p \in Proc, AddProc(p) PROVE G,
         ASSUME NEW c \in CPU, GetNothing PROVE G,
         ASSUME NEW c \in CPU, NEW l \in Level, proc[c] = NULL, Serve(c, l)
         PROVE  G,
         ASSUME NEW c \in CPU, PutProc(c) PROVE G,
         ASSUME NEW c \in CPU, FreeProc(c) PROVE G,
         ASSUME UNCHANGED vars PROVE G
  PROVE  G
BY DEF Next, GetProc

\* The variables have their types, the queues never exceed MAX_QUEUE_SIZE and
\* the counter of get_mlq_proc stays below the budget of the level it counts.
THEOREM TypeCorrect == Spec => []TypeOK
<1>1. Init => TypeOK
  <2> SUFFICES ASSUME Init PROVE TypeOK
    OBVIOUS
  <2>1. <<>> \in Seq(Proc) /\ Len(<<>>) = 0
    BY EmptySeq
  <2>2. 0 \in Level /\ 0 <= MaxQueueSize /\ 0 \in 0..(slot(0) - 1)
    BY SchedulerAssumption DEF Level, slot
  <2> QED BY <2>1, <2>2 DEF Init, TypeOK
<1>2. TypeOK /\ [Next]_vars => TypeOK'
  <2> SUFFICES ASSUME TypeOK, [Next]_vars PROVE TypeOK'
    OBVIOUS
  <2>1. ASSUME NEW p \in Proc, AddProc(p) PROVE TypeOK'
    BY <2>1, EnqueueEffect DEF AddProc, TypeOK, slot
  <2>2. ASSUME NEW c \in CPU, GetNothing PROVE TypeOK'
    BY <2>2, LevelFacts DEF GetNothing, TypeOK, slot
  <2>3. ASSUME NEW c \in CPU, NEW l \in Level, proc[c] = NULL, Serve(c, l)
        PROVE  TypeOK'
    <3>1. mlq_ready_queue[l] # <<>> /\ Take(c, l)
      BY <2>3 DEF Serve, Serves
    <3>2. PICK p \in Proc, q \in Seq(Proc) :
            /\ Len(q) <= MaxQueueSize
            /\ mlq_ready_queue' = [mlq_ready_queue EXCEPT ![l] = q]
            /\ running_list' = Enqueue(running_list, p)
            /\ proc' = [proc EXCEPT ![c] = p]
      BY <3>1, TakeEffect
    <3>3. running_list' \in Seq(Proc) /\ Len(running_list') <= MaxQueueSize
      BY <3>2, EnqueueElements, SchedulerAssumption DEF TypeOK
    <3>4. curr_prio' \in Level /\ curr_slot_cnt' \in 0..(slot(curr_prio') - 1)
      <4>1. CASE Count(l) >= slot(l)
        <5>1. curr_prio' = NextLevel(l) /\ curr_slot_cnt' = 0
          BY <2>3, <4>1 DEF Serve
        <5>2. slot(NextLevel(l)) \in Nat \ {0}
          BY LevelFacts
        <5> QED BY <5>1, <5>2, LevelFacts
      <4>2. CASE ~(Count(l) >= slot(l))
        <5>1. curr_prio' = l /\ curr_slot_cnt' = Count(l)
          BY <2>3, <4>2 DEF Serve
        <5> QED BY <4>2, <5>1, LevelFacts
      <4> QED BY <4>1, <4>2
    <3> QED BY <2>3, <3>2, <3>3, <3>4 DEF Serve, TypeOK, slot
  <2>4. ASSUME NEW c \in CPU, PutProc(c) PROVE TypeOK'
    <3>1. proc[c] \in Proc
      BY <2>4 DEF PutProc, TypeOK
    <3>2. running_list' \in Seq(Proc) /\ Len(running_list') <= MaxQueueSize
      <4>1. /\ Purged(running_list, proc[c]) \in Seq(Proc)
            /\ Len(Purged(running_list, proc[c])) <= Len(running_list)
        BY PurgedElements DEF TypeOK
      <4>2. Len(Purged(running_list, proc[c])) \in Nat /\ Len(running_list) \in Nat
        BY <4>1, LenProperties DEF TypeOK
      <4> QED BY <2>4, <4>1, <4>2, SchedulerAssumption DEF PutProc, TypeOK
    <3> QED BY <2>4, <3>1, <3>2, EnqueueEffect DEF PutProc, TypeOK, slot
  <2>5. ASSUME NEW c \in CPU, FreeProc(c) PROVE TypeOK'
    BY <2>5 DEF FreeProc, schedVars, TypeOK, slot
  <2>6. ASSUME UNCHANGED vars PROVE TypeOK'
    BY <2>6 DEF vars, schedVars, TypeOK, slot
  <2> QED BY <2>1, <2>2, <2>3, <2>4, <2>5, <2>6, StepCases
<1> QED BY <1>1, <1>2, PTL DEF Spec

(***************************************************************************)
(* A process is in one place.                                              *)
(***************************************************************************)
\* What Take leaves behind, as far as OnePlace tells it apart.
LEMMA OnePlaceTake ==
  ASSUME TypeOK, OnePlace, NEW c \in CPU, NEW l \in Level, proc[c] = NULL,
         mlq_ready_queue[l] # <<>>, Take(c, l), UNCHANGED <<loaded, finished>>
  PROVE  OnePlace'
<1>1. PICK p \in Proc, q \in Seq(Proc) :
        /\ p \in ToSet(mlq_ready_queue[l])
        /\ IsInjective(q) /\ ToSet(q) = ToSet(mlq_ready_queue[l]) \ {p}
        /\ mlq_ready_queue' = [mlq_ready_queue EXCEPT ![l] = q]
        /\ proc' = [proc EXCEPT ![c] = p]
  BY TakeEffect DEF OnePlace
<1>2. p \in loaded /\ p \notin finished /\ prio[p] = l /\ \A d \in CPU : proc[d] # p
  BY <1>1 DEF OnePlace, Held
<1>3. proc \in [CPU -> Proc \union {NULL}] /\ NULL \notin Proc
  BY SchedulerAssumption DEF TypeOK
<1>4. ASSUME NEW m \in Level
      PROVE  /\ IsInjective(mlq_ready_queue'[m])
             /\ \A x \in ToSet(mlq_ready_queue'[m]) :
                  x \in ToSet(mlq_ready_queue[m]) /\ x # p
  <2>1. mlq_ready_queue \in [Level -> Seq(Proc)]
    BY DEF TypeOK
  <2>2. CASE m = l
    <3>1. mlq_ready_queue'[m] = q
      BY <1>1, <2>1, <2>2
    <3> QED BY <1>1, <2>2, <3>1
  <2>3. CASE m # l
    <3>1. mlq_ready_queue'[m] = mlq_ready_queue[m]
      BY <1>1, <2>1, <2>3
    <3> QED BY <1>2, <2>3, <3>1 DEF OnePlace
  <2> QED BY <2>2, <2>3
<1>5. ASSUME NEW m \in Level, NEW x \in ToSet(mlq_ready_queue'[m])
      PROVE  prio[x] = m /\ x \in loaded' /\ ~Held(x)' /\ x \notin finished'
  <2>1. x \in ToSet(mlq_ready_queue[m]) /\ x # p
    BY <1>4
  <2>2. prio[x] = m /\ x \in loaded /\ ~Held(x) /\ x \notin finished
    BY <2>1 DEF OnePlace
  <2> QED BY <1>1, <1>3, <2>1, <2>2 DEF Held
<1>6. ASSUME NEW d \in CPU, NEW e \in CPU, proc'[d] # NULL
      PROVE  /\ proc'[d] \in loaded' /\ proc'[d] \notin finished'
             /\ proc'[d] = proc'[e] => d = e
  BY <1>1, <1>2, <1>3, <1>6 DEF OnePlace
<1> QED BY <1>4, <1>5, <1>6 DEF OnePlace

\* The process that add_mlq_proc or put_mlq_proc enqueues was nowhere else.
LEMMA OnePlaceEnqueue ==
  ASSUME TypeOK, OnePlace, NEW p \in Proc,
         \A l \in Level : p \notin ToSet(mlq_ready_queue[l]),
         mlq_ready_queue' = [mlq_ready_queue EXCEPT ![prio[p]] = Enqueue(@, p)],
         p \in loaded', p \notin finished', ~Held(p)',
         loaded \subseteq loaded', finished' = finished,
         \A c \in CPU : proc'[c] \in {proc[c], NULL}
  PROVE  OnePlace'
<1>1. /\ prio[p] \in Level
      /\ IsInjective(Enqueue(mlq_ready_queue[prio[p]], p))
      /\ ToSet(Enqueue(mlq_ready_queue[prio[p]], p))
           \subseteq ToSet(mlq_ready_queue[prio[p]]) \union {p}
  BY EnqueueEffect, SchedulerAssumption DEF OnePlace
<1>2. NULL \notin Proc
  BY SchedulerAssumption
<1>3. ASSUME NEW m \in Level
      PROVE  /\ IsInjective(mlq_ready_queue'[m])
             /\ \A x \in ToSet(mlq_ready_queue'[m]) :
                  \/ x = p /\ m = prio[p]
                  \/ x \in ToSet(mlq_ready_queue[m])
  <2>1. mlq_ready_queue \in [Level -> Seq(Proc)]
    BY DEF TypeOK
  <2>2. CASE m = prio[p]
    <3>1. mlq_ready_queue'[m] = Enqueue(mlq_ready_queue[m], p)
      BY <1>1, <2>1, <2>2
    <3> QED BY <1>1, <2>2, <3>1
  <2>3. CASE m # prio[p]
    <3>1. mlq_ready_queue'[m] = mlq_ready_queue[m]
      BY <1>1, <2>1, <2>3
    <3> QED BY <3>1 DEF OnePlace
  <2> QED BY <2>2, <2>3
<1>4. ASSUME NEW m \in Level, NEW x \in ToSet(mlq_ready_queue'[m])
      PROVE  prio[x] = m /\ x \in loaded' /\ ~Held(x)' /\ x \notin finished'
  <2>1. CASE x = p /\ m = prio[p]
    BY <2>1
  <2>2. CASE x \in ToSet(mlq_ready_queue[m])
    <3>1. prio[x] = m /\ x \in loaded /\ ~Held(x) /\ x \notin finished
      BY <2>2 DEF OnePlace
    <3>2. x \in Proc
      BY <2>2, ElementOfSeq, LenProperties DEF ToSet, TypeOK
    <3> QED BY <1>2, <3>1, <3>2 DEF Held
  <2> QED BY <1>3, <2>1, <2>2
<1>5. ASSUME NEW c \in CPU, NEW d \in CPU, proc'[c] # NULL
      PROVE  /\ proc'[c] \in loaded' /\ proc'[c] \notin finished'
             /\ proc'[c] = proc'[d] => c = d
  BY <1>5 DEF OnePlace
<1> QED BY <1>3, <1>4, <1>5 DEF OnePlace

\* No process is in two places, whatever the sizes of the queues: neither on
\* two CPUs, nor ready twice, nor ready while it runs, nor run after it was
\* freed (the pairing of get_proc, put_proc and free in cpu_routine).
THEOREM InOnePlace == Spec => []OnePlace
<1>1. Init => OnePlace
  <2> SUFFICES ASSUME Init PROVE OnePlace
    OBVIOUS
  <2>1. IsInjective(<<>>) /\ ToSet(<<>>) = {}
    BY EmptySeq DEF IsInjective, ToSet
  <2> QED BY <2>1 DEF Init, OnePlace
<1>2. TypeOK /\ OnePlace /\ [Next]_vars => OnePlace'
  <2> SUFFICES ASSUME TypeOK, OnePlace, [Next]_vars PROVE OnePlace'
    OBVIOUS
  <2>1. ASSUME NEW p \in Proc, AddProc(p) PROVE OnePlace'
    <3>1. \A l \in Level : p \notin ToSet(mlq_ready_queue[l])
      BY <2>1 DEF AddProc, OnePlace
    <3>2. ~Held(p) /\ p \notin finished
      BY <2>1, SchedulerAssumption DEF AddProc, OnePlace, Held, TypeOK
    <3> QED BY <2>1, <3>1, <3>2, OnePlaceEnqueue DEF AddProc, Held
  <2>2. ASSUME NEW c \in CPU, GetNothing PROVE OnePlace'
    BY <2>2 DEF GetNothing, OnePlace, Held
  <2>3. ASSUME NEW c \in CPU, NEW l \in Level, proc[c] = NULL, Serve(c, l)
        PROVE  OnePlace'
    BY <2>3, OnePlaceTake DEF Serve, Serves
  <2>4. ASSUME NEW c \in CPU, PutProc(c) PROVE OnePlace'
    <3>0. PICK p \in Proc : p = proc[c]
      BY <2>4 DEF PutProc, TypeOK
    <3>1. p \in loaded /\ p \notin finished
      BY <2>4, <3>0 DEF PutProc, OnePlace
    <3>2. \A l \in Level : p \notin ToSet(mlq_ready_queue[l])
      BY <3>0 DEF OnePlace, Held
    <3>3. ~Held(p)' /\ \A d \in CPU : proc'[d] \in {proc[d], NULL}
      BY <2>4, <3>0, SchedulerAssumption DEF PutProc, OnePlace, Held, TypeOK
    <3> QED BY <2>4, <3>0, <3>1, <3>2, <3>3, OnePlaceEnqueue DEF PutProc
  <2>5. ASSUME NEW c \in CPU, FreeProc(c) PROVE OnePlace'
    BY <2>5, SchedulerAssumption DEF FreeProc, schedVars, OnePlace, Held, TypeOK
  <2>6. ASSUME UNCHANGED vars PROVE OnePlace'
    BY <2>6 DEF vars, schedVars, OnePlace, Held
  <2> QED BY <2>1, <2>2, <2>3, <2>4, <2>5, <2>6, StepCases
<1> QED BY <1>1, <1>2, TypeCorrect, PTL DEF Spec

(***************************************************************************)
(* No process gets lost.                                                   *)
(***************************************************************************)
\* After an enqueue into the level of p the processes that were ready still
\* are, and p is.
LEMMA QueuedEnqueue ==
  ASSUME TypeOK, OnePlace, Fits, NEW p \in Proc,
         \A l \in Level : p \notin ToSet(mlq_ready_queue[l]),
         mlq_ready_queue' = [mlq_ready_queue EXCEPT ![prio[p]] = Enqueue(@, p)]
  PROVE  \A x : Queued(x)' <=> Queued(x) \/ x = p
<1>1. /\ prio[p] \in Level
      /\ ToSet(Enqueue(mlq_ready_queue[prio[p]], p)) =
           ToSet(mlq_ready_queue[prio[p]]) \union {p}
  BY EnqueueEffect, SchedulerAssumption DEF OnePlace
<1>2. mlq_ready_queue \in [Level -> Seq(Proc)]
  BY DEF TypeOK
<1>3. \A l \in Level :
        ToSet(mlq_ready_queue'[l]) =
          IF l = prio[p] THEN ToSet(mlq_ready_queue[l]) \union {p}
                         ELSE ToSet(mlq_ready_queue[l])
  BY <1>1, <1>2
<1> QED BY <1>1, <1>3 DEF Queued

\* From add_proc until it finishes, every process is ready or on a CPU, if one
\* queue has room for all of them: enqueue never drops one, dequeue removes
\* the very process it returns, and get_mlq_proc finds it wherever it waits.
THEOREM NothingLost == Spec => []NoProcessLost
<1>1. Init => NoProcessLost
  BY DEF Init, NoProcessLost
<1>2. TypeOK /\ OnePlace /\ NoProcessLost /\ [Next]_vars => NoProcessLost'
  <2> SUFFICES ASSUME TypeOK, OnePlace, NoProcessLost, [Next]_vars, Fits
               PROVE  \A x \in loaded' : Queued(x)' \/ Held(x)' \/ x \in finished'
    BY DEF NoProcessLost, Fits
  <2>0. \A x \in loaded : Queued(x) \/ Held(x) \/ x \in finished
    BY DEF NoProcessLost
  <2>a. proc \in [CPU -> Proc \union {NULL}] /\ NULL \notin Proc
        /\ mlq_ready_queue \in [Level -> Seq(Proc)] /\ loaded \subseteq Proc
    BY SchedulerAssumption DEF TypeOK
  <2> DEFINE Goal == \A x \in loaded' : Queued(x)' \/ Held(x)' \/ x \in finished'
  <2>1. ASSUME NEW p \in Proc, AddProc(p) PROVE Goal
    <3>1. \A l \in Level : p \notin ToSet(mlq_ready_queue[l])
      BY <2>1 DEF AddProc, OnePlace
    <3>2. Queued(p)' /\ \A x : Queued(x) => Queued(x)'
      BY <2>1, <3>1, QueuedEnqueue DEF AddProc
    <3> QED BY <2>0, <2>1, <3>2 DEF AddProc, Held
  <2>2. ASSUME NEW c \in CPU, GetNothing PROVE Goal
    BY <2>0, <2>2 DEF GetNothing, Queued, Held
  <2>3. ASSUME NEW c \in CPU, NEW l \in Level, proc[c] = NULL, Serve(c, l)
        PROVE  Goal
    <3>1. PICK p \in Proc, q \in Seq(Proc) :
            /\ ToSet(q) = ToSet(mlq_ready_queue[l]) \ {p}
            /\ mlq_ready_queue' = [mlq_ready_queue EXCEPT ![l] = q]
            /\ proc' = [proc EXCEPT ![c] = p]
      BY <2>3, TakeEffect DEF Serve, Serves, OnePlace
    <3>2. ASSUME NEW x, Queued(x) PROVE Queued(x)' \/ x = p
      BY <2>a, <3>1, <3>2 DEF Queued
    <3>3. Held(p)' /\ \A x \in Proc : Held(x) => Held(x)'
      BY <2>3, <2>a, <3>1 DEF Held
    <3> QED BY <2>0, <2>3, <2>a, <3>2, <3>3 DEF Serve
  <2>4. ASSUME NEW c \in CPU, PutProc(c) PROVE Goal
    <3>1. PICK p \in Proc : p = proc[c]
      BY <2>4, <2>a DEF PutProc
    <3>2. \A l \in Level : p \notin ToSet(mlq_ready_queue[l])
      BY <3>1 DEF OnePlace, Held
    <3>3. Queued(p)' /\ \A x : Queued(x) => Queued(x)'
      BY <2>4, <3>1, <3>2, QueuedEnqueue DEF PutProc
    <3>4. \A x \in Proc : Held(x) => Held(x)' \/ x = p
      BY <2>4, <2>a, <3>1 DEF PutProc, Held
    <3> QED BY <2>0, <2>4, <2>a, <3>3, <3>4 DEF PutProc
  <2>5. ASSUME NEW c \in CPU, FreeProc(c) PROVE Goal
    <3>1. \A x \in Proc : Held(x) => Held(x)' \/ x \in finished'
      BY <2>5, <2>a DEF FreeProc, Held
    <3> QED BY <2>0, <2>5, <2>a, <3>1 DEF FreeProc, schedVars, Queued
  <2>6. ASSUME UNCHANGED vars PROVE Goal
    BY <2>0, <2>6 DEF vars, schedVars, Queued, Held
  <2> QED BY <2>1, <2>2, <2>3, <2>4, <2>5, <2>6, StepCases
<1> QED BY <1>1, <1>2, TypeCorrect, InOnePlace, PTL DEF Spec

\* The running list that sys_memmap searches holds exactly the processes on
\* CPUs and those already freed, each once.
THEOREM RunningListKnown == Spec => []RunningListExact
<1>1. Init => RunningListExact
  <2> SUFFICES ASSUME Init PROVE RunningListExact
    OBVIOUS
  <2>1. IsInjective(<<>>) /\ ToSet(<<>>) = {}
    BY EmptySeq DEF IsInjective, ToSet
  <2> QED BY <2>1, SchedulerAssumption DEF Init, RunningListExact, Held
<1>2. TypeOK /\ OnePlace /\ RunningListExact /\ [Next]_vars => RunningListExact'
  <2> SUFFICES ASSUME TypeOK, OnePlace, RunningListExact, [Next]_vars, Fits
               PROVE  /\ IsInjective(running_list')
                      /\ ToSet(running_list') =
                           {x \in Proc : Held(x)'} \union finished'
    BY DEF RunningListExact, Fits
  <2>0. /\ IsInjective(running_list)
        /\ ToSet(running_list) = {x \in Proc : Held(x)} \union finished
    BY DEF RunningListExact
  <2>a. /\ proc \in [CPU -> Proc \union {NULL}] /\ NULL \notin Proc
        /\ running_list \in Seq(Proc) /\ Len(running_list) <= MaxQueueSize
        /\ MaxQueueSize \in Nat /\ IsFiniteSet(Proc)
    BY SchedulerAssumption DEF TypeOK
  <2> DEFINE Goal == /\ IsInjective(running_list')
                     /\ ToSet(running_list') =
                          {x \in Proc : Held(x)'} \union finished'
  <2>1. ASSUME NEW p \in Proc, AddProc(p) PROVE Goal
    BY <2>0, <2>1 DEF AddProc, Held
  <2>2. ASSUME NEW c \in CPU, GetNothing PROVE Goal
    BY <2>0, <2>2 DEF GetNothing, Held
  <2>3. ASSUME NEW c \in CPU, NEW l \in Level, proc[c] = NULL, Serve(c, l)
        PROVE  Goal
    <3>1. PICK p \in Proc :
            /\ p \in ToSet(mlq_ready_queue[l])
            /\ running_list' = Enqueue(running_list, p)
            /\ proc' = [proc EXCEPT ![c] = p]
      BY <2>3, TakeEffect DEF Serve, Serves
    <3>2. p \notin ToSet(running_list)
      BY <2>0, <3>1 DEF OnePlace
    <3>3. Len(running_list) < MaxQueueSize
      <4>1. Len(running_list) < Cardinality(Proc)
        BY <2>0, <2>a, <3>2, QueueHasRoom
      <4>2. Len(running_list) \in Nat /\ Cardinality(Proc) \in Nat
        BY <2>a, LenProperties, FS_CardinalityType
      <4> QED BY <2>a, <4>1, <4>2 DEF Fits
    <3>4. IsInjective(running_list')
          /\ ToSet(running_list') = ToSet(running_list) \union {p}
      BY <2>0, <2>a, <3>1, <3>2, <3>3, EnqueueElements
    <3>5. {x \in Proc : Held(x)'} = {x \in Proc : Held(x)} \union {p}
      BY <2>3, <2>a, <3>1 DEF Held
    <3> QED BY <2>0, <2>3, <3>4, <3>5 DEF Serve
  <2>4. ASSUME NEW c \in CPU, PutProc(c) PROVE Goal
    <3>1. PICK p \in Proc : p = proc[c]
      BY <2>4, <2>a DEF PutProc
    <3>2. IsInjective(running_list')
          /\ ToSet(running_list') = ToSet(running_list) \ {p}
      BY <2>0, <2>4, <2>a, <3>1, PurgedElements DEF PutProc
    <3>3. {x \in Proc : Held(x)'} = {x \in Proc : Held(x)} \ {p}
      BY <2>4, <2>a, <3>1 DEF PutProc, Held, OnePlace
    <3>4. p \notin finished
      BY <2>4, <3>1 DEF OnePlace, PutProc
    <3> QED BY <2>0, <2>4, <3>2, <3>3, <3>4 DEF PutProc
  <2>5. ASSUME NEW c \in CPU, FreeProc(c) PROVE Goal
    <3>1. PICK p \in Proc : p = proc[c]
      BY <2>5, <2>a DEF FreeProc
    <3>2. {x \in Proc : Held(x)'} = {x \in Proc : Held(x)} \ {p} /\ Held(p)
      BY <2>5, <2>a, <3>1 DEF FreeProc, Held, OnePlace
    <3> QED BY <2>0, <2>5, <3>1, <3>2 DEF FreeProc, schedVars
  <2>6. ASSUME UNCHANGED vars PROVE Goal
    BY <2>0, <2>6 DEF vars, schedVars, Held
  <2> QED BY <2>1, <2>2, <2>3, <2>4, <2>5, <2>6, StepCases
<1> QED BY <1>1, <1>2, TypeCorrect, InOnePlace, PTL DEF Spec

(***************************************************************************)
(* The round over the levels, with the history of module MLQPolicy.        *)
(***************************************************************************)
\* Why the bound holds.  Seen from a level w that waits, the round has yet to
\* pass the levels from curr_prio to w: those beyond curr_prio have had nothing
\* since w waits, and curr_prio no more than what curr_slot_cnt says.
PolicyInv ==
  /\ served \in [Level -> [Level -> Nat]]
  /\ \A w, l \in Level : w # l =>
       /\ served[w][l] <= slot(l)
       /\ mlq_ready_queue[w] = <<>> => served[w][l] = 0
       /\ l = curr_prio => served[w][l] <= curr_slot_cnt \/ w = curr_prio
       /\ l # curr_prio /\ Distance(l) < Distance(w) => served[w][l] = 0

\* An enqueue empties no level.
LEMMA EnqueueNotEmpty ==
  ASSUME NEW q \in Seq(Proc), NEW p \in Proc, Enqueue(q, p) = <<>>
  PROVE  q = <<>>
<1>1. Append(q, p) \in Seq(Proc) /\ Len(Append(q, p)) = Len(q) + 1
  BY AppendProperties
<1>2. Append(q, p) # <<>>
  BY <1>1, EmptySeq, LenProperties
<1> QED BY <1>2 DEF Enqueue

\* A step that moves neither the round nor served, and empties no level.
LEMMA PolicyInvKept ==
  ASSUME PolicyInv, UNCHANGED <<curr_prio, curr_slot_cnt, served>>,
         \A w \in Level : mlq_ready_queue'[w] = <<>> => mlq_ready_queue[w] = <<>>
  PROVE  PolicyInv'
BY DEF PolicyInv, Distance, slot

\* The round seen from the level it serves.
LEMMA ServedIsNearest ==
  ASSUME TypeOK, NEW l \in Level, Serves(l),
         NEW w \in Level, w # l, mlq_ready_queue[w] # <<>>
  PROVE  Distance(l) < Distance(w)
<1>1. Distance(l) <= Distance(w)
  BY DEF Serves
<1>2. /\ MaxPrio \in Nat \ {0} /\ curr_prio \in 0..(MaxPrio - 1)
      /\ l \in 0..(MaxPrio - 1) /\ w \in 0..(MaxPrio - 1)
  BY SchedulerAssumption DEF TypeOK, Level
<1>3. /\ Distance(l) # Distance(w)
      /\ Distance(l) \in Int /\ Distance(w) \in Int
  BY ONLY <1>2, w # l DEF Distance
<1> QED BY <1>1, <1>3

LEMMA PolicyServe ==
  ASSUME TypeOK, PolicyInv, NEW c \in CPU, NEW l \in Level,
         Serve(c, l), Record(l)
  PROVE  PolicyInv'
<1>1. /\ curr_prio \in Level /\ curr_slot_cnt \in 0..(slot(curr_prio) - 1)
      /\ MaxPrio \in Nat \ {0}
      /\ mlq_ready_queue \in [Level -> Seq(Proc)]
  BY SchedulerAssumption DEF TypeOK
<1>2. \A w \in Level : w # l => mlq_ready_queue'[w] = mlq_ready_queue[w]
  BY <1>1 DEF Serve, Take
<1>3. served' \in [Level -> [Level -> Nat]]
  BY DEF Record, PolicyInv, None
<1>4. \/ Count(l) >= slot(l) /\ curr_prio' = NextLevel(l) /\ curr_slot_cnt' = 0
      \/ Count(l) < slot(l) /\ curr_prio' = l /\ curr_slot_cnt' = Count(l)
  BY LevelFacts DEF Serve
<1> SUFFICES ASSUME NEW w \in Level, NEW m \in Level, w # m
             PROVE  /\ served'[w][m] <= slot(m)
                    /\ mlq_ready_queue'[w] = <<>> => served'[w][m] = 0
                    /\ m = curr_prio' => served'[w][m] <= curr_slot_cnt' \/ w = curr_prio'
                    /\ m # curr_prio' /\ Distance(m)' < Distance(w)' => served'[w][m] = 0
  BY <1>3 DEF PolicyInv, slot
\* Level w was served itself, or has nothing: it does not wait.
<1>5. CASE w = l \/ mlq_ready_queue[w] = <<>>
  <2>1. served'[w][m] = 0
    BY <1>5 DEF Record, None
  <2>2. curr_slot_cnt' \in Nat /\ slot(m) \in Nat
    BY <1>1, <1>4, LevelFacts
  <2> QED BY <2>1, <2>2
\* Level w waits, and the round is not past it.
<1>6. CASE w # l /\ mlq_ready_queue[w] # <<>>
  <2>1. Distance(l) < Distance(w)
    BY <1>6, ServedIsNearest DEF Serve
  <2>2. served'[w][m] = IF m = l THEN served[w][m] + 1 ELSE served[w][m]
    BY <1>6 DEF Record, PolicyInv
  <2>3. mlq_ready_queue'[w] # <<>>
    BY <1>2, <1>6
  <2>4. /\ served[w][m] \in Nat /\ served[w][m] <= slot(m)
        /\ m = curr_prio => served[w][m] <= curr_slot_cnt \/ w = curr_prio
        /\ m # curr_prio /\ Distance(m) < Distance(w) => served[w][m] = 0
    BY DEF PolicyInv
  <2>5. w # curr_prio
    BY <1>1, <2>1 DEF Distance, Level
  <2>6. m = l => served'[w][m] <= Count(l) /\ Count(l) <= slot(l)
    <3>1. CASE l = curr_prio
      <4>1. Count(l) = curr_slot_cnt + 1 /\ Count(l) <= slot(l)
        BY <1>1, <3>1, LevelFacts DEF Count
      <4>2. m = l => served[w][m] <= curr_slot_cnt
        BY <2>4, <2>5, <3>1
      <4> QED BY <1>1, <2>2, <2>4, <4>1, <4>2
    <3>2. CASE l # curr_prio
      BY <1>1, <2>1, <2>2, <2>4, <3>2, LevelFacts DEF Count
    <3> QED BY <3>1, <3>2
  <2>7. served'[w][m] <= slot(m)
    <3>1. slot(m) \in Nat /\ Count(l) \in Nat
      BY LevelFacts
    <3> QED BY <2>2, <2>4, <2>6, <3>1
  \* The budget of l is used up: the round moves on to a level that had nothing.
  <2>8. CASE curr_prio' = NextLevel(l) /\ curr_slot_cnt' = 0
    <3>1. ASSUME w # curr_prio', m = curr_prio' \/ Distance(m)' < Distance(w)'
          PROVE  m # l /\ m # curr_prio /\ Distance(m) < Distance(w)
      BY <1>1, <2>1, <2>8, <3>1 DEF Distance, NextLevel, Level
    <3>2. ASSUME w # curr_prio', m = curr_prio' \/ Distance(m)' < Distance(w)'
          PROVE  served'[w][m] = 0
      BY <2>2, <2>4, <3>1, <3>2
    <3>3. ASSUME w = curr_prio' PROVE ~(Distance(m)' < Distance(w)')
      <4>1. PICK k \in 0..(MaxPrio - 1) : k = w /\ curr_prio' = k
        BY <3>3 DEF Level
      <4>2. Distance(w)' = 0
        BY <1>1, <4>1 DEF Distance
      <4>3. Distance(m)' \in Nat
        BY <1>1, <4>1 DEF Distance, Level
      <4> QED BY <4>2, <4>3
    <3> QED BY <2>3, <2>7, <2>8, <3>2, <3>3
  \* The round stays at l.
  <2>9. CASE curr_prio' = l /\ curr_slot_cnt' = Count(l)
    <3>1. ASSUME m # l, Distance(m)' < Distance(w)'
          PROVE  m # curr_prio /\ Distance(m) < Distance(w)
      BY <1>1, <2>1, <2>9, <3>1 DEF Distance, Level
    <3> QED BY <2>2, <2>3, <2>4, <2>6, <2>7, <2>9, <3>1
  <2> QED BY <1>4, <2>8, <2>9
<1> QED BY <1>5, <1>6

LEMMA PolicyInductive == PolicySpec => Spec /\ []PolicyInv
<1>1. PolicySpec => Spec
  <2>1. PolicyInit => Init
    BY DEF PolicyInit
  <2>2. [PolicyNext]_policyVars => [Next]_vars
    BY DEF PolicyNext, policyVars, Next, GetProc
  <2> QED BY <2>1, <2>2, PTL DEF PolicySpec, Spec
<1>2. PolicyInit => PolicyInv
  BY SchedulerAssumption DEF PolicyInit, Init, PolicyInv, None, slot, Distance, Level
<1>3. TypeOK /\ PolicyInv /\ [PolicyNext]_policyVars => PolicyInv'
  <2> SUFFICES ASSUME TypeOK, PolicyInv, [PolicyNext]_policyVars PROVE PolicyInv'
    OBVIOUS
  <2>0. mlq_ready_queue \in [Level -> Seq(Proc)] /\ prio \in [Proc -> Level]
    BY SchedulerAssumption DEF TypeOK
  <2>1. ASSUME NEW c \in CPU, NEW l \in Level, Serve(c, l), Record(l)
        PROVE  PolicyInv'
    BY <2>1, PolicyServe
  <2>2. ASSUME NEW p \in Proc, AddProc(p), UNCHANGED served PROVE PolicyInv'
    BY <2>0, <2>2, EnqueueNotEmpty, PolicyInvKept DEF AddProc
  <2>3. ASSUME NEW c \in CPU, GetNothing, UNCHANGED served PROVE PolicyInv'
    BY <2>3 DEF GetNothing, NoneReady, PolicyInv, Distance, slot
  <2>4. ASSUME NEW c \in CPU, PutProc(c), UNCHANGED served PROVE PolicyInv'
    <3>1. proc[c] \in Proc
      BY <2>4 DEF PutProc, TypeOK
    <3> QED BY <2>0, <2>4, <3>1, EnqueueNotEmpty, PolicyInvKept DEF PutProc
  <2>5. ASSUME NEW c \in CPU, FreeProc(c), UNCHANGED served PROVE PolicyInv'
    BY <2>5, PolicyInvKept DEF FreeProc, schedVars
  <2>6. ASSUME UNCHANGED policyVars PROVE PolicyInv'
    BY <2>6, PolicyInvKept DEF policyVars, vars, schedVars
  <2> QED BY <2>1, <2>2, <2>3, <2>4, <2>5, <2>6 DEF PolicyNext
<1> QED BY <1>1, <1>2, <1>3, TypeCorrect, PTL DEF PolicySpec

\* While a level waits no other level is served more than slot[l] times: one
\* round of get_mlq_proc at most, however processes come, go and are preempted
\* in the meantime.
THEOREM NobodyOverserved == PolicySpec => []NoLevelOverserved
<1>1. PolicyInv => NoLevelOverserved
  BY DEF PolicyInv, NoLevelOverserved
<1> QED BY <1>1, PolicyInductive, PTL

(***************************************************************************)
(* The scheduler is a fair dispatcher.                                     *)
(***************************************************************************)
Runnable == {p \in Proc : Queued(p)}

\* A level waits if its queue has a process.
LEMMA LevelWaits ==
  ASSUME TypeOK, OnePlace, NEW w \in Level
  PROVE  Dispatcher!Waits(w) <=> mlq_ready_queue[w] # <<>>
<1>1. mlq_ready_queue[w] \in Seq(Proc)
  BY DEF TypeOK
<1>2. ASSUME mlq_ready_queue[w] # <<>> PROVE Dispatcher!Waits(w)
  <2>1. PICK p \in Proc : p \in ToSet(mlq_ready_queue[w])
    <3>1. 1 \in DOMAIN mlq_ready_queue[w]
      BY <1>1, <1>2, EmptySeq, LenProperties
    <3> QED BY <1>1, <3>1, ElementOfSeq, LenProperties DEF ToSet
  <2>2. prio[p] = w /\ Queued(p)
    BY <2>1 DEF OnePlace, Queued
  <2> QED BY <2>2 DEF Dispatcher!Waits
<1>3. ASSUME Dispatcher!Waits(w) PROVE mlq_ready_queue[w] # <<>>
  <2>1. PICK p \in Proc : Queued(p) /\ prio[p] = w
    BY <1>3 DEF Dispatcher!Waits
  <2>2. p \in ToSet(mlq_ready_queue[w])
    BY <2>1 DEF Queued, OnePlace
  <2> QED BY <2>2, EmptySeq DEF ToSet
<1> QED BY <1>2, <1>3

LEMMA ServeDispatches ==
  ASSUME TypeOK, OnePlace, PolicyInv, PolicyInv',
         NEW c \in CPU, NEW l \in Level, proc[c] = NULL, Serve(c, l), Record(l)
  PROVE  \E p \in Proc : Dispatcher!Dispatch(c, p)
<1>1. PICK p \in Proc, q \in Seq(Proc) :
        /\ p \in ToSet(mlq_ready_queue[l])
        /\ \A x \in ToSet(mlq_ready_queue[l]) : priority[p] <= priority[x]
        /\ ToSet(q) = ToSet(mlq_ready_queue[l]) \ {p}
        /\ mlq_ready_queue' = [mlq_ready_queue EXCEPT ![l] = q]
        /\ proc' = [proc EXCEPT ![c] = p]
  BY TakeEffect DEF Serve, Serves, OnePlace
<1>2. /\ p \in Runnable /\ prio[p] = l
      /\ \A x \in Runnable : prio[x] = l => x \in ToSet(mlq_ready_queue[l])
  BY <1>1 DEF Runnable, Queued, OnePlace
<1>3. Runnable' = Runnable \ {p}
  <2>1. \A m \in Level : ToSet(mlq_ready_queue'[m]) = ToSet(mlq_ready_queue[m]) \ {p}
    <3>1. \A m \in Level : m # l => p \notin ToSet(mlq_ready_queue[m])
      BY <1>2 DEF OnePlace
    <3> QED BY <1>1, <3>1 DEF TypeOK
  <2> QED BY <2>1 DEF Runnable, Queued
<1>4. /\ served' = [w \in Level |->
           IF w # l /\ Dispatcher!Waits(w) THEN [served[w] EXCEPT ![l] = @ + 1]
           ELSE Dispatcher!Never]
      /\ UNCHANGED finished
  BY LevelWaits DEF Record, None, Dispatcher!Never, Serve
<1>5. ASSUME NEW w \in Level \ {l}, Dispatcher!Waits(w)
      PROVE  served[w][l] < slot(l)
  <2>1. served'[w][l] = served[w][l] + 1 /\ served[w][l] \in Nat
    BY <1>4, <1>5 DEF PolicyInv
  <2>2. served'[w][l] <= slot(l) /\ slot(l) \in Nat
    BY LevelFacts DEF PolicyInv, slot
  <2> QED BY <2>1, <2>2
<1> QED BY <1>1, <1>2, <1>3, <1>4, <1>5 DEF Dispatcher!Dispatch, Runnable

LEMMA DispatcherStep ==
  ASSUME Fits, TypeOK, OnePlace, PolicyInv, PolicyInv', [PolicyNext]_policyVars
  PROVE  [Dispatcher!DispatchNext]_(Dispatcher!dispatchVars)
<1>0. /\ proc \in [CPU -> Proc \union {NULL}] /\ NULL \notin Proc
      /\ finished \subseteq Proc /\ loaded \subseteq Proc
  BY SchedulerAssumption DEF TypeOK
<1>1. ASSUME NEW c \in CPU, NEW l \in Level, proc[c] = NULL, Serve(c, l), Record(l)
      PROVE  Dispatcher!DispatchNext
  BY <1>1, ServeDispatches DEF Dispatcher!DispatchNext
<1>2. ASSUME NEW p \in Proc, AddProc(p), UNCHANGED served
      PROVE  Dispatcher!DispatchNext
  <2>1. p \notin loaded /\ \A l \in Level : p \notin ToSet(mlq_ready_queue[l])
    BY <1>2 DEF AddProc, OnePlace
  <2>2. p \notin Runnable /\ p \notin finished /\ ~Dispatcher!OnCpu(p)
    BY <1>0, <2>1 DEF OnePlace, Runnable, Queued, Dispatcher!OnCpu
  <2>3. Runnable' = Runnable \union {p}
    BY <1>2, <2>1, QueuedEnqueue DEF AddProc, Runnable
  <2>4. Dispatcher!Admit(p)
    BY <1>2, <2>2, <2>3 DEF AddProc, Dispatcher!Admit, Runnable
  <2> QED BY <2>4 DEF Dispatcher!DispatchNext
<1>3. ASSUME GetNothing, UNCHANGED served
      PROVE  UNCHANGED Dispatcher!dispatchVars
  BY <1>3 DEF GetNothing, Dispatcher!dispatchVars, Queued
<1>4. ASSUME NEW c \in CPU, PutProc(c), UNCHANGED served
      PROVE  Dispatcher!DispatchNext
  <2>1. PICK p \in Proc : p = proc[c] /\ proc[c] # NULL
    BY <1>0, <1>4 DEF PutProc
  <2>2. \A l \in Level : p \notin ToSet(mlq_ready_queue[l])
    BY <2>1 DEF OnePlace, Held
  <2>3. Runnable' = Runnable \union {p}
    BY <1>4, <2>1, <2>2, QueuedEnqueue DEF PutProc, Runnable
  <2>4. Dispatcher!Preempt(c)
    BY <1>4, <2>1, <2>3 DEF PutProc, Dispatcher!Preempt, Runnable
  <2> QED BY <2>4 DEF Dispatcher!DispatchNext
<1>5. ASSUME NEW c \in CPU, FreeProc(c), UNCHANGED served
      PROVE  Dispatcher!DispatchNext
  <2>1. Runnable' = Runnable
    BY <1>5 DEF FreeProc, schedVars, Runnable, Queued
  <2>2. Dispatcher!End(c)
    BY <1>5, <2>1 DEF FreeProc, Dispatcher!End, Runnable
  <2> QED BY <2>2 DEF Dispatcher!DispatchNext
<1>6. ASSUME UNCHANGED policyVars
      PROVE  UNCHANGED Dispatcher!dispatchVars
  BY <1>6 DEF policyVars, vars, schedVars, Dispatcher!dispatchVars, Queued
<1> QED BY <1>1, <1>2, <1>3, <1>4, <1>5, <1>6 DEF PolicyNext

\* add_proc, get_proc, put_proc and the end of a process are a fair dispatcher,
\* for any processes, levels and CPUs, as long as the processes fit into a queue.
THEOREM FairDispatchImplemented ==
  ASSUME Fits PROVE PolicySpec => ImplementsFairDispatch
<1>1. PolicyInit => Dispatcher!DispatchInit
  <2>1. ToSet(<<>>) = {}
    BY EmptySeq DEF ToSet
  <2> QED BY <2>1 DEF PolicyInit, Init, None, Queued, Dispatcher!DispatchInit,
                      Dispatcher!Never
<1>2. /\ TypeOK /\ OnePlace /\ PolicyInv /\ PolicyInv' /\ [PolicyNext]_policyVars
      => [Dispatcher!DispatchNext]_(Dispatcher!dispatchVars)
  BY DispatcherStep
<1> QED BY <1>1, <1>2, PolicyInductive, TypeCorrect, InOnePlace, PTL
        DEF PolicySpec, ImplementsFairDispatch, Dispatcher!DispatchSpec

(***************************************************************************)
(* The search of sys_memmap.                                               *)
(***************************************************************************)
\* No process is put back while a search is under way.
NoPutDuringSearch ==
  (\E c \in CPU : memmap[c] = "search") => \A d \in CPU : ~PutProc(d)

\* What a search has passed was not its caller.
SearchInv == \A c \in CPU :
  /\ memmap[c] # "outside" => proc[c] # NULL
  /\ memmap[c] = "search" => \A j \in 1..(index[c] - 1) :
       j \in DOMAIN running_list /\ running_list[j] # proc[c]

SearchTypeOK == /\ memmap \in [CPU -> {"outside", "search", "found"}]
                /\ index \in [CPU -> Nat \ {0}]

\* A dispatch adds to the end of the running list, the other calls that may
\* come in between leave it alone.
LEMMA ListPrefix ==
  ASSUME TypeOK, NEW d \in CPU, GetProc(d) \/ FreeProc(d)
  PROVE  \A j \in DOMAIN running_list :
           j \in DOMAIN running_list' /\ running_list'[j] = running_list[j]
<1>1. CASE GetNothing \/ FreeProc(d)
  BY <1>1 DEF GetNothing, FreeProc, schedVars
<1>2. ASSUME NEW l \in Level, Serve(d, l)
      PROVE  \A j \in DOMAIN running_list :
               j \in DOMAIN running_list' /\ running_list'[j] = running_list[j]
  <2>1. PICK p \in Proc : running_list' = Enqueue(running_list, p)
    BY <1>2, TakeEffect DEF Serve, Serves
  <2>2. running_list \in Seq(Proc)
    BY DEF TypeOK
  <2> QED BY <2>1, <2>2, AppendProperties, LenProperties DEF Enqueue
<1> QED BY <1>1, <1>2 DEF GetProc

\* At the end of the list there is no caller left to be missed.
LEMMA SearchEndsEarly ==
  ASSUME Fits, TypeOK, RunningListExact, SearchTypeOK, SearchInv, NEW c \in CPU
  PROVE  ~TakeStub(c)
<1> SUFFICES ASSUME TakeStub(c) PROVE FALSE
  OBVIOUS
<1>1. /\ memmap[c] = "search" /\ index[c] > Len(running_list)
      /\ index[c] \in Nat /\ Len(running_list) \in Nat
      /\ DOMAIN running_list = 1..Len(running_list)
  BY LenProperties DEF TakeStub, SearchTypeOK, TypeOK
<1>2. proc[c] \in Proc /\ Held(proc[c])
  BY <1>1 DEF SearchInv, TypeOK, Held
<1>3. PICK j \in DOMAIN running_list : running_list[j] = proc[c]
  BY <1>2 DEF RunningListExact, ToSet
<1>4. j \in 1..(index[c] - 1)
  BY <1>1
<1> QED BY <1>1, <1>3, <1>4 DEF SearchInv

\* A step of a search leaves the list and the processes alone.
LEMMA SearchStep ==
  ASSUME SearchTypeOK, SearchInv, UNCHANGED vars, NEW c \in CPU,
         NEW a \in {"outside", "search", "found"}, NEW i \in Nat \ {0},
         memmap' = [memmap EXCEPT ![c] = a], index' = [index EXCEPT ![c] = i],
         proc[c] # NULL,
         a = "search" => \A j \in 1..(i - 1) :
           j \in DOMAIN running_list /\ running_list[j] # proc[c]
  PROVE  SearchTypeOK' /\ SearchInv'
<1>1. SearchTypeOK'
  BY DEF SearchTypeOK
<1>2. memmap'[c] = a /\ index'[c] = i /\ UNCHANGED <<running_list, proc>>
  BY DEF SearchTypeOK, vars, schedVars
<1>3. \A d \in CPU \ {c} : memmap'[d] = memmap[d] /\ index'[d] = index[d]
  BY DEF SearchTypeOK
<1>4. SearchInv'
  BY <1>2, <1>3 DEF SearchInv
<1> QED BY <1>1, <1>4

LEMMA SearchNextInv ==
  ASSUME Fits, TypeOK, RunningListExact, SearchTypeOK, SearchInv,
         [SearchNext]_searchVars, [NoPutDuringSearch]_searchVars
  PROVE  SearchTypeOK' /\ SearchInv'
<1> DEFINE Goal == SearchTypeOK' /\ SearchInv'
<1>0. /\ memmap \in [CPU -> {"outside", "search", "found"}]
      /\ index \in [CPU -> Nat \ {0}]
      /\ proc \in [CPU -> Proc \union {NULL}]
  BY DEF SearchTypeOK, TypeOK
<1>1. ASSUME NEW c \in CPU, EnterSysMemmap(c) PROVE Goal
  <2>1. /\ memmap' = [memmap EXCEPT ![c] = "search"]
        /\ index' = [index EXCEPT ![c] = 1] /\ UNCHANGED vars
        /\ proc[c] # NULL
    BY <1>1 DEF EnterSysMemmap
  <2>2. 1 \in Nat \ {0} /\ 1..(1 - 1) = {}
    OBVIOUS
  <2>3. \A j \in 1..(1 - 1) : j \in DOMAIN running_list /\ running_list[j] # proc[c]
    BY <2>2
  <2> QED BY <2>1, <2>2, <2>3, SearchStep
<1>2. ASSUME NEW c \in CPU, Look(c) PROVE Goal
  <2>1. /\ memmap[c] = "search" /\ UNCHANGED vars /\ proc[c] # NULL
        /\ index[c] \in DOMAIN running_list /\ index[c] \in Nat \ {0}
    BY <1>0, <1>2, LenProperties DEF Look, SearchInv, TypeOK
  <2>2. CASE running_list[index[c]] = proc[c]
    <3>1. /\ memmap' = [memmap EXCEPT ![c] = "found"]
          /\ index' = [index EXCEPT ![c] = index[c]]
      BY <1>0, <1>2, <2>2 DEF Look
    <3> QED BY <2>1, <3>1, SearchStep
  <2>3. CASE running_list[index[c]] # proc[c]
    <3>1. PICK i \in Nat \ {0} : i = index[c] + 1
      BY <2>1
    <3>2. /\ memmap' = [memmap EXCEPT ![c] = "search"]
          /\ index' = [index EXCEPT ![c] = i]
      BY <1>0, <1>2, <2>1, <2>3, <3>1 DEF Look
    <3>3. \A j \in 1..(i - 1) : j = index[c] \/ j \in 1..(index[c] - 1)
      BY <2>1, <3>1
    <3>4. \A j \in 1..(i - 1) :
            j \in DOMAIN running_list /\ running_list[j] # proc[c]
      BY <2>1, <2>3, <3>3 DEF SearchInv
    <3> QED BY <2>1, <3>2, <3>4, SearchStep
  <2> QED BY <2>2, <2>3
<1>3. ASSUME NEW c \in CPU, Return(c) PROVE Goal
  <2>1. /\ memmap' = [memmap EXCEPT ![c] = "outside"]
        /\ index' = [index EXCEPT ![c] = index[c]] /\ UNCHANGED vars
        /\ proc[c] # NULL /\ index[c] \in Nat \ {0}
    BY <1>0, <1>3 DEF Return, SearchInv
  <2> QED BY <2>1, SearchStep
<1>4. ASSUME NEW c \in CPU, CallScheduler(c) PROVE Goal
  <2>1. /\ memmap[c] = "outside" /\ UNCHANGED <<memmap, index>>
        /\ GetProc(c) \/ PutProc(c) \/ FreeProc(c)
    BY <1>4 DEF CallScheduler
  <2>2. \A d \in CPU \ {c} : proc'[d] = proc[d]
    BY <1>0, <2>1 DEF GetProc, GetNothing, Serve, Take, PutProc, FreeProc
  <2>3. ASSUME NEW d \in CPU, memmap[d] = "search",
               NEW j \in DOMAIN running_list
        PROVE  j \in DOMAIN running_list' /\ running_list'[j] = running_list[j]
    <3>1. CASE PutProc(c)
      <4>1. searchVars' = searchVars
        BY <2>3, <3>1 DEF NoPutDuringSearch
      <4> QED BY <4>1 DEF searchVars, vars, schedVars
    <3>2. CASE GetProc(c) \/ FreeProc(c)
      BY <3>2, ListPrefix
    <3> QED BY <2>1, <3>1, <3>2
  <2>4. ASSUME NEW d \in CPU
        PROVE  /\ memmap'[d] # "outside" => proc'[d] # NULL
               /\ memmap'[d] = "search" => \A j \in 1..(index'[d] - 1) :
                    j \in DOMAIN running_list' /\ running_list'[j] # proc'[d]
    BY <2>1, <2>2, <2>3 DEF SearchInv
  <2>5. SearchTypeOK'
    BY <2>1 DEF SearchTypeOK
  <2> QED BY <2>4, <2>5 DEF SearchInv
<1>5. ASSUME NEW p \in Proc, AddProc(p), UNCHANGED <<memmap, index>> PROVE Goal
  BY <1>5 DEF AddProc, SearchInv, SearchTypeOK
<1>6. ASSUME UNCHANGED searchVars PROVE Goal
  BY <1>6 DEF searchVars, vars, schedVars, SearchInv, SearchTypeOK
<1> HIDE DEF Goal
<1>7. Goal
  BY <1>1, <1>2, <1>3, <1>4, <1>5, <1>6, SearchEndsEarly DEF SearchNext
<1> QED BY <1>7 DEF Goal

\* __sys_memmap passes by its caller only if put_mlq_proc moves the entries of
\* the running list during the search, or if more processes were dispatched than
\* the list takes: dispatches, arrivals and ends beside it do no harm.
THEOREM CallerFoundUnlessMoved ==
  ASSUME Fits
  PROVE  SearchSpec /\ [][NoPutDuringSearch]_searchVars => []SearchFindsCaller
<1>1. SearchSpec => Spec
  <2>1. SearchInit => Init
    BY DEF SearchInit
  <2>2. [SearchNext]_searchVars => [Next]_vars
    BY DEF SearchNext, searchVars, Next, CallScheduler, EnterSysMemmap, Look,
           TakeStub, Return
  <2> QED BY <2>1, <2>2, PTL DEF SearchSpec, Spec
<1>2. SearchInit => SearchTypeOK /\ SearchInv
  BY DEF SearchInit, SearchTypeOK, SearchInv
<1>3. /\ TypeOK /\ RunningListExact /\ SearchTypeOK /\ SearchInv
      /\ [SearchNext]_searchVars /\ [NoPutDuringSearch]_searchVars
      => SearchTypeOK' /\ SearchInv'
  BY SearchNextInv
<1>4. SearchTypeOK => SearchFindsCaller
  BY DEF SearchTypeOK, SearchFindsCaller
<1> QED BY <1>1, <1>2, <1>3, <1>4, TypeCorrect, RunningListKnown, PTL DEF SearchSpec

=============================================================================
