------------------------------ MODULE ProcQueue ------------------------------
(***************************************************************************)
(* src/src/queue.c: the bounded arrays of process pointers that the        *)
(* scheduler keeps its ready processes and its running list in.  A queue   *)
(* is the sequence of the size pointers in use.                            *)
(***************************************************************************)
EXTENDS Naturals, Sequences, SequencesExt

CONSTANTS
  MaxQueueSize,  \* MAX_QUEUE_SIZE
  priority       \* the priority field of a pcb, read from the process file

\* enqueue: a full queue drops the process without a word.
Enqueue(q, p) == IF Len(q) = MaxQueueSize THEN q ELSE Append(q, p)

\* The entry dequeue picks: the smallest priority, the first one of equals.
Before(q, i, j) ==
  \/ priority[q[i]] < priority[q[j]]
  \/ priority[q[i]] = priority[q[j]] /\ i <= j

\* Mutant: first come, first served, whatever the priority.
BestOldest(q) == 1

Best(q) == CHOOSE i \in DOMAIN q : \A j \in DOMAIN q : Before(q, i, j)

\* Mutant: size is not decremented.
DequeuedKept(q) == q

\* Mutant: the entries shift from index 0 and not from best.
DequeuedHead(q) == Tail(q)

\* What dequeue leaves behind of a queue that is not empty.
Dequeued(q) == RemoveAt(q, Best(q))

\* Mutant: the last entry is dropped, whoever it is.
PurgedLast(q, p) ==
  IF \E i \in DOMAIN q : q[i] = p THEN RemoveAt(q, Len(q)) ELSE q

\* purgequeue: the first entry for p goes, if there is one.
Purged(q, p) ==
  IF \E i \in DOMAIN q : q[i] = p
  THEN RemoveAt(q, CHOOSE i \in DOMAIN q :
                     q[i] = p /\ \A j \in DOMAIN q : q[j] = p => i <= j)
  ELSE q

=============================================================================
