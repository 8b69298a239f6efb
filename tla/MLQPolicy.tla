------------------------------ MODULE MLQPolicy ------------------------------
(***************************************************************************)
(* The promise of the round over the levels in get_mlq_proc, sched.c:58-71.*)
(* The history variable served counts what the other levels got while a    *)
(* level had a process waiting.                                            *)
(***************************************************************************)
EXTENDS Scheduler

VARIABLE
  served  \* served[w][l]: the processes that level l dispatched since level w
          \* last dispatched one, or last was empty

policyVars == <<vars, served>>

None == [l \in Level |-> 0]

PolicyInit == Init /\ served = [w \in Level |-> None]

Record(l) ==
  served' = [w \in Level |->
               IF w = l \/ mlq_ready_queue[w] = <<>> THEN None
               ELSE [served[w] EXCEPT ![l] = @ + 1]]

PolicyNext ==
  \/ \E c \in CPU, l \in Level : proc[c] = NULL /\ Serve(c, l) /\ Record(l)
  \/ /\ \/ \E p \in Proc : AddProc(p)
        \/ \E c \in CPU : \/ proc[c] = NULL /\ GetNothing
                          \/ PutProc(c)
                          \/ FreeProc(c)
     /\ UNCHANGED served

PolicySpec == PolicyInit /\ [][PolicyNext]_policyVars

\* While a level has a process waiting, no other level dispatches more than
\* its own slot[l] processes: no mix of arrivals, preemptions and levels that
\* run empty in between lets a level keep another one waiting for longer than
\* one round (the budget and the reset of curr_slot_cnt in get_mlq_proc).
NoLevelOverserved ==
  \A w, l \in Level : w # l => served[w][l] <= slot(l)

Dispatcher == INSTANCE FairDispatch WITH
  budget <- [l \in Level |-> slot(l)],
  waiting <- {p \in Proc : Queued(p)},
  holds <- proc, ended <- finished, preferred <- served

\* add_proc, get_proc, put_proc and the end of a process are a fair dispatcher:
\* a call moves one process from where it is to where it should be, dequeue
\* picks the smallest priority of its level, and no level is preferred to a
\* waiting one beyond its budget (queue.c and sched.c together, as long as the
\* processes fit into a queue).
ImplementsFairDispatch == Dispatcher!DispatchSpec

=============================================================================
