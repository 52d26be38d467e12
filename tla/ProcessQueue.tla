---------------------------- MODULE ProcessQueue ----------------------------
(***************************************************************************)
(* What process_queue/queue.c promises its callers: a queue of processes   *)
(* that are taken from the front, or by priority.  Among processes of the  *)
(* same priority the one that has waited longest is taken, and a process   *)
(* of negative priority is never taken by priority.                        *)
(***************************************************************************)
EXTENDS Integers, Sequences, SequencesExt

CONSTANTS Processes, Priority, NULL

VARIABLES queue, result

(* The k-th process has the highest priority, and none before it has it.   *)
TakesTurn(k) ==
    /\ Priority[queue[k]] >= 0
    /\ \A j \in DOMAIN queue : Priority[queue[j]] <= Priority[queue[k]]
    /\ \A j \in 1..k-1 : Priority[queue[j]] < Priority[queue[k]]

Init == queue = <<>> /\ result = NULL

Add(e) == queue' = Append(queue, e) /\ UNCHANGED result

TakeFront ==
    /\ queue # <<>>
    /\ result' = Head(queue)
    /\ queue' = Tail(queue)

TakeByPriority ==
    \E k \in DOMAIN queue : /\ TakesTurn(k)
                            /\ result' = queue[k]
                            /\ queue' = RemoveAt(queue, k)

FindNothing ==
    /\ \A k \in DOMAIN queue : Priority[queue[k]] < 0
    /\ result' = NULL
    /\ UNCHANGED queue

Next == (\E e \in Processes : Add(e)) \/ TakeFront \/ TakeByPriority \/ FindNothing

Spec == Init /\ [][Next]_<<queue, result>>
=============================================================================
