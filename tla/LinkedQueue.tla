---------------------------- MODULE LinkedQueue -----------------------------
(***************************************************************************)
(* process_queue/queue.c: a queue kept as a doubly linked list of nodes    *)
(* from malloc.  add2q and popQ are one step each; rmProcess is one step   *)
(* to start, one for each node its loop visits, and one to unlink the node *)
(* it has found.  One caller makes the calls, as in queuetest.c, in any    *)
(* order.  The heap has the nodes of the set Nodes: when all are in use,   *)
(* malloc returns NULL, which add2q does not test, and the program ends.   *)
(***************************************************************************)
EXTENDS Integers, Sequences, SequencesExt, FiniteSets

CONSTANTS Nodes,       \* the nodes that fit in memory
          Processes,   \* what data pointers point to
          Priority,    \* the priority of each process
          NULL

ASSUME QueueAssumption ==
    /\ IsFiniteSet(Nodes)
    /\ Priority \in [Processes -> Int]
    /\ NULL \notin Nodes /\ NULL \notin Processes

VARIABLES node,              \* the contents of each node
          used,              \* the nodes between their malloc and their free
          head, tail, size,  \* the queue_t
          pc,                \* in a call of rmProcess, or not
          temp, removed, highestPriority,   \* its locals
          result,            \* what the last popQ or rmProcess returned
          order              \* auxiliary: the nodes in the order of the queue

list == <<node, used, head, tail, size, order>>
scan == <<temp, removed, highestPriority>>
vars == <<list, pc, scan, result>>

Node(d, n, p) == [data |-> d, next |-> n, prev |-> p]
Garbage == Node(NULL, NULL, NULL)   \* of a node that is not in use

Init ==
    /\ node = [n \in Nodes |-> Garbage]
    /\ used = {}
    /\ head = NULL /\ tail = NULL /\ size = 0
    /\ pc = "caller"
    /\ temp = NULL /\ removed = NULL /\ highestPriority = -1
    /\ result = NULL
    /\ order = <<>>
-----------------------------------------------------------------------------
NewNode(e) == Node(e, NULL, tail)

Add2q(e) ==
    /\ pc = "caller"
    /\ \E n \in Nodes \ used :
        /\ node' = [m \in Nodes |-> IF m = n THEN NewNode(e)
                                    ELSE IF m = tail THEN [node[m] EXCEPT !.next = n]
                                    ELSE node[m]]
        /\ used' = used \cup {n}
        /\ head' = IF tail = NULL THEN n ELSE head
        /\ tail' = n
        /\ order' = Append(order, n)
    /\ size' = size + 1
    /\ UNCHANGED <<pc, scan, result>>

OutOfMemory ==
    /\ pc = "caller"
    /\ used = Nodes
    /\ pc' = "ended"
    /\ UNCHANGED <<list, scan, result>>
-----------------------------------------------------------------------------
TailAfterPop_Kept == tail
TailAfterPop == IF node[head].next = NULL THEN NULL ELSE tail

PopQ ==
    /\ pc = "caller"
    /\ head # NULL
    /\ result' = node[head].data
    /\ head' = node[head].next
    /\ tail' = TailAfterPop
    /\ node' = [m \in Nodes |-> IF m = head THEN Garbage
                                ELSE IF m = node[head].next THEN [node[m] EXCEPT !.prev = NULL]
                                ELSE node[m]]
    /\ used' = used \ {head}
    /\ size' = size - 1
    /\ order' = Tail(order)
    /\ UNCHANGED <<pc, scan>>

(* popQ and rmProcess of an empty queue.                                   *)
ReturnNull ==
    /\ pc = "caller"
    /\ head = NULL
    /\ result' = NULL
    /\ UNCHANGED <<list, pc, scan>>
-----------------------------------------------------------------------------
(* rmProcess.  Its loop keeps the node of the highest priority so far; the *)
(* test is strict, so that the first of several is kept.                   *)
RmProcess ==
    /\ pc = "caller"
    /\ head # NULL
    /\ temp' = head
    /\ removed' = NULL
    /\ highestPriority' = -1
    /\ pc' = "scan"
    /\ UNCHANGED <<list, result>>

Higher_OrEqual(x, y) == x >= y
Higher(x, y) == x > y

After_IfHigher(n) == IF Priority[node[n].data] > highestPriority THEN node[n].next ELSE n
After(n) == node[n].next

Visit ==
    /\ pc = "scan"
    /\ temp # NULL
    /\ temp' = After(temp)
    /\ IF Higher(Priority[node[temp].data], highestPriority)
       THEN removed' = temp /\ highestPriority' = Priority[node[temp].data]
       ELSE UNCHANGED <<removed, highestPriority>>
    /\ UNCHANGED <<list, pc, result>>

(* The locals are gone once rmProcess has returned.                        *)
Return == pc' = "caller" /\ temp' = NULL /\ removed' = NULL /\ highestPriority' = -1

(* The node found is taken out of both chains.                             *)
Unlinked_NextOnly(m) ==
    [node[m] EXCEPT !.next = IF m = node[removed].prev THEN node[removed].next ELSE @]
Unlinked(m) ==
    [node[m] EXCEPT !.next = IF m = node[removed].prev THEN node[removed].next ELSE @,
                    !.prev = IF m = node[removed].next THEN node[removed].prev ELSE @]

SizeAfterUnlink_Kept == size
SizeAfterUnlink == size - 1

Position(n) == CHOOSE k \in DOMAIN order : order[k] = n

Unlink ==
    /\ pc = "scan" /\ temp = NULL
    /\ removed # NULL
    /\ node' = [m \in Nodes |-> IF m = removed THEN Garbage ELSE Unlinked(m)]
    /\ head' = IF node[removed].prev = NULL THEN node[removed].next ELSE head
    /\ tail' = IF node[removed].next = NULL THEN node[removed].prev ELSE tail
    /\ used' = used \ {removed}
    /\ size' = SizeAfterUnlink
    /\ result' = node[removed].data
    /\ order' = RemoveAt(order, Position(removed))
    /\ Return

(* No process has a priority above -1: NULL, as if the queue were empty.   *)
FoundNone ==
    /\ pc = "scan" /\ temp = NULL
    /\ removed = NULL
    /\ result' = NULL
    /\ Return
    /\ UNCHANGED list
-----------------------------------------------------------------------------
InRmProcess == Visit \/ Unlink \/ FoundNone

Next ==
    \/ \E e \in Processes : Add2q(e)
    \/ OutOfMemory \/ PopQ \/ ReturnNull \/ RmProcess
    \/ InRmProcess

Spec == Init /\ [][Next]_vars

(* A call that has begun goes on; nothing makes the caller call again.     *)
FairSpec == Spec /\ WF_vars(InRmProcess)
-----------------------------------------------------------------------------
(* Fields hold nodes or NULL, and qsize never leaves the number of nodes   *)
(* in memory, which is what queuetest.c's loop over size relies on.        *)
TypeOK ==
    /\ node \in [Nodes -> [data : Processes \cup {NULL}, next : Nodes \cup {NULL},
                           prev : Nodes \cup {NULL}]]
    /\ used \subseteq Nodes
    /\ head \in Nodes \cup {NULL} /\ tail \in Nodes \cup {NULL}
    /\ size \in 0..Cardinality(Nodes)
    /\ pc \in {"caller", "scan", "ended"}
    /\ temp \in Nodes \cup {NULL} /\ removed \in Nodes \cup {NULL}
    /\ highestPriority \in Int
    /\ result \in Processes \cup {NULL}
    /\ order \in Seq(Nodes)

(* The chain from head by next, and the one from tail by prev, visit the   *)
(* nodes in use once each, in opposite order, and size counts them:        *)
(* whatever mix of calls came before, a later call finds both intact.      *)
NodeOrNull(k) == IF k \in DOMAIN order THEN order[k] ELSE NULL

ListWellFormed ==
    /\ {order[k] : k \in DOMAIN order} = used
    /\ \A j, k \in DOMAIN order : order[j] = order[k] => j = k
    /\ head = NodeOrNull(1)
    /\ tail = NodeOrNull(Len(order))
    /\ size = Len(order)
    /\ \A k \in DOMAIN order : /\ node[order[k]].next = NodeOrNull(k + 1)
                               /\ node[order[k]].prev = NodeOrNull(k - 1)
                               /\ node[order[k]].data \in Processes

(* No pointer that a call may follow leads to a node that was freed.       *)
NoDangling ==
    /\ head \in used \cup {NULL} /\ tail \in used \cup {NULL}
    /\ \A n \in used : node[n].next \in used \cup {NULL} /\ node[n].prev \in used \cup {NULL}
    /\ pc = "scan" => temp \in used \cup {NULL} /\ removed \in used \cup {NULL}

(* The list implements the queue: add2q appends, popQ takes the front, and *)
(* rmProcess, however long its loop, takes in one step the process that    *)
(* has waited longest among those of the highest priority.                 *)
Contents == [k \in DOMAIN order |-> node[order[k]].data]
Queue == INSTANCE ProcessQueue WITH queue <- Contents
ImplementsQueue == Queue!Spec

(* rmProcess returns: its loop comes to the end of the list.               *)
CallReturns == pc = "scan" ~> pc = "caller"
=============================================================================
