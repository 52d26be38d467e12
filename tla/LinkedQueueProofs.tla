------------------------- MODULE LinkedQueueProofs --------------------------
(***************************************************************************)
(* Theorems about LinkedQueue, for any number of nodes and of processes    *)
(* and any priorities.                                                     *)
(***************************************************************************)
EXTENDS LinkedQueue, FiniteSetTheorems, SequenceTheorems, TLAPS

(* What RemoveAt leaves: the elements before i in place, those after it    *)
(* one place further to the front.                                         *)
LEMMA RemoveAtProperties ==
  ASSUME NEW S, NEW s \in Seq(S), NEW i \in 1..Len(s)
  PROVE  /\ RemoveAt(s, i) \in Seq(S)
         /\ Len(RemoveAt(s, i)) = Len(s) - 1
         /\ \A k \in 1..Len(s)-1 : RemoveAt(s, i)[k] = IF k < i THEN s[k] ELSE s[k+1]
<1> DEFINE a == SubSeq(s, 1, i-1)
           b == SubSeq(s, i+1, Len(s))
<1>1. /\ a \in Seq(S) /\ Len(a) = i - 1
      /\ \A k \in 1..i-1 : a[k] = s[k]
  BY SubSeqProperties
<1>2. /\ b \in Seq(S) /\ Len(b) = Len(s) - i
      /\ \A k \in 1..Len(s)-i : b[k] = s[i + k]
  <2>1. CASE i < Len(s)
    BY <2>1, SubSeqProperties
  <2>2. CASE i = Len(s)
    BY <2>2
  <2> QED BY <2>1, <2>2
<1>3. /\ a \o b \in Seq(S) /\ Len(a \o b) = Len(s) - 1
      /\ \A k \in 1..Len(s)-1 : (a \o b)[k] = IF k < i THEN a[k] ELSE b[k - (i-1)]
  <2> HIDE DEF a, b
  <2>1. /\ a \o b \in Seq(S) /\ Len(a \o b) = Len(a) + Len(b)
        /\ \A k \in 1..Len(a)+Len(b) : (a \o b)[k] = IF k <= Len(a) THEN a[k]
                                                   ELSE b[k - Len(a)]
    BY <1>1, <1>2, ConcatProperties
  <2>2. \A k \in Nat : k <= i-1 <=> k < i
    OBVIOUS
  <2> QED BY <1>1, <1>2, <2>1, <2>2
<1>4. \A k \in 1..Len(s)-1 : (a \o b)[k] = IF k < i THEN s[k] ELSE s[k+1]
  <2> HIDE DEF a, b
  <2> SUFFICES ASSUME NEW k \in 1..Len(s)-1
               PROVE (a \o b)[k] = IF k < i THEN s[k] ELSE s[k+1]
    OBVIOUS
  <2>1. CASE k < i
    BY <1>1, <1>3, <2>1
  <2>2. CASE ~(k < i)
    <3>1. k - (i-1) \in 1..Len(s)-i /\ i + (k - (i-1)) = k + 1
      BY <2>2
    <3> QED BY <1>2, <1>3, <2>2, <3>1
  <2> QED BY <2>1, <2>2
<1> QED BY <1>3, <1>4 DEF RemoveAt
-----------------------------------------------------------------------------
(* TypeOK but for the upper bound of size, which follows from Counted.     *)
TypeInv ==
    /\ node \in [Nodes -> [data : Processes \cup {NULL}, next : Nodes \cup {NULL},
                           prev : Nodes \cup {NULL}]]
    /\ used \subseteq Nodes
    /\ head \in Nodes \cup {NULL} /\ tail \in Nodes \cup {NULL}
    /\ size \in Nat
    /\ pc \in {"caller", "scan", "ended"}
    /\ temp \in Nodes \cup {NULL} /\ removed \in Nodes \cup {NULL}
    /\ highestPriority \in Int
    /\ result \in Processes \cup {NULL}
    /\ order \in Seq(Nodes)

Counted == Cardinality(used) = size

(* What the loop of rmProcess knows when it is about to visit the k-th     *)
(* node: the best of those before it, the first of them in case of a tie.  *)
P(j) == Priority[node[order[j]].data]

BestBefore(k) ==
    \/ /\ removed = NULL
       /\ highestPriority = -1
       /\ \A j \in 1..k-1 : P(j) < 0
    \/ \E r \in 1..k-1 : /\ removed = order[r]
                         /\ highestPriority = P(r)
                         /\ P(r) >= 0
                         /\ \A j \in 1..k-1 : P(j) <= P(r)
                         /\ \A j \in 1..r-1 : P(j) < P(r)

ScanInv ==
    pc = "scan" => /\ Len(order) > 0
                   /\ \E k \in 1..Len(order)+1 : temp = NodeOrNull(k) /\ BestBefore(k)

IInv == TypeInv /\ ListWellFormed /\ Counted /\ ScanInv

LEMMA InitInv == Init => IInv
  BY QueueAssumption, FS_EmptySet
     DEF Init, IInv, TypeInv, ListWellFormed, Counted, ScanInv, NodeOrNull, Garbage, Node

(* The head is the first of the order, and no node comes twice.            *)
LEMMA HeadIsFirst ==
  ASSUME IInv, head # NULL
  PROVE  Len(order) \in Nat \ {0} /\ head = order[1] /\ head \in used
  BY QueueAssumption DEF IInv, TypeInv, ListWellFormed, NodeOrNull

LEMMA EmptyOrder ==
  ASSUME IInv
  PROVE  head = NULL <=> Len(order) = 0
  BY QueueAssumption DEF IInv, TypeInv, ListWellFormed, NodeOrNull
-----------------------------------------------------------------------------
LEMMA AddInv ==
  ASSUME IInv, NEW e \in Processes, Add2q(e)
  PROVE  IInv'
<1> USE QueueAssumption DEF IInv
<1>1. PICK n \in Nodes \ used :
        /\ node' = [m \in Nodes |-> IF m = n THEN NewNode(e)
                                    ELSE IF m = tail THEN [node[m] EXCEPT !.next = n]
                                    ELSE node[m]]
        /\ used' = used \cup {n}
        /\ head' = (IF tail = NULL THEN n ELSE head)
        /\ tail' = n
        /\ order' = Append(order, n)
  BY DEF Add2q
<1>2. /\ size' = size + 1 /\ pc = "caller"
      /\ UNCHANGED <<pc, temp, removed, highestPriority, result>>
  BY DEF Add2q, scan
<1>3. /\ order' \in Seq(Nodes) /\ Len(order') = Len(order) + 1
      /\ order'[Len(order) + 1] = n
      /\ \A k \in 1..Len(order) : order'[k] = order[k]
      /\ DOMAIN order' = 1..Len(order)+1 /\ DOMAIN order = 1..Len(order)
      /\ Len(order) \in Nat
  BY <1>1, AppendProperties DEF TypeInv
<1>4. \A k \in 1..Len(order) : order[k] \in used /\ order[k] # n
  BY <1>1, <1>3 DEF ListWellFormed
<1>5. TypeInv'
  <2>1. node' \in [Nodes -> [data : Processes \cup {NULL}, next : Nodes \cup {NULL},
                             prev : Nodes \cup {NULL}]]
    BY <1>1 DEF TypeInv, NewNode, Node
  <2>2. /\ used' \subseteq Nodes /\ size' \in Nat
        /\ head' \in Nodes \cup {NULL} /\ tail' \in Nodes \cup {NULL}
    BY <1>1, <1>2 DEF TypeInv
  <2> QED BY <1>2, <1>3, <2>1, <2>2 DEF TypeInv
<1>6. ListWellFormed'
  <2>1. {order'[k] : k \in DOMAIN order'} = used'
    BY <1>1, <1>3 DEF ListWellFormed
  <2>2. \A j, k \in DOMAIN order' : order'[j] = order'[k] => j = k
    BY <1>3, <1>4 DEF ListWellFormed
  <2>3. head' = NodeOrNull(1)' /\ tail' = NodeOrNull(Len(order))'
    BY <1>1, <1>3 DEF ListWellFormed, NodeOrNull, TypeInv
  <2>4. size' = Len(order')
    BY <1>2, <1>3 DEF ListWellFormed
  <2>5. ASSUME NEW k \in DOMAIN order'
        PROVE  /\ node'[order'[k]].next = NodeOrNull(k + 1)'
               /\ node'[order'[k]].prev = NodeOrNull(k - 1)'
               /\ node'[order'[k]].data \in Processes
    <3>1. CASE k = Len(order) + 1
      BY <1>1, <1>3, <3>1 DEF ListWellFormed, NodeOrNull, NewNode, Node, TypeInv
    <3>2. CASE k = Len(order)
      BY <1>1, <1>3, <1>4, <3>2 DEF ListWellFormed, NodeOrNull, NewNode, Node, TypeInv
    <3>3. CASE k < Len(order)
      <4>1. order[k] # tail
        BY <1>3, <3>3 DEF ListWellFormed, NodeOrNull
      <4>2. node'[order'[k]] = node[order[k]]
        BY <1>1, <1>3, <1>4, <3>3, <4>1 DEF TypeInv
      <4> QED BY <1>3, <3>3, <4>2 DEF ListWellFormed, NodeOrNull
    <3> QED BY <1>3, <3>1, <3>2, <3>3
  <2> QED BY <2>1, <2>2, <2>3, <2>4, <2>5 DEF ListWellFormed
<1>7. Counted'
  BY <1>1, <1>2, FS_AddElement, FS_Subset DEF Counted, TypeInv
<1>8. ScanInv'
  BY <1>2 DEF ScanInv
<1> QED BY <1>5, <1>6, <1>7, <1>8

LEMMA PopInv ==
  ASSUME IInv, PopQ
  PROVE  IInv'
<1> USE QueueAssumption DEF IInv
<1>1. /\ Len(order) \in Nat \ {0} /\ head = order[1] /\ head \in used
      /\ DOMAIN order = 1..Len(order) /\ order # <<>>
  BY HeadIsFirst DEF PopQ, TypeInv
<1>2. /\ order' \in Seq(Nodes) /\ Len(order') = Len(order) - 1
      /\ \A k \in 1..Len(order)-1 : order'[k] = order[k+1]
      /\ DOMAIN order' = 1..Len(order)-1
  BY <1>1, HeadTailProperties DEF PopQ, TypeInv
<1>3. node[head].next = NodeOrNull(2)
  BY <1>1 DEF ListWellFormed
<1>4. TypeInv'
  <2>1. node' \in [Nodes -> [data : Processes \cup {NULL}, next : Nodes \cup {NULL},
                             prev : Nodes \cup {NULL}]]
    BY DEF PopQ, TypeInv, Garbage, Node
  <2>2. size' \in Nat
    BY <1>1 DEF PopQ, ListWellFormed
  <2> QED BY <1>1, <1>2, <2>1, <2>2 DEF PopQ, TypeInv, TailAfterPop, scan
<1>5. \A k \in 2..Len(order) : order[k] # head /\ order[k] \in used
  BY <1>1 DEF ListWellFormed
<1>6. ListWellFormed'
  <2>1. {order'[k] : k \in DOMAIN order'} = used'
    <3>1. ASSUME NEW n \in used, n # head
          PROVE  \E k \in DOMAIN order' : order'[k] = n
      <4>1. PICK k \in DOMAIN order : order[k] = n
        BY DEF ListWellFormed
      <4>2. k - 1 \in DOMAIN order' /\ order'[k - 1] = n
        BY <1>1, <1>2, <3>1, <4>1
      <4> QED BY <4>2
    <3>2. \A k \in DOMAIN order' : order'[k] \in used /\ order'[k] # head
      BY <1>2, <1>5
    <3> QED BY <3>1, <3>2 DEF PopQ
  <2>2. ASSUME NEW j \in DOMAIN order', NEW k \in DOMAIN order', order'[j] = order'[k]
        PROVE  j = k
    <3>1. /\ j \in 1..Len(order)-1 /\ k \in 1..Len(order)-1
          /\ j+1 \in DOMAIN order /\ k+1 \in DOMAIN order /\ order[j+1] = order[k+1]
      BY <1>1, <1>2, <2>2
    <3>2. j + 1 = k + 1
      BY <3>1 DEF ListWellFormed
    <3> QED BY <3>1, <3>2
  <2>3. head' = NodeOrNull(1)'
    BY <1>1, <1>2, <1>3 DEF PopQ, NodeOrNull
  <2>4. tail' = NodeOrNull(Len(order))'
    <3>1. CASE Len(order) = 1
      BY <1>1, <1>2, <1>3, <3>1 DEF PopQ, NodeOrNull, TailAfterPop
    <3>2. CASE Len(order) > 1
      BY <1>1, <1>2, <1>3, <3>2 DEF PopQ, NodeOrNull, TailAfterPop, ListWellFormed, TypeInv
    <3> QED BY <1>1, <3>1, <3>2
  <2>5. size' = Len(order')
    BY <1>1, <1>2 DEF PopQ, ListWellFormed
  <2>6. ASSUME NEW k \in DOMAIN order'
        PROVE  /\ node'[order'[k]].next = NodeOrNull(k + 1)'
               /\ node'[order'[k]].prev = NodeOrNull(k - 1)'
               /\ node'[order'[k]].data \in Processes
    <3>1. /\ k \in 1..Len(order)-1
          /\ order'[k] = order[k + 1] /\ k + 1 \in 2..Len(order)
          /\ order[k + 1] # head /\ order[k + 1] \in Nodes
      BY <1>1, <1>2, <1>5 DEF TypeInv
    <3>2. /\ node[order[k+1]].next = NodeOrNull(k + 2)
          /\ node[order[k+1]].prev = NodeOrNull(k)
          /\ node[order[k+1]].data \in Processes
      <4>1. k + 1 \in DOMAIN order /\ (k + 1) + 1 = k + 2 /\ (k + 1) - 1 = k
        BY <1>1, <3>1
      <4> QED BY <4>1 DEF ListWellFormed
    <3>3. CASE k = 1
      <4>1. order[k + 1] = node[head].next
        BY <1>1, <1>3, <3>1, <3>3 DEF NodeOrNull
      <4>2. node'[order'[k]] = [node[order[k+1]] EXCEPT !.prev = NULL]
        BY <3>1, <4>1 DEF PopQ
      <4>3. /\ node'[order'[k]].next = NodeOrNull(k + 2)
            /\ node'[order'[k]].prev = NULL
            /\ node'[order'[k]].data \in Processes
        BY <3>1, <3>2, <4>2 DEF TypeInv
      <4> QED BY <1>1, <1>2, <3>1, <3>3, <4>3 DEF NodeOrNull
    <3>4. CASE k > 1
      <4>1. order[k + 1] # node[head].next
        <5>1. 2 \in DOMAIN order /\ k + 1 \in DOMAIN order /\ k + 1 # 2
          BY <1>1, <3>1, <3>4
        <5>2. order[k + 1] # order[2]
          BY <5>1 DEF ListWellFormed
        <5> QED BY <1>3, <5>1, <5>2 DEF NodeOrNull
      <4>2. node'[order'[k]] = node[order[k+1]]
        BY <3>1, <4>1 DEF PopQ
      <4> QED BY <1>1, <1>2, <3>1, <3>2, <3>4, <4>2 DEF NodeOrNull
    <3> QED BY <1>2, <3>3, <3>4
  <2> QED BY <2>1, <2>2, <2>3, <2>4, <2>5, <2>6 DEF ListWellFormed
<1>7. Counted'
  BY <1>1, FS_RemoveElement, FS_Subset DEF Counted, TypeInv, PopQ
<1>8. ScanInv'
  BY DEF ScanInv, PopQ
<1> QED BY <1>4, <1>6, <1>7, <1>8
-----------------------------------------------------------------------------
(* At the end of its loop rmProcess has seen every node.                   *)
LEMMA LoopEnd ==
  ASSUME IInv, pc = "scan", temp = NULL
  PROVE  BestBefore(Len(order) + 1)
<1>1. PICK k \in 1..Len(order)+1 : temp = NodeOrNull(k) /\ BestBefore(k)
  BY DEF IInv, ScanInv
<1>2. k = Len(order) + 1
  BY <1>1, QueueAssumption DEF NodeOrNull, IInv, TypeInv
<1> QED BY <1>1, <1>2

LEMMA FoundFirstHighest ==
  ASSUME IInv, pc = "scan", temp = NULL, removed # NULL
  PROVE  \E r \in 1..Len(order) : /\ removed = order[r]
                                  /\ Position(removed) = r
                                  /\ P(r) >= 0
                                  /\ \A j \in 1..Len(order) : P(j) <= P(r)
                                  /\ \A j \in 1..r-1 : P(j) < P(r)
<1>1. /\ BestBefore(Len(order) + 1) /\ Len(order) \in Nat
      /\ DOMAIN order = 1..Len(order) /\ (Len(order) + 1) - 1 = Len(order)
  BY LoopEnd DEF IInv, TypeInv
<1>2. PICK r \in 1..Len(order) : /\ removed = order[r]
                                 /\ P(r) >= 0
                                 /\ \A j \in 1..Len(order) : P(j) <= P(r)
                                 /\ \A j \in 1..r-1 : P(j) < P(r)
  BY <1>1 DEF BestBefore
<1>3. Position(removed) = r
  BY <1>1, <1>2 DEF Position, IInv, ListWellFormed
<1> QED BY <1>2, <1>3

LEMMA UnlinkInv ==
  ASSUME IInv, Unlink
  PROVE  IInv'
<1> USE QueueAssumption DEF IInv
<1>1. PICK r \in 1..Len(order) : removed = order[r] /\ Position(removed) = r
  BY FoundFirstHighest DEF Unlink
<1>2. /\ Len(order) \in Nat \ {0} /\ DOMAIN order = 1..Len(order) /\ removed \in used
      /\ removed \in Nodes
      /\ \A k \in 1..Len(order) : order[k] \in Nodes /\ order[k] \in used
  BY <1>1 DEF TypeInv, ListWellFormed
<1>3. /\ order' \in Seq(Nodes) /\ Len(order') = Len(order) - 1
      /\ \A k \in 1..Len(order)-1 : order'[k] = IF k < r THEN order[k] ELSE order[k+1]
      /\ DOMAIN order' = 1..Len(order)-1
  <2>1. order' = RemoveAt(order, r) /\ order \in Seq(Nodes)
    BY <1>1 DEF Unlink, TypeInv
  <2>2. /\ order' \in Seq(Nodes) /\ Len(order') = Len(order) - 1
        /\ \A k \in 1..Len(order)-1 : order'[k] = IF k < r THEN order[k] ELSE order[k+1]
    BY <2>1, RemoveAtProperties
  <2> QED BY <1>2, <2>2
<1>4. /\ node[removed].next = NodeOrNull(r + 1)
      /\ node[removed].prev = NodeOrNull(r - 1)
      /\ node[removed].data \in Processes
  BY <1>1, <1>2 DEF ListWellFormed
<1>5. \A k \in 0..Len(order) : NodeOrNull(k)' = IF k < r THEN NodeOrNull(k) ELSE NodeOrNull(k + 1)
  <2> SUFFICES ASSUME NEW k \in 0..Len(order)
               PROVE NodeOrNull(k)' = IF k < r THEN NodeOrNull(k) ELSE NodeOrNull(k + 1)
    OBVIOUS
  <2>1. CASE k < r
    BY <1>2, <1>3, <2>1 DEF NodeOrNull
  <2>2. CASE ~(k < r)
    BY <1>2, <1>3, <2>2 DEF NodeOrNull
  <2> QED BY <2>1, <2>2
<1>6. TypeInv'
  <2>1. node' \in [Nodes -> [data : Processes \cup {NULL}, next : Nodes \cup {NULL},
                             prev : Nodes \cup {NULL}]]
    <3> DEFINE T == [data : Processes \cup {NULL}, next : Nodes \cup {NULL},
                     prev : Nodes \cup {NULL}]
    <3>1. Garbage \in T
      BY DEF Garbage, Node
    <3>2. ASSUME NEW m \in Nodes PROVE Unlinked(m) \in T
      <4>1. node[m] \in T /\ node[removed] \in T
        BY <1>2 DEF TypeInv
      <4> QED BY <4>1 DEF Unlinked
    <3> HIDE DEF T
    <3>3. node' \in [Nodes -> T]
      BY <3>1, <3>2 DEF Unlink
    <3> QED BY <3>3 DEF T
  <2>2. size' \in Nat
    BY <1>2 DEF Unlink, ListWellFormed, SizeAfterUnlink
  <2>3. /\ head' \in Nodes \cup {NULL} /\ tail' \in Nodes \cup {NULL}
        /\ result' \in Processes \cup {NULL}
    BY <1>2 DEF Unlink, TypeInv
  <2>4. /\ used' \subseteq Nodes /\ pc' = "caller" /\ temp' = NULL /\ removed' = NULL
        /\ highestPriority' = -1
    BY DEF Unlink, TypeInv, Return
  <2> QED BY <1>3, <2>1, <2>2, <2>3, <2>4 DEF TypeInv
<1>7. ASSUME NEW i \in 1..Len(order), NEW j \in 1..Len(order), order[i] = order[j]
      PROVE  i = j
  BY <1>2, <1>7 DEF ListWellFormed
<1>8. ListWellFormed'
  <2>1. {order'[k] : k \in DOMAIN order'} = used'
    <3>1. ASSUME NEW n \in used, n # removed
          PROVE  \E k \in DOMAIN order' : order'[k] = n
      <4>1. PICK k \in 1..Len(order) : order[k] = n
        BY <1>2 DEF ListWellFormed
      <4>2. CASE k < r
        <5>1. k \in DOMAIN order' /\ order'[k] = n
          BY <1>3, <4>1, <4>2
        <5> QED BY <5>1
      <4>3. CASE k > r
        <5>1. k - 1 \in DOMAIN order' /\ order'[k - 1] = n
          BY <1>3, <4>1, <4>3
        <5> QED BY <5>1
      <4> QED BY <1>1, <3>1, <4>1, <4>2, <4>3
    <3>2. ASSUME NEW k \in DOMAIN order'
          PROVE  order'[k] \in used /\ order'[k] # removed
      <4>1. CASE k < r
        <5>1. k \in 1..Len(order) /\ order'[k] = order[k] /\ k # r
          BY <1>3, <4>1
        <5> QED BY <1>1, <1>2, <1>7, <5>1
      <4>2. CASE ~(k < r)
        <5>1. k + 1 \in 1..Len(order) /\ order'[k] = order[k + 1] /\ k + 1 # r
          BY <1>3, <4>2
        <5> QED BY <1>1, <1>2, <1>7, <5>1
      <4> QED BY <4>1, <4>2
    <3>3. used' = used \ {removed}
      BY DEF Unlink
    <3> QED BY <3>1, <3>2, <3>3
  <2>2. ASSUME NEW j \in DOMAIN order', NEW k \in DOMAIN order', order'[j] = order'[k]
        PROVE  j = k
    <3> DEFINE at(x) == IF x < r THEN x ELSE x + 1
    <3>1. /\ at(j) \in 1..Len(order) /\ at(k) \in 1..Len(order)
          /\ order[at(j)] = order'[j] /\ order[at(k)] = order'[k]
      BY <1>3
    <3>2. at(j) = at(k)
      BY <1>7, <2>2, <3>1
    <3> QED BY <1>3, <3>2
  <2>3. head' = NodeOrNull(1)'
    <3>1. node[removed].prev = NULL <=> r = 1
      BY <1>1, <1>2, <1>4 DEF NodeOrNull
    <3>2. CASE r = 1
      BY <1>1, <1>2, <1>4, <1>5, <3>1, <3>2 DEF Unlink
    <3>3. CASE r > 1
      BY <1>1, <1>2, <1>5, <3>1, <3>3 DEF Unlink, ListWellFormed
    <3> QED BY <1>1, <3>2, <3>3
  <2>4. tail' = NodeOrNull(Len(order))'
    <3>1. node[removed].next = NULL <=> r = Len(order)
      BY <1>1, <1>2, <1>4 DEF NodeOrNull
    <3>2. CASE r = Len(order)
      <4>1. tail' = NodeOrNull(r - 1)
        BY <1>4, <3>1, <3>2 DEF Unlink
      <4>2. NodeOrNull(r - 1)' = NodeOrNull(r - 1)
        BY <1>5
      <4>3. NodeOrNull(Len(order))' = NodeOrNull(r - 1)'
        BY <1>2, <1>3, <3>2 DEF NodeOrNull
      <4> QED BY <4>1, <4>2, <4>3
    <3>3. CASE r < Len(order)
      <4>1. tail' = NodeOrNull(Len(order))
        BY <3>1, <3>3, <1>2 DEF Unlink, ListWellFormed
      <4>2. PICK l \in Nat : l = Len(order) - 1
        <5>1. Len(order) - 1 \in Nat
          BY <1>2
        <5> QED BY <5>1, Zenon
      <4>3. l \in 0..Len(order) /\ ~(l < r) /\ l + 1 = Len(order) /\ l = Len(order')
        BY <1>2, <1>3, <3>3, <4>2
      <4>4. NodeOrNull(l)' = NodeOrNull(Len(order))
        BY <1>5, <4>3
      <4>5. NodeOrNull(Len(order))' = NodeOrNull(l)'
        BY <4>3 DEF NodeOrNull
      <4> QED BY <4>1, <4>4, <4>5
    <3> QED BY <1>1, <3>2, <3>3
  <2>5. size' = Len(order')
    BY <1>2, <1>3 DEF Unlink, ListWellFormed, SizeAfterUnlink
  <2>6. ASSUME NEW k \in DOMAIN order'
        PROVE  /\ node'[order'[k]].next = NodeOrNull(k + 1)'
               /\ node'[order'[k]].prev = NodeOrNull(k - 1)'
               /\ node'[order'[k]].data \in Processes
    <3> DEFINE i == IF k < r THEN k ELSE k + 1
    <3>1. /\ i \in 1..Len(order) /\ i # r /\ order'[k] = order[i] /\ order[i] # removed
          /\ k \in 1..Len(order)-1
      BY <1>1, <1>3, <1>7
    <3>2. /\ node[order[i]].next = NodeOrNull(i + 1)
          /\ node[order[i]].prev = NodeOrNull(i - 1)
          /\ node[order[i]].data \in Processes
      BY <1>2, <3>1 DEF ListWellFormed
    <3>3. node'[order[i]] = Unlinked(order[i])
      BY <1>2, <3>1 DEF Unlink
    <3>4. /\ node'[order[i]].next = IF order[i] = NodeOrNull(r - 1) THEN NodeOrNull(r + 1)
                                    ELSE NodeOrNull(i + 1)
          /\ node'[order[i]].prev = IF order[i] = NodeOrNull(r + 1) THEN NodeOrNull(r - 1)
                                    ELSE NodeOrNull(i - 1)
          /\ node'[order[i]].data \in Processes
      BY <1>2, <1>4, <3>1, <3>2, <3>3 DEF Unlinked, TypeInv
    <3>5. order[i] = NodeOrNull(r - 1) <=> i = r - 1
      BY <1>1, <1>2, <1>7, <3>1 DEF NodeOrNull
    <3>6. order[i] = NodeOrNull(r + 1) <=> i = r + 1
      BY <1>1, <1>2, <1>7, <3>1 DEF NodeOrNull
    <3>7. node'[order[i]].next = NodeOrNull(k + 1)'
      <4>1. NodeOrNull(k + 1)' = IF k + 1 < r THEN NodeOrNull(k + 1) ELSE NodeOrNull(k + 2)
        BY <1>5, <3>1
      <4>2. i = r - 1 <=> k = r - 1
        BY <3>1
      <4> QED BY <3>1, <3>4, <3>5, <4>1, <4>2
    <3>8. node'[order[i]].prev = NodeOrNull(k - 1)'
      <4>1. NodeOrNull(k - 1)' = IF k - 1 < r THEN NodeOrNull(k - 1) ELSE NodeOrNull(k)
        BY <1>5, <3>1
      <4>2. i = r + 1 <=> k = r
        BY <3>1
      <4> QED BY <3>1, <3>4, <3>6, <4>1, <4>2
    <3> QED BY <3>1, <3>4, <3>7, <3>8
  <2> QED BY <2>1, <2>2, <2>3, <2>4, <2>5, <2>6 DEF ListWellFormed
<1>9. Counted'
  BY <1>2, FS_RemoveElement, FS_Subset DEF Counted, TypeInv, Unlink, SizeAfterUnlink
<1>10. ScanInv'
  BY DEF ScanInv, Unlink, Return
<1> QED BY <1>6, <1>8, <1>9, <1>10

(* A visit moves on by one and keeps the better of two.                    *)
LEMMA VisitInv ==
  ASSUME IInv, Visit
  PROVE  IInv'
<1> USE QueueAssumption DEF IInv
<1>1. PICK k \in 1..Len(order)+1 : temp = NodeOrNull(k) /\ BestBefore(k)
  BY DEF Visit, After, ScanInv
<1>2. /\ k \in 1..Len(order) /\ temp = order[k] /\ temp \in Nodes
      /\ Len(order) \in Nat /\ DOMAIN order = 1..Len(order)
  BY <1>1 DEF Visit, After, NodeOrNull, TypeInv
<1>3. /\ temp' = NodeOrNull(k + 1) /\ P(k) = Priority[node[temp].data]
      /\ node[temp].data \in Processes /\ P(k) \in Int
      /\ \A j \in 1..Len(order) : P(j) \in Int
  BY <1>2 DEF Visit, After, ListWellFormed, P
<1>4. UNCHANGED list /\ pc' = pc /\ pc = "scan" /\ result' = result
  BY DEF Visit, After
<1>5. TypeInv'
  BY <1>2, <1>3, <1>4 DEF Visit, After, TypeInv, list, NodeOrNull
<1>6. ListWellFormed' /\ Counted'
  BY <1>4 DEF ListWellFormed, Counted, list, NodeOrNull
<1>7. \A j : P(j)' = P(j)
  BY <1>4 DEF P, list
<1>8. BestBefore(k + 1)'
  <2> USE DEF BestBefore
  <2>1. (k + 1) - 1 = k /\ 1..k = (1..k-1) \cup {k}
    BY <1>2
  <2>2. CASE Higher(P(k), highestPriority)
    <3>1. removed' = temp /\ highestPriority' = P(k)
      BY <1>3, <2>2 DEF Visit, After
    <3>2. P(k) > highestPriority /\ highestPriority >= -1
      BY <1>1, <1>2, <1>3, <2>2 DEF Higher, TypeInv
    <3>3. \A j \in 1..k-1 : P(j) < P(k)
      BY <1>1, <1>2, <1>3, <3>2 DEF TypeInv
    <3>4. P(k) >= 0 /\ \A j \in 1..k : P(j) <= P(k)
      <4>1. P(k) >= 0
        BY <1>3, <3>2 DEF TypeInv
      <4>2. ASSUME NEW j \in 1..k PROVE P(j) <= P(k)
        <5>1. CASE j = k
          BY <1>3, <5>1
        <5>2. CASE j # k
          <6>1. j \in 1..k-1 /\ j \in 1..Len(order)
            BY <1>2, <5>2
          <6> QED BY <1>3, <3>3, <6>1
        <5> QED BY <5>1, <5>2
      <4> QED BY <4>1, <4>2
    <3> QED BY <1>2, <1>4, <1>7, <2>1, <3>1, <3>3, <3>4 DEF list
  <2>3. CASE ~Higher(P(k), highestPriority)
    <3>1. removed' = removed /\ highestPriority' = highestPriority
      BY <1>3, <2>3 DEF Visit, After
    <3>2. P(k) <= highestPriority
      BY <1>3, <2>3 DEF Higher, TypeInv
    <3>3. CASE removed = NULL /\ highestPriority = -1 /\ \A j \in 1..k-1 : P(j) < 0
      BY <1>2, <1>3, <1>7, <2>1, <3>1, <3>2, <3>3
    <3>4. ASSUME NEW r \in 1..k-1, removed = order[r], highestPriority = P(r), P(r) >= 0,
                 \A j \in 1..k-1 : P(j) <= P(r), \A j \in 1..r-1 : P(j) < P(r)
          PROVE  BestBefore(k + 1)'
      <4>1. r \in 1..k /\ \A j \in 1..k : P(j) <= P(r)
        BY <1>2, <2>1, <3>2, <3>4
      <4> QED BY <1>4, <1>7, <2>1, <3>1, <3>4, <4>1 DEF list
    <3> QED BY <1>1, <3>3, <3>4
  <2> QED BY <2>2, <2>3
<1>9. ScanInv'
  <2>1. k + 1 \in 1..Len(order)+1 /\ Len(order) > 0 /\ order' = order
    BY <1>2, <1>4 DEF list
  <2>2. temp' = NodeOrNull(k + 1)'
    BY <1>3, <2>1 DEF NodeOrNull
  <2> QED BY <1>8, <2>1, <2>2 DEF ScanInv
<1> QED BY <1>5, <1>6, <1>9

LEMMA NextInv == IInv /\ [Next]_vars => IInv'
<1> SUFFICES ASSUME IInv, [Next]_vars PROVE IInv'
  OBVIOUS
<1> USE QueueAssumption
<1>1. ASSUME NEW e \in Processes, Add2q(e) PROVE IInv'
  BY <1>1, AddInv
<1>2. CASE OutOfMemory
  BY <1>2 DEF OutOfMemory, IInv, TypeInv, ListWellFormed, Counted, ScanInv, NodeOrNull, list, scan
<1>3. CASE PopQ
  BY <1>3, PopInv
<1>4. CASE ReturnNull
  BY <1>4 DEF ReturnNull, IInv, TypeInv, ListWellFormed, Counted, ScanInv, NodeOrNull, list, scan
<1>5. CASE RmProcess
  <2>1. Len(order) \in Nat \ {0} /\ head = order[1] /\ head \in Nodes
    BY <1>5, HeadIsFirst DEF RmProcess, IInv, TypeInv
  <2>2. TypeInv' /\ ListWellFormed' /\ Counted' /\ order' = order
    BY <1>5, <2>1 DEF RmProcess, IInv, TypeInv, ListWellFormed, Counted, NodeOrNull, list
  <2>3. temp' = NodeOrNull(1)' /\ BestBefore(1)'
    BY <1>5, <2>1 DEF RmProcess, BestBefore, NodeOrNull, list, IInv, TypeInv
  <2>4. 1 \in 1..Len(order)+1
    BY <2>1
  <2> QED BY <2>1, <2>2, <2>3, <2>4 DEF ScanInv, IInv
<1>6. CASE Visit
  BY <1>6, VisitInv
<1>7. CASE Unlink
  BY <1>7, UnlinkInv
<1>8. CASE FoundNone
  BY <1>8 DEF FoundNone, Return, IInv, TypeInv, ListWellFormed, Counted, ScanInv, NodeOrNull, list
<1>9. CASE UNCHANGED vars
  BY <1>9 DEF vars, IInv, TypeInv, ListWellFormed, Counted, ScanInv, BestBefore, P, NodeOrNull,
              list, scan
<1> QED
  BY <1>1, <1>2, <1>3, <1>4, <1>5, <1>6, <1>7, <1>8, <1>9 DEF Next, InRmProcess

LEMMA Invariance == Spec => []IInv
  BY InitInv, NextInv, PTL DEF Spec
-----------------------------------------------------------------------------
(* Types, and that size counts at most the nodes in memory.                *)
THEOREM QueueTypeCorrect == Spec => []TypeOK
<1>1. IInv => TypeOK
  BY QueueAssumption, FS_Subset, FS_CardinalityType DEF IInv, TypeInv, TypeOK, Counted
<1> QED BY <1>1, Invariance, PTL

(* Both chains are intact before and after every call, whatever calls came *)
(* before.                                                                 *)
THEOREM ListCorrect == Spec => []ListWellFormed
<1>1. IInv => ListWellFormed
  BY DEF IInv
<1> QED BY <1>1, Invariance, PTL

(* No call follows a pointer to a node that was freed.                     *)
THEOREM NoDanglingCorrect == Spec => []NoDangling
<1>1. ASSUME IInv PROVE NoDangling
  <2>1. /\ Len(order) \in Nat /\ DOMAIN order = 1..Len(order)
        /\ \A k \in Int : NodeOrNull(k) \in used \cup {NULL}
    BY <1>1 DEF IInv, TypeInv, ListWellFormed, NodeOrNull
  <2>2. ASSUME NEW n \in used
        PROVE  node[n].next \in used \cup {NULL} /\ node[n].prev \in used \cup {NULL}
    <3>1. PICK k \in DOMAIN order : order[k] = n
      BY <1>1 DEF IInv, ListWellFormed
    <3>2. node[n].next = NodeOrNull(k + 1) /\ node[n].prev = NodeOrNull(k - 1)
      BY <1>1, <3>1 DEF IInv, ListWellFormed
    <3> QED BY <2>1, <3>1, <3>2
  <2>3. head \in used \cup {NULL} /\ tail \in used \cup {NULL}
    BY <1>1, <2>1 DEF IInv, ListWellFormed
  <2>4. ASSUME pc = "scan" PROVE temp \in used \cup {NULL} /\ removed \in used \cup {NULL}
    <3>1. PICK k \in 1..Len(order)+1 : temp = NodeOrNull(k) /\ BestBefore(k)
      BY <1>1, <2>4 DEF IInv, ScanInv
    <3>2. ASSUME NEW r \in 1..k-1, removed = order[r] PROVE removed \in used
      BY <1>1, <2>1, <3>2 DEF IInv, ListWellFormed
    <3> QED BY <2>1, <3>1, <3>2 DEF BestBefore
  <2> QED BY <2>2, <2>3, <2>4 DEF NoDangling
<1> QED BY <1>1, Invariance, PTL
-----------------------------------------------------------------------------
(* The refinement: every step of the list is a step of the queue, or one   *)
(* that the queue does not see.                                            *)
ContentsFacts ==
    /\ Contents \in Seq(Processes) /\ Len(Contents) = Len(order)
    /\ DOMAIN order = 1..Len(order) /\ Len(order) \in Nat
    /\ \A k \in 1..Len(order) : Contents[k] = node[order[k]].data
    /\ \A k \in 1..Len(order) : Priority[Contents[k]] = P(k) /\ P(k) \in Int

LEMMA ContentsSeq == IInv => ContentsFacts
<1> SUFFICES ASSUME IInv PROVE ContentsFacts
  OBVIOUS
<1>1. DOMAIN order = 1..Len(order) /\ Len(order) \in Nat
  BY DEF IInv, TypeInv
<1>2. Contents \in [1..Len(order) -> Processes]
  BY <1>1 DEF Contents, IInv, ListWellFormed
<1>3. Contents \in Seq(Processes) /\ Len(Contents) = Len(order)
  BY <1>1, <1>2
<1>4. \A k \in 1..Len(order) : Contents[k] = node[order[k]].data
  BY <1>1 DEF Contents
<1>5. \A k \in 1..Len(order) : Priority[Contents[k]] = P(k) /\ P(k) \in Int
  BY <1>2, <1>4, QueueAssumption DEF P
<1> QED BY <1>1, <1>3, <1>4, <1>5 DEF ContentsFacts

LEMMA ContentsSeqNext == IInv' => ContentsFacts'
  BY ContentsSeq, PTL

LEMMA AddRefines ==
  ASSUME IInv, IInv', NEW e \in Processes, Add2q(e)
  PROVE  Queue!Add(e)
<1> USE QueueAssumption
<1>1. PICK n \in Nodes \ used :
        /\ node' = [m \in Nodes |-> IF m = n THEN NewNode(e)
                                    ELSE IF m = tail THEN [node[m] EXCEPT !.next = n]
                                    ELSE node[m]]
        /\ order' = Append(order, n)
  BY DEF Add2q
<1>2. /\ Len(order') = Len(order) + 1 /\ order'[Len(order) + 1] = n
      /\ \A k \in 1..Len(order) : order'[k] = order[k] /\ order[k] \in used
                                  /\ order[k] # n /\ order[k] \in Nodes
  BY <1>1, AppendProperties DEF IInv, TypeInv, ListWellFormed
<1>3. /\ Contents \in Seq(Processes) /\ Contents' \in Seq(Processes)
      /\ Len(Contents) = Len(order) /\ Len(Contents') = Len(order) + 1 /\ Len(order) \in Nat
      /\ \A k \in 1..Len(order) : Contents[k] = node[order[k]].data
      /\ \A k \in 1..Len(order)+1 : Contents'[k] = node'[order'[k]].data
  BY <1>2, ContentsSeq, ContentsSeqNext DEF ContentsFacts
<1>4. /\ Append(Contents, e) \in Seq(Processes)
      /\ Len(Append(Contents, e)) = Len(order) + 1
      /\ \A k \in 1..Len(order) : Append(Contents, e)[k] = Contents[k]
      /\ Append(Contents, e)[Len(order) + 1] = e
  BY <1>3, AppendProperties
<1>5. \A k \in 1..Len(order)+1 : Contents'[k] = Append(Contents, e)[k]
  <2>1. Contents'[Len(order)+1] = e
    <3>1. Len(order) + 1 \in 1..Len(order)+1
      BY <1>3
    <3>2. Contents'[Len(order)+1] = node'[n].data
      BY <1>2, <1>3, <3>1
    <3>3. node'[n] = NewNode(e)
      BY <1>1
    <3> QED BY <3>2, <3>3 DEF NewNode, Node
  <2>2. ASSUME NEW k \in 1..Len(order)
        PROVE  Contents'[k] = node[order[k]].data
    <3>1. Contents'[k] = node'[order[k]].data
      BY <1>2, <1>3
    <3>2. node'[order[k]].data = node[order[k]].data
      BY <1>1, <1>2 DEF IInv, TypeInv
    <3> QED BY <3>1, <3>2
  <2> QED BY <1>3, <1>4, <2>1, <2>2
<1>6. Contents' = Append(Contents, e)
  BY <1>3, <1>4, <1>5, SeqEqual
<1> QED BY <1>6 DEF Queue!Add, Add2q

LEMMA PopRefines ==
  ASSUME IInv, IInv', PopQ
  PROVE  Queue!TakeFront
<1>1. /\ Len(order) \in Nat \ {0} /\ head = order[1] /\ head \in used /\ order # <<>>
      /\ order \in Seq(Nodes)
  BY HeadIsFirst DEF PopQ, IInv, TypeInv
<1>2. /\ Len(order') = Len(order) - 1
      /\ \A k \in 1..Len(order)-1 : order'[k] = order[k+1]
  BY <1>1, HeadTailProperties DEF PopQ
<1>3. /\ Contents \in Seq(Processes) /\ Contents' \in Seq(Processes)
      /\ Len(Contents) = Len(order) /\ Len(Contents') = Len(order) - 1
      /\ DOMAIN order = 1..Len(order)
      /\ \A k \in 1..Len(order) : Contents[k] = node[order[k]].data
      /\ \A k \in 1..Len(order)-1 : Contents'[k] = node'[order'[k]].data
  BY <1>2, ContentsSeq, ContentsSeqNext DEF ContentsFacts
<1>4. /\ Contents # <<>> /\ Head(Contents) = Contents[1]
      /\ Tail(Contents) \in Seq(Processes) /\ Len(Tail(Contents)) = Len(order) - 1
      /\ \A k \in 1..Len(order)-1 : Tail(Contents)[k] = Contents[k+1]
  <2>1. Contents # <<>>
    BY <1>1, <1>3
  <2>2. /\ Tail(Contents) \in Seq(Processes) /\ Len(Tail(Contents)) = Len(Contents) - 1
        /\ \A k \in 1..Len(Tail(Contents)) : Tail(Contents)[k] = Contents[k+1]
    BY <1>3, <2>1, HeadTailProperties
  <2> QED BY <1>3, <2>1, <2>2
<1>5. ASSUME NEW k \in 1..Len(order)-1 PROVE Contents'[k] = Tail(Contents)[k]
  <2>1. k + 1 \in 1..Len(order) /\ 1 \in 1..Len(order) /\ k + 1 # 1
    BY <1>1
  <2>2. order[k+1] # head /\ order[k+1] \in Nodes
    BY <1>1, <1>3, <2>1 DEF IInv, ListWellFormed, TypeInv
  <2>3. node'[order[k+1]].data = node[order[k+1]].data
    BY <2>2 DEF PopQ, IInv, TypeInv
  <2> QED BY <1>2, <1>3, <1>4, <2>1, <2>3
<1>6. Contents' = Tail(Contents)
  BY <1>1, <1>3, <1>4, <1>5, SeqEqual
<1>7. result' = Head(Contents)
  <2>1. 1 \in 1..Len(order)
    BY <1>1
  <2>2. Contents[1] = node[head].data
    BY <1>1, <1>3, <2>1
  <2>3. result' = node[head].data
    BY DEF PopQ
  <2> QED BY <1>4, <2>2, <2>3
<1> QED BY <1>4, <1>6, <1>7 DEF Queue!TakeFront

LEMMA UnlinkRefines ==
  ASSUME IInv, IInv', Unlink
  PROVE  Queue!TakeByPriority
<1>1. PICK r \in 1..Len(order) : /\ removed = order[r]
                                 /\ Position(removed) = r
                                 /\ P(r) >= 0
                                 /\ \A j \in 1..Len(order) : P(j) <= P(r)
                                 /\ \A j \in 1..r-1 : P(j) < P(r)
  BY FoundFirstHighest DEF Unlink
<1>2. /\ order' = RemoveAt(order, r) /\ order \in Seq(Nodes) /\ Len(order) \in Nat
      /\ Len(order') = Len(order) - 1
      /\ \A k \in 1..Len(order)-1 : order'[k] = IF k < r THEN order[k] ELSE order[k+1]
  <2>1. order' = RemoveAt(order, r) /\ order \in Seq(Nodes)
    BY <1>1 DEF Unlink, IInv, TypeInv
  <2>2. Len(order) \in Nat
    BY <2>1
  <2>3. /\ Len(order') = Len(order) - 1
        /\ \A k \in 1..Len(order)-1 : order'[k] = IF k < r THEN order[k] ELSE order[k+1]
    BY <2>1, RemoveAtProperties
  <2> QED BY <2>1, <2>2, <2>3
<1>3. /\ Contents \in Seq(Processes) /\ Contents' \in Seq(Processes)
      /\ Len(Contents) = Len(order) /\ Len(Contents') = Len(order) - 1
      /\ DOMAIN order = 1..Len(order) /\ DOMAIN Contents = 1..Len(order)
      /\ \A k \in 1..Len(order) : Contents[k] = node[order[k]].data
      /\ \A k \in 1..Len(order) : Priority[Contents[k]] = P(k)
      /\ \A k \in 1..Len(order)-1 : Contents'[k] = node'[order'[k]].data
  BY <1>2, ContentsSeq, ContentsSeqNext DEF ContentsFacts
<1>4. /\ RemoveAt(Contents, r) \in Seq(Processes)
      /\ Len(RemoveAt(Contents, r)) = Len(order) - 1
      /\ \A k \in 1..Len(order)-1 :
            RemoveAt(Contents, r)[k] = IF k < r THEN Contents[k] ELSE Contents[k+1]
  <2>1. r \in 1..Len(Contents)
    BY <1>1, <1>3
  <2>2. /\ RemoveAt(Contents, r) \in Seq(Processes)
        /\ Len(RemoveAt(Contents, r)) = Len(Contents) - 1
        /\ \A k \in 1..Len(Contents)-1 :
              RemoveAt(Contents, r)[k] = IF k < r THEN Contents[k] ELSE Contents[k+1]
    BY <1>3, <2>1, RemoveAtProperties
  <2> QED BY <1>3, <2>2
<1>5. ASSUME NEW k \in 1..Len(order)-1 PROVE Contents'[k] = RemoveAt(Contents, r)[k]
  <2> DEFINE i == IF k < r THEN k ELSE k + 1
  <2>1. i \in 1..Len(order) /\ i # r /\ order'[k] = order[i]
    BY <1>1, <1>2
  <2>2. order[i] # removed /\ order[i] \in Nodes
    <3> HIDE DEF i
    <3>1. i \in DOMAIN order /\ r \in DOMAIN order /\ order[i] \in Nodes
      BY <1>1, <1>2, <1>3, <2>1
    <3>2. order[i] = order[r] => i = r
      BY <3>1 DEF IInv, ListWellFormed
    <3> QED BY <1>1, <2>1, <3>1, <3>2
  <2>3. node'[order[i]].data = node[order[i]].data
    <3> HIDE DEF i
    <3>1. \A m \in Nodes : m # removed => node'[m] = Unlinked(m)
      BY DEF Unlink
    <3>2. \A m \in Nodes : Unlinked(m).data = node[m].data
      <4>1. node \in [Nodes -> [data : Processes \cup {NULL}, next : Nodes \cup {NULL},
                                prev : Nodes \cup {NULL}]]
        BY DEF IInv, TypeInv
      <4> QED BY <4>1 DEF Unlinked
    <3> QED BY <2>2, <3>1, <3>2
  <2>4. Contents'[k] = Contents[i]
    <3> HIDE DEF i
    <3> QED BY <1>3, <2>1, <2>3
  <2> QED BY <1>4, <2>1, <2>4
<1>6. Contents' = RemoveAt(Contents, r)
  BY <1>2, <1>3, <1>4, <1>5, SeqEqual
<1>7. r \in DOMAIN Contents /\ result' = Contents[r]
  <2>1. result' = node[removed].data
    BY DEF Unlink
  <2> QED BY <1>1, <1>3, <2>1
<1>8. Queue!TakesTurn(r)
  BY <1>1, <1>3 DEF Queue!TakesTurn
<1>9. \E k \in DOMAIN Contents : /\ Queue!TakesTurn(k)
                                  /\ result' = Contents[k]
                                  /\ Contents' = RemoveAt(Contents, k)
  BY <1>6, <1>7, <1>8
<1> QED BY <1>9 DEF Queue!TakeByPriority, Queue!RemoveAt, RemoveAt

LEMMA NothingRefines ==
  ASSUME IInv, ReturnNull \/ FoundNone
  PROVE  Queue!FindNothing
<1>1. Contents' = Contents /\ result' = NULL
  BY DEF ReturnNull, FoundNone, Contents, list
<1>2. \A k \in DOMAIN Contents : Priority[Contents[k]] < 0
  <2>1. /\ DOMAIN Contents = 1..Len(order)
        /\ \A k \in 1..Len(order) : Priority[Contents[k]] = P(k)
    BY ContentsSeq DEF ContentsFacts
  <2>2. CASE ReturnNull
    BY <2>1, <2>2, EmptyOrder DEF ReturnNull
  <2>3. CASE FoundNone
    <3>1. BestBefore(Len(order) + 1) /\ removed = NULL /\ Len(order) \in Nat
      BY <2>3, LoopEnd DEF FoundNone, IInv, TypeInv
    <3>2. \A r \in 1..Len(order) : order[r] # NULL
      BY QueueAssumption DEF IInv, TypeInv
    <3> QED BY <2>1, <3>1, <3>2 DEF BestBefore
  <2> QED BY <2>2, <2>3
<1> QED BY <1>1, <1>2 DEF Queue!FindNothing

(* The list of nodes implements the queue of processes.                    *)
THEOREM ListImplementsQueue == Spec => ImplementsQueue
<1>1. Init => Queue!Init
  <2> SUFFICES ASSUME Init PROVE Contents = <<>> /\ result = NULL
    BY DEF Queue!Init
  <2>1. IInv
    BY InitInv
  <2>2. Contents \in Seq(Processes) /\ Len(Contents) = 0
    BY <2>1, ContentsSeq DEF ContentsFacts, Init
  <2> QED BY <2>2 DEF Init
<1>2. IInv /\ IInv' /\ [Next]_vars => [Queue!Next]_<<Contents, result>>
  <2> SUFFICES ASSUME IInv, IInv', [Next]_vars
               PROVE  Queue!Next \/ UNCHANGED <<Contents, result>>
    OBVIOUS
  <2>1. ASSUME NEW e \in Processes, Add2q(e) PROVE Queue!Next
    BY <2>1, AddRefines DEF Queue!Next
  <2>2. CASE PopQ
    BY <2>2, PopRefines DEF Queue!Next
  <2>3. CASE Unlink
    BY <2>3, UnlinkRefines DEF Queue!Next
  <2>4. CASE ReturnNull \/ FoundNone
    BY <2>4, NothingRefines DEF Queue!Next
  <2>5. CASE OutOfMemory \/ RmProcess \/ Visit \/ UNCHANGED vars
    BY <2>5 DEF OutOfMemory, RmProcess, Visit, vars, list, Contents
  <2> QED BY <2>1, <2>2, <2>3, <2>4, <2>5 DEF Next, InRmProcess
<1> QED BY <1>1, <1>2, Invariance, PTL DEF Spec, ImplementsQueue, Queue!Spec
=============================================================================
