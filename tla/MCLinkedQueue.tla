--------------------------- MODULE MCLinkedQueue ----------------------------
(* An instance of LinkedQueue for TLC: two processes of the same priority, *)
(* one above them and one that has a negative priority.                    *)
EXTENDS LinkedQueue

CONSTANTS n1, n2, n3, n4, low, mid1, mid2, high

MCNodes == {n1, n2, n3, n4}
MCProcesses == {low, mid1, mid2, high}
MCPriority == [x \in MCProcesses |-> CASE x = low -> -1 [] x = high -> 2 [] OTHER -> 0]
=============================================================================
