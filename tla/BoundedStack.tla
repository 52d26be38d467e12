---------------------------- MODULE BoundedStack ----------------------------
(***************************************************************************)
(* What the monitor of pqueuepmain.c promises to the threads that use it:  *)
(* a bounded last-in first-out store.  Whoever takes an item out gets the  *)
(* one put in last, the store never holds more than Capacity items, and no *)
(* more than the quotas are ever put in or taken out.  Nothing is said of  *)
(* threads, locks or condition variables.                                  *)
(***************************************************************************)
EXTENDS Naturals, Sequences

CONSTANTS Item,       \* what may be stored
          NoItem,     \* what somebody has who has taken out nothing yet
          Takers,     \* those who take items out
          Capacity,   \* most items held at a time
          PushQuota,  \* most items ever put in
          PopQuota    \* most items ever taken out

VARIABLES stack,      \* the items held, the next to leave last
          pushed,     \* items put in so far
          popped,     \* items taken out so far
          out         \* what each taker took out last

Init == /\ stack = <<>>
        /\ pushed = 0
        /\ popped = 0
        /\ out = [c \in Takers |-> NoItem]

Push(x) == /\ Len(stack) < Capacity
           /\ pushed < PushQuota
           /\ stack' = Append(stack, x)
           /\ pushed' = pushed + 1
           /\ UNCHANGED <<popped, out>>

Pop(c) == /\ stack # <<>>
          /\ popped < PopQuota
          /\ out' = [out EXCEPT ![c] = stack[Len(stack)]]
          /\ stack' = SubSeq(stack, 1, Len(stack) - 1)
          /\ popped' = popped + 1
          /\ UNCHANGED pushed

Next == (\E c \in Takers : Pop(c)) \/ (\E x \in Item : Push(x))

Spec == Init /\ [][Next]_<<stack, pushed, popped, out>>
=============================================================================
