--------------------------- MODULE MonitorProofs ----------------------------
(***************************************************************************)
(* Theorems about Monitor, for any finite sets of producers and consumers, *)
(* any buffer size and any quota.                                          *)
(***************************************************************************)
EXTENDS Monitor, FiniteSetTheorems, SequenceTheorems, TLAPS

(* Whoever is in the critical section holds the mutex.                     *)
HoldsMutex == \A t \in Threads : pc[t] \in InCritical => mut = t

(* The condition a thread left the wait loop on still holds when it acts.  *)
ReadyToAct == \A t \in Threads : pc[t] = "act" => ~MustWait(t)

(* num is what has been put in and not yet taken out.                      *)
Accounting == num = totalProduced - totalConsumed

SafeInv == TypeOK /\ HoldsMutex /\ ReadyToAct /\ Accounting

LEMMA InitSafe == Init => SafeInv
  BY MonitorAssumption
     DEF Init, SafeInv, TypeOK, HoldsMutex, ReadyToAct, Accounting, Locations,
         InCritical, Threads, NoItem

(* One step of one thread, or of main, keeps SafeInv.                      *)
LEMMA NextSafe == SafeInv /\ [Next]_vars => SafeInv'
<1> SUFFICES ASSUME SafeInv, [Next]_vars PROVE SafeInv'
  OBVIOUS
<1> USE MonitorAssumption DEF SafeInv, TypeOK, HoldsMutex, ReadyToAct, Accounting,
        Locations, InCritical, Goto
<1>1. ASSUME NEW t \in Threads, CreateThread(t) PROVE SafeInv'
  BY <1>1 DEF CreateThread, MustWait, Full, Empty
<1>2. CASE JoinAll
  BY <1>2 DEF JoinAll, MustWait, Full, Empty
<1>3. CASE Exit
  BY <1>3 DEF Exit, MustWait, Full, Empty
<1>4. ASSUME NEW t \in Threads, SpuriousWakeup(t) PROVE SafeInv'
  BY <1>4 DEF SpuriousWakeup, MustWait, Full, Empty
<1>5. ASSUME NEW t \in Threads, Lock(t) PROVE SafeInv'
  BY <1>5 DEF Lock, MutexFree, MustWait, Full, Empty
<1>6. ASSUME NEW t \in Threads, Relock(t) PROVE SafeInv'
  BY <1>6 DEF Relock, MutexFree, AfterWait, MustWait, Full, Empty
<1>7. ASSUME NEW t \in Threads, Quit(t) PROVE SafeInv'
  BY <1>7 DEF Quit, MustWait, Full, Empty
<1>8. ASSUME NEW t \in Threads, GoOn(t) PROVE SafeInv'
  BY <1>8 DEF GoOn, MustWait, Full, Empty
<1>9. ASSUME NEW t \in Threads, CondWait(t) PROVE SafeInv'
  BY <1>9 DEF CondWait, MustWait, Full, Empty
<1>10. ASSUME NEW t \in Threads, LeaveLoop(t) PROVE SafeInv'
  BY <1>10 DEF LeaveLoop, MustWait, Full, Empty
<1>11. ASSUME NEW t \in Threads, Unlock(t) PROVE SafeInv'
  BY <1>11 DEF Unlock, MustWait, Full, Empty
<1>12. ASSUME NEW t \in Threads, Broadcast(t) PROVE SafeInv'
  BY <1>12 DEF Broadcast, Woken, MustWait, Full, Empty
<1>13. ASSUME NEW t \in Producers, Produce(t) PROVE SafeInv'
  BY <1>13 DEF Produce, Threads, Item, MustWait, Full, Empty
<1>14. ASSUME NEW t \in Consumers, Consume(t) PROVE SafeInv'
  BY <1>14 DEF Consume, Top, Threads, MustWait, Full, Empty
<1>15. CASE UNCHANGED vars
  BY <1>15 DEF vars, MustWait, Full, Empty
<1> QED
  BY <1>1, <1>2, <1>3, <1>4, <1>5, <1>6, <1>7, <1>8, <1>9, <1>10, <1>11, <1>12, <1>13,
     <1>14, <1>15 DEF Next, Step

(* TypeOK holds in every reachable state: num, and with it every index     *)
(* into buffer, stays in range, although the test of num and the store     *)
(* that relies on it are separate steps.                                   *)
THEOREM TypeCorrect == Spec => []TypeOK
<1>1. SafeInv => TypeOK
  BY DEF SafeInv
<1> QED
  BY InitSafe, NextSafe, <1>1, PTL DEF Spec

(* At most one thread is in the critical section of the monitor.           *)
THEOREM MutexCorrect == Spec => []MutualExclusion
<1>1. SafeInv => MutualExclusion
  BY MonitorAssumption DEF SafeInv, HoldsMutex, MutualExclusion
<1> QED
  BY InitSafe, NextSafe, <1>1, PTL DEF Spec
-----------------------------------------------------------------------------
(* The threads of a kind that have passed the quota test of their current  *)
(* iteration and have not yet produced or consumed.                        *)
Committed(S) == {t \in S : pc[t] \in {"test", "act", "wait", "relock"}}

(* Each committed thread may still add one to the total, and the test      *)
(* admits a thread only while the total is below the quota.                *)
QuotaInv ==
    /\ totalProduced + Cardinality(Committed(Producers)) <= Limit + Cardinality(Producers) - 1
    /\ totalConsumed + Cardinality(Committed(Consumers)) <= Limit + Cardinality(Consumers) - 1

LEMMA CommittedFinite ==
    ASSUME NEW S, IsFiniteSet(S)
    PROVE  /\ IsFiniteSet(Committed(S))
           /\ Cardinality(Committed(S)) \in 0..Cardinality(S)
           /\ Cardinality(S) \in Nat
<1>1. Committed(S) \subseteq S
  BY DEF Committed
<1> QED
  BY <1>1, FS_Subset, FS_CardinalityType

LEMMA InitQuota == Init => QuotaInv
<1> SUFFICES ASSUME Init PROVE QuotaInv
  OBVIOUS
<1>1. Committed(Producers) = {} /\ Committed(Consumers) = {}
  BY DEF Init, Committed, Threads
<1>2. Cardinality(Producers) >= 1 /\ Cardinality(Consumers) >= 1
  BY MonitorAssumption, FS_EmptySet, FS_CardinalityType, CommittedFinite
<1> QED
  BY <1>1, <1>2, MonitorAssumption, FS_EmptySet, CommittedFinite DEF Init, QuotaInv

(* A kind whose total and committed threads do not change, or of which one *)
(* thread is no longer committed, keeps its half of QuotaInv.              *)
LEMMA CommittedShrinks ==
    ASSUME NEW S, IsFiniteSet(S), Committed(S)' \subseteq Committed(S)
    PROVE  /\ Cardinality(Committed(S)') <= Cardinality(Committed(S))
           /\ Cardinality(Committed(S)') \in Nat
  BY CommittedFinite, FS_Subset, FS_CardinalityType

LEMMA CommittedLeaves ==
    ASSUME NEW S, IsFiniteSet(S), NEW t \in Committed(S),
           Committed(S)' = Committed(S) \ {t}
    PROVE  Cardinality(Committed(S)') = Cardinality(Committed(S)) - 1
  BY CommittedFinite, FS_RemoveElement

LEMMA NextQuota == SafeInv /\ QuotaInv /\ [Next]_vars => QuotaInv'
<1> SUFFICES ASSUME SafeInv, QuotaInv, [Next]_vars PROVE QuotaInv'
  OBVIOUS
<1> USE MonitorAssumption
<1> DEFINE P == Cardinality(Committed(Producers))
           C == Cardinality(Committed(Consumers))
<1>0. /\ P \in Nat /\ C \in Nat
      /\ P' \in Nat /\ C' \in Nat
      /\ P' <= Cardinality(Producers) /\ C' <= Cardinality(Consumers)
      /\ Cardinality(Producers) \in Nat /\ Cardinality(Consumers) \in Nat
      /\ totalProduced \in Nat /\ totalConsumed \in Nat
  <2>1. /\ IsFiniteSet(Committed(Producers)') /\ Committed(Producers)' \subseteq Producers
        /\ IsFiniteSet(Committed(Consumers)') /\ Committed(Consumers)' \subseteq Consumers
    BY FS_Subset DEF Committed
  <2> QED
    BY <2>1, CommittedFinite, FS_Subset, FS_CardinalityType DEF SafeInv, TypeOK
<1>1. ASSUME UNCHANGED <<totalProduced, totalConsumed>>,
             Committed(Producers)' \subseteq Committed(Producers),
             Committed(Consumers)' \subseteq Committed(Consumers)
      PROVE  QuotaInv'
  BY <1>0, <1>1, CommittedShrinks DEF QuotaInv
<1>2. ASSUME NEW t \in Threads, GoOn(t) PROVE QuotaInv'
  <2>1. UNCHANGED <<totalProduced, totalConsumed>>
    BY <1>2 DEF GoOn
  <2>2. CASE t \in Producers
    <3>1. totalProduced < Limit /\ Committed(Consumers)' = Committed(Consumers)
      BY <1>0, <1>2, <2>2 DEF GoOn, QuotaReached, Goto, Committed, SafeInv, TypeOK, Threads
    <3> QED
      BY <1>0, <2>1, <3>1 DEF QuotaInv
  <2>3. CASE t \in Consumers
    <3>1. totalConsumed < Limit /\ Committed(Producers)' = Committed(Producers)
      BY <1>0, <1>2, <2>3 DEF GoOn, QuotaReached, Goto, Committed, SafeInv, TypeOK, Threads
    <3> QED
      BY <1>0, <2>1, <3>1 DEF QuotaInv
  <2> QED
    BY <2>2, <2>3 DEF Threads
<1>3. ASSUME NEW t \in Producers, Produce(t) PROVE QuotaInv'
  <2>1. /\ Committed(Producers)' = Committed(Producers) \ {t}
        /\ t \in Committed(Producers)
        /\ Committed(Consumers)' = Committed(Consumers)
        /\ totalProduced' = totalProduced + 1
        /\ totalConsumed' = totalConsumed
    BY <1>3 DEF Produce, Goto, Committed, SafeInv, TypeOK, Threads
  <2>2. P' = P - 1 /\ C' = C
    BY <2>1, CommittedLeaves
  <2> QED
    BY <1>0, <2>1, <2>2 DEF QuotaInv
<1>4. ASSUME NEW t \in Consumers, Consume(t) PROVE QuotaInv'
  <2>1. /\ Committed(Consumers)' = Committed(Consumers) \ {t}
        /\ t \in Committed(Consumers)
        /\ Committed(Producers)' = Committed(Producers)
        /\ totalConsumed' = totalConsumed + 1
        /\ totalProduced' = totalProduced
    BY <1>4 DEF Consume, Top, Goto, Committed, SafeInv, TypeOK, Threads
  <2>2. C' = C - 1 /\ P' = P
    BY <2>1, CommittedLeaves
  <2> QED
    BY <1>0, <2>1, <2>2 DEF QuotaInv
<1>5. ASSUME \/ \E t \in Threads : \/ CreateThread(t) \/ SpuriousWakeup(t) \/ Lock(t)
                                   \/ Relock(t) \/ Quit(t) \/ CondWait(t) \/ LeaveLoop(t)
                                   \/ Unlock(t) \/ Broadcast(t)
             \/ JoinAll \/ Exit \/ UNCHANGED vars
      PROVE  QuotaInv'
  <2>1. /\ UNCHANGED <<totalProduced, totalConsumed>>
        /\ Committed(Producers)' \subseteq Committed(Producers)
        /\ Committed(Consumers)' \subseteq Committed(Consumers)
    BY <1>5 DEF SafeInv, TypeOK, Committed, Threads, Goto, CreateThread, SpuriousWakeup,
                Lock, Relock, AfterWait, Quit, CondWait, LeaveLoop, Unlock, Broadcast,
                Woken, JoinAll, Exit, vars
  <2> QED
    BY <1>1, <2>1
<1> QED
  BY <1>2, <1>3, <1>4, <1>5 DEF Next, Step

(* However the threads interleave, the totals exceed the quota by less     *)
(* than the number of threads that add to them.                            *)
THEOREM OvershootCorrect == Spec => []OvershootBound
<1>1. SafeInv /\ QuotaInv => OvershootBound
  BY MonitorAssumption, CommittedFinite DEF SafeInv, TypeOK, QuotaInv, OvershootBound
<1> QED
  BY InitSafe, NextSafe, InitQuota, NextQuota, <1>1, PTL DEF Spec
-----------------------------------------------------------------------------
(* No thread sleeps through the change it waits for: only Produce and      *)
(* Consume change num, both lead to a broadcast, and the broadcast wakes   *)
(* every thread that waits by then.                                        *)
LEMMA InitWakeup == Init => WakeupPending
  BY DEF Init, WakeupPending

LEMMA NextWakeup == SafeInv /\ WakeupPending /\ [Next]_vars => WakeupPending'
<1> SUFFICES ASSUME SafeInv, WakeupPending, [Next]_vars PROVE WakeupPending'
  OBVIOUS
<1> USE MonitorAssumption DEF WakeupPending, MustWait, Full, Empty, Goto
<1>1. pc \in [Threads -> Locations]
  BY DEF SafeInv, TypeOK
<1>2. ASSUME NEW t \in Threads,
             CreateThread(t) \/ SpuriousWakeup(t) \/ Lock(t) \/ Relock(t) \/ Quit(t)
             \/ GoOn(t) \/ CondWait(t) \/ LeaveLoop(t) \/ Unlock(t)
      PROVE  WakeupPending'
  BY <1>1, <1>2 DEF CreateThread, SpuriousWakeup, Lock, Relock, AfterWait, Quit, GoOn,
                    CondWait, LeaveLoop, Unlock
<1>3. ASSUME NEW t \in Threads, Broadcast(t) PROVE WakeupPending'
  BY <1>1, <1>3 DEF Broadcast, Woken
<1>4. ASSUME NEW t \in Producers, Produce(t) PROVE WakeupPending'
  BY <1>1, <1>4 DEF Produce, Threads
<1>5. ASSUME NEW t \in Consumers, Consume(t) PROVE WakeupPending'
  BY <1>1, <1>5 DEF Consume, Threads
<1>6. CASE JoinAll \/ Exit \/ UNCHANGED vars
  BY <1>6 DEF JoinAll, Exit, vars
<1> QED
  BY <1>2, <1>3, <1>4, <1>5, <1>6 DEF Next, Step

(* A thread that waits though it could go on is about to be woken.          *)
THEOREM WakeupCorrect == Spec => []WakeupPending
  BY InitSafe, NextSafe, InitWakeup, NextWakeup, PTL DEF Spec
-----------------------------------------------------------------------------
(* An item exists only once its producer has counted past it.              *)
Counted(x) == x \in Item /\ x[2] < made[x[1]]

ItemInv ==
    /\ NoItemTwice
    /\ \A k \in 0..num-1 : Counted(buffer[k])
    /\ \A c \in Consumers : taken[c] # NoItem => Counted(taken[c])
    /\ \A p \in Producers : made[p] <= totalProduced

LEMMA InitItem == Init => ItemInv
  BY MonitorAssumption DEF Init, ItemInv, NoItemTwice, Live

LEMMA NextItem == SafeInv /\ ItemInv /\ [Next]_vars => ItemInv'
<1> SUFFICES ASSUME SafeInv, ItemInv, [Next]_vars PROVE ItemInv'
  OBVIOUS
<1> USE MonitorAssumption DEF ItemInv, NoItemTwice, Live, Counted
<1>1. ASSUME NEW p \in Producers, Produce(p) PROVE ItemInv'
  <2> PICK x : x = <<p, made[p]>>
    OBVIOUS
  <2> DEFINE CountedNext(y) == y \in Item /\ y[2] < made'[y[1]]
  <2>1. /\ num \in 0..BufSize-1
        /\ num' = num + 1
        /\ buffer' = [buffer EXCEPT ![num] = x]
        /\ made' = [made EXCEPT ![p] = @ + 1]
        /\ totalProduced' = totalProduced + 1
        /\ UNCHANGED <<totalConsumed, taken>>
    BY <1>1 DEF Produce, SafeInv, TypeOK, ReadyToAct, MustWait, Full, Threads
  <2>2. /\ buffer'[num] = x
        /\ \A k \in 0..num-1 : buffer'[k] = buffer[k]
    BY <2>1 DEF SafeInv, TypeOK
  <2>3. \A y : Counted(y) => CountedNext(y) /\ y # x
    BY <2>1 DEF SafeInv, TypeOK, Item
  <2>4. CountedNext(x)
    BY <2>1 DEF SafeInv, TypeOK, Item
  <2>5. \A k \in 0..num'-1 : k \in 0..num-1 \/ k = num
    BY <2>1 DEF SafeInv, TypeOK
  <2>6. \A k \in 0..num'-1 : CountedNext(buffer'[k])
    <3> HIDE DEF CountedNext, Counted
    <3> QED
      BY <2>2, <2>3, <2>4, <2>5 DEF ItemInv
  <2>7. \A j, k \in 0..num'-1 : buffer'[j] = buffer'[k] => j = k
    BY <2>2, <2>3, <2>5
  <2>8. \A c \in Consumers : taken'[c] # NoItem => CountedNext(taken'[c]) /\ taken'[c] \notin Live'
    BY <2>1, <2>2, <2>3, <2>5
  <2>9. /\ num' = totalProduced' - totalConsumed'
        /\ \A q \in Producers : made'[q] <= totalProduced'
    BY <2>1 DEF SafeInv, TypeOK, Accounting
  <2>10. \A c, d \in Consumers : taken'[c] = taken'[d] /\ taken'[c] # NoItem => c = d
    BY <2>1
  <2> QED
    BY <2>6, <2>7, <2>8, <2>9, <2>10
<1>2. ASSUME NEW c \in Consumers, Consume(c) PROVE ItemInv'
  <2>1. /\ num \in 1..BufSize
        /\ num' = num - 1
        /\ taken' = [taken EXCEPT ![c] = buffer[num - 1]]
        /\ totalConsumed' = totalConsumed + 1
        /\ UNCHANGED <<buffer, made, totalProduced>>
    BY <1>2 DEF Consume, Top, SafeInv, TypeOK, ReadyToAct, MustWait, Empty, Threads
  <2>2. num - 1 \in 0..num-1 /\ \A k \in 0..num'-1 : k \in 0..num-1 /\ k # num - 1
    BY <2>1
  <2>3. Live' \subseteq Live /\ buffer[num - 1] \notin Live' /\ buffer[num - 1] \in Live
    BY <2>1, <2>2
  <2>4. /\ taken'[c] = buffer[num - 1]
        /\ \A d \in Consumers \ {c} : taken'[d] = taken[d]
    BY <2>1 DEF SafeInv, TypeOK
  <2>5. \A d, e \in Consumers : taken'[d] = taken'[e] /\ taken'[d] # NoItem => d = e
    BY <2>3, <2>4
  <2>6. \A d \in Consumers : taken'[d] # NoItem => taken'[d] \notin Live' /\ Counted(taken[d])'
    BY <2>1, <2>2, <2>3, <2>4
  <2>7. \A k \in 0..num'-1 : Counted(buffer[k])'
    BY <2>1, <2>2
  <2>8. \A j, k \in 0..num'-1 : buffer'[j] = buffer'[k] => j = k
    BY <2>1, <2>2
  <2> QED
    BY <2>1, <2>5, <2>6, <2>7, <2>8 DEF SafeInv, TypeOK
<1>3. ASSUME UNCHANGED <<buffer, num, totalProduced, totalConsumed, made, taken>>
      PROVE  ItemInv'
  BY <1>3
<1>4. ASSUME \/ \E t \in Threads : \/ CreateThread(t) \/ SpuriousWakeup(t) \/ Lock(t)
                                   \/ Relock(t) \/ Quit(t) \/ GoOn(t) \/ CondWait(t)
                                   \/ LeaveLoop(t) \/ Unlock(t) \/ Broadcast(t)
             \/ JoinAll \/ Exit \/ UNCHANGED vars
      PROVE  UNCHANGED <<buffer, num, totalProduced, totalConsumed, made, taken>>
  BY <1>4 DEF CreateThread, SpuriousWakeup, Lock, Relock, Quit, GoOn, CondWait, LeaveLoop,
              Unlock, Broadcast, JoinAll, Exit, vars
<1> QED
  BY <1>1, <1>2, <1>3, <1>4 DEF Next, Step

(* No item is overwritten before it is taken, and none is taken twice.     *)
THEOREM ItemsCorrect == Spec => []NoItemTwice
<1>1. ItemInv => NoItemTwice
  BY DEF ItemInv
<1> QED
  BY InitSafe, NextSafe, InitItem, NextItem, <1>1, PTL DEF Spec
-----------------------------------------------------------------------------
(* The stack that the live part of buffer stands for.                      *)
LiveStack == [k \in 1..num |-> buffer[k - 1]]

LEMMA LiveStackSeq ==
    ASSUME SafeInv
    PROVE  LiveStack \in Seq(Item \cup {NoItem}) /\ Len(LiveStack) = num
<1>1. num \in Nat /\ \A k \in 1..num : buffer[k - 1] \in Item \cup {NoItem}
  BY MonitorAssumption DEF SafeInv, TypeOK
<1> QED
  BY <1>1, IsASeq DEF LiveStack

LEMMA StackInit == Init => Stack!Init
<1> SUFFICES ASSUME Init PROVE Stack!Init
  OBVIOUS
<1>1. LiveStack = <<>>
  BY InitSafe, LiveStackSeq, EmptySeq DEF Init
<1> QED
  BY <1>1 DEF Init, Stack!Init, LiveStack

LEMMA StackNext ==
    SafeInv /\ SafeInv' /\ OvershootBound' /\ ItemInv /\ [Next]_vars
      => [Stack!Next]_<<LiveStack, totalProduced, totalConsumed, taken>>
<1> SUFFICES ASSUME SafeInv, SafeInv', OvershootBound', ItemInv, [Next]_vars
             PROVE  [Stack!Next]_<<LiveStack, totalProduced, totalConsumed, taken>>
  OBVIOUS
<1> USE MonitorAssumption
<1> DEFINE T == Item \cup {NoItem}
<1>0. /\ LiveStack \in Seq(T) /\ Len(LiveStack) = num
      /\ LiveStack' \in Seq(T) /\ Len(LiveStack') = num'
  <2>1. num' \in Nat /\ \A k \in 1..num' : buffer'[k - 1] \in T
    BY DEF SafeInv, TypeOK
  <2>2. LiveStack' = [k \in 1..num' |-> buffer'[k - 1]]
    BY DEF LiveStack
  <2>3. LiveStack' \in Seq(T) /\ Len(LiveStack') = num'
    <3> HIDE DEF T
    <3> QED
      BY <2>1, <2>2, IsASeq
  <2> QED
    BY <2>3, LiveStackSeq
<1>1. ASSUME NEW p \in Producers, Produce(p) PROVE Stack!Next
  <2> PICK x : x = <<p, made[p]>>
    OBVIOUS
  <2>1. /\ num \in 0..BufSize-1 /\ num' = num + 1
        /\ buffer' = [buffer EXCEPT ![num] = x]
        /\ totalProduced' = totalProduced + 1 /\ totalConsumed' = totalConsumed
        /\ totalProduced \in Nat /\ taken' = taken
    BY <1>1 DEF Produce, SafeInv, TypeOK, ReadyToAct, MustWait, Full, Threads
  <2>2. totalProduced + 1 <= Limit + Cardinality(Producers) - 1
    BY <2>1 DEF OvershootBound
  <2>3. x \in Producers \X (0..Limit + Cardinality(Producers) - 2) /\ x \in T
    <3>1. made[p] \in Nat /\ made[p] <= totalProduced /\ Cardinality(Producers) \in Nat
      BY FS_CardinalityType DEF SafeInv, TypeOK, ItemInv
    <3> QED
      BY <2>1, <2>2, <3>1 DEF Item
  <2>4. LiveStack' = Append(LiveStack, x)
    <3>1. /\ Append(LiveStack, x) \in Seq(T) /\ Len(Append(LiveStack, x)) = num + 1
          /\ \A i \in 1..num : Append(LiveStack, x)[i] = LiveStack[i]
          /\ Append(LiveStack, x)[num + 1] = x
      BY <1>0, <2>3, AppendProperties
    <3>2. /\ \A i \in 1..num : LiveStack'[i] = LiveStack[i]
          /\ LiveStack'[num + 1] = x
      BY <2>1 DEF LiveStack, SafeInv, TypeOK
    <3>3. \A i \in 1..num+1 : LiveStack'[i] = Append(LiveStack, x)[i]
      <4> TAKE i \in 1..num+1
      <4>1. i \in 1..num \/ i = num + 1
        BY <2>1
      <4> QED
        BY <3>1, <3>2, <4>1
    <3> QED
      BY <1>0, <2>1, <3>1, <3>3, SeqEqual
  <2>5. Len(LiveStack) < BufSize /\ totalProduced < Limit + Cardinality(Producers) - 1
    BY <1>0, <2>1, <2>2, FS_CardinalityType
  <2>6. Stack!Push(x)
    BY <2>1, <2>4, <2>5 DEF Stack!Push, LiveStack
  <2> QED
    BY <2>3, <2>6 DEF Stack!Next
<1>2. ASSUME NEW c \in Consumers, Consume(c) PROVE Stack!Next
  <2>1. /\ num \in 1..BufSize /\ num' = num - 1 /\ buffer' = buffer
        /\ totalConsumed' = totalConsumed + 1 /\ totalProduced' = totalProduced
        /\ totalConsumed \in Nat
        /\ taken' = [taken EXCEPT ![c] = buffer[num - 1]]
    BY <1>2 DEF Consume, Top, SafeInv, TypeOK, ReadyToAct, MustWait, Empty, Threads
  <2>2. totalConsumed + 1 <= Limit + Cardinality(Consumers) - 1
    BY <2>1 DEF OvershootBound
  <2>3. LiveStack' = SubSeq(LiveStack, 1, num - 1)
    <3>1. /\ SubSeq(LiveStack, 1, num - 1) \in Seq(T)
          /\ Len(SubSeq(LiveStack, 1, num - 1)) = num - 1
          /\ \A i \in 1..num-1 : SubSeq(LiveStack, 1, num - 1)[i] = LiveStack[i]
      BY <1>0, <2>1, SubSeqProperties
    <3>2. \A i \in 1..num-1 : LiveStack'[i] = LiveStack[i]
      BY <2>1 DEF LiveStack
    <3> QED
      BY <1>0, <2>1, <3>1, <3>2, SeqEqual
  <2>4. LiveStack # <<>>
    BY <1>0, <2>1, EmptySeq
  <2>5. /\ LiveStack' = SubSeq(LiveStack, 1, Len(LiveStack) - 1)
        /\ totalConsumed < Limit + Cardinality(Consumers) - 1
    BY <1>0, <2>1, <2>2, <2>3, FS_CardinalityType
  <2>6. LiveStack[Len(LiveStack)] = buffer[num - 1]
    BY <1>0, <2>1 DEF LiveStack
  <2>7. Stack!Pop(c)
    BY <2>1, <2>4, <2>5, <2>6 DEF Stack!Pop, LiveStack
  <2> QED
    BY <2>7 DEF Stack!Next
<1>3. ASSUME UNCHANGED <<buffer, num, totalProduced, totalConsumed, taken>>
      PROVE  UNCHANGED <<LiveStack, totalProduced, totalConsumed, taken>>
  BY <1>3 DEF LiveStack
<1>4. ASSUME \/ \E t \in Threads : \/ CreateThread(t) \/ SpuriousWakeup(t) \/ Lock(t)
                                   \/ Relock(t) \/ Quit(t) \/ GoOn(t) \/ CondWait(t)
                                   \/ LeaveLoop(t) \/ Unlock(t) \/ Broadcast(t)
             \/ JoinAll \/ Exit \/ UNCHANGED vars
      PROVE  UNCHANGED <<buffer, num, totalProduced, totalConsumed, taken>>
  BY <1>4 DEF CreateThread, SpuriousWakeup, Lock, Relock, Quit, GoOn, CondWait, LeaveLoop,
              Unlock, Broadcast, JoinAll, Exit, vars
<1> QED
  BY <1>1, <1>2, <1>3, <1>4 DEF Next, Step

(* Monitor implements BoundedStack: seen through the live part of buffer,  *)
(* every critical section is one push, one pop, or nothing at all.         *)
THEOREM MonitorImplementsStack == Spec => ImplementsStack
<1>1. SafeInv /\ QuotaInv => OvershootBound
  BY MonitorAssumption, CommittedFinite DEF SafeInv, TypeOK, QuotaInv, OvershootBound
<1>2. [Stack!Next]_<<LiveStack, totalProduced, totalConsumed, taken>>
        => [Stack!Next]_<<[k \in 1..num |-> buffer[k - 1]], totalProduced, totalConsumed, taken>>
  BY DEF LiveStack
<1> QED
  BY InitSafe, NextSafe, InitQuota, NextQuota, InitItem, NextItem, StackInit, StackNext,
     <1>1, <1>2, PTL DEF Spec, ImplementsStack, Stack!Spec
=============================================================================
