------------------------------ MODULE Monitor -------------------------------
(***************************************************************************)
(* Synchronization_with_Monitors/pqueuepmain.c: producer and consumer      *)
(* threads share a bounded buffer under one mutex and one condition        *)
(* variable, and stop once 30 items have passed through it.                *)
(*                                                                         *)
(* A step of the model is what a thread does between two points at which   *)
(* another thread can notice: acquiring the mutex, the quota test, the     *)
(* test of the wait loop with what follows it, releasing the mutex, the    *)
(* broadcast (made after the release), and a wake-up from the wait.        *)
(* sleep() only delays a thread, so it is part of being about to lock.     *)
(***************************************************************************)
EXTENDS Integers, FiniteSets

CONSTANTS Producers, Consumers,
          BufSize,     \* BUF_SIZE, 15 in the code
          Limit,       \* the 30 of lines 65 and 102
          NoThread,    \* "the mutex is free"
          CallsFail    \* may pthread_create, _cond_wait, _cond_broadcast fail?

Threads == Producers \cup Consumers

ASSUME MonitorAssumption ==
    /\ IsFiniteSet(Producers) /\ Producers # {}
    /\ IsFiniteSet(Consumers) /\ Consumers # {}
    /\ Producers \cap Consumers = {}
    /\ NoThread \notin Threads
    /\ BufSize \in Nat \ {0}
    /\ Limit \in Nat \ {0}
    /\ CallsFail \in BOOLEAN

VARIABLES buffer, num, totalProduced, totalConsumed,
          mut,         \* the thread that holds the mutex, or NoThread
          pc,          \* where each thread is
          made,        \* producer's i: how many items it has produced
          taken,       \* consumer's i: the item it consumed last
          main         \* the main thread

vars == <<buffer, num, totalProduced, totalConsumed, mut, pc, made, taken, main>>

(* The code stores the producer's counter alone; the producer's name is    *)
(* added here to tell the items apart.                                     *)
Item == Producers \X Nat
NoItem == <<>>

InCritical == {"quota", "test", "act", "unlock"}
Locations == {"new", "lock", "wait", "relock", "broadcast", "done"} \cup InCritical
-----------------------------------------------------------------------------
Init == /\ buffer = [k \in 0..BufSize-1 |-> NoItem]
        /\ num = 0
        /\ totalProduced = 0
        /\ totalConsumed = 0
        /\ mut = NoThread
        /\ pc = [t \in Threads |-> "new"]
        /\ made = [p \in Producers |-> 0]
        /\ taken = [c \in Consumers |-> NoItem]
        /\ main = "create"

Goto(t, l) == pc' = [pc EXCEPT ![t] = l]

(* main: creates the producers, then the consumers, then joins them all.   *)
CreateThread(t) ==
    /\ main = "create"
    /\ pc[t] = "new"
    /\ t \in Consumers => \A p \in Producers : pc[p] # "new"
    /\ Goto(t, "lock")
    /\ main' = IF \A u \in Threads \ {t} : pc[u] # "new" THEN "join" ELSE "create"
    /\ UNCHANGED <<buffer, num, totalProduced, totalConsumed, mut, made, taken>>

JoinAll ==
    /\ main = "join"
    /\ \A t \in Threads : pc[t] = "done"
    /\ main' = "returned"
    /\ UNCHANGED <<buffer, num, totalProduced, totalConsumed, mut, pc, made, taken>>

-----------------------------------------------------------------------------
(* pthread_mutex_lock, at the head of the loop and, on a wake-up, inside   *)
(* pthread_cond_wait, which then evaluates the loop condition again.       *)
MutexFree_Always == TRUE
MutexFree == mut = NoThread

Lock(t) ==
    /\ pc[t] = "lock"
    /\ MutexFree
    /\ mut' = t
    /\ Goto(t, "quota")
    /\ UNCHANGED <<buffer, num, totalProduced, totalConsumed, made, taken, main>>

AfterWait_If(t) == IF t \in Producers THEN "act" ELSE "test"
AfterWait(t) == "test"

Relock(t) ==
    /\ pc[t] = "relock"
    /\ MutexFree
    /\ mut' = t
    /\ Goto(t, AfterWait(t))
    /\ UNCHANGED <<buffer, num, totalProduced, totalConsumed, made, taken, main>>

(* The quota is tested once per iteration, before the wait loop; past it,  *)
(* a consumer that finds num negative exits the program (line 108).        *)
QuotaReached_Strict(t) == IF t \in Producers THEN totalProduced > Limit ELSE totalConsumed > Limit
QuotaReached(t) == IF t \in Producers THEN totalProduced >= Limit ELSE totalConsumed >= Limit

Quit(t) ==
    /\ pc[t] = "quota"
    /\ QuotaReached(t)
    /\ mut' = NoThread
    /\ Goto(t, "done")
    /\ UNCHANGED <<buffer, num, totalProduced, totalConsumed, made, taken, main>>

GoOn(t) ==
    /\ pc[t] = "quota"
    /\ ~QuotaReached(t)
    /\ main' = IF t \in Consumers /\ num < 0 THEN "exited" ELSE main
    /\ Goto(t, "test")
    /\ UNCHANGED <<buffer, num, totalProduced, totalConsumed, mut, made, taken>>

(* pthread_cond_wait releases the mutex and blocks, in one step.           *)
Full_OffByOne == num > BufSize
Full == num = BufSize
Empty == num = 0
MustWait(t) == IF t \in Producers THEN Full ELSE Empty

CondWait(t) ==
    /\ pc[t] = "test"
    /\ MustWait(t)
    /\ mut' = NoThread
    /\ Goto(t, "wait")
    /\ UNCHANGED <<buffer, num, totalProduced, totalConsumed, made, taken, main>>

LeaveLoop(t) ==
    /\ pc[t] = "test"
    /\ ~MustWait(t)
    /\ Goto(t, "act")
    /\ UNCHANGED <<buffer, num, totalProduced, totalConsumed, mut, made, taken, main>>

Produce(p) ==
    /\ pc[p] = "act"
    /\ buffer' = [buffer EXCEPT ![num] = <<p, made[p]>>]
    /\ num' = num + 1
    /\ totalProduced' = totalProduced + 1
    /\ made' = [made EXCEPT ![p] = @ + 1]
    /\ Goto(p, "unlock")
    /\ UNCHANGED <<totalConsumed, mut, taken, main>>

Top_Oldest == 0
Top == num - 1

Consume(c) ==
    /\ pc[c] = "act"
    /\ num' = num - 1
    /\ taken' = [taken EXCEPT ![c] = buffer[Top]]
    /\ totalConsumed' = totalConsumed + 1
    /\ Goto(c, "unlock")
    /\ UNCHANGED <<buffer, totalProduced, mut, made, main>>

Unlock(t) ==
    /\ pc[t] = "unlock"
    /\ mut' = NoThread
    /\ Goto(t, "broadcast")
    /\ UNCHANGED <<buffer, num, totalProduced, totalConsumed, made, taken, main>>

(* pthread_cond_broadcast, after the mutex has been released.              *)
Woken_Nobody == {}
Woken == {t \in Threads : pc[t] = "wait"}

Broadcast(t) ==
    /\ pc[t] = "broadcast"
    /\ pc' = [u \in Threads |-> IF u = t THEN "lock"
                                ELSE IF u \in Woken THEN "relock" ELSE pc[u]]
    /\ UNCHANGED <<buffer, num, totalProduced, totalConsumed, mut, made, taken, main>>

(* pthread_cond_wait may also return without any broadcast.                *)
SpuriousWakeup(t) ==
    /\ pc[t] = "wait"
    /\ Goto(t, "relock")
    /\ UNCHANGED <<buffer, num, totalProduced, totalConsumed, mut, made, taken, main>>
-----------------------------------------------------------------------------
(* exit() after a failing call; the consumer's other exit is in GoOn.      *)
Exit ==
    /\ CallsFail
    /\ \/ main = "create"
       \/ \E t \in Threads : pc[t] = "test" /\ MustWait(t)
       \/ \E t \in Threads : pc[t] = "broadcast"
    /\ main' = "exited"
    /\ UNCHANGED <<buffer, num, totalProduced, totalConsumed, mut, pc, made, taken>>

Running == main \in {"create", "join"}

Step(t) ==
    \/ Lock(t) \/ Relock(t) \/ Quit(t) \/ GoOn(t) \/ CondWait(t) \/ LeaveLoop(t)
    \/ Unlock(t) \/ Broadcast(t)
    \/ t \in Producers /\ Produce(t)
    \/ t \in Consumers /\ Consume(t)

Next == Running /\ ( \/ \E t \in Threads : CreateThread(t) \/ Step(t) \/ SpuriousWakeup(t)
                     \/ JoinAll
                     \/ Exit )

Spec == Init /\ [][Next]_vars

(* A thread that can run does, and a thread that wants the mutex gets it   *)
(* in the end: whoever holds it lets go within a few steps and then sleeps *)
(* for seconds.  Nothing makes a spurious wake-up or a failing call happen.*)
FairSpec ==
    /\ Spec
    /\ WF_vars(Running /\ \E t \in Threads : CreateThread(t))
    /\ WF_vars(Running /\ JoinAll)
    /\ \A t \in Threads : /\ SF_vars(Running /\ (Lock(t) \/ Relock(t)))
                          /\ WF_vars(Running /\ Step(t))
-----------------------------------------------------------------------------
(* Every variable keeps to its range; in particular num stays within the   *)
(* bounds of buffer at every store and load (lines 78 and 118).            *)
TypeOK ==
    /\ buffer \in [0..BufSize-1 -> Item \cup {NoItem}]
    /\ num \in 0..BufSize
    /\ totalProduced \in Nat
    /\ totalConsumed \in Nat
    /\ mut \in Threads \cup {NoThread}
    /\ pc \in [Threads -> Locations]
    /\ made \in [Producers -> Nat]
    /\ taken \in [Consumers -> Item \cup {NoItem}]
    /\ main \in {"create", "join", "returned", "exited"}

(* No two threads are between lock and unlock, or between a return from    *)
(* pthread_cond_wait and unlock, at the same time.                         *)
MutualExclusion ==
    \A t, u \in Threads : pc[t] \in InCritical /\ pc[u] \in InCritical => t = u

(* An item sits in one slot only, and once a consumer has taken it neither *)
(* the buffer nor another consumer has it: the wait loops and the mutex    *)
(* together keep an item from being overwritten, lost or handed out twice. *)
Live == {buffer[k] : k \in 0..num-1}

NoItemTwice ==
    /\ \A j, k \in 0..num-1 : buffer[j] = buffer[k] => j = k
    /\ \A c \in Consumers : taken[c] # NoItem => taken[c] \notin Live
    /\ \A c, d \in Consumers : taken[c] = taken[d] /\ taken[c] # NoItem => c = d
    /\ num = totalProduced - totalConsumed

(* The quota is tested before the wait loop and never again, so a thread   *)
(* that waited may exceed it; by how much is bounded by the number of      *)
(* threads that can be past the test at once.                              *)
OvershootBound ==
    /\ totalProduced <= Limit + Cardinality(Producers) - 1
    /\ totalConsumed <= Limit + Cardinality(Consumers) - 1

(* The broadcast comes after the unlock, when others may have entered: it  *)
(* is not too late.  While a thread waits though it could go on, a thread  *)
(* is on its way to a broadcast that will wake it.                         *)
WakeupPending ==
    \A t \in Threads : pc[t] = "wait" /\ ~MustWait(t)
        => \E u \in Threads : pc[u] \in {"unlock", "broadcast"}

(* What the threads use the monitor for: the live part of buffer is a      *)
(* bounded stack, each critical section one push or one pop of it.         *)
Stack == INSTANCE BoundedStack
           WITH Item <- Producers \X (0..Limit + Cardinality(Producers) - 2),
                Capacity <- BufSize,
                PushQuota <- Limit + Cardinality(Producers) - 1,
                PopQuota <- Limit + Cardinality(Consumers) - 1,
                stack <- [k \in 1..num |-> buffer[k - 1]],
                pushed <- totalProduced,
                popped <- totalConsumed,
                Takers <- Consumers,
                out <- taken
ImplementsStack == Stack!Spec

(* The work gets done, unless a failing call ends the program: all the     *)
(* items of the quota are consumed, every producer returns and at least    *)
(* one consumer does.                                                      *)
WorkCompletes ==
    <>(\/ main = "exited"
       \/ /\ totalConsumed >= Limit
          /\ \A p \in Producers : pc[p] = "done"
          /\ \E c \in Consumers : pc[c] = "done")

(* "All threads completed. We have done. Program exiting." (line 54): main *)
(* gets past its four pthread_join calls.                                  *)
ProgramExits == <>(main = "returned")
=============================================================================
