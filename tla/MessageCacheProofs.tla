------------------------- MODULE MessageCacheProofs -------------------------
(***************************************************************************)
(* Theorems about MessageCache, for any number of slots, messages and      *)
(* lookups and any contents of uninitialised memory.                       *)
(***************************************************************************)
EXTENDS MessageCache, WellFoundedInduction, TLAPS

LEMMA LeastNat ==
    ASSUME NEW T, T \subseteq Nat, T # {}
    PROVE  \E n \in T : \A k \in T : n <= k
<1> DEFINE R == {ss \in Nat \X Nat : ss[1] < ss[2]}
<1>1. IsWellFoundedOn(R, Nat)
  BY NatLessThanWellFounded DEF OpToRel
<1>2. PICK n \in T : \A k \in T : ~(<<k, n>> \in R)
  <2> HIDE DEF R
  <2> QED
    BY <1>1, WFMin
<1>3. ASSUME NEW k \in T PROVE n <= k
  <2>1. k \in Nat /\ n \in Nat /\ ~(<<k, n>> \in R)
    BY <1>2
  <2>2. ~(k < n)
    BY <2>1
  <2> QED
    BY <2>1, <2>2
<1> QED
  BY <1>3

(* No time is below IntMin, so the slots have a least access time.         *)
TimesBounded ==
    /\ time_counter >= IntMin
    /\ \A s \in Slots : entries[s].access_time >= IntMin

(* What the loop of find_replacement_index_LRU computes.                   *)
IsLRU(k) ==
    /\ k \in Slots
    /\ \A t \in Slots : /\ entries[k].access_time <= entries[t].access_time
                        /\ t < k => entries[k].access_time < entries[t].access_time

LEMMA LRUIndex ==
    ASSUME TypeOK, TimesBounded
    PROVE  IsLRU(find_replacement_index_LRU)
<1> DEFINE time == [s \in Slots |-> entries[s].access_time - IntMin]
           T == {time[s] : s \in Slots}
<1>1. \A s \in Slots : /\ time[s] \in Nat /\ entries[s].access_time \in Int
                       /\ entries[s].access_time = time[s] + IntMin
  <2> TAKE s \in Slots
  <2>1. entries[s].access_time \in Int
    BY DEF TypeOK, Entry
  <2> QED
    BY <2>1, CacheAssumption DEF TimesBounded
<1>2. Slots \subseteq Nat /\ 0 \in Slots
  BY CacheAssumption DEF Slots
<1> HIDE DEF time
<1>3. PICK least \in T : \A x \in T : least <= x
  <2>1. T \subseteq Nat /\ T # {}
    BY <1>1, <1>2
  <2> QED
    BY <2>1, LeastNat
<1> DEFINE S == {s \in Slots : time[s] = least}
<1>4. PICK k \in S : \A s \in S : k <= s
  <2>1. S \subseteq Nat /\ S # {}
    BY <1>2
  <2> QED
    BY <2>1, LeastNat
<1>5. IsLRU(k)
  <2>1. ASSUME NEW t \in Slots
        PROVE  /\ entries[k].access_time <= entries[t].access_time
               /\ t < k => entries[k].access_time < entries[t].access_time
    <3>1. time[k] <= time[t]
      BY <1>3
    <3>2. t < k => time[t] # time[k]
      BY <1>2, <1>4
    <3>3. /\ entries[k].access_time = time[k] + IntMin /\ time[k] \in Nat
          /\ entries[t].access_time = time[t] + IntMin /\ time[t] \in Nat
      BY <1>1
    <3> QED
      BY <3>1, <3>2, <3>3, CacheAssumption
  <2> QED
    BY <2>1 DEF IsLRU
<1> QED
  BY <1>5 DEF IsLRU, find_replacement_index_LRU

(* The first hole if there is one, and otherwise the slot of least time.   *)
LEMMA StoreIndexIs ==
    ASSUME TypeOK, TimesBounded
    PROVE  /\ StoreIndex \in Slots
           /\ \/ ~Valid(StoreIndex) /\ \A t \in Slots : t < StoreIndex => Valid(t)
              \/ (\A t \in Slots : Valid(t)) /\ IsLRU(StoreIndex)
<1>1. CASE \E s \in Slots : ~Valid(s)
  <2> DEFINE T == {s \in Slots : ~Valid(s)}
  <2>1. PICK k \in T : \A t \in T : k <= t
    <3>1. T \subseteq Nat /\ T # {}
      BY <1>1, CacheAssumption DEF Slots
    <3> QED
      BY <3>1, LeastNat
  <2>2. k \in Slots /\ ~Valid(k) /\ \A t \in Slots : t < k => Valid(t)
    BY <2>1, CacheAssumption DEF Slots
  <2> QED
    BY <1>1, <2>2 DEF StoreIndex
<1>2. CASE \A s \in Slots : Valid(s)
  BY <1>2, LRUIndex DEF StoreIndex, IsLRU
<1> QED
  BY <1>1, <1>2
-----------------------------------------------------------------------------
(* What one call of store_message_in_cache does, slot by slot.             *)
LEMMA StoreStep ==
    ASSUME TypeOK, NEW k \in Slots, NEW m \in Message, store_message_in_cache(k, m)
    PROVE  /\ entries' \in [Slots -> Entry]
           /\ entries'[k].valid = 1
           /\ entries'[k].id = i /\ entries'[k].message_id = i
           /\ entries'[k].access_time = CounterAfterCopy(k, m)
           /\ \A s \in Slots \ {k, k + 1} : entries'[s] = entries[s]
           /\ k + 1 \in Slots => /\ entries'[k + 1].valid = 0
                                 /\ entries'[k + 1].pad = 0
                                 /\ entries'[k + 1].access_time = entries[k + 1].access_time
           /\ time_counter' = CounterAfterCopy(k, m) + 1
           /\ CounterAfterCopy(k, m) \in Int
           /\ CounterAfterCopy(k, m) \in LastWord \cup {time_counter}
           /\ k # Last => CounterAfterCopy(k, m) = time_counter
           /\ k = Last => CounterAfterCopy(k, m) \in LastWord
           /\ replacement_policy' \in {0, replacement_policy}
<1>1. /\ m.id = i /\ m.id \in Int /\ m.c504 = 0 /\ m.c508 \in LastWord /\ m.c508 \in Int
      /\ m.pad \in Int /\ m.delivered = 0 /\ k \in Int /\ k + 1 # k
  <2>1. /\ m.id = i /\ m.c504 = 0 /\ m.c508 \in LastWord /\ m.pad \in Junk /\ m.delivered = 0
    BY DEF Message
  <2>2. i \in Int /\ k \in Int
    BY CacheAssumption DEF Slots, TypeOK
  <2>3. k + 1 # k
    BY <2>2
  <2>4. m.c508 \in Int /\ m.pad \in Int
    BY <2>1, CacheAssumption
  <2> QED
    BY <2>1, <2>2, <2>3, <2>4, Zenon
<1>2. /\ CounterAfterCopy(k, m) \in Int
      /\ CounterAfterCopy(k, m) \in LastWord \cup {time_counter}
      /\ k # Last => CounterAfterCopy(k, m) = time_counter
      /\ k = Last => CounterAfterCopy(k, m) \in LastWord
  BY <1>1 DEF CounterAfterCopy, TypeOK
<1>3. entries'[k] = Stored(k, m) /\ Stored(k, m) \in Entry
  BY <1>1, <1>2 DEF store_message_in_cache, Stored, Entry
<1>4. \A s \in Slots : s = k + 1 => entries'[s] = Overrun(entries[s], m)
  BY <1>1 DEF store_message_in_cache
<1>5. \A e \in Entry : /\ Overrun(e, m) \in Entry
                       /\ Overrun(e, m).valid = 0
                       /\ Overrun(e, m).pad = 0
                       /\ Overrun(e, m).access_time = e.access_time
  BY <1>1 DEF Overrun, Entry
<1>6. \A s \in Slots \ {k, k + 1} : entries'[s] = entries[s]
  BY DEF store_message_in_cache
<1>7. entries' \in [Slots -> Entry]
  <2>1. \A s \in Slots : entries'[s] \in Entry
    BY <1>3, <1>4, <1>5, <1>6 DEF TypeOK
  <2>2. entries' = [s \in Slots |-> entries'[s]]
    BY DEF store_message_in_cache
  <2> QED
    BY <2>1, <2>2
<1>8. k + 1 \in Slots => entries[k + 1] \in Entry
  BY DEF TypeOK
<1> QED
  BY <1>1, <1>2, <1>3, <1>4, <1>5, <1>6, <1>7, <1>8 DEF store_message_in_cache, Stored
-----------------------------------------------------------------------------
(* Ids grow, so a message about to be stored is in no slot yet.            *)
IdsOld == \A s \in Slots : Valid(s) => entries[s].message_id < i

(* Holes come one way only: slots not reached yet, or the overrun's victim.*)
Filling ==
    \/ stores < CacheSize /\ \A s \in Slots : Valid(s) <=> s < stores
    \/ stores >= CacheSize /\ \A s, t \in Slots : ~Valid(s) /\ ~Valid(t) => s = t

CacheInv == TypeOK /\ TimesBounded /\ IndexMatchesData /\ IdsOld /\ Filling

LEMMA InitCache == Init => CacheInv
<1> SUFFICES ASSUME Init PROVE CacheInv
  OBVIOUS
<1>1. \A s \in Slots : ~Valid(s) /\ ~(s < 0)
  BY CacheAssumption DEF Init, Valid, Slots
<1>2. TypeOK
  BY CacheAssumption DEF Init, TypeOK, Entry, NULL, RANDOM, LRU
<1>3. TimesBounded
  BY CacheAssumption DEF Init, TimesBounded
<1> QED
  BY <1>1, <1>2, <1>3, CacheAssumption
     DEF Init, CacheInv, IndexMatchesData, IdsOld, Filling

(* A store: into the first hole or, the cache being full, anywhere.        *)
LEMMA StoreKeeps == CacheInv /\ CreateAndStore => CacheInv'
<1> SUFFICES ASSUME CacheInv, CreateAndStore PROVE CacheInv'
  OBVIOUS
<1>0. TypeOK /\ TimesBounded /\ IndexMatchesData /\ IdsOld /\ Filling
  BY DEF CacheInv
<1> PICK k : k = StoreIndex
  OBVIOUS
<1>1. /\ k \in Slots
      /\ \/ ~Valid(k) /\ \A t \in Slots : t < k => Valid(t)
         \/ \A t \in Slots : Valid(t)
  BY <1>0, StoreIndexIs
<1>2. PICK m \in Message : store_message_in_cache(k, m)
  BY DEF CreateAndStore
<1>3. /\ i \in 0..TotalMessages-1 /\ i' = i + 1
      /\ stores \in 0..i /\ stores' = stores + 1
      /\ UNCHANGED <<hits, misses, asked, message>>
  BY <1>0, CacheAssumption DEF CreateAndStore, TypeOK
<1>4. /\ \A s \in Slots : s \in Nat
      /\ \A s \in Slots : s <= Last
      /\ Last \in Slots /\ k + 1 \notin {k} /\ (k # Last => k + 1 \in Slots)
  BY <1>1, CacheAssumption DEF Slots, Last
<1>5. /\ Valid(k)' /\ entries'[k].id = i /\ entries'[k].message_id = i
      /\ \A s \in Slots \ {k, k + 1} : entries'[s] = entries[s]
      /\ k + 1 \in Slots => ~Valid(k + 1)'
  BY <1>0, <1>1, <1>2, StoreStep DEF Valid
<1>6. \A s \in Slots \ {k} : Valid(s)' => s # k + 1 /\ Valid(s) /\ entries'[s] = entries[s]
  BY <1>5 DEF Valid
<1>7. TypeOK'
  <2>1. /\ entries' \in [Slots -> Entry] /\ time_counter' \in Int
        /\ replacement_policy' \in {0, replacement_policy}
    BY <1>0, <1>1, <1>2, StoreStep
  <2>2. i' \in 0..TotalMessages /\ stores' \in 0..i'
    BY <1>3, CacheAssumption
  <2> QED
    BY <1>0, <1>3, <2>1, <2>2 DEF TypeOK
<1>8. TimesBounded'
  <2>1. CounterAfterCopy(k, m) >= IntMin /\ time_counter' >= IntMin
    BY <1>0, <1>1, <1>2, StoreStep, CacheAssumption DEF TimesBounded
  <2> QED
    BY <1>0, <1>1, <1>2, <2>1, StoreStep DEF TimesBounded
<1>9. IndexMatchesData'
  BY <1>0, <1>1, <1>3, <1>5, <1>6 DEF IndexMatchesData, IdsOld
<1>10. IdsOld'
  <2>1. \A s \in Slots : entries[s].message_id \in Int
    BY <1>0 DEF TypeOK, Entry
  <2> QED
    BY <1>0, <1>1, <1>3, <1>5, <1>6, <2>1 DEF IdsOld
<1>11. Filling'
  <2>1. CASE stores < CacheSize
    <3>1. \A s \in Slots : Valid(s) <=> s < stores
      BY <1>0, <1>3, <2>1, CacheAssumption DEF Filling
    <3>2. k = stores
      <4>1. stores \in Slots /\ ~Valid(stores)
        BY <1>3, <2>1, <3>1, CacheAssumption DEF Slots
      <4>2. ~Valid(k) /\ \A t \in Slots : t < k => Valid(t)
        BY <1>1, <4>1
      <4> QED
        BY <1>1, <1>3, <1>4, <3>1, <4>1, <4>2
    <3>3. \A s \in Slots : Valid(s)' <=> s < stores'
      <4> TAKE s \in Slots
      <4>1. CASE s = k
        BY <1>3, <1>5, <3>2, <4>1
      <4>2. CASE s = k + 1
        BY <1>3, <1>5, <3>2, <4>2
      <4>3. CASE s \notin {k, k + 1}
        BY <1>3, <1>4, <1>5, <3>1, <3>2, <4>3 DEF Valid
      <4> QED
        BY <4>1, <4>2, <4>3
    <3> QED
      BY <1>3, <1>4, <2>1, <3>3, CacheAssumption DEF Filling, Slots
  <2>2. CASE stores >= CacheSize
    <3>1. \A s \in Slots \ {k} : Valid(s)
      <4>1. \A s, t \in Slots : ~Valid(s) /\ ~Valid(t) => s = t
        BY <1>0, <1>3, <2>2, CacheAssumption DEF Filling
      <4>2. ~Valid(k) \/ \A t \in Slots : Valid(t)
        BY <1>1
      <4> QED
        BY <1>1, <4>1, <4>2
    <3>2. \A s \in Slots : ~Valid(s)' => s = k + 1
      BY <1>5, <3>1 DEF Valid
    <3> QED
      BY <1>3, <2>2, <3>2, CacheAssumption DEF Filling
  <2> QED
    BY <1>3, <2>1, <2>2, CacheAssumption
<1> QED
  BY <1>7, <1>8, <1>9, <1>10, <1>11 DEF CacheInv

LEMMA FirstMatchIs ==
    ASSUME NEW id, Matches(id) # {}
    PROVE  FirstMatch(id) \in Matches(id)
<1>1. Matches(id) \subseteq Nat
  BY CacheAssumption DEF Matches, Slots
<1>2. \E n \in Matches(id) : \A t \in Matches(id) : n <= t
  BY <1>1, LeastNat
<1> QED
  BY <1>2 DEF FirstMatch

(* A lookup returns a message of the id asked for.                         *)
LEMMA LookupMatches ==
    ASSUME TypeOK, IndexMatchesData, NEW id \in Ids, NEW msg \in retrieve_message_from_cache(id)
    PROVE  msg \in [id : Int, delivered : Int] /\ (msg # NULL => msg.id = id)
<1>1. CASE Matches(id) = {}
  BY <1>1 DEF retrieve_message_from_cache, NULL
<1>2. CASE Matches(id) # {}
  <2> DEFINE s == FirstMatch(id)
  <2>1. s \in Matches(id)
    BY <1>2, FirstMatchIs
  <2>2. s \in Slots /\ entries[s].id = id
    BY <2>1 DEF Matches, IndexMatchesData
  <2>3. id \in Int
    BY CacheAssumption DEF Ids
  <2>4. DeliveredRead(s) \subseteq Int
    <3>1. s # Last => s + 1 \in Slots
      BY <2>2, CacheAssumption DEF Slots, Last
    <3> QED
      BY <2>2, <3>1, CacheAssumption DEF DeliveredRead, TypeOK, Entry
  <2>5. msg \in [id : {id}, delivered : DeliveredRead(s)]
    BY <1>2, <2>2 DEF retrieve_message_from_cache
  <2> QED
    BY <2>3, <2>4, <2>5
<1> QED
  BY <1>1, <1>2

LEMMA NextCache == CacheInv /\ [Next]_vars => CacheInv'
<1> SUFFICES ASSUME CacheInv, [Next]_vars PROVE CacheInv'
  OBVIOUS
<1>0. TypeOK /\ TimesBounded /\ IndexMatchesData /\ IdsOld /\ Filling
  BY DEF CacheInv
<1>1. CASE CreateAndStore
  BY <1>1, StoreKeeps
<1>2. CASE CreateFails
  <2>1. /\ UNCHANGED <<cache, stores, hits, misses, asked, message>>
        /\ i \in Nat /\ i' = i + 1 /\ i' \in 0..TotalMessages /\ stores \in 0..i
        /\ \A s \in Slots : entries[s].message_id \in Int
    BY <1>0, <1>2, CacheAssumption DEF CreateFails, TypeOK, Entry
  <2>2. TypeOK'
    BY <1>0, <2>1 DEF TypeOK, cache
  <2> QED
    BY <1>0, <2>1, <2>2 DEF CacheInv, TimesBounded, IndexMatchesData, IdsOld, Filling,
       Valid, cache
<1>3. CASE Access
  <2>1. /\ UNCHANGED <<entries, replacement_policy, time_counter, i, stores>>
        /\ hits' \in Nat /\ misses' \in Nat /\ hits' + misses' <= TotalAccesses
    BY <1>0, <1>3, CacheAssumption DEF Access, MoreAccesses, TypeOK, cache
  <2>2. /\ asked' \in Ids /\ message' \in [id : Int, delivered : Int]
        /\ message' # NULL => message'.id = asked'
    BY <1>0, <1>3, LookupMatches DEF Access
  <2>3. Ids \subseteq Int
    BY CacheAssumption DEF Ids
  <2>4. TypeOK'
    BY <1>0, <2>1, <2>2, <2>3 DEF TypeOK
  <2> QED
    BY <1>0, <2>1, <2>2, <2>4 DEF CacheInv, TimesBounded, IndexMatchesData, IdsOld,
       Filling, Valid
<1>4. CASE UNCHANGED vars
  BY <1>0, <1>4 DEF vars, CacheInv, TypeOK, TimesBounded, IndexMatchesData, IdsOld,
     Filling, Valid
<1> QED
  BY <1>1, <1>2, <1>3, <1>4 DEF Next

(* Types, and with them the range of every index into entries.             *)
THEOREM CacheTypeCorrect == Spec => []TypeOK
<1>1. CacheInv => TypeOK
  BY DEF CacheInv
<1> QED
  BY InitCache, NextCache, <1>1, PTL DEF Spec

(* Although every copy runs into the next slot, a valid slot's index       *)
(* always names the message it holds, and lookups return the right one.    *)
THEOREM IndexCorrect == Spec => []IndexMatchesData
<1>1. CacheInv => IndexMatchesData
  BY DEF CacheInv
<1> QED
  BY InitCache, NextCache, <1>1, PTL DEF Spec

(* The overrun costs the cache one slot at a time, never more.             *)
THEOREM OneHoleCorrect == Spec => []OneHole
<1>1. CacheInv => OneHole
  BY CacheAssumption DEF CacheInv, TypeOK, Filling, OneHole
<1> QED
  BY InitCache, NextCache, <1>1, PTL DEF Spec

(* The flag behind a slot that the hole follows is still that of the store *)
(* that made the hole; and lookups begin when all stores are done.         *)
FlagInv ==
    /\ \A s \in Slots \ {Last} : Valid(s) /\ ~Valid(s + 1) => entries[s + 1].pad = 0
    /\ message # NULL => i = TotalMessages
    /\ FlagBeforeHole

LEMMA NextFlag == CacheInv /\ FlagInv /\ [Next]_vars => FlagInv'
<1> SUFFICES ASSUME CacheInv, FlagInv, [Next]_vars PROVE FlagInv'
  OBVIOUS
<1>0. /\ TypeOK /\ TimesBounded /\ i \in 0..TotalMessages
      /\ Slots \subseteq Nat /\ Last \in Slots /\ \A s \in Slots \ {Last} : s + 1 \in Slots
  BY CacheAssumption DEF CacheInv, TypeOK, Slots, Last
<1>1. CASE CreateAndStore
  <2> PICK k : k = StoreIndex
    OBVIOUS
  <2>1. k \in Slots
    BY <1>0, StoreIndexIs
  <2>2. PICK m \in Message : store_message_in_cache(k, m)
    BY <1>1 DEF CreateAndStore
  <2>3. message = NULL /\ message' = NULL
    BY <1>0, <1>1, CacheAssumption DEF CreateAndStore, FlagInv
  <2>4. /\ Valid(k)'
        /\ k + 1 \in Slots => ~Valid(k + 1)' /\ entries'[k + 1].pad = 0
        /\ \A s \in Slots \ {k, k + 1} : entries'[s] = entries[s]
    BY <1>0, <2>1, <2>2, StoreStep DEF Valid
  <2>5. ASSUME NEW s \in Slots \ {Last}, Valid(s)', ~Valid(s + 1)'
        PROVE  entries'[s + 1].pad = 0
    <3>1. CASE s = k
      BY <1>0, <2>4, <3>1
    <3>2. CASE s # k
      <4>1. s # k + 1 /\ s + 1 # k /\ s + 1 # k + 1
        BY <1>0, <2>1, <2>4, <2>5, <3>2
      <4>2. entries'[s] = entries[s] /\ entries'[s + 1] = entries[s + 1]
        BY <1>0, <2>4, <3>2, <4>1
      <4> QED
        BY <2>5, <4>2 DEF Valid, FlagInv
    <3> QED
      BY <3>1, <3>2
  <2>6. FlagBeforeHole'
    BY <2>3 DEF FlagBeforeHole, NULL
  <2> QED
    BY <2>3, <2>5, <2>6 DEF FlagInv, NULL
<1>2. CASE CreateFails
  <2>1. message = NULL /\ message' = NULL /\ entries' = entries
    BY <1>0, <1>2, CacheAssumption DEF CreateFails, FlagInv, cache
  <2> QED
    BY <2>1 DEF FlagInv, FlagBeforeHole, Valid, NULL
<1>3. CASE Access
  <2>1. entries' = entries /\ i' = i /\ i = TotalMessages
    BY <1>3 DEF Access, cache
  <2>2. message' \in retrieve_message_from_cache(asked')
    BY <1>3 DEF Access
  <2>3. FirstMatch(asked)' = FirstMatch(asked') /\ Matches(asked') \subseteq Slots
    BY <2>1 DEF FirstMatch, Matches, Valid
  <2>4. ASSUME message' # NULL, FirstMatch(asked') # Last, ~Valid(FirstMatch(asked') + 1)
        PROVE  message'.delivered = 0
    <3> DEFINE s == FirstMatch(asked')
    <3>1. Matches(asked') # {}
      BY <2>2, <2>4 DEF retrieve_message_from_cache
    <3>2. s \in Slots \ {Last} /\ Valid(s)
      BY <2>4, <3>1, FirstMatchIs DEF Matches
    <3>3. message'.delivered \in DeliveredRead(s)
      BY <2>2, <3>1 DEF retrieve_message_from_cache
    <3> QED
      BY <2>4, <3>2, <3>3 DEF DeliveredRead, FlagInv
  <2>5. FlagBeforeHole'
    BY <2>1, <2>3, <2>4 DEF FlagBeforeHole, Valid, NULL
  <2> QED
    BY <2>1, <2>5 DEF FlagInv, Valid
<1>4. CASE UNCHANGED vars
  BY <1>4 DEF vars, cache, FlagInv, FlagBeforeHole, FirstMatch, Matches, Valid, NULL
<1> QED
  BY <1>1, <1>2, <1>3, <1>4 DEF Next

(* The delivered flag of a message is right while the hole follows it.     *)
THEOREM FlagCorrect == Spec => []FlagBeforeHole
<1>1. Init => FlagInv
  BY DEF Init, FlagInv, FlagBeforeHole, Valid
<1>2. FlagInv => FlagBeforeHole
  BY DEF FlagInv
<1> QED
  BY InitCache, NextCache, NextFlag, <1>1, <1>2, PTL DEF Spec

(* A message can be looked up as soon as it has been stored.               *)
THEOREM NewestCorrect == Spec => NewestIsCached
<1>1. CacheInv /\ [Next]_vars
        => [stores' # stores => \E s \in Slots : Valid(s)' /\ entries'[s].message_id = i]_vars
  <2> SUFFICES ASSUME CacheInv, CreateAndStore
               PROVE  \E s \in Slots : Valid(s)' /\ entries'[s].message_id = i
    BY DEF Next, CreateFails, Access, vars
  <2>1. StoreIndex \in Slots
    BY StoreIndexIs DEF CacheInv
  <2>2. PICK m \in Message : store_message_in_cache(StoreIndex, m)
    BY DEF CreateAndStore
  <2> QED
    BY <2>1, <2>2, StoreStep DEF Valid, CacheInv
<1> QED
  BY InitCache, NextCache, <1>1, PTL DEF Spec, NewestIsCached
-----------------------------------------------------------------------------
(* When content[508..512) is 0 in every message, the access times are      *)
(* known in each of three rounds of stores.  The cache fills; the store    *)
(* into the last slot sets time_counter back to 0.  The second round moves *)
(* the hole up from slot 0, and sets it back again.  From then on the last *)
(* slot alone has time 0, and so it is the one to be replaced, for ever.   *)
Hole == stores - CacheSize

FirstRound ==
    /\ stores < CacheSize
    /\ time_counter = stores
    /\ \A s \in Slots : s < stores => entries[s].access_time = s

SecondRound ==
    /\ stores >= CacheSize /\ stores < 2 * CacheSize
    /\ time_counter = Hole + 1
    /\ entries[Last].access_time = 0
    /\ \A s \in Slots \ {Last} : entries[s].access_time = IF s < Hole THEN s + 1 ELSE s
    /\ \A s \in Slots : ~Valid(s) <=> (s = Hole /\ Hole > 0)

Stuck ==
    /\ stores >= 2 * CacheSize
    /\ entries[Last].access_time = 0
    /\ \A s \in Slots \ {Last} : entries[s].access_time > 0
    /\ \A s \in Slots : Valid(s)

Rounds == FirstRound \/ SecondRound \/ Stuck

LEMMA InitRounds == Init => Rounds
  BY CacheAssumption DEF Init, Rounds, FirstRound, Slots

LEMMA StuckIndex == CacheInv /\ Stuck => StoreIndex = Last
<1> SUFFICES ASSUME CacheInv, Stuck PROVE StoreIndex = Last
  OBVIOUS
<1>1. IsLRU(StoreIndex)
  BY StoreIndexIs DEF CacheInv, Stuck
<1>2. Last \in Slots
  BY CacheAssumption DEF Last, Slots
<1> PICK k : k = StoreIndex
  OBVIOUS
<1>3. k \in Slots /\ entries[k].access_time <= 0
  BY <1>1, <1>2 DEF IsLRU, Stuck
<1>4. entries[k].access_time \in Int
  BY <1>3 DEF CacheInv, TypeOK, Entry
<1>5. k # Last => entries[k].access_time > 0
  BY <1>3 DEF Stuck
<1> QED
  BY <1>3, <1>4, <1>5

LEMMA SecondRoundIndex == CacheInv /\ SecondRound => StoreIndex = Hole
<1> SUFFICES ASSUME CacheInv, SecondRound PROVE StoreIndex = Hole
  OBVIOUS
<1>1. Hole \in Slots /\ Slots \subseteq Nat /\ 0 \in Slots /\ Last \in Slots /\ Last # 0
  BY CacheAssumption DEF SecondRound, Hole, Slots, Last, CacheInv, TypeOK
<1>2. CASE Hole > 0
  <2>1. ~Valid(StoreIndex) /\ StoreIndex \in Slots
    BY <1>1, <1>2, StoreIndexIs DEF CacheInv, SecondRound
  <2> QED
    BY <2>1 DEF SecondRound
<1>3. CASE Hole = 0
  <2>1. IsLRU(StoreIndex)
    BY <1>1, <1>3, StoreIndexIs DEF CacheInv, SecondRound
  <2>2. entries[0].access_time = 0 /\ \A s \in Slots : entries[s].access_time >= 0
    BY <1>1, <1>3 DEF SecondRound
  <2> PICK k : k = StoreIndex
    OBVIOUS
  <2>3. k \in Slots /\ (0 < k => entries[k].access_time < entries[0].access_time)
    BY <1>1, <2>1 DEF IsLRU
  <2>4. entries[k].access_time \in Int
    BY <2>3 DEF CacheInv, TypeOK, Entry
  <2>5. ~(0 < k)
    BY <2>2, <2>3, <2>4
  <2>6. k \in Nat
    BY <1>1, <2>3
  <2>7. k = 0
    BY <2>5, <2>6
  <2> QED
    BY <1>3, <2>7
<1> QED
  BY <1>1, <1>2, <1>3

LEMMA StoreRounds ==
    ASSUME LastWord = {0}, CacheInv, CacheInv', Rounds, CreateAndStore
    PROVE  Rounds'
<1> PICK k : k = StoreIndex
  OBVIOUS
<1>1. k \in Slots
  BY StoreIndexIs DEF CacheInv
<1>2. PICK m \in Message : store_message_in_cache(k, m)
  BY DEF CreateAndStore
<1>3. /\ stores \in Nat /\ stores' = stores + 1
      /\ CacheSize \in Nat /\ CacheSize >= 2 /\ Last = CacheSize - 1
      /\ Last \in Slots /\ Slots \subseteq Nat /\ \A s \in Slots : s <= Last
      /\ (k # Last => k + 1 \in Slots)
      /\ time_counter \in Int
  BY <1>1, CacheAssumption DEF CreateAndStore, CacheInv, TypeOK, Slots, Last
<1>4. /\ Valid(k)' /\ \A s \in Slots \ {k, k + 1} : entries'[s] = entries[s]
      /\ k # Last => /\ ~Valid(k + 1)'
                     /\ entries'[k + 1].access_time = entries[k + 1].access_time
                     /\ entries'[k].access_time = time_counter
                     /\ time_counter' = time_counter + 1
      /\ k = Last => entries'[k].access_time = 0 /\ time_counter' = 1
  <2>1. \A x \in LastWord : x = 0
    OBVIOUS
  <2> QED
    BY <1>1, <1>2, <1>3, <2>1, StoreStep DEF Valid, CacheInv
<1>5. \A s \in Slots \ {k} : entries'[s].access_time = entries[s].access_time
  BY <1>3, <1>4
<1>6. CASE FirstRound
  <2>1. \A s \in Slots : Valid(s) <=> s < stores
    BY <1>3, <1>6 DEF CacheInv, Filling, FirstRound
  <2>2. k = stores
    <3>1. stores \in Slots /\ ~Valid(stores)
      BY <1>3, <1>6, <2>1 DEF FirstRound, Slots
    <3>2. ~Valid(k) /\ \A t \in Slots : t < k => Valid(t)
      BY <3>1, StoreIndexIs DEF CacheInv
    <3> QED
      BY <1>1, <1>3, <2>1, <3>1, <3>2
  <2>3. CASE k = Last
    <3>1. stores' = CacheSize /\ Hole' = 0 /\ time_counter' = 1
      BY <1>3, <1>4, <2>2, <2>3 DEF Hole
    <3>2. \A s \in Slots \ {Last} : entries'[s].access_time = s
      BY <1>3, <1>5, <1>6, <2>2, <2>3 DEF FirstRound
    <3>3. \A s \in Slots : Valid(s)'
      BY <1>3, <1>4, <2>1, <2>2, <2>3 DEF Valid
    <3> QED
      BY <1>3, <1>4, <2>3, <3>1, <3>2, <3>3 DEF Rounds, SecondRound
  <2>4. CASE k # Last
    <3>1. \A s \in Slots : s < stores' => entries'[s].access_time = s
      BY <1>3, <1>4, <1>5, <1>6, <2>2, <2>4 DEF FirstRound
    <3> QED
      BY <1>1, <1>3, <1>4, <1>6, <2>2, <2>4, <3>1 DEF Rounds, FirstRound
  <2> QED
    BY <2>3, <2>4
<1>7. CASE SecondRound
  <2>1. k = Hole /\ stores = CacheSize + k
    BY <1>1, <1>3, <1>7, SecondRoundIndex DEF Hole
  <2>2. \A s \in Slots \ {k} : Valid(s)
    BY <1>7, <2>1 DEF SecondRound
  <2>3. CASE k = Last
    <3>1. \A s \in Slots \ {Last} : entries'[s].access_time > 0 /\ Valid(s)'
      BY <1>3, <1>4, <1>7, <2>1, <2>2, <2>3 DEF SecondRound, Valid
    <3> QED
      BY <1>3, <1>4, <2>1, <2>3, <3>1 DEF Rounds, Stuck
  <2>4. CASE k # Last
    <3>1. /\ Hole' = k + 1 /\ time_counter' = Hole' + 1 /\ Hole' > 0
          /\ stores' >= CacheSize /\ stores' < 2 * CacheSize
      BY <1>1, <1>3, <1>4, <1>7, <2>1, <2>4 DEF Hole, SecondRound
    <3>2. \A s \in Slots \ {Last} :
             entries'[s].access_time = IF s < Hole' THEN s + 1 ELSE s
      <4> TAKE s \in Slots \ {Last}
      <4>1. CASE s = k
        BY <1>1, <1>3, <1>4, <1>7, <2>1, <2>4, <3>1, <4>1 DEF SecondRound
      <4>2. CASE s # k
        <5>1. entries'[s].access_time = IF s < k THEN s + 1 ELSE s
          BY <1>5, <1>7, <2>1, <4>2 DEF SecondRound
        <5> QED
          BY <1>1, <1>3, <3>1, <4>2, <5>1
      <4> QED
        BY <4>1, <4>2
    <3>3. entries'[Last].access_time = 0
      BY <1>3, <1>5, <1>7, <2>4 DEF SecondRound
    <3>4. \A s \in Slots : ~Valid(s)' <=> s = k + 1
      BY <1>3, <1>4, <2>2, <2>4 DEF Valid
    <3> QED
      BY <3>1, <3>2, <3>3, <3>4 DEF Rounds, SecondRound
  <2> QED
    BY <2>3, <2>4
<1>8. CASE Stuck
  <2>1. k = Last
    BY <1>8, StuckIndex
  <2>2. \A s \in Slots : Valid(s)'
    BY <1>3, <1>4, <1>8, <2>1 DEF Stuck, Valid
  <2>3. \A s \in Slots \ {Last} : entries'[s].access_time > 0
    BY <1>5, <1>8, <2>1 DEF Stuck
  <2> QED
    BY <1>3, <1>4, <1>8, <2>1, <2>2, <2>3 DEF Rounds, Stuck
<1> QED
  BY <1>6, <1>7, <1>8 DEF Rounds

LEMMA NextRounds ==
    ASSUME LastWord = {0}
    PROVE  CacheInv /\ CacheInv' /\ Rounds /\ [Next]_vars => Rounds'
<1> SUFFICES ASSUME CacheInv, CacheInv', Rounds, [Next]_vars PROVE Rounds'
  OBVIOUS
<1>1. CASE CreateAndStore
  BY <1>1, StoreRounds
<1>2. CASE UNCHANGED <<entries, time_counter, stores>>
  BY <1>2 DEF Rounds, FirstRound, SecondRound, Stuck, Hole, Valid
<1> QED
  BY <1>1, <1>2 DEF Next, CreateFails, Access, cache, vars

(* A store after the second round changes no slot but the last.            *)
Frozen ==
    [][stores >= 2 * CacheSize => \A s \in Slots \ {Last} : entries'[s] = entries[s]]_vars

(* How ReplacesOldest fails, whatever the number of slots: after two       *)
(* rounds of stores all messages but the newest are those of the second    *)
(* round and stay.  Each later message replaces the one stored before it.  *)
THEOREM FrozenCorrect == (LastWord = {0}) => (Spec => Frozen)
<1> SUFFICES ASSUME LastWord = {0} PROVE Spec => Frozen
  OBVIOUS
<1>1. CacheInv /\ Rounds /\ [Next]_vars
        => [stores >= 2 * CacheSize
              => \A s \in Slots \ {Last} : entries'[s] = entries[s]]_vars
  <2> SUFFICES ASSUME CacheInv, Rounds, CreateAndStore, stores >= 2 * CacheSize
               PROVE  \A s \in Slots \ {Last} : entries'[s] = entries[s]
    BY DEF Next, CreateFails, Access, vars, cache
  <2>1. Stuck
    BY CacheAssumption DEF Rounds, FirstRound, SecondRound, CacheInv, TypeOK
  <2>2. PICK m \in Message : store_message_in_cache(Last, m)
    BY <2>1, StuckIndex DEF CreateAndStore
  <2>3. Last \in Slots /\ Last + 1 \notin Slots
    BY CacheAssumption DEF Slots, Last
  <2> QED
    BY <2>2, <2>3, StoreStep DEF CacheInv
<1> QED
  BY InitCache, NextCache, InitRounds, NextRounds, <1>1, PTL DEF Spec, Frozen
=============================================================================
