---------------------------- MODULE MessageCache ----------------------------
(***************************************************************************)
(* Practicum1: the message cache of cache.c under the simulation of main.c *)
(* (create and store TOTAL_MESSAGES messages, then look up random ids).    *)
(*                                                                         *)
(* sizeof(Message) is 1048 and the data field of a slot has MESSAGE_SIZE = *)
(* 1024 bytes, so the memcpy of store_message_in_cache writes 24 bytes     *)
(* past it, and that of retrieve_message_from_cache reads as many.  The    *)
(* state is therefore kept as the words this overlap makes visible:        *)
(*                                                                         *)
(*   bytes of Message        written to                read back from      *)
(*      0..4    unique_id      data[0..4)                the same          *)
(*      4..8    padding        data[4..8)                the same          *)
(*   1024..1032 content        message_id, access_time   the same          *)
(*   1032..1036 content[504..] valid of the NEXT slot    the same          *)
(*   1036..1040 content[508..] data[0..4) of the next    the same          *)
(*   1040..1044 delivered_flag data[4..8) of the next    the same          *)
(*                                                                         *)
(* What follows the last slot is replacement_policy and time_counter, then *)
(* the end of the object.  The rest of a message is never disturbed while  *)
(* its slot is valid; its unique_id stands for it.                         *)
(***************************************************************************)
EXTENDS Integers, FiniteSets

CONSTANTS CacheSize,       \* CACHE_SIZE, 64 in the code
          TotalMessages,   \* TOTAL_MESSAGES, 1000
          TotalAccesses,   \* TOTAL_ACCESSES, 1000
          Junk,            \* words malloc or the stack may leave in padding
          LastWord,            \* content[508..512) of a message, read as an int:
                           \* create_msg leaves byte 511 uninitialised
          IntMin,          \* the least int
          AllocFails       \* may malloc return NULL in create_msg?

ASSUME CacheAssumption ==
    /\ CacheSize \in Nat /\ CacheSize >= 2
    /\ TotalMessages \in Nat
    /\ TotalAccesses \in Nat
    /\ Junk \subseteq Int /\ Junk # {}
    /\ IntMin \in Int /\ IntMin <= 0
    /\ 0 \in LastWord /\ \A x \in LastWord : x \in Int /\ IntMin <= x
    /\ AllocFails \in BOOLEAN

RANDOM == 1
LRU == 2
Slots == 0..CacheSize-1
Last == CacheSize - 1
Ids == 0..TotalMessages-1
NULL == [id |-> -1, delivered |-> 0]

VARIABLES entries,             \* the slots
          replacement_policy,
          time_counter,
          i,                   \* messages created so far, the next one's id
          stores,              \* how many of them went into the cache
          hits, misses,
          asked, message       \* the last lookup and what it returned

cache == <<entries, replacement_policy, time_counter>>
vars == <<entries, replacement_policy, time_counter, i, stores, hits, misses, asked, message>>

Entry == [valid : Int, id : Int, pad : Int, message_id : Int, access_time : Int]
-----------------------------------------------------------------------------
(* main passes a zeroed MessageCache and each policy once; init_cache then *)
(* sets the fields below and leaves the data as it is.                     *)
Init == /\ entries = [s \in Slots |-> [valid |-> 0, id |-> 0, pad |-> 0,
                                       message_id |-> 0, access_time |-> 0]]
        /\ replacement_policy \in {LRU, RANDOM}
        /\ time_counter = 0
        /\ i = 0
        /\ stores = 0
        /\ hits = 0
        /\ misses = 0
        /\ asked = 0
        /\ message = NULL

(* create_msg with the arguments of main: "Hi, Jason!" is short, strncpy   *)
(* fills the rest of content with zeros but for its last byte.             *)
Message == [id : {i}, pad : Junk, c504 : {0}, c508 : LastWord, delivered : {0}]

Valid(s) == entries[s].valid # 0

(* The first slot of the least access_time; the comparison is strict.      *)
find_replacement_index_LRU ==
    CHOOSE s \in Slots :
        \A t \in Slots : /\ entries[s].access_time <= entries[t].access_time
                         /\ t < s => entries[s].access_time < entries[t].access_time

(* The first invalid slot, or the slot to replace: REPLACEMENT_POLICY is a *)
(* compile-time constant, LRU, and replacement_policy is not consulted.    *)
StoreIndex_Inverted ==
    IF \E s \in Slots : Valid(s)
    THEN CHOOSE s \in Slots : Valid(s) /\ \A t \in Slots : t < s => ~Valid(t)
    ELSE find_replacement_index_LRU
StoreIndex ==
    IF \E s \in Slots : ~Valid(s)
    THEN CHOOSE s \in Slots : ~Valid(s) /\ \A t \in Slots : t < s => Valid(t)
    ELSE find_replacement_index_LRU

(* time_counter as the assignments after the memcpy find it: the copy into *)
(* the last slot has overwritten it, with 0 as a rule.                     *)
CounterAfterCopy(k, m) == IF k = Last THEN m.c508 ELSE time_counter

(* The slot written, and the words of the next slot the copy runs into.    *)
Stored_NoIndex(k, m) ==
    [valid |-> 1, id |-> m.id, pad |-> m.pad, message_id |-> m.c504,
     access_time |-> CounterAfterCopy(k, m)]
Stored(k, m) ==
    [valid |-> 1, id |-> m.id, pad |-> m.pad, message_id |-> m.id,
     access_time |-> CounterAfterCopy(k, m)]
Overrun_FlagOnly(e, m) == [e EXCEPT !.valid = m.c504]
Overrun(e, m) == [valid |-> m.c504, id |-> m.c508, pad |-> m.delivered,
                  message_id |-> e.message_id, access_time |-> e.access_time]

store_message_in_cache(k, m) ==
    /\ entries' = [s \in Slots |-> IF s = k THEN Stored(k, m)
                                   ELSE IF s = k + 1 THEN Overrun(entries[s], m)
                                   ELSE entries[s]]
    /\ replacement_policy' = IF k = Last THEN m.c504 ELSE replacement_policy
    /\ time_counter' = CounterAfterCopy(k, m) + 1

(* One iteration of the first loop of simulate_accesses.                   *)
CreateAndStore ==
    /\ i < TotalMessages
    /\ \E m \in Message : store_message_in_cache(StoreIndex, m)
    /\ i' = i + 1
    /\ stores' = stores + 1
    /\ UNCHANGED <<hits, misses, asked, message>>

CreateFails ==
    /\ AllocFails
    /\ i < TotalMessages
    /\ i' = i + 1
    /\ UNCHANGED <<cache, stores, hits, misses, asked, message>>

(* retrieve_message_from_cache: the first valid slot with that id.  What   *)
(* lies behind the last slot's message is not part of the cache.           *)
Matches_Invalid(id) == {s \in Slots : entries[s].message_id = id}
Matches(id) == {s \in Slots : Valid(s) /\ entries[s].message_id = id}
FirstMatch(id) == CHOOSE s \in Matches(id) : \A t \in Matches(id) : s <= t

DeliveredRead(s) == IF s = Last THEN Junk ELSE {entries[s + 1].pad}

retrieve_message_from_cache(id) ==
    IF Matches(id) = {} THEN {NULL}
    ELSE [id : {entries[FirstMatch(id)].id}, delivered : DeliveredRead(FirstMatch(id))]

(* One iteration of the second loop: rand() % TOTAL_MESSAGES.              *)
MoreAccesses_OffByOne == hits + misses <= TotalAccesses
MoreAccesses == hits + misses < TotalAccesses

Access ==
    /\ i = TotalMessages
    /\ MoreAccesses
    /\ \E id \in Ids : /\ asked' = id
                       /\ message' \in retrieve_message_from_cache(id)
    /\ hits' = IF message' # NULL THEN hits + 1 ELSE hits
    /\ misses' = IF message' # NULL THEN misses ELSE misses + 1
    /\ UNCHANGED <<cache, i, stores>>

Next == CreateAndStore \/ CreateFails \/ Access

Spec == Init /\ [][Next]_vars
-----------------------------------------------------------------------------
(* Slots hold whole words, and the counters stay in step.                  *)
TypeOK ==
    /\ entries \in [Slots -> Entry]
    /\ replacement_policy \in {0, RANDOM, LRU}
    /\ time_counter \in Int
    /\ i \in 0..TotalMessages
    /\ stores \in 0..i
    /\ hits \in Nat
    /\ misses \in Nat
    /\ hits + misses <= TotalAccesses
    /\ asked \in Int
    /\ message \in [id : Int, delivered : Int]

(* The overrun clobbers the id in the next slot's data, and an old access  *)
(* time may point at any slot: still a valid slot's message_id (what a     *)
(* lookup compares) is that of the message in it, no message is in two     *)
(* slots, and what a lookup returns has the id that was asked for.         *)
IndexMatchesData ==
    /\ \A s \in Slots : Valid(s) => entries[s].id = entries[s].message_id
    /\ \A s, t \in Slots :
          Valid(s) /\ Valid(t) /\ entries[s].message_id = entries[t].message_id => s = t
    /\ message # NULL => message.id = asked

(* Every store, but one into the last slot, invalidates the slot after it; *)
(* yet the losses do not add up: once the cache has filled, at most one    *)
(* slot is empty.                                                          *)
OneHole ==
    stores >= CacheSize => \A s, t \in Slots : ~Valid(s) /\ ~Valid(t) => s = t

(* The delivered flag a lookup returns lies in the padding of the next     *)
(* slot's message, or behind the cache.  It is the one stored as long as   *)
(* the next slot is the hole the store has made.                           *)
FlagBeforeHole ==
    message # NULL /\ FirstMatch(asked) # Last /\ ~Valid(FirstMatch(asked) + 1)
        => message.delivered = 0

(* The message stored by a call is in the cache when the call returns.     *)
NewestIsCached ==
    [][stores' # stores => \E s \in Slots : Valid(s)' /\ entries'[s].message_id = i]_vars

(* "Finds the index of the least recently used (LRU) entry in the cache."  *)
(* (cache.c:27), "For LRU: Lower means older" (message.h:41): a store that *)
(* finds the cache full replaces the message stored first.  No lookup      *)
(* comes between the stores, and ids count up, so that is the least id.    *)
ReplacesOldest ==
    [][(\A s \in Slots : Valid(s)) /\ stores' # stores
          => \E s \in Slots : /\ entries'[s].message_id = i
                             /\ \A t \in Slots : entries[s].message_id <= entries[t].message_id]_vars
=============================================================================
