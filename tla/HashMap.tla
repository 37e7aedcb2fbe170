------------------------------- MODULE HashMap -------------------------------
(***************************************************************************)
(* The open-addressing hash map of arnel (src/hashmap.h: um_init, um_set,  *)
(* __rehash, um_get). A slot of the array holds an entry or is Empty (its  *)
(* key is NULL). A step is one round of a probing loop or of the copying   *)
(* loop of __rehash, which calls um_set for every entry of the old array.  *)
(*                                                                         *)
(* A key is compared by its characters, so it stands for them; no name of  *)
(* a program is empty, which the map could not tell from a free slot.      *)
(* calloc is taken to succeed.                                             *)
(***************************************************************************)
EXTENDS Integers, FiniteSets

CONSTANTS
  Keys,        \* the names
  Values,      \* the pointers kept under them
  NULL,        \* what um_get answers for a name never set
  Hash,        \* the hash function: a function from keys to numbers
  InitialCap   \* INITIAL_HM_CAP, 12 unless the program defines another

ASSUME NullAssumption == NULL \notin Keys \cup Values
ASSUME HashAssumption == Hash \in [Keys -> Nat]
\* With fewer slots the ratio of 0.7 would not keep one of them free.
ASSUME InitialCapAssumption == InitialCap \in Nat /\ InitialCap >= 4

Entry == [key : Keys, val : Values]
Empty == [key |-> NULL]

VARIABLES
  cap,      \* unordered_map_t.cap
  len,      \* unordered_map_t.len
  slots,    \* unordered_map_t.values: a function on 0..cap-1
  old,      \* during a rehash, the array being copied: a function on ..
  oldCap,   \* .. 0..oldCap-1; oldCap is 0 when there is none
  copied,   \* how far the loop of __rehash has come
  request,  \* the call of um_set or um_get under way
  pc,       \* "idle", "check" (um_set begins), "rehash", "probe"
  moving,   \* the entry the probing loop of um_set puts in its place
  hashed,   \* where the probing loop is; Empty and 0 when there is none
  answer    \* what the last call of um_get returned

vars == <<cap, len, slots, old, oldCap, copied, request, pc, moving, hashed, answer>>

Idle   == [op |-> "idle"]
Set(k, v) == [op |-> "set", key |-> k, val |-> v]
Get(k) == [op |-> "get", key |-> k]
Requests == {Set(k, v) : k \in Keys, v \in Values} \cup {Get(k) : k \in Keys}

Home(k) == Hash[k] % cap

\* (hashed+1) % cap
AfterByTwo(s) == (s + 2) % cap        \* mutants: a stride of two,
AfterUnwrapped(s) == s + 1            \* no wrapping around
After(s) == IF s + 1 = cap THEN 0 ELSE s + 1

\* HM_FREE_RATIO is 0.7. The code divides floats; for the capacities that
\* occur, powers of two times INITIAL_HM_CAP, len / cap is never exactly 0.7.
NeverTooFull == FALSE                          \* mutants: never growing,
TooFullAtFirst == 10 * len > 7 * InitialCap    \* the ratio to the first capacity
TooFull == 10 * len > 7 * cap

-----------------------------------------------------------------------------
CallSet(k, v) ==
  /\ pc = "idle"
  /\ request' = Set(k, v)
  /\ moving' = [key |-> k, val |-> v]
  /\ pc' = "check"
  /\ UNCHANGED <<cap, len, slots, old, oldCap, copied, hashed, answer>>

CallGet(k) ==
  /\ pc = "idle"
  /\ request' = Get(k)
  /\ hashed' = Home(k)
  /\ pc' = "probe"
  /\ UNCHANGED <<cap, len, slots, old, oldCap, copied, moving, answer>>

\* um_set grows the map first if it is too full, whatever the key is. The
\* copying loop calls um_set too, but NoNestedRehash: it never grows there.
CheckRatio ==
  /\ pc = "check"
  /\ \/ /\ TooFull
        /\ old' = slots
        /\ oldCap' = cap
        /\ cap' = 2 * cap
        /\ slots' = [s \in 0..2 * cap - 1 |-> Empty]
        /\ len' = 0
        /\ copied' = 0
        /\ pc' = "rehash"
        /\ moving' = Empty
        /\ UNCHANGED <<request, hashed, answer>>
     \/ /\ ~ TooFull
        /\ hashed' = Home(moving.key)
        /\ pc' = "probe"
        /\ UNCHANGED <<cap, len, slots, old, oldCap, copied, request, moving, answer>>

\* __rehash: the next slot of the old array; after the last one um_set goes on
\* with the entry of the caller.
CopyButLast == oldCap - 1             \* mutant: the last slot is forgotten
CopyEnd == oldCap

RehashSkip ==
  /\ pc = "rehash" /\ copied < CopyEnd
  /\ old[copied] = Empty
  /\ copied' = copied + 1
  /\ UNCHANGED <<cap, len, slots, old, oldCap, request, pc, moving, hashed, answer>>

RehashMove ==
  /\ pc = "rehash" /\ copied < CopyEnd
  /\ old[copied] # Empty
  /\ moving' = old[copied]
  /\ pc' = "check"
  /\ UNCHANGED <<cap, len, slots, old, oldCap, copied, request, hashed, answer>>

RehashDone ==
  /\ pc = "rehash" /\ copied = CopyEnd
  /\ old' = <<>>
  /\ oldCap' = 0
  /\ copied' = 0
  /\ moving' = [key |-> request.key, val |-> request.val]
  /\ hashed' = Home(request.key)
  /\ pc' = "probe"
  /\ UNCHANGED <<cap, len, slots, request, answer>>

\* One round of the loop of um_set or um_get.
Wanted == IF request.op = "set" THEN moving.key ELSE request.key
Free   == slots[hashed] = Empty
MatchesNone == FALSE                  \* mutants: no key is ever found again,
MatchesAny  == ~ Free                 \* keys are compared by size only
Matches == ~ Free /\ slots[hashed].key = Wanted

ProbeOn ==
  /\ pc = "probe" /\ ~ Free /\ ~ Matches
  /\ hashed' = After(hashed)
  /\ UNCHANGED <<cap, len, slots, old, oldCap, copied, request, pc, moving, answer>>

\* um_set returns: to the loop of __rehash, or to its caller.
LenAlwaysUp == len + 1                \* mutant: an overwrite counts too
LenAfterPut == IF Free THEN len + 1 ELSE len

Put ==
  /\ pc = "probe" /\ request.op = "set" /\ (Free \/ Matches)
  /\ slots' = [slots EXCEPT ![hashed] = moving]
  /\ len' = LenAfterPut
  /\ IF oldCap # 0
     THEN pc' = "rehash" /\ copied' = copied + 1 /\ UNCHANGED request
     ELSE pc' = "idle" /\ request' = Idle /\ UNCHANGED copied
  /\ moving' = Empty /\ hashed' = 0
  /\ UNCHANGED <<cap, old, oldCap, answer>>

Found ==
  /\ pc = "probe" /\ request.op = "get" /\ (Free \/ Matches)
  /\ answer' = IF Free THEN NULL ELSE slots[hashed].val
  /\ pc' = "idle"
  /\ request' = Idle
  /\ hashed' = 0
  /\ UNCHANGED <<cap, len, slots, old, oldCap, copied, moving>>

Init ==
  /\ cap = InitialCap
  /\ len = 0
  /\ slots = [s \in 0..InitialCap-1 |-> Empty]
  /\ old = <<>>
  /\ oldCap = 0
  /\ copied = 0
  /\ request = Idle
  /\ pc = "idle"
  /\ moving = Empty
  /\ hashed = 0
  /\ answer = NULL

Next ==
  \/ \E k \in Keys : CallGet(k) \/ \E v \in Values : CallSet(k, v)
  \/ CheckRatio \/ RehashSkip \/ RehashMove \/ RehashDone
  \/ ProbeOn \/ Put \/ Found

Spec == Init /\ [][Next]_vars

\* A call goes on until it returns; nobody has to call.
Working == CheckRatio \/ RehashSkip \/ RehashMove \/ RehashDone \/ ProbeOn \/ Put \/ Found
FairSpec == Spec /\ WF_vars(Working)

-----------------------------------------------------------------------------
Slots == 0..cap-1
Taken == {s \in Slots : slots[s] # Empty}

\* Every variable has its type.
TypeOK ==
  /\ cap \in Nat /\ cap >= 4
  /\ len \in 0..cap
  /\ slots \in [0..cap-1 -> Entry \cup {Empty}]
  /\ oldCap \in Nat
  /\ old \in [0..oldCap-1 -> Entry \cup {Empty}]
  /\ copied \in 0..oldCap
  /\ request \in Requests \cup {Idle}
  /\ pc \in {"idle", "check", "rehash", "probe"}
  /\ moving \in Entry \cup {Empty}
  /\ hashed \in Slots
  /\ answer \in Values \cup {NULL}

\* `len', which decides when to grow, is the number of slots in use.
LenCounts == len = Cardinality(Taken)

\* There is always a free slot, also while the ratio is not checked: the
\* probing loops of um_set and um_get have no other end when a key is absent.
FreeSlot == Taken # Slots

\* The slots from i on, wrapping around, before slot j.
Between(i, j) == {s \in Slots : IF i =< j THEN i =< s /\ s < j ELSE i =< s \/ s < j}

\* From the home of a key to its slot every slot is in use, so that a probe
\* cannot stop early; the home is another one after each rehash.
Reachable ==
  \A s \in Taken : Between(Home(slots[s].key), s) \subseteq Taken

\* No key has two slots, though um_set looks no further than the first match
\* or free slot.
OneSlotPerKey ==
  \A s, t \in Taken : slots[s].key = slots[t].key => s = t

\* Copying into an array of twice the size never makes um_set grow the map
\* again under the loop of __rehash, on whose array and bounds it works.
NoNestedRehash == pc = "check" /\ TooFull => oldCap = 0

(***************************************************************************)
(* The map the array stands for: during a rehash an entry not yet copied   *)
(* is still found in the old array.                                        *)
(***************************************************************************)
Held(k)    == {s \in Slots : slots[s] # Empty /\ slots[s].key = k}
Waiting(k) == {s \in copied..oldCap-1 : old[s] # Empty /\ old[s].key = k}

Stored(k) ==
  IF Held(k) # {} THEN slots[CHOOSE s \in Held(k) : TRUE].val
  ELSE IF Waiting(k) # {} THEN old[CHOOSE s \in Waiting(k) : TRUE].val
  ELSE NULL

\* um_set and um_get are those of a map: collisions, wrapping around the end
\* of the array and growing change nothing a caller can see.
Map == INSTANCE MapSpec WITH map <- [k \in Keys |-> Stored(k)]
ImplementsMap == Map!Spec

\* Every call returns.
CallsReturn == (pc # "idle") ~> (pc = "idle")
=============================================================================
