---------------------------- MODULE HashMapProofs ----------------------------
(***************************************************************************)
(* The hash map implements a map, for every set of keys and of values,     *)
(* every hash function and every initial capacity of at least 4.           *)
(*                                                                         *)
(* None of the properties is inductive alone. That no key has two slots    *)
(* needs what a probe has seen (Probed) and that probes cannot stop early  *)
(* (Reachable); that there is a free slot needs how full the array may be  *)
(* at each point of a call (Room), and that the copying loop puts at most  *)
(* one entry per slot of the old array; that nothing is lost or found      *)
(* twice meanwhile needs the two arrays to share no key (Apart).           *)
(***************************************************************************)
EXTENDS HashMap, FiniteSetTheorems, TLAPS

\* Where a call is, and whose entry its probing loop is about to put down.
Moved == IF oldCap = 0 THEN [key |-> request.key, val |-> request.val] ELSE old[copied]

Phases ==
  /\ pc = "idle" <=> request = Idle
  /\ pc \in {"check", "rehash"} => request.op = "set"
  /\ pc = "rehash" => oldCap # 0
  /\ oldCap # 0 => request.op = "set"
  /\ pc \in {"check", "probe"} /\ request.op = "set" => moving = Moved
  /\ pc \in {"check", "probe"} /\ oldCap # 0 => copied < oldCap /\ old[copied] # Empty

\* How full the array may be. The ratio is 0.7 when a probe for um_set begins,
\* and one entry more when it has ended.
Room ==
  /\ oldCap = 0 => 10 * (len - 1) =< 7 * cap
  /\ oldCap = 0 /\ pc = "probe" /\ request.op = "set" => 10 * len =< 7 * cap
  /\ oldCap # 0 => cap = 2 * oldCap /\ len =< copied

\* A probe has passed slots in use only, and none of the key it looks for.
Probed ==
  pc = "probe" =>
    /\ Between(Home(Wanted), hashed) \subseteq Taken
    /\ \A s \in Between(Home(Wanted), hashed) : slots[s].key # Wanted

\* In the old array, too, every key has one slot at most.
OldUnique ==
  \A s, t \in 0..oldCap-1 :
    old[s] # Empty /\ old[t] # Empty /\ old[s].key = old[t].key => s = t

\* What still waits to be copied is not in the new array.
Apart ==
  \A s \in Taken : \A t \in copied..oldCap-1 :
    old[t] # Empty => old[t].key # slots[s].key

Inv ==
  /\ TypeOK /\ Phases /\ Room
  /\ LenCounts /\ Reachable /\ OneSlotPerKey
  /\ Probed /\ OldUnique /\ Apart

USE NullAssumption, HashAssumption, InitialCapAssumption

-----------------------------------------------------------------------------
(***************************************************************************)
(* Slots in the order of a probe.                                          *)
(***************************************************************************)

\* A free slot, whose key is NULL, is no entry.
LEMMA EmptyIsNoEntry == Empty \notin Entry
  BY DEF Empty, Entry

\* A probe starts inside the array.
LEMMA HomeIsSlot ==
  ASSUME cap \in Nat, cap >= 4, NEW k \in Keys
  PROVE  Home(k) \in Slots
  BY DEF Home, Slots

\* It stays there.
LEMMA AfterIsSlot ==
  ASSUME cap \in Nat, NEW s \in Slots
  PROVE  After(s) \in Slots
  BY DEF After, Slots

\* One round of a probe passes one slot more, or has come back to its start.
LEMMA BetweenAfter ==
  ASSUME cap \in Nat, NEW h \in Slots, NEW s \in Slots
  PROVE  Between(h, After(s)) \subseteq Between(h, s) \cup {s}
  BY DEF Between, After, Slots

\* Nothing is passed at the start.
LEMMA BetweenStart ==
  ASSUME cap \in Nat, NEW h \in Slots
  PROVE  Between(h, h) = {}
  BY DEF Between, Slots

\* Of two slots, a probe passes one before it reaches the other.
LEMMA BetweenOrder ==
  ASSUME cap \in Nat, NEW h \in Slots, NEW s \in Slots, NEW t \in Slots,
         s # t, s \notin Between(h, t)
  PROVE  t \in Between(h, s)
  BY DEF Between, Slots

\* A probe that ends at a free slot has found that its key is not in the array.
LEMMA AbsentAtFree ==
  ASSUME TypeOK, Reachable, Probed, pc = "probe", Free, Wanted \in Keys
  PROVE  \A t \in Taken : slots[t].key # Wanted
<1> SUFFICES ASSUME NEW t \in Taken, slots[t].key = Wanted PROVE FALSE
  OBVIOUS
<1>1. cap \in Nat /\ hashed \in Slots /\ t \in Slots /\ Home(Wanted) \in Slots
  BY HomeIsSlot DEF TypeOK, Taken
<1>2. hashed \notin Taken /\ t # hashed
  BY DEF Free, Taken
<1>3. hashed \notin Between(Home(Wanted), t)
  BY <1>2 DEF Reachable
<1>4. t \in Between(Home(Wanted), hashed)
  BY <1>1, <1>2, <1>3, BetweenOrder
<1> QED
  BY <1>4 DEF Probed

-----------------------------------------------------------------------------
(***************************************************************************)
(* The number of slots in use.                                             *)
(***************************************************************************)

\* The slots are as many as the capacity, and those in use finitely many.
LEMMA Counting ==
  ASSUME cap \in Nat
  PROVE  /\ IsFiniteSet(Slots) /\ Cardinality(Slots) = cap
         /\ IsFiniteSet(Taken) /\ Cardinality(Taken) \in Nat /\ Cardinality(Taken) =< cap
<1>1. IsFiniteSet(Slots) /\ Cardinality(Slots) = cap
  BY FS_Interval DEF Slots
<1>2. Taken \in SUBSET Slots
  BY DEF Taken
<1>3. IsFiniteSet(Taken) /\ Cardinality(Taken) =< Cardinality(Slots)
  BY <1>1, <1>2, FS_Subset
<1>4. Cardinality(Taken) \in Nat
  BY <1>3, FS_CardinalityType
<1> QED
  BY <1>1, <1>3, <1>4

\* The array is never full.
LEMMA NotFull == Inv => len < cap
  BY DEF Inv, TypeOK, Room

\* A full array would hold as many entries as it has slots.
LEMMA FreeSlotFromInv == Inv => FreeSlot
<1> SUFFICES ASSUME Inv, Taken = Slots PROVE FALSE
  BY DEF FreeSlot
<1> QED
  BY Counting, NotFull DEF Inv, TypeOK, LenCounts

\* The copying loop puts one entry per slot of the old array, and the new one
\* is twice as long: the ratio is not reached.
LEMMA NoNestedRehashFromInv == Inv => NoNestedRehash
  BY DEF Inv, TypeOK, Room, NoNestedRehash, TooFull

-----------------------------------------------------------------------------
(***************************************************************************)
(* Each step keeps the invariant.                                          *)
(***************************************************************************)

\* The map starts with an empty array.
LEMMA InitInv == Init => Inv
<1> SUFFICES ASSUME Init PROVE Inv
  OBVIOUS
<1> USE DEF Init
<1>1. TypeOK
  BY DEF TypeOK, Slots
<1>2. Taken = {}
  BY DEF Taken, Slots
<1>3. Phases /\ Room
  BY DEF Phases, Room, Idle
<1>4. LenCounts
  BY <1>2, FS_EmptySet DEF LenCounts
<1>5. Reachable /\ OneSlotPerKey /\ Probed /\ OldUnique /\ Apart
  BY <1>2 DEF Reachable, OneSlotPerKey, Probed, OldUnique, Apart
<1> QED
  BY <1>1, <1>3, <1>4, <1>5 DEF Inv

\* What is said of the array holds as long as the array stays.
LEMMA SameArray ==
  ASSUME Inv, UNCHANGED <<cap, len, slots>>
  PROVE  Taken' = Taken /\ LenCounts' /\ Reachable' /\ OneSlotPerKey'
<1>1. Taken' = Taken /\ Slots' = Slots
  BY DEF Taken, Slots
<1>2. \A i, j : Between(i, j)' = Between(i, j)
  BY DEF Between, Slots
<1>3. \A k : Home(k)' = Home(k)
  BY DEF Home
<1> QED
  BY <1>1, <1>2, <1>3 DEF Inv, LenCounts, Reachable, OneSlotPerKey

\* A call begins where no other is under way.
LEMMA CallSetInv ==
  ASSUME Inv, NEW k \in Keys, NEW v \in Values, CallSet(k, v)
  PROVE  Inv'
<1> USE DEF CallSet
<1>1. TypeOK'
  BY DEF Inv, TypeOK, Requests, Entry, Slots
<1>2. oldCap = 0 /\ copied = 0
  BY DEF Inv, TypeOK, Phases, Idle
<1>3. Phases' /\ Room' /\ Probed'
  BY <1>2 DEF Inv, Phases, Room, Probed, Moved, Idle, Set
<1>4. OldUnique' /\ Apart'
  BY <1>2, SameArray DEF Inv, TypeOK, OldUnique, Apart
<1> QED
  BY <1>1, <1>3, <1>4, SameArray DEF Inv

LEMMA CallGetInv ==
  ASSUME Inv, NEW k \in Keys, CallGet(k)
  PROVE  Inv'
<1> USE DEF CallGet
<1>1. oldCap = 0 /\ copied = 0 /\ cap \in Nat /\ cap >= 4 /\ Home(k) \in Slots
  BY HomeIsSlot DEF Inv, TypeOK, Phases, Idle
<1>2. TypeOK'
  BY <1>1 DEF Inv, TypeOK, Requests, Slots
<1>3. Phases' /\ Room'
  BY <1>1 DEF Inv, Phases, Room, Idle, Get
<1>4. Probed'
  <2>1. Wanted' = k /\ hashed' = Home(k) /\ Home(k)' = Home(k)
    BY DEF Wanted, Get, Home
  <2>2. Between(Home(k), Home(k))' = {}
    BY <1>1 DEF Between, Slots, Home
  <2> QED
    BY <2>1, <2>2 DEF Probed
<1>5. OldUnique' /\ Apart'
  BY <1>1, SameArray DEF Inv, TypeOK, OldUnique, Apart
<1> QED
  BY <1>2, <1>3, <1>4, <1>5, SameArray DEF Inv

\* um_set grows the map: the array becomes the old one, the new one is empty.
LEMMA GrowInv ==
  ASSUME Inv, CheckRatio, TooFull
  PROVE  Inv'
<1> USE DEF CheckRatio
<1>1. oldCap = 0 /\ request.op = "set" /\ cap \in Nat /\ cap >= 4
  BY NoNestedRehashFromInv DEF Inv, TypeOK, Phases, NoNestedRehash
<1>2. TypeOK'
  BY <1>1 DEF Inv, TypeOK, Slots
<1>3. Taken' = {}
  BY <1>1 DEF Taken, Slots
<1>4. Phases' /\ Room' /\ Probed'
  BY <1>1 DEF Inv, Phases, Room, Probed, Idle
<1>5. LenCounts'
  BY <1>3, FS_EmptySet DEF LenCounts
<1>6. Reachable' /\ OneSlotPerKey' /\ Apart'
  BY <1>3 DEF Reachable, OneSlotPerKey, Apart
<1>7. OldUnique'
  BY <1>1 DEF Inv, OldUnique, OneSlotPerKey, Taken, Slots
<1> QED
  BY <1>2, <1>4, <1>5, <1>6, <1>7 DEF Inv

\* The probing loop of um_set begins at the home of its key.
LEMMA BeginProbeInv ==
  ASSUME Inv, CheckRatio, ~ TooFull
  PROVE  Inv'
<1> USE DEF CheckRatio
<1>1. request.op = "set" /\ cap \in Nat /\ cap >= 4 /\ request \in Requests
  BY DEF Inv, TypeOK, Phases, Idle
<1>2. moving \in Entry
  <2>1. CASE oldCap = 0
    BY <1>1, <2>1 DEF Inv, Phases, Moved, Requests, Set, Get, Entry
  <2>2. CASE oldCap # 0
    <3>1. copied \in 0..oldCap-1 /\ old[copied] # Empty /\ moving = old[copied]
      BY <1>1, <2>2 DEF Inv, TypeOK, Phases, Moved
    <3> QED
      BY <3>1 DEF Inv, TypeOK
  <2> QED
    BY <2>1, <2>2
<1>3. Home(moving.key) \in Slots
  BY <1>1, <1>2, HomeIsSlot DEF Entry
<1>4. TypeOK'
  BY <1>3 DEF Inv, TypeOK, Slots
<1>5. Phases'
  BY <1>1 DEF Inv, TypeOK, Phases, Moved, Idle
<1>6. Room'
  <2>1. Room /\ 10 * len =< 7 * cap /\ UNCHANGED <<oldCap, len, cap, copied>>
    BY <1>1 DEF Inv, TypeOK, TooFull
  <2>2. len \in Nat /\ cap \in Nat
    BY DEF Inv, TypeOK
  <2> QED
    BY <2>1, <2>2 DEF Room
<1>7. Probed'
  <2>1. Wanted' = moving.key /\ hashed' = Home(moving.key)
    BY <1>1 DEF Wanted
  <2>2. Home(moving.key)' = Home(moving.key)
    BY DEF Home
  <2>3. Between(Home(moving.key), Home(moving.key))' = {}
    BY <1>1, <1>3, <2>2 DEF Between, Slots
  <2> QED
    BY <2>1, <2>2, <2>3 DEF Probed
<1>8. OldUnique' /\ Apart'
  BY SameArray DEF Inv, OldUnique, Apart
<1> QED
  BY <1>4, <1>5, <1>7, <1>8, <1>6, SameArray DEF Inv

\* The copying loop passes a free slot of the old array.
LEMMA RehashSkipInv == ASSUME Inv, RehashSkip PROVE Inv'
<1> USE DEF RehashSkip
<1>1. copied \in 0..oldCap-1 /\ oldCap \in Nat
  BY DEF Inv, TypeOK, CopyEnd
<1>2. TypeOK' /\ Phases' /\ Room' /\ Probed'
  BY <1>1 DEF Inv, TypeOK, Phases, Room, Probed, Slots, Moved
<1>3. OldUnique'
  BY DEF Inv, OldUnique
<1>4. Apart'
  BY <1>1, SameArray DEF Inv, Apart
<1> QED
  BY <1>2, <1>3, <1>4, SameArray DEF Inv

\* It calls um_set for the entry of a slot in use.
LEMMA RehashMoveInv == ASSUME Inv, RehashMove PROVE Inv'
<1> USE DEF RehashMove
<1>1. copied \in 0..oldCap-1 /\ oldCap \in Nat /\ oldCap # 0
  BY DEF Inv, TypeOK, Phases, CopyEnd
<1>2. TypeOK'
  BY <1>1 DEF Inv, TypeOK, Slots
<1>3. Phases' /\ Room' /\ Probed'
  BY <1>1 DEF Inv, Phases, Room, Probed, Moved, Idle
<1>4. OldUnique' /\ Apart'
  BY SameArray DEF Inv, OldUnique, Apart
<1> QED
  BY <1>2, <1>3, <1>4, SameArray DEF Inv

\* After the last slot the caller's entry is put, without checking the ratio
\* again: the new array is at most half full.
LEMMA RehashDoneInv == ASSUME Inv, RehashDone PROVE Inv'
<1> USE DEF RehashDone
<1>1. /\ request.op = "set" /\ request \in Requests
      /\ cap \in Nat /\ cap >= 4 /\ cap = 2 * oldCap /\ len =< oldCap
  BY DEF Inv, TypeOK, Phases, Room, Idle, CopyEnd
<1>2. request.key \in Keys /\ request.val \in Values
  BY <1>1 DEF Requests, Set, Get
<1>3. Home(request.key) \in Slots
  BY <1>1, <1>2, HomeIsSlot
<1>4. TypeOK'
  BY <1>2, <1>3 DEF Inv, TypeOK, Slots, Entry
<1>5. Phases' /\ Room'
  BY <1>1 DEF Inv, TypeOK, Phases, Room, Moved, Idle
<1>6. Probed'
  <2>1. Wanted' = request.key /\ hashed' = Home(request.key)
    BY <1>1 DEF Wanted
  <2>2. Home(request.key)' = Home(request.key)
    BY DEF Home
  <2>3. Between(Home(request.key), Home(request.key))' = {}
    BY <1>1 DEF Between, Slots, Home
  <2> QED
    BY <2>1, <2>2, <2>3 DEF Probed
<1>7. OldUnique' /\ Apart'
  BY DEF OldUnique, Apart
<1> QED
  BY <1>4, <1>5, <1>6, <1>7, SameArray DEF Inv

\* The entry that um_set is about to put down is one.
LEMMA MovingIsEntry ==
  ASSUME Inv, pc = "probe", request.op = "set"
  PROVE  moving \in Entry /\ Wanted = moving.key
<1>1. CASE oldCap = 0
  BY <1>1 DEF Inv, TypeOK, Phases, Moved, Requests, Set, Get, Idle, Entry, Wanted
<1>2. CASE oldCap # 0
  <2>1. copied \in 0..oldCap-1 /\ old[copied] # Empty /\ moving = old[copied]
    BY <1>2 DEF Inv, TypeOK, Phases, Moved
  <2> QED
    BY <2>1 DEF Inv, TypeOK, Wanted
<1> QED
  BY <1>1, <1>2

\* A probe looks for a key.
LEMMA WantedIsKey ==
  ASSUME Inv, pc = "probe"
  PROVE  Wanted \in Keys
<1>1. CASE request.op = "set"
  BY <1>1, MovingIsEntry DEF Entry
<1>2. CASE request.op # "set"
  BY <1>2 DEF Inv, TypeOK, Phases, Requests, Set, Get, Idle, Wanted
<1> QED
  BY <1>1, <1>2

\* The probe goes on: the slot it leaves is in use, by another key.
LEMMA ProbeOnInv == ASSUME Inv, ProbeOn PROVE Inv'
<1> USE DEF ProbeOn
<1>1. cap \in Nat /\ cap >= 4 /\ hashed \in Slots /\ Wanted \in Keys /\ Home(Wanted) \in Slots
  BY WantedIsKey, HomeIsSlot DEF Inv, TypeOK
<1>2. hashed \in Taken /\ slots[hashed].key # Wanted
  BY <1>1 DEF Free, Matches, Taken
<1>3. TypeOK'
  BY <1>1, AfterIsSlot DEF Inv, TypeOK, Slots
<1>4. Phases' /\ Room'
  BY DEF Inv, Phases, Room, Moved
<1>5. Probed'
  <2>1. Wanted' = Wanted /\ hashed' = After(hashed) /\ Home(Wanted)' = Home(Wanted)
    BY DEF Wanted, Home
  <2>2. Between(Home(Wanted), hashed)' = Between(Home(Wanted), After(hashed))
    BY <2>1 DEF Between, Slots
  <2>3. Between(Home(Wanted), After(hashed)) \subseteq Between(Home(Wanted), hashed) \cup {hashed}
    BY <1>1, BetweenAfter
  <2> QED
    BY <1>2, <2>1, <2>2, <2>3, SameArray DEF Inv, Probed
<1>6. OldUnique' /\ Apart'
  BY SameArray DEF Inv, OldUnique, Apart
<1> QED
  BY <1>3, <1>4, <1>5, <1>6, SameArray DEF Inv

\* um_set puts its entry into a free slot or over the one of the same key.
LEMMA PutInv == ASSUME Inv, Put PROVE Inv'
<1> USE DEF Put
<1>1. /\ pc = "probe" /\ request.op = "set" /\ cap' = cap /\ cap \in Nat /\ cap >= 4
      /\ hashed \in Slots /\ moving \in Entry /\ Wanted = moving.key
      /\ Wanted \in Keys /\ Home(Wanted) \in Slots /\ len \in Nat /\ len < cap
  BY MovingIsEntry, WantedIsKey, HomeIsSlot, NotFull DEF Inv, TypeOK
<1>2. /\ slots \in [Slots -> Entry \cup {Empty}]
      /\ slots'[hashed] = moving
      /\ \A s \in Slots \ {hashed} : slots'[s] = slots[s]
  BY <1>1 DEF Inv, TypeOK, Slots
<1>3. Slots' = Slots /\ Taken' = Taken \cup {hashed} /\ (hashed \in Taken <=> ~ Free)
  BY <1>1, <1>2, EmptyIsNoEntry DEF Taken, Slots, Free
<1>4. ASSUME NEW t \in Taken, t # hashed
      PROVE  slots[t].key # moving.key
  <2>1. CASE Free
    BY <1>1, <1>4, <2>1, AbsentAtFree DEF Inv
  <2>2. CASE Matches
    BY <1>1, <1>3, <1>4, <2>2 DEF Inv, OneSlotPerKey, Matches
  <2> QED
    BY <2>1, <2>2
<1>5. len' = IF Free THEN len + 1 ELSE len
  BY DEF LenAfterPut
<1>6. TypeOK'
  <2>1. slots' \in [0..cap'-1 -> Entry \cup {Empty}]
    BY <1>1, <1>2 DEF Slots
  <2>2. copied' \in 0..oldCap'
    BY <1>1 DEF Inv, TypeOK, Phases
  <2> QED
    BY <1>1, <1>5, <2>1, <2>2 DEF Inv, TypeOK, Slots
<1>7. Phases'
  BY <1>1 DEF Inv, TypeOK, Phases, Idle
<1>8. Room'
  BY <1>1, <1>5 DEF Inv, TypeOK, Room
<1>9. LenCounts'
  <2>1. Cardinality(Taken \cup {hashed}) = IF hashed \in Taken THEN len ELSE len + 1
    BY <1>1, Counting, FS_AddElement DEF Inv, LenCounts
  <2> QED
    BY <1>3, <1>5, <2>1 DEF LenCounts
<1>10. Reachable'
  <2> SUFFICES ASSUME NEW s \in Taken' PROVE Between(Home(slots[s].key), s)' \subseteq Taken'
    BY DEF Reachable
  <2>1. \A h : Between(h, s)' = Between(h, s)
    BY <1>3 DEF Between
  <2>2. \A k : Home(k)' = Home(k)
    BY <1>1 DEF Home
  <2>3. CASE s = hashed
    BY <1>1, <1>2, <1>3, <2>1, <2>2, <2>3 DEF Inv, Probed
  <2>4. CASE s # hashed
    BY <1>2, <1>3, <2>1, <2>2, <2>4 DEF Inv, Reachable, Taken
  <2> QED
    BY <2>3, <2>4
<1>11. OneSlotPerKey'
  BY <1>1, <1>2, <1>3, <1>4 DEF Inv, OneSlotPerKey, Taken
<1>12. Probed' /\ OldUnique'
  BY DEF Inv, Probed, OldUnique
<1>13. Apart'
  <2> SUFFICES ASSUME NEW s \in Taken', NEW t \in copied'..oldCap-1, old[t] # Empty
               PROVE  old[t].key # slots'[s].key
    BY DEF Apart
  <2>1. oldCap # 0 /\ oldCap \in Nat /\ copied \in Nat /\ copied' = copied + 1
    BY DEF Inv, TypeOK
  <2>2. CASE s = hashed
    BY <1>1, <1>2, <2>1, <2>2 DEF Inv, Phases, Moved, OldUnique
  <2>3. CASE s # hashed
    BY <1>2, <1>3, <2>1, <2>3 DEF Inv, Apart, Taken
  <2> QED
    BY <2>2, <2>3
<1> QED
  BY <1>6, <1>7, <1>8, <1>9, <1>10, <1>11, <1>12, <1>13 DEF Inv

\* um_get returns.
LEMMA FoundInv == ASSUME Inv, Found PROVE Inv'
<1> USE DEF Found
<1>1. oldCap = 0 /\ copied = 0 /\ cap \in Nat /\ cap >= 4 /\ hashed \in Slots
  BY DEF Inv, TypeOK, Phases
<1>2. answer' \in Values \cup {NULL}
  BY <1>1 DEF Inv, TypeOK, Free, Entry, Slots
<1>3. TypeOK'
  BY <1>1, <1>2 DEF Inv, TypeOK, Slots
<1>4. Phases' /\ Room' /\ Probed'
  BY <1>1 DEF Inv, Phases, Room, Probed, Idle
<1>5. OldUnique' /\ Apart'
  BY <1>1, SameArray DEF Inv, OldUnique, Apart
<1> QED
  BY <1>3, <1>4, <1>5, SameArray DEF Inv

\* Every step keeps the invariant.
LEMMA StepInv == Inv /\ [Next]_vars => Inv'
<1> SUFFICES ASSUME Inv, [Next]_vars PROVE Inv'
  OBVIOUS
<1>1. CASE \E k \in Keys : CallGet(k) \/ \E v \in Values : CallSet(k, v)
  BY <1>1, CallGetInv, CallSetInv
<1>2. CASE CheckRatio
  BY <1>2, GrowInv, BeginProbeInv
<1>3. CASE RehashSkip
  BY <1>3, RehashSkipInv
<1>4. CASE RehashMove
  BY <1>4, RehashMoveInv
<1>5. CASE RehashDone
  BY <1>5, RehashDoneInv
<1>6. CASE ProbeOn
  BY <1>6, ProbeOnInv
<1>7. CASE Put
  BY <1>7, PutInv
<1>8. CASE Found
  BY <1>8, FoundInv
<1>9. CASE UNCHANGED vars
  <2>1. UNCHANGED <<cap, len, slots>>
    BY <1>9 DEF vars
  <2>2. TypeOK' /\ Phases' /\ Room'
    BY <1>9 DEF Inv, vars, TypeOK, Slots, Phases, Moved, Room
  <2>3. Probed'
    BY <1>9 DEF Inv, vars, Probed, Between, Slots, Home, Wanted, Taken
  <2>4. OldUnique' /\ Apart'
    BY <1>9, <2>1, SameArray DEF Inv, vars, OldUnique, Apart
  <2> QED
    BY <2>1, <2>2, <2>3, <2>4, SameArray DEF Inv
<1> QED
  BY <1>1, <1>2, <1>3, <1>4, <1>5, <1>6, <1>7, <1>8, <1>9 DEF Next

\* What the array holds, how full it is and how far a call has come fit
\* together at each round of the loops of um_set, um_get and __rehash.
THEOREM MapInvariant == Spec => []Inv
  BY InitInv, StepInv, PTL DEF Spec

\* No loop of hashmap.h leaves the array it works on.
THEOREM MapTypeOK == Spec => []TypeOK
  BY MapInvariant, PTL DEF Inv

\* unordered_map_t.len is the number of slots in use, at each round.
THEOREM MapLenCounts == Spec => []LenCounts
  BY MapInvariant, PTL DEF Inv

\* A probing loop always finds its key or a free slot.
THEOREM MapFreeSlot == Spec => []FreeSlot
  BY MapInvariant, FreeSlotFromInv, PTL

\* No probe stops before the slot of its key.
THEOREM MapReachable == Spec => []Reachable
  BY MapInvariant, PTL DEF Inv

\* No key is put into a second slot.
THEOREM MapOneSlotPerKey == Spec => []OneSlotPerKey
  BY MapInvariant, PTL DEF Inv

\* um_set, called by the loop of __rehash, never calls __rehash.
THEOREM MapNoNestedRehash == Spec => []NoNestedRehash
  BY MapInvariant, NoNestedRehashFromInv, PTL

-----------------------------------------------------------------------------
(***************************************************************************)
(* The refinement.                                                         *)
(***************************************************************************)

\* A key stands for the value of its slot in the array, else of its slot in
\* the rest of the old one, else for none.
Lookup ==
  \A k \in Keys :
    /\ \A s \in Taken : slots[s].key = k => Stored(k) = slots[s].val
    /\ \A t \in copied..oldCap-1 :
         old[t] # Empty /\ old[t].key = k => Stored(k) = old[t].val
    /\ \/ \E s \in Taken : slots[s].key = k
       \/ \E t \in copied..oldCap-1 : old[t] # Empty /\ old[t].key = k
       \/ Stored(k) = NULL

\* The map the array stands for is determined: a key has one slot in all.
LEMMA LookupFromInv == Inv => Lookup
<1> SUFFICES ASSUME Inv PROVE Lookup
  OBVIOUS
<1>1. ASSUME NEW s \in Taken
      PROVE  Stored(slots[s].key) = slots[s].val
  <2>1. Held(slots[s].key) = {s}
    BY DEF Inv, OneSlotPerKey, Held, Taken
  <2> QED
    BY <2>1 DEF Stored
<1>2. ASSUME NEW t \in copied..oldCap-1, old[t] # Empty
      PROVE  Stored(old[t].key) = old[t].val
  <2>1. Held(old[t].key) = {}
    BY <1>2 DEF Inv, Apart, Held, Taken
  <2>2. Waiting(old[t].key) = {t}
    BY <1>2 DEF Inv, TypeOK, OldUnique, Waiting
  <2> QED
    BY <2>1, <2>2 DEF Stored
<1>3. ASSUME NEW k \in Keys,
             \A s \in Taken : slots[s].key # k,
             \A t \in copied..oldCap-1 : old[t] # Empty => old[t].key # k
      PROVE  Stored(k) = NULL
  <2>1. Held(k) = {} /\ Waiting(k) = {}
    BY <1>3 DEF Held, Waiting, Taken
  <2> QED
    BY <2>1 DEF Stored
<1> QED
  BY <1>1, <1>2, <1>3 DEF Lookup

LEMMA LookupNext == Inv' => Lookup'
  BY LookupFromInv, PTL

\* A step that leaves both arrays alone leaves the map alone.
LEMMA SameArrays ==
  ASSUME UNCHANGED <<cap, slots, old, oldCap, copied>>
  PROVE  \A k \in Keys : Stored(k)' = Stored(k)
<1> SUFFICES ASSUME NEW k \in Keys PROVE Stored(k)' = Stored(k)
  OBVIOUS
<1>1. Held(k)' = Held(k) /\ Waiting(k)' = Waiting(k)
  BY DEF Held, Waiting, Slots
<1> QED
  BY <1>1 DEF Stored

\* Growing takes every entry from the array into the old one.
LEMMA GrowKeepsMap ==
  ASSUME Inv, Inv', CheckRatio, TooFull
  PROVE  \A k \in Keys : Stored(k)' = Stored(k)
<1> SUFFICES ASSUME NEW k \in Keys PROVE Stored(k)' = Stored(k)
  OBVIOUS
<1> USE DEF CheckRatio
<1>1. oldCap = 0 /\ copied = 0 /\ cap \in Nat
  BY NoNestedRehashFromInv DEF Inv, TypeOK, NoNestedRehash
<1>2. Taken' = {}
  BY <1>1 DEF Taken, Slots
<1>3. copied'..oldCap'-1 = Slots /\ old' = slots
  BY DEF Slots
<1>4. Lookup /\ Lookup'
  BY LookupFromInv, LookupNext
<1>5. CASE \E s \in Taken : slots[s].key = k
  <2>1. PICK s \in Taken : slots[s].key = k
    BY <1>5
  <2>2. s \in copied'..oldCap'-1 /\ old'[s] # Empty /\ old'[s] = slots[s]
    BY <1>3, <2>1 DEF Taken
  <2>3. Stored(k) = slots[s].val
    BY <1>4, <2>1 DEF Lookup
  <2>4. Stored(k)' = old'[s].val
    BY <1>4, <2>1, <2>2 DEF Lookup
  <2> QED
    BY <2>2, <2>3, <2>4
<1>6. CASE \A s \in Taken : slots[s].key # k
  BY <1>1, <1>2, <1>3, <1>4, <1>6 DEF Lookup, Taken
<1> QED
  BY <1>5, <1>6

\* A free slot of the old array holds nothing.
LEMMA SkipKeepsMap ==
  ASSUME Inv, RehashSkip
  PROVE  \A k \in Keys : Stored(k)' = Stored(k)
<1> SUFFICES ASSUME NEW k \in Keys PROVE Stored(k)' = Stored(k)
  OBVIOUS
<1>1. copied \in 0..oldCap-1 /\ copied' = copied + 1 /\ old[copied] = Empty /\ oldCap \in Nat
  BY DEF Inv, TypeOK, RehashSkip, CopyEnd
<1>2. Held(k)' = Held(k)
  BY DEF RehashSkip, Held, Slots
<1>3. Waiting(k)' = Waiting(k)
  BY <1>1 DEF RehashSkip, Waiting
<1> QED
  BY <1>2, <1>3 DEF Stored, RehashSkip

\* At the end of the copying loop nothing waits in the old array.
LEMMA DoneKeepsMap ==
  ASSUME Inv, RehashDone
  PROVE  \A k \in Keys : Stored(k)' = Stored(k)
<1> SUFFICES ASSUME NEW k \in Keys PROVE Stored(k)' = Stored(k)
  OBVIOUS
<1>1. Held(k)' = Held(k)
  BY DEF RehashDone, Held, Slots
<1>2. Waiting(k) = {} /\ Waiting(k)' = {}
  BY DEF Inv, TypeOK, RehashDone, CopyEnd, Waiting
<1> QED
  BY <1>1, <1>2 DEF Stored, RehashDone

\* An entry put down is the one the map now gives for its key; no other key
\* is touched.
LEMMA PutSetsMap ==
  ASSUME Inv, Inv', Put, NEW k \in Keys
  PROVE  Stored(k)' = IF k = moving.key THEN moving.val ELSE Stored(k)
<1> USE DEF Put
<1>1. hashed \in Slots /\ moving \in Entry /\ Slots' = Slots /\ Wanted = moving.key
  BY MovingIsEntry DEF Inv, TypeOK, Slots
<1>2. slots'[hashed] = moving /\ \A s \in Slots \ {hashed} : slots'[s] = slots[s]
  BY <1>1 DEF Inv, TypeOK, Slots
<1>3. CASE k = moving.key
  <2>1. hashed \in Taken'
    BY <1>1, <1>2, EmptyIsNoEntry DEF Taken
  <2> QED
    BY <1>2, <1>3, <2>1, LookupNext DEF Lookup
<1>4. CASE k # moving.key
  <2>1. Held(k)' = Held(k) /\ hashed \notin Held(k)
    BY <1>1, <1>2, <1>4 DEF Held, Free, Matches
  <2>2. Waiting(k)' = Waiting(k)
    <3>1. CASE oldCap = 0
      BY <3>1 DEF Inv, TypeOK, Waiting
    <3>2. CASE oldCap # 0
      BY <1>4, <3>2 DEF Inv, TypeOK, Phases, Moved, Waiting
    <3> QED
      BY <3>1, <3>2
  <2>3. \A s \in Held(k) : slots'[s] = slots[s]
    BY <1>2, <2>1 DEF Held
  <2> QED
    BY <1>4, <2>1, <2>2, <2>3 DEF Stored
<1> QED
  BY <1>3, <1>4

\* Copying an entry from the old array to the new one changes nothing.
LEMMA CopyKeepsMap ==
  ASSUME Inv, Inv', Put, oldCap # 0, NEW k \in Keys
  PROVE  Stored(k)' = Stored(k)
<1>1. copied \in copied..oldCap-1 /\ old[copied] # Empty /\ moving = old[copied]
  BY DEF Inv, TypeOK, Phases, Moved, Put
<1>2. k = moving.key => Stored(k) = moving.val
  BY <1>1, LookupFromInv DEF Lookup
<1> QED
  BY <1>2, PutSetsMap

\* A request of one map is a request of the other.
LEMMA SameRequests == Map!Idle = Idle /\ Map!Requests = Requests
  BY DEF Map!Idle, Idle, Map!Requests, Requests, Map!Set, Set, Map!Get, Get

\* Every step of the hash map is a step of the map, or none.
LEMMA StepRefines == Inv /\ Inv' /\ [Next]_vars => [Map!Next]_Map!vars
<1> SUFFICES ASSUME Inv, Inv', [Next]_vars PROVE [Map!Next]_Map!vars
  OBVIOUS
<1> DEFINE map == [k \in Keys |-> Stored(k)]
<1>0. ASSUME \A k \in Keys : Stored(k)' = Stored(k)
      PROVE  map' = map
  BY <1>0
<1>1. CASE \E k \in Keys : CallGet(k) \/ \E v \in Values : CallSet(k, v)
  <2>1. request = Idle /\ request' \in Requests /\ answer' = answer
    BY <1>1 DEF CallGet, CallSet, Inv, Phases, Requests
  <2>2. map' = map
    BY <1>0, <1>1, SameArrays DEF CallGet, CallSet
  <2> QED
    BY <2>1, <2>2, SameRequests DEF Map!Next, Map!Call
<1>2. CASE CheckRatio
  <2>1. \A k \in Keys : Stored(k)' = Stored(k)
    BY <1>2, GrowKeepsMap, SameArrays DEF CheckRatio
  <2> QED
    BY <1>0, <1>2, <2>1 DEF CheckRatio, Map!vars
<1>3. CASE RehashSkip
  BY <1>0, <1>3, SkipKeepsMap DEF RehashSkip, Map!vars
<1>4. CASE RehashMove
  BY <1>0, <1>4, SameArrays DEF RehashMove, Map!vars
<1>5. CASE RehashDone
  BY <1>0, <1>5, DoneKeepsMap DEF RehashDone, Map!vars
<1>6. CASE ProbeOn
  BY <1>0, <1>6, SameArrays DEF ProbeOn, Map!vars
<1>7. CASE Put /\ oldCap # 0
  <2>1. map' = map
    BY <1>0, <1>7, CopyKeepsMap
  <2> QED
    BY <1>7, <2>1 DEF Put, Map!vars
<1>8. CASE Put /\ oldCap = 0
  <2>1. /\ moving = [key |-> request.key, val |-> request.val]
        /\ request.op = "set" /\ request' = Idle /\ answer' = answer
    BY <1>8 DEF Put, Inv, Phases, Moved
  <2>2. \A k \in Keys : Stored(k)' = IF k = request.key THEN request.val ELSE Stored(k)
    BY <1>8, <2>1, PutSetsMap
  <2>3. map' = [map EXCEPT ![request.key] = request.val]
    BY <2>2
  <2> QED
    BY <2>1, <2>3, SameRequests DEF Map!Next, Map!DoSet
<1>9. CASE Found
  <2>1. request.op = "get" /\ Wanted = request.key /\ Wanted \in Keys
    BY <1>9, WantedIsKey DEF Found, Inv, Phases, Requests, Set, Get, Wanted, TypeOK, Idle
  <2>2. map' = map
    BY <1>0, <1>9, SameArrays DEF Found
  <2>3. answer' = Stored(Wanted)
    <3>1. CASE Free
      <4>1. \A t \in Taken : slots[t].key # Wanted
        BY <1>9, <2>1, <3>1, AbsentAtFree DEF Inv, Found
      <4>2. copied..oldCap-1 = {}
        BY <2>1 DEF Inv, TypeOK, Phases
      <4> QED
        BY <1>9, <2>1, <3>1, <4>1, <4>2, LookupFromInv DEF Lookup, Found
    <3>2. CASE ~ Free
      <4>1. hashed \in Taken /\ slots[hashed].key = Wanted
        BY <1>9, <3>2 DEF Found, Matches, Free, Taken, Inv, TypeOK
      <4> QED
        BY <1>9, <2>1, <3>2, <4>1, LookupFromInv DEF Lookup, Found
    <3> QED
      BY <3>1, <3>2
  <2>4. answer' = map[request.key]
    BY <2>1, <2>3
  <2> QED
    BY <1>9, <2>1, <2>2, <2>4, SameRequests DEF Found, Map!Next, Map!DoGet
<1>10. CASE UNCHANGED vars
  BY <1>0, <1>10, SameArrays DEF vars, Map!vars
<1> QED
  BY <1>1, <1>2, <1>3, <1>4, <1>5, <1>6, <1>7, <1>8, <1>9, <1>10 DEF Next

\* um_set and um_get are those of a map from names to pointers: collisions,
\* probes that wrap around the end of the array and growing it, with a call of
\* um_set for every entry, change nothing the compiler can see.
THEOREM HashMapImplementsMap == Spec => ImplementsMap
<1>1. Init => Map!Init
  <2> SUFFICES ASSUME Init PROVE Map!Init
    OBVIOUS
  <2>1. \A k \in Keys : Stored(k) = NULL
    BY DEF Init, Stored, Held, Waiting, Slots
  <2> QED
    BY <2>1, SameRequests DEF Init, Map!Init
<1> QED
  BY <1>1, MapInvariant, StepRefines, PTL DEF Spec, ImplementsMap, Map!Spec
=============================================================================
