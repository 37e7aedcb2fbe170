---------------------------- MODULE ArraysProofs ----------------------------
(***************************************************************************)
(* The growing arrays, for every allocator, every size of a block and      *)
(* every number of elements.                                               *)
(*                                                                         *)
(* That the capacity is granted needs that the allocator never gives less  *)
(* than it is asked for; which writes leave the allocation needs, for the  *)
(* arrays that do not ask for enough, what their first block holds         *)
(* (FirstBlocks). What was written stays because no new block is too short *)
(* for what is in use, unless the same operation writes outside it.        *)
(***************************************************************************)
EXTENDS Arrays, SequenceTheorems, TLAPS

\* Every variable has its type.
TypeOK ==
  /\ kind \in Kinds
  /\ cap \in Nat /\ len \in Nat /\ cuts \in Nat
  /\ mem \in Seq(Int) /\ log \in Seq(Int)
  /\ broken \in BOOLEAN

\* The first block of the arrays whose capacity means nothing to the allocator:
\* 2 * 0 elements for the arguments and parameters, twenty for the types. A
\* stack starts with room, so that twice its capacity is more.
FirstBlocks ==
  /\ kind = "stack" => cap > 0
  /\ kind \in {"args", "params"} =>
       cap = 0 /\ (len > 0 => Len(mem) = FirstBlock)
  /\ kind = "types" /\ len =< FirstCap["types"] =>
       cap = FirstCap["types"] /\ Len(mem) = FirstCap["types"]

\* What is in use is allocated, as long as nothing was written outside.
InUse == ~ broken => len =< Len(mem)

Inv == TypeOK /\ FirstBlocks /\ InUse /\ InBounds /\ CapGranted /\ ReadBack

USE AllocatorAssumption, SizesAssumption

\* Three texts one after the other.
LEMMA Associates ==
  ASSUME NEW a \in Seq(Int), NEW b \in Seq(Int), NEW c \in Seq(Int)
  PROVE  (a \o b) \o c = a \o (b \o c)
  BY ConcatAssociative, SMTT(30)

-----------------------------------------------------------------------------
(***************************************************************************)
(* The allocator and the block it gives.                                   *)
(***************************************************************************)

\* Rounding up to a multiple of the granule never loses anything.
LEMMA RoundedUp ==
  ASSUME NEW x \in Nat
  PROVE  /\ Granule * ((x + Granule - 1) \div Granule) \in Nat
         /\ Granule * ((x + Granule - 1) \div Granule) >= x
<1> DEFINE q == (x + Granule - 1) \div Granule
<1>1. x + Granule - 1 \in Nat /\ Granule \in Nat /\ Granule > 0
  OBVIOUS
<1>2. \A a \in Nat, d \in Nat \ {0} : a \div d \in Nat /\ d * (a \div d) + (a % d) = a /\ a % d \in 0..d-1
  OBVIOUS
<1>3. q \in Nat /\ Granule * q + ((x + Granule - 1) % Granule) = x + Granule - 1
      /\ (x + Granule - 1) % Granule \in 0..Granule-1
  BY <1>1, <1>2
<1> QED
  BY <1>1, <1>3

\* malloc and realloc give at least what they are asked for.
LEMMA UsableGrants ==
  ASSUME NEW bytes \in Nat
  PROVE  Usable(bytes) \in Nat /\ Usable(bytes) >= bytes /\ Usable(bytes) >= MinChunk
<1>1. CASE bytes =< MinChunk
  BY <1>1 DEF Usable
<1>2. CASE bytes > MinChunk
  <2>1. bytes - MinChunk \in Nat
    BY <1>2
  <2> QED
    BY <1>2, <2>1, RoundedUp DEF Usable
<1> QED
  BY <1>1, <1>2

\* realloc keeps what fits.
LEMMA ReallocatedKeeps ==
  ASSUME TypeOK, NEW bytes \in Nat
  PROVE  /\ Reallocated(bytes) \in Seq(Int)
         /\ Len(Reallocated(bytes)) = Usable(bytes) \div Element[kind]
         /\ \A i \in 1..Len(mem) :
              i =< Len(Reallocated(bytes)) => Reallocated(bytes)[i] = mem[i]
<1>1. Element[kind] \in Nat \ {0}
  BY DEF TypeOK, Kinds, Element
<1>2. Usable(bytes) \div Element[kind] \in Nat
  BY <1>1, UsableGrants
<1> DEFINE n == Usable(bytes) \div Element[kind]
<1>3. \A i \in 1..n : (IF i =< Len(mem) THEN mem[i] ELSE Junk) \in Int
  BY DEF TypeOK, Junk
<1>4. n \in Nat /\ Reallocated(bytes) = [i \in 1..n |-> IF i =< Len(mem) THEN mem[i] ELSE Junk]
  BY <1>2 DEF Reallocated
<1> HIDE DEF n
<1>5. Reallocated(bytes) \in Seq(Int) /\ Len(Reallocated(bytes)) = n
  BY <1>3, <1>4
<1>6. \A i \in 1..Len(mem) : i =< n => Reallocated(bytes)[i] = mem[i]
  BY <1>4 DEF TypeOK
<1> QED
  BY <1>5, <1>6 DEF n

\* The block a write puts its data into.
LEMMA StoredIs ==
  ASSUME len \in Nat, NEW m \in Seq(Int), NEW data \in Seq(Int)
  PROVE  /\ Stored(m, data) \in Seq(Int) /\ Len(Stored(m, data)) = Len(m)
         /\ \A i \in 1..Len(m) : i =< len => Stored(m, data)[i] = m[i]
         /\ \A i \in 1..Len(data) : len + i =< Len(m) => Stored(m, data)[len + i] = data[i]
<1>1. \A i \in 1..Len(m) :
        (IF i - len \in 1..Len(data) THEN data[i - len] ELSE m[i]) \in Int
  OBVIOUS
<1> QED
  BY <1>1 DEF Stored

\* The data are sequences of numbers.
LEMMA DataIs ==
  ASSUME TypeOK, NEW n \in Nat
  PROVE  Data(n) \in Seq(Int) /\ Len(Data(n)) = n
<1>1. \A i \in 1..n : 2 * (len + i) + cuts \in Int
  BY DEF TypeOK
<1> QED
  BY <1>1 DEF Data

\* A write into a block that has kept what is in use: what the callers have
\* handed over before is still there, and what is handed over now is there too,
\* but for Junk, if the write stayed inside.
LEMMA WriteReads ==
  ASSUME Inv, ~ broken,
         NEW m \in Seq(Int), \A i \in 1..Len(mem) : i =< Len(m) => m[i] = mem[i],
         NEW data \in Seq(Int), NEW own \in Seq(Int),
         \A i \in 1..Len(own) : own[i] = Junk \/ (i =< Len(data) /\ own[i] = data[i]),
         Write(m, data), len' = len + Len(own), log' = log \o own
  PROVE  /\ ReadBack'
         /\ mem' \in Seq(Int) /\ Len(mem') = Len(m)
         /\ log' \in Seq(Int) /\ broken' \in BOOLEAN
         /\ broken' => len + Len(data) > Len(m)
         /\ ~ broken' => len + Len(data) =< Len(m)
<1>1. /\ len \in Nat /\ len =< Len(mem) /\ len = Len(log) /\ log \in Seq(Int) /\ mem \in Seq(Int)
      /\ \A i \in 1..len : log[i] = Junk \/ mem[i] = log[i]
  BY DEF Inv, TypeOK, InUse, ReadBack
<1>2. mem' = Stored(m, data) /\ broken' = (len + Len(data) > Len(m))
  BY DEF Write
<1>3. mem' \in Seq(Int) /\ Len(mem') = Len(m)
  BY <1>1, <1>2, StoredIs
<1>4. log' \in Seq(Int) /\ Len(log') = len + Len(own)
  BY <1>1
<1>5. ASSUME ~ broken', NEW i \in 1..len'
      PROVE  log'[i] = Junk \/ mem'[i] = log'[i]
  <2>1. ~ (len + Len(data) > Len(m))
    BY <1>2, <1>5, Zenon
  <2>2. /\ len + Len(data) =< Len(m) /\ i \in 1..len + Len(own)
        /\ Len(m) \in Nat /\ Len(data) \in Nat /\ Len(own) \in Nat
        /\ len \in Nat /\ Len(mem) \in Nat /\ len =< Len(mem)
    BY <1>1, <1>5, <2>1
  <2>3. CASE i =< len
    <3>1. i \in 1..len /\ i \in 1..Len(m) /\ i \in 1..Len(mem) /\ i =< Len(m)
      <4>1. i \in 1..len
        BY <2>2, <2>3
      <4> QED
        BY <2>2, <4>1
    <3>2. log'[i] = log[i]
      BY <1>1, <3>1
    <3>3. m[i] = mem[i]
      BY <3>1
    <3>4. Stored(m, data)[i] = m[i]
      BY <1>1, <2>3, <3>1, StoredIs
    <3> QED
      BY <1>1, <1>2, <3>1, <3>2, <3>3, <3>4
  <2>4. CASE i > len
    <3>1. i - len \in 1..Len(own) /\ log'[i] = own[i - len]
      BY <1>1, <2>4
    <3>2. CASE own[i - len] # Junk
      <4>1. i - len \in 1..Len(data) /\ own[i - len] = data[i - len]
        <5> DEFINE j == i - len
        <5>1. j \in 1..Len(own) /\ own[j] # Junk
          BY <3>1, <3>2
        <5> HIDE DEF j
        <5>2. j =< Len(data) /\ own[j] = data[j]
          BY <5>1
        <5>3. j \in 1..Len(data)
          BY <2>2, <5>1, <5>2
        <5> QED
          BY <5>2, <5>3 DEF j
      <4>2. len + (i - len) = i /\ i =< Len(m)
        BY <1>1, <2>2, <4>1
      <4>3. Stored(m, data)[len + (i - len)] = data[i - len]
        BY <1>1, <4>1, <4>2, StoredIs
      <4> QED
        BY <1>2, <3>1, <4>1, <4>2, <4>3
    <3> QED
      BY <3>1, <3>2
  <2> QED
    BY <1>1, <2>3, <2>4
<1>6. broken' => len + Len(data) > Len(m)
  BY <1>2, Zenon
<1>7. ~ broken' => len + Len(data) =< Len(m)
  <2>1. ~ broken' => ~ (len + Len(data) > Len(m))
    BY <1>2, Zenon
  <2> QED
    BY <1>1, <2>1
<1>8. broken' \in BOOLEAN
  BY <1>2
<1> QED
  BY <1>1, <1>3, <1>4, <1>5, <1>6, <1>7, <1>8 DEF ReadBack

-----------------------------------------------------------------------------
(***************************************************************************)
(* Each operation keeps the invariant.                                     *)
(***************************************************************************)

\* An array starts with the elements it was allocated for, none of them used.
LEMMA InitInv == Init => Inv
<1> SUFFICES ASSUME Init PROVE Inv
  OBVIOUS
<1>1. /\ kind \in Kinds /\ cap = FirstCap[kind] /\ cap \in Nat
      /\ len = 0 /\ cuts = 0 /\ log = <<>> /\ broken = FALSE
  BY DEF Init, Kinds, FirstCap
<1>2. mem \in Seq(Int) /\ Len(mem) = cap
  BY <1>1 DEF Init, Junk
<1>3. broken \in BOOLEAN /\ ~ broken
  BY <1>1, Zenon
<1>4. TypeOK
  BY <1>1, <1>2, <1>3 DEF TypeOK
<1>5. FirstBlocks
  BY <1>1, <1>2 DEF FirstBlocks, FirstCap, Kinds
<1>6. InUse /\ InBounds /\ CapGranted /\ ReadBack
  BY <1>1, <1>2, <1>3 DEF InUse, InBounds, CapGranted, ReadBack
<1> QED
  BY <1>4, <1>5, <1>6 DEF Inv

\* put_ast, put_type and alloc_type.
LEMMA PutInv == Inv /\ Put => Inv'
<1> SUFFICES ASSUME Inv, Put PROVE Inv'
  OBVIOUS
<1> DEFINE m == IF len = cap THEN Reallocated(Asked(2 * cap)) ELSE mem
<1>1. /\ kind \in Kinds \ {"buffer"} /\ kind' = kind /\ ~ broken /\ cuts' = cuts
      /\ cap' = (IF len = cap THEN 2 * cap ELSE cap) /\ len' = len + 1
      /\ log' = log \o Data(1) /\ Write(m, Data(1))
      /\ cap \in Nat /\ len \in Nat /\ cuts \in Nat /\ mem \in Seq(Int)
  BY DEF Inv, TypeOK, Put, May
<1>2. Asked(2 * cap) \in Nat
  BY <1>1 DEF Asked, Element, Kinds
<1>3. m \in Seq(Int) /\ \A i \in 1..Len(mem) : i =< Len(m) => m[i] = mem[i]
  BY <1>1, <1>2, ReallocatedKeeps DEF Inv
<1>4. len = cap => Len(m) = Usable(Asked(2 * cap)) \div Element[kind]
  BY <1>2, ReallocatedKeeps DEF Inv
<1>5. Data(1) \in Seq(Int) /\ Len(Data(1)) = 1
  BY DataIs DEF Inv
<1> HIDE DEF m
<1>6. /\ ReadBack' /\ mem' \in Seq(Int) /\ Len(mem') = Len(m)
      /\ log' \in Seq(Int) /\ broken' \in BOOLEAN
      /\ broken' => len + Len(Data(1)) > Len(m)
      /\ ~ broken' => len + Len(Data(1)) =< Len(m)
  <2>1. len' = len + Len(Data(1))
    BY <1>1, <1>5
  <2>2. \A i \in 1..Len(Data(1)) : i =< Len(Data(1)) /\ Data(1)[i] = Data(1)[i]
    BY <1>5
  <2> QED
    BY <1>1, <1>3, <1>5, <2>1, <2>2, WriteReads
<1>7. broken' => len + 1 > Len(m)
  BY <1>5, <1>6
<1>8. ~ broken' => len + 1 =< Len(m)
  BY <1>5, <1>6
<1>9. TypeOK'
  BY <1>1, <1>6 DEF TypeOK
<1>10. InUse'
  BY <1>1, <1>6, <1>8 DEF InUse
<1>11. CASE kind = "stack"
  <2>1. cap > 0 /\ len =< cap /\ cap =< Len(mem)
    BY <1>11 DEF Inv, FirstBlocks, CapGranted
  <2>2. len' =< cap' /\ cap' =< Len(m)
    <3>1. CASE len = cap
      <4>1. Asked(2 * cap) = 16 * cap
        BY <1>1, <1>11 DEF Asked, Element
      <4>2. Usable(Asked(2 * cap)) \in Nat /\ Usable(Asked(2 * cap)) >= 16 * cap
        BY <1>2, <4>1, UsableGrants
      <4>3. Usable(Asked(2 * cap)) \div 8 >= 2 * cap
        BY <1>1, <4>2
      <4> QED
        BY <1>1, <1>4, <1>11, <2>1, <3>1, <4>3 DEF Element
    <3>2. CASE len # cap
      BY <1>1, <2>1, <3>2 DEF m
    <3> QED
      BY <3>1, <3>2
  <2>3. ~ broken'
    BY <1>1, <1>3, <1>7, <2>2
  <2> QED
    BY <1>1, <1>6, <1>9, <1>10, <1>11, <2>1, <2>2, <2>3 DEF Inv, FirstBlocks, CapGranted, InBounds
<1>12. CASE kind \in {"args", "params"}
  <2>1. cap = 0 /\ cap' = 0 /\ (len > 0 => Len(mem) = FirstBlock)
    BY <1>1, <1>12 DEF Inv, FirstBlocks
  <2>2. Len(m) = FirstBlock
    <3>1. CASE len = 0
      <4>1. Asked(2 * cap) = 0 /\ Element[kind] = 8
        BY <1>12, <2>1 DEF Asked, Element
      <4> QED
        BY <1>4, <2>1, <3>1, <4>1 DEF Usable, FirstBlock
    <3>2. CASE len # 0
      BY <1>1, <2>1, <3>2 DEF m
    <3> QED
      BY <3>1, <3>2
  <2> QED
    BY <1>1, <1>6, <1>7, <1>9, <1>10, <1>12, <2>1, <2>2 DEF Inv, FirstBlocks, CapGranted, InBounds
<1>13. CASE kind = "types"
  <2>1. CASE len < 20
    <3>1. cap = 20 /\ cap' = 20 /\ Len(m) = 20
      BY <1>1, <1>13, <2>1 DEF Inv, FirstBlocks, FirstCap, m
    <3>2. ~ broken'
      BY <1>1, <1>7, <2>1, <3>1
    <3> QED
      BY <1>1, <1>6, <1>9, <1>10, <1>13, <3>1, <3>2 DEF Inv, FirstBlocks, FirstCap, CapGranted, InBounds
  <2>2. CASE len >= 20
    BY <1>1, <1>6, <1>9, <1>10, <1>13, <2>2 DEF Inv, FirstBlocks, FirstCap, CapGranted, InBounds
  <2> QED
    BY <1>1, <2>1, <2>2
<1> QED
  BY <1>1, <1>11, <1>12, <1>13 DEF Kinds

\* Taking back the last elements.
LEMMA ShortenInv ==
  ASSUME Inv, ~ broken, kind \in {"buffer", "stack"}, NEW n \in 0..len,
         len' = n, log' = SubSeq(log, 1, n), cuts' = cuts + 1,
         UNCHANGED <<kind, cap, mem, broken>>
  PROVE  Inv'
<1>1. /\ len \in Nat /\ cap \in Nat /\ cuts \in Nat /\ len = Len(log) /\ log \in Seq(Int)
      /\ len =< cap /\ cap =< Len(mem) /\ mem \in Seq(Int)
  BY DEF Inv, TypeOK, ReadBack, CapGranted
<1>2. /\ SubSeq(log, 1, n) \in Seq(Int) /\ Len(SubSeq(log, 1, n)) = n
      /\ \A i \in 1..n : SubSeq(log, 1, n)[i] = log[i]
  <2>1. n \in Nat /\ n =< Len(log) /\ \A i \in 1..n : log[i] \in Int
    BY <1>1
  <2> QED
    BY <1>1, <2>1, SubSeqProperties
<1>3. TypeOK'
  BY <1>1, <1>2 DEF Inv, TypeOK
<1>4. ReadBack'
  BY <1>1, <1>2 DEF Inv, ReadBack
<1> QED
  BY <1>1, <1>3, <1>4 DEF Inv, FirstBlocks, InUse, InBounds, CapGranted

\* pop_ast.
LEMMA PopInv == Inv /\ Pop => Inv'
<1> SUFFICES ASSUME Inv, Pop PROVE Inv'
  OBVIOUS
<1>1. len \in Nat /\ len > 0
  BY DEF Inv, TypeOK, Pop
<1>2. len - 1 \in 0..len
  BY <1>1
<1> QED
  BY <1>2, ShortenInv DEF Pop

\* buf_chop and buf_trunc.
LEMMA ChopInv == ASSUME Inv, NEW n \in Sizes, Chop(n) PROVE Inv'
<1> DEFINE rest == IF len =< n THEN 0 ELSE len - n
<1>1. len \in Nat /\ n \in Nat
  BY DEF Inv, TypeOK
<1>2. rest \in 0..len
  BY <1>1
<1>3. len' = rest /\ log' = SubSeq(log, 1, rest)
  BY DEF Chop
<1> QED
  BY <1>2, <1>3, ShortenInv DEF Chop

\* A block that realloc frees was empty.
LEMMA WriteRefusedInv == Inv /\ WriteRefused => Inv'
<1> SUFFICES ASSUME Inv, WriteRefused PROVE Inv'
  OBVIOUS
<1>1. /\ kind = "buffer" /\ cap = 0 /\ len = 0 /\ ~ broken /\ mem' = <<>>
      /\ UNCHANGED <<kind, cap, len, log, cuts, broken>>
  BY DEF Inv, TypeOK, CapGranted, WriteRefused, Refused, NeedsBlock, May
<1>2. TypeOK' /\ FirstBlocks'
  BY <1>1 DEF Inv, TypeOK, FirstBlocks
<1>3. InUse' /\ CapGranted'
  BY <1>1 DEF InUse, CapGranted
<1>4. broken' = broken /\ ~ broken'
  BY <1>1, Zenon
<1>5. InBounds' /\ ReadBack'
  <2>1. InBounds'
    BY <1>4 DEF InBounds
  <2>2. len' = Len(log') /\ len' = 0
    BY <1>1 DEF Inv, ReadBack
  <2> QED
    BY <2>1, <2>2 DEF ReadBack
<1> QED
  BY <1>2, <1>3, <1>5 DEF Inv

\* Growing the buffer by some bytes or leaving it.
LEMMA GrowIs ==
  ASSUME Inv, kind = "buffer", NEW by \in Nat, NEW when
  PROVE  /\ Grow(when, by) \in Seq(Int)
         /\ \A i \in 1..Len(mem) : i =< Len(Grow(when, by)) => Grow(when, by)[i] = mem[i]
         /\ CapAfter(when, by) \in Nat /\ CapAfter(when, by) =< Len(Grow(when, by))
<1>1. cap \in Nat /\ cap =< Len(mem) /\ mem \in Seq(Int) /\ cap + by \in Nat
  BY DEF Inv, TypeOK, CapGranted
<1>2. CASE when
  <2>1. Len(Reallocated(cap + by)) = Usable(cap + by) \div 1
    BY <1>1, ReallocatedKeeps DEF Inv, Element
  <2>2. Len(Reallocated(cap + by)) >= cap + by
    BY <1>1, <2>1, UsableGrants
  <2> QED
    BY <1>1, <1>2, <2>2, ReallocatedKeeps DEF Grow, CapAfter, Inv
<1>3. CASE ~ when
  BY <1>1, <1>3 DEF Grow, CapAfter
<1> QED
  BY <1>2, <1>3

\* A write to the buffer that has reckoned with enough room for what it hands
\* over keeps the invariant; only a text writes one byte more.
LEMMA BufferWriteInv ==
  ASSUME Inv, ~ broken, kind = "buffer", kind' = kind, cuts' \in Nat,
         NEW by \in Nat, NEW when, NEW data \in Seq(Int), NEW own \in Seq(Int),
         \A i \in 1..Len(own) : own[i] = Junk \/ (i =< Len(data) /\ own[i] = data[i]),
         cap' = CapAfter(when, by), Write(Grow(when, by), data),
         len' = len + Len(own), log' = log \o own,
         len + Len(own) =< CapAfter(when, by),
         Len(data) =< Len(own) \/ (op' = "text" /\ Len(data) = Len(own) + 1)
  PROVE  Inv'
<1> DEFINE m == Grow(when, by)
<1>1. /\ m \in Seq(Int) /\ \A i \in 1..Len(mem) : i =< Len(m) => m[i] = mem[i]
      /\ cap' \in Nat /\ cap' =< Len(m)
  BY GrowIs
<1>2. len \in Nat /\ len' \in Nat /\ len' =< cap'
  BY DEF Inv, TypeOK
<1> HIDE DEF m
<1>3. /\ ReadBack' /\ mem' \in Seq(Int) /\ Len(mem') = Len(m)
      /\ log' \in Seq(Int) /\ broken' \in BOOLEAN
      /\ broken' => len + Len(data) > Len(m)
  <2>1. Write(m, data)
    BY DEF m
  <2> QED
    BY <1>1, <2>1, WriteReads
<1>4. TypeOK'
  BY <1>1, <1>2, <1>3 DEF Inv, TypeOK
<1>5. CapGranted' /\ InUse'
  BY <1>1, <1>2, <1>3 DEF CapGranted, InUse
<1>6. InBounds'
  BY <1>1, <1>2, <1>3 DEF InBounds
<1>7. FirstBlocks'
  BY DEF FirstBlocks
<1> QED
  BY <1>3, <1>4, <1>5, <1>6, <1>7 DEF Inv

\* The same where what is written is what is handed over.
LEMMA PlainWriteInv ==
  ASSUME Inv, ~ broken, kind = "buffer", kind' = kind, cuts' = cuts,
         NEW by \in Nat, NEW when, NEW n \in Nat,
         Extend(when, by, Data(n), <<>>), len + n =< CapAfter(when, by)
  PROVE  Inv'
<1>1. Data(n) \in Seq(Int) /\ Len(Data(n)) = n
  BY DataIs DEF Inv
<1>2. Data(n) \o <<>> = Data(n)
  BY <1>1
<1>3. /\ cap' = CapAfter(when, by) /\ Write(Grow(when, by), Data(n))
      /\ len' = len + Len(Data(n)) /\ log' = log \o Data(n)
  BY <1>2 DEF Extend
<1>4. \A i \in 1..Len(Data(n)) : i =< Len(Data(n)) /\ Data(n)[i] = Data(n)[i]
  BY <1>1
<1>5. len + Len(Data(n)) =< CapAfter(when, by) /\ Len(Data(n)) =< Len(Data(n)) /\ cuts' \in Nat
  BY <1>1 DEF Inv, TypeOK
<1> QED
  BY <1>1, <1>3, <1>4, <1>5, BufferWriteInv

\* buf_write_byte and the numbers, in steps of ten bytes.
LEMMA WriteNumberInv == ASSUME Inv, NEW w \in {1, 2, 4, 8}, WriteNumber(w) PROVE Inv'
<1>1. /\ kind = "buffer" /\ kind' = kind /\ ~ broken /\ cuts' = cuts
      /\ Extend(NeedsStep(w), 10, Data(w), <<>>)
  BY DEF WriteNumber, May, Extend
<1>2. len + w =< CapAfter(NeedsStep(w), 10)
  BY <1>1 DEF Inv, TypeOK, CapGranted, CapAfter, NeedsStep
<1> QED
  BY <1>1, <1>2, PlainWriteInv

\* buf_alloc_to grows by what it reserves.
LEMMA ReserveInv == ASSUME Inv, NEW n \in Sizes, Reserve(n) PROVE Inv'
<1> DEFINE when == cap < len + n
<1>1. /\ kind = "buffer" /\ kind' = kind /\ ~ broken /\ cuts' = cuts
      /\ Extend(when, n, Data(n), <<>>)
  BY DEF Reserve, May, Extend
<1>2. len + n =< CapAfter(when, n)
  BY <1>1 DEF Inv, TypeOK, CapGranted, CapAfter
<1> HIDE DEF when
<1> QED
  BY <1>1, <1>2, PlainWriteInv

\* After a block has been asked for, the capacity covers the block.
LEMMA BlockFits ==
  ASSUME Inv, kind = "buffer", NEW n \in Nat
  PROVE  len + n =< CapAfter(NeedsBlock(n), n)
  BY DEF Inv, TypeOK, CapGranted, CapAfter, NeedsBlock

\* buf_write_sized, buf_write_view and buf_write_file.
LEMMA WriteBlockInv == ASSUME Inv, NEW n \in Sizes, WriteBlock(n) PROVE Inv'
<1>1. /\ kind = "buffer" /\ kind' = kind /\ ~ broken /\ cuts' = cuts
      /\ Extend(NeedsBlock(n), n, Data(n), <<>>)
  BY DEF WriteBlock, May, Extend
<1> QED
  BY <1>1, BlockFits, PlainWriteInv

\* buf_write_cstr and buf_write_format: the closing zero is not reckoned with.
LEMMA WriteTextInv == ASSUME Inv, NEW n \in Sizes, WriteText(n) PROVE Inv'
<1>1. /\ kind = "buffer" /\ kind' = kind /\ ~ broken /\ cuts' = cuts /\ n \in Nat /\ cuts \in Nat
      /\ op' = "text"
  BY DEF Inv, TypeOK, WriteText, May, Extend
<1> DEFINE data == Data(n) \o <<0>>
<1>2. Data(n) \in Seq(Int) /\ Len(Data(n)) = n
  BY <1>1, DataIs DEF Inv
<1>3. data \in Seq(Int) /\ Len(data) = n + 1
  BY <1>1, <1>2
<1>4. \A i \in 1..Len(Data(n)) : i =< Len(data) /\ Data(n)[i] = data[i]
  BY <1>1, <1>2
<1>5. /\ cap' = CapAfter(NeedsBlock(n), n) /\ Write(Grow(NeedsBlock(n), n), data)
      /\ len' = len + Len(Data(n)) /\ log' = log \o Data(n)
  BY DEF WriteText, Extend
<1>6. len + Len(Data(n)) =< CapAfter(NeedsBlock(n), n)
  BY <1>1, <1>2, BlockFits
<1>7. Len(data) = Len(Data(n)) + 1
  BY <1>2, <1>3
<1> HIDE DEF data
<1> QED
  BY <1>1, <1>2, <1>3, <1>4, <1>5, <1>6, <1>7, BufferWriteInv

\* buf_write_file when the file ends early.
LEMMA ShortReadInv ==
  ASSUME Inv, NEW n \in Sizes \ {0}, NEW k \in {0, n - 1}, ShortRead(n, k)
  PROVE  Inv'
<1>1. /\ kind = "buffer" /\ kind' = kind /\ ~ broken /\ cuts' = cuts + 1
      /\ n \in Nat /\ k \in Nat /\ k < n /\ cuts \in Nat
  BY DEF Inv, TypeOK, ShortRead, May
<1> DEFINE rest == [i \in 1..n-k |-> Junk]
           own == Data(k) \o rest
<1>2. Data(k) \in Seq(Int) /\ Len(Data(k)) = k
  BY <1>1, DataIs DEF Inv
<1>3. rest \in Seq(Int) /\ Len(rest) = n - k /\ \A i \in 1..n-k : rest[i] = Junk
  BY <1>1 DEF Junk
<1> HIDE DEF rest
<1>4. own \in Seq(Int) /\ Len(own) = n
  BY <1>1, <1>2, <1>3
<1>5. ASSUME NEW i \in 1..Len(own)
      PROVE  own[i] = Junk \/ (i =< Len(Data(k)) /\ own[i] = Data(k)[i])
  <2>1. CASE i =< k
    BY <1>1, <1>2, <1>3, <1>4, <1>5, <2>1
  <2>2. CASE i > k
    <3>1. own[i] = rest[i - k] /\ i - k \in 1..n-k
      BY <1>1, <1>2, <1>3, <1>4, <1>5, <2>2
    <3> QED
      BY <1>3, <3>1
  <2> QED
    BY <1>1, <1>4, <1>5, <2>1, <2>2
<1>6. /\ cap' = CapAfter(NeedsBlock(n), n) /\ Write(Grow(NeedsBlock(n), n), Data(k))
      /\ len' = len + Len(own) /\ log' = log \o own
  <2>1. log' = (log \o Data(k)) \o rest
    BY DEF ShortRead, rest
  <2>2. log \in Seq(Int)
    BY DEF Inv, TypeOK
  <2>3. log' = log \o own
    <3> DEFINE d == Data(k)
    <3>1. d \in Seq(Int) /\ own = d \o rest /\ log' = (log \o d) \o rest
      BY <1>2, <2>1 DEF own
    <3> HIDE DEF d
    <3>2. (log \o d) \o rest = log \o (d \o rest)
      BY <1>3, <2>2, <3>1, Associates
    <3> QED
      BY <3>1, <3>2
  <2> QED
    BY <1>4, <2>3 DEF ShortRead
<1>7. len + Len(own) =< CapAfter(NeedsBlock(n), n) /\ Len(Data(k)) =< Len(own) /\ cuts' \in Nat
  BY <1>1, <1>2, <1>4, BlockFits
<1> HIDE DEF own
<1> QED
  BY <1>1, <1>2, <1>4, <1>5, <1>6, <1>7, BufferWriteInv

\* Every step keeps the invariant.
LEMMA StepInv == Inv /\ [Next]_vars => Inv'
<1> SUFFICES ASSUME Inv, [Next]_vars PROVE Inv'
  OBVIOUS
<1>1. CASE Put \/ Pop \/ WriteRefused
  BY <1>1, PutInv, PopInv, WriteRefusedInv
<1>2. CASE \E w \in {1, 2, 4, 8} : WriteNumber(w)
  BY <1>2, WriteNumberInv
<1>3. CASE \E n \in Sizes : Reserve(n) \/ WriteBlock(n) \/ WriteText(n) \/ Chop(n)
  BY <1>3, ReserveInv, WriteBlockInv, WriteTextInv, ChopInv
<1>4. CASE \E n \in Sizes \ {0} : \E k \in {0, n - 1} : ShortRead(n, k)
  BY <1>4, ShortReadInv
<1>5. CASE UNCHANGED vars
  BY <1>5 DEF vars, Inv, TypeOK, FirstBlocks, InUse, InBounds, CapGranted, ReadBack
<1> QED
  BY <1>1, <1>2, <1>3, <1>4, <1>5 DEF Next

\* Length, capacity and allocation fit together after every operation.
THEOREM ArraysInvariant == Spec => []Inv
  BY InitInv, StepInv, PTL DEF Spec

\* Whatever the allocator rounds up to: no operation writes outside what it was
\* given but a text by its closing zero, the argument or parameter after the
\* first block, and the twenty-first type. The stacks of put_ast never do.
THEOREM ArraysInBounds == Spec => []InBounds
  BY ArraysInvariant, PTL DEF Inv

\* The capacity of the buffer and of a stack is one the allocator has granted.
THEOREM ArraysCapGranted == Spec => []CapGranted
  BY ArraysInvariant, PTL DEF Inv

\* What was written is read back, however the array was moved meanwhile.
THEOREM ArraysReadBack == Spec => []ReadBack
  BY ArraysInvariant, PTL DEF Inv
=============================================================================
