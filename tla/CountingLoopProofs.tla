------------------------- MODULE CountingLoopProofs -------------------------
(***************************************************************************)
(* That the probe loops of bloom.CountingFilter, over packed bytes as over *)
(* unpacked counters, do what CountingFilter says a call does: for every   *)
(* m, k, hasher and set of keys.                                           *)
(*                                                                         *)
(* The argument has two halves.  A write to one counter of a byte leaves   *)
(* the others as they were (WriteOneSlot), so that the counters may be     *)
(* thought of one by one; and a loop that has made i probes has done to    *)
(* the counters what i probes do to them (LoopInv).                        *)
(***************************************************************************)
EXTENDS CountingLoop, TLAPS, FiniteSetTheorems

-----------------------------------------------------------------------------
(* Places in a byte *)

\* What writeCounter makes of a byte x, at the place of unit u among limit + 1.
Written(x, u, v, base) == (x % u) + v * u + (x \div (u * base)) * (u * base)

\* What readCounter finds there.
PlaceOf(x, u, base) == (x \div u) % base

\* The units of a byte's places, and the values of a place, at widths 2 and 4.
QuarterUnit == {1, 4, 16, 64}
QuarterValue == 0 .. 3
NibbleUnit == {1, 16}
NibbleValue == 0 .. 15

\* Four places for values 0 to 3.
LEMMA QuarterWritten ==
  ASSUME NEW x \in Nat, NEW v \in QuarterValue, NEW u \in QuarterUnit, NEW w \in QuarterUnit
  PROVE  /\ Written(x, u, v, 4) \in Nat
         /\ PlaceOf(Written(x, u, v, 4), u, 4) = v
         /\ w # u => PlaceOf(Written(x, u, v, 4), w, 4) = PlaceOf(x, w, 4)
<1>1. CASE u = 1
  <2>1. CASE w = 1
    BY <1>1, <2>1 DEF Written, PlaceOf, QuarterUnit, QuarterValue
  <2>2. CASE w = 4
    BY <1>1, <2>2 DEF Written, PlaceOf, QuarterUnit, QuarterValue
  <2>3. CASE w = 16
    BY <1>1, <2>3 DEF Written, PlaceOf, QuarterUnit, QuarterValue
  <2>4. CASE w = 64
    BY <1>1, <2>4 DEF Written, PlaceOf, QuarterUnit, QuarterValue
  <2> QED BY <2>1, <2>2, <2>3, <2>4 DEF QuarterUnit
<1>2. CASE u = 4
  <2>1. CASE w = 1
    BY <1>2, <2>1 DEF Written, PlaceOf, QuarterUnit, QuarterValue
  <2>2. CASE w = 4
    BY <1>2, <2>2 DEF Written, PlaceOf, QuarterUnit, QuarterValue
  <2>3. CASE w = 16
    BY <1>2, <2>3 DEF Written, PlaceOf, QuarterUnit, QuarterValue
  <2>4. CASE w = 64
    BY <1>2, <2>4 DEF Written, PlaceOf, QuarterUnit, QuarterValue
  <2> QED BY <2>1, <2>2, <2>3, <2>4 DEF QuarterUnit
<1>3. CASE u = 16
  <2>1. CASE w = 1
    BY <1>3, <2>1 DEF Written, PlaceOf, QuarterUnit, QuarterValue
  <2>2. CASE w = 4
    BY <1>3, <2>2 DEF Written, PlaceOf, QuarterUnit, QuarterValue
  <2>3. CASE w = 16
    BY <1>3, <2>3 DEF Written, PlaceOf, QuarterUnit, QuarterValue
  <2>4. CASE w = 64
    BY <1>3, <2>4 DEF Written, PlaceOf, QuarterUnit, QuarterValue
  <2> QED BY <2>1, <2>2, <2>3, <2>4 DEF QuarterUnit
<1>4. CASE u = 64
  <2>1. CASE w = 1
    BY <1>4, <2>1 DEF Written, PlaceOf, QuarterUnit, QuarterValue
  <2>2. CASE w = 4
    BY <1>4, <2>2 DEF Written, PlaceOf, QuarterUnit, QuarterValue
  <2>3. CASE w = 16
    BY <1>4, <2>3 DEF Written, PlaceOf, QuarterUnit, QuarterValue
  <2>4. CASE w = 64
    BY <1>4, <2>4 DEF Written, PlaceOf, QuarterUnit, QuarterValue
  <2> QED BY <2>1, <2>2, <2>3, <2>4 DEF QuarterUnit
<1> QED BY <1>1, <1>2, <1>3, <1>4 DEF QuarterUnit

\* Two places for values 0 to 15.
LEMMA NibbleWritten ==
  ASSUME NEW x \in Nat, NEW v \in NibbleValue, NEW u \in NibbleUnit, NEW w \in NibbleUnit
  PROVE  /\ Written(x, u, v, 16) \in Nat
         /\ PlaceOf(Written(x, u, v, 16), u, 16) = v
         /\ w # u => PlaceOf(Written(x, u, v, 16), w, 16) = PlaceOf(x, w, 16)
<1>1. CASE u = 1
  BY <1>1 DEF Written, PlaceOf, NibbleUnit, NibbleValue
<1>2. CASE u = 16
  BY <1>2 DEF Written, PlaceOf, NibbleUnit, NibbleValue
<1> QED BY <1>1, <1>2 DEF NibbleUnit

\* One place, whose values fill it.
LEMMA WholeWritten ==
  ASSUME NEW top \in Nat, NEW x \in 0 .. top, NEW v \in 0 .. top
  PROVE  /\ x % (top + 1) = x /\ x \div 1 = x
         /\ Written(x, 1, v, top + 1) = v
<1>1. x % (top + 1) = x /\ x \div (top + 1) = 0
  OBVIOUS
<1> QED BY <1>1 DEF Written, PlaceOf

-----------------------------------------------------------------------------
(* Counters in the backing slice *)

\* All places of the slice, those after the last counter included.
Slot == 0 .. StorageLen * PerByte - 1

\* An element of an unpacked store is a counter; of a byte, any number will do.
StoreOK(d) ==
  /\ d \in [0 .. StorageLen - 1 -> Nat]
  /\ PerByte = 1 => \A e \in 0 .. StorageLen - 1 : d[e] <= Limit

\* The limits that a width and its layout go with.
LEMMA Limits ==
  ASSUME width \in Width
  PROVE  /\ Limit \in Nat \ {0}
         /\ width = 2 => Limit = 3
         /\ width = 4 => Limit = 15
         /\ PerByte \in {1, 2, 4}
BY LoopAssumption DEF Limit, PerByte

\* Each place has its element, and two places of one element have two units.
LEMMA SlotPlaces ==
  ASSUME width \in Width
  PROVE  /\ Cell \subseteq Slot
         /\ \A s \in Slot : /\ s \in Nat
                            /\ s \div PerByte \in 0 .. StorageLen - 1
                            /\ width = 2 => Unit(s) \in QuarterUnit
                            /\ width = 4 => Unit(s) \in NibbleUnit
                            /\ width \notin {2, 4} => Unit(s) = 1
         /\ \A s, t \in Slot : s # t /\ s \div PerByte = t \div PerByte =>
                              PerByte > 1 /\ Unit(s) # Unit(t)
<1>1. M \in Nat \ {0}
  BY LoopAssumption
<1>2. CASE width = 2
  <2>1. PerByte = 4 /\ StorageLen = (M + 3) \div 4
    BY <1>2 DEF PerByte, StorageLen
  <2>2. Cell \subseteq Slot /\ \A s \in Slot : s \in Nat /\ s \div 4 \in 0 .. StorageLen - 1
    BY <1>1, <2>1 DEF Cell, Slot
  <2>3. \A s \in Nat : Unit(s) = IF s % 4 = 0 THEN 1 ELSE IF s % 4 = 1 THEN 4
                                 ELSE IF s % 4 = 2 THEN 16 ELSE 64
    BY <1>2 DEF Unit
  <2>4. \A s, t \in Nat : s # t /\ s \div 4 = t \div 4 => s % 4 # t % 4
    OBVIOUS
  <2>5. \A s, t \in Nat : s % 4 # t % 4 => Unit(s) # Unit(t)
    BY <2>3
  <2> QED BY <1>2, <2>1, <2>2, <2>3, <2>4, <2>5 DEF QuarterUnit
<1>3. CASE width = 4
  <2>1. PerByte = 2 /\ StorageLen = (M + 1) \div 2
    BY <1>3 DEF PerByte, StorageLen
  <2>2. Cell \subseteq Slot /\ \A s \in Slot : s \in Nat /\ s \div 2 \in 0 .. StorageLen - 1
    BY <1>1, <2>1 DEF Cell, Slot
  <2>3. \A s \in Nat : Unit(s) = IF s % 2 = 0 THEN 16 ELSE 1
    BY <1>3 DEF Unit
  <2>4. \A s, t \in Nat : s # t /\ s \div 2 = t \div 2 => s % 2 # t % 2
    OBVIOUS
  <2>5. \A s, t \in Nat : s % 2 # t % 2 => Unit(s) # Unit(t)
    BY <2>3
  <2> QED BY <1>3, <2>1, <2>2, <2>3, <2>4, <2>5 DEF NibbleUnit
<1>4. CASE width \notin {2, 4}
  <2>1. PerByte = 1 /\ StorageLen = M /\ \A s \in Nat : Unit(s) = 1
    BY <1>1, <1>4 DEF PerByte, StorageLen, Unit
  <2> QED BY <1>1, <1>4, <2>1 DEF Cell, Slot
<1> QED BY <1>2, <1>3, <1>4

\* A write to one counter sets it, and leaves its neighbours in the byte and the
\* unused places as they were (counters.go:101-105 and 178-185).
LEMMA WriteOneSlot ==
  ASSUME width \in Width, NEW d, StoreOK(d), NEW s \in Slot, NEW v \in 0 .. Limit
  PROVE  /\ StoreOK(writeCounter(d, s, v))
         /\ \A t \in Slot : readCounter(writeCounter(d, s, v), t) =
                               IF t = s THEN v ELSE readCounter(d, t)
<1> DEFINE e == s \div PerByte
           y == Written(d[e], Unit(s), v, Limit + 1)
<1>1. e \in 0 .. StorageLen - 1 /\ d[e] \in Nat
  BY SlotPlaces DEF StoreOK
<1>2. writeCounter(d, s, v) = [d EXCEPT ![e] = y]
  BY DEF writeCounter, Written
<1>3. /\ y \in Nat /\ (PerByte = 1 => y <= Limit)
      /\ PlaceOf(y, Unit(s), Limit + 1) = v
      /\ \A t \in Slot : t # s /\ t \div PerByte = e =>
           PlaceOf(y, Unit(t), Limit + 1) = PlaceOf(d[e], Unit(t), Limit + 1)
  <2> HIDE DEF e
  <2>1. \A t \in Slot : t # s /\ t \div PerByte = e => PerByte > 1 /\ Unit(s) # Unit(t)
    BY SlotPlaces DEF e
  <2>2. CASE width = 2
    <3>1. Limit = 3 /\ Limit + 1 = 4 /\ PerByte = 4 /\ Unit(s) \in QuarterUnit
      BY <2>2, Limits, SlotPlaces DEF PerByte
    <3>2. ASSUME NEW w \in QuarterUnit
          PROVE  /\ y \in Nat /\ PlaceOf(y, Unit(s), 4) = v
                 /\ w # Unit(s) => PlaceOf(y, w, 4) = PlaceOf(d[e], w, 4)
      <4>1. v \in QuarterValue
        BY <3>1 DEF QuarterValue
      <4>2. y = Written(d[e], Unit(s), v, 4)
        BY <3>1, Zenon
      <4> HIDE DEF y
      <4> QED BY <1>1, <3>1, <4>1, <4>2, QuarterWritten
    <3>3. \A t \in Slot : Unit(t) \in QuarterUnit
      BY <2>2, SlotPlaces
    <3> HIDE DEF y
    <3> QED BY <2>1, <3>1, <3>2, <3>3
  <2>3. CASE width = 4
    <3>1. Limit = 15 /\ Limit + 1 = 16 /\ PerByte = 2 /\ Unit(s) \in NibbleUnit
      BY <2>3, Limits, SlotPlaces DEF PerByte
    <3>2. ASSUME NEW w \in NibbleUnit
          PROVE  /\ y \in Nat /\ PlaceOf(y, Unit(s), 16) = v
                 /\ w # Unit(s) => PlaceOf(y, w, 16) = PlaceOf(d[e], w, 16)
      <4>1. v \in NibbleValue
        BY <3>1 DEF NibbleValue
      <4>2. y = Written(d[e], Unit(s), v, 16)
        BY <3>1, Zenon
      <4> HIDE DEF y
      <4> QED BY <1>1, <3>1, <4>1, <4>2, NibbleWritten
    <3>3. \A t \in Slot : Unit(t) \in NibbleUnit
      BY <2>3, SlotPlaces
    <3> HIDE DEF y
    <3> QED BY <2>1, <3>1, <3>2, <3>3
  <2>4. CASE width \notin {2, 4}
    <3>1. PerByte = 1 /\ Unit(s) = 1 /\ Limit \in Nat
      BY <2>4, Limits, SlotPlaces DEF PerByte
    <3>2. d[e] \in 0 .. Limit
      BY <1>1, <3>1 DEF StoreOK
    <3>3. y = v
      BY <3>1, <3>2, WholeWritten
    <3>4. PlaceOf(v, 1, Limit + 1) = v
      BY <3>1, WholeWritten DEF PlaceOf
    <3> HIDE DEF y
    <3> QED BY <2>1, <3>1, <3>3, <3>4
  <2> QED BY <2>2, <2>3, <2>4
<1> HIDE DEF y
<1>4. StoreOK(writeCounter(d, s, v))
  BY <1>1, <1>2, <1>3 DEF StoreOK
<1>5. ASSUME NEW t \in Slot
      PROVE  readCounter(writeCounter(d, s, v), t) = IF t = s THEN v ELSE readCounter(d, t)
  <2>1. t \div PerByte \in 0 .. StorageLen - 1
    BY SlotPlaces
  <2> HIDE DEF e
  <2>2. CASE t \div PerByte # e
    <3>1. writeCounter(d, s, v)[t \div PerByte] = d[t \div PerByte]
      BY <1>1, <1>2, <2>1, <2>2 DEF StoreOK
    <3>2. t # s
      BY <2>2 DEF e
    <3> QED BY <3>1, <3>2 DEF readCounter
  <2>3. CASE t \div PerByte = e
    <3>1. writeCounter(d, s, v)[t \div PerByte] = y
      BY <1>1, <1>2, <2>3 DEF StoreOK
    <3> QED BY <1>3, <2>3, <3>1 DEF readCounter, PlaceOf
  <2> QED BY <2>2, <2>3
<1> QED BY <1>4, <1>5

\* What is read is a value of a counter.
LEMMA ReadType ==
  ASSUME width \in Width, NEW d, StoreOK(d), NEW s \in Slot
  PROVE  readCounter(d, s) \in 0 .. Limit
<1>1. Limit \in Nat /\ d[s \div PerByte] \in Nat /\ Unit(s) \in {1, 4, 16, 64}
  BY Limits, SlotPlaces DEF StoreOK, QuarterUnit, NibbleUnit
<1>2. d[s \div PerByte] \div Unit(s) \in Nat
  BY <1>1
<1>3. \A x \in Nat : x % (Limit + 1) \in 0 .. Limit
  BY <1>1
<1> QED BY <1>2, <1>3 DEF readCounter

\* The counters of a store, and those after a write.
LEMMA DecodedStore ==
  ASSUME width \in Width, NEW d, StoreOK(d)
  PROVE  /\ Decoded(d) \in [Cell -> 0 .. Limit]
         /\ \A c \in Cell : Decoded(d)[c] = readCounter(d, c)
         /\ \A c \in Cell, v \in 0 .. Limit :
              Decoded(writeCounter(d, c, v)) = [Decoded(d) EXCEPT ![c] = v]
<1>1. \A c \in Cell : c \in Slot /\ readCounter(d, c) \in 0 .. Limit
  BY SlotPlaces, ReadType
<1>2. ASSUME NEW c \in Cell, NEW v \in 0 .. Limit
      PROVE  Decoded(writeCounter(d, c, v)) = [Decoded(d) EXCEPT ![c] = v]
  <2>1. \A t \in Cell : readCounter(writeCounter(d, c, v), t) = IF t = c THEN v ELSE readCounter(d, t)
    BY <1>1, WriteOneSlot
  <2> QED BY <2>1 DEF Decoded
<1> QED BY <1>1, <1>2 DEF Decoded

\* A store of zeros.
LEMMA DecodedZeros ==
  ASSUME width \in Width
  PROVE  /\ StoreOK([e \in 0 .. StorageLen - 1 |-> 0])
         /\ Decoded([e \in 0 .. StorageLen - 1 |-> 0]) = [c \in Cell |-> 0]
<1> DEFINE z == [e \in 0 .. StorageLen - 1 |-> 0]
<1>1. Limit \in Nat
  BY Limits
<1>2. StoreOK(z)
  BY <1>1 DEF StoreOK
<1>3. ASSUME NEW c \in Cell PROVE readCounter(z, c) = 0
  <2>1. z[c \div PerByte] = 0 /\ Unit(c) \in {1, 4, 16, 64}
    BY SlotPlaces DEF QuarterUnit, NibbleUnit
  <2> HIDE DEF z
  <2>2. 0 \div Unit(c) = 0
    BY <2>1
  <2>3. 0 % (Limit + 1) = 0
    BY <1>1
  <2> QED BY <2>1, <2>2, <2>3 DEF readCounter
<1> QED BY <1>2, <1>3 DEF Decoded

\* What the operators of a store mean in the next state, in which its width is
\* the same.
LEMMA SameWidth ==
  ASSUME width' = width
  PROVE  /\ Limit' = Limit /\ Slot' = Slot
         /\ StoreOK(data)' <=> StoreOK(data')
         /\ Decoded(data)' = Decoded(data')
BY DEF Limit, Slot, StoreOK, PerByte, StorageLen, Decoded, readCounter, Unit

-----------------------------------------------------------------------------
(* Probes *)

\* A probe more lands on its own counter once more, and on no other.
LEMMA HitsOfProbes ==
  ASSUME NEW k \in Key, NEW c
  PROVE  /\ \A j \in 0 .. K : Filter!Hits(k, j, c) \in Nat
         /\ Filter!Hits(k, 0, c) = 0
         /\ \A j \in 0 .. K-1 :
              Filter!Hits(k, j+1, c) = Filter!Hits(k, j, c) + (IF Probe[k][j] = c THEN 1 ELSE 0)
<1> DEFINE H(j) == {p \in 0 .. j-1 : Probe[k][p] = c}
<1>1. \A j : Filter!Hits(k, j, c) = Cardinality(H(j))
  BY DEF Filter!Hits, Cardinality, Filter!Cardinality
<1>2. K \in Nat
  BY LoopAssumption
<1>3. ASSUME NEW j \in 0 .. K PROVE IsFiniteSet(H(j)) /\ Cardinality(H(j)) \in Nat
  <2>1. IsFiniteSet(0 .. j-1)
    BY <1>2, FS_Interval
  <2>2. IsFiniteSet(H(j))
    BY <2>1, FS_Subset
  <2> HIDE DEF H
  <2> QED BY <2>2, FS_CardinalityType
<1>4. H(0) = {}
  OBVIOUS
<1>5. Cardinality(H(0)) = 0
  BY <1>4, FS_EmptySet
<1>6. ASSUME NEW j \in 0 .. K-1
      PROVE  Cardinality(H(j+1)) = Cardinality(H(j)) + (IF Probe[k][j] = c THEN 1 ELSE 0)
  <2>1. j \in 0 .. K
    BY <1>2
  <2>2. CASE Probe[k][j] = c
    <3>1. H(j+1) = H(j) \cup {j} /\ j \notin H(j)
      BY <2>2
    <3>2. Cardinality(H(j) \cup {j}) = Cardinality(H(j)) + 1
      <4> HIDE DEF H
      <4> QED BY <1>3, <2>1, <3>1, FS_AddElement
    <3> HIDE DEF H
    <3> QED BY <2>2, <3>1, <3>2
  <2>3. CASE Probe[k][j] # c
    <3>1. H(j+1) = H(j)
      BY <2>3
    <3> HIDE DEF H
    <3> QED BY <1>3, <2>1, <2>3, <3>1
  <2> QED BY <2>2, <2>3
<1> HIDE DEF H
<1> QED BY <1>1, <1>3, <1>5, <1>6

\* Probes land on counters.
LEMMA ProbeIsCell ==
  ASSUME NEW k \in Key, NEW j \in 0 .. K-1
  PROVE  Probe[k][j] \in Cell
BY LoopAssumption

-----------------------------------------------------------------------------
(* The invariant of the loops *)

\* The counters after j decrements for key k.
LoweredBy(cs, k, j) ==
  [c \in Cell |-> IF cs[c] > Filter!Hits(k, j, c) THEN cs[c] - Filter!Hits(k, j, c) ELSE 0]

LoopInv ==
  /\ width \in Width /\ StoreOK(data)
  /\ op \in {"idle", "add", "contains", "check", "dec"}
  /\ i \in 0 .. K /\ (op # "idle" => key \in Key)
  /\ before \in [Cell -> 0 .. Limit]
  /\ op \notin {"add", "dec"} => before = Decoded(data)
  /\ op \in {"contains", "check"} => \A j \in 0 .. i-1 : before[Probe[key][j]] # 0
  /\ op = "add" => Decoded(data) = Filter!Raised(before, key, i)
  /\ op = "dec" => Filter!Contains(before, key) /\ Decoded(data) = LoweredBy(before, key, i)

\* The counters that CountingFilter sees.
Seen == IF op \in {"add", "dec"} THEN before ELSE Decoded(data)

\* They are those the running call began with, as long as it has not returned.
LEMMA SeenIsBefore == LoopInv => Seen = before
BY DEF LoopInv, Seen

\* The next probe, while a loop runs.
LEMMA NextProbe ==
  ASSUME LoopInv, op # "idle", i < K
  PROVE  /\ i \in 0 .. K-1 /\ i+1 \in 0 .. K /\ key \in Key
         /\ Idx \in Cell
         /\ Decoded(data)[Idx] = readCounter(data, Idx)
         /\ readCounter(data, Idx) \in 0 .. Limit /\ Limit \in Nat
<1>1. i \in 0 .. K-1 /\ i+1 \in 0 .. K /\ key \in Key /\ width \in Width /\ StoreOK(data)
  BY LoopAssumption DEF LoopInv
<1>2. Idx \in Cell
  BY <1>1, ProbeIsCell DEF Idx
<1>3. Idx \in Slot
  BY <1>1, <1>2, SlotPlaces
<1> QED BY <1>1, <1>2, <1>3, DecodedStore, ReadType, Limits

\* The invariant of the next state, told of the counters it leaves.
LEMMA LoopInvNext ==
  ASSUME width \in Width, width' = width, StoreOK(data'),
         op' \in {"idle", "add", "contains", "check", "dec"},
         i' \in 0 .. K, op' # "idle" => key' \in Key,
         before' \in [Cell -> 0 .. Limit],
         op' \notin {"add", "dec"} => before' = Decoded(data'),
         op' \in {"contains", "check"} => \A j \in 0 .. i'-1 : before'[Probe[key'][j]] # 0,
         op' = "add" => Decoded(data') = Filter!Raised(before', key', i'),
         op' = "dec" => /\ Filter!Contains(before', key')
                        /\ Decoded(data') = LoweredBy(before', key', i')
  PROVE  LoopInv'
<1>1. Limit' = Limit /\ StoreOK(data)' /\ Decoded(data)' = Decoded(data')
  BY SameWidth
<1> QED BY <1>1 DEF LoopInv, LoweredBy, Filter!Raised, Filter!Contains, Filter!Hits

\* One increment more.
LEMMA RaisedStep ==
  ASSUME LoopInv, op = "add", i < K
  PROVE  Filter!Raised(before, key, i+1) =
           [Filter!Raised(before, key, i) EXCEPT ![Idx] = readCounter(data, Idx) + 1]
<1>1. /\ i \in 0 .. K-1 /\ i+1 \in 0 .. K /\ key \in Key /\ Idx \in Cell
      /\ Filter!Raised(before, key, i)[Idx] = readCounter(data, Idx)
  BY NextProbe DEF LoopInv
<1>2. \A c \in Cell : /\ before[c] \in Nat
                      /\ Filter!Hits(key, i, c) \in Nat
                      /\ Filter!Hits(key, i+1, c) =
                           Filter!Hits(key, i, c) + (IF Idx = c THEN 1 ELSE 0)
  <2>1. i \in 0 .. K /\ \A c \in Cell : before[c] \in Nat
    BY Limits, LoopAssumption DEF LoopInv
  <2> QED BY <1>1, <2>1, HitsOfProbes DEF Idx
<1>3. \A c \in Cell : Filter!Raised(before, key, i+1)[c] =
                        Filter!Raised(before, key, i)[c] + (IF Idx = c THEN 1 ELSE 0)
  BY <1>2 DEF Filter!Raised, Filter!Cell, Cell
<1>4. \A c \in Cell : Filter!Raised(before, key, i)[c] \in Nat
  BY <1>2 DEF Filter!Raised, Filter!Cell, Cell
<1>5. /\ Filter!Raised(before, key, i+1) = [c \in Cell |-> Filter!Raised(before, key, i+1)[c]]
      /\ Filter!Raised(before, key, i) = [c \in Cell |-> Filter!Raised(before, key, i)[c]]
  BY DEF Filter!Raised, Filter!Cell, Cell
<1> QED BY <1>1, <1>3, <1>4, <1>5

\* One decrement more; a counter that is zero stays.
LEMMA LoweredStep ==
  ASSUME LoopInv, op = "dec", i < K
  PROVE  LoweredBy(before, key, i+1) =
           [LoweredBy(before, key, i) EXCEPT
              ![Idx] = IF readCounter(data, Idx) > 0 THEN readCounter(data, Idx) - 1 ELSE 0]
<1>1. /\ i \in 0 .. K-1 /\ i+1 \in 0 .. K /\ key \in Key /\ Idx \in Cell
      /\ LoweredBy(before, key, i)[Idx] = readCounter(data, Idx)
  BY NextProbe DEF LoopInv
<1>2. \A c \in Cell : /\ before[c] \in Nat
                      /\ Filter!Hits(key, i, c) \in Nat
                      /\ Filter!Hits(key, i+1, c) =
                           Filter!Hits(key, i, c) + (IF Idx = c THEN 1 ELSE 0)
  <2>1. i \in 0 .. K /\ \A c \in Cell : before[c] \in Nat
    BY Limits, LoopAssumption DEF LoopInv
  <2> QED BY <1>1, <2>1, HitsOfProbes DEF Idx
<1>3. ASSUME NEW c \in Cell
      PROVE  LoweredBy(before, key, i+1)[c] =
               IF Idx = c THEN IF LoweredBy(before, key, i)[c] > 0
                                 THEN LoweredBy(before, key, i)[c] - 1 ELSE 0
               ELSE LoweredBy(before, key, i)[c]
  BY <1>2 DEF LoweredBy
<1>4. /\ LoweredBy(before, key, i+1) = [c \in Cell |-> LoweredBy(before, key, i+1)[c]]
      /\ LoweredBy(before, key, i) = [c \in Cell |-> LoweredBy(before, key, i)[c]]
  BY DEF LoweredBy
<1> QED BY <1>1, <1>3, <1>4

\* An empty store, and no loop.
LEMMA LoopStart == LoopInit => LoopInv
<1> SUFFICES ASSUME LoopInit PROVE LoopInv
  OBVIOUS
<1>1. width \in Width /\ op = "idle" /\ i = 0 /\ 0 \in 0 .. K
  BY LoopAssumption DEF LoopInit
<1>2. StoreOK(data) /\ before = Decoded(data)
  BY <1>1, DecodedZeros DEF LoopInit
<1>3. before \in [Cell -> 0 .. Limit]
  BY <1>1, <1>2, DecodedStore
<1> QED BY <1>1, <1>2, <1>3 DEF LoopInv

\* A call that returns leaves the invariant as it finds it: nothing runs.
LEMMA ReturnKeeps ==
  ASSUME LoopInv, NEW o, NEW out, Return(o, out), data' = data
  PROVE  LoopInv'
<1>1. /\ width \in Width /\ width' = width /\ StoreOK(data')
      /\ op' = "idle" /\ i' = 0 /\ 0 \in 0 .. K /\ before' = Decoded(data')
  BY LoopAssumption DEF LoopInv, Return
<1>2. before' \in [Cell -> 0 .. Limit]
  BY <1>1, DecodedStore
<1> QED BY <1>1, <1>2, LoopInvNext

\* No step of a loop disturbs the invariant.
LEMMA LoopInvStep == LoopInv /\ [LoopNext]_loopVars => LoopInv'
<1> SUFFICES ASSUME LoopInv, [LoopNext]_loopVars PROVE LoopInv'
  OBVIOUS
<1>1. /\ width \in Width /\ StoreOK(data) /\ before \in [Cell -> 0 .. Limit]
      /\ K \in Nat \ {0}
  BY LoopAssumption DEF LoopInv
<1>2. ASSUME NEW o \in {"add", "contains", "check"}, NEW k \in Key, Call(o, k) PROVE LoopInv'
  <2>1. /\ op' = o /\ key' = k /\ i' = 0 /\ 0 \in 0 .. K /\ before = Decoded(data)
        /\ UNCHANGED <<data, width, before>>
    BY <1>1, <1>2 DEF Call, LoopInv
  <2>2. \A c \in Cell : Filter!Hits(k, 0, c) = 0
    BY HitsOfProbes
  <2>3. Filter!Raised(before, k, 0) = before
    <3>1. \A c \in Cell : before[c] + 0 = before[c]
      BY <1>1, Limits
    <3>2. Filter!Raised(before, k, 0) = [c \in Cell |-> before[c] + 0]
      BY <2>2 DEF Filter!Raised, Filter!Cell, Cell
    <3> QED BY <1>1, <3>1, <3>2
  <2> QED BY <1>1, <2>1, <2>3, LoopInvNext
<1>3. CASE IncProbe
  <2>1. /\ op = "add" /\ i < K /\ readCounter(data, Idx) # Limit
        /\ data' = writeCounter(data, Idx, readCounter(data, Idx) + 1)
        /\ i' = i + 1 /\ UNCHANGED <<width, op, key, before>>
    BY <1>3 DEF IncProbe, ProbeOn
  <2>2. /\ i+1 \in 0 .. K /\ key \in Key /\ Idx \in Cell /\ Limit \in Nat
        /\ readCounter(data, Idx) \in 0 .. Limit
    BY <2>1, NextProbe
  <2>3. readCounter(data, Idx) + 1 \in 0 .. Limit
    BY <2>1, <2>2
  <2>4. StoreOK(data') /\ Decoded(data') = [Decoded(data) EXCEPT ![Idx] = readCounter(data, Idx) + 1]
    <3> DEFINE w == readCounter(data, Idx) + 1
    <3>1. w \in 0 .. Limit /\ Idx \in Slot /\ data' = writeCounter(data, Idx, w)
      BY <1>1, <2>1, <2>2, <2>3, SlotPlaces
    <3> HIDE DEF w
    <3>2. StoreOK(data')
      BY <1>1, <3>1, WriteOneSlot
    <3>3. Decoded(data') = [Decoded(data) EXCEPT ![Idx] = w]
      BY <1>1, <2>2, <3>1, DecodedStore
    <3> QED BY <3>2, <3>3 DEF w
  <2>5. Decoded(data') = Filter!Raised(before, key, i+1)
    BY <2>1, <2>4, RaisedStep DEF LoopInv
  <2> QED BY <1>1, <2>1, <2>2, <2>4, <2>5, LoopInvNext
<1>4. CASE IncOverflow
  BY <1>4, ReturnKeeps DEF IncOverflow
<1>5. CASE AddReturn
  BY <1>5, ReturnKeeps DEF AddReturn
<1>6. CASE TestProbe
  <2>1. /\ op \in {"contains", "check"} /\ i < K /\ readCounter(data, Idx) # 0
        /\ i' = i + 1 /\ UNCHANGED <<data, width, op, key, before>>
    BY <1>6 DEF TestProbe, ProbeOn
  <2>2. i \in 0 .. K-1 /\ i+1 \in 0 .. K /\ key \in Key /\ Decoded(data)[Idx] = readCounter(data, Idx)
    BY <2>1, NextProbe
  <2>3. before = Decoded(data) /\ \A j \in 0 .. i-1 : before[Probe[key][j]] # 0
    BY <2>1 DEF LoopInv
  <2>4. before[Probe[key][i]] # 0
    BY <2>1, <2>2, <2>3 DEF Idx
  <2>5. \A j \in 0 .. (i+1)-1 : j = i \/ j \in 0 .. i-1
    BY <2>2
  <2>6. \A j \in 0 .. (i+1)-1 : before[Probe[key][j]] # 0
    BY <2>3, <2>4, <2>5
  <2> QED BY <1>1, <2>1, <2>2, <2>3, <2>6, LoopInvNext
<1>7. CASE ProbeMiss
  BY <1>7, ReturnKeeps DEF ProbeMiss
<1>8. CASE ContainsReturn
  BY <1>8, ReturnKeeps DEF ContainsReturn
<1>9. CASE StartDecrements
  <2>1. /\ op = "check" /\ i = K /\ op' = "dec" /\ i' = 0 /\ 0 \in 0 .. K /\ key \in Key
        /\ UNCHANGED <<data, width, key, before>>
    BY <1>1, <1>9 DEF StartDecrements, LoopInv
  <2>2. before = Decoded(data) /\ \A j \in 0 .. K-1 : before[Probe[key][j]] # 0
    BY <2>1 DEF LoopInv
  <2>3. Filter!Contains(before, key)
    BY <2>2 DEF Filter!Contains, Filter!Probes
  <2>4. \A c \in Cell : Filter!Hits(key, 0, c) = 0
    BY <2>1, HitsOfProbes
  <2>5. LoweredBy(before, key, 0) = before
    <3>1. \A c \in Cell : before[c] = IF before[c] > 0 THEN before[c] - 0 ELSE 0
      BY <1>1, Limits
    <3>2. LoweredBy(before, key, 0) = [c \in Cell |-> IF before[c] > 0 THEN before[c] - 0 ELSE 0]
      BY <2>4 DEF LoweredBy
    <3> QED BY <1>1, <3>1, <3>2
  <2> QED BY <1>1, <2>1, <2>2, <2>3, <2>5, LoopInvNext
<1>10. CASE DecProbe
  <2> DEFINE v == readCounter(data, Idx)
  <2>1. /\ op = "dec" /\ i < K
        /\ data' = IF v > 0 THEN writeCounter(data, Idx, v - 1) ELSE data
        /\ i' = i + 1 /\ UNCHANGED <<width, op, key, before>>
    BY <1>10 DEF DecProbe, ProbeOn
  <2>2. /\ i+1 \in 0 .. K /\ key \in Key /\ Idx \in Cell /\ Limit \in Nat
        /\ v \in 0 .. Limit /\ Decoded(data)[Idx] = v
    BY <2>1, NextProbe
  <2>3. /\ StoreOK(data')
        /\ Decoded(data') = [Decoded(data) EXCEPT ![Idx] = IF v > 0 THEN v - 1 ELSE 0]
    <3>1. CASE v > 0
      <4>1. v - 1 \in 0 .. Limit /\ Idx \in Slot
        BY <1>1, <2>2, <3>1, SlotPlaces
      <4>2. data' = writeCounter(data, Idx, v - 1)
        BY <2>1, <3>1
      <4> HIDE DEF v
      <4> QED BY <1>1, <2>2, <3>1, <4>1, <4>2, WriteOneSlot, DecodedStore
    <3>2. CASE ~ v > 0
      <4>1. v = 0 /\ data' = data
        BY <2>1, <2>2, <3>2
      <4> HIDE DEF v
      <4> QED BY <1>1, <2>2, <4>1, DecodedStore
    <3> QED BY <3>1, <3>2
  <2>4. Decoded(data') = LoweredBy(before, key, i+1)
    BY <2>1, <2>3, LoweredStep DEF LoopInv
  <2>5. Filter!Contains(before, key)
    BY <2>1 DEF LoopInv
  <2> QED BY <1>1, <2>1, <2>2, <2>3, <2>4, <2>5, LoopInvNext
<1>11. CASE RemoveReturn
  BY <1>11, ReturnKeeps DEF RemoveReturn
<1>12. CASE ClearStore
  <2>1. /\ op' = "idle" /\ i' \in 0 .. K /\ width' = width
        /\ data' = [b \in 0 .. StorageLen - 1 |-> 0] /\ before' = Decoded(data')
    BY <1>1, <1>12 DEF ClearStore, LoopInv
  <2>2. StoreOK(data')
    BY <1>1, <2>1, DecodedZeros
  <2>3. before' \in [Cell -> 0 .. Limit]
    BY <1>1, <2>1, <2>2, DecodedStore
  <2> QED BY <1>1, <2>1, <2>2, <2>3, LoopInvNext
<1>13. CASE UNCHANGED loopVars
  BY <1>13 DEF loopVars, LoopInv, StoreOK, Decoded, readCounter, Unit, Limit, PerByte, StorageLen,
               LoweredBy, Filter!Raised, Filter!Contains, Filter!Hits
<1> QED BY <1>2, <1>3, <1>4, <1>5, <1>6, <1>7, <1>8, <1>9, <1>10, <1>11, <1>12, <1>13
        DEF LoopNext, LoopStep

\* The invariant of the probe loops (counting.go:82-125), for every m, k and width.
THEOREM LoopInvariant == LoopSpec => []LoopInv
BY LoopStart, LoopInvStep, PTL DEF LoopSpec

-----------------------------------------------------------------------------
(* What follows *)

\* A probe that writes, writes its own counter, one up or one down.
LEMMA WritingStep ==
  ASSUME LoopInv, LoopNext, op # "idle", data' # data
  PROVE  /\ i < K
         /\ \E w \in 0 .. Limit : /\ data' = writeCounter(data, Idx, w)
                                  /\ w - readCounter(data, Idx) \in {-1, 1}
<1>1. IncProbe \/ DecProbe
  BY DEF LoopNext, LoopStep, Call, IncOverflow, AddReturn, TestProbe, ProbeMiss, ContainsReturn,
         StartDecrements, RemoveReturn, ClearStore
<1>2. i < K
  BY <1>1 DEF IncProbe, DecProbe
<1>3. PICK v : v = readCounter(data, Idx) /\ v \in 0 .. Limit /\ Limit \in Nat
  BY <1>2, NextProbe
<1>4. CASE IncProbe
  <2>1. v # Limit /\ data' = writeCounter(data, Idx, v + 1)
    BY <1>3, <1>4 DEF IncProbe
  <2>2. v + 1 \in 0 .. Limit /\ (v + 1) - v \in {-1, 1}
    BY <1>3, <2>1
  <2> QED BY <1>2, <1>3, <2>1, <2>2
<1>5. CASE DecProbe
  <2>1. v > 0 /\ data' = writeCounter(data, Idx, v - 1)
    BY <1>3, <1>5 DEF DecProbe
  <2>2. v - 1 \in 0 .. Limit /\ (v - 1) - v \in {-1, 1}
    BY <1>3, <2>1
  <2> QED BY <1>2, <1>3, <2>1, <2>2
<1> QED BY <1>1, <1>4, <1>5

\* A step of a loop changes at most one counter, by one, and leaves its neighbours
\* in the byte and the unused places alone, at every m and width.
THEOREM NeighboursUntouched == LoopSpec => OneCounterPerStep
<1> DEFINE OneCounter ==
      (op # "idle" /\ data' # data) =>
         LET old == Slots(data)
             new == Slots(data')
         IN  /\ i < K
             /\ new[Idx] - old[Idx] \in {-1, 1}
             /\ \A idx \in DOMAIN old \ {Idx} : new[idx] = old[idx]
<1>1. LoopInv /\ [LoopNext]_loopVars => [OneCounter]_loopVars
  <2> SUFFICES ASSUME LoopInv, LoopNext, op # "idle", data' # data
               PROVE  /\ i < K
                      /\ Slots(data')[Idx] - Slots(data)[Idx] \in {-1, 1}
                      /\ \A idx \in DOMAIN Slots(data) \ {Idx} : Slots(data')[idx] = Slots(data)[idx]
    OBVIOUS
  <2>1. /\ i < K
        /\ \E w \in 0 .. Limit : /\ data' = writeCounter(data, Idx, w)
                                 /\ w - readCounter(data, Idx) \in {-1, 1}
    BY WritingStep
  <2>2. PICK w \in 0 .. Limit : /\ data' = writeCounter(data, Idx, w)
                                /\ w - readCounter(data, Idx) \in {-1, 1}
    BY <2>1
  <2>3. Idx \in Slot /\ width \in Width /\ StoreOK(data)
    BY <2>1, NextProbe, SlotPlaces DEF LoopInv
  <2>4. \A t \in Slot : readCounter(data', t) = IF t = Idx THEN w ELSE readCounter(data, t)
    BY <2>2, <2>3, WriteOneSlot
  <2>5. /\ DOMAIN Slots(data) = Slot
        /\ \A t \in Slot : Slots(data)[t] = readCounter(data, t) /\ Slots(data')[t] = readCounter(data', t)
    BY DEF Slots, Slot
  <2> QED BY <2>1, <2>2, <2>3, <2>4, <2>5
<1>2. OneCounterPerStep <=> [][OneCounter]_loopVars
  BY DEF OneCounterPerStep
<1> HIDE DEF OneCounter
<1> QED BY <1>1, <1>2, LoopInvariant, PTL DEF LoopSpec

\* A step of the loops is a call of CountingFilter as it returns, or none.
LEMMA FilterStep ==
  ASSUME LoopInv, LoopNext, Seen = before, Seen' = before'
  PROVE  \/ Filter!Next
         \/ before' = before /\ UNCHANGED <<width, n, last>>
<1>1. /\ K \in Nat \ {0} /\ Limit \in Nat \ {0} /\ Filter!Limit = Limit
      /\ width \in Width /\ StoreOK(data) /\ before \in [Cell -> 0 .. Limit]
      /\ Decoded(data) \in [Cell -> 0 .. Limit]
  BY LoopAssumption, Limits, DecodedStore DEF LoopInv, Filter!Limit, Limit
<1>2. op # "idle" => key \in Key
  BY DEF LoopInv
<1>3. ASSUME NEW o, NEW k, Call(o, k) PROVE before' = before /\ UNCHANGED <<width, n, last>>
  BY <1>3 DEF Call
<1>4. CASE IncProbe \/ TestProbe \/ DecProbe
  BY <1>4 DEF IncProbe, TestProbe, DecProbe, ProbeOn
<1>5. CASE StartDecrements
  BY <1>5 DEF StartDecrements
<1>6. ASSUME op = "add", i \in 0 .. K
      PROVE  Filter!Fits(before, key, i) /\ Filter!Raised(before, key, i) = Decoded(data)
  BY <1>1, <1>6 DEF LoopInv, Filter!Fits, Filter!Cell, Cell
<1>7. CASE IncOverflow
  <2>1. /\ op = "add" /\ i < K /\ readCounter(data, Idx) = Limit
        /\ before' = Decoded(data) /\ UNCHANGED <<n, width>>
        /\ last' = [op |-> "add", key |-> key, out |-> "overflow"]
    BY <1>7 DEF IncOverflow, Return
  <2>2. i \in 0 .. K-1 /\ i \in 0 .. K /\ Idx \in Cell
    BY <1>1, <2>1, NextProbe
  <2>3. Filter!Raised(before, key, i+1)[Idx] = Limit + 1
    <3>1. Filter!Raised(before, key, i+1) = [Filter!Raised(before, key, i) EXCEPT ![Idx] = Limit + 1]
      BY <2>1, RaisedStep
    <3>2. Filter!Raised(before, key, i) \in [Cell -> 0 .. Limit]
      BY <1>1, <1>6, <2>1, <2>2
    <3> QED BY <2>2, <3>1, <3>2
  <2>4. ~ Filter!Fits(before, key, i+1)
    BY <1>1, <2>2, <2>3 DEF Filter!Fits, Filter!Cell, Cell
  <2>5. Filter!AddOverflow(key, i)
    BY <1>6, <2>1, <2>2, <2>4 DEF Filter!AddOverflow, Filter!Returns, Seen
  <2> QED BY <1>2, <2>1, <2>2, <2>5 DEF Filter!Next, Filter!Probes
<1>8. CASE AddReturn
  <2>1. /\ op = "add" /\ i = K /\ K \in 0 .. K
        /\ before' = Decoded(data) /\ n' = n + 1 /\ UNCHANGED width
        /\ last' = [op |-> "add", key |-> key, out |-> "ok"]
    BY <1>1, <1>8 DEF AddReturn, Return
  <2>2. Filter!Add(key)
    BY <1>6, <2>1 DEF Filter!Add, Filter!Returns, Seen
  <2> QED BY <1>2, <2>1, <2>2 DEF Filter!Next
<1>9. CASE ProbeMiss
  <2>1. /\ op \in {"contains", "check"} /\ i < K /\ readCounter(data, Idx) = 0
        /\ before' = Decoded(data) /\ UNCHANGED <<n, width>>
        /\ last' = [op |-> IF op = "check" THEN "remove" ELSE "contains", key |-> key, out |-> "miss"]
    BY <1>9 DEF ProbeMiss, Return
  <2>2. before = Decoded(data) /\ i \in 0 .. K-1 /\ before[Probe[key][i]] = 0
    BY <2>1, NextProbe DEF LoopInv, Idx
  <2>3. ~ Filter!Contains(before, key)
    BY <2>2 DEF Filter!Contains, Filter!Probes
  <2>4. CASE op = "check"
    <3>1. Filter!RemoveAbsent(key)
      BY <2>1, <2>2, <2>3, <2>4 DEF Filter!RemoveAbsent, Filter!Returns, Seen
    <3> QED BY <1>2, <2>1, <3>1 DEF Filter!Next
  <2>5. CASE op = "contains"
    <3>1. Filter!Lookup(key)
      BY <2>1, <2>2, <2>3, <2>5 DEF Filter!Lookup, Filter!Returns, Seen
    <3> QED BY <1>2, <2>1, <3>1 DEF Filter!Next
  <2> QED BY <2>1, <2>4, <2>5
<1>10. CASE ContainsReturn
  <2>1. /\ op = "contains" /\ i = K /\ before' = Decoded(data) /\ UNCHANGED <<n, width>>
        /\ last' = [op |-> "contains", key |-> key, out |-> "hit"]
    BY <1>10 DEF ContainsReturn, Return
  <2>2. before = Decoded(data) /\ Filter!Contains(before, key)
    BY <2>1 DEF LoopInv, Filter!Contains, Filter!Probes
  <2>3. Filter!Lookup(key)
    BY <2>1, <2>2 DEF Filter!Lookup, Filter!Returns, Seen
  <2> QED BY <1>2, <2>1, <2>3 DEF Filter!Next
<1>11. CASE RemoveReturn
  <2>1. /\ op = "dec" /\ i = K /\ before' = Decoded(data) /\ UNCHANGED width
        /\ n' = IF n > 0 THEN n - 1 ELSE n
        /\ last' = [op |-> "remove", key |-> key, out |-> "hit"]
    BY <1>11 DEF RemoveReturn, Return
  <2>2. Filter!Contains(before, key) /\ before' = LoweredBy(before, key, K)
    BY <2>1 DEF LoopInv
  <2>3. LoweredBy(before, key, K) = Filter!Lowered(before, key)
    BY DEF LoweredBy, Filter!Lowered, Filter!Cell, Cell
  <2>4. Filter!Remove(key)
    BY <2>1, <2>2, <2>3 DEF Filter!Remove, Filter!Returns, Seen
  <2> QED BY <1>2, <2>1, <2>4 DEF Filter!Next
<1>12. CASE ClearStore
  <2>1. /\ before' = Decoded([b \in 0 .. StorageLen - 1 |-> 0]) /\ n' = 0 /\ UNCHANGED width
        /\ last' = [op |-> "clear", key |-> NoKey, out |-> "ok"]
    BY <1>12 DEF ClearStore
  <2>2. before' = [c \in Filter!Cell |-> 0]
    BY <1>1, <2>1, DecodedZeros DEF Filter!Cell, Cell
  <2>3. Filter!Clear
    BY <2>1, <2>2 DEF Filter!Clear, Filter!Returns, Seen
  <2> QED BY <2>3 DEF Filter!Next
<1> QED BY <1>3, <1>4, <1>5, <1>7, <1>8, <1>9, <1>10, <1>11, <1>12 DEF LoopNext, LoopStep

\* The loops implement the calls of CountingFilter, whatever m, k, the width and
\* the probes of the keys.
THEOREM LoopsAreCalls == LoopSpec => ImplementsFilter
<1>1. LoopInit => Filter!Init
  <2> SUFFICES ASSUME LoopInit PROVE Filter!Init
    OBVIOUS
  <2>1. /\ width \in Width /\ op = "idle" /\ n = 0
        /\ data = [b \in 0 .. StorageLen - 1 |-> 0]
        /\ last = [op |-> "new", key |-> NoKey, out |-> "ok"]
    BY DEF LoopInit
  <2>2. Decoded(data) = [c \in Cell |-> 0]
    BY <2>1, DecodedZeros
  <2> QED BY <2>1, <2>2 DEF Filter!Init, Filter!Cell, Cell
<1>2. LoopInv' => Seen' = before'
  BY DEF LoopInv, Seen
<1>3. LoopInv /\ LoopInv' /\ [LoopNext]_loopVars => [Filter!Next]_(Filter!vars)
  <2> SUFFICES ASSUME LoopInv, LoopInv', [LoopNext]_loopVars
               PROVE  Filter!Next \/ UNCHANGED <<Seen, width, n, last>>
    BY DEF Filter!vars, Seen
  <2>1. Seen = before
    BY SeenIsBefore
  <2>2. Seen' = before'
    BY <1>2
  <2>3. CASE LoopNext
    BY <2>1, <2>2, <2>3, FilterStep
  <2>4. CASE UNCHANGED loopVars
    BY <2>1, <2>2, <2>4 DEF loopVars
  <2> QED BY <2>3, <2>4
<1> QED BY <1>1, <1>3, LoopInvariant, PTL DEF LoopSpec, ImplementsFilter, Filter!Spec

\* The state of a filter and of its loops has its types: an element of the
\* slice is a number, cf.n never falls below zero (counting.go:121-123).
THEOREM LoopTypeCorrect == LoopSpec => []LoopTypeOK
<1> DEFINE Rest == n \in Nat /\ key \in Key \cup {NoKey}
<1>1. LoopInit => Rest
  BY DEF LoopInit
<1>2. LoopInv /\ Rest /\ [LoopNext]_loopVars => Rest'
  BY DEF LoopInv, LoopNext, LoopStep, loopVars, Call, Return, IncProbe, IncOverflow, AddReturn,
         TestProbe, ProbeMiss, ContainsReturn, StartDecrements, DecProbe, RemoveReturn, ClearStore, ProbeOn
<1>3. LoopInv /\ Rest => LoopTypeOK
  BY DEF LoopInv, StoreOK, LoopTypeOK
<1> HIDE DEF Rest
<1> QED BY <1>1, <1>2, <1>3, LoopInvariant, PTL DEF LoopSpec

\* How many steps a call still takes at most: Remove checks every probe and then
\* decrements every one.
Remaining ==
  IF op = "idle" THEN 0
  ELSE IF op = "check" THEN 2*K - i + 2
  ELSE K - i + 1

\* Whatever a call of Add, Contains or Remove does in a step, fewer are left: with a
\* goroutine that runs on, every call returns (counting.go:84, 102, 118).
THEOREM CallsRunDown ==
  LoopSpec => [][op # "idle" => Remaining' \in Nat /\ Remaining' < Remaining]_loopVars
<1>1. ASSUME LoopInv, LoopNext, op # "idle"
      PROVE  Remaining' \in Nat /\ Remaining' < Remaining
  <2>1. i \in Nat /\ i <= K /\ K \in Nat \ {0} /\ LoopStep
    BY <1>1, LoopAssumption DEF LoopInv, LoopNext, Call, ClearStore
  <2>2. CASE i' = i + 1 /\ i < K /\ op' = op
    BY <1>1, <2>1, <2>2 DEF Remaining
  <2>3. CASE op' = "idle"
    BY <1>1, <2>1, <2>3 DEF Remaining
  <2>4. CASE op = "check" /\ i = K /\ op' = "dec" /\ i' = 0
    BY <2>1, <2>4 DEF Remaining
  <2> QED BY <2>1, <2>2, <2>3, <2>4
          DEF LoopStep, IncProbe, IncOverflow, AddReturn, TestProbe, ProbeMiss, ContainsReturn,
              StartDecrements, DecProbe, RemoveReturn, ProbeOn, Return
<1>2. LoopInv /\ [LoopNext]_loopVars =>
        [op # "idle" => Remaining' \in Nat /\ Remaining' < Remaining]_loopVars
  BY <1>1
<1> QED BY <1>2, LoopInvariant, PTL DEF LoopSpec
=============================================================================
