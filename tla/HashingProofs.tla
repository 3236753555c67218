--------------------------- MODULE HashingProofs ----------------------------
(***************************************************************************)
(* Proofs about the two halves of hashing a key.                           *)
(*                                                                         *)
(* HashReads: for a key of any length, every family loads within the key,  *)
(* feeds every byte of it to both halves of the digest, keeps the bytes    *)
(* apart, and tells the key's length.                                      *)
(*                                                                         *)
(* StrideMeasure: for words of any size, any layout and any two derived    *)
(* words, the mask takes the remainder, gcdUint64 returns the greatest     *)
(* common divisor, and how many positions the probes reach follows from it *)
(* wherever the sums do not wrap or m is a power of two.                   *)
(***************************************************************************)
EXTENDS HashReads, StrideMeasure, TLAPS, WellFoundedInduction, FiniteSetTheorems

Entry == Nat \X (0..7) \X Int

\* The bytes of the key below n are fed.
FedTo(fed, n) == \A p \in 0..n-1 : Holds(fed, p)

\* Well-formed entries, in words that are finished, of bytes of the key.
Sound(fed) ==
  /\ fed \subseteq Entry
  /\ \A e \in fed : e[1] < w /\ e[3] < len
  /\ OneByteEach(fed)

HashTypeOK ==
  /\ fam \in Family /\ len \in Nat
  /\ off \in Nat /\ off <= len
  /\ w \in Nat /\ told \in Int
  /\ pc \in {"absorb", "again", "done"}

\* What the loops keep: how the words count the bytes, and that wyhash stops
\* before the last byte.
Counted ==
  /\ pc = "absorb" =>
       /\ told = None
       /\ fam \in {"highway", "siphash"} => off = 8 * w
       /\ fam = "fnv" => off = w
       /\ fam = "wyhash" => (off = len => len = 0)
  /\ pc = "again" => fam = "fnv" /\ w = len + off

Covered ==
  /\ pc = "absorb" => FedTo(fed1, off) /\ (fam = "fnv" \/ FedTo(fed2, off))
  /\ pc = "again" => FedTo(fed1, len) /\ FedTo(fed2, off)
  /\ pc = "done" => FedTo(fed1, len) /\ FedTo(fed2, len)

\* The inductive invariant.
HashInv ==
  /\ HashTypeOK /\ Sound(fed1) /\ Sound(fed2)
  /\ Counted /\ Covered /\ LengthTold

-----------------------------------------------------------------------------
\* The bytes packed from word v on are c in a row, one in each slot, and need
\* no word past the one the last byte is in.
LEMMA PackedBytes ==
  ASSUME NEW v \in Nat, NEW p \in Nat, NEW c \in Nat, NEW n \in Nat, c <= 8 * n
  PROVE  /\ Packed(v, p, c) \subseteq Entry
         /\ \A e \in Packed(v, p, c) : v <= e[1] /\ e[1] < v + n /\ p <= e[3] /\ e[3] < p + c
         /\ OneByteEach(Packed(v, p, c))
         /\ \A q \in p..p+c-1 : Holds(Packed(v, p, c), q)
<1> DEFINE At(j) == <<v + (j \div 8), j % 8, p + j>>
<1>1. \A j \in 0..c-1 : /\ At(j) \in Entry
                        /\ At(j)[1] = v + (j \div 8) /\ At(j)[2] = j % 8 /\ At(j)[3] = p + j
                        /\ j = 8 * (j \div 8) + (j % 8)
                        /\ j \div 8 \in Nat /\ j \div 8 < n
  BY DEF Entry
<1>2. Packed(v, p, c) = {At(j) : j \in 0..c-1}
  BY DEF Packed
<1> HIDE DEF At
<1>3. OneByteEach(Packed(v, p, c))
  <2> SUFFICES ASSUME NEW x \in 0..c-1, NEW j \in 0..c-1, At(x)[1] = At(j)[1], At(x)[2] = At(j)[2]
               PROVE  At(x) = At(j)
    BY <1>2 DEF OneByteEach
  <2>1. v + (x \div 8) = v + (j \div 8) /\ x % 8 = j % 8
    BY <1>1
  <2>2. x = j
    BY <2>1, <1>1
  <2> QED BY <2>2
<1>4. \A q \in p..p+c-1 : Holds(Packed(v, p, c), q)
  <2> SUFFICES ASSUME NEW q \in p..p+c-1 PROVE \E e \in Packed(v, p, c) : e[3] = q
    BY DEF Holds
  <2>1. q - p \in 0..c-1 /\ At(q - p)[3] = q
    BY <1>1
  <2> QED BY <2>1, <1>2
<1> QED BY <1>1, <1>2, <1>3, <1>4

\* Entries in new words of bytes of the key leave what is fed sound.
LEMMA MoreIsSound ==
  ASSUME NEW fed, NEW new, NEW n \in Nat, HashTypeOK, Sound(fed),
         new \subseteq Entry, OneByteEach(new),
         \A e \in new : w <= e[1] /\ e[1] < w + n /\ e[3] < len
  PROVE  /\ fed \cup new \subseteq Entry
         /\ \A e \in fed \cup new : e[1] < w + n /\ e[3] < len
         /\ OneByteEach(fed \cup new)
<1>1. \A e \in fed : e[1] \in Nat /\ e[1] < w
  BY DEF Sound, Entry
<1>2. \A e \in new : e[1] \in Nat /\ ~(e[1] < w)
  BY DEF Entry, HashTypeOK
<1>3. OneByteEach(fed \cup new)
  BY <1>1, <1>2 DEF Sound, OneByteEach
<1>4. \A e \in fed \cup new : e[1] < w + n /\ e[3] < len
  BY <1>1 DEF Sound, HashTypeOK
<1> QED BY <1>3, <1>4 DEF Sound

\* Bytes below n are fed, and those from n to d - 1 are added.
LEMMA MoreIsCovered ==
  ASSUME NEW fed, NEW new, NEW n \in Nat, NEW d \in Nat, FedTo(fed, n),
         \A p \in n..d-1 : Holds(new, p)
  PROVE  FedTo(fed \cup new, d)
BY DEF FedTo, Holds

\* A loop that takes c bytes, at most 8 for each word.
LEMMA AbsorbStep ==
  ASSUME NEW c \in Nat, NEW n \in Nat, HashInv, fam # "fnv", pc = "absorb",
         c <= 8 * n, c <= left, Absorb(c, n)
  PROVE  /\ HashTypeOK' /\ Sound(fed1)' /\ Sound(fed2)' /\ Covered' /\ LengthTold'
         /\ off' = off + c /\ w' = w + n /\ UNCHANGED <<fam, len, told, pc>>
<1>1. off \in Nat /\ w \in Nat /\ len \in Nat /\ off + c \in Nat /\ off + c <= len
  BY DEF HashInv, HashTypeOK, left
<1> DEFINE new == Packed(w, off, c)
<1>2. /\ new \subseteq Entry
      /\ \A e \in new : w <= e[1] /\ e[1] < w + n /\ off <= e[3] /\ e[3] < off + c
      /\ OneByteEach(new)
      /\ \A q \in off..off+c-1 : Holds(new, q)
  BY <1>1, PackedBytes
<1>3. fed1' = fed1 \cup new /\ fed2' = fed2 \cup new /\ off' = off + c /\ w' = w + n
      /\ UNCHANGED <<fam, len, told, pc>>
  BY DEF Absorb
<1> HIDE DEF new
<1>4. \A e \in new : w <= e[1] /\ e[1] < w + n /\ e[3] < len
  BY <1>1, <1>2 DEF Entry
<1>5. HashTypeOK'
  BY <1>1, <1>3 DEF HashInv, HashTypeOK
<1>6. HashTypeOK /\ Sound(fed1) /\ Sound(fed2)
  BY DEF HashInv
<1>7. Sound(fed1)' /\ Sound(fed2)'
  <2>1. /\ fed1 \cup new \subseteq Entry
        /\ \A e \in fed1 \cup new : e[1] < w + n /\ e[3] < len
        /\ OneByteEach(fed1 \cup new)
    BY <1>2, <1>4, <1>6, MoreIsSound
  <2>2. /\ fed2 \cup new \subseteq Entry
        /\ \A e \in fed2 \cup new : e[1] < w + n /\ e[3] < len
        /\ OneByteEach(fed2 \cup new)
    BY <1>2, <1>4, <1>6, MoreIsSound
  <2> QED BY <2>1, <2>2, <1>3 DEF Sound, OneByteEach
<1>8. FedTo(fed1, off) /\ FedTo(fed2, off)
  BY DEF HashInv, Covered
<1>a. \A q \in off..(off + c)-1 : Holds(new, q)
  BY <1>1, <1>2
<1>9. FedTo(fed1 \cup new, off + c)
  BY <1>1, <1>a, <1>8, MoreIsCovered
<1>10. FedTo(fed2 \cup new, off + c)
  BY <1>1, <1>a, <1>8, MoreIsCovered
<1>11. Covered' /\ LengthTold'
  BY <1>3, <1>9, <1>10 DEF Covered, LengthTold
<1> QED BY <1>3, <1>5, <1>7, <1>11

\* What the bytes left become in the last words: sound entries that hold them
\* all.
Tail(entries, n) ==
  /\ entries \subseteq Entry
  /\ OneByteEach(entries)
  /\ \A e \in entries : w <= e[1] /\ e[1] < w + n /\ e[3] < len
  /\ \A p \in off..len-1 : Holds(entries, p)

\* The last step of a family: nothing of the key is left out.
LEMMA FinishStep ==
  ASSUME NEW entries, NEW n \in Nat, NEW length \in Int, HashInv, fam # "fnv", pc = "absorb",
         Tail(entries, n), Finish(entries, n, length), LengthTold'
  PROVE  HashInv'
<1>1. HashTypeOK /\ Sound(fed1) /\ Sound(fed2)
  BY DEF HashInv
<1>2. /\ fed1' = fed1 \cup entries /\ fed2' = fed2 \cup entries
      /\ w' = w + n /\ told' = length /\ pc' = "done" /\ UNCHANGED <<fam, len, off>>
  BY DEF Finish
<1>3. HashTypeOK'
  BY <1>1, <1>2 DEF HashTypeOK
<1>4. Sound(fed1)' /\ Sound(fed2)'
  <2>1. /\ fed1 \cup entries \subseteq Entry
        /\ \A e \in fed1 \cup entries : e[1] < w + n /\ e[3] < len
        /\ OneByteEach(fed1 \cup entries)
    BY <1>1, MoreIsSound DEF Tail
  <2>2. /\ fed2 \cup entries \subseteq Entry
        /\ \A e \in fed2 \cup entries : e[1] < w + n /\ e[3] < len
        /\ OneByteEach(fed2 \cup entries)
    BY <1>1, MoreIsSound DEF Tail
  <2> QED BY <2>1, <2>2, <1>2 DEF Sound, OneByteEach
<1>5. FedTo(fed1 \cup entries, len) /\ FedTo(fed2 \cup entries, len)
  <2>1. off \in Nat /\ len \in Nat /\ FedTo(fed1, off) /\ FedTo(fed2, off)
    BY <1>1 DEF HashInv, Covered, HashTypeOK
  <2>2. \A p \in off..len-1 : Holds(entries, p)
    BY DEF Tail
  <2>3. FedTo(fed1 \cup entries, len)
    BY <2>1, <2>2, MoreIsCovered
  <2>4. FedTo(fed2 \cup entries, len)
    BY <2>1, <2>2, MoreIsCovered
  <2> QED BY <2>3, <2>4
<1>6. Covered' /\ Counted'
  BY <1>2, <1>5 DEF Covered, Counted
<1> QED BY <1>3, <1>4, <1>6 DEF HashInv

\* Nothing is left: no entry is needed.
LEMMA EmptyTail == ASSUME HashTypeOK, left = 0 PROVE Tail({}, 0)
BY DEF Tail, OneByteEach, HashTypeOK, left

\* The bytes left, packed into n words.
LEMMA PackedTail ==
  ASSUME HashTypeOK, NEW n \in Nat, left <= 8 * n
  PROVE  Tail(Packed(w, off, left), n)
<1>1. off \in Nat /\ w \in Nat /\ left \in Nat /\ off + left = len /\ len \in Nat
  BY DEF HashTypeOK, left
<1>2. /\ Packed(w, off, left) \subseteq Entry
      /\ \A e \in Packed(w, off, left) : w <= e[1] /\ e[1] < w + n /\ off <= e[3] /\ e[3] < off + left
      /\ OneByteEach(Packed(w, off, left))
      /\ \A q \in off..off+left-1 : Holds(Packed(w, off, left), q)
  BY <1>1, PackedBytes
<1>3. \A p \in off..len-1 : p \in off..off+left-1
  BY <1>1
<1> QED BY <1>1, <1>2, <1>3 DEF Tail

\* Entries of different words do not share a slot.
LEMMA ApartByWord ==
  ASSUME NEW one \in SUBSET Entry, NEW two \in SUBSET Entry, NEW v \in Nat,
         OneByteEach(one), OneByteEach(two),
         \A e \in one : e[1] < v, \A e \in two : v <= e[1]
  PROVE  OneByteEach(one \cup two)
<1>1. \A e \in one : e[1] \in Nat /\ e[1] < v
  BY DEF Entry
<1>2. \A e \in two : e[1] \in Nat /\ ~(e[1] < v)
  BY DEF Entry
<1> QED BY <1>1, <1>2 DEF OneByteEach

-----------------------------------------------------------------------------
\* Two words of c bytes, the second one ending with the key, hold all the
\* bytes left when these are at most 2 c.
LEMMA WyhashTwoWords ==
  ASSUME HashTypeOK, NEW c \in 1..8, left >= c, left <= 2 * c
  PROVE  Tail(Packed(w, off, c) \cup Packed(w + 1, off + left - c, c), 2)
<1> DEFINE one == Packed(w, off, c)
           two == Packed(w + 1, off + left - c, c)
<1>1. /\ off \in Nat /\ w \in Nat /\ left \in Nat /\ off + left = len /\ len \in Nat
      /\ off + left - c \in Nat /\ c \in Nat /\ c <= 8 * 1 /\ w + 1 \in Nat
  BY DEF HashTypeOK, left
<1>2. /\ one \subseteq Entry
      /\ \A e \in one : w <= e[1] /\ e[1] < w + 1 /\ off <= e[3] /\ e[3] < off + c
      /\ OneByteEach(one)
      /\ \A q \in off..off+c-1 : Holds(one, q)
  BY <1>1, PackedBytes
<1>3. /\ two \subseteq Entry
      /\ \A e \in two : w + 1 <= e[1] /\ e[1] < (w + 1) + 1 /\ e[3] < (off + left - c) + c
      /\ OneByteEach(two)
      /\ \A q \in (off+left-c)..(off+left-c)+c-1 : Holds(two, q)
  BY <1>1, PackedBytes
<1> HIDE DEF one, two
<1>4. OneByteEach(one \cup two)
  BY <1>1, <1>2, <1>3, ApartByWord
<1>5. \A e \in one : w <= e[1] /\ e[1] < w + 2 /\ e[3] < len
  BY <1>1, <1>2 DEF Entry
<1>6. \A e \in two : w <= e[1] /\ e[1] < w + 2 /\ e[3] < len
  BY <1>1, <1>3 DEF Entry
<1>7. \A p \in off..len-1 : p \in off..off+c-1 \/ p \in (off+left-c)..(off+left-c)+c-1
  BY <1>1
<1>8. \A p \in off..len-1 : Holds(one \cup two, p)
  BY <1>2, <1>3, <1>7 DEF Holds
<1>9. Tail(one \cup two, 2)
  BY <1>2, <1>3, <1>4, <1>5, <1>6, <1>8 DEF Tail
<1> QED BY <1>9 DEF one, two

\* The switch of wyhash leaves no byte out, whichever case it takes.
LEMMA WyhashTailEntries == ASSUME HashTypeOK, left \in 1..16 PROVE Tail(WyhashEntries, 2)
<1>1. CASE left < 4
  <2>1. WyhashEntries = {<<w, 2, off>>, <<w, 1, off + (left \div 2)>>, <<w, 0, off + left - 1>>}
    BY <1>1 DEF WyhashEntries
  <2>2. /\ off \in Nat /\ w \in Nat /\ off + left = len /\ len \in Nat
        /\ left \in {1, 2, 3} /\ left \div 2 \in {0, 1} /\ (left = 3 => left \div 2 = 1)
    BY <1>1 DEF HashTypeOK, left
  <2>3. \A p \in off..len-1 : p = off \/ p = off + (left \div 2) \/ p = off + left - 1
    BY <2>2
  <2> QED BY <2>1, <2>2, <2>3 DEF Tail, Entry, OneByteEach, Holds
<1>2. CASE left = 4 \/ left = 8
  <2>1. WyhashEntries = Packed(w, off, left)
    BY <1>2 DEF WyhashEntries
  <2> QED BY <1>2, <2>1, PackedTail
<1>3. CASE left \in 5..7
  <2>1. WyhashEntries = Packed(w, off, 4) \cup Packed(w + 1, off + left - 4, 4)
    BY <1>3 DEF WyhashEntries
  <2> QED BY <1>3, <2>1, WyhashTwoWords
<1>4. CASE left \in 9..16
  <2>1. WyhashEntries = Packed(w, off, 8) \cup Packed(w + 1, off + left - 8, 8)
    BY <1>4 DEF WyhashEntries
  <2> QED BY <1>4, <2>1, WyhashTwoWords
<1> QED BY <1>1, <1>2, <1>3, <1>4

-----------------------------------------------------------------------------
\* The block of highwayHashBuffer holds every byte left, and no two of them in
\* one place.
LEMMA HighwayTailEntries == ASSUME HashTypeOK, left \in 1..31 PROVE Tail(HighwayBlock, 4)
<1> DEFINE mod4 == left % 4
           remain == left - mod4
           At(slot, j) == <<w + (slot \div 8), slot % 8, off + j>>
<1>1. /\ off \in Nat /\ w \in Nat /\ off + left = len /\ len \in Nat /\ left \in 1..31
      /\ mod4 \in 0..3 /\ remain \in 0..28 /\ left = remain + mod4
      /\ (left >= 16 => remain >= 16) /\ (~(left >= 16) => remain <= 12)
      /\ mod4 \div 2 \in {0, 1} /\ (mod4 \in {2, 3} => mod4 \div 2 = 1) /\ (mod4 \in {0, 1} => mod4 \div 2 = 0)
  BY DEF HashTypeOK, left
<1>2. ASSUME NEW slot \in 0..31, NEW j \in 0..left-1
      PROVE  /\ At(slot, j) \in Entry
             /\ At(slot, j)[1] = w + (slot \div 8) /\ At(slot, j)[2] = slot % 8 /\ At(slot, j)[3] = off + j
             /\ slot = 8 * (slot \div 8) + (slot % 8) /\ slot \div 8 \in 0..3
             /\ off + j < len
  BY <1>1 DEF Entry
<1>3. Packed(w, off, remain) = {At(j, j) : j \in 0..remain-1}
  BY DEF Packed
<1>4. HighwayBlock = Packed(w, off, remain) \cup
        (IF left >= 16 THEN {At(28 + j, left - 4 + j) : j \in 0..3}
         ELSE IF mod4 # 0 THEN {At(16, remain), At(17, remain + (mod4 \div 2)), At(18, left - 1)}
         ELSE {})
  BY DEF HighwayBlock
\* Every entry is a byte left in a slot, and the slot tells the byte.
<1> DEFINE Byte(slot) ==
      IF slot < remain THEN slot
      ELSE IF left >= 16 THEN slot - 32 + left
      ELSE IF slot = 16 THEN remain
      ELSE IF slot = 17 THEN remain + (mod4 \div 2)
      ELSE left - 1
<1> HIDE DEF At, mod4, remain
<1>5. \A e \in HighwayBlock : \E slot \in 0..31 : e = At(slot, Byte(slot)) /\ Byte(slot) \in 0..left-1
  <2>1. CASE left >= 16
    <3>1. ASSUME NEW j \in 0..3 PROVE At(28 + j, left - 4 + j) = At(28 + j, Byte(28 + j))
      BY <1>1, <2>1
    <3>2. ASSUME NEW j \in 0..remain-1 PROVE j \in 0..31 /\ Byte(j) = j /\ j \in 0..left-1
      BY <1>1
    <3>3. ASSUME NEW j \in 0..3 PROVE 28 + j \in 0..31 /\ Byte(28 + j) \in 0..left-1
      BY <1>1, <2>1
    <3>4. HighwayBlock = {At(j, j) : j \in 0..remain-1} \cup {At(28 + j, left - 4 + j) : j \in 0..3}
      BY <1>3, <1>4, <2>1
    <3> QED BY <3>1, <3>2, <3>3, <3>4
  <2>2. CASE ~(left >= 16) /\ mod4 # 0
    <3>1. Byte(16) = remain /\ Byte(17) = remain + (mod4 \div 2) /\ Byte(18) = left - 1
      BY <1>1, <2>2
    <3>2. ASSUME NEW j \in 0..remain-1 PROVE j \in 0..31 /\ Byte(j) = j /\ j \in 0..left-1
      BY <1>1
    <3>3. Byte(16) \in 0..left-1 /\ Byte(17) \in 0..left-1 /\ Byte(18) \in 0..left-1
      BY <1>1, <2>2, <3>1
    <3>4. HighwayBlock = {At(j, j) : j \in 0..remain-1} \cup
                         {At(16, remain), At(17, remain + (mod4 \div 2)), At(18, left - 1)}
      BY <1>3, <1>4, <2>2
    <3> HIDE DEF Byte
    <3> QED BY <3>1, <3>2, <3>3, <3>4
  <2>3. CASE ~(left >= 16) /\ mod4 = 0
    <3>1. HighwayBlock = {At(j, j) : j \in 0..remain-1}
      BY <1>3, <1>4, <2>3
    <3>2. ASSUME NEW j \in 0..remain-1 PROVE j \in 0..31 /\ Byte(j) = j /\ j \in 0..left-1
      BY <1>1
    <3> QED BY <3>1, <3>2
  <2> QED BY <2>1, <2>2, <2>3
<1>6. HighwayBlock \subseteq Entry /\ \A e \in HighwayBlock : w <= e[1] /\ e[1] < w + 4 /\ e[3] < len
  <2> HIDE DEF Byte
  <2> SUFFICES ASSUME NEW e \in HighwayBlock
               PROVE  e \in Entry /\ w <= e[1] /\ e[1] < w + 4 /\ e[3] < len
    OBVIOUS
  <2>1. PICK s \in 0..31 : e = At(s, Byte(s)) /\ Byte(s) \in 0..left-1
    BY <1>5
  <2>2. e \in Entry /\ e[1] = w + (s \div 8) /\ s \div 8 \in 0..3 /\ e[3] = off + Byte(s)
        /\ off + Byte(s) < len
    BY <1>2, <2>1
  <2> QED BY <1>1, <2>2
<1>7. OneByteEach(HighwayBlock)
  <2> SUFFICES ASSUME NEW e \in HighwayBlock, NEW f \in HighwayBlock, e[1] = f[1], e[2] = f[2]
               PROVE  e = f
    BY DEF OneByteEach
  <2> HIDE DEF Byte
  <2>1. PICK s \in 0..31 : e = At(s, Byte(s)) /\ Byte(s) \in 0..left-1
    BY <1>5
  <2>2. PICK t \in 0..31 : f = At(t, Byte(t)) /\ Byte(t) \in 0..left-1
    BY <1>5
  <2>a. e[1] = w + (s \div 8) /\ e[2] = s % 8
    BY <1>2, <2>1
  <2>b. f[1] = w + (t \div 8) /\ f[2] = t % 8
    BY <1>2, <2>2
  <2>3. w + (s \div 8) = w + (t \div 8) /\ s % 8 = t % 8
    BY <2>a, <2>b
  <2>4. s = t
    BY <1>1, <1>2, <2>1, <2>2, <2>3
  <2> QED BY <2>1, <2>2, <2>4
<1>8. \A p \in off..len-1 : Holds(HighwayBlock, p)
  <2> SUFFICES ASSUME NEW p \in off..len-1 PROVE \E e \in HighwayBlock : e[3] = p
    BY DEF Holds
  <2> DEFINE j == p - off
  <2>1. j \in 0..left-1 /\ off + j = p
    BY <1>1
  <2> HIDE DEF j
  <2>2. CASE j < remain
    <3>1. At(j, j) \in HighwayBlock /\ j \in 0..31
      BY <1>1, <1>3, <1>4, <2>1, <2>2
    <3> QED BY <1>2, <2>1, <3>1
  <2>3. CASE ~(j < remain) /\ left >= 16
    <3>1. j - left + 4 \in 0..3 /\ left - 4 + (j - left + 4) = j
      BY <1>1, <2>1, <2>3
    <3>2. At(28 + (j - left + 4), j) \in HighwayBlock
      BY <1>4, <2>3, <3>1
    <3>3. 28 + (j - left + 4) \in 0..31
      BY <3>1
    <3> QED BY <1>2, <2>1, <3>2, <3>3
  <2>4. CASE ~(j < remain) /\ ~(left >= 16)
    <3>1. mod4 # 0 /\ (j = remain \/ j = remain + (mod4 \div 2) \/ j = left - 1)
      BY <1>1, <2>1, <2>4
    <3>2. At(16, remain) \in HighwayBlock /\ At(17, remain + (mod4 \div 2)) \in HighwayBlock
          /\ At(18, left - 1) \in HighwayBlock
      BY <1>4, <2>4, <3>1
    <3>3. At(16, j) \in HighwayBlock \/ At(17, j) \in HighwayBlock \/ At(18, j) \in HighwayBlock
      BY <3>1, <3>2
    <3> QED BY <1>2, <2>1, <3>3
  <2> QED BY <2>2, <2>3, <2>4
<1> QED BY <1>6, <1>7, <1>8 DEF Tail

-----------------------------------------------------------------------------
\* The key of FNV-1a, a byte at a time, for the first half and then for the
\* second one.
LEMMA FnvStep ==
  ASSUME HashInv, FnvByte \/ FnvReset \/ FnvByteAgain \/ FnvZeroByte
  PROVE  HashInv'
<1>1. /\ HashTypeOK /\ Sound(fed1) /\ Sound(fed2) /\ Counted /\ Covered
      /\ off \in Nat /\ w \in Nat /\ len \in Nat /\ off <= len
  BY DEF HashInv, HashTypeOK
<1>2. left \in Nat /\ off + left = len
  BY <1>1 DEF left
<1>3. CASE FnvByte \/ FnvByteAgain
  <2> DEFINE new == Packed(w, off, 1)
  <2>1. off + 1 \in Nat /\ off + 1 <= len /\ w + 1 \in Nat
    BY <1>1, <1>2, <1>3 DEF FnvByte, FnvByteAgain
  <2>2. /\ new \subseteq Entry
        /\ \A e \in new : w <= e[1] /\ e[1] < w + 1 /\ off <= e[3] /\ e[3] < off + 1
        /\ OneByteEach(new)
        /\ \A q \in off..off+1-1 : Holds(new, q)
    BY <1>1, PackedBytes
  <2> HIDE DEF new
  <2>3. \A e \in new : w <= e[1] /\ e[1] < w + 1 /\ e[3] < len
    BY <1>1, <2>1, <2>2 DEF Entry
  <2>4. \A q \in off..(off + 1)-1 : Holds(new, q)
    BY <1>1, <2>2
  <2>5. ASSUME NEW fed, Sound(fed)
        PROVE  /\ fed \cup new \subseteq Entry
               /\ \A e \in fed \cup new : e[1] < w + 1 /\ e[3] < len
               /\ OneByteEach(fed \cup new)
    BY <1>1, <2>2, <2>3, <2>5, MoreIsSound
  <2>6. ASSUME NEW fed, Sound(fed) PROVE \A e \in fed : e[1] < w + 1
    BY <1>1, <2>6 DEF Sound, Entry
  <2>7. CASE FnvByte
    <3>1. /\ fed1' = fed1 \cup new /\ off' = off + 1 /\ w' = w + 1
          /\ fam = "fnv" /\ pc = "absorb" /\ UNCHANGED <<fam, len, fed2, told, pc>>
      BY <2>7 DEF FnvByte, Walking, new
    <3>2. FedTo(fed1 \cup new, off + 1)
      BY <1>1, <2>1, <2>4, <3>1, MoreIsCovered DEF Covered
    <3>3. HashTypeOK' /\ Counted' /\ Covered' /\ LengthTold'
      BY <1>1, <2>1, <3>1, <3>2 DEF HashTypeOK, Counted, Covered, LengthTold
    <3>4. Sound(fed1)' /\ Sound(fed2)'
      BY <1>1, <2>5, <2>6, <3>1 DEF Sound, OneByteEach
    <3> QED BY <3>3, <3>4 DEF HashInv
  <2>8. CASE FnvByteAgain
    <3>1. /\ fed2' = fed2 \cup new /\ off' = off + 1 /\ w' = w + 1
          /\ pc = "again" /\ UNCHANGED <<fam, len, fed1, told, pc>>
      BY <2>8 DEF FnvByteAgain, new
    <3>2. FedTo(fed2 \cup new, off + 1)
      BY <1>1, <2>1, <2>4, <3>1, MoreIsCovered DEF Covered
    <3>3. HashTypeOK' /\ Counted' /\ Covered' /\ LengthTold'
      BY <1>1, <2>1, <3>1, <3>2 DEF HashTypeOK, Counted, Covered, LengthTold
    <3>4. Sound(fed1)' /\ Sound(fed2)'
      BY <1>1, <2>5, <2>6, <3>1 DEF Sound, OneByteEach
    <3> QED BY <3>3, <3>4 DEF HashInv
  <2> QED BY <1>3, <2>7, <2>8
<1>4. CASE FnvReset
  <2>1. off = len /\ off' = 0 /\ pc' = "again" /\ pc = "absorb" /\ fam = "fnv"
        /\ UNCHANGED <<fam, len, w, fed1, fed2, told>>
    BY <1>1, <1>2, <1>4 DEF FnvReset, Walking
  <2>2. FedTo(fed1', len) /\ FedTo(fed2', 0)
    BY <1>1, <2>1 DEF Covered, FedTo
  <2> QED BY <1>1, <2>1, <2>2
          DEF HashInv, HashTypeOK, Counted, Covered, LengthTold, Sound
<1>5. CASE FnvZeroByte
  <2> DEFINE new == {<<w, 0, None>>}
  <2>1. /\ off = len /\ fed2' = fed2 \cup new /\ w' = w + 1 /\ pc' = "done" /\ pc = "again"
        /\ fam = "fnv" /\ w = len + off /\ UNCHANGED <<fam, len, off, fed1, told>>
    BY <1>1, <1>2, <1>5 DEF FnvZeroByte, Counted
  <2>2. /\ new \subseteq Entry /\ OneByteEach(new)
        /\ \A e \in new : w <= e[1] /\ e[1] < w + 1 /\ e[3] < len
    BY <1>1 DEF Entry, OneByteEach, None
  <2> HIDE DEF new
  <2>3. /\ fed2 \cup new \subseteq Entry
        /\ \A e \in fed2 \cup new : e[1] < w + 1 /\ e[3] < len
        /\ OneByteEach(fed2 \cup new)
    BY <1>1, <2>2, MoreIsSound
  <2>4. \A e \in fed1 : e[1] < w + 1
    BY <1>1 DEF Sound, Entry
  <2>5. Sound(fed1)' /\ Sound(fed2)'
    BY <1>1, <2>1, <2>3, <2>4 DEF Sound, OneByteEach
  <2>6. FedTo(fed1', len) /\ FedTo(fed2', len)
    BY <1>1, <2>1 DEF Covered, FedTo, Holds
  <2>7. ToldLength' = len
    BY <1>1, <2>1 DEF ToldLength
  <2>8. HashTypeOK' /\ Counted' /\ Covered' /\ LengthTold'
    BY <1>1, <2>1, <2>6, <2>7 DEF HashTypeOK, Counted, Covered, LengthTold
  <2> QED BY <2>5, <2>8 DEF HashInv
<1> QED BY <1>3, <1>4, <1>5

\* An iteration of one of the other loops.
LEMMA LoopStep ==
  ASSUME HashInv,
         \/ Murmur3Block
         \/ XXHashStripe \/ XXHashWord \/ XXHashHalfWord \/ XXHashByte
         \/ WyhashLong \/ WyhashPair \/ HighwayPacket \/ SiphashWord
  PROVE  HashInv'
<1>1. ASSUME NEW c \in Nat, NEW n \in Nat, Absorb(c, n), c <= 8 * n, c <= left,
             fam # "fnv", pc = "absorb", fam \in {"highway", "siphash"} => c = 8 * n,
             fam = "wyhash" => c < left
      PROVE  HashInv'
  <2>1. /\ HashTypeOK' /\ Sound(fed1)' /\ Sound(fed2)' /\ Covered' /\ LengthTold'
        /\ off' = off + c /\ w' = w + n /\ UNCHANGED <<fam, len, told, pc>>
    BY <1>1, AbsorbStep
  <2>2. Counted /\ off \in Nat /\ w \in Nat /\ len \in Nat
    BY DEF HashInv, HashTypeOK
  <2>3. Counted'
    BY <1>1, <2>1, <2>2 DEF Counted, left
  <2> QED BY <2>1, <2>3 DEF HashInv
<1>2. left \in Nat
  BY DEF HashInv, HashTypeOK, left
<1>3. CASE Murmur3Block
  BY <1>1, <1>3 DEF Murmur3Block, Walking
<1>4. CASE XXHashStripe
  BY <1>1, <1>4 DEF XXHashStripe, Walking
<1>5. CASE XXHashWord
  BY <1>1, <1>5 DEF XXHashWord, Walking
<1>6. CASE XXHashHalfWord
  BY <1>1, <1>6 DEF XXHashHalfWord, Walking
<1>7. CASE XXHashByte
  BY <1>1, <1>7 DEF XXHashByte, Walking
<1>8. CASE WyhashLong
  BY <1>1, <1>2, <1>8 DEF WyhashLong, Walking
<1>9. CASE WyhashPair
  BY <1>1, <1>9 DEF WyhashPair, Walking
<1>10. CASE HighwayPacket
  BY <1>1, <1>2, <1>10 DEF HighwayPacket, Walking
<1>11. CASE SiphashWord
  BY <1>1, <1>2, <1>11 DEF SiphashWord, Walking
<1> QED BY <1>3, <1>4, <1>5, <1>6, <1>7, <1>8, <1>9, <1>10, <1>11

\* The end of a family's walk.
LEMMA TailStep ==
  ASSUME HashInv,
         \/ Murmur3Tail \/ XXHashFinalize \/ WyhashTail \/ WyhashEmpty
         \/ HighwayBuffer \/ HighwayNoBuffer \/ SiphashTail
  PROVE  HashInv'
<1>1. /\ HashTypeOK /\ Counted /\ off \in Nat /\ w \in Nat /\ len \in Nat
      /\ left \in Nat /\ off + left = len
  BY DEF HashInv, HashTypeOK, left
<1>2. ASSUME NEW entries, NEW n \in Nat, NEW length \in Int, Finish(entries, n, length)
      PROVE  /\ w' = w + n /\ told' = length /\ pc' = "done" /\ UNCHANGED <<fam, len, off>>
  BY <1>2 DEF Finish
<1>3. CASE Murmur3Tail
  <2>1. fam = "murmur3" /\ pc = "absorb" /\ left < 16 /\ Finish(Packed(w, off, left), 2, len)
    BY <1>3 DEF Murmur3Tail, Walking
  <2>2. Tail(Packed(w, off, left), 2)
    BY <1>1, <2>1, PackedTail
  <2>3. LengthTold'
    BY <1>1, <1>2, <2>1 DEF LengthTold, ToldLength, None
  <2> QED BY <1>1, <2>1, <2>2, <2>3, FinishStep
<1>4. CASE XXHashFinalize
  <2>1. fam = "xxhash" /\ pc = "absorb" /\ left = 0 /\ Finish({}, 0, len)
    BY <1>4 DEF XXHashFinalize, Walking
  <2>2. LengthTold'
    BY <1>1, <1>2, <2>1 DEF LengthTold, ToldLength, None
  <2> QED BY <1>1, <2>1, <2>2, EmptyTail, FinishStep
<1>5. CASE WyhashTail
  <2>1. fam = "wyhash" /\ pc = "absorb" /\ left \in 1..16 /\ Finish(WyhashEntries, 2, len)
    BY <1>5 DEF WyhashTail, Walking
  <2>2. LengthTold'
    BY <1>1, <1>2, <2>1 DEF LengthTold, ToldLength, None
  <2> QED BY <1>1, <2>1, <2>2, WyhashTailEntries, FinishStep
<1>6. CASE WyhashEmpty
  <2>1. fam = "wyhash" /\ pc = "absorb" /\ left = 0 /\ Finish({}, 0, None)
    BY <1>6 DEF WyhashEmpty, Walking
  <2>2. None \in Int
    BY DEF None
  <2>3. LengthTold'
    BY <1>1, <1>2, <2>1, <2>2 DEF LengthTold, ToldLength, Counted
  <2> QED BY <1>1, <2>1, <2>2, <2>3, EmptyTail, FinishStep
<1>7. CASE HighwayBuffer
  <2>1. fam = "highway" /\ pc = "absorb" /\ left \in 1..31 /\ Finish(HighwayBlock, 4, left)
    BY <1>7 DEF HighwayBuffer, Walking
  <2>2. LengthTold'
    BY <1>1, <1>2, <2>1 DEF LengthTold, ToldLength, None, Counted
  <2> QED BY <1>1, <2>1, <2>2, HighwayTailEntries, FinishStep
<1>8. CASE HighwayNoBuffer
  <2>1. fam = "highway" /\ pc = "absorb" /\ left = 0 /\ Finish({}, 0, None)
    BY <1>8 DEF HighwayNoBuffer, Walking
  <2>2. None \in Int
    BY DEF None
  <2>3. LengthTold'
    BY <1>1, <1>2, <2>1, <2>2 DEF LengthTold, ToldLength, Counted
  <2> QED BY <1>1, <2>1, <2>2, <2>3, EmptyTail, FinishStep
<1>9. CASE SiphashTail
  <2> DEFINE new == Packed(w, off, left) \cup {<<w, 7, None>>}
  <2>1. fam = "siphash" /\ pc = "absorb" /\ left < 8 /\ Finish(new, 1, len % 256)
    BY <1>9 DEF SiphashTail, Walking
  <2>2. Tail(Packed(w, off, left), 1)
    BY <1>1, <2>1, PackedTail
  <2>3. \A e \in Packed(w, off, left) : e[1] = w /\ e[2] # 7
    BY <1>1, <2>1 DEF Packed
  <2>4. Tail(new, 1)
    BY <1>1, <2>2, <2>3 DEF Tail, Entry, OneByteEach, Holds, None
  <2>5. (len % 256) % 8 = len % 8 /\ len % 256 \in Int /\ len % 8 = left
    BY <1>1, <2>1 DEF Counted
  <2>6. LengthTold'
    BY <1>1, <1>2, <2>1, <2>5 DEF LengthTold, ToldLength, Counted
  <2> QED BY <1>1, <2>1, <2>4, <2>5, <2>6, FinishStep
<1> QED BY <1>3, <1>4, <1>5, <1>6, <1>7, <1>8, <1>9

-----------------------------------------------------------------------------
\* Before its first word a hash has fed nothing.
LEMMA HashInvStart == HashInit => HashInv
<1> SUFFICES ASSUME HashInit PROVE HashInv
  OBVIOUS
<1>1. fam \in Family /\ len \in Nat /\ off = 0 /\ w = 0 /\ fed1 = {} /\ fed2 = {}
      /\ told = None /\ pc = "absorb"
  BY LenAssumption DEF HashInit
<1>2. HashTypeOK
  BY <1>1 DEF HashTypeOK, None
<1>3. Sound(fed1) /\ Sound(fed2) /\ Covered /\ Counted /\ LengthTold
  BY <1>1 DEF Sound, OneByteEach, Covered, FedTo, Counted, LengthTold
<1> QED BY <1>2, <1>3 DEF HashInv

\* No step of a walk breaks the invariant: the loops by LoopStep and FnvStep,
\* the tails by TailStep.
LEMMA HashInvStep == HashInv /\ [HashNext]_hashVars => HashInv'
<1> SUFFICES ASSUME HashInv, [HashNext]_hashVars PROVE HashInv'
  OBVIOUS
<1>1. CASE UNCHANGED hashVars
  BY <1>1 DEF hashVars, HashInv, HashTypeOK, Sound, Counted, Covered, LengthTold, ToldLength
<1>2. CASE HashNext /\ ~UNCHANGED hashVars
  BY <1>2, FnvStep, LoopStep, TailStep DEF HashNext, Done
<1> QED BY <1>1, <1>2

\* For a key of any length, at every step of the six walks, what is fed to a
\* digest is a prefix of the key, a byte to a place, in words it has finished.
THEOREM HashInvariant == HashSpec => []HashInv
BY HashInvStart, HashInvStep, PTL DEF HashSpec

\* For a key of any length no family loads a word past its end, so that no
\* slice of the six walks panics and no word of wyhash is padded.
THEOREM NoReadPastTheKey == HashSpec => []ReadsInBounds
<1>1. HashInv => ReadsInBounds
  BY DEF HashInv, Sound, ReadsInBounds
<1> QED BY <1>1, HashInvariant, PTL

\* For a key of any length every byte reaches both halves of the digest.
THEOREM NoByteLeftOut == HashSpec => []EveryByteFed
<1>1. HashInv => EveryByteFed
  BY DEF HashInv, Covered, FedTo, EveryByteFed
<1> QED BY <1>1, HashInvariant, PTL

\* For a key of any length no two bytes land in one place.
THEOREM NoTwoBytesInOneSlot == HashSpec => []SlotsDisjoint
<1>1. HashInv => SlotsDisjoint
  BY DEF HashInv, Sound, SlotsDisjoint
<1> QED BY <1>1, HashInvariant, PTL

\* Two keys of different lengths never present a family with the same words
\* and the same length.
THEOREM LengthAlwaysTold == HashSpec => []LengthTold
<1>1. HashInv => LengthTold
  BY DEF HashInv
<1> QED BY <1>1, HashInvariant, PTL

-----------------------------------------------------------------------------
(* Arithmetic.                                                             *)

\* A set of natural numbers has a least one.
LEMMA LeastNumber ==
  ASSUME NEW S \in SUBSET Nat, S # {}
  PROVE  \E p \in S : \A q \in S : p <= q
<1> DEFINE R == {x \in Nat \X Nat : x[1] < x[2]}
<1>1. IsWellFoundedOn(R, Nat)
  BY NatLessThanWellFounded DEF OpToRel
<1>2. \E p \in S : \A q \in S : ~ (<<q, p>> \in R)
  <2> HIDE DEF R
  <2> QED BY <1>1, WFMin
<1>3. \A p, q \in Nat : ~ (<<q, p>> \in R) => p <= q
  OBVIOUS
<1> HIDE DEF R
<1> QED BY <1>2, <1>3

\* A number is its half twice, and its lowest bit.
LEMMA Halves ==
  ASSUME NEW n \in Nat
  PROVE  /\ n \div 2 \in Nat /\ n % 2 \in {0, 1}
         /\ n = 2 * (n \div 2) + (n % 2)
         /\ n > 0 => n \div 2 < n
OBVIOUS

\* A number is the divisor times the quotient, and the remainder.
LEMMA Division ==
  ASSUME NEW n \in Int, NEW d \in Nat \ {0}
  PROVE  /\ n \div d \in Int /\ n % d \in 0 .. d-1
         /\ n = d * (n \div d) + (n % d)
         /\ n \in Nat => n \div d \in Nat
OBVIOUS

\* Products of integers are integers, and keep their order.
LEMMA ProductInt ==
  ASSUME NEW x \in Int, NEW y \in Int
  PROVE  x * y \in Int
OBVIOUS

LEMMA ProductOrder ==
  ASSUME NEW d \in Nat \ {0}, NEW x \in Int, NEW y \in Int, d * x < d * y
  PROVE  x < y
OBVIOUS

\* A quotient and a remainder below d are the quotient and the remainder by d.
LEMMA DivisionUnique ==
  ASSUME NEW d \in Nat \ {0}, NEW q \in Int, NEW r \in 0 .. d-1
  PROVE  (d * q + r) % d = r
<1> DEFINE n == d * q + r
           p == n \div d
           s == n % d
<1>1. n \in Int /\ d * q \in Int
  BY ProductInt
<1>2. p \in Int /\ s \in 0 .. d-1 /\ d * q + r = d * p + s
  BY <1>1, Division
<1> HIDE DEF n, p, s
<1>3. d * (p + 1) = d * p + d /\ d * (q + 1) = d * q + d /\ d * p \in Int
  BY <1>2
<1>4. d * p < d * (q + 1) /\ d * q < d * (p + 1)
  BY <1>1, <1>2, <1>3
<1>5. p < q + 1 /\ q < p + 1
  BY <1>2, <1>4, ProductOrder
<1>6. p = q
  BY <1>2, <1>5
<1> QED BY <1>1, <1>2, <1>6 DEF n, p, s

-----------------------------------------------------------------------------
(* The mask.                                                               *)

WordOrSize == 0 .. WordSize

\* The lowest bit of a masked word, and the rest.
LEMMA AndBit ==
  ASSUME NEW x \in WordOrSize, NEW y \in WordOrSize
  PROVE  /\ x \div 2 \in WordOrSize /\ y \div 2 \in WordOrSize
         /\ BitAnd(x, y) \in Nat
         /\ BitAnd(x, y) = 2 * BitAnd(x \div 2, y \div 2) + (x % 2) * (y % 2)
         /\ BitAnd(x \div 2, y \div 2) \in Nat
<1>1. WordSize \in Nat
  BY WordAssumption
<1>2. x \div 2 \in WordOrSize /\ y \div 2 \in WordOrSize
  BY <1>1, Halves DEF WordOrSize
<1> QED BY <1>1, <1>2, AndAssumption DEF WordOrSize

\* Nothing is left of a word by an empty mask.
LEMMA AndZero == \A x \in WordOrSize : BitAnd(x, 0) = 0
<1> DEFINE S == {x \in WordOrSize : BitAnd(x, 0) # 0}
<1>1. WordSize \in Nat /\ S \subseteq WordOrSize /\ WordOrSize \subseteq Nat
  BY WordAssumption DEF WordOrSize
<1>2. SUFFICES ASSUME S # {} PROVE FALSE
  OBVIOUS
<1>3. PICK p \in S : \A q \in S : p <= q
  BY <1>1, <1>2, LeastNumber
<1>4. p \in WordOrSize /\ 0 \in WordOrSize /\ p \in Nat
  BY <1>1, <1>3 DEF WordOrSize
<1>5. /\ BitAnd(p, 0) = 2 * BitAnd(p \div 2, 0) + (p % 2) * 0
      /\ p \div 2 \in WordOrSize /\ BitAnd(p \div 2, 0) \in Nat /\ BitAnd(p, 0) \in Nat
  <2>1. 0 \div 2 = 0 /\ 0 % 2 = 0
    OBVIOUS
  <2> QED BY <1>4, <2>1, AndBit
<1>6. BitAnd(p, 0) = 2 * BitAnd(p \div 2, 0)
  BY <1>4, <1>5, Halves
<1>7. CASE p = 0
  <2>1. p \div 2 = p
    BY <1>7
  <2> QED BY <1>3, <1>5, <1>6, <2>1
<1>8. CASE p # 0
  <2>1. p \div 2 < p /\ p \div 2 \in Nat
    BY <1>4, <1>8, Halves
  <2>2. p \div 2 \notin S
    BY <1>3, <1>4, <2>1
  <2> QED BY <1>3, <1>5, <1>6, <2>2
<1> QED BY <1>7, <1>8

\* A word masked by itself is what it was.
LEMMA AndSame == \A x \in WordOrSize : BitAnd(x, x) = x
<1> DEFINE S == {x \in WordOrSize : BitAnd(x, x) # x}
<1>1. WordSize \in Nat /\ S \subseteq WordOrSize /\ WordOrSize \subseteq Nat
  BY WordAssumption DEF WordOrSize
<1>2. SUFFICES ASSUME S # {} PROVE FALSE
  OBVIOUS
<1>3. PICK p \in S : \A q \in S : p <= q
  BY <1>1, <1>2, LeastNumber
<1>4. p \in WordOrSize /\ p \in Nat /\ 0 \in WordOrSize
  BY <1>1, <1>3 DEF WordOrSize
<1>5. p # 0
  BY <1>3, <1>4, AndZero
<1> DEFINE c == p \div 2
<1>6. c < p /\ c \in Nat /\ p = 2 * c + (p % 2) /\ p % 2 \in {0, 1}
  BY <1>4, <1>5, Halves
<1>7. c \in WordOrSize /\ BitAnd(p, p) = 2 * BitAnd(c, c) + (p % 2) * (p % 2)
  BY <1>4, AndBit
<1> HIDE DEF c
<1>8. BitAnd(c, c) = c
  BY <1>3, <1>4, <1>6, <1>7
<1>9. (p % 2) * (p % 2) = p % 2
  BY <1>6
<1> QED BY <1>3, <1>6, <1>7, <1>8, <1>9

\* A power of two above 1 is twice a power of two.
LEMMA HalfPower ==
  ASSUME NEW n \in WordOrSize, n > 1, PowerOfTwo(n)
  PROVE  /\ n \div 2 \in WordOrSize /\ n = 2 * (n \div 2) /\ PowerOfTwo(n \div 2)
         /\ (n-1) \div 2 = (n \div 2) - 1 /\ (n-1) % 2 = 1
<1> DEFINE c == n \div 2
<1>1. n \in Nat /\ n-1 \in WordOrSize /\ WordSize \in Nat
  BY WordAssumption DEF WordOrSize
<1>2. c \in Nat /\ n % 2 \in {0, 1} /\ n = 2 * c + (n % 2) /\ c < n /\ c > 0
  BY <1>1, Halves
<1>3. c \in WordOrSize
  BY <1>1, <1>2 DEF WordOrSize
<1>4. BitAnd(n, n-1) = 2 * BitAnd(c, (n-1) \div 2) + (n % 2) * ((n-1) % 2)
      /\ BitAnd(n, n-1) = 0
  BY <1>1, AndBit DEF PowerOfTwo
<1>5. n % 2 = 0
  <2> SUFFICES ASSUME n % 2 = 1 PROVE FALSE
    BY <1>2
  <2>1. (n-1) \div 2 = c /\ (n-1) % 2 = 0
    BY <1>1, <1>2
  <2>2. BitAnd(c, c) = c
    BY <1>3, AndSame
  <2> HIDE DEF c
  <2> QED BY <1>2, <1>4, <2>1, <2>2
<1>6. (n-1) \div 2 = c - 1 /\ (n-1) % 2 = 1
  BY <1>1, <1>2, <1>5
<1>7. BitAnd(c, c-1) \in Nat /\ BitAnd(c, c-1) = 0
  <2>1. c - 1 \in WordOrSize
    BY <1>1, <1>2, <1>3 DEF WordOrSize
  <2>2. BitAnd(c, c-1) \in Nat
    BY <1>3, <2>1, AndBit
  <2>3. 2 * BitAnd(c, c-1) = 0
    <3> HIDE DEF c
    <3> QED BY <1>4, <1>5, <1>6, <2>2
  <2> QED BY <2>2, <2>3
<1> QED BY <1>2, <1>3, <1>5, <1>6, <1>7 DEF PowerOfTwo

\* The mask of a power of two takes the remainder.
LEMMA MaskIsRemainder ==
  \A n, s \in WordOrSize : PowerOfTwo(n) => BitAnd(s, n-1) = s % n
<1> DEFINE S == {n \in WordOrSize : PowerOfTwo(n) /\ \E s \in WordOrSize : BitAnd(s, n-1) # s % n}
<1>1. WordSize \in Nat /\ S \subseteq WordOrSize /\ WordOrSize \subseteq Nat
  BY WordAssumption DEF WordOrSize
<1>2. SUFFICES ASSUME S # {} PROVE FALSE
  OBVIOUS
<1>3. PICK n \in S : \A q \in S : n <= q
  BY <1>1, <1>2, LeastNumber
<1>4. n \in WordOrSize /\ n \in Nat /\ PowerOfTwo(n) /\ n > 0
  BY <1>1, <1>3 DEF PowerOfTwo
<1>5. PICK s \in WordOrSize : BitAnd(s, n-1) # s % n
  BY <1>3
<1>6. s \in Nat
  BY <1>1, <1>5
<1>7. CASE n = 1
  <2>1. s % 1 = 0 /\ n-1 = 0
    BY <1>6, <1>7
  <2> QED BY <1>5, <1>7, <2>1, AndZero
<1>8. CASE n > 1
  <2> DEFINE c == n \div 2
             t == s \div 2
             e == s % 2
  <2>1. /\ c \in WordOrSize /\ n = 2 * c /\ PowerOfTwo(c)
        /\ (n-1) \div 2 = c - 1 /\ (n-1) % 2 = 1
    BY <1>4, <1>8, HalfPower
  <2>2. c \in Nat \ {0} /\ c < n /\ n-1 \in WordOrSize
    BY <1>1, <1>4, <1>8, <2>1, Halves DEF WordOrSize
  <2>3. t \in WordOrSize /\ t \in Nat /\ e \in {0, 1} /\ s = 2 * t + e
    BY <1>1, <1>6, Halves DEF WordOrSize
  <2>4. BitAnd(s, n-1) = 2 * BitAnd(t, c-1) + e * 1
    BY <1>5, <2>1, <2>2, AndBit
  <2> HIDE DEF c, t, e
  <2>5. BitAnd(t, c-1) = t % c
    BY <1>3, <1>4, <2>1, <2>2, <2>3
  <2> DEFINE q == t \div c
             r == t % c
  <2>6. q \in Int /\ r \in 0 .. c-1 /\ t = c * q + r
    <3>1. t \in Int /\ c \in Nat \ {0}
      BY <2>2, <2>3
    <3> QED BY ONLY <3>1, Division
  <2>10. BitAnd(t, c-1) = r
    BY <2>5
  <2> HIDE DEF q, r
  <2>7. 2 * r + e \in 0 .. n-1 /\ n \in Nat \ {0}
    BY <2>1, <2>2, <2>3, <2>6
  <2>8. s = n * q + (2 * r + e)
    <3>1. 2 * (c * q + r) + e = (2 * c) * q + (2 * r + e)
      BY <2>2, <2>3, <2>6
    <3> QED BY <2>1, <2>3, <2>6, <3>1
  <2>9. s % n = 2 * r + e
    BY <2>6, <2>7, <2>8, DivisionUnique
  <2>11. BitAnd(s, n-1) = 2 * r + e
    BY <2>3, <2>4, <2>6, <2>10
  <2> QED BY <1>5, <2>9, <2>11
<1> QED BY <1>4, <1>7, <1>8

\* A power of two divides every larger one.
LEMMA PowerDivides ==
  \A n, u \in WordOrSize :
    PowerOfTwo(n) /\ PowerOfTwo(u) /\ n <= u => \E q \in Nat : u = n * q
<1> DEFINE S == {n \in WordOrSize : /\ PowerOfTwo(n)
                                    /\ \E u \in WordOrSize : /\ PowerOfTwo(u) /\ n <= u
                                                             /\ \A q \in Nat : u # n * q}
<1>1. WordSize \in Nat /\ S \subseteq WordOrSize /\ WordOrSize \subseteq Nat
  BY WordAssumption DEF WordOrSize
<1>2. SUFFICES ASSUME S # {} PROVE FALSE
  OBVIOUS
<1>3. PICK n \in S : \A q \in S : n <= q
  BY <1>1, <1>2, LeastNumber
<1>4. n \in WordOrSize /\ n \in Nat /\ PowerOfTwo(n) /\ n > 0
  BY <1>1, <1>3 DEF PowerOfTwo
<1>5. PICK u \in WordOrSize : PowerOfTwo(u) /\ n <= u /\ \A q \in Nat : u # n * q
  BY <1>3
<1>6. u \in Nat
  BY <1>1, <1>5
<1>7. CASE n = 1
  BY <1>5, <1>6, <1>7
<1>8. CASE n > 1
  <2> DEFINE c == n \div 2
             v == u \div 2
  <2>1. c \in WordOrSize /\ n = 2 * c /\ PowerOfTwo(c)
    BY <1>4, <1>8, HalfPower
  <2>2. v \in WordOrSize /\ u = 2 * v /\ PowerOfTwo(v)
    BY <1>4, <1>5, <1>6, <1>8, HalfPower
  <2> HIDE DEF c, v
  <2>3. c \in Nat /\ v \in Nat /\ c < n /\ c <= v
    BY <1>1, <1>4, <1>5, <2>1, <2>2
  <2>4. c \notin S
    BY <1>3, <1>4, <2>3
  <2>5. PICK q \in Nat : v = c * q
    BY <2>1, <2>2, <2>3, <2>4
  <2>6. u = n * q
    BY <2>1, <2>2, <2>3, <2>5
  <2> QED BY <1>5, <2>6
<1> QED BY <1>4, <1>7, <1>8

-----------------------------------------------------------------------------
(* Common divisors.                                                        *)

Divides(d, n) == \E q \in Int : n = d * q

\* n is a sum of multiples of x and y.
Combines(x, y, n) == \E u, v \in Int : n = x * u + y * v

\* A common factor cancels.
LEMMA ProductCancel ==
  ASSUME NEW d \in Nat \ {0}, NEW x \in Int, NEW y \in Int, d * x = d * y
  PROVE  x = y
OBVIOUS

\* A turn of Euclid's loop brings in no common divisor ...
LEMMA TurnDivides ==
  ASSUME NEW d \in Nat \ {0}, NEW x \in Nat, NEW y \in Nat \ {0},
         Divides(d, y), Divides(d, x % y)
  PROVE  Divides(d, x)
<1> DEFINE c == x \div y
           r == x % y
<1>1. c \in Int /\ r \in Int /\ x = y * c + r
  <2>1. x \in Int /\ y \in Nat \ {0}
    OBVIOUS
  <2>2. x % y \in 0 .. y-1 => x % y \in Int
    OBVIOUS
  <2> QED BY ONLY <2>1, <2>2, Division
<1>2. PICK p \in Int : y = d * p
  BY DEF Divides
<1>3. PICK q \in Int : r = d * q
  BY DEF Divides
<1> HIDE DEF c, r
<1>4. p * c + q \in Int
  BY <1>1
<1>5. d * (p * c + q) = (d * p) * c + d * q
  BY <1>1
<1>6. x = d * (p * c + q)
  BY <1>1, <1>2, <1>3, <1>5
<1> QED BY <1>4, <1>6 DEF Divides

\* ... and leaves what it computes a sum of multiples of the two numbers.
LEMMA TurnCombines ==
  ASSUME NEW n \in Nat, NEW d \in Nat, NEW x \in Nat, NEW y \in Nat \ {0},
         Combines(n, d, x), Combines(n, d, y)
  PROVE  Combines(n, d, x % y)
<1> DEFINE c == x \div y
           r == x % y
<1>1. c \in Int /\ r \in Int /\ x = y * c + r
  <2>1. x \in Int /\ y \in Nat \ {0}
    OBVIOUS
  <2>2. x % y \in 0 .. y-1 => x % y \in Int
    OBVIOUS
  <2> QED BY ONLY <2>1, <2>2, Division
<1>2. PICK u, v \in Int : x = n * u + d * v
  BY DEF Combines
<1>3. PICK p, q \in Int : y = n * p + d * q
  BY DEF Combines
<1> HIDE DEF c, r
<1>4. u - p * c \in Int /\ v - q * c \in Int
  BY <1>1
<1>5. n * (u - p * c) + d * (v - q * c) = (n * u + d * v) - (n * p + d * q) * c
  BY <1>1
<1>6. r = n * (u - p * c) + d * (v - q * c)
  <2>1. y * c = (n * p + d * q) * c /\ y * c \in Int
    BY <1>1, <1>3
  <2>2. r = (n * u + d * v) - (n * p + d * q) * c
    BY <1>1, <1>2, <2>1
  <2> QED BY ONLY <1>5, <2>2, Zenon
<1> QED BY <1>4, <1>6 DEF Combines, r

\* d is a common divisor of x and y, and the greatest: a sum of their multiples.
GreatestDivisor(d, x, y) == Divides(d, x) /\ Divides(d, y) /\ Combines(x, y, d)

\* Two numbers leave the same remainder when their difference is a multiple.
LEMMA SameRemainder ==
  ASSUME NEW n \in Nat \ {0}, NEW x \in Int, NEW y \in Int
  PROVE  x % n = y % n <=> Divides(n, x - y)
<1> DEFINE p == x \div n
           q == y \div n
           r == x % n
           s == y % n
<1>1. p \in Int /\ q \in Int /\ r \in 0 .. n-1 /\ s \in 0 .. n-1 /\ x = n * p + r /\ y = n * q + s
  BY Division
<1>2. ASSUME r = s PROVE Divides(n, x - y)
  <2> HIDE DEF p, q, r, s
  <2>1. p - q \in Int /\ n * (p - q) = n * p - n * q
    BY <1>1
  <2>2. x - y = n * (p - q)
    <3>1. n * p \in Int /\ n * q \in Int
      BY <1>1
    <3> QED BY <1>1, <1>2, <2>1, <3>1
  <2> QED BY <2>1, <2>2 DEF Divides
<1>3. ASSUME Divides(n, x - y) PROVE r = s
  <2>1. PICK c \in Int : x - y = n * c
    BY <1>3 DEF Divides
  <2> HIDE DEF p, q, r, s
  <2>2. q + c \in Int /\ n * (q + c) = n * q + n * c /\ n * q \in Int /\ n * c \in Int
    BY <1>1, <2>1
  <2>3. x = n * (q + c) + s
    BY <1>1, <2>1, <2>2
  <2>4. x % n = s
    BY <1>1, <2>2, <2>3, DivisionUnique
  <2> QED BY <2>4 DEF r
<1> QED BY <1>2, <1>3

\* What a divisor leaves of a number.
LEMMA Quotient ==
  ASSUME NEW d \in Nat \ {0}, NEW n \in Nat \ {0}, Divides(d, n)
  PROVE  n \div d \in Nat \ {0} /\ n = d * (n \div d)
<1>1. PICK q \in Int : n = d * q
  BY DEF Divides
<1>2. n % d = 0
  <2>1. n = d * q + 0 /\ 0 \in 0 .. d-1
    BY <1>1
  <2> QED BY <2>1, DivisionUnique
<1> DEFINE c == n \div d
<1>3. c \in Nat /\ n = d * c + (n % d)
  BY Division
<1> HIDE DEF c
<1>4. n = d * c /\ c # 0
  BY <1>2, <1>3
<1> QED BY <1>3, <1>4 DEF c

\* The position of the x-th probe, where sums do not wrap.
ProbeAt(s, h, n, x) == (s + x * h) % n

Probes(s, h, n, q) == {ProbeAt(s, h, n, x) : x \in 0 .. q-1}

\* Two probes meet when their distance is a multiple of what the greatest common
\* divisor of the stride and the positions leaves of the positions.
LEMMA ProbesMeet ==
  ASSUME NEW n \in Nat \ {0}, NEW h \in Nat \ {0}, NEW d \in Nat \ {0},
         GreatestDivisor(d, h, n), NEW s \in Nat, NEW x \in Nat, NEW y \in Nat
  PROVE  ProbeAt(s, h, n, x) = ProbeAt(s, h, n, y) <=> Divides(n \div d, x - y)
<1> DEFINE c == n \div d
           t == x - y
<1>1. c \in Nat \ {0} /\ n = d * c
  BY Quotient DEF GreatestDivisor
<1>2. PICK e \in Int : h = d * e
  BY DEF GreatestDivisor, Divides
<1>3. PICK u, v \in Int : d = h * u + n * v
  BY DEF GreatestDivisor, Combines
<1> DEFINE p == s + x * h
           r == s + y * h
<1>4. p \in Int /\ r \in Int /\ p - r = t * h /\ t \in Int
  OBVIOUS
<1>5. p % n = r % n <=> Divides(n, t * h)
  <2> HIDE DEF p, r, t
  <2>1. p % n = r % n <=> Divides(n, p - r)
    BY ONLY <1>4, n \in Nat \ {0}, SameRemainder, Zenon
  <2> QED BY ONLY <1>4, <2>1, Zenon
<1> HIDE DEF c, t, p, r
<1>6. ASSUME Divides(c, t) PROVE Divides(n, t * h)
  <2>1. PICK q \in Int : t = c * q
    BY <1>6 DEF Divides
  <2>2. (c * q) * (d * e) = (d * c) * (q * e) /\ q * e \in Int
    BY <1>1, <1>2, <2>1
  <2> QED BY <1>1, <1>2, <2>1, <2>2 DEF Divides
<1>7. ASSUME Divides(n, t * h) PROVE Divides(c, t)
  <2>1. PICK q \in Int : t * h = n * q
    BY <1>7 DEF Divides
  <2>2. t * (h * u + n * v) = (t * h) * u + n * (t * v)
    BY <1>3, <1>4
  <2>3. t * d = (n * q) * u + n * (t * v)
    BY <1>3, <2>1, <2>2
  <2>4. (n * q) * u + n * (t * v) = n * (q * u + t * v)
    BY <1>3, <1>4, <2>1
  <2>5. q * u + t * v \in Int
    BY <1>3, <1>4, <2>1
  <2> DEFINE z == q * u + t * v
  <2>6. d * t = (d * c) * z
    BY <1>1, <1>4, <2>3, <2>4
  <2> HIDE DEF z
  <2>7. (d * c) * z = d * (c * z) /\ c * z \in Int
    BY <1>1, <2>5 DEF z
  <2>8. t = c * z
    BY <1>4, <2>6, <2>7, ProductCancel
  <2> QED BY <2>5, <2>8 DEF Divides, z
<1> QED BY <1>5, <1>6, <1>7 DEF ProbeAt, c, t, p, r

\* So many positions are reached by so many probes.
LEMMA ReachCount ==
  ASSUME NEW n \in Nat \ {0}, NEW h \in Nat \ {0}, NEW d \in Nat \ {0},
         GreatestDivisor(d, h, n), NEW s \in Nat, NEW q \in Nat \ {0}
  PROVE  Cardinality(Probes(s, h, n, q)) = IF n \div d < q THEN n \div d ELSE q
<1> DEFINE c == n \div d
           t == IF c < q THEN c ELSE q
           At(x) == ProbeAt(s, h, n, x)
           T == {At(x) : x \in 0 .. q-1}
           f == [x \in 0 .. t-1 |-> At(x)]
<1>1. c \in Nat \ {0} /\ t \in Nat \ {0} /\ t <= c /\ t <= q
  BY Quotient DEF GreatestDivisor
<1>2. ASSUME NEW x \in Nat, NEW y \in Nat
      PROVE  At(x) = At(y) <=> Divides(c, x - y)
  <2> QED BY ProbesMeet
<1>3. IsFiniteSet(0 .. t-1) /\ Cardinality(0 .. t-1) = t
  BY <1>1, FS_Interval
<1> HIDE DEF c, At
<1>4. \A x \in 0 .. q-1 : \E y \in 0 .. t-1 : At(x) = At(y)
  <2> SUFFICES ASSUME NEW x \in 0 .. q-1 PROVE \E y \in 0 .. t-1 : At(x) = At(y)
    OBVIOUS
  <2>1. CASE q <= c
    BY <1>1, <2>1
  <2>2. CASE c < q
    <3> DEFINE r == x % c
               p == x \div c
    <3>1. p \in Int /\ r \in 0 .. c-1 /\ x = c * p + r
      <4>1. x \in Int /\ c \in Nat \ {0}
        BY <1>1
      <4> QED BY ONLY <4>1, Division
    <3> HIDE DEF p, r
    <3>2. x - r = c * p
      <4>1. c * p \in Int
        BY <1>1, <3>1
      <4> QED BY <1>1, <3>1, <4>1
    <3>3. At(x) = At(r)
      BY <1>1, <1>2, <3>1, <3>2 DEF Divides
    <3> QED BY <1>1, <2>2, <3>1, <3>3
  <2> QED BY <1>1, <2>1, <2>2
<1>5. f \in Surjection(0 .. t-1, T)
  <2>1. \A x \in 0 .. t-1 : x \in 0 .. q-1
    BY <1>1
  <2>2. f \in [0 .. t-1 -> T]
    BY <2>1
  <2>3. \A z \in T : \E y \in 0 .. t-1 : f[y] = z
    BY <1>4
  <2> QED BY <2>2, <2>3 DEF Surjection
<1>6. f \in Injection(0 .. t-1, T)
  <2>0. SUFFICES ASSUME NEW x \in 0 .. t-1, NEW y \in 0 .. t-1, f[x] = f[y] PROVE x = y
    <3>1. f \in [0 .. t-1 -> T]
      BY <1>5 DEF Surjection
    <3> HIDE DEF T, f
    <3> QED BY <3>1 DEF Injection, IsInjective
  <2>a. At(x) = At(y) /\ x \in Nat /\ y \in Nat
    BY <2>0
  <2>1. PICK p \in Int : x - y = c * p
    BY <1>2, <2>a DEF Divides
  <2>2. x - y < c /\ -c < x - y
    BY <1>1
  <2>3. c * p < c * 1 /\ c * (-1) < c * p
    BY <1>1, <2>1, <2>2
  <2>4. p < 1 /\ -1 < p
    BY <1>1, <2>1, <2>3, ProductOrder
  <2>5. p = 0
    BY <2>1, <2>4
  <2> QED BY <1>1, <2>1, <2>5
<1>7. Cardinality(T) = t
  BY <1>3, <1>5, <1>6, FS_Surjection
<1> QED BY <1>7 DEF At, c, Probes

-----------------------------------------------------------------------------
(* A measurement.                                                          *)

\* One for a stride with a common divisor.
Bad == IF a > 1 THEN 1 ELSE 0

StrideTypeOK ==
  /\ m \in Word \ {0} /\ k \in Word \ {0}
  /\ i \in Nat /\ i <= Samples /\ (phase # "sample" => i < Samples)
  /\ phase \in {"sample", "gcd", "probe"}
  /\ h1 \in Word /\ h2 \in Word \ {0}
  /\ a \in Nat \ {0} /\ b \in Nat
  /\ probe \in Nat /\ probe <= k /\ seen \subseteq 0 .. m-1
  /\ gcdBad \in Nat /\ short \in Nat
  /\ minReach \in Nat /\ maxReach \in Nat /\ sumReach \in Nat /\ seenSamples \in Nat

\* What gcdUint64's loop keeps: its numbers are sums of multiples of h2 and m, and
\* share no divisor that h2 and m do not. What it returns is their greatest.
Euclid ==
  /\ phase # "probe" => probe = 0
  /\ phase = "gcd" =>
       /\ Combines(h2, m, a) /\ Combines(h2, m, b)
       /\ \A d \in Nat \ {0} : Divides(d, a) /\ Divides(d, b) => Divides(d, h2) /\ Divides(d, m)
  /\ phase = "probe" => GreatestDivisor(a, h2, m)

\* What the tallies say between samples, and while one is measured.
Tallies ==
  /\ 1 <= minReach /\ minReach <= want /\ maxReach <= want
  /\ minReach * seenSamples <= sumReach /\ sumReach <= maxReach * seenSamples
  /\ PowerOfTwo(m) => short = 0
  /\ phase # "probe" => short <= gcdBad /\ gcdBad <= seenSamples
  /\ phase = "probe" => short + Bad <= gcdBad /\ gcdBad <= seenSamples + Bad

\* The inductive invariant.
StrideInv == StrideTypeOK /\ Euclid /\ ProbesAreRemainders /\ Tallies

-----------------------------------------------------------------------------
\* The position bitIndex gives is the remainder of the wrapped sum.
LEMMA IndexIsRemainder ==
  ASSUME NEW n \in Word \ {0}, NEW s \in Nat, NEW h \in Nat, NEW x \in Nat
  PROVE  /\ bitIndex(s, h, n, x) = ((s + x * h) % WordSize) % n
         /\ bitIndex(s, h, n, x) \in 0 .. n-1
<1> DEFINE u == s + x * h
           v == u % WordSize
<1>1. WordSize \in Nat \ {0} /\ n \in Nat \ {0} /\ n \in WordOrSize
  BY WordAssumption DEF Word, WordOrSize, PowerOfTwo
<1>2. u \in Int
  OBVIOUS
<1>3. v \in 0 .. WordSize-1
  <2> HIDE DEF u
  <2> QED BY ONLY <1>1, <1>2, Division DEF v
<1> HIDE DEF u
<1>4. v \in WordOrSize /\ v \in Int
  BY <1>1, <1>3 DEF WordOrSize
<1> HIDE DEF v
<1>5. PowerOfTwo(n) => BitAnd(v, n-1) = v % n
  BY <1>1, <1>4, MaskIsRemainder
<1>6. v % n \in 0 .. n-1
  BY ONLY <1>1, <1>4, Division
<1>7. bitIndex(s, h, n, x) = IF PowerOfTwo(n) THEN BitAnd(v, n-1) ELSE v % n
  BY DEF bitIndex, u, v
<1>8. bitIndex(s, h, n, x) = v % n
  BY <1>5, <1>7
<1> QED BY <1>6, <1>8 DEF u, v

\* A sum that does not pass the largest word does not wrap, and for a power of two
\* the wrap is harmless.
LEMMA WrapHarmless ==
  ASSUME NEW n \in Word \ {0}, NEW s \in Nat, s < WordSize \/ PowerOfTwo(n)
  PROVE  (s % WordSize) % n = s % n
<1>1. WordSize \in Nat \ {0} /\ n \in Nat \ {0} /\ n \in WordOrSize /\ n <= WordSize
      /\ WordSize \in WordOrSize /\ PowerOfTwo(WordSize)
  BY WordAssumption DEF Word, WordOrSize, PowerOfTwo
<1>2. CASE s < WordSize
  <2>1. s = WordSize * 0 + s /\ s \in 0 .. WordSize-1
    BY <1>1, <1>2
  <2>2. s % WordSize = s
    BY <1>1, <2>1, DivisionUnique
  <2> QED BY <2>2
<1>3. CASE PowerOfTwo(n)
  <2>1. PICK q \in Nat : WordSize = n * q
    BY <1>1, <1>3, PowerDivides
  <2> DEFINE c == s \div WordSize
             r == s % WordSize
  <2>2. c \in Int /\ r \in 0 .. WordSize-1 /\ s = WordSize * c + r
    <3>1. s \in Int
      OBVIOUS
    <3> QED BY ONLY <1>1, <3>1, Division
  <2> HIDE DEF c, r
  <2>3. (n * q) * c = n * (q * c) /\ q * c \in Int /\ n * (q * c) \in Int
    BY <1>1, <2>1, <2>2
  <2>4. r - s = n * (-(q * c)) /\ -(q * c) \in Int
    <3>1. n * (-(q * c)) = -(n * (q * c))
      BY <1>1, <2>3
    <3> QED BY <2>1, <2>2, <2>3, <3>1
  <2>5. Divides(n, r - s) /\ r \in Int
    BY <2>2, <2>4 DEF Divides
  <2>6. r % n = s % n
    <3>1. s \in Int
      OBVIOUS
    <3> QED BY ONLY <1>1, <2>5, <3>1, SameRemainder
  <2> QED BY <2>6 DEF r
<1> QED BY <1>2, <1>3

\* How many positions a finished sample reached.
LEMMA Reached ==
  ASSUME StrideInv, phase = "probe", probe = k
  PROVE  /\ reachable \in Nat /\ 1 <= reachable /\ reachable <= want
         /\ ReachFollowsGcd
<1>1. /\ StrideTypeOK /\ GreatestDivisor(a, h2, m)
      /\ seen = {((h1 + j * h2) % WordSize) % m : j \in 0 .. k-1}
  BY DEF StrideInv, Euclid, ProbesAreRemainders
<1>2. m \in Nat \ {0} /\ k \in Nat \ {0} /\ h1 \in Nat /\ h2 \in Nat \ {0} /\ a \in Nat \ {0}
      /\ WordSize \in Nat \ {0} /\ seen \subseteq 0 .. m-1
  BY <1>1, WordAssumption DEF StrideTypeOK, Word, PowerOfTwo
<1> DEFINE At(x) == ((h1 + x * h2) % WordSize) % m
           f == [x \in 0 .. k-1 |-> At(x)]
<1>3. IsFiniteSet(0 .. k-1) /\ Cardinality(0 .. k-1) = k
      /\ IsFiniteSet(0 .. m-1) /\ Cardinality(0 .. m-1) = m
  BY <1>2, FS_Interval
<1>4. f \in Surjection(0 .. k-1, seen)
  <2>1. seen = {At(x) : x \in 0 .. k-1}
    BY <1>1
  <2> HIDE DEF At
  <2>2. f \in [0 .. k-1 -> seen] /\ \A z \in seen : \E y \in 0 .. k-1 : f[y] = z
    BY <2>1
  <2> HIDE DEF f
  <2> QED BY <2>2 DEF Surjection
<1>5. IsFiniteSet(seen) /\ Cardinality(seen) <= k
  <2> HIDE DEF f
  <2> QED BY <1>3, <1>4, FS_Surjection
<1>6. Cardinality(seen) <= m
  BY <1>2, <1>3, FS_Subset
<1>7. Cardinality(seen) \in Nat /\ Cardinality(seen) # 0
  <2>1. At(0) \in seen
    <3> HIDE DEF At
    <3>1. f[0] \in seen
      BY <1>2, <1>4 DEF Surjection
    <3> QED BY <1>2, <3>1
  <2> HIDE DEF At
  <2> QED BY <1>5, <2>1, FS_CardinalityType, FS_EmptySet
<1>8. reachable \in Nat /\ 1 <= reachable /\ reachable <= want
  BY <1>2, <1>5, <1>6, <1>7 DEF reachable, want
<1>9. ASSUME NoWrap \/ PowerOfTwo(m)
      PROVE  reachable = IF m \div g < k THEN m \div g ELSE k
  <2>1. \A x \in 0 .. k-1 : At(x) = ProbeAt(h1, h2, m, x)
    <3> SUFFICES ASSUME NEW x \in 0 .. k-1 PROVE At(x) = ProbeAt(h1, h2, m, x)
      OBVIOUS
    <3> DEFINE s == h1 + x * h2
    <3>1. s \in Nat
      BY <1>2
    <3>2. NoWrap => s < WordSize
      <4>1. x * h2 <= (k-1) * h2
        BY <1>2
      <4>2. x * h2 \in Int /\ (k-1) * h2 \in Int
        BY <1>2
      <4> QED BY <1>2, <4>1, <4>2 DEF NoWrap
    <3>3. m \in Word \ {0}
      BY <1>1 DEF StrideTypeOK
    <3> HIDE DEF s
    <3>4. (s % WordSize) % m = s % m
      BY <1>9, <3>1, <3>2, <3>3, WrapHarmless
    <3> QED BY <3>4 DEF ProbeAt, s
  <2>2. seen = Probes(h1, h2, m, k)
    <3> HIDE DEF At
    <3>1. seen = {At(j) : j \in 0 .. k-1}
      BY <1>1 DEF At
    <3> QED BY <2>1, <3>1 DEF Probes
  <2>3. Cardinality(Probes(h1, h2, m, k)) = IF m \div a < k THEN m \div a ELSE k
    BY ONLY <1>1, <1>2, ReachCount
  <2> QED BY <2>2, <2>3, Zenon DEF reachable, g
<1> QED BY <1>8, <1>9 DEF ReachFollowsGcd

-----------------------------------------------------------------------------
\* h2 and m are sums of multiples of themselves.
LEMMA StartCombines ==
  ASSUME NEW x \in Nat, NEW y \in Nat
  PROVE  Combines(x, y, x) /\ Combines(x, y, y)
<1>1. x = x * 1 + y * 0 /\ y = x * 0 + y * 1
  OBVIOUS
<1> QED BY <1>1 DEF Combines

\* Before the first sample.
LEMMA StrideStart == StrideInit => StrideInv
<1> SUFFICES ASSUME StrideInit PROVE StrideInv
  OBVIOUS
<1>1. /\ m \in Word \ {0} /\ k \in Word \ {0} /\ i = 0 /\ seenSamples = 0 /\ phase = "sample"
      /\ h1 = 0 /\ h2 = 1 /\ a = 1 /\ b = 0 /\ probe = 0 /\ seen = {}
      /\ gcdBad = 0 /\ short = 0 /\ minReach = want /\ maxReach = 0 /\ sumReach = 0
  BY LayoutAssumption DEF StrideInit
<1>2. m \in Nat \ {0} /\ k \in Nat \ {0}
  BY <1>1, WordAssumption DEF Word
<1>3. 0 \in Word /\ 1 \in Word \ {0}
  BY <1>1, WordAssumption DEF Word
<1>4. want \in Nat /\ 1 <= want
  BY <1>1, <1>2 DEF want
<1>5. StrideTypeOK
  BY <1>1, <1>2, <1>3, <1>4, LayoutAssumption DEF StrideTypeOK
<1>6. Euclid /\ ProbesAreRemainders
  BY <1>1 DEF Euclid, ProbesAreRemainders
<1>7. Tallies
  <2>1. want * 0 = 0 /\ 0 * 0 = 0
    BY <1>4
  <2> QED BY <1>1, <1>4, <2>1 DEF Tallies
<1> QED BY <1>5, <1>6, <1>7 DEF StrideInv

\* A skipped sample changes the loop variable alone.
LEMMA SkipKeeps == ASSUME StrideInv, SkipSample PROVE StrideInv'
<1>1. /\ phase = "sample" /\ i < Samples /\ i' = i + 1
      /\ UNCHANGED <<m, k, phase, h1, h2, a, b, probe, seen, gcdBad,
                     short, minReach, maxReach, sumReach, seenSamples>>
  BY DEF SkipSample, layout, ofSample, tallies
<1>2. StrideTypeOK'
  BY <1>1, LayoutAssumption DEF StrideInv, StrideTypeOK
<1>3. Euclid' /\ ProbesAreRemainders'
  BY <1>1 DEF StrideInv, Euclid, ProbesAreRemainders
<1>4. Tallies'
  BY <1>1 DEF StrideInv, Tallies, want, Bad
<1> QED BY <1>2, <1>3, <1>4 DEF StrideInv

\* A key is sampled: gcdUint64 starts from h2 and m themselves.
LEMMA TakeKeeps ==
  ASSUME StrideInv, NEW lo \in Word, NEW hi \in Word, TakeSample(lo, hi)
  PROVE  StrideInv'
<1>1. /\ phase = "sample" /\ i < Samples /\ phase' = "gcd"
      /\ h1' = lo /\ h2' = (IF hi = 0 THEN 1 ELSE hi) /\ a' = h2' /\ b' = m
      /\ UNCHANGED <<m, k, i, probe, seen, gcdBad, short, minReach, maxReach, sumReach, seenSamples>>
  BY DEF TakeSample, splitDoubleHashPair, ensureH2NonZero, layout, tallies
<1>2. probe = 0 /\ StrideTypeOK
  BY <1>1 DEF StrideInv, Euclid
<1>3. m \in Nat \ {0} /\ m \in Word /\ WordSize \in Nat /\ WordSize > 1
  BY <1>2, WordAssumption DEF StrideTypeOK, Word
<1>4. h2' \in Word \ {0} /\ h2' \in Nat \ {0}
  BY <1>1, <1>3 DEF Word
<1>5. StrideTypeOK'
  BY <1>1, <1>2, <1>3, <1>4 DEF StrideTypeOK
<1>6. Combines(h2', m, h2') /\ Combines(h2', m, m)
  BY <1>3, <1>4, StartCombines
<1>7. Euclid'
  BY <1>1, <1>2, <1>6 DEF Euclid
<1>8. ProbesAreRemainders'
  BY <1>1, <1>2 DEF StrideInv, ProbesAreRemainders
<1>9. Tallies'
  BY <1>1 DEF StrideInv, Tallies, want, Bad
<1> QED BY <1>5, <1>7, <1>8, <1>9 DEF StrideInv

\* A turn of gcdUint64's loop.
LEMMA GcdKeeps == ASSUME StrideInv, GcdTurn PROVE StrideInv'
<1>1. /\ phase = "gcd" /\ b # 0 /\ a' = b /\ b' = a % b
      /\ UNCHANGED <<m, k, i, phase, h1, h2, probe, seen, gcdBad,
                     short, minReach, maxReach, sumReach, seenSamples>>
  BY DEF GcdTurn, layout, tallies
<1>2. /\ StrideTypeOK /\ probe = 0
      /\ Combines(h2, m, a) /\ Combines(h2, m, b)
      /\ \A d \in Nat \ {0} : Divides(d, a) /\ Divides(d, b) => Divides(d, h2) /\ Divides(d, m)
  BY <1>1 DEF StrideInv, Euclid
<1>3. a \in Nat \ {0} /\ b \in Nat \ {0} /\ h2 \in Nat /\ m \in Nat
  BY <1>1, <1>2, WordAssumption DEF StrideTypeOK, Word
<1>4. a % b \in Nat
  <2>1. a \in Int
    BY <1>3
  <2>2. a % b \in 0 .. b-1
    BY ONLY <1>3, <2>1, Division
  <2> QED BY <1>3, <2>2
<1>5. StrideTypeOK'
  BY <1>1, <1>2, <1>3, <1>4 DEF StrideTypeOK
<1>6. Combines(h2, m, a % b)
  BY <1>2, <1>3, TurnCombines
<1>7. ASSUME NEW d \in Nat \ {0}, Divides(d, b), Divides(d, a % b)
      PROVE  Divides(d, h2) /\ Divides(d, m)
  <2>1. Divides(d, a)
    BY <1>3, <1>7, TurnDivides
  <2> QED BY <1>2, <1>7, <2>1
<1>8. Euclid'
  BY <1>1, <1>2, <1>6, <1>7 DEF Euclid
<1>9. ProbesAreRemainders' /\ Tallies'
  BY <1>1 DEF StrideInv, ProbesAreRemainders, Tallies, want, Bad
<1> QED BY <1>5, <1>8, <1>9 DEF StrideInv

\* gcdUint64 returns a greatest common divisor.
LEMMA ReturnKeeps == ASSUME StrideInv, GcdReturn PROVE StrideInv'
<1>1. /\ phase = "gcd" /\ b = 0 /\ phase' = "probe" /\ gcdBad' = gcdBad + Bad
      /\ UNCHANGED <<m, k, i, h1, h2, a, b, probe, seen,
                     short, minReach, maxReach, sumReach, seenSamples>>
  BY DEF GcdReturn, layout, ofSample, tallies, g, Bad
<1>2. /\ StrideTypeOK /\ Combines(h2, m, a)
      /\ \A d \in Nat \ {0} : Divides(d, a) /\ Divides(d, b) => Divides(d, h2) /\ Divides(d, m)
  BY <1>1 DEF StrideInv, Euclid
<1>3. a \in Nat \ {0} /\ gcdBad \in Nat /\ Bad \in {0, 1}
  BY <1>2 DEF StrideTypeOK, Bad
<1>4. Divides(a, a) /\ Divides(a, b)
  <2>1. a = a * 1 /\ 0 = a * 0
    BY <1>3
  <2> QED BY <1>1, <2>1 DEF Divides
<1>5. GreatestDivisor(a, h2, m)
  BY <1>2, <1>3, <1>4 DEF GreatestDivisor
<1>6. StrideTypeOK'
  BY <1>1, <1>2, <1>3 DEF StrideTypeOK
<1>7. Euclid' /\ ProbesAreRemainders'
  BY <1>1, <1>5 DEF StrideInv, Euclid, ProbesAreRemainders
<1>8. Tallies'
  <2>1. /\ short \in Nat /\ seenSamples \in Nat /\ short <= gcdBad /\ gcdBad <= seenSamples
    BY <1>1, <1>2 DEF StrideInv, Tallies, StrideTypeOK
  <2>2. /\ 1 <= minReach /\ minReach <= want /\ maxReach <= want
        /\ minReach * seenSamples <= sumReach /\ sumReach <= maxReach * seenSamples
        /\ PowerOfTwo(m) => short = 0
    BY DEF StrideInv, Tallies
  <2>3. want' = want /\ Bad' = Bad
    BY <1>1 DEF want, Bad
  <2>4. short + Bad <= gcdBad + Bad /\ gcdBad + Bad <= seenSamples + Bad
    BY <1>3, <2>1
  <2> QED BY <1>1, <2>2, <2>3, <2>4 DEF Tallies
<1> QED BY <1>6, <1>7, <1>8 DEF StrideInv

\* A turn of reachableProbeCount's loop adds the remainder of the next sum.
LEMMA ProbeKeeps == ASSUME StrideInv, ProbeTurn PROVE StrideInv'
<1>1. /\ phase = "probe" /\ probe < k /\ probe' = probe + 1
      /\ seen' = seen \cup {bitIndex(h1, h2, m, probe)}
      /\ UNCHANGED <<m, k, i, phase, h1, h2, a, b, gcdBad,
                     short, minReach, maxReach, sumReach, seenSamples>>
  BY DEF ProbeTurn, layout, tallies
<1>2. StrideTypeOK /\ h1 \in Nat /\ h2 \in Nat /\ m \in Word \ {0} /\ probe \in Nat /\ k \in Nat
  BY WordAssumption DEF StrideInv, StrideTypeOK, Word
<1> DEFINE At(x) == ((h1 + x * h2) % WordSize) % m
<1>3. bitIndex(h1, h2, m, probe) = At(probe) /\ bitIndex(h1, h2, m, probe) \in 0 .. m-1
  BY <1>2, IndexIsRemainder
<1>4. StrideTypeOK'
  <2>1. seen' \subseteq 0 .. m'-1
    <3> HIDE DEF At
    <3> QED BY <1>1, <1>2, <1>3 DEF StrideTypeOK
  <2>2. probe' \in Nat /\ probe' <= k'
    BY <1>1, <1>2
  <2> QED BY <1>1, <1>2, <2>1, <2>2 DEF StrideTypeOK
<1>5. ProbesAreRemainders'
  <2>1. seen = {At(x) : x \in 0 .. probe-1}
    BY DEF StrideInv, ProbesAreRemainders
  <2>2. \A x : x \in 0 .. (probe+1)-1 <=> x \in 0 .. probe-1 \/ x = probe
    BY <1>2
  <2> HIDE DEF At
  <2>3. seen' = {At(x) : x \in 0 .. (probe+1)-1}
    BY <1>1, <1>3, <2>1, <2>2
  <2>4. seen' = {At(x) : x \in 0 .. probe'-1}
    BY <1>1, <2>3
  <2> QED BY <1>1, <2>4 DEF ProbesAreRemainders, At
<1>6. Euclid' /\ Tallies'
  BY <1>1 DEF StrideInv, Euclid, Tallies, want, Bad
<1> QED BY <1>4, <1>5, <1>6 DEF StrideInv

\* No smaller of two numbers, times one more, is larger than the sum.
LEMMA LeastTimes ==
  ASSUME NEW x \in Nat, NEW y \in Nat, NEW n \in Nat, NEW s \in Nat, x * n <= s,
         NEW z \in Nat, z <= x, z <= y
  PROVE  z * (n + 1) <= s + y
<1>1. z * n <= x * n
  OBVIOUS
<1>2. z * (n + 1) = z * n + z /\ z * n \in Nat /\ x * n \in Nat
  OBVIOUS
<1> QED BY <1>1, <1>2

\* A larger one is no smaller than the sum.
LEMMA MostTimes ==
  ASSUME NEW x \in Nat, NEW y \in Nat, NEW n \in Nat, NEW s \in Nat, s <= x * n,
         NEW z \in Nat, x <= z, y <= z
  PROVE  s + y <= z * (n + 1)
<1>1. x * n <= z * n
  OBVIOUS
<1>2. z * (n + 1) = z * n + z /\ z * n \in Nat /\ x * n \in Nat
  OBVIOUS
<1> QED BY <1>1, <1>2

\* A cycle is short only when the sums wrap, and m is no power of two.
LEMMA NeverShort ==
  ASSUME StrideInv, phase = "probe", probe = k, NoWrap \/ PowerOfTwo(m)
  PROVE  ~ (reachable < maxCycle)
<1>1. reachable = IF m \div g < k THEN m \div g ELSE k
  BY Reached DEF ReachFollowsGcd
<1>2. m \in Nat \ {0} /\ k \in Nat \ {0} /\ a \in Nat \ {0} /\ GreatestDivisor(a, h2, m)
  BY WordAssumption DEF StrideInv, StrideTypeOK, Word, Euclid
<1> DEFINE c == m \div g
<1>3. c \in Nat \ {0}
  BY <1>2, Quotient DEF g, GreatestDivisor
<1>4. reachable = (IF c < k THEN c ELSE k) /\ maxCycle = (IF c > want THEN want ELSE c)
  BY <1>1 DEF maxCycle
<1> HIDE DEF c
<1>5. want <= k /\ want \in Nat
  BY <1>2 DEF want
<1> QED BY <1>2, <1>3, <1>4, <1>5

\* The sample is counted: the least, the most and the sum of the reaches stay in
\* step, and no cycle is short for a power of two.
LEMMA MeasureKeeps == ASSUME StrideInv, MeasureSample PROVE StrideInv'
<1>1. /\ phase = "probe" /\ probe = k /\ phase' = "sample" /\ i' = i + 1
      /\ h1' = 0 /\ h2' = 1 /\ a' = 1 /\ b' = 0 /\ probe' = 0 /\ seen' = {}
      /\ sumReach' = sumReach + reachable /\ seenSamples' = seenSamples + 1
      /\ short' = short + (IF g > 1 /\ reachable < maxCycle THEN 1 ELSE 0)
      /\ minReach' = (IF reachable < minReach THEN reachable ELSE minReach)
      /\ maxReach' = (IF reachable > maxReach THEN reachable ELSE maxReach)
      /\ UNCHANGED <<m, k, gcdBad>>
  BY DEF MeasureSample, NextSample, layout
<1>2. reachable \in Nat /\ 1 <= reachable /\ reachable <= want
  BY <1>1, Reached
<1>3. StrideTypeOK /\ Tallies
  BY DEF StrideInv
<1>4. WordSize \in Nat /\ WordSize > 1 /\ m \in Nat /\ i \in Nat /\ i < Samples
  BY <1>1, <1>3, WordAssumption DEF StrideTypeOK, Word
<1>5. /\ gcdBad \in Nat /\ short \in Nat /\ minReach \in Nat /\ maxReach \in Nat
      /\ sumReach \in Nat /\ seenSamples \in Nat
  BY <1>3 DEF StrideTypeOK
<1>6. StrideTypeOK'
  <2>1. 0 \in Word /\ 1 \in Word \ {0}
    BY <1>4 DEF Word
  <2>2. short' \in Nat /\ minReach' \in Nat /\ maxReach' \in Nat /\ sumReach' \in Nat /\ seenSamples' \in Nat
    BY <1>1, <1>2, <1>5
  <2>3. i' \in Nat /\ i' <= Samples
    BY <1>1, <1>4, LayoutAssumption
  <2>4. m' \in Word \ {0} /\ k' \in Word \ {0} /\ 0 <= k'
    BY <1>1, <1>3, <1>4 DEF StrideTypeOK, Word
  <2> QED BY <1>1, <1>5, <2>1, <2>2, <2>3, <2>4 DEF StrideTypeOK
<1>7. Euclid' /\ ProbesAreRemainders'
  BY <1>1 DEF Euclid, ProbesAreRemainders
<1>8. /\ minReach * seenSamples <= sumReach /\ sumReach <= maxReach * seenSamples
      /\ 1 <= minReach /\ minReach <= want /\ maxReach <= want
      /\ PowerOfTwo(m) => short = 0
      /\ short + Bad <= gcdBad /\ gcdBad <= seenSamples + Bad
  BY <1>1, <1>3 DEF Tallies
<1>9. minReach' * seenSamples' <= sumReach' /\ sumReach' <= maxReach' * seenSamples'
  <2>1. minReach' \in Nat /\ minReach' <= minReach /\ minReach' <= reachable
    BY <1>1, <1>2, <1>5
  <2>2. maxReach' \in Nat /\ maxReach <= maxReach' /\ reachable <= maxReach'
    BY <1>1, <1>2, <1>5
  <2>3. minReach' * (seenSamples + 1) <= sumReach + reachable
    BY <1>2, <1>5, <1>8, <2>1, LeastTimes
  <2>4. sumReach + reachable <= maxReach' * (seenSamples + 1)
    BY <1>2, <1>5, <1>8, <2>2, MostTimes
  <2> QED BY <1>1, <2>3, <2>4
<1>10. 1 <= minReach' /\ minReach' <= want' /\ maxReach' <= want'
  <2>1. want' = want /\ want \in Nat
    BY <1>1, <1>3, <1>4 DEF want, StrideTypeOK, Word
  <2> QED BY <1>1, <1>2, <1>5, <1>8, <2>1
<1>11. PowerOfTwo(m') => short' = 0
  BY <1>1, <1>5, <1>8, NeverShort
<1>12. short' <= gcdBad' /\ gcdBad' <= seenSamples'
  <2>1. a \in Nat
    BY <1>3 DEF StrideTypeOK
  <2>2. short' <= short + Bad /\ Bad \in {0, 1}
    BY <1>1, <1>5, <2>1 DEF Bad, g
  <2> QED BY <1>1, <1>5, <1>8, <2>2
<1>13. Tallies'
  BY <1>1, <1>9, <1>10, <1>11, <1>12 DEF Tallies
<1> QED BY <1>6, <1>7, <1>13 DEF StrideInv

\* No step of a measurement breaks the invariant.
LEMMA StrideStep == StrideInv /\ [StrideNext]_strideVars => StrideInv'
<1> SUFFICES ASSUME StrideInv, [StrideNext]_strideVars PROVE StrideInv'
  OBVIOUS
<1>1. CASE UNCHANGED strideVars
  BY <1>1 DEF strideVars, layout, ofSample, tallies, StrideInv, StrideTypeOK, Euclid,
              ProbesAreRemainders, Tallies, want, Bad
<1>2. CASE StrideNext
  BY <1>2, SkipKeeps, TakeKeeps, GcdKeeps, ReturnKeeps, ProbeKeeps, MeasureKeeps DEF StrideNext
<1> QED BY <1>1, <1>2

\* For words of any size, any layout and any words a hasher derives: the types, what
\* gcdUint64's loop keeps, what the set of probes holds, and what the tallies say.
THEOREM StrideInvariant == StrideSpec => []StrideInv
BY StrideStart, StrideStep, PTL DEF StrideSpec

\* For any power of two, whatever the size of a word, the mask of bitIndex takes the
\* remainder of the wrapped sum.
THEOREM MaskIsHarmless == StrideSpec => []ProbesAreRemainders
<1>1. StrideInv => ProbesAreRemainders
  BY DEF StrideInv
<1> QED BY <1>1, StrideInvariant, PTL

\* For any stride the probes of a key reach as many positions as m divided by what
\* gcdUint64 returns, or as many as there are probes, as long as no sum wraps or m is
\* a power of two.
THEOREM ReachIsTold == StrideSpec => []ReachFollowsGcd
<1>1. StrideInv => ReachFollowsGcd
  BY Reached DEF ReachFollowsGcd
<1> QED BY <1>1, StrideInvariant, PTL

\* For any number of samples the tallies of a report agree with each other.
THEOREM ReportIsConsistent == StrideSpec => []ReportConsistent
<1>1. StrideInv => ReportConsistent
  BY DEF StrideInv, Tallies, ReportConsistent
<1> QED BY <1>1, StrideInvariant, PTL

\* gcdUint64 returns a divisor of h2 and m that every divisor of both divides (hash_stride.go:158-163).
GcdIsGreatest ==
  phase = "probe" =>
    /\ Divides(g, h2) /\ Divides(g, m)
    /\ \A d \in Nat \ {0} : Divides(d, h2) /\ Divides(d, m) => Divides(d, g)

\* For any two words, what gcdUint64 returns is their greatest common divisor.
THEOREM GcdReturned == StrideSpec => []GcdIsGreatest
<1>1. ASSUME StrideInv, phase = "probe", NEW d \in Nat \ {0}, Divides(d, h2), Divides(d, m)
      PROVE  Divides(d, a)
  <2>1. PICK x \in Int : h2 = d * x
    BY <1>1 DEF Divides
  <2>2. PICK y \in Int : m = d * y
    BY <1>1 DEF Divides
  <2>3. PICK u, v \in Int : a = h2 * u + m * v
    BY <1>1 DEF StrideInv, Euclid, GreatestDivisor, Combines
  <2>4. (d * x) * u + (d * y) * v = d * (x * u + y * v) /\ x * u + y * v \in Int
    BY <2>1, <2>2, <2>3
  <2>5. a = d * (x * u + y * v)
    BY <2>1, <2>2, <2>3, <2>4
  <2> QED BY <2>4, <2>5 DEF Divides
<1>2. StrideInv => GcdIsGreatest
  BY <1>1 DEF GcdIsGreatest, g, StrideInv, Euclid, GreatestDivisor
<1> QED BY <1>2, StrideInvariant, PTL

\* A short cycle is counted only for a key whose sums wrap, in a layout whose m is
\* no power of two.
THEOREM ShortNeedsWrap ==
  StrideSpec => [][short' # short => ~NoWrap /\ ~PowerOfTwo(m)]_strideVars
<1>1. ASSUME StrideInv, [StrideNext]_strideVars, short' # short
      PROVE  ~NoWrap /\ ~PowerOfTwo(m)
  <2>1. MeasureSample
    BY <1>1 DEF StrideNext, strideVars, SkipSample, TakeSample, GcdTurn, GcdReturn, ProbeTurn, tallies
  <2>2. phase = "probe" /\ probe = k /\ short' = short + (IF g > 1 /\ reachable < maxCycle THEN 1 ELSE 0)
    BY <2>1 DEF MeasureSample, NextSample
  <2>3. short \in Nat
    BY <1>1 DEF StrideInv, StrideTypeOK
  <2>4. reachable < maxCycle
    BY <1>1, <2>2, <2>3
  <2> QED BY <1>1, <2>2, <2>4, NeverShort
<1>2. StrideInv /\ [StrideNext]_strideVars => [short' # short => ~NoWrap /\ ~PowerOfTwo(m)]_strideVars
  BY <1>1
<1> QED BY <1>2, StrideInvariant, PTL DEF StrideSpec

\* What a step of a measurement gets on with: the loop variable of the samples, or
\* within a sample from gcdUint64, whose b falls, to the probes, which are counted up.
Advances ==
  \/ i' > i
  \/ /\ i' = i
     /\ \/ phase = "sample" /\ phase' = "gcd"
        \/ phase = "gcd" /\ phase' = "gcd" /\ b' \in Nat /\ b' < b
        \/ phase = "gcd" /\ phase' = "probe"
        \/ phase = "probe" /\ phase' = "probe" /\ probe' > probe /\ probe' <= k

\* Every step gets on: no loop of a measurement runs for ever, gcdUint64's of which no
\* counter bounds the turns included (hash_stride.go:36, 152, 159).
THEOREM MeasurementAdvances == StrideSpec => [][Advances]_strideVars
<1>1. ASSUME StrideInv, StrideNext PROVE Advances
  <2>1. /\ i \in Nat /\ probe \in Nat /\ k \in Nat /\ a \in Nat \ {0} /\ b \in Nat
    BY <1>1, WordAssumption DEF StrideInv, StrideTypeOK, Word
  <2>2. CASE SkipSample
    BY <2>1, <2>2 DEF SkipSample, Advances
  <2>3. CASE \E lo, hi \in Word : TakeSample(lo, hi)
    BY <2>3 DEF TakeSample, Advances
  <2>4. CASE GcdTurn
    <3>1. a \in Int /\ b \in Nat \ {0} /\ b' = a % b /\ i' = i /\ phase = "gcd" /\ phase' = phase
      BY <2>1, <2>4 DEF GcdTurn
    <3>2. a % b \in 0 .. b-1
      BY ONLY <3>1, Division
    <3>3. b' \in Nat /\ b' < b
      BY <3>1, <3>2
    <3> QED BY <3>1, <3>3 DEF Advances
  <2>5. CASE GcdReturn
    BY <2>5 DEF GcdReturn, Advances
  <2>6. CASE ProbeTurn
    BY <2>1, <2>6 DEF ProbeTurn, Advances
  <2>7. CASE MeasureSample
    BY <2>1, <2>7 DEF MeasureSample, NextSample, Advances
  <2> QED BY <1>1, <2>2, <2>3, <2>4, <2>5, <2>6, <2>7 DEF StrideNext
<1>2. StrideInv /\ [StrideNext]_strideVars => [Advances]_strideVars
  BY <1>1
<1> QED BY <1>2, StrideInvariant, PTL DEF StrideSpec
=============================================================================
