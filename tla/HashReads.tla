------------------------------ MODULE HashReads -----------------------------
(***************************************************************************)
(* How the hash families (bloom/hash_*.go) walk a key: which byte goes     *)
(* into which slot of which word of the mixing, and what the mixing is     *)
(* told of the key's length.  The arithmetic that mixes a word into the    *)
(* state is left out: a word counts as fed, once per half of the digest.   *)
(*                                                                         *)
(* An entry <<word, slot, p>> says that byte p of the key is byte slot of  *)
(* the word-th word.                                                       *)
(***************************************************************************)
EXTENDS Integers

CONSTANT Len   \* the key lengths

ASSUME LenAssumption == Len \subseteq Nat

Family == {"murmur3", "xxhash", "wyhash", "highway", "siphash", "fnv"}

\* Nothing of the key: a length not mixed in, or the place of a byte that is
\* no byte of the key.
None == -1

VARIABLES
  fam, len,     \* the hash, and len(data)
  off,          \* the bytes walked so far
  w,            \* the words fed so far
  fed1, fed2,   \* the entries fed to each half of the digest
  told,         \* the length, or what stands for it, mixed into the digest
  pc

hashVars == <<fam, len, off, w, fed1, fed2, told, pc>>

HashInit ==
  /\ fam \in Family /\ len \in Len
  /\ off = 0 /\ w = 0
  /\ fed1 = {} /\ fed2 = {}
  /\ told = None
  /\ pc = "absorb"

left == len - off

Walking(f) == fam = f /\ pc = "absorb"

\* c bytes from position p on, packed into words from word v on.
Packed(v, p, c) == {<<v + (j \div 8), j % 8, p + j>> : j \in 0..c-1}

\* A loop iteration: c bytes go to both halves.
Absorb(c, words) ==
  /\ fed1' = fed1 \cup Packed(w, off, c)
  /\ fed2' = fed2 \cup Packed(w, off, c)
  /\ off' = off + c
  /\ w' = w + words
  /\ UNCHANGED <<fam, len, told, pc>>

\* The last entries go to both halves, with the length.
Finish(entries, words, length) ==
  /\ fed1' = fed1 \cup entries
  /\ fed2' = fed2 \cup entries
  /\ w' = w + words
  /\ told' = length
  /\ pc' = "done"
  /\ UNCHANGED <<fam, len, off>>

-----------------------------------------------------------------------------
(* murmur3_128 *)

Murmur3Block == Walking("murmur3") /\ left >= 16 /\ Absorb(16, 2)

\* Variant: case 9 does not fall through.
Murmur3TailNoFallthrough ==
  /\ Walking("murmur3") /\ left < 16
  /\ Finish({e \in Packed(w, off, left) : left > 8 => e[1] > w}, 2, len)

\* The switch falls through from case len(tail) to case 1.
Murmur3Tail ==
  /\ Walking("murmur3") /\ left < 16
  /\ Finish(Packed(w, off, left), 2, len)

-----------------------------------------------------------------------------
(* xxhash128 *)

XXHashStripe == Walking("xxhash") /\ left >= 32 /\ Absorb(32, 4)
XXHashWord == Walking("xxhash") /\ left \in 8..31 /\ Absorb(8, 1)
XXHashHalfWord == Walking("xxhash") /\ left \in 4..7 /\ Absorb(4, 1)
XXHashByte == Walking("xxhash") /\ left \in 1..3 /\ Absorb(1, 1)
XXHashFinalize == Walking("xxhash") /\ left = 0 /\ Finish({}, 0, len)

-----------------------------------------------------------------------------
(* wyhash64Dual *)

WyhashLong == Walking("wyhash") /\ left > 64 /\ Absorb(64, 8)
WyhashPair == Walking("wyhash") /\ left \in 17..64 /\ Absorb(16, 2)

\* Variant: three bytes are taken for a half word.
WyhashEntriesThree ==
  CASE left < 3 -> {<<w, 2, off>>, <<w, 1, off + (left \div 2)>>, <<w, 0, off + left - 1>>}
    [] left \in 3..4 -> Packed(w, off, 4)
    [] left \in 5..7 -> Packed(w, off, 4) \cup Packed(w + 1, off + left - 4, 4)
    [] left = 8 -> Packed(w, off, 8)
    [] OTHER -> Packed(w, off, 8) \cup Packed(w + 1, off + left - 8, 8)

\* The switch on the bytes left, 1 to 16 of them.
WyhashEntries ==
  CASE left < 4 -> {<<w, 2, off>>, <<w, 1, off + (left \div 2)>>, <<w, 0, off + left - 1>>}
    [] left = 4 -> Packed(w, off, 4)
    [] left \in 5..7 -> Packed(w, off, 4) \cup Packed(w + 1, off + left - 4, 4)
    [] left = 8 -> Packed(w, off, 8)
    [] OTHER -> Packed(w, off, 8) \cup Packed(w + 1, off + left - 8, 8)

WyhashTail ==
  /\ Walking("wyhash") /\ left \in 1..16
  /\ Finish(WyhashEntries, 2, len)

\* No byte is left: only the seed is mixed.
WyhashEmpty == Walking("wyhash") /\ left = 0 /\ Finish({}, 0, None)

-----------------------------------------------------------------------------
(* highwayHash128 *)

HighwayPacket == Walking("highway") /\ left >= 32 /\ Absorb(32, 4)

\* The 32-byte block highwayHashBuffer makes of the bytes left.
HighwayBlock ==
  LET mod4 == left % 4
      remain == left - mod4
      At(slot, j) == <<w + (slot \div 8), slot % 8, off + j>>
  IN  Packed(w, off, remain) \cup
      IF left >= 16 THEN {At(28 + j, left - 4 + j) : j \in 0..3}
      ELSE IF mod4 # 0 THEN {At(16, remain), At(17, remain + (mod4 \div 2)), At(18, left - 1)}
      ELSE {}

\* Variant: only the bytes past the last group of four are counted.
HighwayBufferMod4 ==
  /\ Walking("highway") /\ left \in 1..31
  /\ Finish(HighwayBlock, 4, left % 4)

HighwayBuffer ==
  /\ Walking("highway") /\ left \in 1..31
  /\ Finish(HighwayBlock, 4, left)

HighwayNoBuffer == Walking("highway") /\ left = 0 /\ Finish({}, 0, None)

-----------------------------------------------------------------------------
(* siphash128 *)

SiphashWord == Walking("siphash") /\ left >= 8 /\ Absorb(8, 1)

\* Variant: the length is shifted by 48.
SiphashTailShift48 ==
  /\ Walking("siphash") /\ left < 8
  /\ Finish(Packed(w, off, left) \cup {<<w, 6, None>>}, 1, len % 256)

\* The last word: the bytes left, and the low byte of the length on top.
SiphashTail ==
  /\ Walking("siphash") /\ left < 8
  /\ Finish(Packed(w, off, left) \cup {<<w, 7, None>>}, 1, len % 256)

-----------------------------------------------------------------------------
(* fnvHasher.Derive: FNV-1a of the key, then of the key and a zero byte *)

FnvByte ==
  /\ Walking("fnv") /\ left > 0
  /\ fed1' = fed1 \cup Packed(w, off, 1)
  /\ off' = off + 1 /\ w' = w + 1
  /\ UNCHANGED <<fam, len, fed2, told, pc>>

FnvReset ==
  /\ Walking("fnv") /\ left = 0
  /\ off' = 0 /\ pc' = "again"
  /\ UNCHANGED <<fam, len, w, fed1, fed2, told>>

FnvByteAgain ==
  /\ pc = "again" /\ left > 0
  /\ fed2' = fed2 \cup Packed(w, off, 1)
  /\ off' = off + 1 /\ w' = w + 1
  /\ UNCHANGED <<fam, len, fed1, told, pc>>

FnvZeroByte ==
  /\ pc = "again" /\ left = 0
  /\ fed2' = fed2 \cup {<<w, 0, None>>}
  /\ w' = w + 1 /\ pc' = "done"
  /\ UNCHANGED <<fam, len, off, fed1, told>>

-----------------------------------------------------------------------------
Done == pc = "done" /\ UNCHANGED hashVars

HashNext ==
  \/ Murmur3Block \/ Murmur3Tail
  \/ XXHashStripe \/ XXHashWord \/ XXHashHalfWord \/ XXHashByte \/ XXHashFinalize
  \/ WyhashLong \/ WyhashPair \/ WyhashTail \/ WyhashEmpty
  \/ HighwayPacket \/ HighwayBuffer \/ HighwayNoBuffer
  \/ SiphashWord \/ SiphashTail
  \/ FnvByte \/ FnvReset \/ FnvByteAgain \/ FnvZeroByte
  \/ Done

HashSpec == HashInit /\ [][HashNext]_hashVars

-----------------------------------------------------------------------------
\* No word is loaded past the end of the key: no slice panics, and the
\* padding branches of wyReadU32 and wyReadU64 are never taken.
ReadsInBounds == \A e \in fed1 \cup fed2 : e[3] < len

Holds(fed, p) == \E e \in fed : e[3] = p

\* Every byte of the key reaches both halves of the digest: two keys that
\* differ in one byte never feed a half the same words.
EveryByteFed ==
  pc = "done" => \A p \in 0..len-1 : Holds(fed1, p) /\ Holds(fed2, p)

OneByteEach(fed) == \A e, f \in fed : e[1] = f[1] /\ e[2] = f[2] => e = f

\* No two bytes share a slot of a word, and the length byte of siphash shares
\* its slot with none: what a tail's shifts, ors and copies put together can
\* be taken apart again.
SlotsDisjoint == pc = "done" => OneByteEach(fed1) /\ OneByteEach(fed2)

\* The length the digest stands for: from the words fed and what was told.
ToldLength ==
  CASE fam = "highway" -> IF told = None THEN 8 * w ELSE 8 * w - 32 + told
    [] fam = "siphash" -> 8 * (w - 1) + (told % 8)
    [] fam = "fnv" -> (w - 1) \div 2
    [] OTHER -> IF told = None THEN 0 ELSE told

\* A key and the same key padded with zero bytes are fed differently: the
\* words and the length mixed in tell the key's length, which siphash tells
\* modulo 256 only and wyhash does not tell at all of an empty key.
LengthTold == pc = "done" => ToldLength = len
=============================================================================
