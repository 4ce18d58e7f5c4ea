--------------------------- MODULE Signing_proofs ---------------------------
(***************************************************************************)
(* Proofs about what signing stands on: Sha512, for every block size and   *)
(* word size, Ed25519Keys, for every group order and every hash function,  *)
(* and FieldChains.  The modules share no state; each part has its own     *)
(* inductive invariant.  At the end, all parts of src/ed25519/ together.   *)
(***************************************************************************)
EXTENDS MCEd25519, Limbs_proofs, Curve_proofs

(***************************************************************************)
(* Proofs about Sha512, for every block size and word size and for         *)
(* messages of any length: however a message is cut into updates, the      *)
(* blocks that are compressed are the padded message of FIPS 180-4.        *)
(*                                                                         *)
(* The inductive invariant is NothingLost with the types.  It determines   *)
(* the padding: whole blocks were hashed, so the number of zeros depends   *)
(* on what is in the buffer alone.                                         *)
(***************************************************************************)

ShaInv == ShaTypeOK /\ NothingLost /\ DigestOfMessage

LEMMA Sizes ==
  /\ BlockSize \in Nat \ {0} /\ WordSize \in Nat \ {0} /\ MaxMessage \in Nat
  /\ BlockSize - 2 * WordSize \in Nat \ {0}
  BY BlockAssumption

(* The bytes of a number are bytes. *)
LEMMA Store64Type ==
  ASSUME NEW n \in Nat
  PROVE  /\ Store64(n) \in Seq(Byte) /\ Len(Store64(n)) = WordSize
<1>1. ASSUME NEW k \in 1..WordSize
      PROVE  (n \div Weight[k]) % 256 \in Byte
  <2> DEFINE d == Weight[k]
  <2>1. d \in Nat \ {0}
    BY WeightAssumption
  <2> HIDE DEF d
  <2>2. n \div d \in Int
    BY <2>1
  <2>3. (n \div d) % 256 \in Byte
    BY <2>2 DEF Byte
  <2> QED
    BY <2>3 DEF d
<1> QED
  BY <1>1, Sizes DEF Store64

LEMMA ZerosType ==
  ASSUME NEW n \in Nat
  PROVE  /\ Zeros(n) \in Seq(Byte) /\ Len(Zeros(n)) = n
         /\ \A k \in 1..n : Zeros(n)[k] = 0
  BY DEF Zeros, Byte

(* Runs of zeros join. *)
LEMMA ZerosJoin ==
  ASSUME NEW m \in Nat, NEW n \in Nat
  PROVE  Zeros(m) \o Zeros(n) = Zeros(m + n)
<1>1. m + n \in Nat
  OBVIOUS
<1> DEFINE s == Zeros(m) \o Zeros(n)
           t == Zeros(m + n)
<1>2. /\ s \in Seq(Byte) /\ Len(s) = m + n
      /\ \A k \in 1..m + n : s[k] = 0
  <2> DEFINE u == Zeros(m)
             v == Zeros(n)
  <2>1. /\ u \in Seq(Byte) /\ Len(u) = m /\ \A k \in 1..m : u[k] = 0
        /\ v \in Seq(Byte) /\ Len(v) = n /\ \A k \in 1..n : v[k] = 0
    BY ZerosType
  <2> HIDE DEF u, v
  <2>2. /\ u \o v \in Seq(Byte) /\ Len(u \o v) = m + n
        /\ \A k \in 1..m + n : (u \o v)[k] = 0
    BY <2>1
  <2> QED
    BY <2>2 DEF u, v
<1>3. /\ t \in Seq(Byte) /\ Len(t) = m + n
      /\ \A k \in 1..m + n : t[k] = 0
  BY <1>1, ZerosType
<1> HIDE DEF s, t
<1>4. s = t
  BY <1>2, <1>3, SeqEqual
<1> QED
  BY <1>4 DEF s, t

(* The buffer as a sequence, and what is in it. *)
LEMMA BufferSeq ==
  ASSUME NEW b \in [1..BlockSize -> Byte], NEW c \in 0..BlockSize
  PROVE  /\ b \in Seq(Byte) /\ Len(b) = BlockSize
         /\ SubSeq(b, 1, c) \in Seq(Byte) /\ Len(SubSeq(b, 1, c)) = c
         /\ \A k \in 1..c : SubSeq(b, 1, c)[k] = b[k]
<1>1. b \in Seq(Byte) /\ Len(b) = BlockSize
  BY Sizes
<1> QED
  BY <1>1, Sizes

(* What is behind the old bytes of the buffer after a copy to it. *)
LEMMA OverlayAppends ==
  ASSUME NEW c \in 0..BlockSize, NEW s \in Seq(Byte), c + Len(s) <= BlockSize,
         buf \in [1..BlockSize -> Byte]
  PROVE  /\ Overlay(c, s) \in [1..BlockSize -> Byte]
         /\ SubSeq(Overlay(c, s), 1, c + Len(s)) = SubSeq(buf, 1, c) \o s
<1> DEFINE b == Overlay(c, s)
           n == c + Len(s)
<1>1. /\ b \in [1..BlockSize -> Byte] /\ n \in 0..BlockSize
      /\ \A k \in 1..n : b[k] = IF k > c THEN s[k - c] ELSE buf[k]
  <2>1. ASSUME NEW k \in 1..BlockSize, k > c, k <= c + Len(s)
        PROVE  s[k - c] \in Byte
    BY <2>1, ElementOfSeq
  <2>2. b \in [1..BlockSize -> Byte]
    BY <2>1 DEF Overlay
  <2>3. n \in 0..BlockSize /\ n = c + Len(s)
    BY Sizes
  <2> HIDE DEF n
  <2>4. \A k \in 1..n : k \in 1..BlockSize /\ k <= n
    BY <2>3, Sizes
  <2>5. \A k \in 1..n : b[k] = IF k > c THEN s[k - c] ELSE buf[k]
    BY <2>3, <2>4 DEF Overlay
  <2> QED
    BY <2>2, <2>3, <2>5
<1> HIDE DEF b
<1> DEFINE t == SubSeq(b, 1, n)
           u == SubSeq(buf, 1, c)
<1>2. /\ t \in Seq(Byte) /\ Len(t) = n /\ \A k \in 1..n : t[k] = b[k]
  BY <1>1, BufferSeq
<1>3. /\ u \in Seq(Byte) /\ Len(u) = c /\ \A k \in 1..c : u[k] = buf[k]
  BY BufferSeq
<1> HIDE DEF t, u
<1>4. /\ u \o s \in Seq(Byte) /\ Len(u \o s) = n
      /\ \A k \in 1..n : (u \o s)[k] = IF k <= c THEN u[k] ELSE s[k - c]
  BY <1>3, ConcatProperties
<1>5. \A k \in 1..n : t[k] = (u \o s)[k]
  BY <1>1, <1>2, <1>3, <1>4
<1>6. t = u \o s
  BY <1>2, <1>4, <1>5, SeqEqual
<1> QED
  BY <1>1, <1>6 DEF b, t, u

(* Nothing is in a buffer with curlen 0. *)
LEMMA EmptyBuffer ==
  ASSUME NEW b \in [1..BlockSize -> Byte], NEW s \in Seq(Byte)
  PROVE  s \o SubSeq(b, 1, 0) = s
<1>1. SubSeq(b, 1, 0) = <<>>
  BY SubSeqEmpty
<1> QED
  BY <1>1, ConcatEmptySeq

(* The first n bytes of the input and the others. *)
LEMMA TakeParts ==
  ASSUME NEW s \in Seq(Byte), NEW n \in 0..Len(s)
  PROVE  /\ SubSeq(s, 1, n) \in Seq(Byte) /\ Len(SubSeq(s, 1, n)) = n
         /\ SubSeq(s, n + 1, Len(s)) \in Seq(Byte)
  OBVIOUS

LEMMA ConcatBytes ==
  ASSUME NEW s \in Seq(Byte), NEW t \in Seq(Byte)
  PROVE  /\ s \o t \in Seq(Byte)
         /\ Len(s \o t) = Len(s) + Len(t)
  OBVIOUS

LEMMA ConcatThree ==
  ASSUME NEW s \in Seq(Byte), NEW t \in Seq(Byte), NEW u \in Seq(Byte)
  PROVE  (s \o t) \o u = s \o (t \o u)
<1>1. /\ (s \o t) \o u \in Seq(Byte) /\ s \o (t \o u) \in Seq(Byte)
      /\ Len((s \o t) \o u) = Len(s \o (t \o u))
  OBVIOUS
<1>2. \A k \in 1..Len((s \o t) \o u) :
        ((s \o t) \o u)[k] = (s \o (t \o u))[k]
  OBVIOUS
<1> QED
  BY <1>1, <1>2, SeqEqual

(* The bytes in the buffer, and the mark behind them. *)
LEMMA MarkedType ==
  ASSUME ShaTypeOK
  PROVE  /\ Marked = SubSeq(buf, 1, curlen) \o <<128>>
         /\ Marked \in Seq(Byte) /\ Len(Marked) = curlen + 1
<1> DEFINE s == SubSeq(buf, 1, curlen)
<1>1. buf \in [1..BlockSize -> Byte] /\ curlen \in 0..BlockSize
  BY Sizes DEF ShaTypeOK
<1>2. s \in Seq(Byte) /\ Len(s) = curlen
  BY <1>1, BufferSeq
<1>3. 128 \in Byte
  BY DEF Byte
<1>4. Marked = Append(s, 128)
  BY DEF Marked
<1> HIDE DEF s
<1>5. Append(s, 128) = s \o <<128>>
  BY <1>2, <1>3, AppendIsConcat, Zenon
<1>6. Append(s, 128) \in Seq(Byte) /\ Len(Append(s, 128)) = curlen + 1
  BY <1>2, <1>3
<1> QED
  BY <1>4, <1>5, <1>6 DEF s

-----------------------------------------------------------------------------
(* How many zeros sha512_final writes before the last two words. *)
FinalZeros ==
  IF curlen + 1 > BlockSize - 2 * WordSize
  THEN 2 * BlockSize - 2 * WordSize - (curlen + 1)
  ELSE BlockSize - 2 * WordSize - (curlen + 1)

LEMMA FinalZerosType ==
  ASSUME ShaTypeOK
  PROVE  /\ FinalZeros \in 0..BlockSize - 1
         /\ curlen + 1 + FinalZeros + 2 * WordSize \in {BlockSize, 2 * BlockSize}
  BY Sizes DEF ShaTypeOK, FinalZeros

(* Both ways through sha512_final write the same form of padding. *)
LEMMA FinalBlocksForm ==
  ASSUME ShaTypeOK
  PROVE  /\ FinalBlocks = Marked \o Zeros(FinalZeros) \o Zeros(WordSize)
                            \o Store64(length + curlen * 8)
         /\ FinalBlocks \in Seq(Byte)
         /\ Len(FinalBlocks) \in {BlockSize, 2 * BlockSize}
<1> DEFINE z == FinalZeros
           lengthBytes == Store64(length + curlen * 8)
           m == Marked
<1>1. /\ z \in 0..BlockSize - 1
      /\ curlen + 1 + z + 2 * WordSize \in {BlockSize, 2 * BlockSize}
  BY FinalZerosType
<1>2. curlen \in 0..BlockSize-1 /\ length + curlen * 8 \in Nat
  BY Sizes DEF ShaTypeOK
<1>3. lengthBytes \in Seq(Byte) /\ Len(lengthBytes) = WordSize
  BY <1>2, Store64Type
<1>4. m \in Seq(Byte) /\ Len(m) = curlen + 1
  BY MarkedType
<1>5. /\ Zeros(z) \in Seq(Byte) /\ Len(Zeros(z)) = z
      /\ Zeros(WordSize) \in Seq(Byte) /\ Len(Zeros(WordSize)) = WordSize
      /\ Zeros(z) \o Zeros(WordSize) = Zeros(z + WordSize)
  <2>1. z \in Nat /\ WordSize \in Nat
    BY <1>1, Sizes
  <2> HIDE DEF z
  <2> QED
    BY <2>1, ZerosType, ZerosJoin
<1>6. FinalBlocks = m \o Zeros(z) \o Zeros(WordSize) \o lengthBytes
  <2>1. CASE curlen + 1 > BlockSize - 2 * WordSize
    <3> DEFINE x == BlockSize - (curlen + 1)
               y == BlockSize - 2 * WordSize + WordSize
    <3>1. x \in Nat /\ y \in Nat /\ x + y = z + WordSize
      BY <2>1, <1>2, Sizes DEF FinalZeros
    <3>2. FinalBlocks = m \o Zeros(x) \o Zeros(y) \o lengthBytes
      BY <2>1 DEF FinalBlocks
    <3> HIDE DEF x, y
    <3>3. /\ Zeros(x) \in Seq(Byte) /\ Zeros(y) \in Seq(Byte)
          /\ Zeros(x) \o Zeros(y) = Zeros(z + WordSize)
      BY <3>1, ZerosType, ZerosJoin
    <3> HIDE DEF z, lengthBytes, m
    <3>4. (m \o Zeros(x)) \o Zeros(y) = m \o Zeros(z + WordSize)
      <4>1. (m \o Zeros(x)) \o Zeros(y) = m \o (Zeros(x) \o Zeros(y))
        BY <3>3, <1>4, ConcatThree
      <4> QED
        BY <4>1, <3>3
    <3>5. (m \o Zeros(z)) \o Zeros(WordSize) = m \o Zeros(z + WordSize)
      <4>1. (m \o Zeros(z)) \o Zeros(WordSize) = m \o (Zeros(z) \o Zeros(WordSize))
        BY <1>4, <1>5, ConcatThree
      <4> QED
        BY <4>1, <1>5
    <3> QED
      BY <3>2, <3>4, <3>5
  <2>2. CASE ~(curlen + 1 > BlockSize - 2 * WordSize)
    <3> DEFINE x == BlockSize - 2 * WordSize + WordSize - (curlen + 1)
    <3>1. x = z + WordSize
      BY <2>2, <1>2, Sizes DEF FinalZeros
    <3>2. FinalBlocks = m \o Zeros(x) \o lengthBytes
      BY <2>2 DEF FinalBlocks
    <3> HIDE DEF x, z, lengthBytes, m
    <3>3. (m \o Zeros(z)) \o Zeros(WordSize) = m \o Zeros(z + WordSize)
      <4>1. (m \o Zeros(z)) \o Zeros(WordSize) = m \o (Zeros(z) \o Zeros(WordSize))
        BY <1>4, <1>5, ConcatThree
      <4> QED
        BY <4>1, <1>5
    <3> QED
      BY <3>1, <3>2, <3>3
  <2> QED
    BY <2>1, <2>2
<1> HIDE DEF z, lengthBytes, m
<1>7. /\ m \o Zeros(z) \in Seq(Byte) /\ Len(m \o Zeros(z)) = curlen + 1 + z
  BY <1>4, <1>5, ConcatBytes, Zenon
<1>8. /\ m \o Zeros(z) \o Zeros(WordSize) \in Seq(Byte)
      /\ Len(m \o Zeros(z) \o Zeros(WordSize)) = curlen + 1 + z + WordSize
  BY <1>5, <1>7, ConcatBytes, Zenon
<1>9. /\ m \o Zeros(z) \o Zeros(WordSize) \o lengthBytes \in Seq(Byte)
      /\ Len(m \o Zeros(z) \o Zeros(WordSize) \o lengthBytes)
           = curlen + 1 + z + WordSize + WordSize
  BY <1>3, <1>8, ConcatBytes, Zenon
<1>10. curlen + 1 + z + WordSize + WordSize = curlen + 1 + z + 2 * WordSize
  BY <1>1, <1>2, Sizes
<1> QED
  BY <1>1, <1>6, <1>9, <1>10 DEF z, lengthBytes, m

(* The padding is determined: no other number of zeros below a block fills *)
(* up the last one.                                                        *)
LEMMA PaddedForm ==
  ASSUME NEW m \in Seq(Byte), NEW z \in 0..BlockSize - 1,
         (Len(m) + 1 + z + 2 * WordSize) % BlockSize = 0
  PROVE  Padded(m) = Append(m, 128) \o Zeros(z) \o Zeros(WordSize)
                       \o Store64(8 * Len(m))
<1> DEFINE fits(n) == (Len(m) + 1 + n + 2 * WordSize) % BlockSize = 0
           c == CHOOSE n \in 0..BlockSize - 1 : fits(n)
           x == Len(m) + 1 + 2 * WordSize
<1>1. c \in 0..BlockSize - 1 /\ fits(c)
  OBVIOUS
<1>2. x \in Int /\ z \in Int /\ c \in Int
  BY <1>1, Sizes
<1>3. x + z = Len(m) + 1 + z + 2 * WordSize /\ x + c = Len(m) + 1 + c + 2 * WordSize
  BY <1>2, Sizes
<1>4. (x + z) % BlockSize = 0 /\ (x + c) % BlockSize = 0
  BY <1>1, <1>3
<1>5. c \in 0..BlockSize - 1
  BY <1>1
<1>6. Padded(m) = Append(m, 128) \o Zeros(c) \o Zeros(WordSize) \o Store64(8 * Len(m))
  BY DEF Padded
<1> HIDE DEF c, x
<1>7. z = c
  BY <1>2, <1>4, <1>5, Sizes, ModFill
<1> QED
  BY <1>6, <1>7

-----------------------------------------------------------------------------
LEMMA ShaInitOK == ShaInit => ShaInv
<1> SUFFICES ASSUME ShaInit PROVE ShaInv
  OBVIOUS
<1>1. /\ buf = [k \in 1..BlockSize |-> 0] /\ curlen = 0 /\ length = 0
      /\ input = <<>> /\ digesting = "update" /\ absorbed = <<>> /\ hashed = <<>>
  BY DEF ShaInit
<1>2. ShaTypeOK
  <2>1. [k \in 1..BlockSize |-> 0] \in [1..BlockSize -> Byte]
    BY DEF Byte
  <2>2. <<>> \in Seq(Byte) /\ 0 \in Nat /\ 0 \in 0..BlockSize-1
    BY Sizes
  <2> QED
    BY <1>1, <2>1, <2>2 DEF ShaTypeOK
<1>3. NothingLost
  BY <1>1, <1>2, EmptyBuffer, Sizes DEF NothingLost, ShaTypeOK
<1> QED
  BY <1>1, <1>2, <1>3 DEF ShaInv, DigestOfMessage

LEMMA UpdateOK == ShaInv /\ Update => ShaInv'
<1> SUFFICES ASSUME ShaInv, Update PROVE ShaInv'
  OBVIOUS
<1>1. ShaTypeOK /\ NothingLost /\ digesting = "update"
      /\ UNCHANGED <<buf, curlen, length, digesting, absorbed, hashed>>
  BY DEF ShaInv, Update
<1>2. PICK n \in 1..MaxMessage - Len(absorbed) :
        input' = [k \in 1..n |-> MessageByte(Len(absorbed) + k)]
  BY DEF Update
<1>3. input' \in Seq(Byte)
  <2>1. Len(absorbed) \in Nat
    BY <1>1 DEF ShaTypeOK
  <2>2. n \in Nat
    BY <2>1, <1>2, Sizes
  <2>3. \A k \in 1..n : MessageByte(Len(absorbed) + k) \in Byte
    BY <2>1, <2>2 DEF MessageByte, Byte
  <2> QED
    BY <1>2, <2>2, <2>3
<1> QED
  BY <1>1, <1>3 DEF ShaInv, ShaTypeOK, NothingLost, DigestOfMessage

(* One more block has been compressed. *)
LEMMA MoreBlocks ==
  ASSUME ShaTypeOK, NothingLost, digesting = "update",
         NEW block \in Seq(Byte), Len(block) = BlockSize
  PROVE  /\ hashed \o block \in Seq(Byte)
         /\ length + BlockSize * 8 = 8 * Len(hashed \o block)
         /\ Len(hashed \o block) % BlockSize = 0
<1>1. hashed \in Seq(Byte) /\ length = 8 * Len(hashed) /\ Len(hashed) % BlockSize = 0
  BY DEF ShaTypeOK, NothingLost
<1>2. hashed \o block \in Seq(Byte) /\ Len(hashed \o block) = Len(hashed) + BlockSize
  BY <1>1, ConcatBytes
<1>3. (Len(hashed) + BlockSize) % BlockSize = 0
  <2> DEFINE n == Len(hashed)
  <2>1. /\ n \in Int /\ 1 \in Int /\ (n % BlockSize) = 0
        /\ n + BlockSize * 1 = n + BlockSize
    BY <1>1, Sizes
  <2> HIDE DEF n
  <2>2. (n + BlockSize * 1) % BlockSize = n % BlockSize
    BY <2>1, Sizes, ModShift, Zenon
  <2> QED
    BY <2>1, <2>2 DEF n
<1> QED
  BY <1>1, <1>2, <1>3, Sizes

LEMMA UpdateBlockOK == ShaInv /\ UpdateBlock => ShaInv'
<1> SUFFICES ASSUME ShaInv, UpdateBlock PROVE ShaInv'
  OBVIOUS
<1> DEFINE block == SubSeq(input, 1, BlockSize)
           rest  == SubSeq(input, BlockSize + 1, Len(input))
<1>1. ShaTypeOK /\ NothingLost /\ digesting = "update" /\ curlen = 0
  BY DEF ShaInv, UpdateBlock
<1>2. /\ hashed' = hashed \o block /\ absorbed' = absorbed \o block
      /\ input' = rest /\ length' = length + BlockSize * 8
      /\ buf' = buf /\ curlen' = curlen /\ digesting' = digesting
  BY DEF UpdateBlock, Compress, Take
<1>3. block \in Seq(Byte) /\ Len(block) = BlockSize /\ rest \in Seq(Byte)
  <2>1. input \in Seq(Byte) /\ BlockSize \in 0..Len(input)
    BY Sizes DEF ShaInv, ShaTypeOK, UpdateBlock
  <2> QED
    BY <2>1, TakeParts
<1> HIDE DEF block, rest
<1>4. /\ hashed \o block \in Seq(Byte) /\ absorbed \o block \in Seq(Byte)
      /\ length' = 8 * Len(hashed \o block) /\ Len(hashed \o block) % BlockSize = 0
  BY <1>1, <1>2, <1>3, MoreBlocks, ConcatBytes DEF ShaTypeOK
<1>5. ShaTypeOK'
  <2>1. length' \in Nat
    BY <1>1, <1>2, Sizes DEF ShaTypeOK
  <2> QED
    BY <1>1, <1>2, <1>3, <1>4, <2>1 DEF ShaTypeOK
<1>6. hashed = absorbed
  BY <1>1, EmptyBuffer DEF NothingLost, ShaTypeOK
<1>7. NothingLost'
  <2>1. hashed' \o SubSeq(buf', 1, curlen') = hashed'
    BY <1>1, <1>5, <1>2, EmptyBuffer DEF ShaTypeOK
  <2> QED
    BY <1>2, <1>4, <1>6, <2>1 DEF NothingLost
<1> QED
  BY <1>1, <1>2, <1>5, <1>7 DEF ShaInv, DigestOfMessage

LEMMA UpdatePartOK == ShaInv /\ UpdatePart => ShaInv'
<1> SUFFICES ASSUME ShaInv, UpdatePart PROVE ShaInv'
  OBVIOUS
<1> DEFINE n == Smaller(Len(input), BlockSize - curlen)
           chunk == SubSeq(input, 1, n)
           rest  == SubSeq(input, n + 1, Len(input))
           old   == SubSeq(buf, 1, curlen)
<1>1. ShaTypeOK /\ NothingLost /\ digesting = "update" /\ digesting' = "update"
  BY DEF ShaInv, UpdatePart
<1>2. /\ buf' = Overlay(curlen, chunk)
      /\ absorbed' = absorbed \o chunk /\ input' = rest
      /\ IF curlen + n = BlockSize
         THEN hashed' = hashed \o buf' /\ curlen' = 0 /\ length' = length + BlockSize * 8
         ELSE curlen' = curlen + n /\ UNCHANGED <<length, hashed>>
  BY DEF UpdatePart, Compress, Take
<1>3. /\ input \in Seq(Byte) /\ curlen \in 0..BlockSize-1 /\ length \in Nat
      /\ buf \in [1..BlockSize -> Byte]
      /\ hashed \in Seq(Byte) /\ absorbed \in Seq(Byte)
  BY <1>1 DEF ShaTypeOK
<1>4. n \in 0..Len(input) /\ curlen + n <= BlockSize
  <2>1. Len(input) \in Nat
    BY <1>3
  <2> QED
    BY <2>1, <1>3, Sizes DEF Smaller
<1> HIDE DEF n
<1>5. chunk \in Seq(Byte) /\ Len(chunk) = n /\ rest \in Seq(Byte)
  BY <1>3, <1>4, TakeParts
<1>6. old \in Seq(Byte) /\ Len(old) = curlen
  <2>1. curlen \in 0..BlockSize
    BY <1>3, Sizes
  <2> QED
    BY <1>3, <2>1, BufferSeq
<1> HIDE DEF chunk, rest, old
<1>7. /\ buf' \in [1..BlockSize -> Byte]
      /\ SubSeq(buf', 1, curlen + n) = old \o chunk
  <2>1. curlen \in 0..BlockSize /\ curlen + Len(chunk) <= BlockSize
    BY <1>3, <1>4, <1>5, Sizes
  <2>2. /\ Overlay(curlen, chunk) \in [1..BlockSize -> Byte]
        /\ SubSeq(Overlay(curlen, chunk), 1, curlen + Len(chunk)) = old \o chunk
    BY <1>3, <1>5, <2>1, OverlayAppends DEF old
  <2> QED
    BY <1>2, <1>5, <2>2
<1>8. absorbed \o chunk \in Seq(Byte)
      /\ absorbed \o chunk = hashed \o (old \o chunk)
  <2>1. hashed \o old = absorbed
    BY <1>1 DEF NothingLost, old
  <2>2. (hashed \o old) \o chunk = hashed \o (old \o chunk)
    BY <1>3, <1>5, <1>6, ConcatThree
  <2>3. absorbed \o chunk \in Seq(Byte)
    BY <1>3, <1>5, ConcatBytes
  <2> QED
    BY <2>1, <2>2, <2>3
<1>9. CASE curlen + n = BlockSize
  <2>1. /\ hashed' = hashed \o buf' /\ curlen' = 0
        /\ length' = length + BlockSize * 8
    BY <1>2, <1>9
  <2>2. buf' \in Seq(Byte) /\ Len(buf') = BlockSize /\ SubSeq(buf', 1, BlockSize) = buf'
    <3>1. buf' \in Seq(Byte) /\ Len(buf') = BlockSize
      BY <1>7, Sizes
    <3> QED
      BY <3>1, SubSeqFull
  <2>3. buf' = old \o chunk
    BY <1>7, <1>9, <2>2
  <2>4. /\ hashed \o buf' \in Seq(Byte)
        /\ length' = 8 * Len(hashed \o buf') /\ Len(hashed \o buf') % BlockSize = 0
    BY <1>1, <2>1, <2>2, MoreBlocks
  <2>5. ShaTypeOK'
    <3>1. length' \in Nat /\ curlen' \in 0..BlockSize-1
      BY <2>1, <1>3, Sizes
    <3> QED
      BY <1>1, <1>2, <1>5, <1>7, <1>8, <2>1, <2>4, <3>1 DEF ShaTypeOK
  <2>6. hashed' \o SubSeq(buf', 1, curlen') = hashed'
    BY <2>1, <2>5, EmptyBuffer DEF ShaTypeOK
  <2>7. NothingLost'
    BY <1>2, <1>8, <2>1, <2>3, <2>4, <2>6 DEF NothingLost
  <2> QED
    BY <1>1, <2>5, <2>7 DEF ShaInv, DigestOfMessage
<1>10. CASE curlen + n # BlockSize
  <2>1. curlen' = curlen + n /\ length' = length /\ hashed' = hashed
    BY <1>2, <1>10
  <2>2. curlen' \in 0..BlockSize-1
    BY <2>1, <1>3, <1>4, <1>10, Sizes
  <2>3. ShaTypeOK'
    BY <1>1, <1>2, <1>3, <1>5, <1>7, <1>8, <2>1, <2>2 DEF ShaTypeOK
  <2>4. NothingLost'
    BY <1>1, <1>2, <1>7, <1>8, <2>1 DEF NothingLost
  <2> QED
    BY <1>1, <2>3, <2>4 DEF ShaInv, DigestOfMessage
<1> QED
  BY <1>9, <1>10

(* What is compressed in the end is the padding of what was absorbed. *)
LEMMA FinalPads ==
  ASSUME ShaTypeOK, NothingLost, digesting = "update"
  PROVE  hashed \o FinalBlocks = Padded(absorbed)
<1> DEFINE p    == SubSeq(buf, 1, curlen)
           mark == <<128>>
           m    == Marked
           zs   == Zeros(FinalZeros)
           zw   == Zeros(WordSize)
           lengthBytes == Store64(length + curlen * 8)
<1>1. /\ hashed \in Seq(Byte) /\ absorbed \in Seq(Byte)
      /\ curlen \in 0..BlockSize-1 /\ length \in Nat
      /\ absorbed = hashed \o p
      /\ length = 8 * Len(hashed) /\ (Len(hashed) % BlockSize) = 0
  BY DEF ShaTypeOK, NothingLost
<1>2. p \in Seq(Byte) /\ Len(p) = curlen
  <2>1. buf \in [1..BlockSize -> Byte] /\ curlen \in 0..BlockSize
    BY <1>1, Sizes DEF ShaTypeOK
  <2> QED
    BY <2>1, BufferSeq
<1>3. mark \in Seq(Byte) /\ m = p \o mark /\ m \in Seq(Byte)
  <2>1. mark \in Seq(Byte)
    BY DEF Byte
  <2>2. m = p \o mark /\ m \in Seq(Byte)
    BY MarkedType, Zenon
  <2> QED
    BY <2>1, <2>2
<1>4. zs \in Seq(Byte) /\ zw \in Seq(Byte) /\ lengthBytes \in Seq(Byte)
  <2>1. FinalZeros \in Nat /\ WordSize \in Nat /\ length + curlen * 8 \in Nat
    BY <1>1, FinalZerosType, Sizes
  <2> QED
    BY <2>1, ZerosType, Store64Type
<1>5. FinalBlocks = m \o zs \o zw \o lengthBytes
  BY FinalBlocksForm
<1>6. Padded(absorbed) = Append(absorbed, 128) \o zs \o zw \o lengthBytes
  <2>1. Len(absorbed) = Len(hashed) + curlen /\ Len(hashed) \in Nat
    BY <1>1, <1>2, ConcatBytes
  <2>2. 8 * Len(absorbed) = length + curlen * 8
    BY <1>1, <2>1
  <2>3. (Len(absorbed) + 1 + FinalZeros + 2 * WordSize) % BlockSize = 0
    <3> DEFINE n == Len(hashed)
    <3>1. PICK k \in {1, 2} :
            curlen + 1 + FinalZeros + 2 * WordSize = BlockSize * k
      BY FinalZerosType, Sizes
    <3>2. /\ n \in Int /\ (n % BlockSize) = 0 /\ k \in Int
          /\ Len(absorbed) + 1 + FinalZeros + 2 * WordSize = n + BlockSize * k
      <4>1. n \in Int /\ (n % BlockSize) = 0 /\ k \in Int
        BY <1>1, <2>1, <3>1
      <4>2. Len(absorbed) + 1 + FinalZeros + 2 * WordSize
              = n + (curlen + 1 + FinalZeros + 2 * WordSize)
        BY <1>1, <2>1, FinalZerosType, Sizes
      <4> QED
        BY <3>1, <4>1, <4>2
    <3> HIDE DEF n
    <3>3. (n + BlockSize * k) % BlockSize = n % BlockSize
      BY <3>2, Sizes, ModShift
    <3> QED
      BY <3>2, <3>3
  <2>4. FinalZeros \in 0..BlockSize - 1
    BY FinalZerosType
  <2>5. Padded(absorbed) = Append(absorbed, 128) \o Zeros(FinalZeros)
                             \o Zeros(WordSize) \o Store64(8 * Len(absorbed))
    BY <1>1, <2>3, <2>4, PaddedForm, Zenon
  <2> QED
    BY <2>2, <2>5, Zenon
<1>7. Append(absorbed, 128) = absorbed \o mark
  <2>1. 128 \in Byte
    BY DEF Byte
  <2> QED
    BY <1>1, <2>1, AppendIsConcat, Zenon
<1> HIDE DEF p, mark, m, zs, zw, lengthBytes
<1>8. absorbed \o mark = hashed \o m
  BY <1>1, <1>2, <1>3, ConcatThree
<1>9. (hashed \o m) \o zs \o zw \o lengthBytes = hashed \o (m \o zs \o zw \o lengthBytes)
  <2>1. hashed \in Seq(Byte) /\ m \in Seq(Byte)
    BY <1>1, <1>3
  <2> QED
    BY <2>1, <1>4, SMTT(60)
<1> QED
  BY <1>5, <1>6, <1>7, <1>8, <1>9

LEMMA FinalOK == ShaInv /\ Final => ShaInv'
<1> SUFFICES ASSUME ShaInv, Final PROVE ShaInv'
  OBVIOUS
<1> DEFINE last == SubSeq(FinalBlocks, Len(FinalBlocks) - BlockSize + 1, Len(FinalBlocks))
<1>1. ShaTypeOK /\ NothingLost /\ digesting = "update"
  BY DEF ShaInv, Final
<1>2. /\ hashed' = hashed \o FinalBlocks /\ digesting' = "final"
      /\ length' = length + curlen * 8 /\ buf' = last
      /\ curlen' = BlockSize - WordSize
      /\ absorbed' = absorbed /\ input' = input
  BY DEF Final, Compress
<1>3. /\ hashed \in Seq(Byte) /\ FinalBlocks \in Seq(Byte)
      /\ Len(FinalBlocks) \in {BlockSize, 2 * BlockSize}
      /\ curlen \in 0..BlockSize-1 /\ length \in Nat
  BY <1>1, FinalBlocksForm DEF ShaTypeOK
<1>4. last \in [1..BlockSize -> Byte]
  <2> DEFINE s == FinalBlocks
             n == Len(s)
  <2>1. s \in Seq(Byte) /\ n = Len(s) /\ n \in Nat /\ n - BlockSize + 1 \in 1..n+1
    BY <1>3, Sizes
  <2> HIDE DEF s
  <2>2. SubSeq(s, n - BlockSize + 1, n) \in Seq(Byte)
        /\ Len(SubSeq(s, n - BlockSize + 1, n)) = BlockSize
    BY <2>1, Sizes
  <2>3. ASSUME NEW t \in Seq(Byte), Len(t) = BlockSize
        PROVE  t \in [1..BlockSize -> Byte]
    BY <2>3, LenProperties
  <2> QED
    BY <2>2, <2>3 DEF s
<1> HIDE DEF last
<1>5. hashed' \in Seq(Byte)
  BY <1>2, <1>3, ConcatBytes
<1>6. curlen' \in 0..BlockSize-1 /\ length' \in Nat
  BY <1>2, <1>3, Sizes
<1>7. ShaTypeOK'
  BY <1>1, <1>2, <1>4, <1>5, <1>6 DEF ShaTypeOK
<1>8. DigestOfMessage'
  BY <1>1, <1>2, FinalPads DEF DigestOfMessage, Padded, Zeros, Store64
<1> QED
  BY <1>2, <1>7, <1>8 DEF ShaInv, NothingLost

LEMMA NextDigestOK == ShaInv /\ NextDigest => ShaInv'
<1> SUFFICES ASSUME ShaInv, NextDigest PROVE ShaInv'
  OBVIOUS
<1>1. /\ buf' = [k \in 1..BlockSize |-> 0] /\ curlen' = 0 /\ length' = 0
      /\ input' = input /\ digesting' = "update" /\ absorbed' = <<>> /\ hashed' = <<>>
  BY DEF NextDigest
<1>2. ShaTypeOK'
  <2>1. [k \in 1..BlockSize |-> 0] \in [1..BlockSize -> Byte]
    BY DEF Byte
  <2>2. <<>> \in Seq(Byte) /\ 0 \in Nat /\ 0 \in 0..BlockSize-1
    BY Sizes
  <2> QED
    BY <1>1, <2>1, <2>2 DEF ShaInv, ShaTypeOK
<1>3. NothingLost'
  <2>1. hashed' \o SubSeq(buf', 1, 0) = hashed'
    BY <1>2, EmptyBuffer DEF ShaTypeOK
  <2>2. 8 * Len(<<>>) = 0 /\ Len(<<>>) % BlockSize = 0
    BY Sizes
  <2> QED
    BY <1>1, <2>1, <2>2 DEF NothingLost
<1> QED
  BY <1>1, <1>2, <1>3 DEF ShaInv, DigestOfMessage

LEMMA ShaInvariant == ShaSpec => []ShaInv
<1>1. ShaInv /\ [ShaNext]_shaVars => ShaInv'
  <2> SUFFICES ASSUME ShaInv, [ShaNext]_shaVars PROVE ShaInv'
    OBVIOUS
  <2>1. CASE Update
    BY <2>1, UpdateOK
  <2>2. CASE UpdateBlock
    BY <2>2, UpdateBlockOK
  <2>3. CASE UpdatePart
    BY <2>3, UpdatePartOK
  <2>4. CASE Final
    BY <2>4, FinalOK
  <2>5. CASE NextDigest
    BY <2>5, NextDigestOK
  <2>6. CASE UNCHANGED shaVars
    BY <2>6 DEF shaVars, ShaInv, ShaTypeOK, NothingLost, DigestOfMessage
  <2> QED
    BY <2>1, <2>2, <2>3, <2>4, <2>5, <2>6 DEF ShaNext
<1> QED
  BY ShaInitOK, <1>1, PTL DEF ShaSpec

(* The buffer never overflows and stays below a block between calls. *)
THEOREM ShaTypeCorrect == ShaSpec => []ShaTypeOK
<1>1. ShaInv => ShaTypeOK
  BY DEF ShaInv
<1> QED
  BY <1>1, ShaInvariant, PTL

(* Whole blocks and the buffer are the message so far, however it was cut  *)
(* into calls of sha512_update.                                            *)
THEOREM NothingLostAlways == ShaSpec => []NothingLost
<1>1. ShaInv => NothingLost
  BY DEF ShaInv
<1> QED
  BY <1>1, ShaInvariant, PTL

(* sha512_final has compressed exactly the padded message, at every        *)
(* length, for every block size and word size.                             *)
THEOREM DigestOfMessageAlways == ShaSpec => []DigestOfMessage
<1>1. ShaInv => DigestOfMessage
  BY DEF ShaInv
<1> QED
  BY <1>1, ShaInvariant, PTL

-----------------------------------------------------------------------------
(***************************************************************************)
(* Proofs about Ed25519Keys, for every group order, every hash function    *)
(* and every set of seeds, messages and scalars: key pairs stay together   *)
(* and what is signed with them verifies.                                  *)
(*                                                                         *)
(* KeysAgree says nothing while one side is ahead of the other.  The       *)
(* invariant that covers those states is Balanced: private key plus what   *)
(* the public key has been given equals public key plus what the private   *)
(* key has been given, mod the order.                                      *)
(***************************************************************************)

Balanced ==
  source # "goal" =>
    (low + toPublic) % GroupOrder = (pub + toPrivate) % GroupOrder

KeysInv == KeysTypeOK /\ Balanced /\ SignaturesVerify

LEMMA ConstantTypes ==
  /\ GroupOrder \in Nat \ {0} /\ TopBit \in Nat /\ GroupOrder < TopBit
  /\ Half \in Nat \ {0} /\ GroupOrder < Half
  BY OrderAssumption DEF Half

(* Remainders are points, and points are encoded in 32 bytes. *)
LEMMA PointTypes ==
  /\ \A n \in Int : ScReduce(n) \in Point /\ TimesB(n) \in Point
  /\ \A m, n, p \in Int : ScMulAdd(m, n, p) \in Point
  /\ Point \subseteq Word
<1>1. \A n \in Int : n % GroupOrder \in Point
  BY ConstantTypes, ModSplits DEF Point
<1>2. \A m, n, p \in Int : m * n + p \in Int
  OBVIOUS
<1>3. \A m, n, p \in Int : (m * n + p) % GroupOrder \in Point
  BY <1>1, <1>2
<1>4. Point \subseteq Word
  BY ConstantTypes DEF Point, Word
<1> QED
  BY <1>1, <1>3, <1>4 DEF ScReduce, TimesB, ScMulAdd

LEMMA HashTypes ==
  ASSUME NEW x \in 0..Half*Half-1
  PROVE  /\ x \in Nat
         /\ FirstHalf(x) \in Word
         /\ SecondHalf(x) \in Word
         /\ Clamped(FirstHalf(x)) \in Word
<1>1. x \in Nat /\ x < Half * Half
  BY ConstantTypes
<1>2. FirstHalf(x) \in Word
  BY <1>1, ConstantTypes, ModSplits DEF FirstHalf, Word
<1>3. SecondHalf(x) \in Word
  <2> DEFINE q == x \div Half
             r == x % Half
  <2>1. r \in 0..Half-1 /\ q \in Int /\ x = Half * q + r
    BY <1>1, ConstantTypes, ModSplits
  <2> HIDE DEF q, r
  <2>2. q >= 0
    BY <2>1, <1>1, ConstantTypes
  <2>3. q < Half
    BY <2>1, <1>1, ConstantTypes
  <2> QED
    BY <2>1, <2>2, <2>3, ConstantTypes DEF SecondHalf, Word, q
<1>4. ASSUME NEW n \in Word
      PROVE  Clamped(n) \in Word
  <2> DEFINE m == n % TopBit
  <2>1. TopBit \in Nat \ {0} /\ n \in Int
    BY ConstantTypes DEF Word
  <2>2. m \in 0..TopBit-1
    BY <2>1, ModSplits
  <2> HIDE DEF m
  <2>3. (m \div 8) * 8 \in 0..m
    BY <2>2
  <2>4. (m \div 8) * 8 + TopBit \in 0..2*TopBit-1
    BY <2>1, <2>2, <2>3
  <2> QED
    BY <2>1, <2>4 DEF Clamped, Word, Half, m
<1> QED
  BY <1>1, <1>2, <1>3, <1>4

LEMMA MaskedType ==
  ASSUME NEW added \in Word
  PROVE  Masked(added) \in Nat
<1> DEFINE n == 2 * TopBit
<1>1. n \in Nat \ {0} /\ added \in Int
  BY ConstantTypes DEF Word
<1>2. Masked(added) = added % n
  BY DEF Masked
<1> HIDE DEF n
<1>3. added % n \in 0..n-1
  BY <1>1, ModSplits
<1> QED
  BY <1>1, <1>2, <1>3

LEMMA PointIsReduced ==
  ASSUME NEW n \in Point
  PROVE  n % GroupOrder = n
<1>1. (GroupOrder * 0 + n) % GroupOrder = n
  BY ConstantTypes, ModUnique DEF Point
<1>2. GroupOrder * 0 + n = n
  BY ConstantTypes DEF Point
<1> QED
  BY <1>1, <1>2

(* Adding the same to numbers that agree mod the order. *)
LEMMA ModAlike ==
  ASSUME NEW x \in Int, NEW y \in Int, NEW n \in Int,
         x % GroupOrder = y % GroupOrder
  PROVE  (x + n) % GroupOrder = (y + n) % GroupOrder
<1>1. ((x % GroupOrder) + n) % GroupOrder = (x + n) % GroupOrder
  BY ConstantTypes, ModSum
<1>2. ((y % GroupOrder) + n) % GroupOrder = (y + n) % GroupOrder
  BY ConstantTypes, ModSum
<1> QED
  BY <1>1, <1>2

(* The equation that a verifier checks. *)
LEMMA SignatureEquation ==
  ASSUME NEW k \in Int, NEW r \in Int, NEW c \in Int
  PROVE  (c * k + r) % GroupOrder
           = ((r % GroupOrder) + c * (k % GroupOrder)) % GroupOrder
<1>1. k % GroupOrder \in Int /\ r % GroupOrder \in Int
  BY ConstantTypes, ModSplits
<1>2. (c * (k % GroupOrder) + r) % GroupOrder = (c * k + r) % GroupOrder
  BY ConstantTypes, ModProduct
<1> DEFINE y == c * (k % GroupOrder)
<1>3. y \in Int
  BY <1>1
<1>4. c * (k % GroupOrder) + r = r + y
  BY <1>1
<1> HIDE DEF y
<1>5. ((r % GroupOrder) + y) % GroupOrder = (r + y) % GroupOrder
  BY <1>3, ConstantTypes, ModSum
<1> QED
  BY <1>2, <1>4, <1>5 DEF y

-----------------------------------------------------------------------------
LEMMA KeysInitOK == KeysInit => KeysInv
<1> SUFFICES ASSUME KeysInit PROVE KeysInv
  OBVIOUS
<1>1. toPrivate = 0 /\ toPublic = 0 /\ adds = 0 /\ sig = NoSignature
  BY DEF KeysInit
<1>2. /\ low \in Word /\ high \in Word /\ pub \in Point /\ source \in Sources
      /\ source # "goal" => pub = low % GroupOrder
  <2>1. ASSUME NEW s \in Seeds
        PROVE  LET x == Hash(<<s>>) IN
               /\ s \in Word
               /\ Clamped(FirstHalf(x)) \in Word /\ SecondHalf(x) \in Word
               /\ TimesB(Clamped(FirstHalf(x))) \in Point
    <3>1. s \in Word
      BY OrderAssumption
    <3>2. Hash(<<s>>) \in 0..Half*Half-1
      BY <3>1, HashAssumption
    <3>3. Clamped(FirstHalf(Hash(<<s>>))) \in Int
      BY <3>2, HashTypes, ConstantTypes DEF Word
    <3> QED
      BY <3>1, <3>2, <3>3, HashTypes, PointTypes
  <2>2. ASSUME NEW k \in DerivedScalars
        PROVE  k \in Word /\ TimesB(k) \in Point /\ TimesB(k) \in Word
    <3>1. k \in Word /\ k \in Int
      BY OrderAssumption, ConstantTypes DEF Word, Half
    <3>2. TimesB(k) \in Point
      BY <3>1, PointTypes
    <3> QED
      BY <3>1, <3>2, PointTypes
  <2> QED
    BY <2>1, <2>2, PointTypes DEF KeysInit, TimesB, Sources
<1>3. KeysTypeOK
  BY <1>1, <1>2, OrderAssumption DEF KeysTypeOK
<1>4. Balanced
  <2> SUFFICES ASSUME source # "goal"
               PROVE  (low + 0) % GroupOrder = (pub + 0) % GroupOrder
    BY <1>1 DEF Balanced
  <2>1. low + 0 = low /\ pub + 0 = pub
    BY <1>2, ConstantTypes DEF Word, Point
  <2>2. pub % GroupOrder = pub
    BY <1>2, PointIsReduced
  <2> QED
    BY <2>1, <2>2, <1>2
<1> QED
  BY <1>1, <1>3, <1>4 DEF KeysInv, SignaturesVerify

-----------------------------------------------------------------------------
(* What one addition to the private key does. *)
LEMMA AddToPrivateOK ==
  ASSUME KeysTypeOK, NEW added \in AddedScalars, AddToPrivate(added)
  PROVE  /\ low' \in Point /\ high' \in Word /\ toPrivate' \in Nat
         /\ \A t \in Nat : (low' + t) % GroupOrder
                             = (low + t + Masked(added)) % GroupOrder
<1> DEFINE n == Masked(added)
<1>1. added \in Word /\ n \in Nat
  BY OrderAssumption, MaskedType
<1>2. low \in Int /\ high \in Word /\ toPrivate \in Nat
  BY ConstantTypes DEF KeysTypeOK, Word
<1>3. low' = (1 * n + low) % GroupOrder /\ toPrivate' = toPrivate + n
  BY DEF AddToPrivate, ScMulAdd
<1>4. high' \in Word
  <2>1. Hash(<<high, added>>) \in 0..Half*Half-1
    BY <1>1, <1>2, HashAssumption
  <2> QED
    BY <2>1, HashTypes DEF AddToPrivate
<1> HIDE DEF n
<1>5. 1 * n + low = low + n /\ low + n \in Int
  BY <1>1, <1>2
<1>6. low' \in Point
  BY <1>3, <1>5, ConstantTypes, ModSplits DEF Point
<1>7. ASSUME NEW t \in Nat
      PROVE  (low' + t) % GroupOrder = (low + t + n) % GroupOrder
  <2>1. (((low + n) % GroupOrder) + t) % GroupOrder = ((low + n) + t) % GroupOrder
    BY <1>5, ConstantTypes, ModSum
  <2>2. (low + n) + t = low + t + n
    BY <1>1, <1>2
  <2> QED
    BY <2>1, <2>2, <1>3, <1>5
<1> QED
  BY <1>1, <1>2, <1>3, <1>4, <1>6, <1>7 DEF n

LEMMA AddPrivateOK ==
  ASSUME KeysInv, AddPrivate
  PROVE  KeysInv'
<1>1. PICK added \in AddedScalars : AddToPrivate(added)
  BY DEF AddPrivate
<1>2. KeysTypeOK /\ Balanced /\ SignaturesVerify
  BY DEF KeysInv
<1>3. Masked(added) \in Nat
  BY OrderAssumption, MaskedType
<1>4. /\ low' \in Point /\ high' \in Word /\ toPrivate' \in Nat
      /\ \A t \in Nat : (low' + t) % GroupOrder
                          = (low + t + Masked(added)) % GroupOrder
  BY <1>1, <1>2, AddToPrivateOK
<1>5. KeysTypeOK'
  BY <1>2, <1>4, PointTypes, OrderAssumption DEF KeysTypeOK, AddPrivate
<1>6. Balanced'
  <2>1. pub' = pub /\ toPublic' = toPublic /\ source' = source
        /\ source # "goal" /\ toPrivate' = toPrivate + Masked(added)
    BY <1>1 DEF AddPrivate, AddToPrivate
  <2>2. low \in Int /\ pub \in Int /\ toPublic \in Nat /\ toPrivate \in Nat
    BY <1>2, ConstantTypes DEF KeysTypeOK, Word, Point
  <2>3. (low + toPublic) % GroupOrder = (pub + toPrivate) % GroupOrder
    BY <1>2, <2>1 DEF Balanced
  <2>4. (low' + toPublic) % GroupOrder
          = (low + toPublic + Masked(added)) % GroupOrder
    BY <1>4, <2>2
  <2>5. (low + toPublic + Masked(added)) % GroupOrder
          = (pub + toPrivate + Masked(added)) % GroupOrder
    <3> DEFINE x == low + toPublic
               y == pub + toPrivate
               n == Masked(added)
    <3>1. x \in Int /\ y \in Int /\ n \in Int
      BY <2>2, <1>3
    <3>2. x % GroupOrder = y % GroupOrder
      BY <2>3
    <3> HIDE DEF x, y, n
    <3>3. (x + n) % GroupOrder = (y + n) % GroupOrder
      BY <3>1, <3>2, ModAlike
    <3> QED
      BY <3>3 DEF x, y, n
  <2>6. pub + toPrivate + Masked(added) = pub + (toPrivate + Masked(added))
    BY <2>2, <1>3
  <2> QED
    BY <2>1, <2>4, <2>5, <2>6 DEF Balanced
<1>7. SignaturesVerify'
  BY <1>2 DEF SignaturesVerify, AddPrivate, Verifies
<1> QED
  BY <1>5, <1>6, <1>7 DEF KeysInv

LEMMA AddPublicOK ==
  ASSUME KeysInv, AddPublic
  PROVE  KeysInv'
<1>1. PICK added \in AddedScalars :
        /\ pub' = ((Masked(added) % GroupOrder) + pub) % GroupOrder
        /\ toPublic' = toPublic + Masked(added)
  BY DEF AddPublic, TimesB
<1>2. KeysTypeOK /\ Balanced /\ SignaturesVerify
  BY DEF KeysInv
<1> DEFINE n == Masked(added)
<1>3. n \in Nat
  BY OrderAssumption, MaskedType
<1>4. low \in Int /\ pub \in Int /\ toPublic \in Nat /\ toPrivate \in Nat
  BY <1>2, ConstantTypes DEF KeysTypeOK, Word, Point
<1>5. pub' = ((n % GroupOrder) + pub) % GroupOrder /\ toPublic' = toPublic + n
  BY <1>1
<1> HIDE DEF n
<1>6. pub' = (n + pub) % GroupOrder
  <2>1. ((n % GroupOrder) + pub) % GroupOrder = (n + pub) % GroupOrder
    <3>1. n \in Int /\ pub \in Int
      BY <1>3, <1>4
    <3> QED
      BY <3>1, ConstantTypes, ModSum, Zenon
  <2> QED
    BY <2>1, <1>5
<1>7. pub' \in Point
  <2>1. n + pub \in Int
    BY <1>3, <1>4
  <2> QED
    BY <2>1, <1>6, ConstantTypes, ModSplits DEF Point
<1>8. KeysTypeOK'
  BY <1>2, <1>3, <1>4, <1>5, <1>7, OrderAssumption DEF KeysTypeOK, AddPublic
<1>9. Balanced'
  <2>1. low' = low /\ toPrivate' = toPrivate /\ source' = source /\ source # "goal"
    BY DEF AddPublic
  <2>2. (low + toPublic) % GroupOrder = (pub + toPrivate) % GroupOrder
    BY <1>2, <2>1 DEF Balanced
  <2>3. (low + toPublic + n) % GroupOrder = (pub + toPrivate + n) % GroupOrder
    <3> DEFINE x == low + toPublic
               y == pub + toPrivate
    <3>1. x \in Int /\ y \in Int /\ n \in Int
      BY <1>3, <1>4
    <3>2. x % GroupOrder = y % GroupOrder
      BY <2>2
    <3> HIDE DEF x, y
    <3>3. (x + n) % GroupOrder = (y + n) % GroupOrder
      BY <3>1, <3>2, ModAlike
    <3> QED
      BY <3>3 DEF x, y
  <2>4. (((n + pub) % GroupOrder) + toPrivate) % GroupOrder
          = ((n + pub) + toPrivate) % GroupOrder
    <3>1. n + pub \in Int /\ toPrivate \in Int
      BY <1>3, <1>4
    <3> QED
      BY <3>1, ConstantTypes, ModSum, Zenon
  <2>5. (n + pub) + toPrivate = pub + toPrivate + n
        /\ low + toPublic + n = low + (toPublic + n)
    BY <1>3, <1>4
  <2> QED
    BY <2>1, <2>3, <2>4, <2>5, <1>5, <1>6 DEF Balanced
<1>10. SignaturesVerify'
  BY <1>2 DEF SignaturesVerify, AddPublic, Verifies
<1> QED
  BY <1>8, <1>9, <1>10 DEF KeysInv

LEMMA AddBothOK ==
  ASSUME KeysInv, AddBoth
  PROVE  KeysInv'
<1>1. PICK added \in AddedScalars : AddToPrivate(added)
  BY DEF AddBoth
<1>2. KeysTypeOK /\ SignaturesVerify
  BY DEF KeysInv
<1>3. low' \in Point /\ high' \in Word /\ toPrivate' \in Nat
  BY <1>1, <1>2, AddToPrivateOK
<1>4. pub' = low' % GroupOrder /\ toPublic' = toPrivate' /\ source' = source
  BY DEF AddBoth, TimesB
<1>5. pub' = low'
  BY <1>3, <1>4, PointIsReduced
<1>6. KeysTypeOK'
  <2>1. /\ adds' = adds + 1 /\ adds < MaxAdds
        /\ source' = source /\ sig' = sig
    BY DEF AddBoth
  <2>2. low' \in Word /\ pub' \in Point /\ toPublic' \in Nat
    BY <1>3, <1>4, <1>5, PointTypes
  <2>3. adds' \in 0..MaxAdds
    BY <1>2, <2>1, OrderAssumption DEF KeysTypeOK
  <2> QED
    BY <1>2, <1>3, <2>1, <2>2, <2>3 DEF KeysTypeOK
<1>7. Balanced'
  BY <1>4, <1>5 DEF Balanced
<1>8. SignaturesVerify'
  BY <1>2 DEF SignaturesVerify, AddBoth, Verifies
<1> QED
  BY <1>6, <1>7, <1>8 DEF KeysInv

(* Balanced says of keys that have been given the same that they match. *)
LEMMA BalancedMatches ==
  ASSUME KeysTypeOK, Balanced, source # "goal", toPrivate = toPublic
  PROVE  pub = low % GroupOrder
<1>1. low \in Int /\ pub \in Int /\ toPublic \in Int /\ pub \in Point
  BY ConstantTypes DEF KeysTypeOK, Word, Point
<1>2. (low + toPublic) % GroupOrder = (pub + toPublic) % GroupOrder
  BY DEF Balanced
<1>3. low % GroupOrder = pub % GroupOrder
  BY <1>1, <1>2, ConstantTypes, ModCancel
<1> QED
  BY <1>1, <1>3, PointIsReduced

LEMMA SignOK ==
  ASSUME KeysInv, Sign
  PROVE  KeysInv'
<1>1. KeysTypeOK /\ Balanced /\ SignaturesVerify
  BY DEF KeysInv
<1>2. PICK m \in Messages :
        LET r == ScReduce(Hash(<<high, m>>))
            R == TimesB(r)
            c == ScReduce(Hash(<<R, pub, m>>))
        IN sig' = [R |-> R, S |-> ScMulAdd(c, low, r), pub |-> pub, message |-> m,
                   from |-> source, matching |-> toPrivate = toPublic]
  BY DEF Sign
<1>3. UNCHANGED <<low, high, pub, source, toPrivate, toPublic, adds>>
  BY DEF Sign
<1> DEFINE r == ScReduce(Hash(<<high, m>>))
           R == TimesB(r)
           c == ScReduce(Hash(<<R, pub, m>>))
           match == (toPrivate = toPublic)
<1>4. r \in Point /\ R \in Point /\ c \in Point
  <2>1. high \in Word /\ m \in Word /\ pub \in Word
    <3>1. m \in Messages /\ Messages \subseteq Word
      BY <1>2, OrderAssumption
    <3> QED
      BY <1>1, <3>1, PointTypes DEF KeysTypeOK
  <2>2. r \in Point
    <3>1. Hash(<<high, m>>) \in 0..Half*Half-1
      BY <2>1, HashAssumption
    <3>2. Hash(<<high, m>>) \in Int
      BY <3>1, HashTypes
    <3> QED
      BY <3>2, PointTypes
  <2>3. R \in Point
    <3>1. r \in Int
      BY <2>2 DEF Point
    <3> HIDE DEF r
    <3> QED
      BY <3>1, PointTypes
  <2>4. R \in Word
    BY <2>3, PointTypes
  <2>5. c \in Point
    <3>1. Hash(<<R, pub, m>>) \in 0..Half*Half-1
      BY <2>1, <2>4, HashAssumption
    <3>2. Hash(<<R, pub, m>>) \in Int
      BY <3>1, HashTypes
    <3> QED
      BY <3>2, PointTypes
  <2> QED
    BY <2>2, <2>3, <2>5
<1>5. sig' = [R |-> R, S |-> ScMulAdd(c, low, r), pub |-> pub, message |-> m,
              from |-> source, matching |-> match]
  BY <1>2
<1>6. c = ScReduce(Hash(<<R, pub, m>>)) /\ R = r % GroupOrder
      /\ match = (toPrivate = toPublic) /\ match \in BOOLEAN
  BY DEF TimesB
<1> HIDE DEF r, R, c, match
<1>7. low \in Int /\ pub \in Point /\ r \in Int /\ c \in Int
  BY <1>1, <1>4, ConstantTypes DEF KeysTypeOK, Word, Point
<1>8. ScMulAdd(c, low, r) \in Point
  BY <1>7, PointTypes
<1>9. sig' \in Signature
  BY <1>1, <1>4, <1>5, <1>6, <1>8 DEF Signature, KeysTypeOK
<1>10. KeysTypeOK'
  BY <1>1, <1>3, <1>9 DEF KeysTypeOK
<1>11. Balanced'
  BY <1>1, <1>3 DEF Balanced
<1>12. SignaturesVerify'
  <2> SUFFICES ASSUME sig'.from # "goal", sig'.matching
               PROVE  Verifies(sig)'
    BY DEF SignaturesVerify
  <2>1. source # "goal" /\ toPrivate = toPublic
    BY <1>5, <1>6
  <2>2. pub = low % GroupOrder
    BY <2>1, <1>1, BalancedMatches
  <2>3. (c * low + r) % GroupOrder
          = ((r % GroupOrder) + c * (low % GroupOrder)) % GroupOrder
    BY <1>7, SignatureEquation
  <2>4. sig'.S \in Point /\ sig'.S = (c * low + r) % GroupOrder
    BY <1>5, <1>8 DEF ScMulAdd
  <2>5. TimesB(sig'.S) = sig'.S
    BY <2>4, PointIsReduced DEF TimesB
  <2>6. sig'.R = R /\ sig'.pub = pub /\ sig'.message = m
    BY <1>5
  <2>7. sig'.S < GroupOrder
    BY <2>4, ConstantTypes DEF Point
  <2> QED
    BY <2>2, <2>3, <2>4, <2>5, <2>6, <2>7, <1>6 DEF Verifies
<1> QED
  BY <1>10, <1>11, <1>12 DEF KeysInv

-----------------------------------------------------------------------------
LEMMA KeysInvariant == KeysSpec => []KeysInv
<1>1. KeysInv /\ [KeysNext]_keysVars => KeysInv'
  <2> SUFFICES ASSUME KeysInv, [KeysNext]_keysVars PROVE KeysInv'
    OBVIOUS
  <2>1. CASE KeysNext
    BY <2>1, AddPrivateOK, AddPublicOK, AddBothOK, SignOK DEF KeysNext
  <2>2. CASE UNCHANGED keysVars
    BY <2>2 DEF keysVars, KeysInv, KeysTypeOK, Balanced, SignaturesVerify, Verifies
  <2> QED
    BY <2>1, <2>2
<1> QED
  BY KeysInitOK, <1>1, PTL DEF KeysSpec

(* Keys, points and signatures stay in range. *)
THEOREM KeysTypeCorrect == KeysSpec => []KeysTypeOK
<1>1. KeysInv => KeysTypeOK
  BY DEF KeysInv
<1> QED
  BY <1>1, KeysInvariant, PTL

(* Whoever adds the same scalars to the public key alone, in any order,    *)
(* has the public key of the private one.                                  *)
THEOREM KeysAgreeAlways == KeysSpec => []KeysAgree
<1>1. KeysInv => KeysAgree
  BY BalancedMatches DEF KeysInv, KeysAgree, TimesB
<1> QED
  BY <1>1, KeysInvariant, PTL

(* Every signature made with matching keys verifies, for keys of           *)
(* ed25519_create_keypair and for the secrets of the script.               *)
THEOREM SignaturesVerifyAlways == KeysSpec => []SignaturesVerify
<1>1. KeysInv => SignaturesVerify
  BY DEF KeysInv
<1> QED
  BY <1>1, KeysInvariant, PTL

-----------------------------------------------------------------------------
(***************************************************************************)
(* Proofs about FieldChains: the two chains line by line.  The invariant   *)
(* says which exponents the registers that are read again hold.            *)
(***************************************************************************)

RegistersOK ==
  /\ chain \in {"invert", "pow22523"} /\ line \in 0..11
  /\ reg \in [Regs -> SUBSET Int] /\ reg["z"] = {0}

(* Squaring moves a run of exponents; a run joins the one below it.        *)
IsRun(s, m, n) == s = m..n

LEMMA SquaredRun ==
  ASSUME NEW s, NEW b \in Nat, IsRun(s, 0, b), NEW n \in Nat
  PROVE  IsRun(Squared(s, n), n, b + n)
<1>1. ASSUME NEW k \in n..(b + n) PROVE k \in Squared(0..b, n)
  <2>1. k - n \in 0..b /\ k = (k - n) + n
    OBVIOUS
  <2> QED
    BY <2>1 DEF Squared
<1>2. ASSUME NEW k \in Squared(0..b, n) PROVE k \in n..(b + n)
  BY DEF Squared
<1> QED
  BY <1>1, <1>2 DEF IsRun

LEMMA JoinedRuns ==
  ASSUME NEW s, NEW a \in Nat, IsRun(s, 0, a),
         NEW t, NEW n \in Nat, NEW b \in Nat, IsRun(t, n, b), n = a + 1, a < b
  PROVE  IsRun(Product(s, t), 0, b)
<1>1. (0..a) \cap (n..b) = {} /\ (0..a) \cup (n..b) = 0..b
  OBVIOUS
<1> QED
  BY <1>1 DEF Product, IsRun

LEMMA SquaredFew ==
  /\ Squared({1}, 2) = {3} /\ Squared({1}, 0) = {1}
  /\ Squared({0, 1, 3}, 1) = {1, 2, 4}
  BY DEF Squared

LEMMA JoinedFew ==
  /\ Product({0}, {3}) = {0, 3} /\ Product({0, 3}, {1}) = {0, 1, 3}
  /\ IsRun(Product({0, 3}, {1, 2, 4}), 0, 4)
<1>1. Product({0}, {3}) = {0, 3}
  BY DEF Product
<1>2. Product({0, 3}, {1}) = {0, 1, 3}
  BY DEF Product
<1>3. {0, 3} \cap {1, 2, 4} = {} /\ {0, 3} \cup {1, 2, 4} = 0..4
  OBVIOUS
<1> QED
  BY <1>1, <1>2, <1>3 DEF Product, IsRun

LEMMA JoinedLast ==
  /\ \A s : IsRun(s, 5, 254) => Product({0, 1, 3}, s) = {0, 1, 3} \cup (5..254)
  /\ \A s : IsRun(s, 2, 251) => Product({0}, s) = {0} \cup (2..251)
<1>1. {0, 1, 3} \cap (5..254) = {}
  OBVIOUS
<1>2. {0} \cap (2..251) = {}
  OBVIOUS
<1> QED
  BY <1>1, <1>2 DEF Product, IsRun

(* One line of a chain. *)
LEMMA LineStep ==
  ASSUME ChainNext,
         NEW target, NEW factor, NEW via, NEW from, NEW n,
         Chain[line + 1] = Mul(target, factor, via, from, n)
  PROVE  reg' = [reg EXCEPT ![via] = Squared(reg[from], n),
                            ![target] = Product(reg[factor], Squared(reg[from], n))]
<1> DEFINE m == Chain[line + 1]
<1>1. /\ m.target = target /\ m.factor = factor /\ m.via = via
      /\ m.source = from /\ m.n = n
  BY DEF Mul
<1>2. reg' = [reg EXCEPT ![m.via] = Squared(reg[m.source], m.n),
                         ![m.target] = Product(reg[m.factor], Squared(reg[m.source], m.n))]
  BY DEF ChainNext
<1> HIDE DEF m
<1> QED
  BY <1>1, <1>2

InvertReached ==
  /\ line = 0 => reg["t0"] = {1}
  /\ line = 1 => reg["t0"] = {1} /\ reg["t1"] = {0, 3}
  /\ line = 2 => reg["t0"] = {0, 1, 3} /\ reg["t1"] = {0, 3}
  /\ line = 3 => reg["t0"] = {0, 1, 3} /\ IsRun(reg["t1"], 0, 4)
  /\ line = 4 => reg["t0"] = {0, 1, 3} /\ IsRun(reg["t1"], 0, 9)
  /\ line = 5 => reg["t0"] = {0, 1, 3} /\ IsRun(reg["t1"], 0, 9) /\ IsRun(reg["t2"], 0, 19)
  /\ line = 6 => reg["t0"] = {0, 1, 3} /\ IsRun(reg["t1"], 0, 9) /\ IsRun(reg["t2"], 0, 39)
  /\ line = 7 => reg["t0"] = {0, 1, 3} /\ IsRun(reg["t1"], 0, 49)
  /\ line = 8 => reg["t0"] = {0, 1, 3} /\ IsRun(reg["t1"], 0, 49) /\ IsRun(reg["t2"], 0, 99)
  /\ line = 9 => reg["t0"] = {0, 1, 3} /\ IsRun(reg["t1"], 0, 49) /\ IsRun(reg["t2"], 0, 199)
  /\ line = 10 => reg["t0"] = {0, 1, 3} /\ IsRun(reg["t1"], 0, 249)
  /\ line = 11 => reg["out"] = {0, 1, 3} \cup (5..254)

LEMMA InvertStep ==
  ASSUME chain = "invert", RegistersOK, InvertReached, ChainNext
  PROVE  InvertReached'
<1>1. Chain = InvertChain /\ Len(InvertChain) = 11
  BY DEF Chain, InvertChain
<1>2. line \in 0..10 /\ line' = line + 1
  BY <1>1 DEF ChainNext, RegistersOK
<1>3. CASE line = 0
  <2>1. Chain[line + 1] = Mul("t1", "z", "t1", "t0", 2)
    BY <1>1, <1>3 DEF InvertChain
  <2>2. reg["t0"] = {1}
    BY <1>3 DEF InvertReached
  <2>3. Squared(reg["t0"], 2) = {3}
    BY <2>2, SquaredFew
  <2>4. Product(reg["z"], Squared(reg["t0"], 2)) = {0, 3}
    BY <2>2, <2>3, JoinedFew DEF RegistersOK
  <2>5. reg' = [reg EXCEPT !["t1"] = Squared(reg["t0"], 2),
                          !["t1"] = Product(reg["z"], Squared(reg["t0"], 2))]
    BY <2>1, LineStep
  <2>6. reg'["t0"] = {1} /\ reg'["t1"] = {0, 3}
    BY <2>2, <2>3, <2>4, <2>5 DEF RegistersOK, Regs
  <2> QED
    BY <1>2, <1>3, <2>6 DEF InvertReached
<1>4. CASE line = 1
  <2>1. Chain[line + 1] = Mul("t0", "t1", "t0", "t0", 0)
    BY <1>1, <1>4 DEF InvertChain
  <2>2. reg["t0"] = {1} /\ reg["t1"] = {0, 3}
    BY <1>4 DEF InvertReached
  <2>3. Squared(reg["t0"], 0) = {1}
    BY <2>2, SquaredFew
  <2>4. Product(reg["t1"], Squared(reg["t0"], 0)) = {0, 1, 3}
    BY <2>2, <2>3, JoinedFew DEF RegistersOK
  <2>5. reg' = [reg EXCEPT !["t0"] = Squared(reg["t0"], 0),
                          !["t0"] = Product(reg["t1"], Squared(reg["t0"], 0))]
    BY <2>1, LineStep
  <2>6. reg'["t0"] = {0, 1, 3} /\ reg'["t1"] = {0, 3}
    BY <2>2, <2>3, <2>4, <2>5 DEF RegistersOK, Regs
  <2> QED
    BY <1>2, <1>4, <2>6 DEF InvertReached
<1>5. CASE line = 2
  <2>1. Chain[line + 1] = Mul("t1", "t1", "t2", "t0", 1)
    BY <1>1, <1>5 DEF InvertChain
  <2>2. reg["t0"] = {0, 1, 3} /\ reg["t1"] = {0, 3}
    BY <1>5 DEF InvertReached
  <2>3. Squared(reg["t0"], 1) = {1, 2, 4}
    BY <2>2, SquaredFew
  <2>4. IsRun(Product(reg["t1"], Squared(reg["t0"], 1)), 0, 4)
    BY <2>2, <2>3, JoinedFew DEF RegistersOK
  <2>5. reg' = [reg EXCEPT !["t2"] = Squared(reg["t0"], 1),
                          !["t1"] = Product(reg["t1"], Squared(reg["t0"], 1))]
    BY <2>1, LineStep
  <2>6. reg'["t0"] = {0, 1, 3} /\ IsRun(reg'["t1"], 0, 4)
    BY <2>2, <2>3, <2>4, <2>5 DEF RegistersOK, Regs
  <2> QED
    BY <1>2, <1>5, <2>6 DEF InvertReached
<1>6. CASE line = 3
  <2>1. Chain[line + 1] = Mul("t1", "t1", "t2", "t1", 5)
    BY <1>1, <1>6 DEF InvertChain
  <2>2. reg["t0"] = {0, 1, 3} /\ IsRun(reg["t1"], 0, 4)
    BY <1>6 DEF InvertReached
  <2>3. IsRun(Squared(reg["t1"], 5), 5, 9)
    BY <2>2, SquaredRun
  <2>4. IsRun(Product(reg["t1"], Squared(reg["t1"], 5)), 0, 9)
    BY <2>2, <2>3, JoinedRuns
  <2>5. reg' = [reg EXCEPT !["t2"] = Squared(reg["t1"], 5),
                          !["t1"] = Product(reg["t1"], Squared(reg["t1"], 5))]
    BY <2>1, LineStep
  <2>6. reg'["t0"] = {0, 1, 3} /\ IsRun(reg'["t1"], 0, 9)
    BY <2>2, <2>3, <2>4, <2>5 DEF RegistersOK, Regs
  <2> QED
    BY <1>2, <1>6, <2>6 DEF InvertReached
<1>7. CASE line = 4
  <2>1. Chain[line + 1] = Mul("t2", "t1", "t2", "t1", 10)
    BY <1>1, <1>7 DEF InvertChain
  <2>2. reg["t0"] = {0, 1, 3} /\ IsRun(reg["t1"], 0, 9)
    BY <1>7 DEF InvertReached
  <2>3. IsRun(Squared(reg["t1"], 10), 10, 19)
    BY <2>2, SquaredRun
  <2>4. IsRun(Product(reg["t1"], Squared(reg["t1"], 10)), 0, 19)
    BY <2>2, <2>3, JoinedRuns
  <2>5. reg' = [reg EXCEPT !["t2"] = Squared(reg["t1"], 10),
                          !["t2"] = Product(reg["t1"], Squared(reg["t1"], 10))]
    BY <2>1, LineStep
  <2>6. reg'["t0"] = {0, 1, 3} /\ IsRun(reg'["t1"], 0, 9) /\ IsRun(reg'["t2"], 0, 19)
    BY <2>2, <2>3, <2>4, <2>5 DEF RegistersOK, Regs
  <2> QED
    BY <1>2, <1>7, <2>6 DEF InvertReached
<1>8. CASE line = 5
  <2>1. Chain[line + 1] = Mul("t2", "t2", "t3", "t2", 20)
    BY <1>1, <1>8 DEF InvertChain
  <2>2. reg["t0"] = {0, 1, 3} /\ IsRun(reg["t1"], 0, 9) /\ IsRun(reg["t2"], 0, 19)
    BY <1>8 DEF InvertReached
  <2>3. IsRun(Squared(reg["t2"], 20), 20, 39)
    BY <2>2, SquaredRun
  <2>4. IsRun(Product(reg["t2"], Squared(reg["t2"], 20)), 0, 39)
    BY <2>2, <2>3, JoinedRuns
  <2>5. reg' = [reg EXCEPT !["t3"] = Squared(reg["t2"], 20),
                          !["t2"] = Product(reg["t2"], Squared(reg["t2"], 20))]
    BY <2>1, LineStep
  <2>6. reg'["t0"] = {0, 1, 3} /\ IsRun(reg'["t1"], 0, 9) /\ IsRun(reg'["t2"], 0, 39)
    BY <2>2, <2>3, <2>4, <2>5 DEF RegistersOK, Regs
  <2> QED
    BY <1>2, <1>8, <2>6 DEF InvertReached
<1>9. CASE line = 6
  <2>1. Chain[line + 1] = Mul("t1", "t1", "t2", "t2", 10)
    BY <1>1, <1>9 DEF InvertChain
  <2>2. reg["t0"] = {0, 1, 3} /\ IsRun(reg["t1"], 0, 9) /\ IsRun(reg["t2"], 0, 39)
    BY <1>9 DEF InvertReached
  <2>3. IsRun(Squared(reg["t2"], 10), 10, 49)
    BY <2>2, SquaredRun
  <2>4. IsRun(Product(reg["t1"], Squared(reg["t2"], 10)), 0, 49)
    BY <2>2, <2>3, JoinedRuns
  <2>5. reg' = [reg EXCEPT !["t2"] = Squared(reg["t2"], 10),
                          !["t1"] = Product(reg["t1"], Squared(reg["t2"], 10))]
    BY <2>1, LineStep
  <2>6. reg'["t0"] = {0, 1, 3} /\ IsRun(reg'["t1"], 0, 49)
    BY <2>2, <2>3, <2>4, <2>5 DEF RegistersOK, Regs
  <2> QED
    BY <1>2, <1>9, <2>6 DEF InvertReached
<1>10. CASE line = 7
  <2>1. Chain[line + 1] = Mul("t2", "t1", "t2", "t1", 50)
    BY <1>1, <1>10 DEF InvertChain
  <2>2. reg["t0"] = {0, 1, 3} /\ IsRun(reg["t1"], 0, 49)
    BY <1>10 DEF InvertReached
  <2>3. IsRun(Squared(reg["t1"], 50), 50, 99)
    BY <2>2, SquaredRun
  <2>4. IsRun(Product(reg["t1"], Squared(reg["t1"], 50)), 0, 99)
    BY <2>2, <2>3, JoinedRuns
  <2>5. reg' = [reg EXCEPT !["t2"] = Squared(reg["t1"], 50),
                          !["t2"] = Product(reg["t1"], Squared(reg["t1"], 50))]
    BY <2>1, LineStep
  <2>6. reg'["t0"] = {0, 1, 3} /\ IsRun(reg'["t1"], 0, 49) /\ IsRun(reg'["t2"], 0, 99)
    BY <2>2, <2>3, <2>4, <2>5 DEF RegistersOK, Regs
  <2> QED
    BY <1>2, <1>10, <2>6 DEF InvertReached
<1>11. CASE line = 8
  <2>1. Chain[line + 1] = Mul("t2", "t2", "t3", "t2", 100)
    BY <1>1, <1>11 DEF InvertChain
  <2>2. reg["t0"] = {0, 1, 3} /\ IsRun(reg["t1"], 0, 49) /\ IsRun(reg["t2"], 0, 99)
    BY <1>11 DEF InvertReached
  <2>3. IsRun(Squared(reg["t2"], 100), 100, 199)
    BY <2>2, SquaredRun
  <2>4. IsRun(Product(reg["t2"], Squared(reg["t2"], 100)), 0, 199)
    BY <2>2, <2>3, JoinedRuns
  <2>5. reg' = [reg EXCEPT !["t3"] = Squared(reg["t2"], 100),
                          !["t2"] = Product(reg["t2"], Squared(reg["t2"], 100))]
    BY <2>1, LineStep
  <2>6. reg'["t0"] = {0, 1, 3} /\ IsRun(reg'["t1"], 0, 49) /\ IsRun(reg'["t2"], 0, 199)
    BY <2>2, <2>3, <2>4, <2>5 DEF RegistersOK, Regs
  <2> QED
    BY <1>2, <1>11, <2>6 DEF InvertReached
<1>12. CASE line = 9
  <2>1. Chain[line + 1] = Mul("t1", "t1", "t2", "t2", 50)
    BY <1>1, <1>12 DEF InvertChain
  <2>2. reg["t0"] = {0, 1, 3} /\ IsRun(reg["t1"], 0, 49) /\ IsRun(reg["t2"], 0, 199)
    BY <1>12 DEF InvertReached
  <2>3. IsRun(Squared(reg["t2"], 50), 50, 249)
    BY <2>2, SquaredRun
  <2>4. IsRun(Product(reg["t1"], Squared(reg["t2"], 50)), 0, 249)
    BY <2>2, <2>3, JoinedRuns
  <2>5. reg' = [reg EXCEPT !["t2"] = Squared(reg["t2"], 50),
                          !["t1"] = Product(reg["t1"], Squared(reg["t2"], 50))]
    BY <2>1, LineStep
  <2>6. reg'["t0"] = {0, 1, 3} /\ IsRun(reg'["t1"], 0, 249)
    BY <2>2, <2>3, <2>4, <2>5 DEF RegistersOK, Regs
  <2> QED
    BY <1>2, <1>12, <2>6 DEF InvertReached
<1>13. CASE line = 10
  <2>1. Chain[line + 1] = Mul("out", "t0", "t1", "t1", 5)
    BY <1>1, <1>13 DEF InvertChain
  <2>2. reg["t0"] = {0, 1, 3} /\ IsRun(reg["t1"], 0, 249)
    BY <1>13 DEF InvertReached
  <2>3. IsRun(Squared(reg["t1"], 5), 5, 254)
    BY <2>2, SquaredRun
  <2>4. Product(reg["t0"], Squared(reg["t1"], 5)) = {0, 1, 3} \cup (5..254)
    BY <2>2, <2>3, JoinedLast DEF RegistersOK
  <2>5. reg' = [reg EXCEPT !["t1"] = Squared(reg["t1"], 5),
                          !["out"] = Product(reg["t0"], Squared(reg["t1"], 5))]
    BY <2>1, LineStep
  <2>6. reg'["out"] = {0, 1, 3} \cup (5..254)
    BY <2>2, <2>3, <2>4, <2>5 DEF RegistersOK, Regs
  <2> QED
    BY <1>2, <1>13, <2>6 DEF InvertReached
<1> QED
  BY <1>2, <1>3, <1>4, <1>5, <1>6, <1>7, <1>8, <1>9, <1>10, <1>11, <1>12, <1>13

Pow22523Reached ==
  /\ line = 0 => reg["t0"] = {1}
  /\ line = 1 => reg["t0"] = {1} /\ reg["t1"] = {0, 3}
  /\ line = 2 => reg["t0"] = {0, 1, 3} /\ reg["t1"] = {0, 3}
  /\ line = 3 => IsRun(reg["t0"], 0, 4)
  /\ line = 4 => IsRun(reg["t0"], 0, 9)
  /\ line = 5 => IsRun(reg["t0"], 0, 9) /\ IsRun(reg["t1"], 0, 19)
  /\ line = 6 => IsRun(reg["t0"], 0, 9) /\ IsRun(reg["t1"], 0, 39)
  /\ line = 7 => IsRun(reg["t0"], 0, 49)
  /\ line = 8 => IsRun(reg["t0"], 0, 49) /\ IsRun(reg["t1"], 0, 99)
  /\ line = 9 => IsRun(reg["t0"], 0, 49) /\ IsRun(reg["t1"], 0, 199)
  /\ line = 10 => IsRun(reg["t0"], 0, 249)
  /\ line = 11 => reg["out"] = {0} \cup (2..251)

LEMMA Pow22523Step ==
  ASSUME chain = "pow22523", RegistersOK, Pow22523Reached, ChainNext
  PROVE  Pow22523Reached'
<1>1. Chain = Pow22523Chain /\ Len(Pow22523Chain) = 11
  BY DEF Chain, Pow22523Chain
<1>2. line \in 0..10 /\ line' = line + 1
  BY <1>1 DEF ChainNext, RegistersOK
<1>3. CASE line = 0
  <2>1. Chain[line + 1] = Mul("t1", "z", "t1", "t0", 2)
    BY <1>1, <1>3 DEF Pow22523Chain
  <2>2. reg["t0"] = {1}
    BY <1>3 DEF Pow22523Reached
  <2>3. Squared(reg["t0"], 2) = {3}
    BY <2>2, SquaredFew
  <2>4. Product(reg["z"], Squared(reg["t0"], 2)) = {0, 3}
    BY <2>2, <2>3, JoinedFew DEF RegistersOK
  <2>5. reg' = [reg EXCEPT !["t1"] = Squared(reg["t0"], 2),
                          !["t1"] = Product(reg["z"], Squared(reg["t0"], 2))]
    BY <2>1, LineStep
  <2>6. reg'["t0"] = {1} /\ reg'["t1"] = {0, 3}
    BY <2>2, <2>3, <2>4, <2>5 DEF RegistersOK, Regs
  <2> QED
    BY <1>2, <1>3, <2>6 DEF Pow22523Reached
<1>4. CASE line = 1
  <2>1. Chain[line + 1] = Mul("t0", "t1", "t0", "t0", 0)
    BY <1>1, <1>4 DEF Pow22523Chain
  <2>2. reg["t0"] = {1} /\ reg["t1"] = {0, 3}
    BY <1>4 DEF Pow22523Reached
  <2>3. Squared(reg["t0"], 0) = {1}
    BY <2>2, SquaredFew
  <2>4. Product(reg["t1"], Squared(reg["t0"], 0)) = {0, 1, 3}
    BY <2>2, <2>3, JoinedFew DEF RegistersOK
  <2>5. reg' = [reg EXCEPT !["t0"] = Squared(reg["t0"], 0),
                          !["t0"] = Product(reg["t1"], Squared(reg["t0"], 0))]
    BY <2>1, LineStep
  <2>6. reg'["t0"] = {0, 1, 3} /\ reg'["t1"] = {0, 3}
    BY <2>2, <2>3, <2>4, <2>5 DEF RegistersOK, Regs
  <2> QED
    BY <1>2, <1>4, <2>6 DEF Pow22523Reached
<1>5. CASE line = 2
  <2>1. Chain[line + 1] = Mul("t0", "t1", "t0", "t0", 1)
    BY <1>1, <1>5 DEF Pow22523Chain
  <2>2. reg["t0"] = {0, 1, 3} /\ reg["t1"] = {0, 3}
    BY <1>5 DEF Pow22523Reached
  <2>3. Squared(reg["t0"], 1) = {1, 2, 4}
    BY <2>2, SquaredFew
  <2>4. IsRun(Product(reg["t1"], Squared(reg["t0"], 1)), 0, 4)
    BY <2>2, <2>3, JoinedFew DEF RegistersOK
  <2>5. reg' = [reg EXCEPT !["t0"] = Squared(reg["t0"], 1),
                          !["t0"] = Product(reg["t1"], Squared(reg["t0"], 1))]
    BY <2>1, LineStep
  <2>6. IsRun(reg'["t0"], 0, 4)
    BY <2>2, <2>3, <2>4, <2>5 DEF RegistersOK, Regs
  <2> QED
    BY <1>2, <1>5, <2>6 DEF Pow22523Reached
<1>6. CASE line = 3
  <2>1. Chain[line + 1] = Mul("t0", "t0", "t1", "t0", 5)
    BY <1>1, <1>6 DEF Pow22523Chain
  <2>2. IsRun(reg["t0"], 0, 4)
    BY <1>6 DEF Pow22523Reached
  <2>3. IsRun(Squared(reg["t0"], 5), 5, 9)
    BY <2>2, SquaredRun
  <2>4. IsRun(Product(reg["t0"], Squared(reg["t0"], 5)), 0, 9)
    BY <2>2, <2>3, JoinedRuns
  <2>5. reg' = [reg EXCEPT !["t1"] = Squared(reg["t0"], 5),
                          !["t0"] = Product(reg["t0"], Squared(reg["t0"], 5))]
    BY <2>1, LineStep
  <2>6. IsRun(reg'["t0"], 0, 9)
    BY <2>2, <2>3, <2>4, <2>5 DEF RegistersOK, Regs
  <2> QED
    BY <1>2, <1>6, <2>6 DEF Pow22523Reached
<1>7. CASE line = 4
  <2>1. Chain[line + 1] = Mul("t1", "t0", "t1", "t0", 10)
    BY <1>1, <1>7 DEF Pow22523Chain
  <2>2. IsRun(reg["t0"], 0, 9)
    BY <1>7 DEF Pow22523Reached
  <2>3. IsRun(Squared(reg["t0"], 10), 10, 19)
    BY <2>2, SquaredRun
  <2>4. IsRun(Product(reg["t0"], Squared(reg["t0"], 10)), 0, 19)
    BY <2>2, <2>3, JoinedRuns
  <2>5. reg' = [reg EXCEPT !["t1"] = Squared(reg["t0"], 10),
                          !["t1"] = Product(reg["t0"], Squared(reg["t0"], 10))]
    BY <2>1, LineStep
  <2>6. IsRun(reg'["t0"], 0, 9) /\ IsRun(reg'["t1"], 0, 19)
    BY <2>2, <2>3, <2>4, <2>5 DEF RegistersOK, Regs
  <2> QED
    BY <1>2, <1>7, <2>6 DEF Pow22523Reached
<1>8. CASE line = 5
  <2>1. Chain[line + 1] = Mul("t1", "t1", "t2", "t1", 20)
    BY <1>1, <1>8 DEF Pow22523Chain
  <2>2. IsRun(reg["t0"], 0, 9) /\ IsRun(reg["t1"], 0, 19)
    BY <1>8 DEF Pow22523Reached
  <2>3. IsRun(Squared(reg["t1"], 20), 20, 39)
    BY <2>2, SquaredRun
  <2>4. IsRun(Product(reg["t1"], Squared(reg["t1"], 20)), 0, 39)
    BY <2>2, <2>3, JoinedRuns
  <2>5. reg' = [reg EXCEPT !["t2"] = Squared(reg["t1"], 20),
                          !["t1"] = Product(reg["t1"], Squared(reg["t1"], 20))]
    BY <2>1, LineStep
  <2>6. IsRun(reg'["t0"], 0, 9) /\ IsRun(reg'["t1"], 0, 39)
    BY <2>2, <2>3, <2>4, <2>5 DEF RegistersOK, Regs
  <2> QED
    BY <1>2, <1>8, <2>6 DEF Pow22523Reached
<1>9. CASE line = 6
  <2>1. Chain[line + 1] = Mul("t0", "t0", "t1", "t1", 10)
    BY <1>1, <1>9 DEF Pow22523Chain
  <2>2. IsRun(reg["t0"], 0, 9) /\ IsRun(reg["t1"], 0, 39)
    BY <1>9 DEF Pow22523Reached
  <2>3. IsRun(Squared(reg["t1"], 10), 10, 49)
    BY <2>2, SquaredRun
  <2>4. IsRun(Product(reg["t0"], Squared(reg["t1"], 10)), 0, 49)
    BY <2>2, <2>3, JoinedRuns
  <2>5. reg' = [reg EXCEPT !["t1"] = Squared(reg["t1"], 10),
                          !["t0"] = Product(reg["t0"], Squared(reg["t1"], 10))]
    BY <2>1, LineStep
  <2>6. IsRun(reg'["t0"], 0, 49)
    BY <2>2, <2>3, <2>4, <2>5 DEF RegistersOK, Regs
  <2> QED
    BY <1>2, <1>9, <2>6 DEF Pow22523Reached
<1>10. CASE line = 7
  <2>1. Chain[line + 1] = Mul("t1", "t0", "t1", "t0", 50)
    BY <1>1, <1>10 DEF Pow22523Chain
  <2>2. IsRun(reg["t0"], 0, 49)
    BY <1>10 DEF Pow22523Reached
  <2>3. IsRun(Squared(reg["t0"], 50), 50, 99)
    BY <2>2, SquaredRun
  <2>4. IsRun(Product(reg["t0"], Squared(reg["t0"], 50)), 0, 99)
    BY <2>2, <2>3, JoinedRuns
  <2>5. reg' = [reg EXCEPT !["t1"] = Squared(reg["t0"], 50),
                          !["t1"] = Product(reg["t0"], Squared(reg["t0"], 50))]
    BY <2>1, LineStep
  <2>6. IsRun(reg'["t0"], 0, 49) /\ IsRun(reg'["t1"], 0, 99)
    BY <2>2, <2>3, <2>4, <2>5 DEF RegistersOK, Regs
  <2> QED
    BY <1>2, <1>10, <2>6 DEF Pow22523Reached
<1>11. CASE line = 8
  <2>1. Chain[line + 1] = Mul("t1", "t1", "t2", "t1", 100)
    BY <1>1, <1>11 DEF Pow22523Chain
  <2>2. IsRun(reg["t0"], 0, 49) /\ IsRun(reg["t1"], 0, 99)
    BY <1>11 DEF Pow22523Reached
  <2>3. IsRun(Squared(reg["t1"], 100), 100, 199)
    BY <2>2, SquaredRun
  <2>4. IsRun(Product(reg["t1"], Squared(reg["t1"], 100)), 0, 199)
    BY <2>2, <2>3, JoinedRuns
  <2>5. reg' = [reg EXCEPT !["t2"] = Squared(reg["t1"], 100),
                          !["t1"] = Product(reg["t1"], Squared(reg["t1"], 100))]
    BY <2>1, LineStep
  <2>6. IsRun(reg'["t0"], 0, 49) /\ IsRun(reg'["t1"], 0, 199)
    BY <2>2, <2>3, <2>4, <2>5 DEF RegistersOK, Regs
  <2> QED
    BY <1>2, <1>11, <2>6 DEF Pow22523Reached
<1>12. CASE line = 9
  <2>1. Chain[line + 1] = Mul("t0", "t0", "t1", "t1", 50)
    BY <1>1, <1>12 DEF Pow22523Chain
  <2>2. IsRun(reg["t0"], 0, 49) /\ IsRun(reg["t1"], 0, 199)
    BY <1>12 DEF Pow22523Reached
  <2>3. IsRun(Squared(reg["t1"], 50), 50, 249)
    BY <2>2, SquaredRun
  <2>4. IsRun(Product(reg["t0"], Squared(reg["t1"], 50)), 0, 249)
    BY <2>2, <2>3, JoinedRuns
  <2>5. reg' = [reg EXCEPT !["t1"] = Squared(reg["t1"], 50),
                          !["t0"] = Product(reg["t0"], Squared(reg["t1"], 50))]
    BY <2>1, LineStep
  <2>6. IsRun(reg'["t0"], 0, 249)
    BY <2>2, <2>3, <2>4, <2>5 DEF RegistersOK, Regs
  <2> QED
    BY <1>2, <1>12, <2>6 DEF Pow22523Reached
<1>13. CASE line = 10
  <2>1. Chain[line + 1] = Mul("out", "z", "t0", "t0", 2)
    BY <1>1, <1>13 DEF Pow22523Chain
  <2>2. IsRun(reg["t0"], 0, 249)
    BY <1>13 DEF Pow22523Reached
  <2>3. IsRun(Squared(reg["t0"], 2), 2, 251)
    BY <2>2, SquaredRun
  <2>4. Product(reg["z"], Squared(reg["t0"], 2)) = {0} \cup (2..251)
    BY <2>2, <2>3, JoinedLast DEF RegistersOK
  <2>5. reg' = [reg EXCEPT !["t0"] = Squared(reg["t0"], 2),
                          !["out"] = Product(reg["z"], Squared(reg["t0"], 2))]
    BY <2>1, LineStep
  <2>6. reg'["out"] = {0} \cup (2..251)
    BY <2>2, <2>3, <2>4, <2>5 DEF RegistersOK, Regs
  <2> QED
    BY <1>2, <1>13, <2>6 DEF Pow22523Reached
<1> QED
  BY <1>2, <1>3, <1>4, <1>5, <1>6, <1>7, <1>8, <1>9, <1>10, <1>11, <1>12, <1>13

ChainInv ==
  /\ RegistersOK
  /\ chain = "invert"   => InvertReached
  /\ chain = "pow22523" => Pow22523Reached

LEMMA ChainStart == ChainInit => ChainInv
  BY DEF ChainInit, ChainInv, RegistersOK, InvertReached, Pow22523Reached, Regs

LEMMA RegistersStep ==
  ASSUME RegistersOK, ChainNext
  PROVE  RegistersOK'
<1>1. Len(Chain) = 11
  BY DEF Chain, InvertChain, Pow22523Chain
<1>2. PICK m : m = Chain[line + 1]
  OBVIOUS
<1>3. m.via # "z" /\ m.target # "z" /\ m.source \in Regs /\ m.factor \in Regs
  <2>1. line + 1 \in 1..11
    BY <1>1 DEF RegistersOK, ChainNext
  <2> QED
    BY <1>2, <2>1 DEF Chain, InvertChain, Pow22523Chain, Mul, Regs
<1>4. /\ Squared(reg[m.source], m.n) \in SUBSET Int
      /\ Product(reg[m.factor], Squared(reg[m.source], m.n)) \in SUBSET Int
  <2>1. m.n \in Int
    <3>1. line + 1 \in 1..11
      BY <1>1 DEF RegistersOK, ChainNext
    <3> QED
      BY <1>2, <3>1 DEF Chain, InvertChain, Pow22523Chain, Mul
  <2> QED
    BY <1>3, <2>1 DEF Squared, Product, RegistersOK
<1>5. reg' = [reg EXCEPT ![m.via] = Squared(reg[m.source], m.n),
                         ![m.target] = Product(reg[m.factor], Squared(reg[m.source], m.n))]
  BY <1>2 DEF ChainNext
<1>6. reg' \in [Regs -> SUBSET Int] /\ reg'["z"] = {0}
  BY <1>3, <1>4, <1>5 DEF RegistersOK, Regs
<1>7. chain' = chain /\ line' \in 0..11
  BY <1>1 DEF ChainNext, RegistersOK
<1> QED
  BY <1>6, <1>7 DEF RegistersOK

LEMMA ChainStep == ChainInv /\ [ChainNext]_chainVars => ChainInv'
<1> SUFFICES ASSUME ChainInv, [ChainNext]_chainVars
             PROVE  ChainInv'
  OBVIOUS
<1>1. CASE ChainNext
  <2>1. chain' = chain /\ RegistersOK'
    BY <1>1, RegistersStep DEF ChainNext, ChainInv
  <2>2. ASSUME chain = "invert" PROVE InvertReached'
    BY <1>1, <2>2, InvertStep DEF ChainInv
  <2>3. ASSUME chain = "pow22523" PROVE Pow22523Reached'
    BY <1>1, <2>3, Pow22523Step DEF ChainInv
  <2> QED
    BY <2>1, <2>2, <2>3 DEF ChainInv
<1>2. CASE UNCHANGED chainVars
  BY <1>2 DEF ChainInv, RegistersOK, InvertReached, Pow22523Reached, chainVars, IsRun
<1> QED
  BY <1>1, <1>2

(* fe_invert raises to the power 2^255 - 21 and fe_pow22523 to the power   *)
(* 2^252 - 3, and no product of theirs has a carry in its exponent         *)
(* (fe.c:364-448, 881-964).                                                *)
THEOREM ChainsExactAlways == ChainSpec => []ChainsExact
<1>1. ChainInv => ChainsExact
  <2> SUFFICES ASSUME ChainInv, line = Len(Chain)
               PROVE  reg["out"] = IF chain = "invert" THEN (0..254) \ {2, 4} ELSE (0..251) \ {1}
    BY DEF ChainsExact
  <2>1. line = 11
    BY DEF Chain, InvertChain, Pow22523Chain
  <2>2. CASE chain = "invert"
    BY <2>1, <2>2 DEF ChainInv, InvertReached
  <2>3. CASE chain = "pow22523"
    BY <2>1, <2>3 DEF ChainInv, Pow22523Reached
  <2> QED
    BY <2>2, <2>3 DEF ChainInv, RegistersOK
<1> QED
  BY <1>1, ChainStart, ChainStep, PTL DEF ChainSpec

-----------------------------------------------------------------------------
(* The parts side by side, as they are model-checked: what is proved of    *)
(* each part holds in the whole.  A step is one part's, and leaves the     *)
(* other parts alone.                                                      *)

LEMMA StepOfAPart ==
  ASSUME Next
  PROVE  /\ [ShaNext]_shaVars /\ [MultNext]_multVars /\ [DoubleNext]_doubleVars
         /\ [ChainNext]_chainVars /\ [KeysNext]_keysVars /\ [ScalarNext]_scalarVars
         /\ [FieldNext]_fieldVars /\ part' = part
  BY DEF Next

everyVars == <<part, shaVars, multVars, doubleVars, chainVars, keysVars, scalarVars, fieldVars>>

LEMMA StepOrStutter ==
  ASSUME [Next]_everyVars
  PROVE  /\ [ShaNext]_shaVars /\ [MultNext]_multVars /\ [DoubleNext]_doubleVars
         /\ [ChainNext]_chainVars /\ [KeysNext]_keysVars /\ [ScalarNext]_scalarVars
         /\ [FieldNext]_fieldVars /\ part' = part
  BY StepOfAPart DEF everyVars

LEMMA SpecParts ==
  Spec => /\ ShaSpec /\ MultSpec /\ DoubleSpec /\ ChainSpec /\ KeysSpec /\ FieldSpec
          /\ [][ScalarNext]_scalarVars
<1>1. Init => ShaInit /\ MultInit /\ DoubleInit /\ ChainInit /\ KeysInit /\ FieldInit
  BY DEF Init
<1> QED
  BY <1>1, StepOrStutter, PTL
     DEF Spec, everyVars, ShaSpec, MultSpec, DoubleSpec, ChainSpec, KeysSpec, FieldSpec

(* Scalars either start as ScalarInit says or wait.                        *)
LEMMA ScalarStarts == Init => ScalarTypeOK
<1> SUFFICES ASSUME Init PROVE ScalarTypeOK
  OBVIOUS
<1>1. CASE part = "scalar"
  <2>1. ScalarInit
    BY <1>1 DEF Init
  <2> QED
    BY <2>1, InitTyped
<1>2. CASE part # "scalar"
  <2>1. /\ program = ReduceProgram /\ limb = Waiting /\ bits = ReduceBits
        /\ residue = Residue(Waiting, 24) /\ pc = 1 /\ stored = -1
    BY <1>2 DEF Init, StartReduce
  <2>2. Waiting \in [Places -> Int]
    BY DEF Waiting
  <2>3. AreInt(Waiting, 24) /\ 24 \in Nat
    BY <2>2 DEF AreInt, Places
  <2>4. Value(Waiting, 24) \in Int /\ Residue(Waiting, 24) = Value(Waiting, 24) % L
    BY <2>3, ResidueIs
  <2>5. Value(Waiting, 24) % L \in 0..L-1
    BY <2>4, Numbers, ModSplits
  <2>6. pc \in 1..Len(program)+1
    BY <2>1, ProgramLengths
  <2>7. bits \in [Places -> Nat] /\ stored \in Int
    BY <2>1 DEF ReduceBits
  <2> QED
    BY <2>1, <2>2, <2>4, <2>5, <2>6, <2>7 DEF ScalarTypeOK
<1> QED
  BY <1>1, <1>2

(* Every variable of src/ed25519/'s modules keeps its type, for every      *)
(* curve, width, order, hash function and block size: carries stay single  *)
(* bits, digits within the tables, and lengths within their buffers.       *)
THEOREM TypesOKAlways == Spec => []TypesOK
<1>1. ScalarTypeOK /\ [ScalarNext]_scalarVars => ScalarTypeOK'
  BY StepTyped
<1>2. Spec => []ScalarTypeOK
  BY <1>1, ScalarStarts, SpecParts, PTL DEF Spec
<1>3. /\ ShaTypeOK /\ MultTypeOK /\ DoubleTypeOK /\ KeysTypeOK /\ ScalarTypeOK /\ FieldTypeOK
      => TypesOK
  BY DEF TypesOK
<1> QED
  BY <1>2, <1>3, SpecParts, ShaTypeCorrect, MultTypeCorrect, DoubleTypeCorrect, KeysTypeCorrect,
     FieldTypeCorrect, PTL

(* Both multiplications compute a B and a A + b B, digit by digit, for     *)
(* every curve and every number of bytes (ge.c:25-130, 386-433).           *)
THEOREM PartialSumsAlways == Spec => []PartialSums
<1>1. PartialSum /\ DoubleSum => PartialSums
  BY DEF PartialSums
<1> QED
  BY <1>1, SpecParts, PartialSumAlways, DoubleSumAlways, PTL
=============================================================================
