------------------------------- MODULE Sha512 -------------------------------
(***************************************************************************)
(* The streaming side of src/ed25519/sha512.c: sha512_init, any number of  *)
(* sha512_update calls with inputs of any length, sha512_final.  Which     *)
(* blocks reach sha512_compress, and in which order, is all that a digest  *)
(* depends on; what the compression makes of them is left out.  One action *)
(* per iteration of the loop of sha512_update.                             *)
(*                                                                         *)
(* The bytes of a message are numbers above 255, all different, so that a  *)
(* lost, repeated or swapped byte shows; 0..255 are bytes of the padding.  *)
(***************************************************************************)
EXTENDS Integers, Sequences

CONSTANTS
  BlockSize,  \* 128
  WordSize,   \* 8: bytes of a uint64_t; the length field has two words
  Weight,     \* 2^56, 2^48, .., 2^0: the shifts of STORE64H
  MaxMessage  \* bound: bytes of one message

ASSUME BlockAssumption ==
  /\ BlockSize \in Nat /\ WordSize \in Nat \ {0} /\ MaxMessage \in Nat
  /\ 2 * WordSize < BlockSize

ASSUME WeightAssumption ==
  Weight \in [1..WordSize -> Nat \ {0}]

VARIABLES
  buf, curlen, length, \* of sha512_context; length counts bits
  input,    \* in, inlen: what sha512_update has not taken yet
  digesting,\* "update", or "final" once the digest has been written
  absorbed, \* history: what sha512_update has taken
  hashed    \* history: the blocks given to sha512_compress, end to end

shaVars == <<buf, curlen, length, input, digesting, absorbed, hashed>>

Byte == Nat
MessageByte(k) == 255 + k

ShaTypeOK ==
  /\ buf \in [1..BlockSize -> Byte] /\ curlen \in 0..BlockSize-1
  /\ length \in Nat /\ digesting \in {"update", "final"}
  /\ input \in Seq(Byte) /\ absorbed \in Seq(Byte) /\ hashed \in Seq(Byte)

-----------------------------------------------------------------------------
(* sha512_init; the buffer holds whatever was on the stack. *)
ShaInit ==
  /\ buf = [k \in 1..BlockSize |-> 0] /\ curlen = 0 /\ length = 0
  /\ input = <<>> /\ digesting = "update"
  /\ absorbed = <<>> /\ hashed = <<>>

(* sha512_update is called with the next n bytes of the message. *)
Update ==
  /\ digesting = "update" /\ input = <<>>
  /\ \E n \in 1..MaxMessage - Len(absorbed) :
       input' = [k \in 1..n |-> MessageByte(Len(absorbed) + k)]
  /\ UNCHANGED <<buf, curlen, length, digesting, absorbed, hashed>>

Smaller(m, n) == IF m < n THEN m ELSE n

(* sha512_compress(md, block). *)
Compress(block) == hashed' = hashed \o block

Take(n) ==
  /\ input' = SubSeq(input, n + 1, Len(input))
  /\ absorbed' = absorbed \o SubSeq(input, 1, n)

(* Mutant: a whole block is compressed although the buffer is not empty. *)
UpdateBlockEager ==
  /\ digesting = "update" /\ Len(input) >= BlockSize
  /\ Compress(SubSeq(input, 1, BlockSize)) /\ Take(BlockSize)
  /\ length' = length + BlockSize * 8
  /\ UNCHANGED <<buf, curlen, digesting>>

(* An empty buffer and a whole block of input: compressed where it is. *)
UpdateBlock ==
  /\ digesting = "update" /\ curlen = 0 /\ Len(input) >= BlockSize
  /\ Compress(SubSeq(input, 1, BlockSize)) /\ Take(BlockSize)
  /\ length' = length + BlockSize * 8
  /\ UNCHANGED <<buf, curlen, digesting>>

(* buf with the bytes of s behind its first `from' ones. *)
Overlay(from, s) ==
  [k \in 1..BlockSize |-> IF k > from /\ k <= from + Len(s) THEN s[k - from]
                                                           ELSE buf[k]]

(* Otherwise as much as fits goes to the buffer; a full one is compressed. *)
UpdatePart ==
  /\ digesting = "update" /\ input # <<>>
  /\ curlen # 0 \/ Len(input) < BlockSize
  /\ LET n == Smaller(Len(input), BlockSize - curlen) IN
     /\ buf' = Overlay(curlen, SubSeq(input, 1, n)) /\ Take(n)
     /\ IF curlen + n = BlockSize
        THEN Compress(buf') /\ curlen' = 0 /\ length' = length + BlockSize * 8
        ELSE curlen' = curlen + n /\ UNCHANGED <<length, hashed>>
  /\ UNCHANGED digesting

-----------------------------------------------------------------------------
Zeros(n) == [k \in 1..n |-> 0]

(* STORE64H: n as a big-endian word. *)
Store64(n) == [k \in 1..WordSize |-> (n \div Weight[k]) % 256]

(* The buffer's bytes followed by 0x80. *)
Marked == Append(SubSeq(buf, 1, curlen), 128)

(* Mutant: the length field is taken to have one word. *)
FinalBlocksShort ==
  LET bits == Store64(length + curlen * 8)
      last == BlockSize - 2 * WordSize
  IN IF curlen + 1 > last + WordSize
     THEN Marked \o Zeros(BlockSize - (curlen + 1))
            \o Zeros(last + WordSize) \o bits
     ELSE Marked \o Zeros(last + WordSize - (curlen + 1)) \o bits

(* The one or two blocks sha512_final compresses.  The high word of the    *)
(* length is part of the zeros.                                            *)
FinalBlocks ==
  LET bits == Store64(length + curlen * 8)
      last == BlockSize - 2 * WordSize
  IN IF curlen + 1 > last
     THEN Marked \o Zeros(BlockSize - (curlen + 1))
            \o Zeros(last + WordSize) \o bits
     ELSE Marked \o Zeros(last + WordSize - (curlen + 1)) \o bits

Final ==
  /\ digesting = "update" /\ input = <<>> /\ curlen < BlockSize
  /\ Compress(FinalBlocks)
  /\ digesting' = "final"
  /\ length' = length + curlen * 8
  /\ buf' = SubSeq(FinalBlocks, Len(FinalBlocks) - BlockSize + 1,
                   Len(FinalBlocks))
  /\ curlen' = BlockSize - WordSize
  /\ UNCHANGED <<input, absorbed>>

(* The next digest: sha512_init on a context of its own. *)
NextDigest ==
  /\ digesting = "final" /\ digesting' = "update"
  /\ buf' = [k \in 1..BlockSize |-> 0] /\ curlen' = 0 /\ length' = 0
  /\ absorbed' = <<>> /\ hashed' = <<>>
  /\ UNCHANGED input

ShaNext == Update \/ UpdateBlock \/ UpdatePart \/ Final \/ NextDigest

ShaSpec == ShaInit /\ [][ShaNext]_shaVars

-----------------------------------------------------------------------------
(* The padded message of FIPS 180-4: a one bit, the fewest zeros that fill *)
(* whole blocks, and the length in bits as two words.                      *)
Padded(m) ==
  LET fits(n) == (Len(m) + 1 + n + 2 * WordSize) % BlockSize = 0
      zeros   == CHOOSE n \in 0..BlockSize - 1 : fits(n)
  IN Append(m, 128) \o Zeros(zeros) \o Zeros(WordSize) \o Store64(8 * Len(m))

(* However a message is cut into updates, whole blocks and the bytes in    *)
(* the buffer are the message so far, in order; the bits that are counted  *)
(* are those of the blocks.                                                *)
NothingLost ==
  digesting = "update" =>
    /\ hashed \o SubSeq(buf, 1, curlen) = absorbed
    /\ length = 8 * Len(hashed) /\ Len(hashed) % BlockSize = 0

(* What is compressed for a digest is the padded message, also when the    *)
(* length field needs a block of its own.                                  *)
DigestOfMessage == digesting = "final" => hashed = Padded(absorbed)
=============================================================================
