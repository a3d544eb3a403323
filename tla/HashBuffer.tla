----------------------------- MODULE HashBuffer -----------------------------
(***************************************************************************)
(* utils::Sha256 (src/utils/sha256.cpp): how update() cuts a message that  *)
(* comes in pieces into blocks, and how finalize() pads it through the     *)
(* same update(). The compression of a block into state_ is abstracted by  *)
(* recording the block: two objects with equal chains have equal state_.   *)
(* The i-th byte of a message is the number i, so that a byte lost, kept   *)
(* from before or out of place shows; 0 and Pad stand for the padding.     *)
(***************************************************************************)
EXTENDS Integers, Sequences

CONSTANTS
  BlockSize,    \* BLOCK_SIZE, 64
  LengthSize,   \* bytes of the length field, 8
  Pad,          \* the padding byte 0x80
  MaxMessage    \* bound: bytes of a message

ASSUME HashAssumption ==
  /\ BlockSize \in Nat /\ LengthSize \in Nat /\ MaxMessage \in Nat
  /\ 0 < LengthSize /\ LengthSize < BlockSize
  /\ Pad \in Nat

VARIABLES
  chain,          \* state_: the bytes of the blocks processed, in order
  buffer,         \* buffer_
  bufferLength,   \* bufferLength_
  totalLength,    \* totalLength_
  message,        \* history: how many bytes update() was given
  usage,          \* "open", "padding" inside finalize(), "final"
  bitLength       \* finalize()'s bitLength

hashVars == <<chain, buffer, bufferLength, totalLength, message, usage, bitLength>>

HashTypeOK ==
  /\ chain \in Seq(Nat)
  /\ buffer \in [1..BlockSize -> Nat]
  /\ bufferLength \in 0..BlockSize
  /\ totalLength \in Nat
  /\ message \in Nat
  /\ usage \in {"open", "padding", "final"}
  /\ bitLength \in Nat

(* The constructor and reset().                                            *)
HashInit ==
  /\ chain = <<>>
  /\ buffer = [i \in 1..BlockSize |-> 0]
  /\ bufferLength = 0
  /\ totalLength = 0
  /\ message = 0
  /\ usage = "open"
  /\ bitLength = 0

-----------------------------------------------------------------------------
(* memcpy() of count bytes of data, from its byte from + 1 on, to offset.  *)
Copied(target, offset, data, from, count) ==
  [i \in 1..BlockSize |-> IF offset < i /\ i <= offset + count
                          THEN data[from + i - offset] ELSE target[i]]

(* processBlock() of consecutive blocks.                                   *)
ProcessBlocks(bytes) == chain' = chain \o bytes

(* update(): first the rest of a block begun earlier,                      *)
Taken(size) ==
  IF bufferLength = 0 THEN 0
  ELSE IF size < BlockSize - bufferLength THEN size ELSE BlockSize - bufferLength
Completes(size) == bufferLength > 0 /\ bufferLength + Taken(size) = BlockSize

(* then whole blocks straight from the input, then the rest is kept.       *)
Whole(size) == BlockSize * ((size - Taken(size)) \div BlockSize)
Rest(size) == size - Taken(size) - Whole(size)

(* Mutant: a block that is completed exactly is not emptied.               *)
Absorb_KeepsFull(data) ==
  LET size == Len(data)
      filled == Copied(buffer, bufferLength, data, 0, Taken(size))
  IN /\ ProcessBlocks((IF Completes(size) THEN filled ELSE <<>>)
                      \o SubSeq(data, Taken(size) + 1, Taken(size) + Whole(size)))
     /\ buffer' = Copied(filled, 0, data, Taken(size) + Whole(size), Rest(size))
     /\ bufferLength' = IF Rest(size) > 0 THEN Rest(size) ELSE bufferLength + Taken(size)

(* update() as a whole.                                                    *)
Absorb(data) ==
  LET size == Len(data)
      filled == Copied(buffer, bufferLength, data, 0, Taken(size))
  IN /\ ProcessBlocks((IF Completes(size) THEN filled ELSE <<>>)
                      \o SubSeq(data, Taken(size) + 1, Taken(size) + Whole(size)))
     /\ buffer' = Copied(filled, 0, data, Taken(size) + Whole(size), Rest(size))
     /\ bufferLength' = IF Rest(size) > 0 THEN Rest(size)
                        ELSE IF Completes(size) THEN 0 ELSE bufferLength + Taken(size)

Update(size) ==
  /\ usage = "open"
  /\ message + size <= MaxMessage
  /\ Absorb([i \in 1..size |-> message + i])
  /\ totalLength' = totalLength + size
  /\ message' = message + size
  /\ UNCHANGED <<usage, bitLength>>

(* finalize(): the length is taken, the padding byte goes through update() *)
(* and is taken off totalLength_ again;                                    *)
FinalizeBegins ==
  /\ usage = "open"
  /\ bitLength' = 8 * totalLength
  /\ Absorb(<<Pad>>)
  /\ totalLength' = totalLength + 1 - 1
  /\ usage' = "padding"
  /\ UNCHANGED message

(* zeros, one update() each, until just the length field has room;         *)
PadZero ==
  /\ usage = "padding" /\ bufferLength # BlockSize - LengthSize
  /\ Absorb(<<0>>)
  /\ totalLength' = totalLength + 1 - 1
  /\ UNCHANGED <<message, usage, bitLength>>

(* The length field, big-endian.                                           *)
LengthBytes(bits) == [i \in 1..LengthSize |-> (bits \div 256^(LengthSize - i)) % 256]

(* and the last block.                                                     *)
FinalizeEnds ==
  /\ usage = "padding" /\ bufferLength = BlockSize - LengthSize
  /\ buffer' = Copied(buffer, bufferLength, LengthBytes(bitLength), 0, LengthSize)
  /\ ProcessBlocks(buffer')
  /\ usage' = "final"
  /\ UNCHANGED <<bufferLength, totalLength, message, bitLength>>

(* Mutant: reset() forgets the buffered bytes but not how many they are.   *)
Reset_KeepsLength ==
  /\ usage # "padding"
  /\ chain' = <<>>
  /\ buffer' = [i \in 1..BlockSize |-> 0]
  /\ totalLength' = 0 /\ message' = 0 /\ bitLength' = 0
  /\ usage' = "open"
  /\ UNCHANGED bufferLength

(* reset(), at any time between calls. A new object begins the same way;   *)
(* Sha256::hash() is a new object, one update() and finalize().            *)
Reset ==
  /\ usage # "padding"
  /\ chain' = <<>>
  /\ buffer' = [i \in 1..BlockSize |-> 0]
  /\ bufferLength' = 0
  /\ totalLength' = 0 /\ message' = 0 /\ bitLength' = 0
  /\ usage' = "open"

HashNext ==
  \/ \E size \in 0..MaxMessage : Update(size)
  \/ FinalizeBegins \/ PadZero \/ FinalizeEnds \/ Reset

HashSpec == HashInit /\ [][HashNext]_hashVars

-----------------------------------------------------------------------------
(* The padded message of FIPS 180-4: the message, the padding byte, as few *)
(* zeros as fill the block up to the length field, and the length in bits. *)
PaddedMessage(n) ==
  LET zeros == CHOOSE z \in 0..(BlockSize - 1) : (n + 1 + z + LengthSize) % BlockSize = 0
  IN [i \in 1..n |-> i] \o <<Pad>> \o [i \in 1..zeros |-> 0] \o LengthBytes(8 * n)

(* A digest is the digest of the message alone, however the message was    *)
(* cut into update() calls, at every length around a block's end, and also *)
(* of an object that was used before and reset.                            *)
DigestIsOfMessage == usage = "final" => chain = PaddedMessage(message)

(* Between calls, the blocks processed and the bytes buffered are the      *)
(* message so far, none lost, doubled or out of place; the buffer always   *)
(* has room, and totalLength_ is the message's length even inside          *)
(* finalize(), whose padding goes through update() too.                    *)
BufferHoldsTail ==
  /\ usage # "final" => bufferLength < BlockSize
  /\ totalLength = message
  /\ usage = "open" =>
       /\ Len(chain) + bufferLength = message
       /\ \A i \in 1..Len(chain) : chain[i] = i
       /\ \A i \in 1..bufferLength : buffer[i] = Len(chain) + i
=============================================================================
