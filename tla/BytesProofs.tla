---------------------------- MODULE BytesProofs -----------------------------
(***************************************************************************)
(* What is made of bytes: the blocks of a digest, and the file of a        *)
(* baseline.                                                               *)
(***************************************************************************)
EXTENDS HashBuffer, BaselineFormat, InductionLemmas, SequenceTheorems

(***************************************************************************)
(* HashBuffer.                                                             *)
(***************************************************************************)
USE HashAssumption

(* The part of the state that update() works on, with room in the buffer.  *)
BufferTypes ==
  /\ chain \in Seq(Nat)
  /\ buffer \in [1..BlockSize -> Nat]
  /\ bufferLength \in Nat /\ bufferLength < BlockSize

(* The inductive invariant: in a finished object only the counters count,  *)
(* until reset() clears it.                                                *)
HashInv ==
  /\ usage \in {"open", "padding", "final"}
  /\ totalLength \in Nat /\ message \in Nat
  /\ usage # "final" => BufferTypes
  /\ BufferHoldsTail

(* What an integer division leaves is less than the divisor.               *)
LEMMA DivisionBounds ==
  ASSUME NEW n \in Nat, NEW k \in Nat, 0 < k
  PROVE  /\ k * (n \div k) \in Nat
         /\ k * (n \div k) <= n
         /\ n - k * (n \div k) < k
  BY SMT

(* update() cuts its input into what completes the block begun, whole      *)
(* blocks, and a rest that is less than a block.                           *)
LEMMA Cut ==
  ASSUME BufferTypes, NEW size \in Nat
  PROVE  /\ Taken(size) \in Nat /\ Taken(size) <= size
         /\ bufferLength + Taken(size) <= BlockSize
         /\ Whole(size) \in Nat /\ Rest(size) \in Nat /\ Rest(size) < BlockSize
         /\ size = Taken(size) + Whole(size) + Rest(size)
         /\ ~Completes(size) /\ bufferLength > 0 => Taken(size) = size
         /\ bufferLength = 0 => Taken(size) = 0
<1> DEFINE t == Taken(size)
<1>1. /\ t \in Nat /\ t <= size /\ bufferLength + t <= BlockSize
      /\ ~Completes(size) /\ bufferLength > 0 => t = size
      /\ bufferLength = 0 => t = 0
  BY DEF Taken, Completes, BufferTypes
<1> HIDE DEF t
<1>2. size - t \in Nat /\ 0 < BlockSize
  BY <1>1
<1>3. /\ BlockSize * ((size - t) \div BlockSize) \in Nat
      /\ BlockSize * ((size - t) \div BlockSize) <= size - t
      /\ (size - t) - BlockSize * ((size - t) \div BlockSize) < BlockSize
  BY <1>2, DivisionBounds
<1>4. /\ Whole(size) = BlockSize * ((size - t) \div BlockSize)
      /\ Rest(size) = size - t - Whole(size)
  BY DEF Whole, Rest, t
<1> DEFINE w == Whole(size)
<1>5. w \in Nat /\ w <= size - t /\ Rest(size) = size - t - w /\ size - t - w < BlockSize
  BY <1>3, <1>4
<1> HIDE DEF w
<1>6. /\ Rest(size) \in Nat /\ Rest(size) < BlockSize
      /\ size = t + w + Rest(size)
  BY <1>1, <1>5
<1>7. QED
  BY <1>1, <1>5, <1>6 DEF t, w

(* Chain and buffer hold the bytes of a text, and data is what follows.    *)
Holds(text) ==
  /\ \A i \in 1..Len(chain) : chain[i] = text[i]
  /\ \A i \in 1..bufferLength : buffer[i] = text[Len(chain) + i]
Follows(text, data) ==
  \A i \in 1..Len(data) : data[i] = text[Len(chain) + bufferLength + i]
Blocks(n) == \E q \in Nat : n = BlockSize * q

(* update() loses no byte, and none gets out of place; whole blocks are    *)
(* processed.                                                              *)
LEMMA AbsorbAll ==
  ASSUME BufferTypes, NEW data \in Seq(Nat), Absorb(data)
  PROVE  /\ BufferTypes'
         /\ Len(chain') + bufferLength' = Len(chain) + bufferLength + Len(data)
         /\ \A text : Holds(text) /\ Follows(text, data) => Holds(text)'
         /\ Blocks(Len(chain)) => Blocks(Len(chain'))
<1> DEFINE size == Len(data)
           c == Len(chain)
           b == bufferLength
           t == Taken(size)
           w == Whole(size)
           r == Rest(size)
           whole == Completes(size)
           filled == Copied(buffer, b, data, 0, t)
           first == IF whole THEN filled ELSE <<>>
           blocks == SubSeq(data, t + 1, t + w)
           added == first \o blocks
<1>1. /\ size \in Nat /\ c \in Nat /\ b \in Nat /\ b < BlockSize
      /\ t \in Nat /\ w \in Nat /\ r \in Nat /\ t <= size /\ r < BlockSize
      /\ b + t <= BlockSize
      /\ size = t + w + r
  <2>1. /\ size \in Nat /\ c \in Nat /\ b \in Nat /\ b < BlockSize
    BY DEF BufferTypes
  <2> HIDE DEF size, c, b
  <2>2. /\ t \in Nat /\ t <= size /\ bufferLength + t <= BlockSize
        /\ w \in Nat /\ r \in Nat /\ r < BlockSize
        /\ size = t + w + r
    BY <2>1, Cut
  <2>3. QED
    BY <2>1, <2>2 DEF b
<1>2. /\ whole \in BOOLEAN
      /\ whole <=> b > 0 /\ b + t = BlockSize
      /\ ~whole /\ b > 0 => t = size
      /\ b = 0 => t = 0
  BY <1>1, Cut DEF Completes
<1>3. /\ chain' = chain \o added
      /\ buffer' = Copied(filled, 0, data, t + w, r)
      /\ bufferLength' = IF r > 0 THEN r ELSE IF whole THEN 0 ELSE b + t
  BY DEF Absorb, ProcessBlocks
<1>4. ASSUME NEW i \in 1..BlockSize
      PROVE  /\ filled[i] = IF b < i /\ i <= b + t THEN data[i - b] ELSE buffer[i]
             /\ filled[i] \in Nat
  <2>1. filled[i] = IF b < i /\ i <= b + t THEN data[0 + i - b] ELSE buffer[i]
    BY DEF Copied
  <2>2. 0 + i - b = i - b
    BY <1>1
  <2>3. b < i /\ i <= b + t => i - b \in 1..Len(data)
    BY <1>1
  <2>4. buffer[i] \in Nat
    BY DEF BufferTypes
  <2>5. QED
    BY <2>1, <2>2, <2>3, <2>4
<1>5. filled \in [1..BlockSize -> Nat]
  <2>1. filled = [i \in 1..BlockSize |-> filled[i]]
    BY DEF Copied
  <2>2. QED
    BY <1>4, <2>1
<1>6. ASSUME NEW i \in 1..BlockSize
      PROVE  /\ buffer'[i] = IF i <= r THEN data[t + w + i] ELSE filled[i]
             /\ buffer'[i] \in Nat
  <2>1. buffer'[i] = IF 0 < i /\ i <= 0 + r THEN data[t + w + i - 0] ELSE filled[i]
    BY <1>3 DEF Copied
  <2>2. t + w + i - 0 = t + w + i /\ 0 < i /\ 0 + r = r
    BY <1>1
  <2>3. i <= r => t + w + i \in 1..Len(data)
    BY <1>1
  <2>4. QED
    BY <1>4, <2>1, <2>2, <2>3
<1>7. buffer' \in [1..BlockSize -> Nat]
  <2>1. buffer' = [i \in 1..BlockSize |-> buffer'[i]]
    BY <1>3 DEF Copied
  <2>2. QED
    BY <1>6, <2>1
<1> HIDE DEF filled
<1>8. filled \in Seq(Nat) /\ Len(filled) = BlockSize
  BY <1>5
<1> HIDE DEF t, w, r, whole
<1>9. /\ blocks \in Seq(Nat) /\ Len(blocks) = w
      /\ \A i \in 1..w : blocks[i] = data[t + i]
  <2>1. t + 1 \in 1..Len(data) + 1 /\ t + w \in 0..Len(data)
    BY <1>1
  <2>2. /\ blocks \in Seq(Nat)
        /\ Len(blocks) = IF t + 1 <= t + w THEN t + w - (t + 1) + 1 ELSE 0
        /\ \A i \in 1..t + w - (t + 1) + 1 : blocks[i] = data[t + 1 + i - 1]
    <3>1. t + 1 \in Int /\ t + w \in Int /\ \A i \in t + 1..t + w : data[i] \in Nat
      BY <1>1, <2>1
    <3> DEFINE m == t + 1
               n == t + w
    <3>2. blocks = SubSeq(data, m, n) /\ m \in Int /\ n \in Int
          /\ \A i \in m..n : data[i] \in Nat
      BY <3>1
    <3> HIDE DEF m, n, blocks
    <3>3. /\ blocks \in Seq(Nat)
          /\ Len(blocks) = IF m <= n THEN n - m + 1 ELSE 0
          /\ \A i \in 1..n - m + 1 : blocks[i] = data[m + i - 1]
      BY <3>2, SubSeqProperties
    <3>4. m = t + 1 /\ n = t + w /\ t \in Nat /\ w \in Nat
      BY <1>1 DEF m, n
    <3> HIDE DEF size, c, b, first, added
    <3>5. Len(blocks) = IF t + 1 <= t + w THEN t + w - (t + 1) + 1 ELSE 0
      BY <3>3, <3>4
    <3>6. ASSUME NEW i \in 1..t + w - (t + 1) + 1
          PROVE  blocks[i] = data[t + 1 + i - 1]
      BY <3>3, <3>4
    <3>7. QED
      BY <3>3, <3>5, <3>6
  <2> HIDE DEF blocks
  <2>3. /\ t + w - (t + 1) + 1 = w /\ (~(t + 1 <= t + w) => w = 0)
        /\ \A i \in 1..w : t + 1 + i - 1 = t + i
    BY <1>1
  <2>4. QED
    BY <1>1, <2>2, <2>3
<1>10. first \in Seq(Nat) /\ Len(first) = IF whole THEN BlockSize ELSE 0
  BY <1>2, <1>8
<1> HIDE DEF blocks, first
<1>11. /\ added \in Seq(Nat) /\ Len(added) = Len(first) + w
       /\ \A i \in 1..Len(first) + w :
            added[i] = IF i <= Len(first) THEN first[i] ELSE blocks[i - Len(first)]
  BY <1>9, <1>10, ConcatProperties
<1> HIDE DEF added
<1>12. /\ chain' \in Seq(Nat) /\ Len(chain') = c + Len(first) + w
       /\ \A i \in 1..c + Len(first) + w :
            chain'[i] = IF i <= c THEN chain[i] ELSE added[i - c]
  <2>1. /\ chain \o added \in Seq(Nat) /\ Len(chain \o added) = c + Len(added)
        /\ \A i \in 1..c + Len(added) :
             (chain \o added)[i] = IF i <= c THEN chain[i] ELSE added[i - c]
    BY <1>11, ConcatProperties DEF BufferTypes
  <2>2. c + Len(added) = c + Len(first) + w
    BY <1>1, <1>10, <1>11
  <2>3. QED
    BY <1>3, <2>1, <2>2
<1> DEFINE f == Len(first)
<1>13. f \in Nat /\ f = (IF whole THEN BlockSize ELSE 0) /\ (r > 0 \/ w > 0 => b + t = f)
  BY <1>1, <1>2, <1>10
<1>14. bufferLength' \in Nat /\ bufferLength' < BlockSize
       /\ f + w + bufferLength' = b + size
  <2>1. CASE whole
    BY <1>1, <1>2, <1>3, <1>13, <2>1
  <2>2. CASE ~whole /\ b = 0
    BY <1>1, <1>2, <1>3, <1>13, <2>2
  <2>3. CASE ~whole /\ b > 0
    BY <1>1, <1>2, <1>3, <1>13, <2>3
  <2>4. QED
    BY <1>1, <1>2, <2>1, <2>2, <2>3
<1>15. BufferTypes'
  BY <1>7, <1>12, <1>14 DEF BufferTypes
<1>16. Len(chain') + bufferLength' = Len(chain) + bufferLength + Len(data)
  <2>1. PICK z \in Nat : z = bufferLength'
    BY <1>14
  <2>2. PICK n \in Nat : n = Len(chain')
    BY <1>12
  <2>3. f + w + z = b + size
    BY <1>14, <2>1
  <2>4. n = c + f + w
    BY <1>12, <2>2
  <2> HIDE DEF size, c, b, f
  <2>5. n + z = c + b + size
    BY <1>1, <1>13, <2>3, <2>4
  <2>6. Len(chain') + bufferLength' = c + b + size
    BY <2>1, <2>2, <2>5, Zenon
  <2>7. QED
    BY <2>6, Zenon DEF c, b, size
<1>17. ASSUME NEW text, Holds(text), Follows(text, data) PROVE Holds(text)'
  <2>1. ASSUME NEW i \in 1..BlockSize, i <= b + t PROVE filled[i] = text[c + i]
    <3>1. CASE i <= b
      <4>1. buffer[i] = text[c + i]
        BY <1>1, <1>17, <3>1 DEF Holds
      <4>2. QED
        BY <1>1, <1>4, <3>1, <4>1
    <3>2. CASE b < i
      <4>1. i - b \in 1..Len(data)
        BY <1>1, <2>1, <3>2
      <4>2. data[i - b] = text[c + b + (i - b)]
        BY <1>17, <4>1 DEF Follows
      <4>3. c + b + (i - b) = c + i
        BY <1>1
      <4>4. QED
        BY <1>1, <1>4, <2>1, <3>2, <4>2, <4>3
    <3>3. QED
      BY <1>1, <3>1, <3>2
  <2>2. ASSUME NEW i \in 1..Len(chain') PROVE chain'[i] = text[i]
    <3>1. i \in 1..c + f + w
      BY <1>12
    <3>2. CASE i <= c
      <4>1. chain'[i] = chain[i] /\ i \in 1..Len(chain)
        BY <1>1, <1>12, <3>1, <3>2
      <4>2. QED
        BY <1>17, <4>1 DEF Holds
    <3>3. CASE c < i /\ i <= c + f
      <4>1. i - c \in 1..BlockSize /\ i - c <= f /\ i - c \in 1..f + w /\ whole
        BY <1>1, <1>13, <3>1, <3>3
      <4>2. chain'[i] = added[i - c]
        <5>1. ~(i <= c)
          BY <1>1, <3>1, <3>3
        <5>2. QED
          BY <1>12, <3>1, <5>1
      <4>2a. added[i - c] = first[i - c]
        BY <1>11, <4>1
      <4>3. first[i - c] = filled[i - c]
        BY <4>1 DEF first
      <4>4. filled[i - c] = text[c + (i - c)]
        BY <1>1, <1>2, <2>1, <4>1
      <4>5. c + (i - c) = i
        BY <1>1, <3>1
      <4>6. QED
        BY <4>2, <4>2a, <4>3, <4>4, <4>5
    <3>4. CASE c + f < i
      <4>1. /\ i - c \in 1..f + w /\ ~(i - c <= f) /\ ~(i <= c)
            /\ i - c - f \in 1..w
        BY <1>1, <1>13, <3>1, <3>4
      <4>2. chain'[i] = added[i - c] /\ added[i - c] = blocks[i - c - f]
        BY <1>11, <1>12, <3>1, <4>1
      <4>3. blocks[i - c - f] = data[t + (i - c - f)]
        BY <1>9, <4>1
      <4>4. t + (i - c - f) \in 1..Len(data) /\ w > 0
        BY <1>1, <4>1
      <4>5. data[t + (i - c - f)] = text[c + b + (t + (i - c - f))]
        BY <1>17, <4>4 DEF Follows
      <4>6. c + b + (t + (i - c - f)) = i
        <5>1. b + t = f /\ i \in Nat
          BY <1>13, <3>1, <4>4
        <5> HIDE DEF c, b, f, size
        <5>2. QED
          BY <1>1, <1>13, <5>1
      <4>7. QED
        BY <4>2, <4>3, <4>5, <4>6
    <3>5. QED
      BY <1>1, <1>13, <3>1, <3>2, <3>3, <3>4
  <2>3. ASSUME NEW i \in 1..bufferLength' PROVE buffer'[i] = text[Len(chain') + i]
    <3>1. i \in 1..BlockSize
      BY <1>14
    <3>2. CASE r > 0
      <4>1. i <= r /\ b + t = f /\ t + w + i \in 1..Len(data)
        BY <1>1, <1>3, <1>13, <3>2
      <4>2. data[t + w + i] = text[c + b + (t + w + i)]
        BY <1>17, <4>1 DEF Follows
      <4>3. buffer'[i] = data[t + w + i]
        BY <1>6, <3>1, <4>1
      <4>4. c + b + (t + w + i) = c + f + w + i
        BY <1>1, <1>13, <3>1, <4>1
      <4>5. QED
        BY <1>12, <4>2, <4>3, <4>4
    <3>3. CASE r = 0
      <4>1. ~whole /\ bufferLength' = b + t /\ i <= b + t /\ ~(i <= r)
        BY <1>1, <1>2, <1>3, <3>3
      <4>2. b > 0
        BY <1>1, <1>2, <4>1
      <4>3. w = 0 /\ f = 0
        BY <1>1, <1>2, <1>13, <3>3, <4>1, <4>2
      <4>4. buffer'[i] = filled[i] /\ filled[i] = text[c + i]
        BY <1>6, <2>1, <3>1, <4>1
      <4>5. Len(chain') = c
        BY <1>1, <1>12, <4>3
      <4>6. QED
        BY <4>4, <4>5
    <3>4. QED
      BY <1>1, <3>2, <3>3
  <2>4. QED
    BY <2>2, <2>3 DEF Holds
<1>18. ASSUME Blocks(Len(chain)) PROVE Blocks(Len(chain'))
  <2>1. PICK q \in Nat : c = BlockSize * q
    BY <1>18 DEF Blocks
  <2>2. PICK k \in Nat : w = BlockSize * k
    <3>1. Whole(size) = BlockSize * ((size - Taken(size)) \div BlockSize)
      BY DEF Whole
    <3>2. size - Taken(size) \in Nat
      BY <1>1 DEF t
    <3>3. (size - Taken(size)) \div BlockSize \in Nat
      BY <3>2
    <3>4. QED
      BY <3>1, <3>3 DEF w
  <2>3. PICK j \in Nat : f = BlockSize * j
    <3>1. BlockSize * 0 = 0 /\ BlockSize * 1 = BlockSize
      OBVIOUS
    <3>2. QED
      BY <1>13, <3>1
  <2>4. Len(chain') = c + f + w
    BY <1>12
  <2> HIDE DEF c, f
  <2>5. BlockSize * (q + j + k) = BlockSize * q + BlockSize * j + BlockSize * k
    OBVIOUS
  <2>6. Len(chain') = BlockSize * (q + j + k) /\ q + j + k \in Nat
    BY <2>1, <2>2, <2>3, <2>4, <2>5
  <2>7. QED
    BY <2>6 DEF Blocks
<1>19. QED
  BY <1>15, <1>16, <1>17, <1>18

-----------------------------------------------------------------------------
(* Every step keeps the inductive invariant.                               *)
LEMMA HashStep == HashInv /\ [HashNext]_hashVars => HashInv'
<1> SUFFICES ASSUME HashInv, [HashNext]_hashVars PROVE HashInv'
  OBVIOUS
<1>1. ASSUME NEW size \in 0..MaxMessage, Update(size) PROVE HashInv'
  <2> DEFINE data == [i \in 1..size |-> message + i]
  <2>1. /\ usage = "open" /\ usage' = "open" /\ BufferTypes
        /\ message \in Nat /\ totalLength = message /\ size \in Nat
        /\ message' = message + size /\ totalLength' = totalLength + size
        /\ Absorb(data)
    BY <1>1 DEF Update, HashInv, BufferHoldsTail
  <2> DEFINE text == [i \in Nat |-> i]
  <2>2. Len(chain) + bufferLength = message /\ Holds(text)
    BY <2>1 DEF HashInv, BufferHoldsTail, Holds, BufferTypes
  <2>3. data \in Seq(Nat) /\ Len(data) = size /\ \A i \in 1..size : data[i] = message + i
    BY <2>1
  <2> HIDE DEF data
  <2>4. Follows(text, data)
    BY <2>1, <2>2, <2>3 DEF Follows
  <2>5. /\ BufferTypes' /\ Holds(text)'
        /\ Len(chain') + bufferLength' = Len(chain) + bufferLength + size
    BY <2>1, <2>2, <2>3, <2>4, AbsorbAll
  <2>6. Len(chain') + bufferLength' = message'
    BY <2>1, <2>2, <2>5
  <2>7. message' \in Nat /\ totalLength' = message' /\ bufferLength' < BlockSize
    BY <2>1, <2>5 DEF BufferTypes
  <2>8. /\ \A i \in 1..Len(chain') : chain'[i] = i
        /\ \A i \in 1..bufferLength' : buffer'[i] = Len(chain') + i
    <3>1. Len(chain') \in Nat /\ bufferLength' \in Nat
      BY <2>5 DEF BufferTypes
    <3>2. /\ \A i \in 1..Len(chain') : chain'[i] = text[i]
          /\ \A i \in 1..bufferLength' : buffer'[i] = text[Len(chain') + i]
      BY <2>5 DEF Holds
    <3>3. \A i \in Nat : text[i] = i
      OBVIOUS
    <3> HIDE DEF text
    <3>4. QED
      BY <3>1, <3>2, <3>3
  <2>9. QED
    BY <2>1, <2>5, <2>6, <2>7, <2>8 DEF HashInv, BufferHoldsTail
<1>2. ASSUME NEW byte \in Nat, usage \in {"open", "padding"}, usage' = "padding",
             Absorb(<<byte>>), totalLength' = totalLength + 1 - 1, UNCHANGED message
      PROVE  HashInv'
  <2>1. BufferTypes /\ totalLength = message /\ message \in Nat
    BY <1>2 DEF HashInv, BufferHoldsTail
  <2>2. BufferTypes'
    <3> DEFINE data == <<byte>>
    <3>1. data \in Seq(Nat) /\ Absorb(data)
      BY <1>2
    <3> HIDE DEF data
    <3>2. QED
      BY <2>1, <3>1, AbsorbAll
  <2>3. totalLength' = message' /\ message' \in Nat /\ bufferLength' < BlockSize
    BY <1>2, <2>1, <2>2 DEF BufferTypes
  <2>4. QED
    BY <1>2, <2>2, <2>3 DEF HashInv, BufferHoldsTail
<1>3. CASE FinalizeBegins
  BY <1>2, <1>3 DEF FinalizeBegins
<1>4. CASE PadZero
  BY <1>2, <1>4 DEF PadZero
<1>5. CASE FinalizeEnds
  BY <1>5 DEF FinalizeEnds, HashInv, BufferHoldsTail
<1>6. CASE Reset
  <2>1. /\ chain' = <<>> /\ bufferLength' = 0 /\ usage' = "open"
        /\ totalLength' = 0 /\ message' = 0
        /\ buffer' = [i \in 1..BlockSize |-> 0]
    BY <1>6 DEF Reset
  <2>2. BufferTypes'
    <3>1. chain' \in Seq(Nat)
      BY <2>1
    <3>2. buffer' \in [1..BlockSize -> Nat]
      BY <2>1
    <3>3. bufferLength' \in Nat /\ bufferLength' < BlockSize
      BY <2>1
    <3>4. QED
      BY <3>1, <3>2, <3>3 DEF BufferTypes
  <2>3. QED
    BY <2>1, <2>2 DEF HashInv, BufferHoldsTail
<1>7. CASE UNCHANGED hashVars
  BY <1>7 DEF hashVars, HashInv, BufferHoldsTail, BufferTypes
<1>8. QED
  BY <1>1, <1>3, <1>4, <1>5, <1>6, <1>7 DEF HashNext

(* However a message is cut into update() calls, whatever its length and   *)
(* the block's, blocks and buffer hold every byte of it once, in order.    *)
THEOREM NoByteIsLost == HashSpec => []BufferHoldsTail
<1>1. HashInit => HashInv
  BY DEF HashInit, HashInv, BufferHoldsTail, BufferTypes
<1>2. HashInv => BufferHoldsTail
  BY DEF HashInv
<1>3. QED
  BY <1>1, <1>2, HashStep, PTL DEF HashSpec

-----------------------------------------------------------------------------
(* What chain and buffer hold during finalize(): the message, the padding  *)
(* byte, zeros.                                                            *)
Padded(n) == [i \in Nat |-> IF i <= n THEN i ELSE IF i = n + 1 THEN Pad ELSE 0]

(* The invariant of finalize(): so many zeros so far, and no fewer would   *)
(* have brought the length field to the end of a block.                    *)
Zeros(z) ==
  /\ Len(chain) + bufferLength = message + 1 + z
  /\ \A y \in 0..(z - 1) : ~Blocks(message + 1 + y + LengthSize)

DigestInv ==
  /\ usage # "final" => Blocks(Len(chain))
  /\ usage = "padding" => /\ Holds(Padded(message))
                          /\ bitLength = 8 * message
                          /\ \E z \in Nat : Zeros(z)
  /\ DigestIsOfMessage

(* The remainder is 0 of multiples alone.                                  *)
LEMMA MultiplesApart ==
  ASSUME NEW k \in Nat \ {0}, NEW p \in Nat, NEW q \in Nat, k * p < k * q + k
  PROVE  p <= q
<1>1. ASSUME p >= q + 1 PROVE FALSE
  <2>1. PICK d \in Nat : p = q + 1 + d
    <3>1. p - (q + 1) \in Nat /\ p = q + 1 + (p - (q + 1))
      BY <1>1
    <3>2. QED
      BY <3>1
  <2>2. k * (q + 1 + d) = k * q + k + k * d /\ k * d \in Nat /\ k * q \in Nat
    OBVIOUS
  <2>3. QED
    BY <2>1, <2>2
<1>2. QED
  BY <1>1

LEMMA NoRemainder ==
  ASSUME NEW n \in Nat
  PROVE  n % BlockSize = 0 <=> Blocks(n)
<1> DEFINE d == n \div BlockSize
           m == n % BlockSize
<1>1. d \in Nat /\ m \in Nat /\ m < BlockSize /\ n = BlockSize * d + m
  BY SMT
<1> HIDE DEF d, m
<1>2. ASSUME m = 0 PROVE Blocks(n)
  BY <1>1, <1>2 DEF Blocks
<1>3. ASSUME Blocks(n) PROVE m = 0
  <2>1. PICK q \in Nat : n = BlockSize * q
    BY <1>3 DEF Blocks
  <2>2. BlockSize * d \in Nat /\ BlockSize * q \in Nat /\ BlockSize \in Nat \ {0}
    BY <1>1
  <2>3. BlockSize * d < BlockSize * q + BlockSize /\ BlockSize * q < BlockSize * d + BlockSize
    BY <1>1, <2>1, <2>2
  <2>4. d <= q /\ q <= d
    BY <1>1, <2>2, <2>3, MultiplesApart
  <2>5. d = q
    BY <1>1, <2>4
  <2>6. QED
    BY <1>1, <2>1, <2>2, <2>5
<1>4. QED
  BY <1>2, <1>3 DEF m

(* Some number of zeros, less than a block, fills the block up.            *)
LEMMA BlocksCanBeFilled ==
  ASSUME NEW n \in Nat
  PROVE  \E e \in Nat : e < BlockSize /\ Blocks(n + e)
<1> DEFINE d == n \div BlockSize
           m == n % BlockSize
<1>1. d \in Nat /\ m \in Nat /\ m < BlockSize /\ n = BlockSize * d + m
  BY SMT
<1> HIDE DEF d, m
<1>2. CASE m = 0
  BY <1>1, <1>2 DEF Blocks
<1>3. CASE m # 0
  <2>1. PICK e \in Nat : e = BlockSize - m
    BY <1>1
  <2>2. e < BlockSize
    BY <1>1, <1>3, <2>1
  <2>3. BlockSize * (d + 1) = BlockSize * d + BlockSize /\ BlockSize * d \in Nat
    BY <1>1
  <2>4. n + e = BlockSize * (d + 1)
    BY <1>1, <2>1, <2>3
  <2>5. Blocks(n + e)
    <3>1. d + 1 \in Nat
      BY <1>1
    <3>2. QED
      BY <2>4, <3>1 DEF Blocks
  <2>6. QED
    BY <2>2, <2>5
<1>4. QED
  BY <1>2, <1>3

(* The zeros of the padded message are the fewest that fill its block.     *)
LEMMA FewestZeros ==
  ASSUME NEW n \in Nat, NEW z \in Nat, Blocks(n + 1 + z + LengthSize),
         \A y \in 0..(z - 1) : ~Blocks(n + 1 + y + LengthSize)
  PROVE  z = CHOOSE y \in 0..(BlockSize - 1) : (n + 1 + y + LengthSize) % BlockSize = 0
<1> DEFINE zeros == {y \in 0..(BlockSize - 1) : (n + 1 + y + LengthSize) % BlockSize = 0}
<1>1. z < BlockSize
  <2>1. PICK e \in Nat : e < BlockSize /\ Blocks((n + 1 + LengthSize) + e)
    <3>1. n + 1 + LengthSize \in Nat
      OBVIOUS
    <3>2. QED
      BY <3>1, BlocksCanBeFilled
  <2>2. (n + 1 + LengthSize) + e = n + 1 + e + LengthSize
    OBVIOUS
  <2>3. e \notin 0..(z - 1)
    BY <2>1, <2>2
  <2>4. QED
    BY <2>1, <2>3
<1>2. \A y \in 0..(BlockSize - 1) :
        (n + 1 + y + LengthSize) % BlockSize = 0 <=> Blocks(n + 1 + y + LengthSize)
  <2>1. \A y \in 0..(BlockSize - 1) : n + 1 + y + LengthSize \in Nat
    OBVIOUS
  <2>2. QED
    BY <2>1, NoRemainder
<1>3. z \in zeros
  BY <1>1, <1>2
<1>4. ASSUME NEW y \in zeros PROVE y = z
  <2>1. y \in Nat /\ y < BlockSize /\ Blocks(n + 1 + y + LengthSize)
    BY <1>2
  <2>2. PICK p \in Nat : n + 1 + y + LengthSize = BlockSize * p
    BY <2>1 DEF Blocks
  <2>3. PICK q \in Nat : n + 1 + z + LengthSize = BlockSize * q
    BY DEF Blocks
  <2>4. BlockSize * p \in Nat /\ BlockSize * q \in Nat /\ BlockSize \in Nat \ {0}
    OBVIOUS
  <2>5. BlockSize * p < BlockSize * q + BlockSize /\ BlockSize * q < BlockSize * p + BlockSize
    BY <1>1, <2>1, <2>2, <2>3, <2>4
  <2>6. p <= q /\ q <= p
    BY <2>4, <2>5, MultiplesApart
  <2>7. p = q
    BY <2>6
  <2>8. QED
    BY <2>1, <2>2, <2>3, <2>7
<1>5. (CHOOSE y \in 0..(BlockSize - 1) : (n + 1 + y + LengthSize) % BlockSize = 0) = z
  BY <1>3, <1>4
<1>6. QED
  BY <1>5

(* Sequences, as the proof reads them.                                     *)
LEMMA FunctionsAreSequences ==
  ASSUME NEW S, NEW m \in Nat, NEW s \in [1..m -> S]
  PROVE  s \in Seq(S) /\ Len(s) = m
  OBVIOUS

IsJoin(u, S, s, m, t, k) ==
  /\ u \in Seq(S) /\ Len(u) = m + k
  /\ \A i \in 1..m : u[i] = s[i]
  /\ \A i \in 1..k : u[m + i] = t[i]

LEMMA Joined ==
  ASSUME NEW S, NEW s \in Seq(S), NEW t \in Seq(S), NEW m \in Nat, NEW k \in Nat,
         Len(s) = m, Len(t) = k
  PROVE  IsJoin(s \o t, S, s, m, t, k)
<1>1. /\ s \o t \in Seq(S) /\ Len(s \o t) = m + k
      /\ \A i \in 1..(m + k) : (s \o t)[i] = IF i <= m THEN s[i] ELSE t[i - m]
  BY ConcatProperties
<1>2. \A i \in 1..m : i \in 1..(m + k) /\ i <= m
  OBVIOUS
<1>3. \A i \in 1..k : m + i \in 1..(m + k) /\ ~(m + i <= m) /\ (m + i) - m = i
  OBVIOUS
<1>4. QED
  BY <1>1, <1>2, <1>3 DEF IsJoin

(* The last block completes the padded message.                            *)
LEMMA LastBlock ==
  ASSUME HashInv, DigestInv, FinalizeEnds
  PROVE  (chain = PaddedMessage(message))'
<1> DEFINE n == message
           c == Len(chain)
           tail == BlockSize - LengthSize
           length == LengthBytes(8 * n)
<1>1. /\ usage = "padding" /\ bufferLength = tail /\ message' = message
      /\ buffer' = Copied(buffer, tail, length, 0, LengthSize)
      /\ chain' = chain \o buffer'
      /\ Blocks(c) /\ Holds(Padded(n)) /\ BufferTypes /\ n \in Nat
  BY DEF FinalizeEnds, ProcessBlocks, DigestInv, HashInv
<1>2. PICK z \in Nat : Zeros(z)
  BY <1>1 DEF DigestInv
<1>3. c \in Nat /\ tail \in Nat /\ c + tail = n + 1 + z /\ tail + LengthSize = BlockSize
  BY <1>1, <1>2 DEF Zeros, BufferTypes
<1>4. z = CHOOSE y \in 0..(BlockSize - 1) : (n + 1 + y + LengthSize) % BlockSize = 0
  <2>1. Blocks(n + 1 + z + LengthSize)
    <3>1. PICK q \in Nat : c = BlockSize * q
      BY <1>1 DEF Blocks
    <3>2. BlockSize * (q + 1) = BlockSize * q + BlockSize /\ q + 1 \in Nat
      OBVIOUS
    <3>3. n + 1 + z + LengthSize = BlockSize * (q + 1)
      BY <1>1, <1>3, <3>1, <3>2
    <3>4. QED
      BY <3>2, <3>3 DEF Blocks
  <2>2. QED
    BY <1>1, <1>2, <2>1, FewestZeros DEF Zeros
<1> DEFINE Q == Nat \cup {length[i] : i \in 1..LengthSize}
           ones == [i \in 1..n |-> i]
           pad == <<Pad>>
           zeros == [i \in 1..z |-> 0]
<1>5. PaddedMessage(n) = ones \o pad \o zeros \o length
  BY <1>4 DEF PaddedMessage
<1>6. length \in Seq(Q) /\ Len(length) = LengthSize
  <2>1. length = [i \in 1..LengthSize |-> length[i]]
    BY DEF LengthBytes
  <2>2. length \in [1..LengthSize -> Q]
    BY <2>1
  <2> HIDE DEF length, Q
  <2>3. QED
    BY <2>2
<1>7. /\ ones \in Seq(Q) /\ Len(ones) = n /\ pad \in Seq(Q) /\ Len(pad) = 1
      /\ zeros \in Seq(Q) /\ Len(zeros) = z
  <2>1. ones \in [1..n -> Q] /\ zeros \in [1..z -> Q] /\ Pad \in Q /\ n \in Nat
    BY <1>1
  <2>2. pad \in Seq(Q) /\ Len(pad) = 1
    <3> HIDE DEF Q
    <3>1. QED
      BY <2>1
  <2> HIDE DEF Q, ones, zeros, n
  <2>3. QED
    BY <2>1, <2>2, FunctionsAreSequences
<1>8. chain \in Seq(Q) /\ buffer' \in Seq(Q) /\ Len(buffer') = BlockSize
  <2>1. chain \in Seq(Q)
    <3>1. chain \in Seq(Nat) /\ Nat \subseteq Q
      BY <1>1 DEF BufferTypes
    <3> HIDE DEF Q
    <3>2. QED
      BY <3>1, SeqMonotonic
  <2>2. buffer' \in [1..BlockSize -> Q]
    <3>1. ASSUME NEW i \in 1..BlockSize
          PROVE  (IF tail < i /\ i <= tail + LengthSize THEN length[0 + i - tail]
                  ELSE buffer[i]) \in Q
      <4>1. CASE tail < i
        <5>1. 0 + i - tail \in 1..LengthSize /\ i <= tail + LengthSize
          BY <1>3, <4>1
        <5>2. QED
          BY <4>1, <5>1
      <4>2. CASE ~(tail < i)
        BY <1>1, <4>2 DEF BufferTypes
      <4>3. QED
        BY <4>1, <4>2
    <3>2. QED
      BY <1>1, <3>1 DEF Copied
  <2> HIDE DEF Q
  <2>3. QED
    BY <2>1, <2>2, FunctionsAreSequences
<1>9. /\ \A i \in 1..tail : buffer'[i] = buffer[i]
      /\ \A i \in 1..LengthSize : buffer'[tail + i] = length[i]
  <2>1. \A i \in 1..BlockSize : buffer'[i] = IF tail < i /\ i <= tail + LengthSize
                                             THEN length[0 + i - tail] ELSE buffer[i]
    BY <1>1 DEF Copied
  <2>2. \A i \in 1..tail : i \in 1..BlockSize /\ ~(tail < i)
    BY <1>3
  <2>3. \A i \in 1..LengthSize : /\ tail + i \in 1..BlockSize /\ tail < tail + i
                                 /\ tail + i <= tail + LengthSize /\ 0 + (tail + i) - tail = i
    BY <1>3
  <2>4. QED
    BY <2>1, <2>2, <2>3
<1>14. c + BlockSize = n + 1 + z + LengthSize /\ n \in Nat
  BY <1>1, <1>3
<1> HIDE DEF n, c, tail, length, Q, ones, pad, zeros
<1> DEFINE s2 == ones \o pad
           s3 == s2 \o zeros
           s4 == s3 \o length
<1>10. /\ s2 \in Seq(Q) /\ Len(s2) = n + 1
       /\ \A i \in 1..n : s2[i] = ones[i]
       /\ \A i \in 1..1 : s2[n + i] = pad[i]
  <2>1. PICK k \in Nat, m \in Nat : k = 1 /\ m = n
    BY <1>14
  <2>2. Len(ones) = m /\ Len(pad) = k
    BY <1>7, <2>1
  <2>3. IsJoin(s2, Q, ones, m, pad, k)
    BY <1>7, <2>2, Joined
  <2> HIDE DEF s2
  <2>4. QED
    BY <2>1, <2>3 DEF IsJoin
<1> HIDE DEF s2
<1>11. /\ s3 \in Seq(Q) /\ Len(s3) = n + 1 + z
       /\ \A i \in 1..(n + 1) : s3[i] = s2[i]
       /\ \A i \in 1..z : s3[n + 1 + i] = zeros[i]
  <2>1. PICK m \in Nat : m = n + 1
    BY <1>14
  <2>2. Len(s2) = m
    BY <1>10, <2>1
  <2>3. IsJoin(s3, Q, s2, m, zeros, z)
    BY <1>7, <1>10, <2>2, Joined
  <2> HIDE DEF s3
  <2>4. QED
    BY <2>1, <2>3 DEF IsJoin
<1> HIDE DEF s3
<1>12. /\ s4 \in Seq(Q) /\ Len(s4) = n + 1 + z + LengthSize
       /\ \A i \in 1..(n + 1 + z) : s4[i] = s3[i]
       /\ \A i \in 1..LengthSize : s4[n + 1 + z + i] = length[i]
  <2>1. PICK m \in Nat, k \in Nat : m = n + 1 + z /\ k = LengthSize
    BY <1>14
  <2>2. Len(s3) = m /\ Len(length) = k
    BY <1>6, <1>11, <2>1
  <2>3. IsJoin(s4, Q, s3, m, length, k)
    BY <1>6, <1>11, <2>2, Joined
  <2> HIDE DEF s4
  <2>4. QED
    BY <2>1, <2>3 DEF IsJoin
<1>13. /\ chain' \in Seq(Q) /\ Len(chain') = c + BlockSize
       /\ \A i \in 1..c : chain'[i] = chain[i]
       /\ \A i \in 1..BlockSize : chain'[c + i] = buffer'[i]
  <2>1. c = Len(chain) /\ c \in Nat
    BY <1>3 DEF c
  <2> DEFINE block == buffer'
  <2>2. block \in Seq(Q) /\ Len(block) = BlockSize /\ chain' = chain \o block
    BY <1>1, <1>8
  <2> HIDE DEF block
  <2>3. PICK m \in Nat, k \in Nat : m = c /\ k = BlockSize
    BY <2>1
  <2>4. Len(chain) = m /\ Len(block) = k
    BY <2>1, <2>2, <2>3
  <2>5. IsJoin(chain \o block, Q, chain, m, block, k)
    BY <1>8, <2>2, <2>4, Joined
  <2>6. /\ chain' \in Seq(Q) /\ Len(chain') = c + BlockSize
        /\ \A i \in 1..c : chain'[i] = chain[i]
        /\ \A i \in 1..BlockSize : chain'[c + i] = block[i]
    BY <2>2, <2>3, <2>5 DEF IsJoin
  <2>7. QED
    BY <2>6 DEF block
<1> HIDE DEF s4
<1>15. ASSUME NEW i \in 1..(n + 1 + z) PROVE s4[i] = Padded(n)[i]
  <2>1. Padded(n)[i] = IF i <= n THEN i ELSE IF i = n + 1 THEN Pad ELSE 0
    BY <1>14 DEF Padded
  <2>2. s4[i] = s3[i]
    BY <1>12
  <2>3. CASE i <= n
    <3>1. i \in 1..(n + 1) /\ i \in 1..n
      BY <1>14, <2>3
    <3>2. s3[i] = ones[i] /\ ones[i] = i
      BY <1>10, <1>11, <3>1 DEF ones
    <3>3. QED
      BY <2>1, <2>2, <2>3, <3>2
  <2>4. CASE i = n + 1
    <3>1. i \in 1..(n + 1) /\ ~(i <= n)
      BY <1>14, <2>4
    <3>2. s3[i] = s2[n + 1] /\ s2[n + 1] = pad[1] /\ pad[1] = Pad
      BY <1>10, <1>11, <2>4, <3>1 DEF pad
    <3>3. QED
      BY <2>1, <2>2, <2>4, <3>1, <3>2
  <2>5. CASE n + 1 < i
    <3>1. PICK j \in 1..z : i = n + 1 + j
      <4>1. i - (n + 1) \in 1..z /\ i = n + 1 + (i - (n + 1))
        BY <1>14, <2>5
      <4>2. QED
        BY <4>1
    <3>2. s3[i] = zeros[j] /\ zeros[j] = 0
      BY <1>11, <3>1 DEF zeros
    <3>3. ~(i <= n) /\ i # n + 1
      BY <1>14, <2>5
    <3>4. QED
      BY <2>1, <2>2, <3>2, <3>3
  <2>6. QED
    BY <1>14, <2>3, <2>4, <2>5
<1>16. ASSUME NEW i \in 1..(n + 1 + z) PROVE chain'[i] = Padded(n)[i]
  <2>1. CASE i <= c
    <3>1. i \in 1..c
      BY <1>3, <1>14, <2>1
    <3>2. QED
      BY <1>1, <1>13, <3>1 DEF Holds, c
  <2>2. CASE c < i
    <3>1. PICK j \in 1..tail : i = c + j
      <4>1. i - c \in 1..tail /\ i = c + (i - c)
        BY <1>3, <1>14, <2>2
      <4>2. QED
        BY <4>1
    <3>2. j \in 1..BlockSize
      BY <1>3
    <3>3. chain'[i] = buffer'[j] /\ buffer'[j] = buffer[j]
      BY <1>9, <1>13, <3>1, <3>2
    <3>4. buffer[j] = Padded(n)[c + j]
      BY <1>1, <3>1 DEF Holds, c
    <3>5. QED
      BY <3>1, <3>3, <3>4
  <2>3. QED
    BY <1>3, <1>14, <2>1, <2>2
<1>16a. ASSUME NEW j \in 1..LengthSize PROVE chain'[n + 1 + z + j] = s4[n + 1 + z + j]
  <2>1. n + 1 + z + j = c + (tail + j) /\ tail + j \in 1..BlockSize
    BY <1>3, <1>14
  <2>2. chain'[c + (tail + j)] = buffer'[tail + j]
    BY <1>13, <2>1
  <2>3. buffer'[tail + j] = length[j] /\ s4[n + 1 + z + j] = length[j]
    BY <1>9, <1>12
  <2>4. QED
    BY <2>1, <2>2, <2>3
<1>17. chain' = s4
  <2>1. ASSUME NEW i \in 1..(n + 1 + z + LengthSize) PROVE chain'[i] = s4[i]
    <3>1. CASE i \in 1..(n + 1 + z)
      BY <1>15, <1>16, <3>1
    <3>2. CASE n + 1 + z < i
      <4>1. PICK j \in 1..LengthSize : i = n + 1 + z + j
        <5>1. i - (n + 1 + z) \in 1..LengthSize /\ i = n + 1 + z + (i - (n + 1 + z))
          BY <1>14, <3>2
        <5>2. QED
          BY <5>1
      <4>2. QED
        BY <1>16a, <4>1
    <3>3. QED
      BY <1>14, <3>1, <3>2
  <2>2. \A i \in 1..(n + 1 + z + LengthSize) : chain'[i] = s4[i]
    BY <2>1
  <2>3. Len(chain') = Len(s4)
    BY <1>12, <1>13, <1>14
  <2>4. QED
    BY <1>12, <1>13, <2>2, <2>3, SeqEqual
<1>18. chain' = PaddedMessage(n)
  BY <1>5, <1>17 DEF s4, s3, s2
<1>19. QED
  BY <1>1, <1>18 DEF n, PaddedMessage, LengthBytes

(* finalize() pads as prescribed: with one more byte in the buffer, or     *)
(* with the length field where there is just room for it.                  *)
LEMMA PaddingStep ==
  ASSUME HashInv, NEW byte \in Nat, Absorb(<<byte>>), usage # "final",
         NEW z, z \in Nat \cup {-1},
         Len(chain) + bufferLength = message + 1 + z,
         Holds(Padded(message)), byte = Padded(message)[message + 1 + z + 1],
         Blocks(Len(chain)), UNCHANGED message,
         \A y \in 0..z : ~Blocks(message + 1 + y + LengthSize)
  PROVE  /\ Blocks(Len(chain')) /\ Holds(Padded(message))'
         /\ Zeros(z + 1)' /\ z + 1 \in Nat
<1> DEFINE data == <<byte>>
<1>0. PICK text : text = Padded(message)
  OBVIOUS
<1>1. data \in Seq(Nat) /\ Len(data) = 1 /\ data[1] = byte /\ BufferTypes /\ message \in Nat
  BY DEF HashInv
<1>2. Absorb(data)
  OBVIOUS
<1> HIDE DEF data
<1>3. Follows(text, data)
  <2>1. \A i \in 1..Len(data) : i = 1
    BY <1>1
  <2>2. message + 1 + z + 1 = Len(chain) + bufferLength + 1
    BY <1>1
  <2>3. QED
    BY <1>0, <1>1, <2>1, <2>2 DEF Follows
<1>4. /\ Holds(text)' /\ Blocks(Len(chain'))
      /\ Len(chain') + bufferLength' = Len(chain) + bufferLength + 1
  <2>1. Holds(text)
    BY <1>0
  <2>2. QED
    BY <1>1, <1>2, <1>3, <2>1, AbsorbAll
<1>5. z + 1 \in Nat /\ (z + 1) - 1 = z
  OBVIOUS
<1>6. Len(chain') + bufferLength' = message' + 1 + (z + 1)
  BY <1>1, <1>4
<1>7. Zeros(z + 1)'
  BY <1>5, <1>6 DEF Zeros, Blocks
<1>8. Holds(Padded(message))'
  <2>1. text = Padded(message')
    BY <1>0
  <2>2. /\ \A i \in 1..Len(chain') : chain'[i] = text[i]
        /\ \A i \in 1..bufferLength' : buffer'[i] = text[Len(chain') + i]
    BY <1>4 DEF Holds
  <2>3. /\ \A i \in 1..Len(chain') : chain'[i] = Padded(message')[i]
        /\ \A i \in 1..bufferLength' : buffer'[i] = Padded(message')[Len(chain') + i]
    BY <2>1, <2>2
  <2>4. QED
    BY <2>3 DEF Holds
<1>9. QED
  BY <1>4, <1>5, <1>7, <1>8

LEMMA DigestStep == HashInv /\ DigestInv /\ [HashNext]_hashVars => DigestInv'
<1> SUFFICES ASSUME HashInv, DigestInv, [HashNext]_hashVars PROVE DigestInv'
  OBVIOUS
<1>0. message \in Nat /\ totalLength = message /\ (usage # "final" => BufferTypes)
  BY DEF HashInv, BufferHoldsTail
<1>1. ASSUME NEW size \in 0..MaxMessage, Update(size) PROVE DigestInv'
  <2> DEFINE data == [i \in 1..size |-> message + i]
  <2>1. usage = "open" /\ usage' = "open" /\ Absorb(data) /\ data \in Seq(Nat)
    BY <1>0, <1>1 DEF Update
  <2> HIDE DEF data
  <2>2. Blocks(Len(chain'))
    BY <1>0, <2>1, AbsorbAll DEF DigestInv
  <2>3. QED
    BY <2>1, <2>2 DEF DigestInv, DigestIsOfMessage, Blocks
<1>2. CASE FinalizeBegins
  <2>1. /\ usage = "open" /\ usage' = "padding" /\ Absorb(<<Pad>>) /\ message' = message
        /\ bitLength' = 8 * message
    BY <1>0, <1>2 DEF FinalizeBegins
  <2>2. /\ Len(chain) + bufferLength = message
        /\ Len(chain) \in Nat /\ bufferLength \in Nat
        /\ \A i \in 1..Len(chain) : chain[i] = i
        /\ \A i \in 1..bufferLength : buffer[i] = Len(chain) + i
    BY <1>0, <2>1 DEF HashInv, BufferHoldsTail, BufferTypes
  <2>3. Holds(Padded(message))
    <3>1. \A i \in Nat : i <= message => Padded(message)[i] = i
      BY DEF Padded
    <3>2. QED
      BY <1>0, <2>2, <3>1 DEF Holds
  <2>4. Pad = Padded(message)[message + 1 + (-1) + 1]
    <3>1. message + 1 + (-1) + 1 = message + 1 /\ message + 1 \in Nat /\ ~(message + 1 <= message)
      BY <1>0
    <3>2. QED
      BY <3>1 DEF Padded
  <2>5. Len(chain) + bufferLength = message + 1 + (-1)
    BY <1>0, <2>2
  <2>6. \A y \in 0..(-1) : ~Blocks(message + 1 + y + LengthSize)
    OBVIOUS
  <2>7. PICK z \in {-1} : z = -1
    OBVIOUS
  <2>8. /\ Blocks(Len(chain')) /\ Holds(Padded(message))'
        /\ Zeros(z + 1)' /\ z + 1 \in Nat
    <3>1. Blocks(Len(chain)) /\ usage # "final" /\ z \in Nat \cup {-1}
      BY <2>1, <2>7 DEF DigestInv
    <3>2. /\ Len(chain) + bufferLength = message + 1 + z
          /\ Pad = Padded(message)[message + 1 + z + 1]
          /\ \A y \in 0..z : ~Blocks(message + 1 + y + LengthSize)
      BY <2>4, <2>5, <2>6, <2>7
    <3>3. QED
      BY <2>1, <2>3, <3>1, <3>2, PaddingStep
  <2>9. QED
    BY <2>1, <2>8 DEF DigestInv, DigestIsOfMessage, Blocks
<1>3. CASE PadZero
  <2>1. /\ usage = "padding" /\ usage' = "padding" /\ Absorb(<<0>>) /\ message' = message
        /\ bufferLength # BlockSize - LengthSize /\ bitLength' = bitLength
    BY <1>3 DEF PadZero
  <2>2. PICK z \in Nat : Zeros(z)
    BY <2>1 DEF DigestInv
  <2>3. /\ Blocks(Len(chain)) /\ Holds(Padded(message)) /\ bitLength = 8 * message
        /\ Len(chain) \in Nat /\ bufferLength \in Nat /\ bufferLength < BlockSize
    BY <1>0, <2>1 DEF DigestInv, BufferTypes
  <2>4. ~Blocks(message + 1 + z + LengthSize)
    <3>1. ASSUME Blocks(message + 1 + z + LengthSize) PROVE FALSE
      <4>1. PICK q \in Nat : message + 1 + z + LengthSize = BlockSize * q
        BY <3>1 DEF Blocks
      <4>2. PICK p \in Nat : Len(chain) = BlockSize * p
        BY <2>3 DEF Blocks
      <4>3. BlockSize * p + bufferLength + LengthSize = BlockSize * q
        BY <1>0, <2>2, <2>3, <4>1, <4>2 DEF Zeros
      <4>4. BlockSize * p \in Nat /\ BlockSize * q \in Nat /\ BlockSize \in Nat \ {0}
        OBVIOUS
      <4>5. BlockSize * (p + 1) = BlockSize * p + BlockSize
        OBVIOUS
      <4>6. BlockSize * q < BlockSize * (p + 1) + BlockSize
        BY <2>3, <4>3, <4>4, <4>5
      <4>7. q <= p + 1
        BY <4>4, <4>6, MultiplesApart
      <4>8. CASE q = p + 1
        <5>1. bufferLength + LengthSize = BlockSize
          BY <2>3, <4>3, <4>4, <4>5, <4>8
        <5>2. QED
          BY <2>1, <2>3, <5>1
      <4>9. CASE q <= p
        <5>1. BlockSize * p < BlockSize * q
          BY <2>3, <4>3, <4>4
        <5>2. PICK d \in Nat : p = q + d
          <6>1. p - q \in Nat /\ p = q + (p - q)
            BY <4>9
          <6>2. QED
            BY <6>1
        <5>3. BlockSize * (q + d) = BlockSize * q + BlockSize * d /\ BlockSize * d \in Nat
          OBVIOUS
        <5>4. QED
          BY <4>4, <5>1, <5>2, <5>3
      <4>10. QED
        BY <4>7, <4>8, <4>9
    <3>2. QED
      BY <3>1
  <2>5. \A y \in 0..z : ~Blocks(message + 1 + y + LengthSize)
    <3>1. \A y \in 0..z : y = z \/ y \in 0..(z - 1)
      OBVIOUS
    <3>2. QED
      BY <2>2, <2>4, <3>1 DEF Zeros
  <2>6. 0 = Padded(message)[message + 1 + z + 1]
    <3>1. /\ message + 1 + z + 1 \in Nat /\ ~(message + 1 + z + 1 <= message)
          /\ message + 1 + z + 1 # message + 1
      BY <1>0
    <3>2. QED
      BY <3>1 DEF Padded
  <2>7. /\ Blocks(Len(chain')) /\ Holds(Padded(message))'
        /\ Zeros(z + 1)' /\ z + 1 \in Nat
    <3>1. Len(chain) + bufferLength = message + 1 + z /\ z \in Nat \cup {-1}
          /\ usage # "final" /\ 0 \in Nat
      BY <2>1, <2>2 DEF Zeros
    <3>2. QED
      BY <2>1, <2>3, <2>5, <2>6, <3>1, PaddingStep
  <2>8. QED
    BY <2>1, <2>3, <2>7 DEF DigestInv, DigestIsOfMessage, Blocks
<1>4. CASE FinalizeEnds
  <2>1. (chain = PaddedMessage(message))'
    BY <1>4, LastBlock
  <2>2. usage' = "final"
    BY <1>4 DEF FinalizeEnds
  <2>3. QED
    BY <2>1, <2>2 DEF DigestInv, DigestIsOfMessage
<1>5. CASE Reset
  <2>1. chain' = <<>> /\ usage' = "open"
    BY <1>5 DEF Reset
  <2>2. Len(chain') = BlockSize * 0
    BY <2>1
  <2>3. Blocks(Len(chain'))
    BY <2>2 DEF Blocks
  <2>4. QED
    BY <2>1, <2>3 DEF DigestInv, DigestIsOfMessage, Blocks
<1>6. CASE UNCHANGED hashVars
  BY <1>6 DEF hashVars, DigestInv, DigestIsOfMessage, Blocks, Holds, Padded, Zeros,
              PaddedMessage, LengthBytes
<1>7. QED
  BY <1>1, <1>2, <1>3, <1>4, <1>5, <1>6 DEF HashNext

(* A digest is of the padded message of the standard, whatever the message *)
(* and however it was cut into update() calls: finalize() with update(),   *)
(* for every block size.                                                   *)
THEOREM DigestsAreOfMessages == HashSpec => []DigestIsOfMessage
<1>1. HashInit => HashInv /\ DigestInv
  <2>1. BlockSize * 0 = 0
    OBVIOUS
  <2>2. HashInit => DigestInv
    BY <2>1 DEF HashInit, DigestInv, DigestIsOfMessage, Blocks
  <2>3. QED
    BY <2>2 DEF HashInit, HashInv, BufferHoldsTail, BufferTypes
<1>2. (HashInv /\ DigestInv) /\ [HashNext]_hashVars => (HashInv /\ DigestInv)'
  BY HashStep, DigestStep
<1>3. HashInv /\ DigestInv => DigestIsOfMessage
  BY DEF DigestInv
<1>4. QED
  BY <1>1, <1>2, <1>3, PTL DEF HashSpec

-----------------------------------------------------------------------------
(***************************************************************************)
(* BaselineFormat: what is written is what is read, and a damaged file is  *)
(* refused.                                                                *)
(***************************************************************************)
HIDE HashAssumption
USE FormatAssumption

(* Quotient and remainder by the radix.                                    *)
LEMMA DivMod ==
  ASSUME NEW n \in Nat, NEW k \in Nat, 0 < k
  PROVE  /\ n \div k \in Nat /\ n % k \in 0..(k - 1)
         /\ n = k * (n \div k) + (n % k)
  BY SMT

LEMMA DivModUnique ==
  ASSUME NEW q \in Nat, NEW k \in Nat, 0 < k, NEW a \in 0..(k - 1)
  PROVE  (a + k * q) \div k = q /\ (a + k * q) % k = a
<1> DEFINE n == a + k * q
           d == n \div k
           r == n % k
<1>1. n \in Nat
  OBVIOUS
<1>2. d \in Nat /\ r \in 0..(k - 1) /\ n = k * d + r
  <2> HIDE DEF n
  <2>1. QED
    BY <1>1, DivMod
<1>3. n = a + k * q
  OBVIOUS
<1> HIDE DEF n, d, r
<1>4. ASSUME q < d PROVE FALSE
  <2>1. PICK e \in Nat : d = q + 1 + e
    <3>1. d - q - 1 \in Nat /\ d = q + 1 + (d - q - 1)
      BY <1>2, <1>4
    <3>2. QED
      BY <3>1
  <2>2. k * d = k * q + k + k * e /\ k * e \in Nat /\ k * q \in Nat
    BY <2>1
  <2>3. QED
    BY <1>2, <1>3, <2>2
<1>5. ASSUME d < q PROVE FALSE
  <2>1. PICK e \in Nat : q = d + 1 + e
    <3>1. q - d - 1 \in Nat /\ q = d + 1 + (q - d - 1)
      BY <1>2, <1>5
    <3>2. QED
      BY <3>1
  <2>2. k * q = k * d + k + k * e /\ k * e \in Nat /\ k * d \in Nat
    BY <1>2, <2>1
  <2>3. QED
    BY <1>2, <1>3, <2>2
<1>6. d = q
  BY <1>2, <1>4, <1>5
<1>7. r = a
  <2>1. PICK m \in Nat : m = k * q
    OBVIOUS
  <2>2. n = m + r /\ n = a + m
    BY <1>2, <1>3, <1>6, <2>1
  <2>3. QED
    BY <1>2, <2>1, <2>2
<1>8. QED
  BY <1>6, <1>7 DEF n, d, r

(* The value shifted again and again.                                      *)
ShiftedUpTo(f, width, value) ==
  /\ f \in [0..width -> Nat]
  /\ f[0] = value
  /\ \A i \in 1..width : f[i] = f[i - 1] \div Radix

LEMMA ShiftedDef ==
  ASSUME NEW width \in Nat, NEW value \in Nat
  PROVE  ShiftedUpTo(Shifted(width, value), width, value)
<1> DEFINE Shift(f) == [i \in 0..width |-> IF i = 0 THEN value ELSE f[i - 1] \div Radix]
           step == [p \in Nat \X Nat |-> p[2] \div Radix]
<1>0. \A n \in Nat : n \div Radix \in Nat
  BY DivMod
<1>1. step \in [Nat \X Nat -> Nat]
  BY <1>0
<1>2. PICK g : Computes(g, width, Nat, value, step)
  <2> HIDE DEF step
  <2>1. QED
    BY <1>1, Recursion
<1>3. g = Shift(g)
  <2>0. g \in [0..width -> Nat]
    BY <1>2 DEF Computes
  <2>1. ASSUME NEW i \in 1..width PROVE step[<<i, g[i - 1]>>] = g[i - 1] \div Radix
    <3>1. g[i - 1] \in Nat /\ i \in Nat
      BY <2>0
    <3>2. QED
      BY <3>1
  <2>2. \A i \in 0..width : i # 0 => i \in 1..width
    OBVIOUS
  <2> HIDE DEF step
  <2>3. QED
    BY <1>2, <2>1, <2>2 DEF Computes
<1> DEFINE f == CHOOSE f : f = Shift(f)
<1>4. f = Shift(f)
  <2> HIDE DEF Shift
  <2>1. QED
    BY <1>3
<1>5. Shifted(width, value) = f
  BY DEF Shifted
<1> HIDE DEF f
<1>6. f[0] = value
  BY <1>4
<1>7. ASSUME NEW i \in 1..width PROVE f[i] = f[i - 1] \div Radix
  <2>1. i \in 0..width /\ i # 0
    OBVIOUS
  <2>2. f[i] = Shift(f)[i]
    <3> HIDE DEF Shift
    <3>1. QED
      BY <1>4
  <2>3. QED
    BY <2>1, <2>2
<1>8. f \in [0..width -> Nat]
  <2> DEFINE P == {k \in Nat : k <= width => f[k] \in Nat}
  <2>1. 0 \in P
    BY <1>6
  <2>2. ASSUME NEW k \in Nat, k \in P PROVE k + 1 \in P
    <3>1. SUFFICES ASSUME k + 1 <= width PROVE f[k + 1] \in Nat
      OBVIOUS
    <3>2. f[k] \in Nat /\ k + 1 \in 1..width /\ k + 1 - 1 = k
      BY <2>2, <3>1
    <3>3. f[k + 1] = f[k] \div Radix
      BY <1>7, <3>2
    <3>4. QED
      BY <1>0, <3>2, <3>3
  <2>3. \A k \in Nat : k \in P
    <3> HIDE DEF P
    <3>1. QED
      BY <2>1, <2>2, Induction
  <2>4. \A k \in 0..width : f[k] \in Nat
    BY <2>3
  <2>5. f = [k \in 0..width |-> f[k]]
    BY <1>4
  <2>6. QED
    BY <2>4, <2>5
<1>9. QED
  BY <1>5, <1>6, <1>7, <1>8 DEF ShiftedUpTo


(* The value assembled byte by byte.                                       *)
AssembledUpTo(f, bytes, width) ==
  /\ f \in [0..width -> Nat]
  /\ f[0] = 0
  /\ \A i \in 1..width : f[i] = bytes[width + 1 - i] + Radix * f[i - 1]

LEMMA AssembledDef ==
  ASSUME NEW width \in Nat, NEW bytes \in [1..width -> Byte]
  PROVE  AssembledUpTo(Assembled(bytes, width), bytes, width)
<1> DEFINE Sum(f) == [i \in 0..width |->
                        IF i = 0 THEN 0 ELSE bytes[width + 1 - i] + Radix * f[i - 1]]
           digit == [i \in Nat |-> IF i \in 1..width THEN bytes[width + 1 - i] ELSE 0]
           step == [p \in Nat \X Nat |-> digit[p[1]] + Radix * p[2]]
<1>0. /\ \A i \in 1..width : width + 1 - i \in 1..width /\ bytes[width + 1 - i] \in Nat
      /\ \A m, n \in Nat : m + Radix * n \in Nat
  BY DEF Byte
<1>1. step \in [Nat \X Nat -> Nat]
  <2>1. \A i \in Nat : digit[i] \in Nat
    BY <1>0
  <2> HIDE DEF digit
  <2>2. QED
    BY <1>0, <2>1
<1>2. PICK g : Computes(g, width, Nat, 0, step)
  <2> HIDE DEF step
  <2>1. QED
    BY <1>1, Recursion
<1>3. g = Sum(g)
  <2>0. g \in [0..width -> Nat]
    BY <1>2 DEF Computes
  <2>1. ASSUME NEW i \in 1..width
        PROVE  step[<<i, g[i - 1]>>] = bytes[width + 1 - i] + Radix * g[i - 1]
    <3>1. g[i - 1] \in Nat /\ i \in Nat /\ digit[i] = bytes[width + 1 - i]
      BY <2>0
    <3> HIDE DEF digit
    <3>2. QED
      BY <3>1
  <2>2. \A i \in 0..width : i # 0 => i \in 1..width
    OBVIOUS
  <2> HIDE DEF step
  <2>3. QED
    BY <1>2, <2>1, <2>2 DEF Computes
<1> DEFINE f == CHOOSE f : f = Sum(f)
<1>4. f = Sum(f)
  <2> HIDE DEF Sum
  <2>1. QED
    BY <1>3
<1>5. Assembled(bytes, width) = f
  BY DEF Assembled
<1> HIDE DEF f
<1>6. f[0] = 0
  BY <1>4
<1>7. ASSUME NEW i \in 1..width PROVE f[i] = bytes[width + 1 - i] + Radix * f[i - 1]
  <2>1. i \in 0..width /\ i # 0
    OBVIOUS
  <2>2. f[i] = Sum(f)[i]
    <3> HIDE DEF Sum
    <3>1. QED
      BY <1>4
  <2>3. QED
    BY <2>1, <2>2
<1>8. f \in [0..width -> Nat]
  <2> DEFINE P == {k \in Nat : k <= width => f[k] \in Nat}
  <2>1. 0 \in P
    BY <1>6
  <2>2. ASSUME NEW k \in Nat, k \in P PROVE k + 1 \in P
    <3>1. SUFFICES ASSUME k + 1 <= width PROVE f[k + 1] \in Nat
      OBVIOUS
    <3>2. f[k] \in Nat /\ k + 1 \in 1..width /\ k + 1 - 1 = k
      BY <2>2, <3>1
    <3>3. PICK i \in 1..width : i = k + 1
      BY <3>2
    <3>4. f[i] = bytes[width + 1 - i] + Radix * f[i - 1]
      BY <1>7, Zenon
    <3>5. i - 1 = k /\ f[i - 1] \in Nat /\ bytes[width + 1 - i] \in Nat
      BY <1>0, <3>2, <3>3
    <3>6. f[i] \in Nat
      BY <1>0, <3>4, <3>5
    <3>7. QED
      BY <3>3, <3>6
  <2>3. \A k \in Nat : k \in P
    <3> HIDE DEF P
    <3>1. QED
      BY <2>1, <2>2, Induction
  <2>4. \A k \in 0..width : f[k] \in Nat
    BY <2>3
  <2>5. f = [k \in 0..width |-> f[k]]
    BY <1>4
  <2>6. QED
    BY <2>4, <2>5
<1>9. QED
  BY <1>5, <1>6, <1>7, <1>8 DEF AssembledUpTo

(* What appendU32() writes are bytes, and what readU32() assembles from    *)
(* them is the value they were made of,                                    *)
LEMMA UIntBytes ==
  ASSUME NEW width \in Nat, NEW value \in Nat
  PROVE  AppendUInt(width, value) \in [1..width -> Byte]
<1>1. ASSUME NEW i \in 1..width PROVE Shifted(width, value)[i - 1] % Radix \in Byte
  <2>1. Shifted(width, value)[i - 1] \in Nat
    BY ShiftedDef DEF ShiftedUpTo
  <2>2. QED
    BY <2>1, DivMod DEF Byte
<1>2. QED
  BY <1>1 DEF AppendUInt

LEMMA UIntReadBack ==
  ASSUME NEW width \in Nat, NEW value \in Nat, FitsIn(width, value)
  PROVE  Assembled(AppendUInt(width, value), width)[width] = value
<1> DEFINE bytes == AppendUInt(width, value)
           q == Shifted(width, value)
           f == Assembled(bytes, width)
<1>1. AssembledUpTo(f, bytes, width) /\ ShiftedUpTo(q, width, value)
  BY UIntBytes, AssembledDef, ShiftedDef
<1>2. \A i \in 1..width : bytes[i] = q[i - 1] % Radix
  BY DEF AppendUInt
<1>3. q[width] = 0
  BY DEF FitsIn
<1> HIDE DEF bytes, q, f
<1> DEFINE P == {k \in Nat : k <= width => f[k] = q[width - k]}
<1>4. 0 \in P
  BY <1>1, <1>3 DEF AssembledUpTo
<1>5. ASSUME NEW k \in Nat, k \in P PROVE k + 1 \in P
  <2>1. SUFFICES ASSUME k + 1 <= width PROVE f[k + 1] = q[width - (k + 1)]
    OBVIOUS
  <2>2. PICK j \in Nat : width - (k + 1) = j
    BY <2>1
  <2>3. /\ width + 1 - (k + 1) = j + 1 /\ width - k = j + 1
        /\ j + 1 \in 1..width /\ k + 1 \in 1..width /\ j + 1 - 1 = j /\ k + 1 - 1 = k
    BY <2>1, <2>2
  <2>4. f[k + 1] = bytes[j + 1] + Radix * f[k]
    BY <1>1, <2>3 DEF AssembledUpTo
  <2>5. f[k] = q[j + 1] /\ q[j + 1] = q[j] \div Radix /\ bytes[j + 1] = q[j] % Radix
    BY <1>1, <1>2, <1>5, <2>1, <2>3 DEF ShiftedUpTo
  <2>6. PICK m \in Nat : m = q[j]
    BY <1>1, <2>2, <2>3 DEF ShiftedUpTo
  <2>7. m = Radix * (m \div Radix) + (m % Radix) /\ m \div Radix \in Nat /\ m % Radix \in Nat
    BY DivMod
  <2>8. f[k + 1] = (m % Radix) + Radix * (m \div Radix)
    BY <2>4, <2>5, <2>6
  <2>9. PICK a \in Nat, b \in Nat : a = m % Radix /\ b = Radix * (m \div Radix)
    BY <2>7
  <2>10. f[k + 1] = m
    BY <2>7, <2>8, <2>9
  <2>11. QED
    BY <2>2, <2>6, <2>10
<1>6. width \in P
  <2> HIDE DEF P
  <2>1. QED
    BY <1>4, <1>5, Induction
<1>7. f[width] = q[0]
  BY <1>6
<1>8. QED
  BY <1>1, <1>7 DEF f, bytes, ShiftedUpTo

(* and no other bytes give that value.                                     *)
LEMMA UIntReadOnce ==
  ASSUME NEW width \in Nat, NEW value \in Nat, NEW bytes \in [1..width -> Byte],
         Assembled(bytes, width)[width] = value
  PROVE  bytes = AppendUInt(width, value)
<1> DEFINE q == Shifted(width, value)
           f == Assembled(bytes, width)
<1>1. AssembledUpTo(f, bytes, width) /\ ShiftedUpTo(q, width, value)
  BY AssembledDef, ShiftedDef
<1>2. f[width] = value
  OBVIOUS
<1>3. AppendUInt(width, value) = [i \in 1..width |-> q[i - 1] % Radix]
  BY DEF AppendUInt
<1> HIDE DEF q, f
<1>a. ASSUME NEW j \in Nat, j + 1 <= width, q[j] = f[width - j]
      PROVE  q[j + 1] = f[width - (j + 1)] /\ bytes[j + 1] = q[j] % Radix
  <2>1. PICK k \in Nat : width - (j + 1) = k
    BY <1>a
  <2>2. /\ width - j = k + 1 /\ k + 1 \in 1..width /\ j + 1 \in 1..width
        /\ width + 1 - (k + 1) = j + 1 /\ j + 1 - 1 = j /\ k + 1 - 1 = k /\ k \in 0..width
    BY <1>a, <2>1
  <2>3. f[k + 1] = bytes[j + 1] + Radix * f[k] /\ q[j + 1] = q[j] \div Radix
    BY <1>1, <2>2 DEF AssembledUpTo, ShiftedUpTo
  <2>4. PICK b \in Nat, n \in 0..(Radix - 1) : b = f[k] /\ n = bytes[j + 1]
    BY <1>1, <2>2 DEF AssembledUpTo, Byte
  <2>5. q[j] = n + Radix * b
    BY <1>a, <2>2, <2>3, <2>4
  <2>6. (n + Radix * b) \div Radix = b /\ (n + Radix * b) % Radix = n
    BY DivModUnique
  <2>7. q[j + 1] = b /\ n = q[j] % Radix
    BY <2>3, <2>5, <2>6
  <2>8. QED
    BY <2>1, <2>4, <2>7
<1> DEFINE P == {j \in Nat : j <= width => q[j] = f[width - j]}
<1>4. 0 \in P
  BY <1>1, <1>2 DEF ShiftedUpTo
<1>5. ASSUME NEW j \in Nat, j \in P PROVE j + 1 \in P
  BY <1>5, <1>a
<1>6. \A j \in Nat : j \in P
  <2> HIDE DEF P
  <2>1. QED
    BY <1>4, <1>5, Induction
<1>7. ASSUME NEW i \in 1..width PROVE bytes[i] = q[i - 1] % Radix
  <2>1. i - 1 \in Nat /\ i - 1 + 1 = i /\ i - 1 <= width
    OBVIOUS
  <2>2. q[i - 1] = f[width - (i - 1)]
    BY <1>6, <2>1
  <2>3. bytes[i - 1 + 1] = q[i - 1] % Radix
    BY <1>a, <2>1, <2>2
  <2>4. QED
    BY <2>1, <2>3
<1>8. QED
  BY <1>3, <1>7

(* The version number fits whatever the width.                             *)
LEMMA OneFits ==
  ASSUME NEW width \in Nat \ {0}
  PROVE  FitsIn(width, 1)
<1> DEFINE q == Shifted(width, 1)
<1>1. ShiftedUpTo(q, width, 1)
  BY ShiftedDef
<1>2. 1 \div Radix = 0 /\ 0 \div Radix = 0
  <2>1. 1 \in 0..(Radix - 1) /\ 0 \in 0..(Radix - 1) /\ 0 < Radix
    OBVIOUS
  <2>2. (1 + Radix * 0) \div Radix = 0 /\ (0 + Radix * 0) \div Radix = 0
    BY <2>1, DivModUnique
  <2>3. 1 + Radix * 0 = 1 /\ 0 + Radix * 0 = 0
    OBVIOUS
  <2>4. QED
    BY <2>2, <2>3
<1> HIDE DEF q
<1> DEFINE P == {j \in Nat : j + 1 <= width => q[j + 1] = 0}
<1>3. 0 \in P
  <2>1. 1 \in 1..width /\ 0 + 1 = 1 /\ 1 - 1 = 0
    OBVIOUS
  <2>2. q[1] = q[0] \div Radix /\ q[0] = 1
    BY <1>1, <2>1 DEF ShiftedUpTo
  <2>3. QED
    BY <1>2, <2>1, <2>2
<1>4. ASSUME NEW j \in Nat, j \in P PROVE j + 1 \in P
  <2>1. SUFFICES ASSUME j + 1 + 1 <= width PROVE q[j + 1 + 1] = 0
    OBVIOUS
  <2>2. q[j + 1] = 0 /\ j + 1 + 1 \in 1..width /\ j + 1 + 1 - 1 = j + 1
    BY <1>4, <2>1
  <2>3. q[j + 1 + 1] = q[j + 1] \div Radix
    BY <1>1, <2>2 DEF ShiftedUpTo
  <2>4. QED
    BY <1>2, <2>2, <2>3
<1>5. width - 1 \in P
  <2> HIDE DEF P
  <2>1. QED
    BY <1>3, <1>4, Induction
<1>6. q[width] = 0
  BY <1>5
<1>7. QED
  BY <1>6 DEF q, FitsIn


-----------------------------------------------------------------------------
(* A text stands in a file at some place; the file read is the beginning   *)
(* of another, or continues it.                                            *)
Placed(text, from, w) ==
  /\ from + Len(text) <= Len(w)
  /\ \A i \in 1..Len(text) : w[from + i] = text[i]

Agrees(w) ==
  /\ file \in Seq(Byte)
  /\ \A i \in 1..Len(file) : i <= Len(w) => file[i] = w[i]

(* Where a reader stands that should be at a place, and what it reads.     *)
Mark(to) == IF to <= Len(file) THEN to ELSE Len(file) + 1
Reads(r, value, to) ==
  IF to <= Len(file) THEN r = [value |-> value, next |-> to] ELSE r = Failed

LEMMA ReadsMark ==
  ASSUME NEW r, NEW value, NEW to, Reads(r, value, to)
  PROVE  r.next = Mark(to) /\ (to <= Len(file) => r.value = value)
  BY DEF Reads, Mark, Failed

LEMMA PlacedParts ==
  ASSUME NEW w, NEW from \in Nat, NEW s \in Seq(Byte), NEW t \in Seq(Byte),
         w \in Seq(Byte), Placed(s \o t, from, w)
  PROVE  Placed(s, from, w) /\ Placed(t, from + Len(s), w)
<1>1. PICK m \in Nat, k \in Nat, z \in Nat : m = Len(s) /\ k = Len(t) /\ z = Len(w)
  BY LenProperties
<1>2. /\ Len(s \o t) = m + k
      /\ \A i \in 1..(m + k) : (s \o t)[i] = IF i <= m THEN s[i] ELSE t[i - m]
  BY <1>1, ConcatProperties
<1>3. /\ from + (m + k) <= z
      /\ \A i \in 1..(m + k) : w[from + i] = (s \o t)[i]
  BY <1>1, <1>2 DEF Placed
<1>4. \A i \in 1..m : i \in 1..(m + k) /\ i <= m
  OBVIOUS
<1>5. \A i \in 1..k : m + i \in 1..(m + k) /\ ~(m + i <= m) /\ (m + i) - m = i
                      /\ from + (m + i) = (from + m) + i
  OBVIOUS
<1>6. \A i \in 1..m : w[from + i] = s[i]
  BY <1>2, <1>3, <1>4
<1>7. \A i \in 1..k : w[(from + m) + i] = t[i]
  <2>1. SUFFICES ASSUME NEW i \in 1..k PROVE w[(from + m) + i] = t[i]
    OBVIOUS
  <2>2. w[from + (m + i)] = (s \o t)[m + i]
    BY <1>3, <1>5
  <2>3. (s \o t)[m + i] = t[i]
    BY <1>2, <1>5
  <2>4. from + (m + i) = (from + m) + i
    BY <1>5
  <2>5. QED
    BY <2>2, <2>3, <2>4
<1>8. from + m <= z /\ (from + m) + k <= z
  BY <1>3
<1>9. QED
  BY <1>1, <1>6, <1>7, <1>8 DEF Placed

LEMMA PlacedInside ==
  ASSUME NEW w, NEW v, NEW s, NEW a \in Nat, NEW b \in Nat,
         w \in Seq(Byte), v \in Seq(Byte), s \in Seq(Byte),
         Placed(s, a, v), Placed(v, b, w)
  PROVE  Placed(s, b + a, w)
<1>1. PICK m \in Nat, k \in Nat, z \in Nat : m = Len(s) /\ k = Len(v) /\ z = Len(w)
  BY LenProperties
<1>2. a + m <= k /\ b + k <= z
  BY <1>1 DEF Placed
<1>3. ASSUME NEW i \in 1..m PROVE w[(b + a) + i] = s[i]
  <2>1. a + i \in 1..k /\ b + (a + i) = (b + a) + i
    BY <1>2
  <2>2. w[b + (a + i)] = v[a + i] /\ v[a + i] = s[i]
    BY <1>1, <2>1 DEF Placed
  <2>3. QED
    BY <2>1, <2>2
<1>4. (b + a) + m <= z
  BY <1>2
<1>5. QED
  BY <1>1, <1>3, <1>4 DEF Placed

(* Every read of what stands there gives it back if the file is long       *)
(* enough, and fails if it is not.                                         *)
LEMMA ReadBytesPlaced ==
  ASSUME NEW w, NEW from \in Nat, NEW text \in Seq(Byte),
         w \in Seq(Byte), Placed(text, from, w), Agrees(w)
  PROVE  Reads(ReadBytes(Mark(from), Len(text)), text, from + Len(text))
<1>1. PICK m \in Nat, k \in Nat, z \in Nat : m = Len(text) /\ k = Len(file) /\ z = Len(w)
  BY LenProperties DEF Agrees
<1>2. file \in Seq(Byte) /\ from + m <= z
  BY <1>1 DEF Agrees, Placed
<1>3. CASE from + m <= k
  <2>1. Mark(from) = from
    BY <1>1, <1>3 DEF Mark
  <2>2. from + 1 \in 1..(k + 1) /\ from + m \in (from + 1 - 1)..k
    BY <1>3
  <2> DEFINE t == SubSeq(file, from + 1, from + m)
  <2>3. ReadBytes(from, m) = [value |-> t, next |-> from + m]
    BY <1>1, <1>3 DEF ReadBytes
  <2>4. t \in Seq(Byte) /\ Len(t) = m /\ \A i \in 1..m : t[i] = file[from + i]
    <3>1. /\ t \in Seq(Byte)
          /\ Len(t) = IF from + 1 <= from + m THEN from + m - (from + 1) + 1 ELSE 0
          /\ \A i \in 1..(from + m - (from + 1) + 1) : t[i] = file[from + 1 + i - 1]
      <4>1. \A i \in (from + 1)..(from + m) : file[i] \in Byte
        BY <1>1, <1>2, <1>3
      <4>2. QED
        BY <1>2, <4>1, SubSeqProperties
    <3>2. from + m - (from + 1) + 1 = m /\ (~(from + 1 <= from + m) => m = 0)
      OBVIOUS
    <3>3. \A i \in 1..m : from + 1 + i - 1 = from + i
      OBVIOUS
    <3> HIDE DEF t
    <3>4. Len(t) = m
      BY <3>1, <3>2
    <3>5. \A i \in 1..m : t[i] = file[from + i]
      BY <3>1, <3>2, <3>3
    <3>6. QED
      BY <3>1, <3>4, <3>5
  <2> HIDE DEF t
  <2>5. ASSUME NEW i \in 1..m PROVE t[i] = text[i]
    <3>1. from + i \in 1..k /\ from + i <= z
      BY <1>2, <1>3
    <3>2. file[from + i] = w[from + i] /\ w[from + i] = text[i]
      BY <1>1, <3>1 DEF Agrees, Placed
    <3>3. QED
      BY <2>4, <3>2
  <2>6. t = text
    BY <1>1, <2>4, <2>5, SeqEqual
  <2>7. QED
    BY <1>1, <1>3, <2>1, <2>3, <2>6 DEF Reads
<1>4. CASE ~(from + m <= k)
  <2>1. Mark(from) + m > k
    BY <1>1, <1>4 DEF Mark
  <2>2. ReadBytes(Mark(from), m) = Failed
    BY <1>1, <2>1 DEF ReadBytes
  <2>3. QED
    BY <1>1, <1>4, <2>2 DEF Reads
<1>5. QED
  BY <1>3, <1>4

LEMMA UIntSeq ==
  ASSUME NEW width \in Nat, NEW value \in Nat
  PROVE  AppendUInt(width, value) \in Seq(Byte) /\ Len(AppendUInt(width, value)) = width
<1> DEFINE bytes == AppendUInt(width, value)
<1>1. bytes \in [1..width -> Byte]
  BY UIntBytes
<1> HIDE DEF bytes
<1>2. bytes \in Seq(Byte) /\ Len(bytes) = width
  BY <1>1
<1>3. QED
  BY <1>2 DEF bytes

LEMMA ReadUIntPlaced ==
  ASSUME NEW w, NEW from \in Nat, NEW width \in Nat, NEW value \in Nat,
         w \in Seq(Byte), FitsIn(width, value),
         Placed(AppendUInt(width, value), from, w), Agrees(w)
  PROVE  Reads(ReadUInt(Mark(from), width), value, from + width)
<1> DEFINE bytes == ReadBytes(Mark(from), width)
<1>1. Reads(bytes, AppendUInt(width, value), from + width)
  BY UIntSeq, ReadBytesPlaced
<1>2. ReadUInt(Mark(from), width) =
        IF Fits(bytes) THEN [bytes EXCEPT !.value = Assembled(bytes.value, width)[width]]
        ELSE Failed
  BY DEF ReadUInt
<1>3. Len(file) \in Nat
  BY LenProperties DEF Agrees
<1> HIDE DEF bytes
<1>4. CASE from + width <= Len(file)
  <2>1. bytes = [value |-> AppendUInt(width, value), next |-> from + width]
    BY <1>1, <1>4 DEF Reads
  <2>2. Fits(bytes) /\ bytes.value = AppendUInt(width, value)
    BY <1>4, <2>1 DEF Fits
  <2>3. ReadUInt(Mark(from), width) = [bytes EXCEPT !.value = value]
    BY <1>2, <2>2, UIntReadBack
  <2>4. [bytes EXCEPT !.value = value] = [value |-> value, next |-> from + width]
    BY <2>1
  <2>5. QED
    BY <1>4, <2>3, <2>4 DEF Reads
<1>5. CASE ~(from + width <= Len(file))
  <2>1. bytes = Failed
    BY <1>1, <1>5 DEF Reads
  <2>2. ~Fits(bytes)
    BY <1>3, <2>1 DEF Failed, Fits
  <2>3. QED
    BY <1>2, <1>5, <2>2 DEF Reads
<1>6. QED
  BY <1>4, <1>5

LEMMA StringSeq ==
  ASSUME NEW text \in Seq(Byte)
  PROVE  AppendString(text) \in Seq(Byte) /\ Len(AppendString(text)) = SmallWidth + Len(text)
<1>1. Len(text) \in Nat
  BY LenProperties
<1>2. AppendUInt(SmallWidth, Len(text)) \in Seq(Byte)
      /\ Len(AppendUInt(SmallWidth, Len(text))) = SmallWidth
  BY <1>1, UIntSeq
<1>3. QED
  BY <1>2, ConcatProperties DEF AppendString

LEMMA ReadStringPlaced ==
  ASSUME NEW w, NEW from \in Nat, NEW text \in Seq(Byte),
         w \in Seq(Byte), FitsIn(SmallWidth, Len(text)),
         Placed(AppendString(text), from, w), Agrees(w)
  PROVE  Reads(ReadString(Mark(from)), text, from + Len(AppendString(text)))
<1> DEFINE size == AppendUInt(SmallWidth, Len(text))
           length == ReadUInt(Mark(from), SmallWidth)
<1>0. Len(text) \in Nat /\ SmallWidth \in Nat /\ Len(file) \in Nat
  BY LenProperties DEF Agrees
<1>1. size \in Seq(Byte) /\ Len(size) = SmallWidth
  BY <1>0, UIntSeq
<1>2. Placed(size, from, w) /\ Placed(text, from + SmallWidth, w)
  <2>1. Placed(size \o text, from, w)
    BY DEF AppendString
  <2> HIDE DEF size
  <2>2. QED
    BY <1>1, <2>1, PlacedParts
<1>3. Reads(length, Len(text), from + SmallWidth)
  BY <1>0, <1>2, ReadUIntPlaced
<1>4. ReadString(Mark(from)) = ReadBytes(length.next, length.value)
  BY DEF ReadString
<1> HIDE DEF size, length
<1>5. from + Len(AppendString(text)) = from + SmallWidth + Len(text)
  <2>1. PICK n \in Nat, m \in Nat : n = Len(text) /\ m = Len(AppendString(text))
    BY <1>0, StringSeq, LenProperties
  <2>2. m = SmallWidth + n
    BY <2>1, StringSeq
  <2>3. from + m = from + SmallWidth + n
    BY <2>2
  <2>4. QED
    BY <2>1, <2>3
<1>6. CASE from + SmallWidth <= Len(file)
  <2>1. length.next = Mark(from + SmallWidth) /\ length.value = Len(text)
    BY <1>3, <1>6, ReadsMark
  <2>2. from + SmallWidth \in Nat
    BY <1>0
  <2>3. Reads(ReadBytes(Mark(from + SmallWidth), Len(text)), text, from + SmallWidth + Len(text))
    BY <1>2, <2>2, ReadBytesPlaced
  <2>4. QED
    BY <1>4, <1>5, <2>1, <2>3
<1>7. CASE ~(from + SmallWidth <= Len(file))
  <2>1. length.next = Len(file) + 1 /\ length.value = 0
    BY <1>3, <1>7 DEF Reads, Failed
  <2>2. ReadBytes(Len(file) + 1, 0) = Failed
    BY <1>0 DEF ReadBytes
  <2>3. ~(from + SmallWidth + Len(text) <= Len(file))
    BY <1>0, <1>7
  <2>4. QED
    BY <1>4, <1>5, <2>1, <2>2, <2>3 DEF Reads
<1>8. QED
  BY <1>6, <1>7


-----------------------------------------------------------------------------
IsText(s, n) == s \in Seq(Byte) /\ Len(s) = n

LEMMA JoinSeq ==
  ASSUME NEW s, NEW t, NEW m, NEW n, NEW l, IsText(s, m), IsText(t, n), l = m + n
  PROVE  IsText(s \o t, l)
  BY ConcatProperties DEF IsText

(* One entry, written and read.                                            *)
LEMMA EntrySeq ==
  ASSUME NEW entry \in Entry
  PROVE  AppendEntry(entry) \in Seq(Byte)
<1>1. /\ entry.baseAddress \in Nat /\ entry.size \in Nat
      /\ \A text \in {entry.digest, entry.name, entry.ownerModule, entry.ownerModulePath} :
           text \in Seq(Byte)
  BY DEF Entry
<1>2. /\ AppendUInt(WideWidth, entry.baseAddress) \in Seq(Byte)
      /\ AppendUInt(WideWidth, entry.size) \in Seq(Byte)
      /\ AppendString(entry.digest) \in Seq(Byte) /\ AppendString(entry.name) \in Seq(Byte)
      /\ AppendString(entry.ownerModule) \in Seq(Byte)
      /\ AppendString(entry.ownerModulePath) \in Seq(Byte)
  BY <1>1, UIntSeq, StringSeq
<1>3. \A s, t \in Seq(Byte) : s \o t \in Seq(Byte)
  BY ConcatProperties
<1>4. QED
  BY <1>2, <1>3 DEF AppendEntry

LEMMA ReadEntryPlaced ==
  ASSUME NEW w, NEW from \in Nat, NEW entry \in Entry, EntryFits(entry),
         w \in Seq(Byte), Placed(AppendEntry(entry), from, w), Agrees(w)
  PROVE  LET r == ReadEntryAt(Mark(from))
             to == from + Len(AppendEntry(entry))
         IN  r.next = Mark(to) /\ (to <= Len(file) => r.value = entry)
<1> DEFINE u1 == AppendUInt(WideWidth, entry.baseAddress)
           u2 == AppendUInt(WideWidth, entry.size)
           s1 == AppendString(entry.digest)
           s2 == AppendString(entry.name)
           s3 == AppendString(entry.ownerModule)
           s4 == AppendString(entry.ownerModulePath)
           p2 == u1 \o u2
           p3 == p2 \o s1
           p4 == p3 \o s2
           p5 == p4 \o s3
           p6 == p5 \o s4
           base == ReadUInt(Mark(from), WideWidth)
           size == ReadUInt(base.next, WideWidth)
           digest == ReadString(size.next)
           name == ReadString(digest.next)
           owner == ReadString(name.next)
           path == ReadString(owner.next)
<1>1. /\ entry.baseAddress \in Nat /\ entry.size \in Nat
      /\ entry.digest \in Seq(Byte) /\ entry.name \in Seq(Byte)
      /\ entry.ownerModule \in Seq(Byte) /\ entry.ownerModulePath \in Seq(Byte)
  BY DEF Entry
<1>2. /\ FitsIn(WideWidth, entry.baseAddress) /\ FitsIn(WideWidth, entry.size)
      /\ FitsIn(SmallWidth, Len(entry.digest)) /\ FitsIn(SmallWidth, Len(entry.name))
      /\ FitsIn(SmallWidth, Len(entry.ownerModule))
      /\ FitsIn(SmallWidth, Len(entry.ownerModulePath))
  BY DEF EntryFits
<1>3. AppendEntry(entry) = p6
  BY DEF AppendEntry
<1>4. ReadEntryAt(Mark(from)) =
        [value |-> [baseAddress |-> base.value, size |-> size.value, digest |-> digest.value,
                    name |-> name.value, ownerModule |-> owner.value,
                    ownerModulePath |-> path.value],
         next |-> path.next]
  BY DEF ReadEntryAt
<1>5. /\ u1 \in Seq(Byte) /\ Len(u1) = WideWidth /\ u2 \in Seq(Byte) /\ Len(u2) = WideWidth
      /\ s1 \in Seq(Byte) /\ s2 \in Seq(Byte) /\ s3 \in Seq(Byte) /\ s4 \in Seq(Byte)
  BY <1>1, UIntSeq, StringSeq
<1> HIDE DEF u1, u2, s1, s2, s3, s4
<1>6. PICK m1 \in Nat, m2 \in Nat, m3 \in Nat, m4 \in Nat :
        Len(s1) = m1 /\ Len(s2) = m2 /\ Len(s3) = m3 /\ Len(s4) = m4
  BY <1>5, LenProperties
<1>7. PICK n2 \in Nat, n3 \in Nat, n4 \in Nat, n5 \in Nat, n6 \in Nat :
        /\ n2 = WideWidth + WideWidth /\ n3 = n2 + m1 /\ n4 = n3 + m2
        /\ n5 = n4 + m3 /\ n6 = n5 + m4
  OBVIOUS
<1>70. PICK f1 \in Nat, f2 \in Nat, f3 \in Nat, f4 \in Nat, f5 \in Nat, f6 \in Nat :
        /\ f1 = from + WideWidth /\ f2 = from + n2 /\ f3 = from + n3
        /\ f4 = from + n4 /\ f5 = from + n5 /\ f6 = from + n6
        /\ f2 = f1 + WideWidth /\ f3 = f2 + m1 /\ f4 = f3 + m2
        /\ f5 = f4 + m3 /\ f6 = f5 + m4
  BY <1>7
<1>71. /\ IsText(u1, WideWidth) /\ IsText(u2, WideWidth) /\ IsText(s1, m1)
       /\ IsText(s2, m2) /\ IsText(s3, m3) /\ IsText(s4, m4)
  BY <1>5, <1>6 DEF IsText
<1>8. IsText(p2, n2)
  BY <1>7, <1>71, JoinSeq
<1> HIDE DEF p2
<1>9. IsText(p3, n3)
  <2>1. n3 = n2 + m1 /\ IsText(s1, m1)
    BY <1>7, <1>71
  <2>2. QED
    BY <1>8, <2>1, JoinSeq, Zenon
<1> HIDE DEF p3
<1>10. IsText(p4, n4)
  <2>1. n4 = n3 + m2 /\ IsText(s2, m2)
    BY <1>7, <1>71
  <2>2. QED
    BY <1>9, <2>1, JoinSeq, Zenon
<1> HIDE DEF p4
<1>11. IsText(p5, n5)
  <2>1. n5 = n4 + m3 /\ IsText(s3, m3)
    BY <1>7, <1>71
  <2>2. QED
    BY <1>10, <2>1, JoinSeq, Zenon
<1> HIDE DEF p5
<1>12. IsText(p6, n6)
  <2>1. n6 = n5 + m4 /\ IsText(s4, m4)
    BY <1>7, <1>71
  <2>2. QED
    BY <1>11, <2>1, JoinSeq, Zenon
<1>100. /\ p2 \in Seq(Byte) /\ Len(p2) = n2 /\ p3 \in Seq(Byte) /\ Len(p3) = n3
       /\ p4 \in Seq(Byte) /\ Len(p4) = n4 /\ p5 \in Seq(Byte) /\ Len(p5) = n5
  BY <1>8, <1>9, <1>10, <1>11 DEF IsText
<1>13. Placed(p5, from, w) /\ Placed(s4, f5, w)
  <2>1. Placed(p5 \o s4, from, w)
    BY <1>3
  <2>2. from + Len(p5) = f5
    BY <1>70, <1>100
  <2>3. QED
    BY <1>5, <1>100, <2>1, <2>2, PlacedParts
<1>14. Placed(p4, from, w) /\ Placed(s3, f4, w)
  <2>1. Placed(p4 \o s3, from, w)
    BY <1>13 DEF p5
  <2>2. from + Len(p4) = f4
    BY <1>70, <1>100
  <2>3. QED
    BY <1>5, <1>100, <2>1, <2>2, PlacedParts
<1>15. Placed(p3, from, w) /\ Placed(s2, f3, w)
  <2>1. Placed(p3 \o s2, from, w)
    BY <1>14 DEF p4
  <2>2. from + Len(p3) = f3
    BY <1>70, <1>100
  <2>3. QED
    BY <1>5, <1>100, <2>1, <2>2, PlacedParts
<1>16. Placed(p2, from, w) /\ Placed(s1, f2, w)
  <2>1. Placed(p2 \o s1, from, w)
    BY <1>15 DEF p3
  <2>2. from + Len(p2) = f2
    BY <1>70, <1>100
  <2>3. QED
    BY <1>5, <1>100, <2>1, <2>2, PlacedParts
<1>17. Placed(u1, from, w) /\ Placed(u2, f1, w)
  <2>1. Placed(u1 \o u2, from, w)
    BY <1>16 DEF p2
  <2>2. from + Len(u1) = f1
    BY <1>5, <1>70
  <2>3. QED
    BY <1>5, <2>1, <2>2, PlacedParts
<1>18. from + Len(AppendEntry(entry)) = f6
  BY <1>3, <1>70, <1>12 DEF IsText
<1> HIDE DEF p6
<1>21. base.next = Mark(f1) /\ (f1 <= Len(file) => base.value = entry.baseAddress)
  <2>1. Reads(base, entry.baseAddress, f1)
    BY <1>1, <1>2, <1>70, <1>17, ReadUIntPlaced DEF u1
  <2> HIDE DEF base
  <2>2. QED
    BY <2>1, ReadsMark
<1>22. size.next = Mark(f2) /\ (f2 <= Len(file) => size.value = entry.size)
  <2>1. size = ReadUInt(Mark(f1), WideWidth)
    BY <1>21
  <2> HIDE DEF size
  <2>2. Reads(size, entry.size, f2)
    BY <1>1, <1>2, <1>70, <1>17, <2>1, ReadUIntPlaced DEF u2
  <2>3. QED
    BY <2>2, ReadsMark
<1> HIDE DEF base
<1>23. digest.next = Mark(f3) /\ (f3 <= Len(file) => digest.value = entry.digest)
  <2>1. digest = ReadString(Mark(f2))
    BY <1>22
  <2> HIDE DEF digest, size
  <2>2. Reads(digest, entry.digest, f2 + Len(s1))
    BY <1>1, <1>2, <1>16, <2>1, ReadStringPlaced DEF s1
  <2>3. QED
    BY <1>6, <1>70, <2>2, ReadsMark
<1> HIDE DEF size
<1>24. name.next = Mark(f4) /\ (f4 <= Len(file) => name.value = entry.name)
  <2>1. name = ReadString(Mark(f3))
    BY <1>23
  <2> HIDE DEF name, digest
  <2>2. Reads(name, entry.name, f3 + Len(s2))
    BY <1>1, <1>2, <1>15, <2>1, ReadStringPlaced DEF s2
  <2>3. QED
    BY <1>6, <1>70, <2>2, ReadsMark
<1> HIDE DEF digest
<1>25. owner.next = Mark(f5) /\ (f5 <= Len(file) => owner.value = entry.ownerModule)
  <2>1. owner = ReadString(Mark(f4))
    BY <1>24
  <2> HIDE DEF owner, name
  <2>2. Reads(owner, entry.ownerModule, f4 + Len(s3))
    BY <1>1, <1>2, <1>14, <2>1, ReadStringPlaced DEF s3
  <2>3. QED
    BY <1>6, <1>70, <2>2, ReadsMark
<1> HIDE DEF name
<1>26. path.next = Mark(f6) /\ (f6 <= Len(file) => path.value = entry.ownerModulePath)
  <2>1. path = ReadString(Mark(f5))
    BY <1>25
  <2> HIDE DEF path, owner
  <2>2. Reads(path, entry.ownerModulePath, f5 + Len(s4))
    BY <1>1, <1>2, <1>13, <2>1, ReadStringPlaced DEF s4
  <2>3. QED
    BY <1>6, <1>70, <2>2, ReadsMark
<1> HIDE DEF owner, path
<1>27. ASSUME f6 <= Len(file) PROVE ReadEntryAt(Mark(from)).value = entry
  <2>1. Len(file) \in Nat
    BY LenProperties DEF Agrees
  <2>2. /\ f1 <= Len(file) /\ f2 <= Len(file) /\ f3 <= Len(file)
        /\ f4 <= Len(file) /\ f5 <= Len(file)
    BY <1>70, <1>27, <2>1
  <2>3. ReadEntryAt(Mark(from)).value =
          [baseAddress |-> entry.baseAddress, size |-> entry.size, digest |-> entry.digest,
           name |-> entry.name, ownerModule |-> entry.ownerModule,
           ownerModulePath |-> entry.ownerModulePath]
    BY <1>4, <1>21, <1>22, <1>23, <1>24, <1>25, <1>26, <1>27, <2>2
  <2>4. QED
    BY <2>3 DEF Entry
<1>28. ReadEntryAt(Mark(from)).next = Mark(f6)
  BY <1>4, <1>26
<1>29. QED
  BY <1>18, <1>27, <1>28

-----------------------------------------------------------------------------
(* The entries, one after the other.                                       *)
BodyUpTo(f, entries) ==
  /\ f \in [0..Len(entries) -> Seq(Byte)]
  /\ f[0] = <<>>
  /\ \A i \in 1..Len(entries) : f[i] = f[i - 1] \o AppendEntry(entries[i])

LEMMA BodyDef ==
  ASSUME NEW entries \in Seq(Entry)
  PROVE  BodyUpTo(Body(entries), entries)
<1>0. PICK n \in Nat : n = Len(entries)
  BY LenProperties
<1> DEFINE Text(f) == [i \in 0..n |-> IF i = 0 THEN <<>> ELSE f[i - 1] \o AppendEntry(entries[i])]
           round == [i \in Nat |-> IF i \in 1..n THEN AppendEntry(entries[i]) ELSE <<>>]
           step == [p \in Nat \X Seq(Byte) |-> p[2] \o round[p[1]]]
<1>1. /\ \A i \in 1..n : AppendEntry(entries[i]) \in Seq(Byte)
      /\ \A s, t \in Seq(Byte) : s \o t \in Seq(Byte)
      /\ <<>> \in Seq(Byte)
  <2>1. ASSUME NEW i \in 1..n PROVE AppendEntry(entries[i]) \in Seq(Byte)
    <3>1. entries[i] \in Entry
      BY <1>0
    <3>2. QED
      BY <3>1, EntrySeq
  <2>2. \A s, t \in Seq(Byte) : s \o t \in Seq(Byte)
    BY ConcatProperties
  <2>3. QED
    BY <2>1, <2>2
<1>2. step \in [Nat \X Seq(Byte) -> Seq(Byte)]
  <2>1. \A i \in Nat : round[i] \in Seq(Byte)
    BY <1>1
  <2> HIDE DEF round
  <2>2. QED
    BY <1>1, <2>1
<1>3. PICK g : Computes(g, n, Seq(Byte), <<>>, step)
  <2> HIDE DEF step
  <2>1. QED
    BY <1>1, <1>2, Recursion
<1>4. g = Text(g)
  <2>0. g \in [0..n -> Seq(Byte)]
    BY <1>3 DEF Computes
  <2>1. ASSUME NEW i \in 1..n PROVE step[<<i, g[i - 1]>>] = g[i - 1] \o AppendEntry(entries[i])
    <3>1. g[i - 1] \in Seq(Byte) /\ i \in Nat /\ round[i] = AppendEntry(entries[i])
      BY <2>0
    <3> HIDE DEF round
    <3>2. QED
      BY <3>1
  <2>2. \A i \in 0..n : i # 0 => i \in 1..n
    OBVIOUS
  <2> HIDE DEF step
  <2>3. QED
    BY <1>3, <2>1, <2>2 DEF Computes
<1> DEFINE f == CHOOSE f : f = Text(f)
<1>5. f = Text(f)
  <2> HIDE DEF Text
  <2>1. QED
    BY <1>4
<1>6. Body(entries) = f
  BY <1>0 DEF Body
<1> HIDE DEF f
<1>7. f[0] = <<>>
  BY <1>5
<1>8. ASSUME NEW i \in 1..n PROVE f[i] = f[i - 1] \o AppendEntry(entries[i])
  <2>1. i \in 0..n /\ i # 0
    OBVIOUS
  <2>2. f[i] = Text(f)[i]
    <3> HIDE DEF Text
    <3>1. QED
      BY <1>5
  <2>3. QED
    BY <2>1, <2>2
<1>9. f \in [0..n -> Seq(Byte)]
  <2> DEFINE P == {k \in Nat : k <= n => f[k] \in Seq(Byte)}
  <2>1. 0 \in P
    BY <1>1, <1>7
  <2>2. ASSUME NEW k \in Nat, k \in P PROVE k + 1 \in P
    <3>1. SUFFICES ASSUME k + 1 <= n PROVE f[k + 1] \in Seq(Byte)
      OBVIOUS
    <3>2. f[k] \in Seq(Byte) /\ k + 1 \in 1..n /\ k + 1 - 1 = k
      BY <2>2, <3>1
    <3>3. PICK i \in 1..n : i = k + 1
      BY <3>2
    <3>4. f[i] = f[i - 1] \o AppendEntry(entries[i])
      BY <1>8, Zenon
    <3>5. f[i - 1] \in Seq(Byte) /\ AppendEntry(entries[i]) \in Seq(Byte)
      BY <1>1, <3>2, <3>3
    <3>6. QED
      BY <1>1, <3>3, <3>4, <3>5
  <2>3. \A k \in Nat : k \in P
    <3> HIDE DEF P
    <3>1. QED
      BY <2>1, <2>2, Induction
  <2>4. \A k \in 0..n : f[k] \in Seq(Byte)
    BY <2>3
  <2>5. f = [k \in 0..n |-> f[k]]
    BY <1>5
  <2>6. QED
    BY <2>4, <2>5
<1>10. QED
  BY <1>0, <1>6, <1>7, <1>8, <1>9 DEF BodyUpTo

(* Where each of them stands.                                              *)
LEMMA EntryPlaced ==
  ASSUME NEW entries \in Seq(Entry), NEW f, BodyUpTo(f, entries),
         NEW w \in Seq(Byte), NEW from \in Nat, Placed(f[Len(entries)], from, w),
         NEW i \in 1..Len(entries)
  PROVE  /\ Placed(AppendEntry(entries[i]), from + Len(f[i - 1]), w)
         /\ Len(f[i]) = Len(f[i - 1]) + Len(AppendEntry(entries[i]))
<1>0. PICK n \in Nat : n = Len(entries)
  BY LenProperties
<1>1. \A k \in 1..n : /\ f[k] = f[k - 1] \o AppendEntry(entries[k])
                      /\ f[k - 1] \in Seq(Byte) /\ AppendEntry(entries[k]) \in Seq(Byte)
  <2>1. SUFFICES ASSUME NEW k \in 1..n
                 PROVE  /\ f[k] = f[k - 1] \o AppendEntry(entries[k])
                        /\ f[k - 1] \in Seq(Byte) /\ AppendEntry(entries[k]) \in Seq(Byte)
    OBVIOUS
  <2>2. entries[k] \in Entry /\ k - 1 \in 0..n
    BY <1>0
  <2>3. QED
    BY <1>0, <2>2, EntrySeq DEF BodyUpTo
<1>2. \A k \in 1..n : Placed(f[k], from, w) =>
                        /\ Placed(f[k - 1], from, w)
                        /\ Placed(AppendEntry(entries[k]), from + Len(f[k - 1]), w)
  <2>1. SUFFICES ASSUME NEW k \in 1..n, Placed(f[k], from, w)
                 PROVE  /\ Placed(f[k - 1], from, w)
                        /\ Placed(AppendEntry(entries[k]), from + Len(f[k - 1]), w)
    OBVIOUS
  <2>2. Placed(f[k - 1] \o AppendEntry(entries[k]), from, w)
    BY <1>1, <2>1
  <2>3. PICK s \in Seq(Byte), t \in Seq(Byte) : s = f[k - 1] /\ t = AppendEntry(entries[k])
    BY <1>1
  <2>4. QED
    BY <2>2, <2>3, PlacedParts
<1> DEFINE P == {j \in Nat : j <= n => Placed(f[n - j], from, w)}
<1>3. 0 \in P
  BY <1>0
<1>4. ASSUME NEW j \in Nat, j \in P PROVE j + 1 \in P
  <2>1. SUFFICES ASSUME j + 1 <= n PROVE Placed(f[n - (j + 1)], from, w)
    OBVIOUS
  <2>2. Placed(f[n - j], from, w) /\ n - j \in 1..n /\ n - (j + 1) = n - j - 1
    BY <1>4, <2>1
  <2>3. QED
    BY <1>2, <2>2
<1>5. \A j \in Nat : j \in P
  <2> HIDE DEF P
  <2>1. QED
    BY <1>3, <1>4, Induction
<1>6. i \in 1..n /\ n - i \in Nat /\ n - i <= n /\ n - (n - i) = i
  BY <1>0
<1>7. Placed(f[i], from, w)
  BY <1>5, <1>6
<1>8. Len(f[i]) = Len(f[i - 1]) + Len(AppendEntry(entries[i]))
  <2>1. PICK s \in Seq(Byte), t \in Seq(Byte) : s = f[i - 1] /\ t = AppendEntry(entries[i])
    BY <1>1, <1>6
  <2>2. Len(s \o t) = Len(s) + Len(t)
    BY ConcatProperties
  <2>3. f[i] = s \o t
    BY <1>1, <1>6, <2>1
  <2>4. QED
    BY <2>1, <2>2, <2>3
<1>9. QED
  BY <1>2, <1>6, <1>7, <1>8

(* What serialize() writes before them.                                    *)
LEMMA MagicSeq == Magic \in Seq(Byte) /\ Len(Magic) = SmallWidth
<1>1. \A i \in 1..SmallWidth : i % Radix \in Byte
  BY DivMod DEF Byte
<1>2. Magic \in [1..SmallWidth -> Byte]
  BY <1>1 DEF Magic
<1>3. QED
  BY <1>2

LEMMA HeaderSeq ==
  ASSUME NEW baseline \in IntegrityBaseline
  PROVE  LET u1 == AppendUInt(SmallWidth, FORMAT_VERSION)
             s1 == AppendString(baseline.algorithm)
             u2 == AppendUInt(SmallWidth, Len(baseline.entries))
         IN  /\ u1 \in Seq(Byte) /\ Len(u1) = SmallWidth
             /\ s1 \in Seq(Byte) /\ u2 \in Seq(Byte) /\ Len(u2) = SmallWidth
             /\ Magic \o u1 \in Seq(Byte) /\ Len(Magic \o u1) = SmallWidth + SmallWidth
             /\ (Magic \o u1) \o s1 \in Seq(Byte)
             /\ Len((Magic \o u1) \o s1) = SmallWidth + SmallWidth + Len(s1)
             /\ Header(baseline) = ((Magic \o u1) \o s1) \o u2
             /\ Header(baseline) \in Seq(Byte)
             /\ Len(Header(baseline)) = SmallWidth + SmallWidth + Len(s1) + SmallWidth
<1> DEFINE u1 == AppendUInt(SmallWidth, FORMAT_VERSION)
           s1 == AppendString(baseline.algorithm)
           u2 == AppendUInt(SmallWidth, Len(baseline.entries))
           p2 == Magic \o u1
           p3 == p2 \o s1
           p4 == p3 \o u2
<1>1. /\ baseline.algorithm \in Seq(Byte) /\ Len(baseline.entries) \in Nat /\ FORMAT_VERSION \in Nat
  BY LenProperties DEF IntegrityBaseline, FORMAT_VERSION
<1>2. /\ u1 \in Seq(Byte) /\ Len(u1) = SmallWidth /\ s1 \in Seq(Byte)
      /\ u2 \in Seq(Byte) /\ Len(u2) = SmallWidth
  BY <1>1, UIntSeq, StringSeq
<1>3. Header(baseline) = p4
  BY DEF Header
<1> HIDE DEF u1, s1, u2
<1>4. PICK m \in Nat : m = Len(s1)
  BY <1>2, LenProperties
<1>5. IsText(Magic, SmallWidth) /\ IsText(u1, SmallWidth) /\ IsText(s1, m) /\ IsText(u2, SmallWidth)
  BY <1>2, <1>4, MagicSeq DEF IsText
<1>6. PICK n2 \in Nat, n3 \in Nat, n4 \in Nat :
        n2 = SmallWidth + SmallWidth /\ n3 = n2 + m /\ n4 = n3 + SmallWidth
  OBVIOUS
<1>7. IsText(p2, n2)
  BY <1>5, <1>6, JoinSeq, Zenon
<1> HIDE DEF p2
<1>8. IsText(p3, n3)
  <2>1. IsText(s1, m) /\ n3 = n2 + m
    BY <1>5, <1>6
  <2>2. QED
    BY <1>7, <2>1, JoinSeq, Zenon
<1> HIDE DEF p3
<1>9. IsText(p4, n4)
  <2>1. IsText(u2, SmallWidth) /\ n4 = n3 + SmallWidth
    BY <1>5, <1>6
  <2>2. QED
    BY <1>8, <2>1, JoinSeq, Zenon
<1> HIDE DEF p4
<1>10. /\ p2 \in Seq(Byte) /\ Len(p2) = SmallWidth + SmallWidth
       /\ p3 \in Seq(Byte) /\ Len(p3) = SmallWidth + SmallWidth + m
       /\ p4 \in Seq(Byte) /\ Len(p4) = SmallWidth + SmallWidth + m + SmallWidth
  BY <1>6, <1>7, <1>8, <1>9 DEF IsText
<1>11. QED
  BY <1>2, <1>3, <1>4, <1>10 DEF u1, s1, u2, p2, p3, p4

LEMMA SerializedParts ==
  ASSUME NEW baseline \in Baselines
  PROVE  LET w == Serialize(baseline)
             f == Body(baseline.entries)
         IN  /\ w \in Seq(Byte) /\ Len(w) = Len(Header(baseline)) + Len(f[Len(baseline.entries)])
             /\ Placed(Header(baseline), 0, w)
             /\ Placed(f[Len(baseline.entries)], Len(Header(baseline)), w)
<1>1. baseline \in IntegrityBaseline /\ baseline.entries \in Seq(Entry)
  BY DEF IntegrityBaseline
<1>2. BodyUpTo(Body(baseline.entries), baseline.entries)
  BY <1>1, BodyDef
<1>3. PICK h \in Seq(Byte) : h = Header(baseline)
  BY <1>1, HeaderSeq
<1>4. Len(baseline.entries) \in 0..Len(baseline.entries)
  BY <1>1, LenProperties
<1>5. PICK t \in Seq(Byte) : t = Body(baseline.entries)[Len(baseline.entries)]
  BY <1>2, <1>4 DEF BodyUpTo
<1>6. Serialize(baseline) = h \o t
  BY <1>3, <1>5 DEF Serialize
<1>7. h \o t \in Seq(Byte) /\ Len(h \o t) = Len(h) + Len(t)
  BY ConcatProperties
<1>8. PICK w \in Seq(Byte) : w = h \o t
  BY <1>7
<1>9. Placed(w, 0, w)
  <2>1. PICK n \in Nat : n = Len(w)
    BY LenProperties
  <2>2. \A i \in 1..n : 0 + i = i
    OBVIOUS
  <2>3. QED
    BY <2>1, <2>2 DEF Placed
<1>10. Placed(h, 0, w) /\ Placed(t, 0 + Len(h), w)
  BY <1>8, <1>9, PlacedParts
<1>11. 0 + Len(h) = Len(h)
  BY LenProperties
<1>12. QED
  BY <1>3, <1>5, <1>6, <1>7, <1>8, <1>10, <1>11

(* The header, read.                                                       *)
LEMMA ReadHeaderPlaced ==
  ASSUME NEW baseline \in Baselines, NEW w \in Seq(Byte), Placed(Header(baseline), 0, w), Agrees(w)
  PROVE  LET magic == ReadBytes(0, Len(Magic))
             version == ReadUInt(magic.next, SmallWidth)
             algorithm == ReadString(version.next)
             count == ReadUInt(algorithm.next, SmallWidth)
             to == Len(Header(baseline))
         IN  IF to <= Len(file)
             THEN /\ Fits(magic) /\ magic.value = Magic
                  /\ Fits(version) /\ version.value = FORMAT_VERSION
                  /\ algorithm.value = baseline.algorithm
                  /\ Fits(count) /\ count.value = Len(baseline.entries) /\ count.next = to
             ELSE ~Fits(count)
<1> DEFINE u1 == AppendUInt(SmallWidth, FORMAT_VERSION)
           s1 == AppendString(baseline.algorithm)
           u2 == AppendUInt(SmallWidth, Len(baseline.entries))
           p2 == Magic \o u1
           p3 == p2 \o s1
           magic == ReadBytes(0, Len(Magic))
           version == ReadUInt(magic.next, SmallWidth)
           algorithm == ReadString(version.next)
           count == ReadUInt(algorithm.next, SmallWidth)
<1>1. /\ baseline \in IntegrityBaseline /\ baseline.algorithm \in Seq(Byte)
      /\ Len(baseline.entries) \in Nat /\ FORMAT_VERSION \in Nat
      /\ FitsIn(SmallWidth, Len(baseline.algorithm)) /\ FitsIn(SmallWidth, Len(baseline.entries))
      /\ FitsIn(SmallWidth, FORMAT_VERSION)
  BY LenProperties, OneFits DEF IntegrityBaseline, FORMAT_VERSION
<1>2. /\ u1 \in Seq(Byte) /\ Len(u1) = SmallWidth /\ s1 \in Seq(Byte)
      /\ u2 \in Seq(Byte) /\ Len(u2) = SmallWidth
      /\ p2 \in Seq(Byte) /\ Len(p2) = SmallWidth + SmallWidth
      /\ p3 \in Seq(Byte) /\ Len(p3) = SmallWidth + SmallWidth + Len(s1)
      /\ Header(baseline) = p3 \o u2
      /\ Len(Header(baseline)) = SmallWidth + SmallWidth + Len(s1) + SmallWidth
  BY <1>1, HeaderSeq
<1>3. PICK m \in Nat, l \in Nat : m = Len(s1) /\ l = Len(file)
  BY <1>2, LenProperties DEF Agrees
<1>4. PICK f2 \in Nat, f3 \in Nat, f4 \in Nat :
        f2 = SmallWidth + SmallWidth /\ f3 = f2 + m /\ f4 = f3 + SmallWidth
  OBVIOUS
<1>5. Len(p2) = f2 /\ Len(p3) = f3 /\ Len(Header(baseline)) = f4
  BY <1>2, <1>3, <1>4
<1> HIDE DEF u1, s1, u2
<1>6. Placed(p3, 0, w) /\ Placed(u2, f3, w)
  <2> HIDE DEF p3
  <2>1. Placed(p3 \o u2, 0, w)
    BY <1>2
  <2>2. Placed(p3, 0, w) /\ Placed(u2, 0 + Len(p3), w)
    BY <1>2, <2>1, PlacedParts
  <2>3. QED
    BY <1>5, <2>2
<1>7. Placed(p2, 0, w) /\ Placed(s1, f2, w)
  <2>0. Placed(p2 \o s1, 0, w)
    BY <1>6
  <2> HIDE DEF p2, p3
  <2>2. Placed(p2, 0, w) /\ Placed(s1, 0 + Len(p2), w)
    BY <1>2, <2>0, PlacedParts
  <2>3. QED
    BY <1>5, <2>2
<1>8. Placed(Magic, 0, w) /\ Placed(u1, SmallWidth, w)
  <2>0. Placed(Magic \o u1, 0, w)
    BY <1>7
  <2>1. Magic \in Seq(Byte) /\ Len(Magic) = SmallWidth
    BY MagicSeq
  <2>2. Placed(Magic, 0, w) /\ Placed(u1, 0 + Len(Magic), w)
    BY <1>2, <2>0, <2>1, PlacedParts
  <2>3. QED
    BY <2>1, <2>2
<1>9. Mark(0) = 0
  BY <1>3 DEF Mark
<1>10. magic.next = Mark(SmallWidth) /\ (SmallWidth <= l => magic.value = Magic)
  <2>1. Reads(magic, Magic, 0 + Len(Magic))
    BY <1>8, <1>9, MagicSeq, ReadBytesPlaced
  <2>2. 0 + Len(Magic) = SmallWidth
    BY MagicSeq
  <2> HIDE DEF magic
  <2>3. QED
    BY <1>3, <2>1, <2>2, ReadsMark
<1>11. version.next = Mark(f2) /\ (f2 <= l => version.value = FORMAT_VERSION)
  <2>1. version = ReadUInt(Mark(SmallWidth), SmallWidth)
    BY <1>10
  <2> HIDE DEF version, magic
  <2>2. Reads(version, FORMAT_VERSION, SmallWidth + SmallWidth)
    BY <1>1, <1>8, <2>1, ReadUIntPlaced DEF u1
  <2>3. QED
    BY <1>3, <1>4, <2>2, ReadsMark
<1>12. algorithm.next = Mark(f3) /\ (f3 <= l => algorithm.value = baseline.algorithm)
  <2>1. algorithm = ReadString(Mark(f2))
    BY <1>11
  <2> HIDE DEF algorithm, version
  <2>2. Reads(algorithm, baseline.algorithm, f2 + Len(s1))
    BY <1>1, <1>7, <2>1, ReadStringPlaced DEF s1
  <2>3. QED
    BY <1>3, <1>4, <2>2, ReadsMark
<1>13. count.next = Mark(f4) /\ (f4 <= l => count.value = Len(baseline.entries))
  <2>1. count = ReadUInt(Mark(f3), SmallWidth)
    BY <1>12
  <2> HIDE DEF count, algorithm
  <2>2. Reads(count, Len(baseline.entries), f3 + SmallWidth)
    BY <1>1, <1>6, <2>1, ReadUIntPlaced DEF u2
  <2>3. QED
    BY <1>3, <1>4, <2>2, ReadsMark
<1> HIDE DEF magic, version, algorithm, count
<1>14. CASE f4 <= l
  <2>1. SmallWidth <= l /\ f2 <= l /\ f3 <= l
    BY <1>4, <1>14
  <2>2. Mark(SmallWidth) = SmallWidth /\ Mark(f2) = f2 /\ Mark(f4) = f4
    BY <1>3, <1>14, <2>1 DEF Mark
  <2>3. /\ Fits(magic) /\ magic.value = Magic
        /\ Fits(version) /\ version.value = FORMAT_VERSION
        /\ algorithm.value = baseline.algorithm
        /\ Fits(count) /\ count.value = Len(baseline.entries) /\ count.next = f4
    BY <1>3, <1>10, <1>11, <1>12, <1>13, <1>14, <2>1, <2>2 DEF Fits
  <2>4. QED
    BY <1>3, <1>5, <1>14, <2>3 DEF magic, version, algorithm, count
<1>15. CASE ~(f4 <= l)
  <2>1. ~Fits(count)
    BY <1>3, <1>13, <1>15 DEF Fits, Mark
  <2>2. QED
    BY <1>3, <1>5, <1>15, <2>1 DEF magic, version, algorithm, count
<1>16. QED
  BY <1>14, <1>15

(* What reads a field of a fixed width gives back is what stands there.    *)
LEMMA ReadBytesOf ==
  ASSUME file \in Seq(Byte), NEW from \in Nat, NEW width \in Nat,
         Fits(ReadBytes(from, width))
  PROVE  /\ from + width <= Len(file)
         /\ ReadBytes(from, width).next = from + width
         /\ ReadBytes(from, width).value \in [1..width -> Byte]
         /\ \A i \in 1..width : ReadBytes(from, width).value[i] = file[from + i]
<1>1. PICK k \in Nat : k = Len(file)
  BY LenProperties
<1>2. from + width <= k
  BY <1>1 DEF Fits, ReadBytes, Failed
<1>3. ReadBytes(from, width)
        = [value |-> SubSeq(file, from + 1, from + width), next |-> from + width]
  BY <1>1, <1>2 DEF ReadBytes
<1> DEFINE t == SubSeq(file, from + 1, from + width)
<1>4. /\ t \in Seq(Byte)
      /\ Len(t) = IF from + 1 <= from + width THEN from + width - (from + 1) + 1 ELSE 0
      /\ \A i \in 1..(from + width - (from + 1) + 1) : t[i] = file[from + 1 + i - 1]
  <2>1. \A i \in (from + 1)..(from + width) : file[i] \in Byte
    BY <1>1, <1>2
  <2>2. QED
    BY <2>1, SubSeqProperties
<1>5. from + width - (from + 1) + 1 = width /\ (~(from + 1 <= from + width) => width = 0)
  OBVIOUS
<1>6. \A i \in 1..width : from + 1 + i - 1 = from + i
  OBVIOUS
<1> HIDE DEF t
<1>7. Len(t) = width
  BY <1>4, <1>5
<1>8. t \in [1..width -> Byte]
  BY <1>4, <1>7
<1>9. \A i \in 1..width : t[i] = file[from + i]
  BY <1>4, <1>5, <1>6
<1>10. QED
  BY <1>1, <1>2, <1>3, <1>8, <1>9 DEF t

(* A header that passes the checks of deserialize() is the one written.    *)
LEMMA OneHeader ==
  ASSUME file \in Seq(Byte), NEW baseline \in Baselines,
         LET magic == ReadBytes(0, Len(Magic))
             version == ReadUInt(magic.next, SmallWidth)
         IN  /\ Fits(magic) /\ magic.value = Magic
             /\ Fits(version) /\ version.value = FORMAT_VERSION
  PROVE  \A i \in 1..HeaderSize : file[i] = Serialize(baseline)[i]
<1> DEFINE magic == ReadBytes(0, SmallWidth)
           version == ReadUInt(magic.next, SmallWidth)
           bytes == ReadBytes(SmallWidth, SmallWidth)
           u1 == AppendUInt(SmallWidth, FORMAT_VERSION)
<1>1. Len(Magic) = SmallWidth /\ Magic \in Seq(Byte)
  BY MagicSeq
<1>2. /\ Fits(magic) /\ magic.value = Magic
      /\ Fits(version) /\ version.value = FORMAT_VERSION
  BY <1>1
<1>3. magic.next = SmallWidth /\ \A i \in 1..SmallWidth : Magic[i] = file[i]
  <2>1. /\ magic.next = 0 + SmallWidth
        /\ \A i \in 1..SmallWidth : magic.value[i] = file[0 + i]
    BY <1>2, ReadBytesOf
  <2>2. 0 + SmallWidth = SmallWidth /\ \A i \in 1..SmallWidth : 0 + i = i
    OBVIOUS
  <2> HIDE DEF magic
  <2>3. QED
    BY <1>2, <2>1, <2>2
<1>4. version = IF Fits(bytes)
                THEN [bytes EXCEPT !.value = Assembled(bytes.value, SmallWidth)[SmallWidth]]
                ELSE Failed
  BY <1>3 DEF ReadUInt
<1>5. Fits(bytes)
  <2>1. ~Fits(Failed)
    BY LenProperties DEF Fits, Failed
  <2> HIDE DEF bytes, version
  <2>2. QED
    BY <1>2, <1>4, <2>1
<1>6. /\ bytes.value \in [1..SmallWidth -> Byte]
      /\ \A i \in 1..SmallWidth : bytes.value[i] = file[SmallWidth + i]
      /\ bytes = [value |-> SubSeq(file, SmallWidth + 1, SmallWidth + SmallWidth),
                  next |-> SmallWidth + SmallWidth]
  <2>1. SmallWidth \in Nat /\ SmallWidth + SmallWidth <= Len(file)
    BY <1>5, ReadBytesOf
  <2>2. ~(SmallWidth + SmallWidth > Len(file))
    BY <2>1, LenProperties
  <2>3. QED
    BY <1>5, <2>2, ReadBytesOf DEF ReadBytes
<1>7. version.value = Assembled(bytes.value, SmallWidth)[SmallWidth]
  <2> HIDE DEF version
  <2>1. QED
    BY <1>4, <1>5, <1>6
<1>8. bytes.value = u1
  <2> HIDE DEF version, bytes
  <2>1. SmallWidth \in Nat /\ FORMAT_VERSION \in Nat
    BY DEF FORMAT_VERSION
  <2>2. QED
    BY <1>2, <1>6, <1>7, <2>1, UIntReadOnce
<1>9. baseline \in IntegrityBaseline
  OBVIOUS
<1> HIDE DEF version, bytes, magic
<1>10. Placed(Magic \o u1, 0, Serialize(baseline)) /\ u1 \in Seq(Byte) /\ Len(u1) = SmallWidth
  <2> DEFINE s1 == AppendString(baseline.algorithm)
             u2 == AppendUInt(SmallWidth, Len(baseline.entries))
             w == Serialize(baseline)
             p2 == Magic \o u1
             p3 == p2 \o s1
  <2>1. /\ u1 \in Seq(Byte) /\ Len(u1) = SmallWidth /\ s1 \in Seq(Byte) /\ u2 \in Seq(Byte)
        /\ p2 \in Seq(Byte) /\ p3 \in Seq(Byte)
        /\ Header(baseline) = p3 \o u2
    BY <1>9, HeaderSeq
  <2>2. w \in Seq(Byte) /\ Placed(Header(baseline), 0, w)
    BY SerializedParts
  <2> HIDE DEF u1, s1, u2, w
  <2>3. Placed(p3, 0, w)
    <3> HIDE DEF p3
    <3>1. QED
      BY <2>1, <2>2, PlacedParts
  <2>4. Placed(p2, 0, w)
    <3>1. Placed(p2 \o s1, 0, w)
      BY <2>3
    <3> HIDE DEF p2, p3
    <3>2. QED
      BY <2>1, <2>2, <3>1, PlacedParts
  <2>5. QED
    BY <2>1, <2>4 DEF w
<1>101. /\ IsText(Magic \o u1, SmallWidth + SmallWidth)
        /\ \A i \in 1..(SmallWidth + SmallWidth) :
             (Magic \o u1)[i] = IF i <= SmallWidth THEN Magic[i] ELSE u1[i - SmallWidth]
  <2> HIDE DEF u1
  <2>1. PICK s \in Seq(Byte), t \in Seq(Byte) : s = Magic /\ t = u1
    BY <1>1, <1>10
  <2>2. Len(s) = SmallWidth /\ Len(t) = SmallWidth
    BY <1>1, <1>10, <2>1
  <2>3. IsText(s \o t, SmallWidth + SmallWidth)
    <3>1. IsText(s, SmallWidth) /\ IsText(t, SmallWidth)
      BY <2>2 DEF IsText
    <3>2. QED
      BY <3>1, JoinSeq, Zenon
  <2>4. \A i \in 1..(SmallWidth + SmallWidth) :
          (s \o t)[i] = IF i <= SmallWidth THEN s[i] ELSE t[i - SmallWidth]
    BY <2>2, ConcatProperties
  <2>5. QED
    BY <2>1, <2>3, <2>4
<1>11. \A i \in 1..HeaderSize : Serialize(baseline)[i] = (Magic \o u1)[i]
  <2> HIDE DEF u1
  <2>1. Len(Magic \o u1) = SmallWidth + SmallWidth /\ HeaderSize = SmallWidth + SmallWidth
    BY <1>1, <1>101 DEF HeaderSize, IsText
  <2>2. \A i \in 1..HeaderSize : 0 + i = i
    BY <2>1
  <2>3. \A i \in 1..HeaderSize : Serialize(baseline)[0 + i] = (Magic \o u1)[i]
    BY <1>10, <2>1 DEF Placed
  <2>4. QED
    BY <2>2, <2>3
<1>12. ASSUME NEW i \in 1..HeaderSize PROVE file[i] = (Magic \o u1)[i]
  <2> HIDE DEF u1
  <2>1. i \in 1..(SmallWidth + SmallWidth)
    BY <1>1 DEF HeaderSize
  <2>2. (Magic \o u1)[i] = IF i <= SmallWidth THEN Magic[i] ELSE u1[i - SmallWidth]
    BY <1>101, <2>1
  <2>3. CASE i <= SmallWidth
    BY <1>3, <2>1, <2>2, <2>3
  <2>4. CASE ~(i <= SmallWidth)
    <3>1. i - SmallWidth \in 1..SmallWidth /\ SmallWidth + (i - SmallWidth) = i
      BY <2>1, <2>4
    <3>2. u1[i - SmallWidth] = file[SmallWidth + (i - SmallWidth)]
      BY <1>6, <1>8, <3>1
    <3>3. QED
      BY <2>2, <2>4, <3>1, <3>2
  <2>5. QED
    BY <2>3, <2>4
<1>13. QED
  BY <1>11, <1>12

-----------------------------------------------------------------------------
(* What is known of a load. Of a file that is the beginning of what was    *)
(* written, or continues it, deserialize() has read so many entries as     *)
(* they were, and stands where they end; a file whose magic or version was *)
(* changed is not read beyond the header.                                  *)
Read ==
  LET f == Body(saved.entries)
  IN  \E k \in 0..Len(saved.entries) :
        /\ \E entries \in Seq(Entry) :
             /\ loaded = [algorithm |-> saved.algorithm, entries |-> entries]
             /\ Len(entries) = k /\ \A i \in 1..k : entries[i] = saved.entries[i]
        /\ missing = Len(saved.entries) - k
        /\ offset = Len(Header(saved)) + Len(f[k])

FileInv ==
  /\ file \in Seq(Byte)
  /\ offset <= Len(file)
  /\ reading \in {"no", "saved", "header"} => offset = 0
  /\ reading # "no" => saved \in Baselines
  /\ reading \in {"no", "saved"} => damage = "none"
  /\ reading = "saved" => file = Serialize(saved)

DamageInv ==
  reading \notin {"no", "saved"} =>
    /\ damage \in {"none", "longer"} =>
         Agrees(Serialize(saved)) /\ Len(Serialize(saved)) <= Len(file)
    /\ damage = "cut" => Agrees(Serialize(saved)) /\ Len(file) < Len(Serialize(saved))
    /\ damage = "header" => \E i \in 1..HeaderSize : file[i] # Serialize(saved)[i]

ReadInv ==
  /\ reading = "entries" => damage # "header" /\ (damage # "body" => Read)
  /\ reading = "accepted" =>
       damage \notin {"cut", "header"} /\ (damage # "body" => loaded = saved)
  /\ reading = "refused" => damage \notin {"none", "longer"}

KindInv == damage \in {"none", "cut", "longer", "header", "body"}

FormatInv == KindInv /\ FileInv /\ DamageInv /\ ReadInv

LEMMA FormatInvHolds == FormatInit => FormatInv
<1>1. <<>> \in Seq(Byte) /\ Len(<<>>) = 0
  BY EmptySeq
<1>2. QED
  BY <1>1 DEF FormatInit, FormatInv, KindInv, FileInv, DamageInv, ReadInv

(* A whole baseline is written;                                            *)
LEMMA SaveKeeps == FormatInv /\ SaveBaseline => FormatInv'
<1>1. SUFFICES ASSUME FormatInv, SaveBaseline PROVE FormatInv'
  OBVIOUS
<1>2. saved' \in Baselines /\ file' = Serialize(saved') /\ reading' = "saved"
      /\ damage' = damage /\ offset' = offset /\ damage = "none" /\ offset = 0
  BY <1>1 DEF FormatInv, FileInv, SaveBaseline
<1>3. file' \in Seq(Byte)
  BY <1>2, SerializedParts
<1>4. Len(file') \in Nat
  BY <1>3, LenProperties
<1>5. QED
  BY <1>2, <1>3, <1>4 DEF FormatInv, KindInv, FileInv, DamageInv, ReadInv

(* what the file then is depends on what became of it.                     *)
LEMMA DamageKeeps ==
  ASSUME FormatInv, NEW kind \in {"none", "cut", "longer", "header", "body"},
         NEW bytes \in Seq(Byte), Damage(kind, bytes),
         LET w == Serialize(saved)
         IN  /\ kind \in {"none", "cut", "longer"} =>
                  \A i \in 1..Len(bytes) : i <= Len(w) => bytes[i] = w[i]
             /\ kind \in {"none", "longer"} => Len(w) <= Len(bytes)
             /\ kind = "cut" => Len(bytes) < Len(w)
             /\ kind = "header" => \E i \in 1..HeaderSize : bytes[i] # w[i]
  PROVE  FormatInv'
<1>1. /\ file' = bytes /\ damage' = kind /\ reading' = "header"
      /\ saved' = saved /\ offset' = offset /\ reading = "saved"
      /\ offset = 0 /\ saved \in Baselines
  BY DEF FormatInv, FileInv, Damage
<1>2. Len(bytes) \in Nat
  BY LenProperties
<1>3. DamageInv'
  BY <1>1 DEF DamageInv, Agrees, HeaderSize, Magic
<1>4. QED
  BY <1>1, <1>2, <1>3 DEF FormatInv, KindInv, FileInv, ReadInv

LEMMA DamagedKeeps == FormatInv /\ (Kept \/ CutShort \/ Longer \/ Changed) => FormatInv'
<1>1. SUFFICES ASSUME FormatInv, Kept \/ CutShort \/ Longer \/ Changed PROVE FormatInv'
  OBVIOUS
<1>2. reading = "saved" /\ file = Serialize(saved) /\ saved \in Baselines /\ file \in Seq(Byte)
  BY <1>1 DEF FormatInv, FileInv, Kept, CutShort, Longer, Changed, Damage
<1>3. PICK n \in Nat : n = Len(file)
  BY <1>2, LenProperties
<1>4. CASE Kept
  <2>1. Damage("none", file)
    BY <1>4 DEF Kept
  <2>2. QED
    BY <1>1, <1>2, <1>3, <2>1, DamageKeeps
<1>5. CASE CutShort
  <2>1. PICK m \in 0..(n - 1) : Damage("cut", SubSeq(file, 1, m))
    BY <1>3, <1>5 DEF CutShort
  <2> DEFINE t == SubSeq(file, 1, m)
  <2>2. t \in Seq(Byte) /\ Len(t) = m /\ \A i \in 1..m : t[i] = file[i]
    <3>1. \A i \in 1..m : file[i] \in Byte
      BY <1>2, <1>3
    <3>2. /\ t \in Seq(Byte) /\ Len(t) = IF 1 <= m THEN m - 1 + 1 ELSE 0
          /\ \A i \in 1..(m - 1 + 1) : t[i] = file[1 + i - 1]
      BY <1>2, <3>1, SubSeqProperties
    <3>3. m - 1 + 1 = m /\ \A i \in 1..m : 1 + i - 1 = i
      OBVIOUS
    <3> HIDE DEF t
    <3>4. QED
      BY <3>2, <3>3
  <2>3. Damage("cut", t)
    BY <2>1
  <2> HIDE DEF t
  <2>4. QED
    BY <1>1, <1>2, <1>3, <2>2, <2>3, DamageKeeps
<1>6. CASE Longer
  <2>1. PICK b \in Byte : Damage("longer", Append(file, b))
    BY <1>6 DEF Longer
  <2> DEFINE t == Append(file, b)
  <2>2. t \in Seq(Byte) /\ Len(t) = n + 1 /\ \A i \in 1..n : t[i] = file[i]
    BY <1>2, <1>3, AppendProperties
  <2>3. Damage("longer", t)
    BY <2>1
  <2> HIDE DEF t
  <2>4. \A i \in 1..Len(t) : i <= n => i \in 1..n
    BY <2>2
  <2>5. QED
    BY <1>1, <1>2, <1>3, <2>2, <2>3, <2>4, DamageKeeps
<1>7. CASE Changed
  <2>1. PICK j \in DOMAIN file, b \in Byte :
          /\ b # file[j]
          /\ Damage(IF j <= HeaderSize THEN "header" ELSE "body", [file EXCEPT ![j] = b])
    BY <1>7 DEF Changed
  <2> DEFINE t == [file EXCEPT ![j] = b]
             kind == IF j <= HeaderSize THEN "header" ELSE "body"
  <2>2. t \in Seq(Byte) /\ t[j] = b
    BY <1>2, <2>1, ExceptSeq
  <2>3. Damage(kind, t)
    BY <2>1
  <2>4. kind \in {"header", "body"} /\ (kind = "header" => j \in 1..HeaderSize)
    <3>1. j \in 1..n
      BY <1>2, <1>3
    <3>2. HeaderSize \in Nat
      BY MagicSeq DEF HeaderSize
    <3>3. QED
      BY <3>1, <3>2
  <2> HIDE DEF t, kind
  <2>5. kind = "header" => \E i \in 1..HeaderSize : t[i] # Serialize(saved)[i]
    BY <1>2, <2>1, <2>2, <2>4
  <2>6. QED
    BY <1>1, <2>2, <2>3, <2>4, <2>5, DamageKeeps
<1>8. QED
  BY <1>1, <1>4, <1>5, <1>6, <1>7

(* deserialize() takes the header of such a file, and of a whole one.      *)
LEMMA RefusalKeeps ==
  ASSUME FormatInv, LoadFails, reading \in {"header", "entries"}, damage \notin {"none", "longer"}
  PROVE  FormatInv'
<1>1. Len(Serialize(saved))' = Len(Serialize(saved)) /\ Serialize(saved)' = Serialize(saved)
  BY DEF LoadFails
<1>2. QED
  BY <1>1 DEF FormatInv, KindInv, FileInv, DamageInv, ReadInv, LoadFails, Agrees, HeaderSize, Magic

LEMMA HeaderKeeps == FormatInv /\ ReadHeader => FormatInv'
<1>1. SUFFICES ASSUME FormatInv, ReadHeader PROVE FormatInv'
  OBVIOUS
<1> DEFINE magic == ReadBytes(0, Len(Magic))
           version == ReadUInt(magic.next, SmallWidth)
           algorithm == ReadString(version.next)
           count == ReadUInt(algorithm.next, SmallWidth)
           Right == /\ Fits(magic) /\ magic.value = Magic
                    /\ Fits(version) /\ version.value = FORMAT_VERSION
                    /\ Fits(count)
           to == Len(Header(saved))
           w == Serialize(saved)
<1>2. /\ reading = "header"
      /\ IF Right
         THEN /\ loaded' = [algorithm |-> algorithm.value, entries |-> <<>>]
              /\ missing' = count.value /\ offset' = count.next
              /\ reading' = "entries"
              /\ UNCHANGED <<saved, file, damage>>
         ELSE LoadFails
  BY <1>1 DEF ReadHeader
<1>3. file \in Seq(Byte) /\ saved \in Baselines /\ offset <= Len(file)
  BY <1>1, <1>2 DEF FormatInv, FileInv
<1>4. saved \in IntegrityBaseline /\ saved.entries \in Seq(Entry)
  BY <1>3 DEF IntegrityBaseline
<1>5. /\ damage \in {"none", "longer", "cut"} => Agrees(w)
      /\ damage \in {"none", "longer"} => Len(w) <= Len(file)
      /\ damage = "header" => \E i \in 1..HeaderSize : file[i] # w[i]
  BY <1>1, <1>2 DEF FormatInv, DamageInv
<1>6. w \in Seq(Byte) /\ Placed(Header(saved), 0, w)
      /\ Len(w) = to + Len(Body(saved.entries)[Len(saved.entries)])
  BY <1>3, SerializedParts
<1>7. to \in Nat /\ Len(w) \in Nat /\ Len(file) \in Nat /\ to <= Len(w)
  <2>1. to \in Nat /\ Len(w) \in Nat /\ Len(file) \in Nat
    BY <1>3, <1>4, <1>6, HeaderSeq, LenProperties
  <2>2. 0 + to <= Len(w)
    BY <1>6 DEF Placed
  <2> HIDE DEF to, w
  <2>3. QED
    BY <2>1, <2>2
<1>8. Agrees(w) =>
        IF to <= Len(file)
        THEN /\ Right /\ algorithm.value = saved.algorithm
             /\ count.value = Len(saved.entries) /\ count.next = to
        ELSE ~Right
  <2>1. SUFFICES ASSUME Agrees(w)
                 PROVE  IF to <= Len(file)
                        THEN /\ Right /\ algorithm.value = saved.algorithm
                             /\ count.value = Len(saved.entries) /\ count.next = to
                        ELSE ~Right
    OBVIOUS
  <2>2. IF to <= Len(file)
        THEN /\ Fits(magic) /\ magic.value = Magic
             /\ Fits(version) /\ version.value = FORMAT_VERSION
             /\ algorithm.value = saved.algorithm
             /\ Fits(count) /\ count.value = Len(saved.entries) /\ count.next = to
        ELSE ~Fits(count)
    BY <1>3, <1>6, <2>1, ReadHeaderPlaced
  <2> HIDE DEF magic, version, algorithm, count, to
  <2>3. QED
    BY <2>2
<1>9. Right => \A i \in 1..HeaderSize : file[i] = w[i]
  <2>1. SUFFICES ASSUME Right PROVE \A i \in 1..HeaderSize : file[i] = w[i]
    OBVIOUS
  <2>2. QED
    BY <1>3, <2>1, OneHeader
<1>10. Fits(count) => count.next <= Len(file)
  BY DEF Fits
<1>11. KindInv
  BY <1>1 DEF FormatInv
<1> HIDE DEF magic, version, algorithm, count
<1>12. CASE Right
  <2>1. /\ loaded' = [algorithm |-> algorithm.value, entries |-> <<>>]
        /\ missing' = count.value /\ offset' = count.next /\ reading' = "entries"
        /\ saved' = saved /\ file' = file /\ damage' = damage
    BY <1>2, <1>12
  <2>2. damage # "header"
    <3> HIDE DEF Right, w
    <3>1. QED
      BY <1>5, <1>9, <1>12
  <2>3. offset' <= Len(file)
    BY <1>10, <1>12, <2>1
  <2>4. w' = w
    BY <2>1
  <2>5. DamageInv'
    BY <1>1, <1>2, <2>1, <2>4 DEF FormatInv, DamageInv, Agrees, HeaderSize, Magic
  <2>6. damage # "body" => Read'
    <3>1. SUFFICES ASSUME damage # "body" PROVE Read'
      OBVIOUS
    <3>2. Agrees(w)
      BY <1>5, <1>11, <2>2, <3>1 DEF KindInv
    <3>3. algorithm.value = saved.algorithm /\ count.value = Len(saved.entries) /\ count.next = to
      <4> HIDE DEF Right, to, w
      <4>1. QED
        BY <1>8, <1>12, <3>2
    <3> DEFINE f == Body(saved.entries)
               n == Len(saved.entries)
    <3>4. f[0] = <<>>
      BY <1>4, BodyDef DEF BodyUpTo
    <3>5. Len(<<>>) = 0 /\ <<>> \in Seq(Entry)
      BY EmptySeq
    <3>6. n \in Nat /\ Body(saved.entries)' = f
      BY <1>4, <2>1, LenProperties
    <3> HIDE DEF f, to
    <3>7. n - 0 = n /\ 0 \in 0..n /\ offset' = to + Len(f[0])
      BY <1>7, <2>1, <3>3, <3>4, <3>5, <3>6
    <3>8. to' = to
      BY <2>1 DEF to
    <3>9. \E k \in 0..n :
            /\ \E entries \in Seq(Entry) :
                 /\ loaded' = [algorithm |-> saved.algorithm, entries |-> entries]
                 /\ Len(entries) = k /\ \A i \in 1..k : entries[i] = saved.entries[i]
            /\ missing' = n - k
            /\ offset' = to + Len(f[k])
      <4>1. /\ loaded' = [algorithm |-> saved.algorithm, entries |-> <<>>]
            /\ \A i \in 1..0 : <<>>[i] = saved.entries[i]
        BY <2>1, <3>3
      <4>2. missing' = n - 0
        BY <2>1, <3>3, <3>7
      <4>3. QED
        BY <3>5, <3>7, <4>1, <4>2
    <3>10. QED
      BY <2>1, <3>6, <3>9 DEF Read, f, to
  <2>7. QED
    BY <1>3, <1>11, <2>1, <2>2, <2>3, <2>5, <2>6 DEF FormatInv, KindInv, FileInv, ReadInv
<1>13. CASE ~Right
  <2>1. LoadFails
    BY <1>2, <1>13
  <2>2. damage \notin {"none", "longer"}
    <3> HIDE DEF Right, w, to
    <3>1. QED
      BY <1>5, <1>7, <1>8, <1>13
  <2>3. QED
    BY <1>1, <1>2, <2>1, <2>2, RefusalKeeps
<1>14. QED
  BY <1>12, <1>13

(* It takes the next entry as it is, if the file has it,                   *)
LEMMA EntryKeeps == FormatInv /\ ReadEntry => FormatInv'
<1>1. SUFFICES ASSUME FormatInv, ReadEntry PROVE FormatInv'
  OBVIOUS
<1> DEFINE entry == ReadEntryAt(offset)
           w == Serialize(saved)
           f == Body(saved.entries)
           n == Len(saved.entries)
           h == Len(Header(saved))
<1>2. /\ reading = "entries" /\ missing > 0
      /\ IF Fits(entry)
         THEN /\ loaded' = [loaded EXCEPT !.entries = Append(@, entry.value)]
              /\ missing' = missing - 1 /\ offset' = entry.next
              /\ UNCHANGED <<saved, file, damage, reading>>
         ELSE LoadFails
  BY <1>1 DEF ReadEntry
<1>3. file \in Seq(Byte) /\ saved \in Baselines /\ KindInv
  BY <1>1, <1>2 DEF FormatInv, FileInv
<1>4. /\ damage \in {"none", "longer", "cut"} => Agrees(w) /\ Read
      /\ damage \in {"none", "longer"} => Len(w) <= Len(file)
      /\ damage # "header"
  BY <1>1, <1>2 DEF FormatInv, DamageInv, ReadInv
<1>5. /\ saved.entries \in Seq(Entry)
      /\ \A i \in 1..n : saved.entries[i] \in Entry /\ EntryFits(saved.entries[i])
  <2>1. saved \in IntegrityBaseline /\ \A i \in DOMAIN saved.entries : EntryFits(saved.entries[i])
    BY <1>3
  <2>2. saved.entries \in Seq(Entry)
    BY <2>1 DEF IntegrityBaseline
  <2>3. DOMAIN saved.entries = 1..n
    BY <2>2, LenProperties
  <2>4. QED
    BY <2>1, <2>2, <2>3, ElementOfSeq
<1>6. BodyUpTo(f, saved.entries) /\ n \in Nat
  BY <1>5, BodyDef, LenProperties
<1>7. /\ w \in Seq(Byte) /\ Len(w) = h + Len(f[n]) /\ Placed(f[n], h, w)
  BY <1>3, SerializedParts
<1>8. h \in Nat /\ Len(w) \in Nat /\ Len(file) \in Nat
  <2>1. saved \in IntegrityBaseline
    BY <1>3
  <2>2. QED
    BY <1>3, <1>7, <2>1, HeaderSeq, LenProperties
(* What the next step reads, when the file agrees with what was written.   *)
<1>9. ASSUME damage # "body"
      PROVE  \E k \in 1..n, to \in Nat, entries \in Seq(Entry) :
               /\ loaded = [algorithm |-> saved.algorithm, entries |-> entries]
               /\ Len(entries) = k - 1 /\ \A i \in 1..(k - 1) : entries[i] = saved.entries[i]
               /\ missing = n - (k - 1)
               /\ to = h + Len(f[k]) /\ to <= Len(w)
               /\ entry.next = Mark(to) /\ (to <= Len(file) => entry.value = saved.entries[k])
  <2>1. Agrees(w) /\ Read
    BY <1>3, <1>4, <1>9 DEF KindInv
  <2>2. PICK j \in 0..n, entries \in Seq(Entry) :
          /\ loaded = [algorithm |-> saved.algorithm, entries |-> entries]
          /\ Len(entries) = j /\ \A i \in 1..j : entries[i] = saved.entries[i]
          /\ missing = n - j
          /\ offset = h + Len(f[j])
    BY <2>1 DEF Read
  <2>3. PICK k \in 1..n : k = j + 1
    BY <1>2, <1>6, <2>2
  <2>4. j = k - 1
    BY <2>3
  <2> DEFINE e == saved.entries[k]
             bytes == AppendEntry(e)
  <2>5. e \in Entry /\ EntryFits(e) /\ bytes \in Seq(Byte)
    BY <1>5, EntrySeq
  <2>6. Placed(bytes, h + Len(f[k - 1]), w) /\ Len(f[k]) = Len(f[k - 1]) + Len(bytes)
    <3>1. BodyUpTo(f, saved.entries) /\ Placed(f[Len(saved.entries)], h, w)
          /\ saved.entries \in Seq(Entry) /\ w \in Seq(Byte) /\ h \in Nat
          /\ k \in 1..Len(saved.entries)
      BY <1>5, <1>6, <1>7, <1>8
    <3> HIDE DEF w, f, h
    <3>2. QED
      BY <3>1, EntryPlaced
  <2>7. PICK m \in Nat, l \in Nat : m = Len(f[k - 1]) /\ l = Len(bytes)
    <3>1. k - 1 \in 0..n
      OBVIOUS
    <3>2. f[k - 1] \in Seq(Byte)
      BY <1>6, <3>1 DEF BodyUpTo
    <3>3. QED
      BY <2>5, <3>2, LenProperties
  <2>8. PICK from \in Nat, to \in Nat : from = h + m /\ to = from + l
    BY <1>8
  <2>9. offset = from /\ to = h + Len(f[k])
    <3>1. offset = h + Len(f[k - 1])
      BY <2>2, <2>4
    <3>2. Len(f[k]) = m + l
      BY <2>6, <2>7
    <3> HIDE DEF h, f
    <3>3. h + (m + l) = (h + m) + l
      BY <1>8
    <3>4. QED
      BY <2>7, <2>8, <3>1, <3>2, <3>3
  <2>10. to <= Len(w)
    <3>1. from + l <= Len(w)
      BY <2>6, <2>7, <2>8 DEF Placed
    <3>2. QED
      BY <2>8, <3>1
  <2>11. Mark(from) = from
    <3>1. offset <= Len(file)
      BY <1>1 DEF FormatInv, FileInv
    <3>2. QED
      BY <2>9, <3>1 DEF Mark
  <2>12. entry.next = Mark(to) /\ (to <= Len(file) => entry.value = e)
    <3> HIDE DEF e, w
    <3>1. Placed(AppendEntry(e), from, w) /\ from + Len(AppendEntry(e)) = to
      BY <2>6, <2>7, <2>8
    <3>2. /\ ReadEntryAt(Mark(from)).next = Mark(from + Len(AppendEntry(e)))
          /\ from + Len(AppendEntry(e)) <= Len(file) => ReadEntryAt(Mark(from)).value = e
      BY <1>7, <2>1, <2>5, <3>1, ReadEntryPlaced
    <3>3. QED
      BY <2>9, <2>11, <3>1, <3>2
  <2> HIDE DEF entry, w, f, h
  <2>13. QED
    BY <2>2, <2>4, <2>9, <2>10, <2>12
<1> HIDE DEF entry
<1>10. CASE Fits(entry)
  <2>1. /\ loaded' = [loaded EXCEPT !.entries = Append(@, entry.value)]
        /\ missing' = missing - 1 /\ offset' = entry.next
        /\ saved' = saved /\ file' = file /\ damage' = damage /\ reading' = reading
    BY <1>2, <1>10
  <2>2. offset' <= Len(file)
    BY <1>10, <2>1 DEF Fits
  <2>3. DamageInv'
    <3>1. w' = w
      BY <2>1
    <3>2. QED
      BY <1>1, <1>2, <2>1, <3>1 DEF FormatInv, DamageInv, Agrees, HeaderSize, Magic
  <2>4. damage # "body" => Read'
    <3>1. SUFFICES ASSUME damage # "body" PROVE Read'
      OBVIOUS
    <3> HIDE DEF w, f, h
    <3>2. PICK k \in 1..n, to \in Nat, entries \in Seq(Entry) :
            /\ loaded = [algorithm |-> saved.algorithm, entries |-> entries]
            /\ Len(entries) = k - 1 /\ \A i \in 1..(k - 1) : entries[i] = saved.entries[i]
            /\ missing = n - (k - 1)
            /\ to = h + Len(f[k]) /\ to <= Len(w)
            /\ entry.next = Mark(to) /\ (to <= Len(file) => entry.value = saved.entries[k])
      BY <1>9, <3>1
    <3>3. to <= Len(file) /\ entry.next = to
      BY <1>8, <1>10, <3>2 DEF Fits, Mark
    <3>4. entry.value = saved.entries[k] /\ entry.value \in Entry
      BY <1>5, <3>2, <3>3
    <3> DEFINE more == Append(entries, entry.value)
    <3>5. /\ more \in Seq(Entry) /\ Len(more) = k - 1 + 1
          /\ \A i \in 1..(k - 1) : more[i] = entries[i]
          /\ more[k - 1 + 1] = entry.value
      BY <3>2, <3>4, AppendProperties
    <3>6. k - 1 + 1 = k /\ \A i \in 1..k : i \in 1..(k - 1) \/ i = k
      OBVIOUS
    <3>7. loaded' = [algorithm |-> saved.algorithm, entries |-> more]
      BY <2>1, <3>2
    <3> HIDE DEF more
    <3>8. Len(more) = k /\ \A i \in 1..k : more[i] = saved.entries[i]
      BY <3>2, <3>4, <3>5, <3>6
    <3>9. missing' = n - k /\ offset' = h + Len(f[k]) /\ k \in 0..n
      <4>1. PICK m \in Nat : m = n
        BY <1>6
      <4> HIDE DEF n
      <4>2. missing' = m - (k - 1) - 1 /\ k \in 1..m
        BY <2>1, <3>2, <4>1
      <4>3. missing' = m - k /\ k \in 0..m
        BY <4>2
      <4>4. QED
        BY <2>1, <3>2, <3>3, <4>1, <4>3
    <3>10. \E j \in 0..n :
             /\ \E es \in Seq(Entry) :
                  /\ loaded' = [algorithm |-> saved.algorithm, entries |-> es]
                  /\ Len(es) = j /\ \A i \in 1..j : es[i] = saved.entries[i]
             /\ missing' = n - j
             /\ offset' = h + Len(f[j])
      BY <3>5, <3>7, <3>8, <3>9
    <3>11. QED
      BY <2>1, <3>10 DEF Read, f, h
  <2>5. QED
    BY <1>1, <1>2, <1>3, <1>4, <2>1, <2>2, <2>3, <2>4
    DEF FormatInv, KindInv, FileInv, ReadInv
<1>11. CASE ~Fits(entry)
  <2>1. LoadFails
    BY <1>2, <1>11
  <2>2. damage \notin {"none", "longer"}
    <3>1. SUFFICES ASSUME damage \in {"none", "longer"} PROVE FALSE
      OBVIOUS
    <3>2. Len(w) <= Len(file)
      BY <1>4, <3>1
    <3> HIDE DEF w, f, h
    <3>3. PICK to \in Nat : to <= Len(w) /\ entry.next = Mark(to)
      BY <1>9, <3>1
    <3>4. QED
      BY <1>8, <1>11, <3>2, <3>3 DEF Mark, Fits
  <2>3. QED
    BY <1>1, <1>2, <2>1, <2>2, RefusalKeeps
<1>12. QED
  BY <1>10, <1>11

(* and is done when it has them all, which a cut file never has.           *)
LEMMA SuccessKeeps == FormatInv /\ LoadSucceeds => FormatInv'
<1>1. SUFFICES ASSUME FormatInv, LoadSucceeds PROVE FormatInv'
  OBVIOUS
<1>2. /\ reading = "entries" /\ missing = 0 /\ reading' = "accepted"
      /\ saved' = saved /\ file' = file /\ damage' = damage /\ offset' = offset /\ loaded' = loaded
  BY <1>1 DEF LoadSucceeds
<1>3. file \in Seq(Byte) /\ saved \in Baselines /\ KindInv /\ offset <= Len(file)
      /\ damage # "header" /\ (damage # "body" => Read)
  BY <1>1, <1>2 DEF FormatInv, FileInv, ReadInv
<1>4. saved \in IntegrityBaseline /\ saved.entries \in Seq(Entry)
  BY <1>3 DEF IntegrityBaseline
<1>5. ASSUME damage # "body"
      PROVE  loaded = saved /\ offset = Len(Serialize(saved))
  <2>1. PICK k \in 0..Len(saved.entries), entries \in Seq(Entry) :
          /\ loaded = [algorithm |-> saved.algorithm, entries |-> entries]
          /\ Len(entries) = k /\ \A i \in 1..k : entries[i] = saved.entries[i]
          /\ missing = Len(saved.entries) - k
          /\ offset = Len(Header(saved)) + Len(Body(saved.entries)[k])
    BY <1>3, <1>5 DEF Read
  <2>2. k = Len(saved.entries)
    BY <1>2, <1>4, <2>1, LenProperties
  <2>3. entries = saved.entries
    BY <1>4, <2>1, <2>2, SeqEqual
  <2>4. loaded = saved
    BY <1>4, <2>1, <2>3 DEF IntegrityBaseline
  <2>5. QED
    BY <1>3, <2>1, <2>2, <2>4, SerializedParts
<1>6. damage # "cut"
  <2>1. SUFFICES ASSUME damage = "cut" PROVE FALSE
    OBVIOUS
  <2>2. Len(file) < Len(Serialize(saved)) /\ offset = Len(Serialize(saved))
    BY <1>1, <1>2, <1>5, <2>1 DEF FormatInv, DamageInv
  <2>3. Serialize(saved) \in Seq(Byte)
    BY <1>3, SerializedParts
  <2>4. Len(file) \in Nat /\ Len(Serialize(saved)) \in Nat
    BY <1>3, <2>3, LenProperties
  <2>5. QED
    BY <1>3, <2>2, <2>4
<1>7. DamageInv'
  BY <1>1, <1>2 DEF FormatInv, DamageInv, Agrees, HeaderSize, Magic
<1>8. QED
  BY <1>2, <1>3, <1>5, <1>6, <1>7 DEF FormatInv, KindInv, FileInv, ReadInv

LEMMA FormatInvKept == FormatInv /\ [FormatNext]_formatVars => FormatInv'
<1>1. SUFFICES ASSUME FormatInv, [FormatNext]_formatVars PROVE FormatInv'
  OBVIOUS
<1>2. CASE UNCHANGED formatVars
  <2>1. UNCHANGED <<saved, file, damage, reading, offset, missing, loaded>>
    BY <1>2 DEF formatVars
  <2>2. Read' = Read /\ DamageInv' = DamageInv
    BY <2>1 DEF Read, DamageInv, Agrees, HeaderSize, Magic
  <2>3. QED
    BY <1>1, <2>1, <2>2 DEF FormatInv, KindInv, FileInv, ReadInv
<1>3. CASE FormatNext
  BY <1>1, <1>3, SaveKeeps, DamagedKeeps, HeaderKeeps, EntryKeeps, SuccessKeeps DEF FormatNext
<1>4. QED
  BY <1>1, <1>2, <1>3

(* Whatever the widths of the integers, however many entries a baseline    *)
(* has and whatever is in them: serialize() then deserialize() gives the   *)
(* baseline back, and no more than the file is needed for it.              *)
THEOREM LoadsWhatWasSaved == FormatSpec => []LoadedIsSaved
<1>1. FormatInv => LoadedIsSaved
  BY DEF FormatInv, ReadInv, LoadedIsSaved
<1>2. QED
  BY <1>1, FormatInvHolds, FormatInvKept, PTL DEF FormatSpec

(* And deserialize() refuses every file that is shorter, and every one     *)
(* with another magic or version; it reads nothing beyond the end of any.  *)
THEOREM DamagedFilesAreRefused == FormatSpec => []OnlyWholeFilesLoad
<1>1. FormatInv => OnlyWholeFilesLoad
  BY DEF FormatInv, FileInv, ReadInv, OnlyWholeFilesLoad
<1>2. QED
  BY <1>1, FormatInvHolds, FormatInvKept, PTL DEF FormatSpec
=============================================================================
