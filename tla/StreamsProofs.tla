---------------------------- MODULE StreamsProofs ----------------------------
(***************************************************************************)
(* Proofs about what libnpmcrypto does in pieces.                          *)
(*                                                                         *)
(* HashStream: what the streaming interface of the hashes computes, for    *)
(* every layout, every width of the length counter and every sequence of   *)
(* calls.  Its invariants are inductive together (HInv); each action has a *)
(* lemma, and each lemma one step per conjunct.                            *)
(*                                                                         *)
(* BlockModes: for every block cipher, every memory, every length and      *)
(* every distance in bytes between the buffers of a call (BInv).           *)
(*                                                                         *)
(* MCStreams, which puts them and the random number generator in one run,  *)
(* is the last part.                                                       *)
(***************************************************************************)
EXTENDS MCStreams, FortunaProofs

USE DEF CRYPTO_OK, CRYPTO_INVALID_ARG, CRYPTO_HASH_OVERFLOW,
        CRYPTO_INVALID_DATA_SIZE

-----------------------------------------------------------------------------
(* Positions in a message.                                                 *)

(* The layout of a block.                                                  *)
LEMMA Layout ==
  /\ BlockSize \in Nat /\ Room \in Nat /\ LengthAt \in Nat
  /\ 0 < Room /\ Room <= LengthAt /\ LengthAt < BlockSize
  /\ Width \in Nat \ {0}
BY AlgorithmAssumption, WidthAssumption DEF BlockSize, Room, LengthAt

(* What is proved holds for the four algorithms of the library.            *)
THEOREM TheFourAreAlgorithms ==
  \A a \in {MD5, SHA1, SHA256, SHA512} :
    /\ a \in [block : Nat, room : Nat, length : Nat]
    /\ 0 < a.room /\ a.room <= a.length /\ a.length < a.block
BY DEF MD5, SHA1, SHA256, SHA512

(* Where the blocks of a message begin.                                    *)
LEMMA Offsets ==
  ASSUME NEW k \in Nat
  PROVE  /\ Offset(k) \in Nat
         /\ Offset(k + 1) = Offset(k) + BlockSize
         /\ Offset(0) = 0
<1>1. BlockSize \in Nat
  BY Layout
<1>2. BlockSize * k \in Nat /\ BlockSize * (k + 1) = BlockSize * k + BlockSize /\ BlockSize * 0 = 0
  BY <1>1, SMT
<1> QED BY <1>2 DEF Offset

(* A block ends before a later one begins.                                 *)
LEMMA BlocksAreInOrder ==
  ASSUME NEW l \in Nat, NEW k \in 1 .. l
  PROVE  /\ Offset(k - 1) \in Nat
         /\ Offset(k - 1) + BlockSize <= Offset(l)
<1>1. BlockSize \in Nat /\ k \in Nat /\ k - 1 \in Nat /\ l - k \in Nat
  BY Layout
<1>2. Offset(k - 1) \in Nat /\ Offset(k) = Offset(k - 1) + BlockSize
  <2>1. (k - 1) + 1 = k
    BY <1>1
  <2> QED BY <1>1, <2>1, Offsets
<1>3. BlockSize * (l - k) \in Nat
  BY <1>1, SMT
<1>4. BlockSize * l = BlockSize * k + BlockSize * (l - k)
  <2>1. l = k + (l - k)
    BY <1>1
  <2> QED BY <1>1, <2>1, Distributes
<1>5. Offset(k) \in Nat /\ Offset(l) \in Nat /\ Offset(k) <= Offset(l)
  <2>1. Offset(k) \in Nat /\ Offset(l) \in Nat
    BY <1>1, Offsets
  <2>2. Offset(l) = Offset(k) + BlockSize * (l - k)
    BY <1>4 DEF Offset
  <2> QED BY <1>3, <2>1, <2>2
<1> QED BY <1>1, <1>2, <1>5

(* Appending one block.                                                    *)
LEMMA OneMore ==
  ASSUME NEW S, NEW s \in Seq(S), NEW e \in S
  PROVE  /\ Append(s, e) \in Seq(S)
         /\ Len(s) \in Nat
         /\ Len(Append(s, e)) = Len(s) + 1
         /\ \A k \in 1 .. Len(s) : Append(s, e)[k] = s[k]
         /\ Append(s, e)[Len(s) + 1] = e
BY SMT

(* The bytes the algorithms write are bytes.                               *)
LEMMA BytesOfAMessage ==
  ASSUME NEW m \in Nat, NEW i \in Nat
  PROVE  Data(m, i) \in Bytes /\ LengthByte(m, i) \in Bytes
BY DEF Data, LengthByte, Bytes

LEMMA OtherBytes == One \in Bytes /\ Zero \in Bytes /\ Junk \in Bytes
BY DEF Bytes

(* The end of the padding.                                                 *)
LEMMA EndOfPadding ==
  ASSUME NEW m, NEW size \in Nat, NEW c, NEW p \in Nat, NEW v, NEW q,
         ~(p < size), p # size, ~(p < Offset(c - 1) + LengthAt),
         (8 * size) % Width = v, p - Offset(c - 1) - LengthAt = q
  PROVE  PaddedByte(m, size, c, p) = LengthByte(v, q)
BY DEF PaddedByte

-----------------------------------------------------------------------------
(* The actions.                                                            *)

(* The memory of a hash_state that was never used.                         *)
LEMMA InitHInv == ASSUME Init PROVE HInv
<1>1. TypeOK
  <2>1. 0 \in Positions /\ 0 \in 0 .. Width - 1
    BY Layout DEF Positions
  <2>2. chain \in Seq([Positions -> Bytes])
    BY DEF Init
  <2>3. buf \in [Positions -> Bytes]
    BY OtherBytes DEF Init
  <2> QED BY <2>1, <2>2, <2>3 DEF Init, TypeOK, Statuses
<1> QED BY <1>1 DEF Init, HInv, IdleIsEmpty, AbsorbedIsPrefix, LengthCountsBlocks,
                    DigestIsOfPaddedMessage, NeverInvalid

(* A new message: the buffer may be full of the last one.                  *)
LEMMA HashStartStep == ASSUME HInv, Start PROVE HInv'
<1>1. TypeOK'
  <2>1. 0 \in Positions /\ 0 \in 0 .. Width - 1
    BY Layout DEF Positions
  <2>2. chain' \in Seq([Positions -> Bytes])
    BY DEF Start
  <2>3. left = 0
    BY DEF Start, HInv, IdleIsEmpty
  <2> QED BY <2>1, <2>2, <2>3 DEF HInv, TypeOK, Start, Statuses
<1>2. left' = 0 /\ Len(chain') = 0 /\ pc' = "ready" /\ curlen' = 0 /\ length' = 0
      /\ total' = 0 /\ ret' = CRYPTO_OK
  BY DEF Start, HInv, IdleIsEmpty
<1>3. Offset(0) = 0
  BY Offsets
<1>4. AbsorbedIsPrefix'
  BY <1>1, <1>2, <1>3 DEF AbsorbedIsPrefix, Taken, TypeOK, Positions
<1>5. LengthCountsBlocks'
  <2>1. Width \in Nat \ {0} /\ 0 = Width * 0 + 0 /\ 0 \in 0 .. Width - 1
    BY Layout
  <2>2. 0 % Width = 0
    BY <2>1, RemainderIsUnique
  <2> QED BY <1>2, <1>3, <2>2 DEF LengthCountsBlocks
<1> QED BY <1>1, <1>2, <1>4, <1>5 DEF HInv, IdleIsEmpty, DigestIsOfPaddedMessage, NeverInvalid

(* curlen is a position, so *_process and *_done never reject their state. *)
LEMMA ProcessStep == ASSUME HInv, NEW n \in CallSizes, Process(n) PROVE HInv'
<1>1. n \in Nat /\ curlen <= BlockSize
  BY CallSizesAssumption, Layout DEF HInv, TypeOK, Positions
<1>2. CASE Overflows(n)
  <2>1. /\ UNCHANGED <<pc, chain, buf, curlen, length, left, message, total>>
        /\ ret' = CRYPTO_HASH_OVERFLOW
    BY <1>1, <1>2, Layout DEF Process, Rejected, HInv, TypeOK, Positions
  <2>2. TypeOK' /\ IdleIsEmpty' /\ NeverInvalid'
    BY <2>1 DEF HInv, TypeOK, Statuses, IdleIsEmpty, NeverInvalid
  <2>3. AbsorbedIsPrefix' /\ LengthCountsBlocks' /\ DigestIsOfPaddedMessage'
    BY <2>1 DEF HInv, AbsorbedIsPrefix, Taken, LengthCountsBlocks, DigestIsOfPaddedMessage
  <2> QED BY <2>2, <2>3 DEF HInv
<1>3. CASE ~Overflows(n)
  <2>1. /\ pc = "ready" /\ pc' = "process" /\ left' = n /\ total' = total + n
        /\ UNCHANGED <<chain, buf, curlen, length, ret, message>>
    BY <1>1, <1>3, Layout DEF Process, HInv, TypeOK, Positions
  <2>2. left = 0
    BY <2>1 DEF HInv, IdleIsEmpty
  <2>3. TypeOK' /\ IdleIsEmpty' /\ NeverInvalid'
    BY <1>1, <2>1 DEF HInv, TypeOK, IdleIsEmpty, NeverInvalid
  <2>4. Taken' = Taken
    BY <1>1, <2>1, <2>2 DEF Taken, HInv, TypeOK
  <2>5. AbsorbedIsPrefix' /\ LengthCountsBlocks' /\ DigestIsOfPaddedMessage'
    BY <2>1, <2>4 DEF HInv, AbsorbedIsPrefix, LengthCountsBlocks, DigestIsOfPaddedMessage
  <2> QED BY <2>3, <2>5 DEF HInv
<1> QED BY <1>2, <1>3

LEMMA ReturnStep == ASSUME HInv, ProcessReturns PROVE HInv'
<1>1. TypeOK' /\ IdleIsEmpty' /\ NeverInvalid'
  BY DEF HInv, TypeOK, Statuses, IdleIsEmpty, NeverInvalid, ProcessReturns
<1>2. AbsorbedIsPrefix' /\ LengthCountsBlocks' /\ DigestIsOfPaddedMessage'
  BY DEF HInv, AbsorbedIsPrefix, Taken, LengthCountsBlocks, DigestIsOfPaddedMessage,
         ProcessReturns
<1> QED BY <1>1, <1>2 DEF HInv

(* The next block of the message is compressed: the blocks are still a     *)
(* prefix of it.  Both ways through the loop use this.                     *)
LEMMA CompressExtends ==
  ASSUME HInv, pc = "process",
         NEW b \in [Positions -> Bytes],
         \A i \in Positions : b[i] = Data(message, Offset(Len(chain)) + i),
         Compress(b), message' = message
  PROVE  /\ chain' \in Seq([Positions -> Bytes])
         /\ Len(chain) \in Nat
         /\ Len(chain') = Len(chain) + 1
         /\ \A k \in 1 .. Len(chain'), i \in Positions :
              chain'[k][i] = Data(message', Offset(k - 1) + i)
         /\ length' \in 0 .. Width - 1
         /\ length' = (8 * Offset(Len(chain'))) % Width
<1>1. /\ chain' \in Seq([Positions -> Bytes])
      /\ Len(chain) \in Nat
      /\ Len(chain') = Len(chain) + 1
      /\ \A k \in 1 .. Len(chain) : chain'[k] = chain[k]
      /\ chain'[Len(chain) + 1] = b
  BY OneMore DEF Compress, HInv, TypeOK
<1>2. ASSUME NEW k \in 1 .. Len(chain'), NEW i \in Positions
      PROVE  chain'[k][i] = Data(message', Offset(k - 1) + i)
  <2>1. CASE k \in 1 .. Len(chain)
    BY <1>1, <2>1 DEF HInv, AbsorbedIsPrefix
  <2>2. CASE k = Len(chain) + 1
    <3>1. k - 1 = Len(chain)
      BY <1>1, <2>2
    <3> QED BY <1>1, <2>2, <3>1
  <2> QED BY <1>1, <2>1, <2>2
<1>3. length = (8 * Offset(Len(chain))) % Width
  BY DEF HInv, LengthCountsBlocks
<1>4. /\ 8 * Offset(Len(chain)) \in Nat /\ 8 * BlockSize \in Nat /\ Width \in Nat \ {0}
      /\ 8 * Offset(Len(chain')) = 8 * Offset(Len(chain)) + 8 * BlockSize
  <2>1. Offset(Len(chain)) \in Nat /\ Offset(Len(chain')) = Offset(Len(chain)) + BlockSize
    BY <1>1, Offsets
  <2> QED BY <2>1, Layout
<1>5. length' = (8 * Offset(Len(chain'))) % Width
  BY <1>3, <1>4, WrapsOnce DEF Compress
<1>6. 8 * Offset(Len(chain')) \in Nat
  BY <1>4
<1>7. length' \in 0 .. Width - 1
  BY <1>4, <1>5, <1>6, Division
<1> QED BY <1>1, <1>2, <1>5, <1>7

LEMMA TakeBlockStep == ASSUME HInv, TakeBlock PROVE HInv'
<1> DEFINE b == [i \in Positions |-> Data(message, Taken + i)]
<1>1. /\ pc = "process" /\ pc' = "process" /\ curlen = 0 /\ left >= BlockSize
      /\ left' = left - BlockSize /\ Compress(b)
      /\ UNCHANGED <<buf, curlen, ret, message, total>>
  BY DEF TakeBlock
<1>2. Len(chain) \in Nat /\ Taken \in Nat /\ Taken = Offset(Len(chain))
  <2>1. Len(chain) \in Nat /\ Taken = Offset(Len(chain)) + 0
    BY <1>1 DEF HInv, TypeOK, AbsorbedIsPrefix
  <2>2. Offset(Len(chain)) \in Nat
    BY <2>1, Offsets
  <2> QED BY <2>1, <2>2
<1>3. b \in [Positions -> Bytes]
  <2>1. ASSUME NEW i \in Positions PROVE Data(message, Taken + i) \in Bytes
    <3>1. Taken + i \in Nat /\ message \in Nat
      BY <1>2 DEF Positions, HInv, TypeOK
    <3> QED BY <3>1, BytesOfAMessage
  <2> QED BY <2>1
<1>4. \A i \in Positions : b[i] = Data(message, Offset(Len(chain)) + i)
  BY <1>2
<1> HIDE DEF b
<1>5. /\ chain' \in Seq([Positions -> Bytes])
      /\ Len(chain') = Len(chain) + 1
      /\ \A k \in 1 .. Len(chain'), i \in Positions :
           chain'[k][i] = Data(message', Offset(k - 1) + i)
      /\ length' \in 0 .. Width - 1
      /\ length' = (8 * Offset(Len(chain'))) % Width
  BY <1>1, <1>3, <1>4, CompressExtends
<1>6. TypeOK' /\ IdleIsEmpty' /\ NeverInvalid'
  <2>1. left' \in Nat /\ left' <= total'
    BY <1>1, Layout DEF HInv, TypeOK
  <2> QED BY <1>1, <1>5, <2>1 DEF HInv, TypeOK, IdleIsEmpty, NeverInvalid
<1>7. Taken' = Offset(Len(chain')) + curlen'
  <2>1. Offset(Len(chain')) = Offset(Len(chain)) + BlockSize
    BY <1>2, <1>5, Offsets
  <2> QED BY <1>1, <1>2, <2>1, Layout DEF Taken, HInv, TypeOK
<1>8. AbsorbedIsPrefix'
  BY <1>1, <1>5, <1>6, <1>7 DEF AbsorbedIsPrefix, TypeOK, Positions
<1>9. LengthCountsBlocks' /\ DigestIsOfPaddedMessage'
  BY <1>1, <1>5 DEF LengthCountsBlocks, DigestIsOfPaddedMessage
<1> QED BY <1>6, <1>8, <1>9 DEF HInv

(* The buffer continues the message, and is compressed when it is full.    *)
LEMMA TakeBytesStep == ASSUME HInv, TakeBytes PROVE HInv'
<1> DEFINE n == Smaller(left, BlockSize - curlen)
<1>1. /\ pc = "process" /\ pc' = "process" /\ left > 0
      /\ buf' = Filled(n) /\ left' = left - n
      /\ UNCHANGED <<ret, message, total>>
  BY DEF TakeBytes
<1>2. n \in Nat /\ n <= left /\ curlen + n <= BlockSize /\ curlen \in Nat /\ curlen < BlockSize
  BY <1>1, Layout DEF Smaller, HInv, TypeOK, Positions
<1>3. IF curlen + n = BlockSize THEN curlen' = 0 /\ Compress(Filled(n))
                            ELSE curlen' = curlen + n /\ UNCHANGED <<chain, length>>
  BY DEF TakeBytes
<1> HIDE DEF n
<1>4. /\ Len(chain) \in Nat /\ Offset(Len(chain)) \in Nat
      /\ Taken \in Nat /\ Taken = Offset(Len(chain)) + curlen
  BY <1>1, Offsets DEF HInv, TypeOK, AbsorbedIsPrefix, Taken
<1>5. Filled(n) \in [Positions -> Bytes]
  <2>1. ASSUME NEW i \in curlen .. curlen + n - 1
        PROVE  Data(message, Taken + (i - curlen)) \in Bytes
    <3>1. Taken + (i - curlen) \in Nat /\ message \in Nat
      BY <1>2, <1>4 DEF HInv, TypeOK
    <3> QED BY <3>1, BytesOfAMessage
  <2>2. \A i \in Positions : buf[i] \in Bytes
    BY DEF HInv, TypeOK
  <2> QED BY <2>1, <2>2 DEF Filled
<1>6. ASSUME NEW i \in Positions, i < curlen + n
      PROVE  Filled(n)[i] = Data(message, Offset(Len(chain)) + i)
  <2>1. CASE i < curlen
    BY <1>1, <1>2, <2>1 DEF Filled, Positions, HInv, AbsorbedIsPrefix
  <2>2. CASE ~(i < curlen)
    <3>1. i \in curlen .. curlen + n - 1
      BY <1>2, <1>6, <2>2 DEF Positions
    <3>2. Taken + (i - curlen) = Offset(Len(chain)) + i
      BY <1>2, <1>4 DEF Positions
    <3> QED BY <3>1, <3>2 DEF Filled
  <2> QED BY <2>1, <2>2
<1>7. CASE curlen + n = BlockSize
  <2>1. curlen' = 0 /\ Compress(Filled(n))
    BY <1>3, <1>7
  <2>2. \A i \in Positions : Filled(n)[i] = Data(message, Offset(Len(chain)) + i)
    BY <1>6, <1>7, Layout DEF Positions
  <2>3. /\ chain' \in Seq([Positions -> Bytes])
        /\ Len(chain') = Len(chain) + 1
        /\ \A k \in 1 .. Len(chain'), i \in Positions :
             chain'[k][i] = Data(message', Offset(k - 1) + i)
        /\ length' \in 0 .. Width - 1
        /\ length' = (8 * Offset(Len(chain'))) % Width
    BY <1>1, <1>5, <2>1, <2>2, CompressExtends
  <2>4. TypeOK' /\ IdleIsEmpty' /\ NeverInvalid'
    <3>1. curlen' \in Positions
      BY <2>1, Layout DEF Positions
    <3> QED BY <1>1, <1>2, <1>5, <2>3, <3>1 DEF HInv, TypeOK, IdleIsEmpty, NeverInvalid
  <2>5. Taken' = Offset(Len(chain')) + curlen'
    <3>1. Offset(Len(chain')) = Offset(Len(chain)) + BlockSize
      BY <1>4, <2>3, Offsets
    <3>2. Taken' = Taken + n
      BY <1>1, <1>2 DEF Taken, HInv, TypeOK
    <3> QED BY <1>2, <1>4, <1>7, <2>1, <3>1, <3>2, Layout
  <2>6. AbsorbedIsPrefix'
    BY <2>1, <2>3, <2>4, <2>5 DEF AbsorbedIsPrefix, TypeOK, Positions
  <2>7. LengthCountsBlocks' /\ DigestIsOfPaddedMessage'
    BY <1>1, <2>3 DEF LengthCountsBlocks, DigestIsOfPaddedMessage
  <2> QED BY <2>4, <2>6, <2>7 DEF HInv
<1>8. CASE curlen + n # BlockSize
  <2>1. curlen' = curlen + n /\ UNCHANGED <<chain, length>>
    BY <1>3, <1>8
  <2>2. TypeOK' /\ IdleIsEmpty' /\ NeverInvalid'
    <3>1. curlen' \in Positions
      BY <1>2, <1>8, <2>1, Layout DEF Positions
    <3> QED BY <1>1, <1>2, <1>5, <2>1, <3>1 DEF HInv, TypeOK, IdleIsEmpty, NeverInvalid
  <2>3. Taken' = Offset(Len(chain')) + curlen'
    BY <1>1, <1>2, <1>4, <2>1 DEF Taken, HInv, TypeOK
  <2>4. \A k \in 1 .. Len(chain'), i \in Positions :
          chain'[k][i] = Data(message', Offset(k - 1) + i)
    BY <1>1, <2>1 DEF HInv, AbsorbedIsPrefix
  <2>5. \A i \in Positions :
          i < curlen' => buf'[i] = Data(message', Offset(Len(chain')) + i)
    BY <1>1, <1>6, <2>1
  <2>6. AbsorbedIsPrefix'
    BY <2>3, <2>4, <2>5 DEF AbsorbedIsPrefix
  <2>7. LengthCountsBlocks' /\ DigestIsOfPaddedMessage'
    BY <1>1, <2>1 DEF HInv, LengthCountsBlocks, DigestIsOfPaddedMessage
  <2> QED BY <2>2, <2>6, <2>7 DEF HInv
<1> QED BY <1>7, <1>8

(* The blocks of *_done follow those of the loop: what `last` or `rest`    *)
(* hold is the padding of the message.                                     *)
LEMMA DoneStep == ASSUME HInv, Done PROVE HInv'
<1> DEFINE bits   == (length + 8 * curlen) % Width
           marked == [buf EXCEPT ![curlen] = One]
           rest   == Cleared(marked, curlen + 1)
           first  == Cleared(marked, 0)
           l      == Len(chain)
<1>1. /\ pc = "ready" /\ pc' = "finished" /\ ret' = CRYPTO_OK /\ Pad
      /\ UNCHANGED <<left, message, total>>
  BY Layout DEF Done, HInv, TypeOK, Positions
<1>2. curlen \in Nat /\ curlen < BlockSize /\ curlen \in Positions /\ left = 0 /\ total \in Nat
  BY <1>1, Layout DEF HInv, TypeOK, Positions, IdleIsEmpty
<1>3. l \in Nat /\ Offset(l) \in Nat /\ total = Offset(l) + curlen
  <2>1. l \in Nat /\ Taken = Offset(l) + curlen
    BY <1>1 DEF HInv, TypeOK, AbsorbedIsPrefix
  <2> QED BY <1>2, <2>1, Offsets DEF Taken
<1>4. bits = (8 * total) % Width /\ bits \in Nat /\ bits \in 0 .. Width - 1
  <2>1. length = (8 * Offset(l)) % Width
    BY <1>1 DEF HInv, LengthCountsBlocks
  <2>2. 8 * Offset(l) \in Nat /\ 8 * curlen \in Nat /\ 8 * total = 8 * Offset(l) + 8 * curlen
        /\ 8 * total \in Nat
    BY <1>2, <1>3
  <2>3. bits = (8 * total) % Width
    BY <2>1, <2>2, Layout, WrapsOnce
  <2>4. (8 * total) % Width \in 0 .. Width - 1
    BY <2>2, Layout, Division
  <2> QED BY <2>3, <2>4, Layout
<1>5. marked \in [Positions -> Bytes]
  BY OtherBytes DEF HInv, TypeOK
<1>6. /\ rest \in [Positions -> Bytes]
      /\ first \in [Positions -> Bytes]
  BY <1>5, OtherBytes DEF Cleared
<1>7. ASSUME NEW b \in [Positions -> Bytes]
      PROVE  WithLength(b, bits) \in [Positions -> Bytes]
  <2>1. ASSUME NEW i \in Positions, ~(i < LengthAt)
        PROVE  LengthByte(bits, i - LengthAt) \in Bytes
    <3>1. i - LengthAt \in Nat
      BY <2>1, Layout DEF Positions
    <3> QED BY <1>4, <3>1, BytesOfAMessage
  <2> QED BY <2>1 DEF WithLength
<1>8. \A i \in Positions :
        rest[i] = IF i < curlen THEN Data(message, Offset(l) + i)
                  ELSE IF i = curlen THEN One ELSE Zero
  <2>1. \A i \in Positions : i < curlen => buf[i] = Data(message, Offset(l) + i)
    BY <1>1 DEF HInv, AbsorbedIsPrefix
  <2>2. \A i \in Positions : marked[i] = IF i = curlen THEN One ELSE buf[i]
    BY DEF HInv, TypeOK
  <2> HIDE DEF marked
  <2> QED BY <1>2, <2>1, <2>2 DEF Cleared, Positions
<1>9. \A i \in Positions : first[i] = Zero
  BY DEF Cleared, Positions
<1>10. \A b, i : i \in Positions =>
         WithLength(b, bits)[i] = IF i < LengthAt THEN b[i] ELSE LengthByte(bits, i - LengthAt)
  BY DEF WithLength
<1>11. /\ IF curlen + 1 <= Room
            THEN chain' = Append(chain, WithLength(rest, bits))
                 /\ buf' = WithLength(rest, bits)
            ELSE chain' = Append(Append(chain, rest), WithLength(first, bits))
                 /\ buf' = WithLength(first, bits)
       /\ length' = bits /\ curlen' = LengthAt
  BY <1>1 DEF Pad
<1> HIDE DEF bits, marked, rest, first
(* What becomes of the blocks of the loop.                                 *)
<1>12. ASSUME NEW k \in 1 .. l, NEW i \in Positions, NEW c \in Nat
       PROVE  chain[k][i] = PaddedByte(message, total, c, Offset(k - 1) + i)
  <2>1. chain[k][i] = Data(message, Offset(k - 1) + i)
    BY <1>1 DEF HInv, AbsorbedIsPrefix
  <2>2. Offset(k - 1) \in Nat /\ Offset(k - 1) + BlockSize <= Offset(l)
    BY <1>3, BlocksAreInOrder
  <2>3. Offset(k - 1) + i < total
    BY <1>2, <1>3, <2>2, Layout DEF Positions
  <2> QED BY <2>1, <2>3 DEF PaddedByte
<1>13. ASSUME curlen + 1 <= Room
       PROVE  chain' \in Seq([Positions -> Bytes]) /\ buf' \in [Positions -> Bytes]
             /\ DigestIsOfPaddedMessage'
  <2> DEFINE final == WithLength(rest, bits)
  <2>1. final \in [Positions -> Bytes] /\ chain' = Append(chain, final) /\ buf' = final
    BY <1>6, <1>7, <1>11, <1>13
  <2>2. /\ chain' \in Seq([Positions -> Bytes]) /\ Len(chain') = l + 1
        /\ \A k \in 1 .. l : chain'[k] = chain[k]
        /\ chain'[l + 1] = final
    BY <2>1, OneMore DEF HInv, TypeOK
  <2>3. \A i \in Positions :
          final[i] = IF i < LengthAt THEN rest[i] ELSE LengthByte(bits, i - LengthAt)
    BY <1>10
  <2> HIDE DEF final
  <2>4. Offset(l + 1) = Offset(l) + BlockSize
    BY <1>3, Offsets
  <2>5. ASSUME NEW i \in Positions
        PROVE  final[i] = PaddedByte(message, total, l + 1, Offset(l) + i)
    <3>1. (l + 1) - 1 = l /\ i \in Nat
      BY <1>3 DEF Positions
    <3>2. CASE i < curlen
      <4>1. Offset(l) + i < total /\ i < LengthAt
        BY <1>2, <1>3, <1>13, <3>1, <3>2, Layout
      <4> QED BY <1>8, <2>3, <3>2, <4>1 DEF PaddedByte
    <3>3. CASE i = curlen
      <4>1. Offset(l) + i = total /\ ~(Offset(l) + i < total) /\ i < LengthAt /\ ~(i < curlen)
        BY <1>2, <1>3, <1>13, <3>1, <3>3, Layout
      <4> QED BY <1>8, <2>3, <3>3, <4>1 DEF PaddedByte
    <3>4. CASE i > curlen /\ i < LengthAt
      <4>1. /\ Offset(l) + i # total /\ ~(Offset(l) + i < total)
            /\ Offset(l) + i < Offset((l + 1) - 1) + LengthAt
            /\ ~(i < curlen) /\ i # curlen
        BY <1>2, <1>3, <3>1, <3>4, Layout
      <4> QED BY <1>8, <2>3, <3>4, <4>1 DEF PaddedByte
    <3>5. CASE ~(i < LengthAt)
      <4>1. /\ Offset(l) + i # total /\ ~(Offset(l) + i < total)
            /\ ~(Offset(l) + i < Offset((l + 1) - 1) + LengthAt)
            /\ (Offset(l) + i) - Offset((l + 1) - 1) - LengthAt = i - LengthAt
        BY <1>2, <1>3, <1>13, <3>1, <3>5, Layout
      <4>2. Offset(l) + i \in Nat /\ total \in Nat
        BY <1>2, <1>3, <3>1
      <4>3. PaddedByte(message, total, l + 1, Offset(l) + i) = LengthByte(bits, i - LengthAt)
        <5> DEFINE k == l + 1
                   p == Offset(l) + i
                   q == i - LengthAt
        <5>1. /\ total \in Nat /\ p \in Nat
              /\ ~(p < total) /\ p # total /\ ~(p < Offset(k - 1) + LengthAt)
              /\ p - Offset(k - 1) - LengthAt = q
          BY <4>1, <4>2
        <5>2. (8 * total) % Width = bits
          BY <1>4
        <5> HIDE DEF k, p, q
        <5>3. PaddedByte(message, total, k, p) = LengthByte(bits, q)
          BY <5>1, <5>2, EndOfPadding
        <5> QED
          BY <5>3 DEF k, p, q
      <4>4. final[i] = LengthByte(bits, i - LengthAt)
        BY <2>3, <3>5
      <4> QED BY <4>3, <4>4
    <3> QED BY <1>2, <3>1, <3>2, <3>3, <3>4, <3>5, Layout
  <2>6. ASSUME NEW k \in 1 .. Len(chain'), NEW i \in Positions
        PROVE  chain'[k][i] = PaddedByte(message', total', Len(chain'), Offset(k - 1) + i)
    <3>1. CASE k \in 1 .. l
      BY <1>1, <1>3, <1>12, <2>2, <3>1
    <3>2. CASE k = l + 1
      <4>1. k - 1 = l
        BY <1>3, <3>2
      <4> QED BY <1>1, <2>2, <2>5, <3>2, <4>1
    <3> QED BY <1>3, <2>2, <3>1, <3>2
  <2>7. /\ Len(chain') > 0
        /\ Offset(Len(chain') - 1) < total' + 1 + (BlockSize - Room)
        /\ total' + 1 + (BlockSize - Room) <= Offset(Len(chain'))
    <3>1. Len(chain') - 1 = l
      BY <1>3, <2>2
    <3> QED BY <1>1, <1>2, <1>3, <1>13, <2>2, <2>4, <3>1, Layout
  <2>8. chain' \in Seq([Positions -> Bytes]) /\ buf' \in [Positions -> Bytes]
        /\ DigestIsOfPaddedMessage'
    BY <2>1, <2>2, <2>6, <2>7 DEF DigestIsOfPaddedMessage
  <2> QED BY <2>8
<1>14. ASSUME ~(curlen + 1 <= Room)
       PROVE  chain' \in Seq([Positions -> Bytes]) /\ buf' \in [Positions -> Bytes]
             /\ DigestIsOfPaddedMessage'
  <2> DEFINE final == WithLength(first, bits)
  <2>1. /\ final \in [Positions -> Bytes] /\ buf' = final
        /\ chain' = Append(Append(chain, rest), final)
    BY <1>6, <1>7, <1>11, <1>14
  <2>2. /\ Append(chain, rest) \in Seq([Positions -> Bytes])
        /\ Len(Append(chain, rest)) = l + 1
        /\ \A k \in 1 .. l : Append(chain, rest)[k] = chain[k]
        /\ Append(chain, rest)[l + 1] = rest
    BY <1>6, OneMore DEF HInv, TypeOK
  <2>3. /\ chain' \in Seq([Positions -> Bytes]) /\ Len(chain') = l + 2
        /\ \A k \in 1 .. l : chain'[k] = chain[k]
        /\ chain'[l + 1] = rest
        /\ chain'[l + 2] = final
    <3>1. /\ chain' \in Seq([Positions -> Bytes])
          /\ Len(chain') = (l + 1) + 1
          /\ \A k \in 1 .. l + 1 : chain'[k] = Append(chain, rest)[k]
          /\ chain'[(l + 1) + 1] = final
      BY <2>1, <2>2, OneMore
    <3>2. (l + 1) + 1 = l + 2 /\ l + 1 \in 1 .. l + 1 /\ \A k \in 1 .. l : k \in 1 .. l + 1
      BY <1>3
    <3> HIDE DEF l
    <3> QED BY <2>2, <3>1, <3>2
  <2>4. \A i \in Positions :
          final[i] = IF i < LengthAt THEN Zero ELSE LengthByte(bits, i - LengthAt)
    BY <1>9, <1>10
  <2> HIDE DEF final
  <2>5. Offset(l + 1) = Offset(l) + BlockSize /\ Offset(l + 2) = Offset(l) + BlockSize + BlockSize
    <3>1. l + 1 \in Nat /\ (l + 1) + 1 = l + 2
      BY <1>3
    <3>2. Offset(l + 1) = Offset(l) + BlockSize
      BY <1>3, Offsets
    <3>3. Offset((l + 1) + 1) = Offset(l + 1) + BlockSize
      BY <3>1, Offsets
    <3> QED BY <3>1, <3>2, <3>3
  <2>6. ASSUME NEW i \in Positions
        PROVE  rest[i] = PaddedByte(message, total, l + 2, Offset(l) + i)
    <3>1. (l + 2) - 1 = l + 1 /\ i \in Nat /\ i < BlockSize
      BY <1>3, Layout DEF Positions
    <3>2. CASE i < curlen
      <4>1. Offset(l) + i < total
        BY <1>2, <1>3, <3>1, <3>2
      <4> QED BY <1>8, <3>2, <4>1 DEF PaddedByte
    <3>3. CASE i = curlen
      <4>1. Offset(l) + i = total /\ ~(Offset(l) + i < total) /\ ~(i < curlen)
        BY <1>2, <1>3, <3>1, <3>3
      <4> QED BY <1>8, <3>3, <4>1 DEF PaddedByte
    <3>4. CASE i > curlen
      <4>1. /\ Offset(l) + i # total /\ ~(Offset(l) + i < total)
            /\ Offset(l) + i < Offset((l + 2) - 1) + LengthAt
            /\ ~(i < curlen) /\ i # curlen
        BY <1>2, <1>3, <2>5, <3>1, <3>4, Layout
      <4> QED BY <1>8, <4>1 DEF PaddedByte
    <3> QED BY <1>2, <3>1, <3>2, <3>3, <3>4
  <2>7. ASSUME NEW i \in Positions
        PROVE  final[i] = PaddedByte(message, total, l + 2, Offset(l + 1) + i)
    <3>1. (l + 2) - 1 = l + 1 /\ i \in Nat /\ Offset(l + 1) \in Nat
      BY <1>3, <2>5, Layout DEF Positions
    <3>2. Offset(l + 1) + i # total /\ ~(Offset(l + 1) + i < total)
      BY <1>2, <1>3, <2>5, <3>1, Layout
    <3>3. CASE i < LengthAt
      <4>1. Offset(l + 1) + i < Offset((l + 2) - 1) + LengthAt
        BY <3>1, <3>3, Layout
      <4> QED BY <2>4, <3>2, <3>3, <4>1 DEF PaddedByte
    <3>4. CASE ~(i < LengthAt)
      <4>1. /\ ~(Offset(l + 1) + i < Offset((l + 2) - 1) + LengthAt)
            /\ (Offset(l + 1) + i) - Offset((l + 2) - 1) - LengthAt = i - LengthAt
        BY <3>1, <3>4, Layout
      <4>2. Offset(l + 1) + i \in Nat /\ total \in Nat
        BY <1>2, <3>1
      <4>3. PaddedByte(message, total, l + 2, Offset(l + 1) + i) = LengthByte(bits, i - LengthAt)
        <5> DEFINE k == l + 2
                   p == Offset(l + 1) + i
                   q == i - LengthAt
        <5>1. /\ total \in Nat /\ p \in Nat
              /\ ~(p < total) /\ p # total /\ ~(p < Offset(k - 1) + LengthAt)
              /\ p - Offset(k - 1) - LengthAt = q
          BY <3>2, <4>1, <4>2
        <5>2. (8 * total) % Width = bits
          BY <1>4
        <5> HIDE DEF k, p, q
        <5>3. PaddedByte(message, total, k, p) = LengthByte(bits, q)
          BY <5>1, <5>2, EndOfPadding
        <5> QED
          BY <5>3 DEF k, p, q
      <4>4. final[i] = LengthByte(bits, i - LengthAt)
        BY <2>4, <3>4
      <4> QED BY <4>3, <4>4
    <3> QED BY <3>3, <3>4
  <2>8. ASSUME NEW k \in 1 .. Len(chain'), NEW i \in Positions
        PROVE  chain'[k][i] = PaddedByte(message', total', Len(chain'), Offset(k - 1) + i)
    <3>1. CASE k \in 1 .. l
      <4>1. l + 2 \in Nat
        BY <1>3
      <4> QED BY <1>1, <1>12, <2>3, <3>1, <4>1
    <3>2. CASE k = l + 1
      <4>1. k - 1 = l
        BY <1>3, <3>2
      <4> QED BY <1>1, <2>3, <2>6, <3>2, <4>1
    <3>3. CASE k = l + 2
      <4>1. k - 1 = l + 1
        BY <1>3, <3>3
      <4> QED BY <1>1, <2>3, <2>7, <3>3, <4>1
    <3> QED BY <1>3, <2>3, <3>1, <3>2, <3>3
  <2>9. /\ Len(chain') > 0
        /\ Offset(Len(chain') - 1) < total' + 1 + (BlockSize - Room)
        /\ total' + 1 + (BlockSize - Room) <= Offset(Len(chain'))
    <3>1. Len(chain') - 1 = l + 1
      BY <1>3, <2>3
    <3> QED BY <1>1, <1>2, <1>3, <1>14, <2>3, <2>5, <3>1, Layout
  <2>10. chain' \in Seq([Positions -> Bytes]) /\ buf' \in [Positions -> Bytes]
         /\ DigestIsOfPaddedMessage'
    BY <2>1, <2>3, <2>8, <2>9 DEF DigestIsOfPaddedMessage
  <2> QED BY <2>10
<1>15. chain' \in Seq([Positions -> Bytes]) /\ buf' \in [Positions -> Bytes]
       /\ DigestIsOfPaddedMessage'
  BY <1>13, <1>14
<1>16. TypeOK' /\ IdleIsEmpty' /\ NeverInvalid'
  <2>1. curlen' \in Positions
    BY <1>11, Layout DEF Positions
  <2> QED BY <1>1, <1>2, <1>4, <1>11, <1>15, <2>1
          DEF HInv, TypeOK, Statuses, IdleIsEmpty, NeverInvalid
<1>17. AbsorbedIsPrefix' /\ LengthCountsBlocks'
  BY <1>1 DEF AbsorbedIsPrefix, LengthCountsBlocks
<1> QED BY <1>15, <1>16, <1>17 DEF HInv

(* A step that changes nothing.                                            *)
LEMMA StutterStep == ASSUME HInv, UNCHANGED vars PROVE HInv'
BY DEF vars, HInv, TypeOK, IdleIsEmpty, AbsorbedIsPrefix, Taken, LengthCountsBlocks,
       DigestIsOfPaddedMessage, NeverInvalid

(* HInv is inductive.                                                      *)
LEMMA NextHInv == ASSUME HInv, [Next]_vars PROVE HInv'
<1>1. CASE Start
  BY <1>1, HashStartStep
<1>2. ASSUME NEW n \in CallSizes, Process(n) PROVE HInv'
  BY <1>2, ProcessStep
<1>3. CASE TakeBlock
  BY <1>3, TakeBlockStep
<1>4. CASE TakeBytes
  BY <1>4, TakeBytesStep
<1>5. CASE ProcessReturns
  BY <1>5, ReturnStep
<1>6. CASE Done
  BY <1>6, DoneStep
<1>7. CASE UNCHANGED vars
  BY <1>7, StutterStep
<1> QED BY <1>1, <1>2, <1>3, <1>4, <1>5, <1>6, <1>7 DEF Next, Loop

-----------------------------------------------------------------------------
(* The inductive invariant of the streaming interface of the hashes.       *)
THEOREM HashInvariance == Spec => []HInv
<1>1. Init => HInv
  BY InitHInv
<1>2. HInv /\ [Next]_vars => HInv'
  BY NextHInv
<1> QED BY <1>1, <1>2, PTL DEF Spec

(* Every variable keeps its type: in particular curlen stays inside md->buf. *)
THEOREM HashTypeCorrect == Spec => []TypeOK
<1>1. HInv => TypeOK
  BY DEF HInv
<1> QED BY <1>1, HashInvariance, PTL

(* For every message and every way to cut it into calls, the blocks and    *)
(* the buffer hold exactly the bytes that *_process has taken.             *)
THEOREM NothingLostOrRepeated == Spec => []AbsorbedIsPrefix
<1>1. HInv => AbsorbedIsPrefix
  BY DEF HInv
<1> QED BY <1>1, HashInvariance, PTL

(* The digest that *_done returns is the digest of the padded message:     *)
(* it does not depend on the calls nor on earlier uses of the hash_state.  *)
THEOREM DigestIsExact == Spec => []DigestIsOfPaddedMessage
<1>1. HInv => DigestIsOfPaddedMessage
  BY DEF HInv
<1> QED BY <1>1, HashInvariance, PTL

(* Only a piece with which the bits of the message do not fit into         *)
(* md->length is refused with CRYPTO_HASH_OVERFLOW (sha.h:90).             *)
THEOREM OnlyTooLongIsRefused == Spec => RefusedIsTooLong
<1> DEFINE Fits == \A n \in CallSizes :
             Process(n) /\ pc' # "process" /\ ret' = CRYPTO_HASH_OVERFLOW =>
               8 * (total + n) >= Width
<1>1. ASSUME HInv, NEW n \in CallSizes, Process(n), pc' # "process",
             ret' = CRYPTO_HASH_OVERFLOW
      PROVE  8 * (total + n) >= Width
  <2> DEFINE o == Offset(Len(chain))
             x == 8 * o
             y == length + n
  <2>1. pc = "ready" /\ (length + n) % Width < length
    BY <1>1 DEF Process, Rejected, Overflows
  <2>2. n \in Nat /\ Width \in Nat \ {0} /\ total \in Nat /\ curlen \in Nat
        /\ length \in 0 .. Width - 1 /\ left = 0 /\ Len(chain) \in Nat
    <3>1. CallSizes \subseteq Nat /\ Width \in Nat \ {0}
      BY WidthAssumption, CallSizesAssumption
    <3>2. TypeOK /\ IdleIsEmpty
      BY <1>1 DEF HInv
    <3>3. curlen \in Nat
      BY <3>2, Layout DEF TypeOK, Positions
    <3>4. Len(chain) \in Nat
      BY <3>2 DEF TypeOK
    <3> QED
      BY <2>1, <3>1, <3>2, <3>3, <3>4 DEF TypeOK, IdleIsEmpty
  <2>3. length = x % Width
    BY <1>1, <2>1 DEF HInv, LengthCountsBlocks
  <2>4. total = o + curlen
    BY <1>1, <2>1, <2>2 DEF HInv, AbsorbedIsPrefix, Taken
  <2>5. o \in Nat
    BY <2>2, Offsets
  <2> HIDE DEF o
  <2>6. length <= x
    <3>1. x \in Nat
      BY <2>5
    <3> HIDE DEF x
    <3>2. /\ x = Width * (x \div Width) + (x % Width)
          /\ x % Width \in 0 .. Width - 1 /\ x \div Width \in Nat
      BY <2>2, <3>1, Division
    <3> DEFINE q == x \div Width
    <3>3. q \in Nat
      BY <3>2
    <3> HIDE DEF q
    <3>4. Width * q \in Nat
      BY <2>2, <3>3, SMT
    <3>5. x = Width * q + (x % Width) /\ x % Width \in 0 .. Width - 1
      BY <3>2 DEF q
    <3> QED
      BY <2>2, <2>3, <3>1, <3>4, <3>5
  <2>7. y >= Width
    <3> SUFFICES ASSUME y < Width PROVE FALSE
      BY <2>2
    <3>1. y \in 0 .. Width - 1 /\ y \in Nat /\ y >= length
      BY <2>2
    <3>2. y % Width = y
      <4> HIDE DEF y
      <4>1. y = Width * 0 + y
        BY <2>2, <3>1, SMT
      <4> QED
        BY <2>2, <3>1, <4>1, RemainderIsUnique
    <3> QED
      BY <2>1, <2>2, <3>1, <3>2
  <2> QED
    BY <2>2, <2>4, <2>5, <2>6, <2>7
<1>2. HInv => Fits
  <2> HIDE DEF HInv
  <2> QED BY <1>1
<1> QED
  BY <1>2, HashInvariance, PTL DEF RefusedIsTooLong

(* CRYPTO_INVALID_ARG is never returned to a caller that begins with       *)
(* *_init.                                                                 *)
THEOREM StateIsNeverRejected == Spec => []NeverInvalid
<1>1. HInv => NeverInvalid
  BY DEF HInv
<1> QED BY <1>1, HashInvariance, PTL

-----------------------------------------------------------------------------
(* The block modes: addresses.                                             *)
LEMMA BlockLayout ==
  BlockBytes \in Nat \ {0} /\ BlockBytes \in Int /\ MemSize \in Nat
BY MemoryAssumption

(* Where the next block begins.                                            *)
LEMMA NextBlock ==
  ASSUME NEW p \in Nat, NEW j \in Nat
  PROVE  /\ At(p, j) \in Nat
         /\ At(p, j + 1) = At(p, j) + BlockBytes
         /\ At(p, 0) = p
<1>1. BlockBytes * (j + 1) = BlockBytes * j + BlockBytes * 1
  BY BlockLayout, Distributes
<1>2. BlockBytes * 1 = BlockBytes /\ BlockBytes * 0 = 0 /\ BlockBytes * j \in Nat
  BY BlockLayout, SMT
<1> QED
  BY <1>1, <1>2, BlockLayout DEF At

(* A block ends before a later one begins.                                 *)
LEMMA BlocksApart ==
  ASSUME NEW p \in Nat, NEW i \in Nat, NEW j \in 0 .. i - 1
  PROVE  /\ j \in Nat /\ At(p, j) \in Nat /\ At(p, i) \in Nat
         /\ p <= At(p, j) /\ At(p, j) + BlockBytes <= At(p, i)
<1> DEFINE k == j + 1
           d == i - k
<1>1. k \in Nat /\ d \in Nat /\ i = k + d /\ j \in Nat
  OBVIOUS
<1>2. BlockBytes * d \in Nat /\ BlockBytes * j \in Nat
  <2> HIDE DEF d, k
  <2> QED BY <1>1, BlockLayout, SMT
<1>3. BlockBytes * (k + d) = BlockBytes * k + BlockBytes * d
  <2> HIDE DEF d, k
  <2> QED BY <1>1, BlockLayout, Distributes
<1>4. At(p, k) = At(p, j) + BlockBytes /\ At(p, j) \in Nat /\ At(p, k) \in Nat
  <2>1. k \in Nat
    BY <1>1
  <2>2. At(p, j + 1) = At(p, j) + BlockBytes /\ At(p, j) \in Nat
    BY <1>1, NextBlock
  <2> QED
    BY <2>2, BlockLayout
<1>5. BlockBytes * i = BlockBytes * k + BlockBytes * d
  BY <1>1, <1>3
<1> HIDE DEF d, k
<1>6. At(p, i) = p + BlockBytes * i /\ At(p, k) = p + BlockBytes * k
      /\ At(p, j) = p + BlockBytes * j
  BY DEF At
<1>7. BlockBytes * k \in Nat
  BY <1>1, BlockLayout, SMT
<1> QED
  BY <1>1, <1>2, <1>4, <1>5, <1>6, <1>7, BlockLayout

(* A block of a text of c.len bytes lies in it.                            *)
LEMMA BlockInText ==
  ASSUME NEW c \in Calls, NEW p \in Nat, NEW j \in 0 .. NumBlocks(c) - 1
  PROVE  /\ NumBlocks(c) \in Nat /\ j \in Nat /\ At(p, j) \in Nat
         /\ p <= At(p, j) /\ At(p, j) + BlockBytes <= p + c.len
<1> DEFINE n == NumBlocks(c)
           l == c.len
<1>1. l \in Nat
  BY DEF Calls
<1>2. n = l \div BlockBytes
  BY DEF NumBlocks
<1> HIDE DEF n, l
<1>3. l = BlockBytes * n + (l % BlockBytes) /\ l % BlockBytes \in Nat /\ n \in Nat
  <2>1. /\ l = BlockBytes * (l \div BlockBytes) + (l % BlockBytes)
        /\ l % BlockBytes \in 0 .. BlockBytes - 1 /\ l \div BlockBytes \in Nat
    BY <1>1, BlockLayout, Division
  <2>2. \A r \in 0 .. BlockBytes - 1 : r \in Nat
    BY BlockLayout
  <2> QED
    BY <1>2, <2>1, <2>2, Zenon
<1>4. j \in 0 .. n - 1
  BY DEF n
<1>5. /\ j \in Nat /\ At(p, j) \in Nat
      /\ p <= At(p, j) /\ At(p, j) + BlockBytes <= At(p, n)
  BY <1>3, <1>4, BlocksApart
<1>6. At(p, n) = p + BlockBytes * n /\ BlockBytes * n \in Nat
  BY <1>3, BlockLayout, SMT DEF At
<1>7. At(p, j) + BlockBytes <= p + l
  BY <1>1, <1>3, <1>5, <1>6, BlockLayout
<1> QED
  BY <1>3, <1>5, <1>7 DEF n, l

(* The number of blocks of a call is a number.                             *)
LEMMA NumBlocksType == \A c \in Calls : NumBlocks(c) \in Nat
<1> TAKE c \in Calls
<1>1. c.len \in Nat
  BY DEF Calls
<1> QED
  BY <1>1, BlockLayout, Division DEF NumBlocks

-----------------------------------------------------------------------------
(* The block modes: memory and blocks.                                     *)
Memory == [Addresses -> SUBSET ByteBits]

(* XOR with the same block twice gives the block back.                     *)
LEMMA XorTwice ==
  ASSUME NEW a \in Block, NEW b \in Block
  PROVE  XorBlock(a, b) \in Block /\ XorBlock(XorBlock(a, b), b) = a
<1>1. \A i \in InBlock : /\ Xor(a[i], b[i]) \in SUBSET ByteBits
                         /\ Xor(Xor(a[i], b[i]), b[i]) = a[i]
  BY DEF Block, Xor
<1>2. XorBlock(a, b) \in Block
  BY <1>1 DEF XorBlock, Block
<1>3. XorBlock(XorBlock(a, b), b) = [i \in InBlock |-> a[i]]
  BY <1>1 DEF XorBlock
<1> QED
  BY <1>2, <1>3 DEF Block

LEMMA TypeOfCipher ==
  ASSUME NEW k \in Keys, NEW b \in Block
  PROVE  Encrypt[k][b] \in Block /\ Decrypt[k][b] \in Block
BY CipherAssumption

LEMMA ZeroIsBlock == ZeroBlock \in Block
BY DEF ZeroBlock, Block

(* What is copied out of memory is a block.                                *)
LEMMA CopyIsBlock ==
  ASSUME NEW m \in Memory, NEW a \in Nat, a + BlockBytes <= MemSize
  PROVE  BlockAt(m, a) \in Block
<1>1. \A i \in InBlock : a + i \in Addresses
  BY BlockLayout DEF InBlock, Addresses
<1>2. \A i \in InBlock : m[a + i] \in SUBSET ByteBits
  BY <1>1 DEF Memory
<1> QED
  BY <1>2 DEF BlockAt, Block

(* A copy into memory is found there, and changes nothing else.            *)
LEMMA PutThere ==
  ASSUME NEW m \in Memory, NEW a \in Nat, a + BlockBytes <= MemSize,
         NEW b \in Block
  PROVE  /\ Put(m, a, b) \in Memory
         /\ BlockAt(Put(m, a, b), a) = b
         /\ \A x \in Addresses :
              x \notin a .. a + BlockBytes - 1 => Put(m, a, b)[x] = m[x]
<1>1. \A x \in a .. a + BlockBytes - 1 : x - a \in InBlock
  BY BlockLayout DEF InBlock
<1>2. \A x \in Addresses :
        (IF x \in a .. a + BlockBytes - 1 THEN b[x - a] ELSE m[x])
          \in SUBSET ByteBits
  <2> TAKE x \in Addresses
  <2>1. CASE x \in a .. a + BlockBytes - 1
    BY <1>1, <2>1 DEF Block
  <2>2. CASE x \notin a .. a + BlockBytes - 1
    BY <2>2 DEF Memory
  <2> QED
    BY <2>1, <2>2
<1>3. Put(m, a, b) \in Memory
  BY <1>2 DEF Put, Memory
<1>4. ASSUME NEW i \in InBlock
      PROVE  Put(m, a, b)[a + i] = b[i]
  <2>1. a + i \in Addresses /\ a + i \in a .. a + BlockBytes - 1 /\ (a + i) - a = i
    BY BlockLayout DEF InBlock, Addresses
  <2> QED
    BY <2>1 DEF Put
<1>5. BlockAt(Put(m, a, b), a) = [i \in InBlock |-> b[i]]
  BY <1>4 DEF BlockAt
<1> QED
  BY <1>3, <1>5 DEF Block, Put

(* A block is the same in two memories that agree on its bytes.            *)
AgreeAt(m1, m2, a) == \A x \in a .. a + BlockBytes - 1 : m1[x] = m2[x]

LEMMA SameBlock ==
  ASSUME NEW m1, NEW m2, NEW a \in Nat, AgreeAt(m1, m2, a)
  PROVE  BlockAt(m1, a) = BlockAt(m2, a)
<1>1. \A i \in InBlock : a + i \in a .. a + BlockBytes - 1
  BY BlockLayout DEF InBlock
<1>2. \A i \in InBlock : m1[a + i] = m2[a + i]
  BY <1>1 DEF AgreeAt
<1> QED
  BY <1>2 DEF BlockAt

(* A text of blocks in memory.                                             *)
LEMMA TextIsText ==
  ASSUME NEW c \in Calls, NEW m \in Memory, NEW p \in Nat, p + c.len <= MemSize
  PROVE  Text(m, p, NumBlocks(c)) \in Texts(NumBlocks(c))
<1>1. ASSUME NEW j \in 0 .. NumBlocks(c) - 1
      PROVE  BlockAt(m, At(p, j)) \in Block
  <2> DEFINE a == At(p, j)
             l == c.len
  <2>1. l \in Nat
    BY DEF Calls
  <2>2. a \in Nat /\ a + BlockBytes <= p + l
    BY BlockInText
  <2> HIDE DEF a, l
  <2>3. p + l <= MemSize
    BY DEF l
  <2>4. a + BlockBytes <= MemSize
    BY <2>1, <2>2, <2>3, BlockLayout
  <2>5. BlockAt(m, a) \in Block
    BY <2>2, <2>4, CopyIsBlock
  <2> QED
    BY <2>5 DEF a
<1> QED
  BY <1>1 DEF Text, Texts

-----------------------------------------------------------------------------
(* The invariant holds at first.                                           *)
LEMMA BInitial == ModesInit => BInv
<1> SUFFICES ASSUME ModesInit PROVE BInv
  OBVIOUS
<1> USE DEF ModesInit
<1>1. call \in Calls /\ call.len = 0 /\ call.fn = "aes_ecb_encrypt"
      /\ call.data = 0 /\ call.out = 0 /\ call.iv = 0
  BY DEF Calls, Functions
<1>2. NumBlocks(call) = 0
  <2>1. 0 \div BlockBytes = 0
    BY BlockLayout, SMT
  <2> QED
    BY <1>1, <2>1 DEF NumBlocks
<1>3. mem \in [Addresses -> SUBSET ByteBits]
      /\ before \in [Addresses -> SUBSET ByteBits]
  BY MemoryAssumption
<1>4. tempIv \in Block
  BY ZeroIsBlock
<1>5. sealed.n = 0 /\ sealed.key \in Keys /\ sealed.iv = ZeroBlock
      /\ sealed.plain \in Texts(0) /\ sealed.cipher \in Texts(0)
  BY <1>1 DEF Calls, Text, Texts
<1>6. SealedType
  BY <1>5, ZeroIsBlock DEF SealedType
<1>7. InMemory(call)
  BY <1>1, BlockLayout DEF InMemory, Chained
<1>8. ModesTypeOK
  BY <1>1, <1>2, <1>3, <1>4, <1>6, <1>7, MemoryAssumption DEF ModesTypeOK
<1>9. PointersFollow
  <2>1. At(0, 0) = 0
    BY NextBlock
  <2> QED
    BY <1>1, <2>1 DEF PointersFollow, Chained
<1>10. OnlyOutputIsWritten /\ TempIvIsNext /\ OkIsComplete
       /\ CbcEncryptIsChained /\ CbcDecryptIsChained /\ SealedIsChained
  BY <1>1, <1>2, <1>5 DEF OnlyOutputIsWritten, TempIvIsNext,
     OkIsComplete, CbcEncryptIsChained, CbcDecryptIsChained, SealedIsChained
<1> QED
  BY <1>8, <1>9, <1>10 DEF BInv

-----------------------------------------------------------------------------
(* A call begins with nothing written and the IV of its first block.       *)
LEMMA CallKeeps ==
  ASSUME BInv, Call
  PROVE  BInv'
<1> PICK c \in Arguments : EnterMode(c)
  BY DEF Call
<1> USE DEF EnterMode
<1>1. c \in Calls /\ InMemory(c)
  <2>1. Addresses \subseteq Nat /\ Lens \subseteq Nat
    BY MemoryAssumption DEF Addresses
  <2>2. /\ c \in [fn : Functions, data : Addresses, iv : Addresses, len : Lens,
                  out : Addresses, key : Keys]
        /\ InMemory(c)
    BY DEF Arguments
  <2>3. c \in Calls
    BY <2>1, <2>2 DEF Calls
  <2> QED
    BY <2>2, <2>3
<1>2. NumBlocks(c) \in Nat
  BY <1>1, NumBlocksType
<1>3. ModesTypeOK
  BY DEF BInv
<1>4. c.data \in Nat /\ c.out \in Nat /\ c.iv \in Nat /\ c.key \in Keys
  BY <1>1 DEF Calls
<1>5. Chained(c) => BlockAt(mem, c.iv) \in Block
  <2> SUFFICES ASSUME Chained(c) PROVE BlockAt(mem, c.iv) \in Block
    OBVIOUS
  <2> DEFINE a == c.iv
  <2>1. a \in Nat /\ a + BlockBytes <= MemSize
    BY <1>1, <1>4 DEF InMemory
  <2>2. mem \in Memory
    BY <1>3 DEF ModesTypeOK, Memory
  <2> HIDE DEF a
  <2>3. BlockAt(mem, a) \in Block
    BY <2>1, <2>2, CopyIsBlock
  <2> QED
    BY <2>3 DEF a
<1>6. ModesTypeOK'
  <2>1. tempIv' \in Block /\ mode_pc' \in {"idle", "loop"}
        /\ mode_ret' \in {CRYPTO_OK, CRYPTO_INVALID_DATA_SIZE}
    BY <1>3, <1>5 DEF ModesTypeOK, Call
  <2>2. mem' \in [Addresses -> SUBSET ByteBits]
        /\ before' \in [Addresses -> SUBSET ByteBits]
    BY <1>3 DEF ModesTypeOK
  <2>3. calls' \in 0 .. MaxCalls
    BY <1>3, MemoryAssumption DEF ModesTypeOK, Call
  <2>4. call' \in Calls /\ InMemory(call') /\ mode_i' \in 0 .. NumBlocks(call')
        /\ data' \in Nat /\ out' \in Nat
    BY <1>1, <1>2, <1>4
  <2>5. SealedType'
    BY <1>3 DEF ModesTypeOK, SealedType
  <2> QED
    BY <2>1, <2>2, <2>3, <2>4, <2>5 DEF ModesTypeOK, InMemory, NumBlocks, Chained
<1>7. PointersFollow' /\ OnlyOutputIsWritten'
  <2> DEFINE d == c.data
             o == c.out
  <2>1. d \in Nat /\ o \in Nat
    BY <1>4
  <2> HIDE DEF d, o
  <2>2. At(d, 0) = d /\ At(o, 0) = o
    BY <2>1, NextBlock
  <2> QED
    BY <2>2 DEF PointersFollow, OnlyOutputIsWritten, Chained, d, o
<1>8. CbcEncryptIsChained' /\ CbcDecryptIsChained'
  BY DEF CbcEncryptIsChained, CbcDecryptIsChained
<1>9. TempIvIsNext'
  <2> SUFFICES ASSUME mode_pc' = "loop" PROVE TempIvIsNext'
    BY DEF TempIvIsNext
  <2>1. ~BadLength(c)
    BY DEF Call
  <2>2. Chained(c) => tempIv' = BlockAt(before', call'.iv)
    BY <2>1
  <2> QED
    BY <2>2 DEF TempIvIsNext, Before, Chained
<1>10. SealedIsChained'
  BY DEF BInv, SealedIsChained
<1>11. OkIsComplete'
  <2>1. CASE BadLength(c)
    BY <2>1 DEF OkIsComplete
  <2>2. CASE ~BadLength(c)
    BY <2>2 DEF OkIsComplete
  <2> QED
    BY <2>1, <2>2
<1> QED
  BY <1>6, <1>7, <1>8, <1>9, <1>10, <1>11 DEF BInv

(* The end of a call changes no memory; what it seals is chained.          *)
LEMMA ReturnKeeps ==
  ASSUME BInv, Return
  PROVE  BInv'
<1> USE DEF Return
<1>1. ModesTypeOK /\ mode_i = NumBlocks(call) /\ NumBlocks(call) \in Nat
  BY NumBlocksType DEF BInv, ModesTypeOK
<1> DEFINE n == NumBlocks(call)
<1>2. ASSUME call.fn = "aes_cbc_encrypt", ~OverwritesUnread(call)
      PROVE  SealedType' /\ SealedIsChained'
  <2>1. sealed'.key = call.key /\ sealed'.n = n
        /\ sealed'.iv = BlockAt(before, call.iv)
        /\ sealed'.plain = Text(before, call.data, n)
        /\ sealed'.cipher = Text(mem, call.out, n)
    BY <1>2
  <2>2. call \in Calls /\ InMemory(call) /\ Chained(call)
        /\ mem \in Memory /\ before \in Memory
    BY <1>1, <1>2 DEF ModesTypeOK, Memory, Chained
  <2>3. /\ call.data \in Nat /\ call.out \in Nat /\ call.iv \in Nat
        /\ call.data + call.len <= MemSize /\ call.out + call.len <= MemSize
        /\ call.iv + BlockBytes <= MemSize /\ call.key \in Keys
    BY <2>2 DEF InMemory, Calls
  <2>4. Text(before, call.data, n) \in Texts(n) /\ Text(mem, call.out, n) \in Texts(n)
    <3> DEFINE d == call.data
               o == call.out
    <3>1. d \in Nat /\ o \in Nat /\ d + call.len <= MemSize /\ o + call.len <= MemSize
      BY <2>3
    <3> HIDE DEF d, o
    <3>2. Text(before, d, n) \in Texts(n)
      BY <2>2, <3>1, TextIsText
    <3>3. Text(mem, o, n) \in Texts(n)
      BY <2>2, <3>1, TextIsText
    <3> QED
      BY <3>2, <3>3 DEF d, o
  <2>5. BlockAt(before, call.iv) \in Block
    <3> DEFINE v == call.iv
    <3>1. v \in Nat /\ v + BlockBytes <= MemSize
      BY <2>3
    <3> HIDE DEF v
    <3>2. BlockAt(before, v) \in Block
      BY <2>2, <3>1, CopyIsBlock
    <3> QED
      BY <3>2 DEF v
  <2>6. SealedType'
    <3> DEFINE r == [key |-> call.key, iv |-> BlockAt(before, call.iv), n |-> n,
                     plain |-> Text(before, call.data, n),
                     cipher |-> Text(mem, call.out, n)]
    <3>1. sealed' = r
      BY <1>2
    <3>2. r \in [key : Keys, iv : Block, n : Nat,
                 plain : Texts(n), cipher : Texts(n)]
      BY <1>1, <2>3, <2>4, <2>5
    <3> QED
      BY <1>1, <2>1, <3>1, <3>2 DEF SealedType
  <2>7. SealedIsChained'
    <3> SUFFICES ASSUME NEW j \in 0 .. n - 1
                 PROVE  Text(mem, call.out, n)[j] =
                          Encrypt[call.key][XorBlock(Text(before, call.data, n)[j],
                            IF j = 0 THEN BlockAt(before, call.iv)
                            ELSE Text(mem, call.out, n)[j - 1])]
      BY <2>1 DEF SealedIsChained
    <3>1. BlockAt(mem, At(call.out, j)) =
            Encrypt[call.key][XorBlock(BlockAt(before, At(call.data, j)),
                                       Before(mem, call, call.out, j))]
      BY <1>1, <1>2 DEF BInv, CbcEncryptIsChained
    <3>2. Before(mem, call, call.out, j) =
            IF j = 0 THEN BlockAt(before, call.iv) ELSE Text(mem, call.out, n)[j - 1]
      <4>1. j # 0 => j - 1 \in 0 .. n - 1
        BY <1>1
      <4> QED
        BY <4>1 DEF Before, Text
    <3> QED
      BY <3>1, <3>2 DEF Text
  <2> QED
    BY <2>6, <2>7
<1>3. ASSUME ~(call.fn = "aes_cbc_encrypt" /\ ~OverwritesUnread(call))
      PROVE  SealedType' /\ SealedIsChained'
  <2>1. sealed' = sealed
    BY <1>3
  <2> QED
    BY <1>1, <2>1 DEF BInv, SealedIsChained, SealedType, ModesTypeOK
<1>4. tempIv' \in Block
  BY <1>1, ZeroIsBlock DEF ModesTypeOK
<1>5. PointersFollow' /\ OnlyOutputIsWritten' /\ TempIvIsNext' /\ OkIsComplete'
  BY <1>1 DEF BInv, PointersFollow, OnlyOutputIsWritten, TempIvIsNext, OkIsComplete
<1>6. CbcEncryptIsChained' /\ CbcDecryptIsChained'
  BY DEF BInv, CbcEncryptIsChained, CbcDecryptIsChained, Before
<1> QED
  BY <1>1, <1>2, <1>3, <1>4, <1>5, <1>6 DEF BInv, ModesTypeOK

-----------------------------------------------------------------------------
(* One iteration of any of the four loops, seen from outside: one block is *)
(* written, at the pointer to the output, and the counter advances.        *)
LoopWrites(v) ==
  /\ mode_pc = "loop" /\ mode_i < NumBlocks(call)
  /\ v \in Block
  /\ mem' = Put(mem, out, v)
  /\ mode_i' = mode_i + 1 /\ out' = out + BlockBytes
  /\ data' = data + (IF Chained(call) THEN BlockBytes ELSE 0)
  /\ tempIv' \in Block

(* Where an iteration reads and writes is inside the buffers.              *)
LEMMA LoopInside ==
  ASSUME BInv, mode_i < NumBlocks(call)
  PROVE  /\ mem \in Memory /\ before \in Memory
         /\ mode_i \in Nat /\ NumBlocks(call) \in Nat
         /\ call \in Calls /\ call.key \in Keys /\ call.len \in Nat
         /\ call.data \in Nat /\ call.out \in Nat
         /\ out = At(call.out, mode_i)
         /\ data = At(call.data, IF Chained(call) THEN mode_i ELSE 0)
         /\ data \in Nat /\ data + BlockBytes <= call.data + call.len
         /\ call.data + call.len <= MemSize
         /\ out \in Nat /\ out + BlockBytes <= call.out + call.len
         /\ call.out + call.len <= MemSize
<1> DEFINE d == call.data
           o == call.out
           k == IF Chained(call) THEN mode_i ELSE 0
<1>1. ModesTypeOK /\ PointersFollow /\ call \in Calls /\ InMemory(call)
  BY DEF BInv, ModesTypeOK
<1>2. NumBlocks(call) \in Nat /\ mode_i \in Nat
  BY <1>1, NumBlocksType DEF ModesTypeOK
<1>3. d \in Nat /\ o \in Nat /\ call.key \in Keys /\ call.len \in Nat
  BY <1>1 DEF Calls
<1>4. mode_i \in 0 .. NumBlocks(call) - 1 /\ k \in 0 .. NumBlocks(call) - 1
  BY <1>2
<1>5. out = At(o, mode_i) /\ data = At(d, k)
  BY <1>1 DEF PointersFollow
<1>6. d + call.len <= MemSize /\ o + call.len <= MemSize
  BY <1>1 DEF InMemory
<1> HIDE DEF d, o, k
<1>7. At(o, mode_i) \in Nat /\ At(o, mode_i) + BlockBytes <= o + call.len
  BY <1>1, <1>3, <1>4, BlockInText
<1>8. At(d, k) \in Nat /\ At(d, k) + BlockBytes <= d + call.len
  BY <1>1, <1>3, <1>4, BlockInText
<1>9. mem \in Memory /\ before \in Memory
  BY <1>1 DEF ModesTypeOK, Memory
<1> QED
  BY <1>1, <1>2, <1>3, <1>5, <1>6, <1>7, <1>8, <1>9 DEF d, o, k

(* The block at the pointer to the input, whatever memory it is read from. *)
LEMMA LoopReads ==
  ASSUME BInv, mode_i < NumBlocks(call), NEW m \in Memory
  PROVE  BlockAt(m, data) \in Block
<1>1. /\ data \in Nat /\ data + BlockBytes <= call.data + call.len
      /\ call.data + call.len <= MemSize /\ call.data \in Nat /\ call.len \in Nat
  BY LoopInside
<1>2. data + BlockBytes <= MemSize
  BY <1>1, BlockLayout
<1> QED
  BY <1>1, <1>2, CopyIsBlock

(* What an iteration does to the memory.                                   *)
LEMMA LoopPuts ==
  ASSUME BInv, NEW v \in Block, LoopWrites(v)
  PROVE  /\ mem' \in Memory
         /\ BlockAt(mem', out) = v
         /\ \A x \in Addresses : x \notin out .. out + BlockBytes - 1 => mem'[x] = mem[x]
<1>1. mem' = Put(mem, out, v) /\ mode_i < NumBlocks(call)
  BY DEF LoopWrites
<1>2. /\ mem \in Memory /\ out \in Nat /\ out + BlockBytes <= call.out + call.len
      /\ call.out + call.len <= MemSize /\ call.out \in Nat /\ call.len \in Nat
  BY <1>1, LoopInside
<1>3. out + BlockBytes <= MemSize
  BY <1>2, BlockLayout
<1> QED
  BY <1>1, <1>2, <1>3, PutThere

(* Every iteration is one.                                                 *)
LEMMA LoopStep ==
  ASSUME BInv, ModesLoop
  PROVE  \E v \in Block : LoopWrites(v)
<1>1. mode_pc = "loop" /\ mode_i < NumBlocks(call)
  BY DEF ModesLoop, EcbEncryptBlock, EcbDecryptBlock, EcbBlock, CbcEncryptBlock,
     CbcDecryptBlock, InLoop
<1>2. mem \in Memory /\ call.key \in Keys /\ data \in Nat
  BY <1>1, LoopInside
<1>3. BlockAt(mem, data) \in Block /\ tempIv \in Block
  BY <1>1, <1>2, LoopReads DEF BInv, ModesTypeOK
<1> DEFINE read == BlockAt(mem, data)
           key == call.key
<1>4. read \in Block /\ key \in Keys
  BY <1>2, <1>3
<1> HIDE DEF read, key
<1>5. CASE EcbEncryptBlock
  <2>1. Encrypt[key][read] \in Block
    BY <1>4, TypeOfCipher
  <2>2. LoopWrites(Encrypt[key][read])
    BY <1>1, <1>2, <1>3, <1>5, <2>1
       DEF EcbEncryptBlock, EcbBlock, LoopWrites, Chained, read, key, InLoop
  <2> QED
    BY <2>1, <2>2
<1>6. CASE EcbDecryptBlock
  <2>1. Decrypt[key][read] \in Block
    BY <1>4, TypeOfCipher
  <2>2. LoopWrites(Decrypt[key][read])
    BY <1>1, <1>2, <1>3, <1>6, <2>1
       DEF EcbDecryptBlock, EcbBlock, LoopWrites, Chained, read, key, InLoop
  <2> QED
    BY <2>1, <2>2
<1>7. CASE CbcEncryptBlock
  <2> DEFINE x == XorBlock(read, tempIv)
  <2>1. x \in Block
    BY <1>3, <1>4, XorTwice
  <2> HIDE DEF x
  <2>2. Encrypt[key][x] \in Block
    BY <1>4, <2>1, TypeOfCipher
  <2>3. LoopWrites(Encrypt[key][x])
    BY <1>1, <1>7, <2>2
       DEF CbcEncryptBlock, Advance, InLoop, LoopWrites, Chained, read, key, x
  <2> QED
    BY <2>2, <2>3
<1>8. CASE CbcDecryptBlock
  <2> DEFINE p == Decrypt[key][read]
             v == XorBlock(p, tempIv)
  <2>1. p \in Block
    BY <1>4, TypeOfCipher
  <2> HIDE DEF p
  <2>2. v \in Block
    BY <1>3, <2>1, XorTwice
  <2> HIDE DEF v
  <2>3. mem' = Put(mem, out, v) /\ tempIv' = BlockAt(mem', data) /\ Advance
        /\ call.fn = "aes_cbc_decrypt"
    BY <1>8 DEF CbcDecryptBlock, InLoop, v, p, read, key
  <2>4. mem' \in Memory
    <3>1. /\ out \in Nat /\ out + BlockBytes <= call.out + call.len
          /\ call.out + call.len <= MemSize /\ call.out \in Nat /\ call.len \in Nat
      BY <1>1, LoopInside
    <3>2. out + BlockBytes <= MemSize
      BY <3>1, BlockLayout
    <3> QED
      BY <1>2, <2>2, <2>3, <3>1, <3>2, PutThere
  <2>5. tempIv' \in Block
    BY <1>1, <2>3, <2>4, LoopReads
  <2>6. LoopWrites(v)
    BY <1>1, <2>2, <2>3, <2>5 DEF Advance, LoopWrites, Chained
  <2> QED
    BY <2>2, <2>6
<1> QED
  BY <1>5, <1>6, <1>7, <1>8 DEF ModesLoop

(* Type, pointers and the rest of the memory.                              *)
LEMMA LoopKeepsMemory ==
  ASSUME BInv, ModesLoop
  PROVE  ModesTypeOK' /\ PointersFollow' /\ OnlyOutputIsWritten' /\ OkIsComplete'
         /\ SealedIsChained'
<1>1. PICK v \in Block : LoopWrites(v)
  BY LoopStep
<1>2. ModesTypeOK /\ PointersFollow /\ OnlyOutputIsWritten /\ SealedIsChained
  BY DEF BInv
<1>3. UNCHANGED <<mode_pc, call, mode_ret, before, sealed, calls>>
  BY DEF ModesLoop
<1>4. /\ mode_i < NumBlocks(call) /\ mode_i' = mode_i + 1
      /\ out' = out + BlockBytes /\ mode_pc = "loop"
      /\ data' = data + (IF Chained(call) THEN BlockBytes ELSE 0)
      /\ tempIv' \in Block
  BY <1>1 DEF LoopWrites
<1>5. /\ mode_i \in Nat /\ NumBlocks(call) \in Nat
      /\ call.data \in Nat /\ call.out \in Nat
      /\ out = At(call.out, mode_i)
      /\ data = At(call.data, IF Chained(call) THEN mode_i ELSE 0)
      /\ data \in Nat /\ out \in Nat
  BY <1>4, LoopInside
<1>6. /\ mem' \in Memory
      /\ \A x \in Addresses : x \notin out .. out + BlockBytes - 1 => mem'[x] = mem[x]
  BY <1>1, LoopPuts
<1>7. ModesTypeOK'
  <2>1. SealedType' /\ InMemory(call')
    BY <1>2, <1>3 DEF ModesTypeOK, SealedType
  <2>2. mode_i' \in 0 .. NumBlocks(call') /\ data' \in Nat /\ out' \in Nat
    BY <1>3, <1>4, <1>5, BlockLayout
  <2> QED
    BY <1>2, <1>3, <1>4, <1>6, <2>1, <2>2 DEF ModesTypeOK, Memory
<1>8. PointersFollow'
  <2> DEFINE d == call.data
             o == call.out
  <2>1. d \in Nat /\ o \in Nat
    BY <1>5
  <2> HIDE DEF d, o
  <2>2. At(o, mode_i + 1) = At(o, mode_i) + BlockBytes
    BY <1>5, <2>1, NextBlock
  <2>3. At(d, mode_i + 1) = At(d, mode_i) + BlockBytes
    BY <1>5, <2>1, NextBlock
  <2>4. out' = At(o, mode_i')
    BY <1>4, <1>5, <2>2 DEF o
  <2>5. data' = At(d, IF Chained(call) THEN mode_i' ELSE 0)
    <3>1. CASE Chained(call)
      BY <1>4, <1>5, <2>3, <3>1 DEF d
    <3>2. CASE ~Chained(call)
      BY <1>4, <1>5, <3>2 DEF d
    <3> QED
      BY <3>1, <3>2
  <2> QED
    BY <1>3, <2>4, <2>5 DEF PointersFollow, Chained, d, o
<1>9. OnlyOutputIsWritten'
  <2> SUFFICES ASSUME NEW a \in Addresses, a \notin call.out .. out' - 1
               PROVE  mem'[a] = before[a]
    BY <1>3 DEF OnlyOutputIsWritten
  <2>1. call.out <= out
    <3> DEFINE o == call.out
    <3>1. o \in Nat
      BY <1>5
    <3> HIDE DEF o
    <3>2. BlockBytes * mode_i \in Nat
      BY <1>5, BlockLayout, SMT
    <3> QED
      BY <1>5, <3>1, <3>2 DEF At, o
  <2>2. a \notin out .. out + BlockBytes - 1 /\ a \notin call.out .. out - 1
    BY <1>4, <1>5, <2>1, BlockLayout DEF Addresses
  <2> QED
    BY <1>2, <1>6, <2>2 DEF OnlyOutputIsWritten
<1>10. OkIsComplete' /\ SealedIsChained'
  BY <1>2, <1>3, <1>4 DEF OkIsComplete, SealedIsChained
<1> QED
  BY <1>7, <1>8, <1>9, <1>10

(* What is behind the pointer stays: the blocks that are written.          *)
LEMMA LoopKeepsWritten ==
  ASSUME BInv, ModesLoop, NEW j \in 0 .. mode_i - 1
  PROVE  BlockAt(mem', At(call.out, j)) = BlockAt(mem, At(call.out, j))
<1>1. PICK v \in Block : LoopWrites(v)
  BY LoopStep
<1> DEFINE o == call.out
           a == At(o, j)
<1>2. mode_i < NumBlocks(call)
  BY <1>1 DEF LoopWrites
<1>3. /\ mode_i \in Nat /\ o \in Nat /\ out = At(o, mode_i) /\ out \in Nat
      /\ call.len \in Nat
      /\ out + BlockBytes <= o + call.len /\ o + call.len <= MemSize
  BY <1>2, LoopInside
<1> HIDE DEF o
<1>4. a \in Nat /\ a + BlockBytes <= At(o, mode_i)
  BY <1>3, BlocksApart
<1> HIDE DEF a
<1>5. ASSUME NEW x \in a .. a + BlockBytes - 1
      PROVE  mem'[x] = mem[x]
  <2>1. x \in Addresses /\ x \notin out .. out + BlockBytes - 1
    BY <1>3, <1>4, BlockLayout DEF Addresses
  <2> QED
    BY <1>1, <2>1, LoopPuts
<1>6. AgreeAt(mem', mem, a)
  BY <1>5 DEF AgreeAt
<1>7. BlockAt(mem', a) = BlockAt(mem, a)
  BY <1>4, <1>6, SameBlock
<1> QED
  BY <1>7 DEF a, o

(* Where the bytes of the input lie that an iteration of CBC reads: among  *)
(* the addresses, and where no iteration has written before.  `ahead` is 0 *)
(* for what is read before the iteration writes, one block for what is     *)
(* read after it.                                                          *)
LEMMA InputIsAhead ==
  ASSUME BInv, mode_i < NumBlocks(call), Chained(call),
         NEW ahead \in {0, BlockBytes},
         NEW x \in data .. data + BlockBytes - 1,
         \/ mode_i = 0 /\ ahead = 0
         \/ call.out + ahead <= call.data
         \/ call.data + call.len <= call.out
  PROVE  x \in Addresses /\ x \notin call.out .. out + ahead - 1
<1> DEFINE d == call.data
           o == call.out
           l == call.len
           n == BlockBytes * mode_i
<1>1. /\ mode_i \in Nat /\ d \in Nat /\ o \in Nat /\ l \in Nat
      /\ out = At(o, mode_i) /\ data = At(d, mode_i)
      /\ data \in Nat /\ data + BlockBytes <= d + l /\ d + l <= MemSize
      /\ out \in Nat
  BY LoopInside
<1>2. n \in Nat /\ (mode_i = 0 => n = 0)
  BY <1>1, BlockLayout, SMT
<1>3. out = o + n /\ data = d + n
  BY <1>1 DEF At
<1>4. ahead \in Nat
  BY BlockLayout
<1> HIDE DEF n
<1> USE BlockLayout
<1>5. \/ mode_i = 0 /\ ahead = 0
      \/ o + ahead <= d
      \/ d + l <= o
  OBVIOUS
<1> HIDE DEF d, o, l
<1>6. x \in Addresses
  BY <1>1 DEF Addresses
<1>7. x \notin o .. out + ahead - 1
  <2>1. CASE mode_i = 0 /\ ahead = 0
    BY <1>1, <1>2, <1>3, <2>1
  <2>2. CASE o + ahead <= d
    BY <1>1, <1>2, <1>3, <1>4, <2>2
  <2>3. CASE d + l <= o
    BY <1>1, <1>2, <1>3, <1>4, <2>3
  <2> QED
    BY <1>5, <2>1, <2>2, <2>3
<1> QED
  BY <1>6, <1>7 DEF o

(* An input of CBC that was not overwritten is still that of the caller.   *)
LEMMA InputIsUnread ==
  ASSUME BInv, mode_i < NumBlocks(call), Chained(call),
         \/ mode_i = 0
         \/ call.out <= call.data
         \/ call.data + call.len <= call.out
  PROVE  BlockAt(mem, data) = BlockAt(before, data)
<1>1. data \in Nat /\ out \in Nat /\ call.out \in Nat
  BY LoopInside
<1>2. ASSUME NEW x \in data .. data + BlockBytes - 1
      PROVE  mem[x] = before[x]
  <2> DEFINE ahead == 0
  <2>1. ahead \in {0, BlockBytes} /\ call.out + ahead = call.out
        /\ out + ahead - 1 = out - 1
    BY <1>1
  <2>2. \/ mode_i = 0 /\ ahead = 0
        \/ call.out + ahead <= call.data
        \/ call.data + call.len <= call.out
    BY <1>1
  <2> HIDE DEF ahead
  <2>3. x \in Addresses /\ x \notin call.out .. out + ahead - 1
    BY <2>1, <2>2, InputIsAhead
  <2> QED
    BY <2>1, <2>3 DEF BInv, OnlyOutputIsWritten
<1>3. AgreeAt(mem, before, data)
  BY <1>2 DEF AgreeAt
<1> QED
  BY <1>1, <1>3, SameBlock

(* What `OverwritesUnread` and `OverwritesUnchained` exclude.              *)
LEMMA UnreadPositions ==
  ASSUME BInv, mode_i < NumBlocks(call)
  PROVE  /\ ~OverwritesUnread(call) => \/ mode_i = 0
                                       \/ call.out <= call.data
                                       \/ call.data + call.len <= call.out
         /\ ~OverwritesUnchained(call) =>
              /\ \/ mode_i = 0
                 \/ call.out <= call.data
                 \/ call.data + call.len <= call.out
              /\ \/ mode_i + 1 = NumBlocks(call)
                 \/ call.out + BlockBytes <= call.data
                 \/ call.data + call.len <= call.out
<1>1. /\ mode_i \in Nat /\ NumBlocks(call) \in Nat
      /\ call.data \in Nat /\ call.out \in Nat /\ call.len \in Nat
  BY LoopInside
<1> DEFINE n == NumBlocks(call)
           d == call.data
           o == call.out
           l == call.len
<1>2. n \in Nat /\ d \in Nat /\ o \in Nat /\ l \in Nat /\ mode_i < n
  BY <1>1
<1>3. /\ OverwritesUnread(call) <=> n > 1 /\ d < o /\ o < d + l
      /\ OverwritesUnchained(call) <=> n > 1 /\ d < o + BlockBytes /\ o < d + l
  BY DEF OverwritesUnread, OverwritesUnchained
<1> HIDE DEF n, d, o, l
<1>4. /\ ~(n > 1 /\ d < o /\ o < d + l) => mode_i = 0 \/ o <= d \/ d + l <= o
      /\ ~(n > 1 /\ d < o + BlockBytes /\ o < d + l) =>
           /\ mode_i = 0 \/ o <= d \/ d + l <= o
           /\ mode_i + 1 = n \/ o + BlockBytes <= d \/ d + l <= o
  BY <1>1, <1>2, BlockLayout
<1> QED
  BY <1>3, <1>4 DEF n, d, o, l

(* CBC encryption: the block that is read is still that of the caller.     *)
LEMMA LoopKeepsEncryption ==
  ASSUME BInv, ModesLoop
  PROVE  /\ CbcEncryptIsChained'
         /\ call.fn = "aes_cbc_encrypt" /\ ~OverwritesUnread(call)
              => tempIv' = Before(mem', call, call.out, mode_i + 1)
<1> SUFFICES ASSUME call.fn = "aes_cbc_encrypt", ~OverwritesUnread(call)
             PROVE  CbcEncryptIsChained'
                    /\ tempIv' = Before(mem', call, call.out, mode_i + 1)
  BY DEF ModesLoop, CbcEncryptIsChained
<1> DEFINE temp == Encrypt[call.key][XorBlock(BlockAt(mem, data), tempIv)]
<1>1. /\ tempIv' = temp /\ mem' = Put(mem, out, temp) /\ Advance
      /\ mode_i < NumBlocks(call) /\ call' = call /\ before' = before
      /\ mode_pc = "loop" /\ Chained(call)
  BY DEF ModesLoop, CbcEncryptBlock, EcbEncryptBlock, EcbDecryptBlock, EcbBlock,
     CbcDecryptBlock, InLoop, Chained
<1>2. /\ mode_i \in Nat /\ NumBlocks(call) \in Nat /\ call.out \in Nat
      /\ out = At(call.out, mode_i) /\ data = At(call.data, mode_i)
      /\ mem \in Memory /\ out \in Nat /\ call.key \in Keys
      /\ out + BlockBytes <= call.out + call.len /\ call.len \in Nat
      /\ call.out + call.len <= MemSize
  BY <1>1, LoopInside
<1>3. mode_i' = mode_i + 1
  BY <1>1 DEF Advance
<1>4. BlockAt(mem, data) = BlockAt(before, data)
  BY <1>1, InputIsUnread, UnreadPositions
<1>5. tempIv = Before(mem, call, call.out, mode_i)
  BY <1>1 DEF BInv, TempIvIsNext
<1>6. BlockAt(mem', out) = temp
  <2> DEFINE r == BlockAt(mem, data)
             x == XorBlock(r, tempIv)
             key == call.key
             w == Encrypt[key][x]
  <2>1. r \in Block /\ tempIv \in Block /\ key \in Keys
    BY <1>1, <1>2, LoopReads DEF BInv, ModesTypeOK
  <2> HIDE DEF r, key
  <2>2. x \in Block
    BY <2>1, XorTwice
  <2> HIDE DEF x
  <2>3. w \in Block
    BY <2>1, <2>2, TypeOfCipher
  <2> HIDE DEF w
  <2>4. out + BlockBytes <= MemSize
    BY <1>2, BlockLayout
  <2>5. BlockAt(Put(mem, out, w), out) = w
    BY <1>2, <2>3, <2>4, PutThere
  <2>6. temp = w
    BY DEF w, x, r, key
  <2> QED
    BY <1>1, <2>5, <2>6
<1>7. CbcEncryptIsChained'
  <2> SUFFICES ASSUME NEW j \in 0 .. mode_i
               PROVE  BlockAt(mem', At(call.out, j)) =
                        Encrypt[call.key][XorBlock(BlockAt(before, At(call.data, j)),
                                                   Before(mem', call, call.out, j))]
    BY <1>1, <1>2, <1>3 DEF CbcEncryptIsChained, Before
  <2>1. Before(mem', call, call.out, j) = Before(mem, call, call.out, j)
    <3>1. CASE j = 0
      BY <1>1, <3>1 DEF Before
    <3>2. CASE j # 0
      <4> DEFINE k == j - 1
      <4>1. k \in 0 .. mode_i - 1
        BY <1>2, <3>2
      <4> HIDE DEF k
      <4>2. BlockAt(mem', At(call.out, k)) = BlockAt(mem, At(call.out, k))
        BY <4>1, LoopKeepsWritten
      <4> QED
        BY <1>1, <3>2, <4>2 DEF Before, k
    <3> QED
      BY <3>1, <3>2
  <2>2. CASE j = mode_i
    BY <1>2, <1>4, <1>5, <1>6, <2>1, <2>2
  <2>3. CASE j # mode_i
    <3>1. j \in 0 .. mode_i - 1
      BY <1>2, <2>3
    <3>2. BlockAt(mem', At(call.out, j)) = BlockAt(mem, At(call.out, j))
      BY <3>1, LoopKeepsWritten
    <3> QED
      BY <2>1, <3>1, <3>2 DEF BInv, CbcEncryptIsChained
  <2> QED
    BY <2>2, <2>3
<1>8. tempIv' = Before(mem', call, call.out, mode_i + 1)
  <2>1. (mode_i + 1) - 1 = mode_i /\ mode_i + 1 # 0
    BY <1>2
  <2> QED
    BY <1>1, <1>2, <1>6, <2>1 DEF Before
<1> QED
  BY <1>7, <1>8

(* CBC decryption: the same, and the input survives the write of its       *)
(* iteration, after which it is copied for the next one.                   *)
LEMMA LoopKeepsDecryption ==
  ASSUME BInv, ModesLoop
  PROVE  /\ CbcDecryptIsChained'
         /\ call.fn = "aes_cbc_decrypt" /\ ~OverwritesUnchained(call)
            /\ mode_i + 1 < NumBlocks(call)
              => tempIv' = Before(before, call, call.data, mode_i + 1)
<1> SUFFICES ASSUME call.fn = "aes_cbc_decrypt", ~OverwritesUnchained(call)
             PROVE  CbcDecryptIsChained'
                    /\ (mode_i + 1 < NumBlocks(call) =>
                          tempIv' = Before(before, call, call.data, mode_i + 1))
  BY DEF ModesLoop, CbcDecryptIsChained
<1> DEFINE plain == XorBlock(Decrypt[call.key][BlockAt(mem, data)], tempIv)
<1>1. /\ tempIv' = BlockAt(mem', data) /\ mem' = Put(mem, out, plain) /\ Advance
      /\ mode_i < NumBlocks(call) /\ call' = call /\ before' = before
      /\ mode_pc = "loop" /\ Chained(call)
  BY DEF ModesLoop, CbcEncryptBlock, EcbEncryptBlock, EcbDecryptBlock, EcbBlock,
     CbcDecryptBlock, InLoop, Chained
<1>2. /\ mode_i \in Nat /\ NumBlocks(call) \in Nat /\ call.out \in Nat
      /\ out = At(call.out, mode_i) /\ data = At(call.data, mode_i)
      /\ mem \in Memory /\ out \in Nat /\ call.key \in Keys /\ data \in Nat
      /\ out + BlockBytes <= call.out + call.len /\ call.len \in Nat
      /\ call.out + call.len <= MemSize
  BY <1>1, LoopInside
<1>3. mode_i' = mode_i + 1
  BY <1>1 DEF Advance
<1>4. BlockAt(mem, data) = BlockAt(before, data)
  BY <1>1, InputIsUnread, UnreadPositions
<1>5. tempIv = Before(before, call, call.data, mode_i)
  BY <1>1 DEF BInv, TempIvIsNext
<1>6. BlockAt(mem', out) = plain
      /\ \A x \in Addresses : x \notin out .. out + BlockBytes - 1 => mem'[x] = mem[x]
  <2> DEFINE r == BlockAt(mem, data)
             key == call.key
             p == Decrypt[key][r]
             w == XorBlock(p, tempIv)
  <2>1. r \in Block /\ tempIv \in Block /\ key \in Keys
    BY <1>1, <1>2, LoopReads DEF BInv, ModesTypeOK
  <2> HIDE DEF r, key
  <2>2. p \in Block
    BY <2>1, TypeOfCipher
  <2> HIDE DEF p
  <2>3. w \in Block
    BY <2>1, <2>2, XorTwice
  <2> HIDE DEF w
  <2>4. out + BlockBytes <= MemSize
    BY <1>2, BlockLayout
  <2>5. /\ BlockAt(Put(mem, out, w), out) = w
        /\ \A x \in Addresses :
             x \notin out .. out + BlockBytes - 1 => Put(mem, out, w)[x] = mem[x]
    BY <1>2, <2>3, <2>4, PutThere
  <2>6. plain = w
    BY DEF w, p, r, key
  <2> QED
    BY <1>1, <2>5, <2>6
<1>7. CbcDecryptIsChained'
  <2> SUFFICES ASSUME NEW j \in 0 .. mode_i
               PROVE  BlockAt(mem', At(call.out, j)) =
                        XorBlock(Decrypt[call.key][BlockAt(before, At(call.data, j))],
                                 Before(before, call, call.data, j))
    BY <1>1, <1>2, <1>3 DEF CbcDecryptIsChained, Before
  <2>1. CASE j = mode_i
    BY <1>2, <1>4, <1>5, <1>6, <2>1
  <2>2. CASE j # mode_i
    <3>1. j \in 0 .. mode_i - 1
      BY <1>2, <2>2
    <3>2. BlockAt(mem', At(call.out, j)) = BlockAt(mem, At(call.out, j))
      BY <3>1, LoopKeepsWritten
    <3> QED
      BY <3>1, <3>2 DEF BInv, CbcDecryptIsChained
  <2> QED
    BY <2>1, <2>2
<1>8. ASSUME mode_i + 1 < NumBlocks(call)
      PROVE  tempIv' = Before(before, call, call.data, mode_i + 1)
  <2>1. \/ call.out + BlockBytes <= call.data
        \/ call.data + call.len <= call.out
    <3>1. mode_i + 1 # NumBlocks(call)
      BY <1>2, <1>8
    <3> QED
      BY <1>1, <3>1, UnreadPositions
  <2>2. ASSUME NEW x \in data .. data + BlockBytes - 1
        PROVE  mem'[x] = before[x]
    <3> DEFINE ahead == BlockBytes
    <3>1. ahead \in {0, BlockBytes}
          /\ (call.out + ahead <= call.data \/ call.data + call.len <= call.out)
      BY <2>1
    <3>2. x \in Addresses /\ x \notin call.out .. out + ahead - 1
      <4> HIDE DEF ahead
      <4> QED
        BY <1>1, <3>1, InputIsAhead
    <3>3. call.out <= out
      <4> DEFINE o == call.out
      <4>1. BlockBytes * mode_i \in Nat /\ o \in Nat
        BY <1>2, BlockLayout, SMT
      <4> HIDE DEF o
      <4> QED
        BY <1>2, <4>1 DEF At, o
    <3>4. x \notin out .. out + BlockBytes - 1 /\ x \notin call.out .. out - 1
      BY <1>2, <3>2, <3>3, BlockLayout DEF Addresses
    <3>5. mem'[x] = mem[x]
      BY <1>6, <3>2, <3>4
    <3>6. mem[x] = before[x]
      BY <3>2, <3>4 DEF BInv, OnlyOutputIsWritten
    <3> QED
      BY <3>5, <3>6
  <2>3. AgreeAt(mem', before, data)
    BY <2>2 DEF AgreeAt
  <2>4. BlockAt(mem', data) = BlockAt(before, data)
    BY <1>2, <2>3, SameBlock
  <2>5. (mode_i + 1) - 1 = mode_i /\ mode_i + 1 # 0
    BY <1>2
  <2> QED
    BY <1>1, <1>2, <2>4, <2>5 DEF Before
<1> QED
  BY <1>7, <1>8

-----------------------------------------------------------------------------
(* The invariant of the modes: type, pointers, what is written, the chains *)
(* so far, the next IV and the history.                                    *)
THEOREM BlockModesInvariance == ModesSpec => []BInv
<1>1. ModesInit => BInv
  BY BInitial
<1>2. BInv /\ [ModesNext]_modesVars => BInv'
  <2> SUFFICES ASSUME BInv, [ModesNext]_modesVars PROVE BInv'
    OBVIOUS
  <2>1. CASE Call
    BY <2>1, CallKeeps
  <2>2. CASE ModesLoop
    <3>1. TempIvIsNext'
      <4>1. PICK v \in Block : LoopWrites(v)
        BY <2>2, LoopStep
      <4>2. mode_i' = mode_i + 1 /\ call' = call /\ before' = before
        BY <2>2, <4>1 DEF ModesLoop, LoopWrites
      <4> QED
        BY <2>2, <4>2, LoopKeepsEncryption, LoopKeepsDecryption
           DEF TempIvIsNext, Before
    <3> QED
      BY <2>2, <3>1, LoopKeepsMemory, LoopKeepsEncryption, LoopKeepsDecryption
         DEF BInv
  <2>3. CASE Return
    BY <2>3, ReturnKeeps
  <2>4. CASE UNCHANGED modesVars
    BY <2>4 DEF modesVars, BInv, ModesTypeOK, SealedType, PointersFollow,
       OnlyOutputIsWritten, CbcEncryptIsChained, CbcDecryptIsChained,
       TempIvIsNext, SealedIsChained, OkIsComplete, Before
  <2> QED
    BY <2>1, <2>2, <2>3, <2>4 DEF ModesNext
<1> QED
  BY <1>1, <1>2, PTL DEF ModesSpec

(* Type correctness of the modes.                                          *)
THEOREM BlockModesTypeCorrect == ModesSpec => []ModesTypeOK
<1>1. BInv => ModesTypeOK
  BY DEF BInv
<1> QED
  BY <1>1, BlockModesInvariance, PTL

(* No mode writes outside the output of the call (aes.c:406-518).          *)
THEOREM NothingElseIsWritten == ModesSpec => []OnlyOutputIsWritten
<1>1. BInv => OnlyOutputIsWritten
  BY DEF BInv
<1> QED
  BY <1>1, BlockModesInvariance, PTL

(* aes_cbc_encrypt computes CBC, also in place.                            *)
THEOREM CbcEncrypts == ModesSpec => []CbcEncryptIsChained
<1>1. BInv => CbcEncryptIsChained
  BY DEF BInv
<1> QED
  BY <1>1, BlockModesInvariance, PTL

(* What aes_cbc_encrypt has made, aes_cbc_decrypt takes back, at any       *)
(* distance in bytes between its buffers but those at which an output      *)
(* destroys input that is still to be read (aes.c:505-509).                *)
THEOREM CbcRoundTrip == ModesSpec => []CbcDecryptInverts
<1>1. BInv => CbcDecryptInverts
  <2> SUFFICES ASSUME BInv, Finished("aes_cbc_decrypt"),
                      ~OverwritesUnchained(call),
                      call.key = sealed.key, BlockAt(before, call.iv) = sealed.iv,
                      NumBlocks(call) = sealed.n,
                      Text(before, call.data, sealed.n) = sealed.cipher
               PROVE  Text(mem, call.out, sealed.n) = sealed.plain
    BY DEF CbcDecryptInverts
  <2> DEFINE n == sealed.n
             key == sealed.key
  <2>1. /\ n \in Nat /\ mode_i = n /\ key \in Keys /\ sealed.iv \in Block
        /\ sealed.plain \in Texts(n) /\ sealed.cipher \in Texts(n)
    BY DEF BInv, ModesTypeOK, SealedType, OkIsComplete, Finished
  <2>2. ASSUME NEW j \in 0 .. n - 1
        PROVE  BlockAt(mem, At(call.out, j)) = sealed.plain[j]
    <3> DEFINE iv == IF j = 0 THEN sealed.iv ELSE sealed.cipher[j - 1]
               p  == sealed.plain[j]
               x  == XorBlock(p, iv)
    <3>1. sealed.cipher[j] = Encrypt[key][x]
      BY DEF BInv, SealedIsChained
    <3>2. \A m \in 0 .. n - 1 : BlockAt(before, At(call.data, m)) = sealed.cipher[m]
      BY DEF Text
    <3>3. BlockAt(mem, At(call.out, j)) =
            XorBlock(Decrypt[key][BlockAt(before, At(call.data, j))],
                     Before(before, call, call.data, j))
      BY <2>1 DEF BInv, CbcDecryptIsChained, Finished
    <3>4. Before(before, call, call.data, j) = iv
      <4>1. CASE j = 0
        BY <4>1 DEF Before
      <4>2. CASE j # 0
        <5>1. j - 1 \in 0 .. n - 1
          BY <2>1, <4>2
        <5> QED
          BY <3>2, <4>2, <5>1 DEF Before
      <4> QED
        BY <4>1, <4>2
    <3>5. p \in Block /\ iv \in Block
      <4>1. j # 0 => j - 1 \in 0 .. n - 1
        BY <2>1
      <4> QED
        BY <2>1, <4>1 DEF Texts
    <3>6. Decrypt[key][sealed.cipher[j]] = x
      <4> HIDE DEF p, iv, key
      <4>1. x \in Block
        BY <3>5, XorTwice
      <4> HIDE DEF x
      <4> QED
        BY <2>1, <3>1, <4>1, CipherAssumption
    <3>7. BlockAt(mem, At(call.out, j)) = XorBlock(x, iv)
      BY <3>2, <3>3, <3>4, <3>6
    <3>8. XorBlock(x, iv) = p
      <4> HIDE DEF p, iv
      <4> QED
        BY <3>5, XorTwice
    <3> QED
      BY <3>7, <3>8
  <2>3. Text(mem, call.out, n) = [j \in 0 .. n - 1 |-> sealed.plain[j]]
    BY <2>2 DEF Text
  <2> QED
    BY <2>1, <2>3 DEF Texts
<1> QED
  BY <1>1, BlockModesInvariance, PTL

-----------------------------------------------------------------------------
(* The three in one run.                                                   *)

(* A behaviour of the run is a behaviour of each of its parts.             *)
LEMMA StreamsAreParts ==
  StreamsSpec => Spec /\ FortunaSpec /\ ModesSpec
<1>1. StreamsInit => Init /\ FortunaInit /\ ModesInit
  BY DEF StreamsInit
<1>2. [StreamsNext]_streamsVars =>
        [Next]_vars /\ [FortunaNext]_fortunaVars /\ [ModesNext]_modesVars
  BY DEF StreamsNext, HashOnly, FortunaOnly, ModesOnly, streamsVars
<1> QED BY <1>1, <1>2, PTL DEF StreamsSpec, Spec, FortunaSpec, ModesSpec

(* StreamsTypeOK: curlen, the index of the next pool and the pointers of   *)
(* the block modes stay inside what they point into.                       *)
THEOREM StreamsTypeCorrect == StreamsSpec => []StreamsTypeOK
BY StreamsAreParts, HashTypeCorrect, FortunaTypeCorrect, BlockModesTypeCorrect,
   PTL DEF StreamsTypeOK
=============================================================================
