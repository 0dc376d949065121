------------------------------ MODULE HashStream ------------------------------
(***************************************************************************)
(* libnpmcrypto: the streaming interface that MD5, SHA-1, SHA-256 and      *)
(* SHA-512 share.  *_init starts a message, the macro HASH_PROCESS of      *)
(* sha.h cuts the pieces it is given into blocks, through a buffer when a  *)
(* piece does not end where a block does, and *_done pads the rest.        *)
(*                                                                         *)
(* A byte is represented by where it comes from, and the chaining value by *)
(* the sequence of blocks that went through *_compress: two messages with  *)
(* the same blocks have the same digest, and that is all that is used of   *)
(* the compression functions.  A stack of one hash_state has no            *)
(* concurrency; what is hard is that every split of a message into calls   *)
(* takes another way through the loop.                                     *)
(***************************************************************************)
EXTENDS CryptoH, Integers, Sequences

(* What the four algorithms differ in: the size of a block, how full the   *)
(* buffer may be after the 0x80 byte for the length to fit behind it, and  *)
(* where the length is stored.                                             *)
MD5    == [block |-> 64,  room |-> 56,  length |-> 56]
SHA1   == [block |-> 64,  room |-> 56,  length |-> 56]
SHA256 == [block |-> 64,  room |-> 56,  length |-> 56]
SHA512 == [block |-> 128, room |-> 112, length |-> 120]

CONSTANTS
  Algorithm,    (* one of the above, or a smaller one                      *)
  Width,        (* values of the 64-bit counter `length`: 2^64 in the code *)
  CallSizes,    (* the values of inlen                                     *)
  MaxBytes,     (* bound on the bytes of a message                         *)
  MaxMessages   (* bound on the messages hashed with one hash_state        *)

ASSUME AlgorithmAssumption ==
  /\ Algorithm \in [block : Nat, room : Nat, length : Nat]
  /\ 0 < Algorithm.room
  /\ Algorithm.room <= Algorithm.length
  /\ Algorithm.length < Algorithm.block

ASSUME WidthAssumption == Width \in Nat \ {0}

ASSUME CallSizesAssumption == CallSizes \subseteq Nat

ASSUME HashBoundsAssumption == MaxBytes \in Nat /\ MaxMessages \in Nat

VARIABLES
  pc,       (* "raw" memory, "ready" for a call, in the loop, "finished"   *)
  chain,    (* the blocks given to *_compress since *_init                 *)
  buf,      (* md->buf; *_init does not clear it                           *)
  curlen,   (* md->curlen                                                  *)
  length,   (* md->length, in bits                                         *)
  left,     (* inlen: what is left of the piece in the current call        *)
  ret,      (* what the last call returned                                 *)
  message,  (* history: which message is being hashed                      *)
  total     (* history: the bytes given for it, the current call included  *)

vars == <<pc, chain, buf, curlen, length, left, ret, message, total>>

BlockSize == Algorithm.block
Room == Algorithm.room
LengthAt == Algorithm.length
Positions == 0 .. BlockSize - 1

(* Where a byte comes from: position i of a message, the padding, byte i   *)
(* of an encoded length, or whatever was in memory before.                 *)
Data(m, i) == <<"message", m, i>>
One == <<"0x80">>
Zero == <<"0x00">>
LengthByte(n, i) == <<"length", n, i>>
Junk == <<"junk">>

Bytes == ({"message"} \X Nat \X Nat) \cup ({"length"} \X Nat \X Nat)
         \cup {One, Zero, Junk}

Statuses == {CRYPTO_OK, CRYPTO_INVALID_ARG, CRYPTO_HASH_OVERFLOW}

(* The bytes of the message that the loop has consumed.                    *)
Taken == total - left

-----------------------------------------------------------------------------
Init ==
  /\ pc = "raw"
  /\ chain = <<>>
  /\ buf = [i \in Positions |-> Junk]
  /\ curlen = 0 /\ length = 0 /\ left = 0
  /\ ret = CRYPTO_OK
  /\ message = 0 /\ total = 0

(* Mutant: *_init forgets curlen.                                          *)
StartKeepsCurlen ==
  /\ pc \in {"raw", "ready", "finished"}
  /\ message < MaxMessages
  /\ message' = message + 1
  /\ chain' = <<>>
  /\ length' = 0 /\ total' = 0
  /\ ret' = CRYPTO_OK
  /\ pc' = "ready"
  /\ UNCHANGED <<buf, curlen, left>>

(* *_init, at any time between two calls.                                  *)
Start ==
  /\ pc \in {"raw", "ready", "finished"}
  /\ message < MaxMessages
  /\ message' = message + 1
  /\ chain' = <<>>
  /\ curlen' = 0 /\ length' = 0 /\ total' = 0
  /\ ret' = CRYPTO_OK
  /\ pc' = "ready"
  /\ UNCHANGED <<buf, left>>

(* Mutant: the test of HASH_PROCESS refuses a sum that has not changed.    *)
OverflowsOrStays(n) == (length + n) % Width <= length

(* The test of HASH_PROCESS that the counter does not overflow.            *)
Overflows(n) == (length + n) % Width < length

(* A call returns before it has touched the state.                         *)
Rejected(status) ==
  /\ ret' = status
  /\ UNCHANGED <<pc, chain, buf, curlen, length, left, message, total>>

(* *_process is called with n bytes.                                       *)
Process(n) ==
  /\ pc = "ready"
  /\ total + n <= MaxBytes \/ Overflows(n)
  /\ IF curlen > BlockSize THEN Rejected(CRYPTO_INVALID_ARG)
     ELSE IF Overflows(n) THEN Rejected(CRYPTO_HASH_OVERFLOW)
     ELSE /\ pc' = "process"
          /\ left' = n
          /\ total' = total + n
          /\ UNCHANGED <<chain, buf, curlen, length, ret, message>>

(* *_compress of one block, and the length of it in bits.                  *)
Compress(block) ==
  /\ chain' = Append(chain, block)
  /\ length' = (length + 8 * BlockSize) % Width

(* The loop: a whole block is compressed where it is.                      *)
TakeBlock ==
  /\ pc = "process"
  /\ curlen = 0 /\ left >= BlockSize
  /\ Compress([i \in Positions |-> Data(message, Taken + i)])
  /\ left' = left - BlockSize
  /\ UNCHANGED <<pc, buf, curlen, ret, message, total>>

(* n bytes of the piece, copied behind the curlen bytes of the buffer.     *)
Filled(n) ==
  [i \in Positions |->
     IF i \in curlen .. curlen + n - 1 THEN Data(message, Taken + (i - curlen))
                                       ELSE buf[i]]

Smaller(a, b) == IF a <= b THEN a ELSE b

(* Mutant: the loop does not reset curlen after it has compressed the buffer. *)
TakeBytesKeepsCurlen ==
  /\ pc = "process"
  /\ left > 0
  /\ ~(curlen = 0 /\ left >= BlockSize)
  /\ LET n == Smaller(left, BlockSize - curlen)
     IN /\ buf' = Filled(n)
        /\ left' = left - n
        /\ curlen' = curlen + n
        /\ IF curlen + n = BlockSize THEN Compress(Filled(n))
                                 ELSE UNCHANGED <<chain, length>>
  /\ UNCHANGED <<pc, ret, message, total>>

(* Mutant: the last byte of the buffer is never filled.                    *)
TakeBytesSparesLastByte ==
  /\ pc = "process"
  /\ left > 0
  /\ ~(curlen = 0 /\ left >= BlockSize)
  /\ LET n == Smaller(left, BlockSize - 1 - curlen)
     IN /\ buf' = Filled(n)
        /\ left' = left - n
        /\ curlen' = curlen + n
  /\ UNCHANGED <<pc, chain, length, ret, message, total>>

(* The loop: the buffer is filled, and compressed when it is full.         *)
TakeBytes ==
  /\ pc = "process"
  /\ left > 0
  /\ ~(curlen = 0 /\ left >= BlockSize)
  /\ LET n == Smaller(left, BlockSize - curlen)
     IN /\ buf' = Filled(n)
        /\ left' = left - n
        /\ IF curlen + n = BlockSize
             THEN curlen' = 0 /\ Compress(Filled(n))
             ELSE curlen' = curlen + n /\ UNCHANGED <<chain, length>>
  /\ UNCHANGED <<pc, ret, message, total>>

ProcessReturns ==
  /\ pc = "process"
  /\ left = 0
  /\ ret' = CRYPTO_OK
  /\ pc' = "ready"
  /\ UNCHANGED <<chain, buf, curlen, length, left, message, total>>

(* The first n bytes of a block, and zeros behind them.                    *)
Cleared(block, n) == [i \in Positions |-> IF i < n THEN block[i] ELSE Zero]

(* A block whose end is the length of the message.                         *)
WithLength(block, bits) ==
  [i \in Positions |-> IF i < LengthAt THEN block[i]
                                       ELSE LengthByte(bits, i - LengthAt)]

(* Mutant: *_done tests for room before it counts the 0x80 byte.           *)
PadCountsLate ==
  LET bits   == (length + 8 * curlen) % Width
      marked == [buf EXCEPT ![curlen] = One]
      rest   == Cleared(marked, curlen + 1)
      fits   == curlen <= Room
      last   == WithLength(IF fits THEN rest ELSE Cleared(marked, 0), bits)
  IN /\ chain' = IF fits THEN Append(chain, last)
                         ELSE Append(Append(chain, rest), last)
     /\ buf' = last
     /\ length' = bits
     /\ curlen' = LengthAt

(* *_done: the 0x80 byte, zeros, and the length, in one block or in two.   *)
Pad ==
  LET bits   == (length + 8 * curlen) % Width
      marked == [buf EXCEPT ![curlen] = One]
      rest   == Cleared(marked, curlen + 1)
      fits   == curlen + 1 <= Room
      last   == WithLength(IF fits THEN rest ELSE Cleared(marked, 0), bits)
  IN /\ chain' = IF fits THEN Append(chain, last)
                         ELSE Append(Append(chain, rest), last)
     /\ buf' = last
     /\ length' = bits
     /\ curlen' = LengthAt

Done ==
  /\ pc = "ready"
  /\ IF curlen >= BlockSize THEN Rejected(CRYPTO_INVALID_ARG)
     ELSE /\ Pad
          /\ ret' = CRYPTO_OK
          /\ pc' = "finished"
          /\ UNCHANGED <<left, message, total>>

Loop == TakeBlock \/ TakeBytes \/ ProcessReturns

Next ==
  \/ Start
  \/ \E n \in CallSizes : Process(n)
  \/ Loop
  \/ Done

(* A call that has been made runs to its end.                              *)
Spec == Init /\ [][Next]_vars /\ WF_vars(Loop)

-----------------------------------------------------------------------------
(* Every variable has its type.  curlen never reaches the size of the      *)
(* buffer between two steps, so *_done writes its 0x80 byte inside it.     *)
TypeOK ==
  /\ pc \in {"raw", "ready", "process", "finished"}
  /\ chain \in Seq([Positions -> Bytes])
  /\ buf \in [Positions -> Bytes]
  /\ curlen \in Positions
  /\ length \in 0 .. Width - 1
  /\ left \in Nat
  /\ ret \in Statuses
  /\ message \in Nat
  /\ total \in Nat
  /\ left <= total

(* Byte i of the blocks compressed so far.                                 *)
Offset(k) == BlockSize * k

(* However a message is split into calls of *_process, and whatever an     *)
(* earlier message left in the buffer: between any two steps of the loop   *)
(* the blocks compressed so far and the first curlen bytes of the buffer   *)
(* are, in order and without gap, the bytes taken so far.                  *)
AbsorbedIsPrefix ==
  pc \in {"ready", "process"} =>
    /\ Taken = Offset(Len(chain)) + curlen
    /\ \A k \in 1 .. Len(chain), i \in Positions :
         chain[k][i] = Data(message, Offset(k - 1) + i)
    /\ \A i \in Positions :
         i < curlen => buf[i] = Data(message, Offset(Len(chain)) + i)

(* md->length counts the bits of the compressed blocks, modulo its width.  *)
LengthCountsBlocks ==
  pc \in {"ready", "process"} => length = (8 * Offset(Len(chain))) % Width

(* The padding that the algorithms prescribe, as bytes of a message of     *)
(* `size` bytes that ends with block `blocks`.                             *)
PaddedByte(m, size, blocks, p) ==
  IF p < size THEN Data(m, p)
  ELSE IF p = size THEN One
  ELSE IF p < Offset(blocks - 1) + LengthAt THEN Zero
  ELSE LengthByte((8 * size) % Width, p - Offset(blocks - 1) - LengthAt)

(* What *_done computes is the digest of the whole message: the blocks are *)
(* the message, the 0x80 byte, zeros and the length, in the smallest       *)
(* number of blocks that holds them; no byte of the buffer that is left    *)
(* from before is among them.                                              *)
DigestIsOfPaddedMessage ==
  pc = "finished" =>
    /\ Len(chain) > 0
    /\ Offset(Len(chain) - 1) < total + 1 + (BlockSize - Room)
    /\ total + 1 + (BlockSize - Room) <= Offset(Len(chain))
    /\ \A k \in 1 .. Len(chain), i \in Positions :
         chain[k][i] = PaddedByte(message, total, Len(chain), Offset(k - 1) + i)

(* No sequence of calls that starts with *_init makes *_process or *_done  *)
(* reject its own state.                                                   *)
NeverInvalid == ret # CRYPTO_INVALID_ARG

(* Between two calls nothing of a piece is left.                           *)
IdleIsEmpty == pc # "process" => left = 0

(* The inductive invariant.                                                *)
HInv ==
  /\ TypeOK
  /\ IdleIsEmpty
  /\ AbsorbedIsPrefix
  /\ LengthCountsBlocks
  /\ DigestIsOfPaddedMessage
  /\ NeverInvalid

(* The loop over inlen ends: every call of *_process returns.              *)
CallsReturn == pc = "process" ~> pc = "ready"

(* sha.h:90 adds a number of bytes to a number of bits.  Still, a piece is *)
(* refused with CRYPTO_HASH_OVERFLOW only if the bits of the message would *)
(* not fit into md->length with it: no message that the algorithms can     *)
(* count is refused, however it is split.                                  *)
RefusedIsTooLong ==
  [][\A n \in CallSizes :
       Process(n) /\ pc' # "process" /\ ret' = CRYPTO_HASH_OVERFLOW =>
         8 * (total + n) >= Width]_vars
=============================================================================
